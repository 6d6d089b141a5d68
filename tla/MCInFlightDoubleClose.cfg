SPECIFICATION Spec
CONSTANT Request = {r1, r2}
SYMMETRY Symmetry
INVARIANT ClosedOnce
CHECK_DEADLOCK FALSE
