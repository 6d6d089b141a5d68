SPECIFICATION Spec
CONSTANTS
    Node = {n1}
    AdminNode = {n2}
    Publisher = {p1}
    Admin = {a1}
    Request = {r1}
    MaxWrites = 2
    BatchLimit = 1
INVARIANT NewLimiterAfterCutover
