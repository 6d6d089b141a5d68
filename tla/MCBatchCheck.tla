----------------------------- MODULE MCBatchCheck ------------------------------
EXTENDS BatchCheck, TLC

R(t, u, c, full) == [target |-> t, user |-> u, cost |-> c, complete |-> full]
MCRequest == {R(t, u, c, full) : t \in {"a", "b"}, u \in {"x", "y"}, c \in 0..2, full \in BOOLEAN}

\* Two targets interleaved, one key twice in a batch, and each kind of invalid
\* request before, between and after valid ones.
MCBatches ==
    {<<>>,
     <<R("a", "x", 1, TRUE), R("b", "x", 2, TRUE), R("a", "y", 2, TRUE)>>,
     <<R("b", "x", 1, TRUE), NilRequest, R("b", "x", 1, TRUE)>>,
     <<R("b", "y", 0, TRUE), R("b", "x", 1, TRUE), R("a", "x", 2, TRUE)>>,
     <<R("a", "x", 1, FALSE), NilRequest, R("a", "y", 1, TRUE)>>}

Symmetry == Permutations(Batch) \cup Permutations(Slab)

==============================================================================
