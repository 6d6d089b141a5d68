SPECIFICATION Spec
CONSTANTS
    Batch = {b1, b2}
    NilRequest = NilRequest
    Request <- MCRequest
    Batches <- MCBatches
    Slab = {s1, s2, s3, s4}
SYMMETRY Symmetry
INVARIANTS
    AnswersMatch
    ChargedAsAnswered
