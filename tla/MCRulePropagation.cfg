SPECIFICATION Spec
CONSTANTS
    Node = {n1}
    AdminNode = {n1, n2}
    Publisher = {p1, p2}
    Admin = {a1}
    Request = {r1}
    MaxWrites = 2
    BatchLimit = 1
INVARIANTS
    AtLeastOnce
    EventsSuffice
    PoolFollowsEvents
