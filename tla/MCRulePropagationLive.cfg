SPECIFICATION LiveSpec
CONSTANTS
    Node = {n1}
    AdminNode = {n1, n2}
    Publisher = {p1}
    Admin = {a1}
    Request = {}
    MaxWrites = 3
    BatchLimit = 1
PROPERTY CacheConverges
