SPECIFICATION AdminSpec
CONSTANTS
    Key = {k1, k2}
    Body = {b1, NoAlgorithm}
    NoAlgorithm = NoAlgorithm
    IdemKey = {i1}
    NoIdem = NoIdem
    Client = {c1, c2}
    MaxGen = 2
    MaxVer = 2
SYMMETRY Symmetry
INVARIANTS
    OneCreationPerKey
    VersionIdentifiesRule
    RefusalChangesNothing
    AnnouncedOrReported
PROPERTY NoLostUpdate
