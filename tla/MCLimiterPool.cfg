SPECIFICATION LiveSpec
CONSTANTS
    Key = {k1, k2}
    Req = {r1, r2, r3}
    Entry = {e1, e2}
    NoEntry = NoEntry
    MaxEntries = 1
INVARIANTS
    TypeOK
    RefsCountHandles
    MapMirrorsLRU
    MappedAreActive
    RemovedHasCloser
    ClosedOnlyWhenDrained
    NoLostWakeup
PROPERTIES
    RemovedIsClosed
    ImplementsLease
