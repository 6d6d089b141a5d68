SPECIFICATION LiveSpec
CONSTANTS
    Caller = {r1, r2}
    CKey = {u1, u2}
    Entry = {e1, e2}
    NoEntry = NoEntry
    Decision = {"redis", "fallback"}
    Nothing = Nothing
    CtxErr = CtxErr
    NoKey = NoKey
    Buffer = {b1, b2}
    NoBuffer = NoBuffer
INVARIANTS
    NoOrphanEntry
    OneFreshLeader
    KeyIntact
    InFlightCoversResources
    PaidIsAnswered
PROPERTY EveryCheckReturns
