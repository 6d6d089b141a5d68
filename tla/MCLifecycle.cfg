SPECIFICATION LifecycleSpec
CONSTANTS
    r1 = r1
    r2 = r2
    Request = {r1, r2}
    Worker = {"outbox", "sync"}
    Transports <- MCTransports
    Via <- MCVia
CHECK_DEADLOCK FALSE
INVARIANTS
    CountIsExact
    SignalMeansIdle
    SignalNotLost
    CleanReturn
PROPERTIES
    ShutdownReturns
    ServersStop
