SPECIFICATION LiveSpec
CONSTANTS
    Caller = {c1, c2, c3}
    FailureThreshold = 2
    HalfOpenMaxCalls = 1
INVARIANTS
    HalfOpenHasCaller
    CounterBounded
PROPERTY RecoversWhenHealthy
