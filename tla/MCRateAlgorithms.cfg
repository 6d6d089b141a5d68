SPECIFICATION RateSpec
CONSTANTS
    Params <- MCParams
    Cost = {1, 2, 7}
    WindowDefault = 3
    MaxInt = 7
    Scale = 6
    MaxTime = 5
    MaxChanges = 2
CHECK_DEADLOCK FALSE
INVARIANTS
    NeverOverLimit
    RemainingIsExact
PROPERTY NoEarlyAdmission
