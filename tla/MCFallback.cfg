SPECIFICATION Spec
CONSTANTS
    Listed <- MCListed
    Instance = {"a1", "a2"}
    Key = {"k1"}
    Score <- MCScore
    HashBits = 3
    EnableGlobal = FALSE
    Weights = {1, 2}
    RedisUnhealthyFor = 2
    MembershipUnhealthy = 2
    Interval = 1
    RequireQuorum = TRUE
    QuorumNum = 1
    QuorumDen = 2
    LocalCap = 4
    EmergencyCap = 2
    WindowTicks = 2
    Cost = {1, 2, 4}
    MaxInt = 4
INVARIANTS
    SharedCap
    ModeTracksRedis
