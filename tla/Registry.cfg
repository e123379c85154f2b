SPECIFICATION FairSpec
CONSTANTS
    Servers = {1, 2, 3}
    Links <- Chain
    Homes = {1}
    TTL = 1
    SYNC_HOP_MAX = 2
    SnapEvery = 3
    Phase <- InTurn
    MaxBeats = 1
    MaxFaults = 1
    Crashing = {1}
    LateDels = FALSE
INVARIANTS NoneFresher HeartbeatReachesAll
PROPERTY Forgotten
