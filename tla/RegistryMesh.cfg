SPECIFICATION FairSpec
CONSTANTS
    Servers = {1, 2, 3}
    Links <- Mesh
    Homes = {1}
    TTL = 1
    SYNC_HOP_MAX = 2
    SnapEvery = 3
    Phase <- InTurn
    MaxBeats = 1
    MaxFaults = 0
    Crashing = {}
    LateDels = TRUE
PROPERTY DeletionsDieOut
