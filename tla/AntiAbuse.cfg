SPECIFICATION FairSpec
CONSTANTS
    Ip = {ip1}
    Uuid = {u1}
    flood_threshold = 1
    blacklist_sec = 2
    DiskErrors = {"open", "encrypt", "write"}
    MaxCrash = 1
PROPERTIES RestartKeepsList LapsedReclaimed ChangesReachFile
