SPECIFICATION Spec
CONSTANTS
    Proxy = {p1, p2}
    Workers = 2
    Configs <- MCConfigs
    Own <- Bare
    p1 = p1
    p2 = p2
    None = None
    QueueCap = 2
    CANDS = 2
    MaxConnects = 1
    MaxEvents = 0
INVARIANT RelaysMeet
CHECK_DEADLOCK FALSE
