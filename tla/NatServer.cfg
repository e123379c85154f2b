SPECIFICATION FairSpec
CONSTANTS
    Proxy = {p1, p2}
    Workers = 2
    Configs <- MCConfigs
    Own <- SrcHasOne
    p1 = p1
    p2 = p2
    None = None
    QueueCap = 2
    CANDS = 2
    MaxConnects = 1
    MaxEvents = 1
INVARIANTS TypeOK OfferSound ConnectKept
PROPERTIES Answered DeadLeaves OpenReturns
CHECK_DEADLOCK FALSE
