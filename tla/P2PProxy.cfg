SPECIFICATION FairSpec
CONSTANTS
    Uuid = {u1, u2, u3}
    NoUuid = NoUuid
    Addr = {a1, a2}
    NoAddr = NoAddr
    max_proxy = 2
    RegTTL = 1
    Sources = {a2}
INVARIANTS Capacity TablesAgree PathsSymmetric
PROPERTIES ExpiredReclaimed PathsDecay
