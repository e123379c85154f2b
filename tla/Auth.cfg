SPECIFICATION FairSpec
CONSTANTS
    MaxTry = 5
    MaxAside = 1
    MaxLoss = 1
    MaxDup = 1
    MaxNonceExpiry = 1
    MaxSessionExpiry = 1
    MaxRestart = 1
    MaxBan = 1
    MaxSync = 1
    MaxOdd = 1
    MaxEvents = 2
INVARIANTS NonceUsedOnce AdmittedByLogin HandshakeAlive DeniedForCause
PROPERTY LoggedIn
