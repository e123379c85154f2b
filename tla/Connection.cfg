SPECIFICATION Spec
CONSTANTS
    Clients = {a, b}
    Dialers = {a}
    Configs <- Common
    Networks <- Open
    MaxDials = 1
    MaxCloses = 1
    MaxFaults = 1
    MaxLate = 1
    MaxUpsets = 1
INVARIANTS NoOrphans ConnectedSends
CHECK_DEADLOCK FALSE
