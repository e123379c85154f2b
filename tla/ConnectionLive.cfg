SPECIFICATION FairSpec
CONSTANTS
    Clients = {a, b}
    Dialers = {a}
    Configs <- Common
    Networks <- IceOrNothing
    MaxDials = 1
    MaxCloses = 0
    MaxFaults = 0
    MaxLate = 1
    MaxUpsets = 1
PROPERTIES DirectWhenOpen ConnectingSettles
CHECK_DEADLOCK FALSE
