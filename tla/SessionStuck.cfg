SPECIFICATION FairSpec
CONSTANTS
    SeqMod = 8
    Window = 2
    OooCap = 2
    Senders = {0}
    MaxMsgs = 3
    MaxUnrel = 0
    KeepAlive = {}
    Lifetime = 3
PROPERTY EventuallyDelivered
