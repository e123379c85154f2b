SPECIFICATION FairSpec
CONSTANTS
    SeqMod = 8
    Window = 2
    OooCap = 2
    Senders = {0}
    MaxMsgs = 4
    MaxUnrel = 1
    KeepAlive = {0}
    Lifetime = 3
INVARIANTS InOrder OooAhead OooHasRoom AckedExceptFirst
PROPERTIES ChannelSpec DeliveredOnceStarted WindowReopens
