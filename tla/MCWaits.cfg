SPECIFICATION FairSpec
CONSTANTS
    w1 = w1
    t1 = t1
    Waiters <- MCWaiter
    Toasters <- MCToaster
    Stream = Stream
    MaxScreen = 2
    MaxToasts = 1
    MaxWaits = 1
    None = None
CHECK_DEADLOCK FALSE
INVARIANTS
    TypeOK
    NoMissedChange
    StreamBehindWait
    NoMissedToast
PROPERTIES
    ImplementsLink
    InterruptEnds
