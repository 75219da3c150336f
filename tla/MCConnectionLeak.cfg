SPECIFICATION FairSpec
CONSTANTS
    u1 = u1
    u2 = u2
    w1 = w1
    Users <- MCUsers
    Ensurers <- MCEnsurers
    Subscribers <- MCSubscribers
    Overflow = 2
INVARIANT SocketsReleased
