SPECIFICATION MCSpec
CONSTANTS
    t1 = t1
    t2 = t2
    b1 = b1
    Calls <- MCThree
    Binary <- MCBinary
    MaxId = 1
    None = None
CHECK_DEADLOCK FALSE
INVARIANTS
    TypeOK
    RegistryExact
    NoCrossDelivery
    TwoPartWhole
PROPERTIES
    ImplementsContract
    AfterDeadline
    AfterCancel
