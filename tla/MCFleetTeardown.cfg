SPECIFICATION Spec
CONSTANTS
    s1 = s1
    s2 = s2
    s3 = s3
    w1 = w1
    Serials <- MCThree
    Waiters = {}
    FirstPort = 1
    LastPort = 2
    MaxEvents = 2
    None = None
CHECK_DEADLOCK FALSE
INVARIANT AllTornDown
