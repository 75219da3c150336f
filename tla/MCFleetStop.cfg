SPECIFICATION FairSpec
CONSTANTS
    s1 = s1
    s2 = s2
    s3 = s3
    w1 = w1
    Serials <- MCTwo
    Waiters = {}
    FirstPort = 1
    LastPort = 1
    MaxEvents = 2
    None = None
CHECK_DEADLOCK FALSE
PROPERTY StopEnds
