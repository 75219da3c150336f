SPECIFICATION FullyFairSpec
CONSTANTS
    t1 = t1
    t2 = t2
    b1 = b1
    Calls <- MCTwo
    Binary <- MCBinary
    MaxId = 1
    None = None
CHECK_DEADLOCK FALSE
PROPERTY CallTerminates
