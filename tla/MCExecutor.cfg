SPECIFICATION FairSpec
CONSTANTS
    r1 = r1
    r2 = r2
    a = a
    b = b
    Runs <- MCRuns
    Serials <- MCSerials
    Tagged <- MCTagged
    Lists <- MCLists
    MaxTargets = 2
    GlobalCap = 2
    RunCaps <- MCRunCaps
    Attempts = 2
    Global = Global
    None = None
INVARIANTS
    TypeOK
    CapHolds
    GlobalPermitsWork
    ResultsComplete
PROPERTIES
    CancelledRunStartsNothing
    RunsEnd
