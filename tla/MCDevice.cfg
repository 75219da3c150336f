SPECIFICATION Spec
CONSTANTS
    a1 = a1
    r1 = r1
    r2 = r2
    p1 = p1
    p2 = p2
    x = x
    y = y
    Actors <- MCActors
    Readers <- MCReaders
    Packages <- MCPackages
    Attempts = 3
    MaxScreen = 1
    None = None
    Values <- MCValues
    Criteria <- MCCriteria
    Indices <- MCIndices
    MaxNodes = 4
    MaxDepth = 2
    Absent = Absent
SYMMETRY MCSymmetry
INVARIANTS
    TypeOK
    ActsOnce
    ScreenSettles
    SearchIsExact
