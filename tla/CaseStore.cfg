SPECIFICATION Spec
CONSTANTS
    i1 = i1  i2 = i2
    Ids <- MCIds
    None = None
    MaxEvents = 3
    MaxSessions = 3
    MaxSavers = 2
SYMMETRY Symmetry
INVARIANTS
    TypeOK
    BundleTogether
    NothingCrosses
    RowOfNewest
    SharesAgree
CHECK_DEADLOCK FALSE
