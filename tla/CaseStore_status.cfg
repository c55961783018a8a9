SPECIFICATION Spec
CONSTANTS
    i1 = i1  i2 = i2
    Ids <- MCIds
    None = None
    MaxEvents = 2
    MaxSessions = 3
    MaxSavers = 2
SYMMETRY Symmetry
PROPERTIES
    StatusOfHistory
CHECK_DEADLOCK FALSE
