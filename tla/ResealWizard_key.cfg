SPECIFICATION Spec
CONSTANTS
    f1 = f1  f2 = f2  p1 = p1  p2 = p2
    Files = {f1, f2}
    Recorded = {f1}
    Paths = {p1, p2}
    EncPath <- TwoOutputs
    MaxProcs = 2
    None = None
INVARIANTS KeyStays
CHECK_DEADLOCK FALSE
