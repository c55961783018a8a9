\* Two validations of R1: before a cancelled encryption and the one that is
\* kept, or one of them in the read-only view after it.
SPECIFICATION Spec
CONSTANTS
    f1 = f1  f2 = f2  p1 = p1  p2 = p2
    Files = {f1, f2}
    Recorded = {f1}
    Paths = {p1, p2}
    EncPath <- TwoOutputs
    MaxProcs = 2
    None = None
INVARIANTS TypeOK SealedOnDisk StoredOpens PendingGone
CHECK_DEADLOCK FALSE
