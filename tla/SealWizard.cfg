SPECIFICATION FairSpec
CONSTANTS
    f1 = f1
    f2 = f2
    p1 = p1
    p2 = p2
    Sources = {f1, f2}
    Paths = {p1, p2}
    EncPath <- TwoOutputs
    Subjects = {b1, b2}
    Keys = {k1, k2}
    MaxSigners = 2
    None = None
CHECK_DEADLOCK FALSE
INVARIANTS TypeOK StepsInOrder RecordDescribesFile SharesOpenFile NothingReappears
PROPERTIES FinishedFileStays DialogEnds SigningUnblocks
