\* Two segment sizes, two sources of one name, everything may fail, fair worker.
SPECIFICATION FairSpec
CONSTANTS
  Size = 3
  Segments = {2, 3}
  Keys = {k1, k2}
  Sources = {s1, s2}
  BaseName <- OneName
  MaxVer = 2
  Ids = {n1, n2, n3, n4, n5, n6, n7, n8, n9}
  MaxFaults = 2
  FaultKinds = {"cancel", "read", "save", "kill", "remove"}
  None = None
INVARIANTS OneOrigin
PROPERTIES EventuallySeals SealsSource
