\* One segment size, no failing save: what LayoutInv's theorems assume.
SPECIFICATION Spec
CONSTANTS
  Size = 5
  Segments = {2}
  Keys = {k1, k2}
  Sources = {s1, s2}
  BaseName <- TwoNames
  MaxVer = 2
  Ids = {n1, n2, n3, n4, n5, n6, n7, n8, n9}
  MaxFaults = 3
  FaultKinds = {"cancel", "read", "kill", "remove"}
  None = None
INVARIANTS TypeOK SealedIsSource
PROPERTIES CancelKeepsSegments SealsSource
