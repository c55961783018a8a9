\* A cancelled call, one with another segment size, and the first one again.
SPECIFICATION Spec
CONSTANTS
  Size = 3
  Segments = {1, 3}
  Keys = {k1}
  Sources = {s1}
  BaseName <- TwoNames
  MaxVer = 1
  Ids = {n1, n2, n3, n4, n5, n6, n7, n8, n9}
  MaxFaults = 2
  FaultKinds = {"cancel"}
  None = None
INVARIANTS ResumeCovered
