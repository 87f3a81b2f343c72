SPECIFICATION FairSpec
CONSTANTS
  Backends = {b1, b2}
  Indexes = {i1}
  NSlots = 1
  Dim <- SameDim
  NoIndex = NoIndex
  NoBackend = NoBackend
  MaxAreas = 2
  MaxScans = 1
  MaxDepth = 0
PROPERTIES OperationsEnd
