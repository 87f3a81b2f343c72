SPECIFICATION Spec
CONSTANTS
  Backends = {b1, b2}
  Indexes = {i1, i2}
  NSlots = 1
  Dim <- SameDim
  NoIndex = NoIndex
  NoBackend = NoBackend
  MaxAreas = 2
  MaxScans = 1
  MaxDepth = 0
SYMMETRY Symmetry
INVARIANTS ScanReadsOwnIndex
