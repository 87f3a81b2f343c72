SPECIFICATION Spec
CONSTANTS
  Backends = {b1}
  Indexes = {i1}
  NSlots = 1
  Dim <- SameDim
  NoIndex = NoIndex
  NoBackend = NoBackend
  MaxAreas = 1
  MaxScans = 1
  MaxDepth = 1
SYMMETRY Symmetry
INVARIANTS ScanAreaMapped
