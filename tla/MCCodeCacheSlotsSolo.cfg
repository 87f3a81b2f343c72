SPECIFICATION Spec
CONSTANTS
  Backends = {b1}
  Indexes = {i1, i2}
  NSlots = 2
  Dim <- SameDim
  NoIndex = NoIndex
  NoBackend = NoBackend
  MaxAreas = 3
  MaxScans = 2
  MaxDepth = 1
SYMMETRY Symmetry
INVARIANTS RefsBalanced PinsAccounted
