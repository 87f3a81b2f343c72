SPECIFICATION Spec
CONSTANTS
  Readers = {r1, r2}
  Writers = {w1, w2}
  Blocks = {0, 1}
  Offsets = {1, 2}
  DirGrow = 0
  PageGrow = 0
  RetireMax = 1
  NoWriter = NoWriter
  MaxArrays = 2
  MaxLookups = 1
SYMMETRY Symmetry
INVARIANTS TypeOK ReaderMemorySafe LiveNotFreed InsertsKept
CHECK_DEADLOCK FALSE
