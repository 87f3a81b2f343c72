SPECIFICATION Spec
CONSTANTS
  e1 = e1
  e2 = e2
  e3 = e3
  e4 = e4
  Elements <- MCElements
  Level <- MCLevel
  Position <- MCPosition
  Partition <- MCPartition
  Indexes <- MCIndexes
  Efc = 2
  None = None
  MaxActive <- MCMaxActive
INVARIANTS TypeOK LayerSafe EntryHighest Connected InlineInSync
PROPERTIES NearestKept LoopsEnd
CHECK_DEADLOCK FALSE
