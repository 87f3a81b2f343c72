SPECIFICATION FairSpec
CONSTANTS
  e1 = e1
  e2 = e2
  e3 = e3
  e4 = e4
  Elements <- MCElements
  Level <- MCLevel
  Position <- MCPosition
  Partition <- MCPartition
  None = None
  Participants = {p1, p2}
  Indexes <- MCIndexes
  Efc = 2
  PageSpace = 14
  ElementSize = 4
  EntrySize = 3
INVARIANTS TypeOK PublishedComplete LayersConnected DiskMatchesGraph EachRowOnce
PROPERTIES BuildEnds
CHECK_DEADLOCK FALSE
