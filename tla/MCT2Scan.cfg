SPECIFICATION Spec
CONSTANTS
  e1 = e1
  e2 = e2
  e3 = e3
  e4 = e4
  t1 = t1
  t2 = t2
  t3 = t3
  t4 = t4
  Built <- MCBuilt
  Added <- MCAdded
  Tids = {t1, t2, t3}
  FirstTid <- MCFirstTid
  Graph <- MCGraph
  Entry = e1
  Exact <- MCExact
  Approx <- MCApprox
  Lb <- MCLb
  Block <- MCBlock
  Matching = {e1, e3, e4}
  Modes <- MCModes
  Window = 1
  None = None
INVARIANTS TypeOK Complete
PROPERTIES StreamSpec
