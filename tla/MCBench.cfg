CONSTANT Missions <- Suites
SPECIFICATION Spec
INVARIANTS TypeOK MadeAsNamed TruthMatchesData MetaHonest OnePoint PeakComplete
PROPERTIES NothingLost
CHECK_DEADLOCK FALSE
