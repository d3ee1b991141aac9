SPECIFICATION FairSpec
CONSTANTS
  w1 = w1
  w2 = w2
  s1 = s1
  None = None
  Writers <- TwoWriters
  Streams <- OneStream
  ExpectedVersions <- SmallVersions
  MaxBatch = 2
  MaxSeq = 3
INVARIANTS
  TypeOK
  PositionsAreContiguous
  StreamOrderIsGlobalOrder
  NoPositionCollision
  OutboxMatchesEvents
PROPERTIES
  RefinesAtomicLog
  ArchivedStreamsAreFrozen
  EveryCallReturns
