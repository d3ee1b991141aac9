SPECIFICATION Spec
CHECK_DEADLOCK FALSE
CONSTANTS
  l1 = l1
  l2 = l2
  k1 = k1
  k2 = k2
  None = None
  Apps <- TwoApps
  Rules <- TwoRules
  Tiers <- TwoTiers
  Catalogue <- SmallCatalogue
  InitialLogs <- FourLogs
  BatchSize = 4
  MaxRetries = 1
  MaxEvents = 6
  MaxCrashes = 1
INVARIANTS
  TypeOK
  StatusMirrorsTimeline
  SummaryFollowsLoan
  PassedMeansGateOpen
PROPERTIES
  EveryBatchEnds
