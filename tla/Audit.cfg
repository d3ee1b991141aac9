SPECIFICATION Spec
CHECK_DEADLOCK FALSE
CONSTANTS
  c1 = c1
  c2 = c2
  loan = loan
  agent = agent
  x = x
  None = None
  Checkers <- TwoCheckers
  Kinds <- BothKinds
  Primary <- loan
  EventSorts <- AllSorts
  PageSize = 1
  MaxEvents = 2
  MaxInFlight = 2
  MaxChecks = 3
  MaxTampers = 1
SYMMETRY Symmetry
INVARIANTS
  TypeOK
  TimelineIsComplete
  EvidenceOnlyGrows
  LedgerStopsAtInvalid
  ToolNeverAccuses
