SPECIFICATION Spec
CHECK_DEADLOCK FALSE
CONSTANTS
  c1 = c1
  c2 = c2
  loan = loan
  agent = agent
  x = x
  None = None
  Checkers <- OneChecker
  Kinds <- LedgerOnly
  Primary <- loan
  EventSorts <- PlainSorts
  PageSize = 1
  MaxEvents = 3
  MaxInFlight = 1
  MaxChecks = 2
  MaxTampers = 0
INVARIANTS
  NoFalseAlarm
