SPECIFICATION Spec
CHECK_DEADLOCK FALSE
CONSTANTS
  c1 = c1
  c2 = c2
  a1 = a1
  a2 = a2
  m1 = m1
  m2 = m2
  k1 = k1
  k2 = k2
  None = None
  Clients <- TwoClients
  Sessions <- OneSession
  CommandSet <- DecisionCommands
  InitialStores <- ReviewedStores
  Disciplined = TRUE
  MaxCommands = 2
  MaxCrashes = 0
INVARIANTS
  DecisionOnlyInComplianceReview
