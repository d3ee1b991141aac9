SPECIFICATION Spec
CHECK_DEADLOCK FALSE
CONSTANTS
  c1 = c1
  c2 = c2
  a1 = a1
  a2 = a2
  m1 = m1
  m2 = m2
  k1 = k1
  k2 = k2
  None = None
  Clients <- TwoClients
  Sessions <- TwoSessions
  CommandSet <- RaceCommands
  InitialStores <- RaceStores
  Disciplined = FALSE
  MaxCommands = 3
  MaxCrashes = 1
INVARIANTS
  GasTownFirst
  ModelVersionLocked
  CreditIsBackedBySession
  OneBridge
  FraudSummaryFollowsLoan
  DecisionIsCaused
  ApprovalHadPassed
SYMMETRY Symmetry
