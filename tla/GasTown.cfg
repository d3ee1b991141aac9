SPECIFICATION Spec
CHECK_DEADLOCK FALSE
CONSTANTS
  n1 = n1
  n2 = n2
  t1 = t1
  None = None
  Nodes <- TwoNodes
  Tools <- OneTool
  MaxEvents = 5
  MaxCrashes = 2
INVARIANTS
  NothingForgotten
  UnfinishedNodeIsResumed
