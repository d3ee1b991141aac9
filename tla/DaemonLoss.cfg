SPECIFICATION Spec
CONSTANTS
  r1 = r1
  r2 = r2
  p1 = p1
  None = None
  Runners <- TwoRunners
  Projections <- OneProjection
  Rebuildable <- OneProjection
  Modes <- TicksAndRebuilds
  BatchSize = 2
  MaxRetries = 0
  MaxEvents = 2
  MaxInFlight = 2
  MaxCrashes = 0
  MaxRebuilds = 1
INVARIANTS
  NothingSkipped
