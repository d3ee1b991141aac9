SPECIFICATION FairSpec
CONSTANTS
  r1 = r1
  r2 = r2
  p1 = p1
  None = None
  Runners <- TwoRunners
  Projections <- OneProjection
  Rebuildable <- OneProjection
  Modes <- TicksAndRebuilds
  BatchSize = 2
  MaxRetries = 1
  MaxEvents = 3
  MaxInFlight = 2
  MaxCrashes = 1
  MaxRebuilds = 1
INVARIANTS
  TypeOK
  ViewMatchesCheckpoint
  CountedAtMostOnce
  RebuildReplaysEverything
PROPERTIES
  CheckpointNeverGoesBack
  EveryEventIsProjected
