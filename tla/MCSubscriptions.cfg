SPECIFICATION FairSpec
CONSTANTS
  MaxEvents = 3
  MaxTime = 1
  MaxBusy = 2
  Grace = 1
  BatchSize = 1
  MaxAhead = 1
  Starts <- MCStarts
  Reports <- MCReports
INVARIANTS
  TypeOK
  EventActsOnce
  NewestEventWins
  SnapshotFollowsRow
  BoundaryIsTimed
PROPERTIES
  NobodyIsLockedOutEarly
  Converges
CHECK_DEADLOCK FALSE
