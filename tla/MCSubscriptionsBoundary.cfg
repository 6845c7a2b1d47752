SPECIFICATION Spec
CONSTANTS
  MaxEvents = 3
  MaxTime = 1
  MaxBusy = 1
  Grace = 1
  BatchSize = 1
  MaxAhead = 0
  Starts <- MCStarts
  Reports <- MCReports
INVARIANT CanceledIsTimed
CHECK_DEADLOCK FALSE
