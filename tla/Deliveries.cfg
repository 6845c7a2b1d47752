SPECIFICATION FairSpec
CONSTANTS
  Items = {m1}
  Marketing = {m1}
  MaxAttempts = 2
  MaxTries = 3
  MaxTasks = 3
  MaxRepairs = 1
  m1 = m1
INVARIANTS
  TypeOK
  StatusIsLastWord
  SentIsLogged
PROPERTIES
  RowsKeepTheirPromise
  QueuedEnds
CHECK_DEADLOCK FALSE
