SPECIFICATION FairSpec
CONSTANTS
  Jobs = {j1, j2}
  Workers = {w1, w2}
  NoWorker = NoWorker
  MaxAttempts = 2
  ActiveJobsMax = 1
  Lease = 1
  Backoff = 1
  QueuedTTL = 1
  IngestTimeout = 2
INVARIANTS
  TypeOK
  NeverPaidTwice
  StorageHeldOnce
  ActiveJobsBounded
PROPERTIES
  ChargedWhenDelivered
  JobsEnd
