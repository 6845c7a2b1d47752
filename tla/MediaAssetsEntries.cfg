SPECIFICATION Spec
CONSTANTS
  NumAssets = 1
  NumHolds = 2
  Limits = {2, 3}
  Sizes = {1, 2}
  UploadTTL = 1
  ProcessingTTL = 2
  MaxPublications = 2
CHECK_DEADLOCK FALSE
INVARIANTS EntryFilesKept
