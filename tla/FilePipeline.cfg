CONSTANTS
  f1 = f1
  f2 = f2
  None = None
  File <- MCFile
  Editable <- OneEditable
  Broken <- NoneBroken
  Bound <- AllOnce
  Mishaps = 1
SPECIFICATION Spec
INVARIANTS SkippedScanIsSafe IndexerClearsWhatItIndexed
CHECK_DEADLOCK FALSE
