CONSTANTS
  f1 = f1
  f2 = f2
  None = None
  File <- MCFile
  Editable <- NoneEditable
  Broken <- OneBroken
  Bound <- OneFault
  Mishaps = 1
SPECIFICATION FairSpec
PROPERTY ChangeIsRecordedOrMissed
CHECK_DEADLOCK FALSE
