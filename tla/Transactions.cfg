CONSTANTS
  t1 = t1
  t2 = t2
  Thread = {t1, t2}
  Commands = {t2}
  None = None
  Conn = {c1, c2}
  a = a
  b = b
  Row = {a, b}
  Programs <- MCPrograms
  MaxAttempts = 2
  MaxFaults = 1
SPECIFICATION FairSpec
INVARIANTS EffectIsAtomic NeverAppliedTwice SuccessMeansCommitted ConnectionsAreAccountedFor
PROPERTIES NoConnectionForever LogicalWriteReturns
CHECK_DEADLOCK FALSE
