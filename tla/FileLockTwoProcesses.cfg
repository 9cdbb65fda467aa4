CONSTANTS
  p1 = p1
  p2 = p2
  t1 = t1
  t2 = t2
  t3 = t3
  Process = {p1, p2}
  Thread = {t1, t2, t3}
  Session = {s1}
  Transfer = {x1}
  Handle = {h1, h2}
  Inode = {i1, i2, i3}
  None = None
  ProcOf <- TwoAndOne
  Mode = {"exclusive"}
  Kinds = {"plain", "persistent", "unlock"}
  MaxCrashes = 1
SPECIFICATION FairSpec
INVARIANTS UnreleasedHandleHasItsFlock LookupStaysTrue NoSidecarLeftBehind
PROPERTIES GuardIsLeft ReleaseReachesTheKernel
