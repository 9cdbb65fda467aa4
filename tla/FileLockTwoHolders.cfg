CONSTANTS
  p1 = p1
  p2 = p2
  t1 = t1
  t2 = t2
  t3 = t3
  Process = {p1, p2}
  Thread = {t1, t2}
  Session = {s1}
  Transfer = {}
  Handle = {h1, h2, h3}
  Inode = {i1, i2, i3}
  None = None
  ProcOf <- OneEach
  Mode = {"exclusive"}
  Kinds = {"plain"}
  MaxCrashes = 0
SPECIFICATION Spec
INVARIANT MutualExclusion
