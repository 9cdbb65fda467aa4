CONSTANTS
  Root = {r1, r2, r3}
  Home = r1
  Call = {c1, c2}
  None = None
  MaxRenames = 2
  MaxFaults = 1
SPECIFICATION FairSpec
INVARIANTS OneRenameInside HalfDoneStaysLocked
PROPERTY RootIsHealed
