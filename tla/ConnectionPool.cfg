CONSTANTS
  Thread = {t1, t2}
  None = None
  Conn = {c1, c2, c3}
  Pool = {p1, p2, p3}
  Size = 1
  MaxFaults = 2
SPECIFICATION FairSpec
INVARIANTS ConnectionHasOneUser NoForgottenWaiter OpenConnectionsAreOwned
PROPERTIES SlotsAreLent EveryCallReturns
