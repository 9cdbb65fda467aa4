CONSTANTS
  w1 = w1
  i1 = i1
  i2 = i2
  Owner = {w1, i1}
  None = None
  Phased = {w1}
  TTL <- TtlTwo
  MaxDelay = 2
  MaxCrashes = 1
  MaxFaults = 1
SPECIFICATION FairSpec
INVARIANTS ValidLeasesExclude
PROPERTIES ImplementsLease DeadOwnersLeaseIsTaken LockedProjectDrains
