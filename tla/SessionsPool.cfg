SPECIFICATION FairSpec
CONSTANTS
  Session = {s1}
  File = {f1}
  Server = {v1}
  w1 = w1
  w2 = w2
  Worker = {w1, w2}
  Reaper = Reaper
  None = None
  Commands <- MCCommands
  TTL = 0
  MaxTime = 1
  MaxRef = 2
  MaxFaults = 1
INVARIANT NothingOutlivesItsSession
PROPERTY DeadSessionsAreReaped
