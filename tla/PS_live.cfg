CONSTANTS
  a = a
  b = b
  leader = leader
  NoPid = NoPid
  NoVal = NoVal
  Pid = {a, b}
  Val = {v0, v1}
  Leader <- Alone
  BatchWriters = {a, b}
  Faults = {"crash"}
  MaxClock = 2
  MaxRef = 1
  MaxCrash = 1
SPECIFICATION FairSpec
PROPERTIES DeadClientClosed DeadWriterReleased
