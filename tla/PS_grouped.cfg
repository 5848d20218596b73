CONSTANTS
  a = a
  b = b
  leader = leader
  NoPid = NoPid
  NoVal = NoVal
  Pid = {a, leader}
  Val = {v0, v1}
  Leader <- Grouped
  BatchWriters = {leader}
  Faults = {"crash", "recycle", "restorefail", "savefail"}
  MaxClock = 4
  MaxRef = 2
  MaxCrash = 1
SPECIFICATION Spec
PROPERTY ImplementsWriteSession
