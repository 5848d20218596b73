CONSTANTS
  a = a
  b = b
  leader = leader
  NoPid = NoPid
  NoVal = NoVal
  Pid = {a, b}
  Val = {v0, v1}
  Leader <- Alone
  BatchWriters = {a, b}
  Faults = {"crash", "recycle", "restorefail", "savefail"}
  MaxClock = 4
  MaxRef = 2
  MaxCrash = 1
  AccessGroups = {"default", "users"}
  DefaultGroup = "default"
  GroupOrder <- MCOrder
  AllSignals = {"s", "c"}
  AllControls = {"c"}
  Strange = {}
  Admins = {admin}
  MaxWrites = 2
  MaxDamage = 1
SPECIFICATION MCSpec
SYMMETRY Symmetry
INVARIANTS IInv RestorableAlways ServersHaveSessions SessionJustified
