SPECIFICATION Spec
CONSTANTS
    Hash = {r1}
    NoHash = NoHash
    Unmarked = Unmarked
    Ignore = {}
    NumProc = 2
    MaxRecord = 4
    MaxVisit = 2
    MaxEpoch = 0
    MaxDepth = 1
    WorkUnits = 0
INVARIANT HandlesMatch
PROPERTY EndsWhenDead
