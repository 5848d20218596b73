SPECIFICATION Spec
CONSTANTS
    Hash = {r1, r2}
    NoHash = NoHash
    Unmarked = Unmarked
    Ignore = {}
    NumProc = 1
    MaxRecord = 4
    MaxVisit = 3
    MaxEpoch = 2
    MaxDepth = 2
    WorkUnits = 2
INVARIANTS ControllerSurvives VisitsConserved
