SPECIFICATION Spec
CONSTANTS
    Node <- Node2
    Ctl <- Ctl2
    Kids <- Kids2
    Root = 0
    Budget = 16
    Budgets = {12, 16, 20}
    UseEndpoint = {TRUE, FALSE}
    NoCap = NoCap
    Tdp = 24
    MinPower = 8
    MaxPower = 24
    TrialDelta = 4
    MinDelta = 2
    Runtime = {1, 2}
    MaxStep = 5
INVARIANTS Lockstep WithinBudget
PROPERTY StepEnds
