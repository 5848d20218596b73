SPECIFICATION MCSpec
CONSTANTS
    Client = {c1, c2}
    NoClient = NoClient
    c1 = c1
    c2 = c2
    c3 = c3
    u1 = u1
    u2 = u2
    Name = {n1, n2}
    NoName = NoName
    MaxRef = 2
    MaxCrash = 1
    Uid <- OneUser
    Procs = {0, 1, 2, 3}
    NodeOf <- MCNodeOf
    CtlModes = {"process", "pthread", "application"}
    NumCalls = 1
    PmpiFaults = {"create", "shutdown"}
    MaxOther = 1
CHECK_DEADLOCK FALSE
INVARIANTS ProfilesMatch NoLeftover JobEnds
PROPERTY DeadForgotten
