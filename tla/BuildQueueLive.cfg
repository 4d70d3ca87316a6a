SPECIFICATION FairSpec
CONSTANTS
    p1 = p1
    p2 = p2
    i1 = i1
    i2 = i2
    Proc = {p1, p2}
    Inst = {i1}
    NoProc = NoProc
    NoInst = NoInst
    Concurrency = 1
    MaxBuild = 2
    MaxCrash = 1
    MaxDbFail = 0
    WaitForever = TRUE
    Cancels <- CancelOne
CHECK_DEADLOCK FALSE
PROPERTIES
    BuildsGoOn
