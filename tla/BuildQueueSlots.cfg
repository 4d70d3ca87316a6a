SPECIFICATION Spec
CONSTANTS
    p1 = p1
    p2 = p2
    i1 = i1
    i2 = i2
    Proc = {p1, p2}
    Inst = {i1, i2}
    NoProc = NoProc
    NoInst = NoInst
    Concurrency = 1
    MaxBuild = 2
    MaxCrash = 1
    MaxDbFail = 2
    WaitForever = FALSE
    Cancels <- CancelOne
CHECK_DEADLOCK FALSE
INVARIANTS
    SlotsAreSafe
    RecordsAgree
PROPERTIES
    GateIsSemaphore
