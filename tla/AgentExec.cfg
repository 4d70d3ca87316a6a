SPECIFICATION Spec
CONSTANTS
    w1 = w1
    w2 = w2
    c1 = c1
    c2 = c2
    c3 = c3
    k1 = k1
    k2 = k2
    x1 = x1
    x2 = x2
    NoWorker = NoWorker
    Worker = {w1, w2}
    Call = {c1, c2, c3}
    KeyOf <- TwoShare
    BodyOf <- CreateOrRebuild
    Canceller = {}
    MaxOp = 2
    MaxPending = 2
    MaxCrash = 1
    MaxExpire = 1
    MaxCli = 1
SYMMETRY WorkerSymmetry
INVARIANTS
    AcceptIsTrue
    OneExecutor
PROPERTIES
    CloseOnce
