SPECIFICATION FairSpec
CONSTANTS
    w1 = w1
    w2 = w2
    c1 = c1
    c2 = c2
    c3 = c3
    k1 = k1
    k2 = k2
    x1 = x1
    x2 = x2
    NoWorker = NoWorker
    Worker = {w1, w2}
    Call = {c1, c2}
    KeyOf <- Separate
    BodyOf <- CreateThenRebuild
    Canceller = {x1}
    MaxOp = 2
    MaxPending = 2
    MaxCrash = 1
    MaxExpire = 0
    MaxCli = 0
INVARIANTS
    CancelIsTrue
PROPERTIES
    OpEnds
