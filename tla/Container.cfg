CONSTANTS
    Src = {"s1", "s2", "s3"}
    Cfg = {"c1", "c2", "c3"}
    Env = {"e1", "e2"}
    Bad = {"s2", "c2", "e2"}
    Strategies = {"build-first", "stop-first"}
    NoImg = NoImg
    NoGen = NoGen
    NoEnv = NoEnv
    MaxFault = 1
    MaxOp = 3
    MaxEdit = 2
    MaxUpset = 1
SPECIFICATION Spec
CHECK_DEADLOCK FALSE
INVARIANTS
    ServiceSurvives
    OldVersionKept
