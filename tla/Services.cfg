SPECIFICATION Spec
CONSTANTS
    c1 = c1
    c2 = c2
    o1 = o1
    o2 = o2
    u1 = u1
    u2 = u2
    w1 = w1
    w2 = w2
    pl1 = pl1
    k1 = k1
    r1 = r1
    r2 = r2
    f1 = f1
    Cmd = {c1, c2}
    Pid = {1, 2, 3}
    NoPid = NoPid
    Threshold = 2
    MaxCmd = 2
    Caller = {r1}
    MaxSurvey = 2
    MaxUpset = 2
    Printer = {c1, c2}
    MaxIssue = 3
    MaxPrint = 2
    MaxLapse = 2
    Owner = {o1, o2}
    NoOwner = NoOwner
    Svc = {"daemon", "gateway"}
    Target <- TargetDef
    Migrating = {"daemon"}
    MaxAuto = 3
    MaxSnag = 1
    MaxLogin = 1
    Operator = {c1, c2}
    MaxWatcher = 3
    MaxDuty = 2
    MaxWreck = 2
    Updater = {u1, u2}
    Home = {w1, w2}
    NoUpdater = NoUpdater
    MaxRun = 2
    MaxCommit = 2
    MaxMishap = 1
    MaxUser = 1
    Reader = {r1}
    RollKeep = 2
    MaxLine = 6
    MaxRotate = 3
    MaxTrouble = 1
    PlanId = {pl1}
    Key = {k1}
    Request = {r1, r2}
    PlanWorker = {w1, w2}
    SourceFile = {f1}
    PlanTtl = 1
    Retention = 1
    MaxClock = 3
    MaxDeploy = 2
    MaxLoss = 1
    MaxEdit = 3
    MaxMiss = 2
CONSTRAINT Followed
CHECK_DEADLOCK FALSE
INVARIANTS
    ManagerHolds
    DaemonIsSafe
    PlansAreSafe
    ViewsAreExact
    PatrolIsHeard
PROPERTIES
    AutostartObeys
    UpdateIsSafe
