SPECIFICATION Spec
CONSTANTS
    i1 = i1
    v1 = v1
    v2 = v2
    z1 = z1
    p1 = p1
    p2 = p2
    o1 = o1
    o2 = o2
    f1 = f1
    f2 = f2
    g1 = g1
    g2 = g2
    g3 = g3
    Inst = {i1}
    NoJournal = NoJournal
    MaxMove = 2
    MaxUpset = 2
    Content = {v1, v2}
    Nothing = Nothing
    MaxId = 2
    MaxImport = 3
    MaxChange = 2
    Last = 3
    Equal = {1, 3}
    InSub = {1, 2}
    NoSub = NoSub
    NoFiles = NoFiles
    MAX_FALLBACK_CANDIDATES = 3
    MaxStarts = 3
    MaxBad = 3
    Image = {g1, g2, g3}
    MigratingImages = {}
    NoImage = NoImage
    Retention = 1
    MaxBuild = 3
    MaxBack = 2
    MaxTrip = 2
    Value = {v1, v2}
    DbFile = {f1, f2}
    NoSetting = NoSetting
    MaxLine = 2
    MaxAmend = 1
    MaxRender = 2
    MaxSnap = 1
    PruneInst = {1, 2, 3}
    Pruner = {p1, p2}
    Zip = {z1}
    NoZip = NoZip
    MaxTurn = 1
    Opener = {o1, o2}
    Nobody = Nobody
    NewestSchema = 3
    Altering <- Alt
    MaxDeath = 2
    Category = {"build"}
    Writer = {p1, p2}
    Limit = 1
    KeepLogs = 2
    MaxAppend = 5
    MaxTurnover = 3
CONSTRAINT Uncrossed
CHECK_DEADLOCK FALSE
INVARIANTS
    ImportIsSafe
    SchemaIsSafe
    LogsAreWhole
PROPERTIES
    MoveIsSafe
    FallbackIsSafe
    VersionsAreSafe
    EnvIsSafe
    PruningIsSafe
