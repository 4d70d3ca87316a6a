SPECIFICATION Spec
CONSTANTS
    s1 = s1
    s2 = s2
    c1 = c1
    c2 = c2
    n1 = n1
    n2 = n2
    r1 = r1
    r2 = r2
    b1 = b1
    a1 = a1
    a2 = a2
    h1 = h1
    h2 = h2
    w1 = w1
    w2 = w2
    q1 = q1
    g1 = g1
    g2 = g2
    t1 = t1
    t2 = t2
    f1 = f1
    f2 = f2
    Site = {s1, s2}
    Aliased = {s1}
    Switcher = {c1, c2}
    Resident = {c2}
    NoOne = NoOne
    MaxSwitch = 2
    MaxFault = 1
    MaxOther = 1
    Ours = {c1, c2}
    Theirs = {}
    Nobody = Nobody
    Port = {t1, t2}
    Legacy = Legacy
    MaxPid = 4
    NoPid = 0
    MaxCmd = 2
    MaxCaddyTrouble = 1
    Renderer = {r1, r2}
    NoRenderer = NoRenderer
    Net = {n1, n2}
    MaxSerial = 3
    MaxTrip = 3
    AliasSite = {s1}
    Box = {b1}
    Slug = {a1, a2}
    NoSlug = NoSlug
    Finisher = {f1, f2}
    MaxAsk = 2
    MaxStart = 2
    MaxAliasTrouble = 1
    Static = {h1, h2}
    Spa = {h1}
    HostPort = {1, 2}
    NoHostPort = NoHostPort
    DeadPid = DeadPid
    NoStatic = NoStatic
    Foreign = Foreign
    MaxHost = 3
    MaxMiss = 2
    MaxForeign = 1
    ServicePort = {w1, w2}
    SparePort = {q1}
    Guest = {g1, g2}
    HostAddr = {n1, n2}
    MaxShift = 1
CHECK_DEADLOCK FALSE
INVARIANTS
    MasterIsSafe
    CertIsSafe
    VerdictIsTrue
PROPERTIES
    SwitchIsSafe
    AliasIsSafe
    HostIsSafe
