SPECIFICATION FairSpec
CONSTANTS
    a1 = a1
    a2 = a2
    s1 = s1
    s2 = s2
    m1 = m1
    ZipName = {"x", "y"}
    MaxAttempts = 2
    MaxDrop = 2
    MaxHitch = 1
    Kinds = {"static", "frontend", "container"}
    MaxBuilding = 2
    MaxSync = 1
    MaxShift = 2
    Addr = {a1, a2}
    NoAddr = NoAddr
    Place = {s1, s2}
    Refresher = {m1}
    MaxRoam = 2
    MaxLocked = 1
    MaxBlind = 2
    MaxOutage = 1
    MaxSnare = 1
CHECK_DEADLOCK FALSE
INVARIANTS
    ZipsAreSeen
    BuildIsSpared
PROPERTIES
    SetupIsTrue
    WatchingGoesOn
