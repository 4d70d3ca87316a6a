SPECIFICATION FairSpec
CONSTANTS
    User = {u1, u2}
    Daemon = Daemon
    NoOne = NoOne
    NoRev = NoRev
    MANUAL_THRESHOLD = 2
    MaxEvent = 2
CHECK_DEADLOCK FALSE
PROPERTIES
    LifeIsSafe
    HealedOrFused
