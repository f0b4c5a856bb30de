SPECIFICATION AlertSpec
CONSTANTS
    r1 = r1
    r2 = r2
    NoRule = NoRule
    s1 = s1
    s2 = s2
    NoScan = NoScan
    Scans = {s1, s2}
    Rules = {r1, r2}
    OnceRules = {r1}
    Cooldown = 2
    MaxPerDay = 1
    MinutesInDay = 3
    MaxClock = 3
    MaxScans = 3
    MaxEvents = 1
INVARIANTS
    HitsMatchNotifications
    LimitsKeptUnlessRaced
CONSTRAINT ScansOrEvents
SYMMETRY Alike
CHECK_DEADLOCK FALSE
