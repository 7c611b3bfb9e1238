SPECIFICATION Spec
CONSTANTS
    WindowSize = 4
    QueueSize = 2
    MaxStaleness = 1
    Cooldown = 1
    Recoveries = {r1, r2}
    MaxTime = 7
    MaxLag = 1
    MaxLost = 2
    MaxFailed = 1
    Symbols = {s1, s2}
    MaxConcurrent = 1
    Interval = 2
    LoopCooldown = 3
    Staleness = 2
    MaxClock = 8
INVARIANTS
    HolesAreShort
    EntriesSeeClosedCandles
    OneEntryPerCandle
    OneTickPerCandle
    EntriesApart
PROPERTIES
    GapsAreClosed
    LoopEnds
CHECK_DEADLOCK FALSE
