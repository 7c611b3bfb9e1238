SPECIFICATION Spec
CONSTANTS
    Trades = {t1, t2, t3}
    Requests = {c1}
    Hours = 2
    WeekDays = 2
    CooldownHours = 1
    DailyLimit = 3
    WeeklyLimit = 3
    MaxStreak = 1
    HardStreak = 2
    TradeCap = 4
    MaxTime = 2
SYMMETRY Symmetric
CONSTRAINT Explored
INVARIANTS
    StatsAddUp
    NoEntryPastDailyLimit
    NoEntryWhilePaused
    CooldownsPaidByLosses
PROPERTIES
    ManualPauseKept
CHECK_DEADLOCK FALSE
