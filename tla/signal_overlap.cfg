SPECIFICATION FairSpec
CONSTANTS
    Requests = {r1, r2}
    Closers = {c1}
    Fingerprints = {f1}
    OrderMode = "taker_allowed"
    MaxTradesPerDay = 1
    MaxOpenPositions = 1
    MaxSignals = 3
    Endings = {"cancelled"}
    MaxOutcomes = 1
    MaxFaults = 1
    None = None
INVARIANTS
    CapOverrunBounded
PROPERTIES
    EveryRequestEnds
CHECK_DEADLOCK FALSE
