SPECIFICATION Spec
CONSTANTS
    Requests = {r1, r2}
    Closers = {}
    Fingerprints = {f1}
    OrderMode = "taker_allowed"
    MaxTradesPerDay = 2
    MaxOpenPositions = 2
    MaxSignals = 3
    Endings = {"filled", "cancelled", "rejected"}
    MaxOutcomes = 0
    MaxFaults = 0
    None = None
SYMMETRY Symmetric
INVARIANTS
    OneLiveTradePerFingerprint
CHECK_DEADLOCK FALSE
