SPECIFICATION Spec
CONSTANTS
    Requests = {r1, r2}
    Closers = {c1}
    Fingerprints = {f1}
    OrderMode = "maker_preferred"
    MaxTradesPerDay = 2
    MaxOpenPositions = 2
    MaxSignals = 2
    Endings = {"filled", "cancelled", "rejected"}
    MaxOutcomes = 1
    MaxFaults = 2
    None = None
SYMMETRY Symmetric
INVARIANTS
    TypeOK
    LiveTradeIsFound
    OneLiveOrder
    RowAgreesWithExchange
    NoStrandedOrder
CHECK_DEADLOCK FALSE
