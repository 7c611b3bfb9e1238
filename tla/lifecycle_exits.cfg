SPECIFICATION Spec
CONSTANTS
    NTrades = 1
    MaxOrders = 4
    Reserve = 0
    MaxFaults = 0
    Clients = {api}
    CanReport <- ExitReports
    Monitor = monitor
INVARIANTS
    RecordedExitWasFilled
    OutcomeCountedOnce
PROPERTY
    PromiseKept
CHECK_DEADLOCK FALSE
