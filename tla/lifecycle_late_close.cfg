SPECIFICATION Spec
CONSTANTS
    NTrades = 1
    MaxOrders = 5
    Reserve = 0
    MaxFaults = 0
    Clients = {api}
    CanReport <- LeanReports
    Monitor = monitor
PROPERTY
    LateCloseUpdateIgnored
CHECK_DEADLOCK FALSE
