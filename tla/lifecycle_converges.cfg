SPECIFICATION FairSpec
CONSTANTS
    NTrades = 1
    MaxOrders = 8
    Reserve = 4
    MaxFaults = 0
    Clients = {}
    CanReport <- LeanReports
    Monitor = monitor
PROPERTIES
    EntryConverges
    CloseConverges
    StopEventuallyArmed
CHECK_DEADLOCK FALSE
