SPECIFICATION FairSpec
CONSTANTS
    NTrades = 1
    MaxOrders = 4
    Reserve = 0
    MaxFaults = 0
    Clients = {}
    CanReport <- FillsOnly
    Monitor = monitor
PROPERTY
    MissedExitConverges
CHECK_DEADLOCK FALSE
