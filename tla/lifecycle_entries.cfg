SPECIFICATION Spec
CONSTANTS
    NTrades = 1
    MaxOrders = 4
    Reserve = 0
    MaxFaults = 1
    Clients = {api}
    CanReport <- EntryReports
    Monitor = monitor
INVARIANTS
    TypeOK
    OpenPositionIsProtected
    UnsentCloseStopsTrading
    NoStrayProtection
PROPERTY
    ExposureNotDropped
CHECK_DEADLOCK FALSE
