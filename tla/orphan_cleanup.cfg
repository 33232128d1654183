SPECIFICATION FairSpec
CONSTANTS
    Leg = {"stop"}
    MaxEntries = 2
    MaxOrders = 2
    MaxFaults = 1
    Blind = FALSE
PROPERTIES
    SparesHeld
    RowsKept
    OrphansCleared
CHECK_DEADLOCK FALSE
