SPECIFICATION Spec
CONSTANTS
    MaxCancels = 2
    MaxRounds = 1
    MaxEntries = 2
    MaxOrders = 4
    MaxEvents = 3
    Failing = {"place", "row", "lost", "cancel", "sweep", "position", "partial",
               "startup"}
INVARIANTS
    TypeOK
    FlagHonest
    
PROPERTIES
    ImplementsBook
CHECK_DEADLOCK FALSE
