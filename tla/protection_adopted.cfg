SPECIFICATION Spec
CONSTANTS
    MaxCancels = 2
    MaxRounds = 2
    MaxEntries = 1
    MaxOrders = 3
    MaxEvents = 2
    Failing = {}
INVARIANTS
    AdoptedIsProtected
CHECK_DEADLOCK FALSE
