SPECIFICATION Spec
CONSTANTS
  btc_eth = btc_eth
  aggressive = aggressive
  new_coin = new_coin
  NoOwner = NoOwner
  Strategy = {btc_eth, aggressive, new_coin}
  Competing <- Deployed
  Reserving = {aggressive}
  TTL = 1
  MaxOrders = 2
  MaxCrashes = 1
  Faults = {"read", "claim", "release", "log", "unknown", "crash"}
INVARIANTS MutualExclusion ExposureVisible
PROPERTIES ImplementsMutex LeaseHonoured
\* The run ends when MaxOrders entries have come and gone.
CHECK_DEADLOCK FALSE
