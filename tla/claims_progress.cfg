SPECIFICATION FairSpec
CONSTANTS
  btc_eth = btc_eth
  aggressive = aggressive
  new_coin = new_coin
  NoOwner = NoOwner
  Strategy = {btc_eth, aggressive}
  Competing <- AllCompete
  Reserving = {aggressive}
  TTL = 2
  MaxOrders = 2
  MaxCrashes = 1
  Faults = {"read", "claim", "log", "unknown", "crash"}
PROPERTIES RowReclaimed ResidueOnlyByCrash
\* The run ends when MaxOrders entries have come and gone.
CHECK_DEADLOCK FALSE
