SPECIFICATION FairSpec
CONSTANTS
  HoldFor <- MCNoBranch
  UrgentEvery = 1
  NoticeEvery = 1
  BoundaryEvery = 1
  RecoverAfter = 1
  MaxRefs = 1
  MaxSerial = 1
  MaxTicks = 2
  MaxTrades = 1
  MaxCrashes = 1
  TTL = 1
  MaxWait = 1
  MaxLate = 1
  Statuses = {"VALID"}
  Outcomes = {"ok", "unknown"}
  Degradable = {FALSE}
  NoTtl = NoTtl
  NoRow = NoRow
INVARIANTS AdviceDueAtPump
PROPERTIES ImplementsLedger FactsDelivered RestartsEnd
