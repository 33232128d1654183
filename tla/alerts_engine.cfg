SPECIFICATION Spec
CONSTANTS
  HoldFor <- MCHoldFor
  UrgentEvery = 2
  NoticeEvery = 2
  BoundaryEvery = 2
  RecoverAfter = 1
  MaxRefs = 2
  MaxSerial = 2
  MaxTicks = 3
  MaxTrades = 1
  MaxCrashes = 0
  TTL = 1
  MaxWait = 1
  MaxLate = 1
  Statuses = {"VALID", "SYNC_UNCERTAIN"}
  Outcomes = {"failed"}
  Degradable = {FALSE}
  NoTtl = NoTtl
  NoRow = NoRow
INVARIANTS TypeOK BoundaryRecorded EscalationHeard
