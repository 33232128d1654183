SPECIFICATION FairSpec
CONSTANTS
  i1 = i1
  i2 = i2
  i3 = i3
  s1 = s1
  s2 = s2
  s3 = s3
  Worker = {w1}
  NoWorker = NoWorker
  Symbol = {s1, s2}
  Intent = {i1, i3}
  NoIntent = NoIntent
  SymbolOf <- TwoSymbols
  Margin <- UnitMargins
  Legacy <- NoLegacy
  Candidate <- Modes
  Allocation = {1, 2}
  MaxSlots = 2
  MaxRevision = 2
  Expiry = FALSE
  Others = TRUE
  LostConnection = FALSE
PROPERTIES CeilingHolds PostedUnderItsPolicy SettledReleased

\* A strategy may stop trading: no signal is owed.
CHECK_DEADLOCK FALSE
