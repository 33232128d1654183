SPECIFICATION Spec
CONSTANTS
  i1 = i1
  i2 = i2
  i3 = i3
  s1 = s1
  s2 = s2
  s3 = s3
  Worker = {w1, w2}
  NoWorker = NoWorker
  Symbol = {s1, s2, s3}
  Intent = {i1, i2, i3}
  NoIntent = NoIntent
  SymbolOf <- TwoSymbols
  Margin <- Margins
  Legacy <- OldPosition
  Candidate <- Reduced
  Allocation = {4}
  MaxSlots = 2
  MaxRevision = 1
  Expiry = TRUE
  Others = FALSE
  LostConnection = TRUE
INVARIANTS ExposureReserved OneIntentPerSymbol PostedOnce SlotsHold
SYMMETRY Workers

\* A strategy may stop trading: no signal is owed.
CHECK_DEADLOCK FALSE
