SPECIFICATION FairSpec
CONSTANTS
  Size = 5
  Attempts = 2
  Preserve = {TRUE, FALSE}
  Faults = {"hidden", "error"}
INVARIANTS ResultExact KnownFillsKept EntryMatchesOrder
PROPERTY WaitEnds
\* The entry has been decided and the order is final.
CHECK_DEADLOCK FALSE
