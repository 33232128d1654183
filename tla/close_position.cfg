SPECIFICATION FairSpec
CONSTANTS
  Position = 5
  Targets = {2, 5}
  Step = 2
  MaxRetries = 1
  Callers = {"hrs", "new_coin"}
  CancelConditional = TRUE
  Faults = {"reject", "unknown", "error"}
INVARIANTS
  NeverOverCloses
  SuccessReached
  GuardKeepsPosition
PROPERTY CloseEnds
\* The close has reached its caller's guard.
CHECK_DEADLOCK FALSE
