SPECIFICATION FairSpec
CONSTANTS
  MaxRefs = 3
  MaxFaults = 3
  MaxStarts = 2
  NoState = NoState
INVARIANTS CountsOnlyConfirmed NewestCounts
PROPERTIES GivenUpStays ConfirmedCounts
\* The bot may be stopped for good.
CHECK_DEADLOCK FALSE
