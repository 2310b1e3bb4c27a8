SPECIFICATION FairSpec
CONSTANTS
  Window = 120
  Quota = 2
  Others = 1
  MaxN = 2
  Troubles <- BothTroubles
CHECK_DEADLOCK FALSE
INVARIANT
  QuotaCostsNoAnswer
PROPERTY
  Answered
