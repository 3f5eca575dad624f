\* A few bytes and timeouts on both sides of a second: the claims of
\* CommSocket.h:36 and 73-74.
SPECIFICATION FairSpec
CONSTANTS
  MaxLen = 2
  MaxBytes = 2
  Capacity = 2
  MaxIO = 2
  Timeouts = {0, 500000, 1500000}
PROPERTY PromisedEnds
CHECK_DEADLOCK FALSE
