\* Up to five bytes in calls of up to three, through kernels that hold three
\* and take two at once.
SPECIFICATION FairSpec
CONSTANTS
  MaxLen = 3
  MaxBytes = 5
  Capacity = 3
  MaxIO = 2
  Timeouts = {0, 500000, 1500000}
INVARIANTS TypeOK BufferIsStream ShortOnlyAtEnd
PROPERTIES ImplementsPipe RecvFullyEnds TimeoutEnds
CHECK_DEADLOCK FALSE
