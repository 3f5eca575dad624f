\* Addresses of five bits, pointers of two bytes, two blocks; the size 30 makes
\* the sum with any alignment from 2 on overflow, and a block of 4 may end directly
\* below the pointer stored for the next.
SPECIFICATION MemSpec
CONSTANTS
  Width = 5
  Top = 18
  W = 2
  Sizes = {0, 3, 4, 30}
  Alignments = {0, 1, 2, 3, 4, 8}
  MaxBlocks = 2
INVARIANTS MemTypeOK BlocksSound
PROPERTY ImplementsAllocator
CHECK_DEADLOCK FALSE
