\* The claim of RNG.h:35, with one move.
SPECIFICATION Spec
CONSTANTS
  SeedMod = 4
  PosMod = 5
  WordMod = 8
  EpsInv = 4
  SeedShift = 2
  INIT_SEED = 3
  CacheSize = 3
  Hash <- MCHash
  None = None
  MaxMoves = 1
INVARIANT AllVersionsAgree
