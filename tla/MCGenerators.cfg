\* The three versions in lockstep, up to three setSeed or setPos calls.
SPECIFICATION Spec
CONSTANTS
  SeedMod = 4
  PosMod = 5
  WordMod = 8
  EpsInv = 4
  SeedShift = 2
  INIT_SEED = 3
  CacheSize = 3
  Hash <- MCHash
  None = None
  MaxMoves = 3
INVARIANTS TypeOK CacheHoldsNext SmallBigAgree
PROPERTIES BigIsStream
