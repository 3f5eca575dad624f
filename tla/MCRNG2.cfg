\* The constructor and 400 draws for each seed; the draws are bounded.
SPECIFICATION Spec
CONSTANTS
  Seeds <- MCSeeds
  MaxDraws = 400
INVARIANTS TypeOK InRange OutputInside Alive
CHECK_DEADLOCK FALSE
