------------------------------ MODULE RGenWord ------------------------------
(***************************************************************************)
(* The 64-bit word `data' that is the whole state of RGenI (RNG.h): its    *)
(* high 24 bits name a pseudorandom sequence (the seed), its low 40 bits   *)
(* are the position in that sequence, and rand() returns the psdes hash of *)
(* the word before adding one to it.  The word is the record of its two    *)
(* fields, with the carry of `data += 1' from one into the other.          *)
(*                                                                         *)
(* The widths are parameters: the code has SeedMod = 2^24, PosMod = 2^40,  *)
(* WordMod = 2^32 and SeedShift = 2^8.                                     *)
(***************************************************************************)
EXTENDS Integers

CONSTANTS
  SeedMod,     \* number of seeds
  PosMod,      \* number of positions in a sequence
  WordMod,     \* number of values of the uint32_t a client passes as a seed
  SeedShift,   \* the factor of `newSeed <<= 8'
  INIT_SEED,   \* 0x5a5a5a
  CacheSize,   \* _CACHE_SZ, the values RGenC computes ahead
  Hash         \* psdes: the value drawn at a word

Words == [seed : 0..(SeedMod - 1), pos : 0..(PosMod - 1)]

ASSUME WordAssumption ==
  /\ SeedMod \in Nat \ {0}
  /\ PosMod \in Nat \ {0}
  /\ WordMod \in Nat \ {0} /\ SeedMod <= WordMod
  /\ SeedShift \in Nat \ {0}
  /\ INIT_SEED \in 1..(SeedMod - 1)
  /\ CacheSize \in 1..PosMod

ASSUME HashAssumption == Hash \in [Words -> Nat]

\* RGenI's constructor: data(INIT_DATA).
INIT_DATA == [seed |-> INIT_SEED, pos |-> 0]

NextSeed(s) == IF s + 1 = SeedMod THEN 0 ELSE s + 1

PrevSeed(s) == IF s = 0 THEN SeedMod - 1 ELSE s - 1

AdvanceNoCarry(w, k) == [seed |-> w.seed, pos |-> w.pos + k]

\* `data += 1', k times, for k <= PosMod: the position carries into the seed.
Advance(w, k) ==
  IF w.pos + k < PosMod
  THEN [seed |-> w.seed, pos |-> w.pos + k]
  ELSE [seed |-> NextSeed(w.seed), pos |-> w.pos + k - PosMod]

\* The word that k draws lead from to w.
Retreat(w, k) ==
  IF k <= w.pos
  THEN [seed |-> w.seed, pos |-> w.pos - k]
  ELSE [seed |-> PrevSeed(w.seed), pos |-> PosMod + w.pos - k]

\* RGenI::setSeed for s # 0: the position is kept, and of the 32 bits of s
\* shifted left by 40 the high 8 fall out of the word.
WithSeed(w, s) == [seed |-> s % SeedMod, pos |-> w.pos]

\* RGenI::setPos: the seed is kept.
WithPos(w, p) == [seed |-> w.seed, pos |-> p % PosMod]

\* RGenI::_setRandomSeed: h is the hash of the seed and the time of day.  The
\* shift is a shift of a 32-bit integer, so only the low bits of h survive it.
RandomSeed(h) ==
  LET newSeed == (h * SeedShift) % WordMod
  IN  IF newSeed = 0 THEN INIT_SEED ELSE newSeed
=============================================================================
