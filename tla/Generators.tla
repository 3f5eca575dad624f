----------------------------- MODULE Generators -----------------------------
(***************************************************************************)
(* The three versions of the generator (RNG.h) under one client that makes *)
(* the same calls, in the same order and at the same time of day, on an    *)
(* RNGSmall (RGenI, computes each value), an RNG (RGenC, reads ahead into  *)
(* a cache) and an RNGMin (RGenO, computes each value out of line).        *)
(***************************************************************************)
EXTENDS RGenWord

CONSTANTS
  None,      \* returned by a void call; an uninitialised cell of the cache
  MaxMoves   \* bound: calls of setSeed and setPos in one behaviour

ASSUME GeneratorAssumption == None \notin Nat /\ MaxMoves \in Nat

VARIABLES
  small,     \* RNGSmall: RGenI::data
  gen,       \* RNG: RGenC::gen.data
  cache,     \* RNG: RGenC::_cache
  ix,        \* RNG: RGenC::_ix, the values of the cache not yet drawn
  min,       \* RNGMin: the RGenI::data it inherits
  minSeed,   \* RNGMin: RGenO::_seed, a static member
  outSmall, outBig, outMin,  \* what the last call returned
  moves,     \* setSeed and setPos calls so far
  sameSeq,   \* history: the calls so far put small and gen in one sequence
  samePlace  \* history: and at one position of it

bigVars == <<gen, cache, ix, outBig>>
vars == <<small, bigVars, min, minSeed, outSmall, outMin, moves, sameSeq, samePlace>>

Cells == 0..(CacheSize - 1)

Seeds32 == 0..(WordMod - 1)

\* What is left in RGenC's cache reaches over the end of the sequence.
Spans == gen.pos < ix

Init ==
  /\ small = INIT_DATA
  /\ gen = INIT_DATA
  /\ cache = [i \in Cells |-> None]
  /\ ix = 0
  /\ min = INIT_DATA
  /\ minSeed = INIT_SEED
  /\ outSmall = None /\ outBig = None /\ outMin = None
  /\ moves = 0
  /\ sameSeq = TRUE /\ samePlace = TRUE

-----------------------------------------------------------------------------
(* rand().  The history: versions that share a sequence but not a position *)
(* leave it at different calls.                                            *)

SmallRand ==
  /\ outSmall' = Hash[small]
  /\ small' = Advance(small, 1)

FillAscending(g) == [i \in Cells |-> Hash[Advance(g, i)]]

\* RGenC::_fill, from the last cell down: the next value to draw is the last.
Fill(g) == [i \in Cells |-> Hash[Advance(g, CacheSize - 1 - i)]]

BigRand ==
  \/ /\ ix = 0
     /\ cache' = Fill(gen)
     /\ gen' = Advance(gen, CacheSize)
     /\ ix' = CacheSize - 1
     /\ outBig' = cache'[CacheSize - 1]
  \/ /\ ix > 0
     /\ ix' = ix - 1
     /\ outBig' = cache[ix - 1]
     /\ UNCHANGED <<gen, cache>>

MinRand ==
  /\ outMin' = Hash[min]
  /\ min' = Advance(min, 1)

Rand ==
  /\ SmallRand
  /\ BigRand
  /\ MinRand
  /\ sameSeq' = (sameSeq /\ (samePlace \/ (small'.seed = small.seed /\ gen'.seed = gen.seed)))
  /\ UNCHANGED <<minSeed, moves, samePlace>>

-----------------------------------------------------------------------------
(* setSeed(s).  RGenC goes back to position 0 and drops its cache; RGenI   *)
(* keeps its position; RGenO only sets its static member.  For s = 0 each  *)
(* generator hashes its own seed with the time: the same seeds give the    *)
(* same hash.                                                              *)

Reseeded(w, s, h) == WithSeed(w, IF s = 0 THEN RandomSeed(h) ELSE s)

BigSetSeedStale(s, h) ==
  /\ gen' = WithPos(Reseeded(gen, s, h), 0)
  /\ UNCHANGED <<ix, cache>>
  /\ outBig' = None

BigSetSeed(s, h) ==
  /\ gen' = WithPos(Reseeded(gen, s, h), 0)
  /\ ix' = 0
  /\ outBig' = None
  /\ UNCHANGED cache

SetSeed(s, hSmall, hBig) ==
  /\ moves < MaxMoves
  /\ moves' = moves + 1
  /\ small.seed = gen.seed => hSmall = hBig
  /\ small' = Reseeded(small, s, hSmall)
  /\ outSmall' = None
  /\ BigSetSeed(s, hBig)
  /\ minSeed' = s
  /\ outMin' = None
  /\ UNCHANGED min
  /\ sameSeq' = (s # 0 \/ (sameSeq /\ ~(samePlace /\ Spans)))
  /\ samePlace' = (small.pos = 0)

-----------------------------------------------------------------------------
(* setPos(p).  RGenC drops its cache, but keeps the seed its generator     *)
(* had reached when it filled the cache.                                   *)

BigSetPosStale(p) ==
  /\ gen' = WithPos(gen, p)
  /\ outBig' = None
  /\ UNCHANGED <<ix, cache>>

BigSetPos(p) ==
  /\ ix' = 0
  /\ gen' = WithPos(gen, p)
  /\ outBig' = None
  /\ UNCHANGED cache

SetPos(p) ==
  /\ moves < MaxMoves
  /\ moves' = moves + 1
  /\ small' = WithPos(small, p)
  /\ outSmall' = None
  /\ BigSetPos(p)
  /\ min' = WithPos(min, p)
  /\ outMin' = None
  /\ UNCHANGED minSeed
  /\ sameSeq' = (sameSeq /\ ~(samePlace /\ Spans))
  /\ samePlace' = TRUE

-----------------------------------------------------------------------------
Next ==
  \/ Rand
  \/ \E s \in Seeds32 \ {0} : SetSeed(s, 0, 0)
  \/ \E hSmall, hBig \in Seeds32 : SetSeed(0, hSmall, hBig)
  \/ \E p \in 0..PosMod : SetPos(p)

Spec == Init /\ [][Next]_vars

-----------------------------------------------------------------------------
(* Properties.                                                             *)

TypeOK ==
  /\ small \in Words
  /\ gen \in Words
  /\ cache \in [Cells -> Nat \cup {None}]
  /\ ix \in 0..(CacheSize - 1)
  /\ min \in Words
  /\ minSeed \in Seeds32
  /\ {outSmall, outBig, outMin} \subseteq Nat \cup {None}
  /\ moves \in 0..MaxMoves
  /\ {sameSeq, samePlace} \subseteq BOOLEAN

\* The values left in RGenC's cache are the ones that precede its generator,
\* the next to draw at the highest index: no call sequence leaves a stale or
\* uninitialised value where rand() will find it, also over the end of the
\* sequence.
CacheHoldsNext == \A i \in 0..(ix - 1) : cache[i] = Hash[Retreat(gen, i + 1)]

\* The value the RNG will draw next.
NextBig == IF ix = 0 THEN Hash[gen] ELSE cache[ix - 1]

\* RGenC::getPos, in the arithmetic of uint64_t.
BigGetPos == (gen.pos - ix) % (SeedMod * PosMod)

\* When RNG and RNGSmall agree: while the calls put them at one position of
\* one sequence, which setSeed(s) alone does not do, they draw the same values,
\* and also report the same seed and position until the cache of the RNG
\* reaches over the end of the sequence.
SmallBigAgree ==
  sameSeq /\ samePlace =>
    /\ outSmall = outBig
    /\ NextBig = Hash[small]
    /\ ~Spans => gen.seed = small.seed /\ BigGetPos = small.pos

\* The RNG implements the promise of the header: it stands at the word ix
\* draws before its generator's.
BigStream == INSTANCE RandomStream WITH at <- Retreat(gen, ix), out <- outBig

BigIsStream == BigStream!StreamSpec

\* RNG.h:35, "All versions generate identical pseudorandom sequences."
AllVersionsAgree == outSmall = outBig /\ outSmall = outMin
=============================================================================
