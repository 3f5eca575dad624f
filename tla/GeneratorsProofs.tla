-------------------------- MODULE GeneratorsProofs --------------------------
(***************************************************************************)
(* Proofs about Generators, for every width of the word, every size of the *)
(* cache and every hash.  First the arithmetic of the word, then the       *)
(* inductive invariant, and from it what the runs check.  Last, what the   *)
(* drivers make of the words: the helpers of Ranges, for all their widths. *)
(***************************************************************************)
EXTENDS Generators, Ranges, TLAPS

(* The word: stepping forward and back stays in it, and they cancel out.   *)

LEMMA WordType ==
  ASSUME NEW w \in Words, NEW k \in 0..PosMod
  PROVE  Advance(w, k) \in Words /\ Retreat(w, k) \in Words
<1>1. w.seed \in 0..(SeedMod - 1) /\ w.pos \in 0..(PosMod - 1)
  BY DEF Words
<1>2. SeedMod \in Nat \ {0} /\ PosMod \in Nat \ {0}
  BY WordAssumption DEF WordAssumption
<1>3. NextSeed(w.seed) \in 0..(SeedMod - 1) /\ PrevSeed(w.seed) \in 0..(SeedMod - 1)
  BY <1>1, <1>2 DEF NextSeed, PrevSeed
<1> QED
  BY <1>1, <1>2, <1>3 DEF Words, Advance, Retreat

LEMMA RetreatZero ==
  ASSUME NEW w \in Words
  PROVE  Retreat(w, 0) = w
BY WordAssumption DEF WordAssumption, Words, Retreat

LEMMA AdvanceZero ==
  ASSUME NEW w \in Words
  PROVE  Advance(w, 0) = w
BY WordAssumption DEF WordAssumption, Words, Advance

LEMMA StepBack ==
  ASSUME NEW w \in Words, NEW k \in 1..PosMod
  PROVE  Advance(Retreat(w, k), 1) = Retreat(w, k - 1)
BY WordAssumption DEF WordAssumption, Words, Advance, Retreat, NextSeed, PrevSeed

LEMMA BackFromAhead ==
  ASSUME NEW w \in Words, NEW k \in 0..PosMod, NEW j \in 0..k
  PROVE  Retreat(Advance(w, k), j) = Advance(w, k - j)
BY WordAssumption DEF WordAssumption, Words, Advance, Retreat, NextSeed, PrevSeed

LEMMA MovedType ==
  ASSUME NEW w \in Words, NEW n \in Nat
  PROVE  /\ WithSeed(w, n) \in Words
         /\ WithSeed(w, n) = [seed |-> n % SeedMod, pos |-> w.pos]
         /\ WithPos(w, n) \in Words
         /\ WithPos(w, n) = [seed |-> w.seed, pos |-> n % PosMod]
<1>1. n % SeedMod \in 0..(SeedMod - 1) /\ n % PosMod \in 0..(PosMod - 1)
  BY WordAssumption DEF WordAssumption
<1> QED
  BY <1>1 DEF Words, WithSeed, WithPos

LEMMA RandomSeedType ==
  ASSUME NEW h \in Nat
  PROVE  RandomSeed(h) \in Nat
<1>1. h * SeedShift \in Nat
  BY WordAssumption DEF WordAssumption
<1>2. (h * SeedShift) % WordMod \in Nat
  BY <1>1, WordAssumption DEF WordAssumption
<1> QED
  BY <1>2, WordAssumption DEF WordAssumption, RandomSeed

LEMMA SmallMod ==
  ASSUME NEW a \in Nat, NEW b \in Nat, a < b
  PROVE  a % b = a
OBVIOUS

-----------------------------------------------------------------------------
(* The inductive invariant: what the history means, and the cache.         *)

\* One position of one sequence is one word; a sequence alone is one seed; and
\* positions are kept together even when the sequences are not.
Synced ==
  /\ sameSeq /\ samePlace => small = Retreat(gen, ix) /\ outSmall = outBig
  /\ sameSeq /\ ~samePlace => small.seed = gen.seed
  /\ samePlace => small.pos = Retreat(gen, ix).pos

IInv == TypeOK /\ CacheHoldsNext /\ Synced

LEMMA InitIInv == Init => IInv
<1> SUFFICES ASSUME Init PROVE IInv
  OBVIOUS
<1>1. INIT_DATA \in Words
  BY WordAssumption DEF WordAssumption, Words, INIT_DATA
<1>2. INIT_SEED \in Seeds32 /\ 0 \in 0..(CacheSize - 1) /\ 0 \in 0..MaxMoves
  BY WordAssumption, GeneratorAssumption DEF WordAssumption, GeneratorAssumption, Seeds32
<1>3. TypeOK
  BY <1>1, <1>2 DEF Init, TypeOK
<1>4. Retreat(gen, ix) = gen
  BY <1>1, RetreatZero DEF Init
<1> QED
  BY <1>3, <1>4 DEF Init, IInv, CacheHoldsNext, Synced

(* A draw from the RNG, filling the cache or not, is a draw at the word    *)
(* Retreat(gen, ix), and leaves the rest of the cache ready.               *)
LEMMA BigRandDraws ==
  ASSUME TypeOK, CacheHoldsNext, BigRand
  PROVE  /\ gen' \in Words /\ ix' \in 0..(CacheSize - 1)
         /\ cache' \in [Cells -> Nat \cup {None}] /\ outBig' \in Nat
         /\ outBig' = Hash[Retreat(gen, ix)]
         /\ Retreat(gen, ix)' = Advance(Retreat(gen, ix), 1)
         /\ CacheHoldsNext'
<1> USE DEF TypeOK
<1>0. CacheSize \in 1..PosMod /\ PosMod \in Nat \ {0}
  BY WordAssumption DEF WordAssumption
<1>1. ASSUME NEW w \in Words PROVE Hash[w] \in Nat
  BY HashAssumption DEF HashAssumption
<1>2. CASE /\ ix = 0
           /\ cache' = Fill(gen)
           /\ gen' = Advance(gen, CacheSize)
           /\ ix' = CacheSize - 1
           /\ outBig' = cache'[CacheSize - 1]
  <2>1. \A i \in Cells : /\ CacheSize - 1 - i \in 0..PosMod
                          /\ cache'[i] = Hash[Advance(gen, CacheSize - 1 - i)]
                          /\ cache'[i] \in Nat
    BY <1>0, <1>1, <1>2, WordType DEF Fill, Cells
  <2>2. cache' \in [Cells -> Nat \cup {None}]
    BY <1>2, <2>1 DEF Fill
  <2>3. gen' \in Words
    BY <1>0, <1>2, WordType
  <2>4. Retreat(gen, ix) = gen /\ Advance(gen, 0) = gen
    BY <1>2, RetreatZero, AdvanceZero
  <2>5. outBig' = Hash[gen] /\ outBig' \in Nat
    BY <1>0, <1>2, <2>1, <2>4 DEF Cells
  <2>6. \A i \in 0..(CacheSize - 1) : Retreat(gen', i + 1) = Advance(gen, CacheSize - (i + 1))
    BY <1>0, <1>2, BackFromAhead
  <2>7. Retreat(gen, ix)' = Advance(gen, 1)
    BY <1>0, <1>2, BackFromAhead
  <2>8. CacheHoldsNext'
    <3> SUFFICES ASSUME NEW i \in 0..(ix' - 1) PROVE cache'[i] = Hash[Retreat(gen', i + 1)]
      BY DEF CacheHoldsNext
    <3>1. i \in Cells /\ CacheSize - 1 - i = CacheSize - (i + 1)
      BY <1>0, <1>2 DEF Cells
    <3> QED
      BY <2>1, <2>6, <3>1 DEF Cells
  <2> QED
    BY <1>0, <1>2, <2>2, <2>3, <2>4, <2>5, <2>7, <2>8
<1>3. CASE /\ ix > 0
           /\ ix' = ix - 1
           /\ outBig' = cache[ix - 1]
           /\ UNCHANGED <<gen, cache>>
  <2>1. outBig' = Hash[Retreat(gen, ix)] /\ CacheHoldsNext'
    BY <1>0, <1>3 DEF CacheHoldsNext
  <2>2. outBig' \in Nat
    BY <1>0, <1>1, <2>1, WordType
  <2>3. Retreat(gen, ix)' = Advance(Retreat(gen, ix), 1)
    BY <1>0, <1>3, StepBack
  <2> QED
    BY <1>0, <1>3, <2>1, <2>2, <2>3
<1> QED
  BY <1>2, <1>3 DEF BigRand

-----------------------------------------------------------------------------
(* Each call preserves the invariant.                                      *)

LEMMA RandIInv == IInv /\ Rand => IInv'
<1> SUFFICES ASSUME IInv, Rand PROVE IInv'
  OBVIOUS
<1>0. 1 \in 0..PosMod /\ PosMod \in Nat \ {0} /\ CacheSize \in 1..PosMod
  BY WordAssumption DEF WordAssumption
<1>1. /\ gen' \in Words /\ ix' \in 0..(CacheSize - 1)
      /\ cache' \in [Cells -> Nat \cup {None}] /\ outBig' \in Nat
      /\ outBig' = Hash[Retreat(gen, ix)]
      /\ Retreat(gen, ix)' = Advance(Retreat(gen, ix), 1)
      /\ CacheHoldsNext'
  BY BigRandDraws DEF IInv, Rand
<1>2. small \in Words /\ min \in Words /\ Retreat(gen, ix) \in Words
  BY <1>0, WordType DEF IInv, TypeOK
<1>3. /\ outSmall' = Hash[small] /\ small' = Advance(small, 1) /\ small' \in Words
      /\ outMin' = Hash[min] /\ min' = Advance(min, 1) /\ min' \in Words
      /\ outSmall' \in Nat /\ outMin' \in Nat
  BY <1>0, <1>2, WordType, HashAssumption DEF HashAssumption, Rand, SmallRand, MinRand
<1>4. TypeOK'
  <2>1. sameSeq' \in BOOLEAN /\ samePlace' \in BOOLEAN
    BY DEF IInv, TypeOK, Rand
  <2> QED
    BY <1>1, <1>3, <2>1 DEF IInv, TypeOK, Rand
<1>5. \A v, w \in Words : v.pos = w.pos => Advance(v, 1).pos = Advance(w, 1).pos
  BY <1>0 DEF Words, Advance
<1>6. Synced'
  <2>1. samePlace' = samePlace /\ (sameSeq' => sameSeq)
    BY DEF Rand
  <2>2. sameSeq /\ samePlace => small' = Retreat(gen, ix)' /\ outSmall' = outBig'
    BY <1>1, <1>3 DEF IInv, Synced
  <2>3. samePlace => small'.pos = Retreat(gen, ix)'.pos
    BY <1>1, <1>2, <1>3, <1>5 DEF IInv, Synced
  <2>4. sameSeq' /\ ~samePlace => small'.seed = gen'.seed
    BY DEF IInv, Synced, Rand
  <2> QED
    BY <2>1, <2>2, <2>3, <2>4 DEF Synced
<1> QED
  BY <1>1, <1>4, <1>6 DEF IInv

LEMMA ReseededType ==
  ASSUME NEW w \in Words, NEW s \in Seeds32, NEW h \in Seeds32
  PROVE  /\ Reseeded(w, s, h) \in Words
         /\ Reseeded(w, s, h).pos = w.pos
         /\ \A v \in Words : Reseeded(v, s, h).seed = Reseeded(w, s, h).seed
<1>1. Seeds32 \subseteq Nat
  BY WordAssumption DEF WordAssumption, Seeds32
<1>2. (IF s = 0 THEN RandomSeed(h) ELSE s) \in Nat
  BY <1>1, RandomSeedType
<1> QED
  BY <1>2, MovedType DEF Reseeded

LEMMA SetSeedIInv ==
  ASSUME NEW s \in Seeds32, NEW hSmall \in Seeds32, NEW hBig \in Seeds32,
         s # 0 => hSmall = hBig, IInv, SetSeed(s, hSmall, hBig)
  PROVE  IInv'
<1>1. /\ small' \in Words /\ small'.pos = small.pos
      /\ gen' \in Words /\ gen'.pos = 0 /\ gen'.seed = Reseeded(gen, s, hBig).seed
  <2>1. Reseeded(gen, s, hBig) \in Words /\ Reseeded(small, s, hSmall) \in Words
    BY ReseededType DEF IInv, TypeOK
  <2>2. 0 % PosMod = 0
    BY WordAssumption, SmallMod DEF WordAssumption
  <2>3. small' \in Words /\ small'.pos = small.pos
    BY <2>1, ReseededType DEF IInv, TypeOK, SetSeed
  <2>4. gen' = WithPos(Reseeded(gen, s, hBig), 0)
    BY DEF SetSeed, BigSetSeed
  <2>5. gen' \in Words /\ gen' = [seed |-> Reseeded(gen, s, hBig).seed, pos |-> 0 % PosMod]
    BY <2>1, <2>4, MovedType
  <2> QED
    BY <2>2, <2>3, <2>5
<1>2. ix' = 0 /\ cache' = cache /\ min' = min /\ outSmall' = None /\ outBig' = None
  BY DEF SetSeed, BigSetSeed
<1>3. TypeOK'
  <2>1. moves' \in 0..MaxMoves
    BY GeneratorAssumption DEF GeneratorAssumption, IInv, TypeOK, SetSeed
  <2>2. 0 \in 0..(CacheSize - 1)
    BY WordAssumption DEF WordAssumption
  <2>3. sameSeq' \in BOOLEAN /\ samePlace' \in BOOLEAN /\ outMin' = None /\ minSeed' = s
    BY DEF IInv, TypeOK, SetSeed
  <2> QED
    BY <1>1, <1>2, <2>1, <2>2, <2>3 DEF IInv, TypeOK
<1>4. Retreat(gen, ix)' = gen'
  BY <1>1, <1>2, RetreatZero
<1>5. CacheHoldsNext'
  BY <1>2 DEF CacheHoldsNext
<1>6. Synced'
  <2>0. hSmall = hBig => small'.seed = gen'.seed
    <3> SUFFICES ASSUME hSmall = hBig PROVE small'.seed = gen'.seed
      OBVIOUS
    <3>1. small \in Words /\ gen \in Words /\ small' = Reseeded(small, s, hSmall)
      BY DEF IInv, TypeOK, SetSeed
    <3>2. \A v \in Words : Reseeded(v, s, hBig).seed = Reseeded(gen, s, hBig).seed
      BY <3>1, ReseededType
    <3> QED
      BY <1>1, <3>1, <3>2
  <2>1. small.seed = gen.seed => small'.seed = gen'.seed
    BY <2>0 DEF SetSeed
  <2>2. s # 0 => small'.seed = gen'.seed
    BY <2>0
  <2>3. sameSeq /\ samePlace /\ ~Spans => small.seed = gen.seed
    BY DEF IInv, TypeOK, Synced, Spans, Retreat, Words
  <2>4. sameSeq' => small'.seed = gen'.seed
    BY <2>1, <2>2, <2>3 DEF IInv, Synced, SetSeed
  <2>5. samePlace' => small'.pos = gen'.pos
    BY <1>1 DEF SetSeed
  <2>6. sameSeq' /\ samePlace' => small' = gen'
    BY <1>1, <2>4, <2>5 DEF Words
  <2> QED
    BY <1>2, <1>4, <2>4, <2>5, <2>6 DEF Synced
<1> QED
  BY <1>3, <1>5, <1>6 DEF IInv

LEMMA SetPosIInv ==
  ASSUME NEW p \in 0..PosMod, IInv, SetPos(p)
  PROVE  IInv'
<1>0. p \in Nat
  BY WordAssumption DEF WordAssumption
<1>1. /\ small' \in Words /\ small' = [seed |-> small.seed, pos |-> p % PosMod]
      /\ gen' \in Words /\ gen' = [seed |-> gen.seed, pos |-> p % PosMod]
      /\ min' \in Words /\ min' = [seed |-> min.seed, pos |-> p % PosMod]
  BY <1>0, MovedType DEF IInv, TypeOK, SetPos, BigSetPos
<1>2. ix' = 0 /\ cache' = cache /\ outSmall' = None /\ outBig' = None
  BY DEF SetPos, BigSetPos
<1>3. TypeOK'
  <2>1. moves' \in 0..MaxMoves
    BY GeneratorAssumption DEF GeneratorAssumption, IInv, TypeOK, SetPos
  <2>2. 0 \in 0..(CacheSize - 1)
    BY WordAssumption DEF WordAssumption
  <2>3. sameSeq' \in BOOLEAN /\ samePlace' \in BOOLEAN /\ outMin' = None /\ minSeed' = minSeed
    BY DEF IInv, TypeOK, SetPos
  <2> QED
    BY <1>1, <1>2, <2>1, <2>2, <2>3 DEF IInv, TypeOK
<1>4. Retreat(gen, ix)' = gen'
  BY <1>1, <1>2, RetreatZero
<1>5. CacheHoldsNext'
  BY <1>2 DEF CacheHoldsNext
<1>6. Synced'
  <2>1. sameSeq /\ samePlace /\ ~Spans => small.seed = gen.seed
    BY DEF IInv, TypeOK, Synced, Spans, Retreat, Words
  <2>2. sameSeq' => small.seed = gen.seed
    BY <2>1 DEF IInv, Synced, SetPos
  <2> QED
    BY <1>1, <1>2, <1>4, <2>2 DEF Synced
<1> QED
  BY <1>3, <1>5, <1>6 DEF IInv

LEMMA StutterIInv == IInv /\ UNCHANGED vars => IInv'
BY DEF IInv, TypeOK, CacheHoldsNext, Synced, vars, bigVars

LEMMA NextIInv == IInv /\ [Next]_vars => IInv'
<1> SUFFICES ASSUME IInv, [Next]_vars PROVE IInv'
  OBVIOUS
<1>1. CASE Rand
  BY <1>1, RandIInv
<1>2. ASSUME NEW s \in Seeds32 \ {0}, SetSeed(s, 0, 0) PROVE IInv'
  <2>1. 0 \in Seeds32
    BY WordAssumption DEF WordAssumption, Seeds32
  <2> QED
    BY <1>2, <2>1, SetSeedIInv
<1>3. ASSUME NEW hSmall \in Seeds32, NEW hBig \in Seeds32, SetSeed(0, hSmall, hBig) PROVE IInv'
  <2>1. 0 \in Seeds32
    BY WordAssumption DEF WordAssumption, Seeds32
  <2> QED
    BY <1>3, <2>1, SetSeedIInv
<1>4. ASSUME NEW p \in 0..PosMod, SetPos(p) PROVE IInv'
  BY <1>4, SetPosIInv
<1>5. CASE UNCHANGED vars
  BY <1>5, StutterIInv
<1> QED
  BY <1>1, <1>2, <1>3, <1>4, <1>5 DEF Next

\* The three generators and the history of the calls stay in step as Synced says.
THEOREM Invariance == Spec => []IInv
BY InitIInv, NextIInv, PTL DEF Spec

-----------------------------------------------------------------------------
(* What the runs check.                                                    *)

\* The states are the ones the declarations of RNG.h allow; in particular _ix
\* stays below the size of the cache between calls.
THEOREM TypeCorrect == Spec => []TypeOK
<1>1. IInv => TypeOK
  BY DEF IInv
<1> QED
  BY <1>1, Invariance, PTL

\* RGenC::rand never finds a stale or uninitialised value in its cache,
\* whatever setSeed and setPos calls came before (RNG.h:258-271).
THEOREM CacheCorrect == Spec => []CacheHoldsNext
<1>1. IInv => CacheHoldsNext
  BY DEF IInv
<1> QED
  BY <1>1, Invariance, PTL

LEMMA AgreeFromIInv == IInv => SmallBigAgree
<1> SUFFICES ASSUME IInv, sameSeq, samePlace PROVE
      /\ outSmall = outBig
      /\ NextBig = Hash[small]
      /\ ~Spans => gen.seed = small.seed /\ BigGetPos = small.pos
  BY DEF SmallBigAgree
<1>0. /\ PosMod \in Nat \ {0} /\ SeedMod \in Nat \ {0} /\ CacheSize \in 1..PosMod
      /\ gen \in Words /\ ix \in 0..(CacheSize - 1)
  BY WordAssumption DEF WordAssumption, IInv, TypeOK
<1>1. small = Retreat(gen, ix) /\ outSmall = outBig
  BY DEF IInv, Synced
<1>2. NextBig = Hash[small]
  <2>1. CASE ix = 0
    BY <1>0, <1>1, <2>1, RetreatZero DEF NextBig
  <2>2. CASE ix > 0
    <3>1. ix - 1 \in 0..(ix - 1) /\ (ix - 1) + 1 = ix
      BY <1>0, <2>2
    <3> QED
      BY <1>0, <1>1, <2>2, <3>1 DEF NextBig, IInv, CacheHoldsNext
  <2> QED
    BY <1>0, <2>1, <2>2
<1>3. ASSUME ~Spans PROVE gen.seed = small.seed /\ BigGetPos = small.pos
  <2>1. gen.pos \in 0..(PosMod - 1) /\ ix <= gen.pos
    BY <1>0, <1>3 DEF Words, Spans
  <2>2. small.seed = gen.seed /\ small.pos = gen.pos - ix
    BY <1>0, <1>1, <2>1 DEF Retreat
  <2>3. SeedMod * PosMod \in Nat /\ PosMod <= SeedMod * PosMod
    BY <1>0
  <2>4. gen.pos - ix \in Nat /\ gen.pos - ix < SeedMod * PosMod
    BY <1>0, <2>1, <2>3
  <2> QED
    BY <2>2, <2>3, <2>4, SmallMod DEF BigGetPos
<1> QED
  BY <1>1, <1>2, <1>3

\* RNG and RNGSmall draw the same values while the calls put them at one
\* position of one sequence, and report the same seed and position until the
\* cache of the RNG reaches over the end of the sequence.
THEOREM SmallBigAgreement == Spec => []SmallBigAgree
BY AgreeFromIInv, Invariance, PTL

-----------------------------------------------------------------------------
(* The RNG implements RandomStream, its generator seen ix draws back.      *)

LEMMA InitStream == Init => BigStream!StreamInit
<1>1. INIT_DATA \in Words
  BY WordAssumption DEF WordAssumption, Words, INIT_DATA
<1> QED
  BY <1>1, RetreatZero DEF Init, BigStream!StreamInit, BigStream!INIT_DATA, INIT_DATA

LEMMA StepStream == IInv /\ IInv' /\ [Next]_vars => [BigStream!StreamNext]_(BigStream!streamVars)
<1> SUFFICES ASSUME IInv, IInv', [Next]_vars
             PROVE  BigStream!StreamNext \/ UNCHANGED BigStream!streamVars
  OBVIOUS
<1> USE DEF BigStream!StreamNext
<1>0. gen \in Words /\ gen' \in Words
  BY DEF IInv, TypeOK
<1>1. CASE Rand
  <2>1. outBig' = Hash[Retreat(gen, ix)] /\ Retreat(gen, ix)' = Advance(Retreat(gen, ix), 1)
    BY <1>1, BigRandDraws DEF IInv, Rand
  <2> QED
    BY <2>1 DEF BigStream!Draw, BigStream!Advance, Advance, BigStream!NextSeed, NextSeed
<1>2. ASSUME NEW s \in Seeds32, NEW hSmall, NEW hBig, SetSeed(s, hSmall, hBig)
      PROVE  BigStream!StreamNext
  <2>1. ix' = 0 /\ outBig' = None
    BY <1>2 DEF SetSeed, BigSetSeed
  <2>2. Retreat(gen, ix)' = gen'
    BY <1>0, <2>1, RetreatZero
  <2>3. gen'.seed \in 0..(SeedMod - 1)
    BY <1>0 DEF Words
  <2>4. BigStream!Reseed(gen'.seed)
    BY <1>0, <2>1, <2>2 DEF BigStream!Reseed, BigStream!Words, Words
  <2> QED
    BY <2>3, <2>4
<1>3. ASSUME NEW p \in 0..PosMod, SetPos(p) PROVE BigStream!StreamNext
  <2>1. ix' = 0 /\ outBig' = None
    BY <1>3 DEF SetPos, BigSetPos
  <2>2. Retreat(gen, ix)' = gen'
    BY <1>0, <2>1, RetreatZero
  <2>3. gen'.pos \in 0..(PosMod - 1)
    BY <1>0 DEF Words
  <2>4. BigStream!Seek(gen'.pos)
    BY <1>0, <2>1, <2>2 DEF BigStream!Seek, BigStream!Words, Words
  <2> QED
    BY <2>3, <2>4
<1>4. CASE UNCHANGED vars
  BY <1>4 DEF vars, bigVars, BigStream!streamVars
<1>5. ASSUME NEW s \in Seeds32 \ {0}, SetSeed(s, 0, 0) PROVE BigStream!StreamNext
  BY <1>2, <1>5
<1>6. ASSUME NEW hSmall \in Seeds32, NEW hBig \in Seeds32, SetSeed(0, hSmall, hBig)
      PROVE  BigStream!StreamNext
  <2>1. 0 \in Seeds32
    BY WordAssumption DEF WordAssumption, Seeds32
  <2> QED
    BY <1>2, <1>6, <2>1
<1> QED
  BY <1>1, <1>3, <1>4, <1>5, <1>6 DEF Next

\* The RNG, with its cache, implements the promise of the header: each draw
\* is the hash of the word it stands at, and steps to the next word.
THEOREM BigImplementsStream == Spec => BigIsStream
<1>1. Spec => BigStream!StreamInit
  BY InitStream DEF Spec
<1> QED
  BY <1>1, Invariance, StepStream, PTL DEF Spec, BigIsStream, BigStream!StreamSpec

(* The drivers' conversions of words into ranges.                          *)

LEMMA DivBounds ==
  ASSUME NEW a \in Nat, NEW d \in Nat \ {0}
  PROVE  a \div d \in Nat /\ d * (a \div d) <= a /\ a < d * (a \div d) + d
OBVIOUS

LEMMA DivBelow ==
  ASSUME NEW a \in Nat, NEW d \in Nat \ {0}, NEW n \in Nat, a < n * d
  PROVE  a \div d < n
<1> DEFINE q == a \div d
<1>1. q \in Nat /\ d * q <= a
  BY DivBounds
<1>2. d * q < d * n
  BY <1>1
<1>3. ASSUME q >= n PROVE FALSE
  <2>1. d * q >= d * n
    BY <1>1, <1>3
  <2>. QED
    BY <2>1, <1>1, <1>2
<1>. QED
  BY <1>1, <1>3

LEMMA DivAtLeast ==
  ASSUME NEW a \in Nat, NEW d \in Nat \ {0}, NEW n \in Nat, n * d <= a
  PROVE  a \div d >= n
<1> DEFINE q == a \div d
<1>1. q \in Nat /\ a < d * q + d
  BY DivBounds
<1>2. ASSUME q < n PROVE FALSE
  <2>1. q + 1 <= n
    BY <1>1, <1>2
  <2>2. d * (q + 1) <= d * n
    BY <1>1, <2>1
  <2>. QED
    BY <2>2, <1>1
<1>. QED
  BY <1>1, <1>2

LEMMA Widths ==
  /\ WordMod \in Nat /\ WordMod >= 2 /\ Half \in Nat /\ WordMod = 2 * Half
  /\ EpsInv \in Nat /\ EpsInv >= 1
BY WordAssumption, RangesAssumption DEF Half

LEMMA ProductMono ==
  ASSUME NEW a \in Nat, NEW b \in Nat, NEW c \in Nat, a <= b
  PROVE  c * a <= c * b /\ c * a \in Nat
OBVIOUS

LEMMA ProductMonoStrict ==
  ASSUME NEW a \in Nat, NEW b \in Nat, NEW c \in Nat \ {0}, a < b
  PROVE  c * a < c * b
<1>1. b - a >= 1 /\ b - a \in Nat
  OBVIOUS
<1>2. c * (b - a) = c * b - c * a
  OBVIOUS
<1>3. c * 1 <= c * (b - a)
  BY <1>1, ProductMono
<1>. QED
  BY <1>2, <1>3

\* The draw as a fraction, below 1.
LEMMA UnitBelowOne ==
  ASSUME NEW w \in Word32
  PROVE  /\ toUnitReal(w).num \in Nat
         /\ toUnitReal(w).den \in Nat \ {0}
         /\ toUnitReal(w).num <= (EpsInv - 1) * (WordMod - 1)
         /\ toUnitReal(w).den = EpsInv * (WordMod - 1)
         /\ toUnitReal(w).num < toUnitReal(w).den
<1> DEFINE e == EpsInv - 1
           m == WordMod - 1
<1>1. w \in Nat /\ e \in Nat /\ m \in Nat /\ w <= m /\ m >= 1
  BY Widths DEF Word32
<1>2. toUnitReal(w).num = e * w /\ toUnitReal(w).den = EpsInv * m
  BY Widths DEF toUnitReal, Word32
<1>3. e * w <= e * m /\ e * w \in Nat
  BY <1>1, ProductMono
<1>4. EpsInv * m = e * m + m
  BY <1>1, Widths
<1>5. e * m \in Nat
  BY <1>1
<1>. QED
  BY <1>1, <1>2, <1>3, <1>4, <1>5

LEMMA SelectBounds ==
  ASSUME NEW w \in Word32, NEW n \in Nat \ {0}
  PROVE  select(w, n) \in 0..(n - 1)
<1> DEFINE x == toUnitReal(w).num
           d == toUnitReal(w).den
<1>1. x \in Nat /\ d \in Nat \ {0} /\ x < d
  BY UnitBelowOne
<1>2. n * x < n * d /\ n * x \in Nat
  <2>1. n * (x + 1) <= n * d
    BY <1>1, ProductMono
  <2>. QED
    BY <2>1, <1>1
<1>3. (n * x) \div d < n
  BY <1>1, <1>2, DivBelow
<1>4. (n * x) \div d \in Nat
  BY <1>1, <1>2, DivBounds
<1>. QED
  BY <1>3, <1>4 DEF select

LEMMA SelectLast ==
  ASSUME NEW n \in Nat \ {0}, n <= EpsInv
  PROVE  WordMod - 1 \in Word32 /\ select(WordMod - 1, n) = n - 1
<1> DEFINE m == WordMod - 1
           x == toUnitReal(m).num
           d == toUnitReal(m).den
<1>1. m \in Word32 /\ m \in Nat
  BY Widths DEF Word32
<1>2. x = m * (EpsInv - 1) /\ d = EpsInv * m
  BY <1>1 DEF toUnitReal
<1>3. x \in Nat /\ d \in Nat \ {0} /\ n * x \in Nat
  BY <1>1, UnitBelowOne
<1>4. (n - 1) * d <= n * x
  <2>1. m * n <= m * EpsInv
    BY <1>1, Widths, ProductMono
  <2>2. n * (m * (EpsInv - 1)) = n * (m * EpsInv) - m * n
    BY <1>1, Widths
  <2>3. (n - 1) * (EpsInv * m) = n * (m * EpsInv) - m * EpsInv
    BY <1>1, Widths
  <2>4. m * n \in Nat /\ m * EpsInv \in Nat /\ n * (m * EpsInv) \in Nat
    BY <1>1, Widths
  <2>. QED
    BY <1>2, <2>1, <2>2, <2>3, <2>4
<1>5. (n * x) \div d >= n - 1
  BY <1>3, <1>4, DivAtLeast
<1>6. select(m, n) >= n - 1
  BY <1>5 DEF select
<1>7. select(m, n) \in 0..(n - 1)
  BY <1>1, SelectBounds
<1>. QED
  BY <1>1, <1>6, <1>7

LEMMA SelectShort ==
  ASSUME NEW w \in Word32, NEW n \in Nat \ {0}, n > EpsInv
  PROVE  select(w, n) < n - 1
<1> DEFINE m == WordMod - 1
           x == toUnitReal(w).num
           d == toUnitReal(w).den
<1>1. x \in Nat /\ d \in Nat \ {0} /\ x <= (EpsInv - 1) * m /\ d = EpsInv * m
  BY UnitBelowOne
<1>2. m \in Nat \ {0}
  BY Widths
<1>3. n * x <= n * ((EpsInv - 1) * m) /\ n * x \in Nat
  <2>1. (EpsInv - 1) * m \in Nat
    BY <1>2, Widths
  <2>. QED
    BY <1>1, <2>1, ProductMono
<1>4. n * ((EpsInv - 1) * m) < (n - 1) * d
  <2>1. m * EpsInv < m * n
    BY <1>2, Widths, ProductMonoStrict
  <2>2. n * ((EpsInv - 1) * m) = n * (m * EpsInv) - m * n
    BY <1>2, Widths
  <2>3. (n - 1) * (EpsInv * m) = n * (m * EpsInv) - m * EpsInv
    BY <1>2, Widths
  <2>4. m * n \in Nat /\ m * EpsInv \in Nat /\ n * (m * EpsInv) \in Nat
    BY <1>2, Widths
  <2>5. n * (m * EpsInv) - m * n < n * (m * EpsInv) - m * EpsInv
    BY <2>1, <2>4
  <2>6. (n - 1) * d = (n - 1) * (EpsInv * m)
    BY <1>1
  <2>. QED
    BY <2>2, <2>3, <2>5, <2>6
<1>5. n - 1 \in Nat /\ (n - 1) * d \in Nat /\ n * ((EpsInv - 1) * m) \in Nat
  BY <1>1, <1>2, Widths
<1>6. n * x < (n - 1) * d
  BY <1>3, <1>4, <1>5
<1>7. (n * x) \div d < n - 1
  BY <1>1, <1>3, <1>5, <1>6, DivBelow
<1>. QED
  BY <1>7 DEF select

\* RNG.h:76: select(n) is below n, and draws n - 1 just if n is not above 2^23.
THEOREM SelectCorrect == SelectInRange
<1> SUFFICES ASSUME NEW n \in Word32 \ {0}
             PROVE  /\ \A w \in Word32 : select(w, n) \in 0..(n - 1)
                    /\ n <= EpsInv <=> \E w \in Word32 : select(w, n) = n - 1
  BY DEF SelectInRange
<1>1. n \in Nat \ {0}
  BY Widths DEF Word32
<1>2. ASSUME NEW w \in Word32 PROVE select(w, n) \in 0..(n - 1)
  BY <1>1, SelectBounds
<1>3. n <= EpsInv => \E w \in Word32 : select(w, n) = n - 1
  BY <1>1, SelectLast
<1>4. ASSUME NEW w \in Word32, select(w, n) = n - 1, n > EpsInv PROVE FALSE
  BY <1>1, <1>4, SelectShort
<1>5. n <= EpsInv \/ n > EpsInv
  BY <1>1, Widths
<1>. QED
  BY <1>2, <1>3, <1>4, <1>5

\* RNG.h:83: uniformInt is in its range, also where the difference of its bounds is
\* more than an int tells.
THEOREM UniformIntCorrect == UniformIntInRange
<1> SUFFICES ASSUME NEW lo \in Int32, NEW hi \in Int32, lo < hi, NEW w \in Word32
             PROVE  uniformInt(w, lo, hi) \in lo..(hi - 1)
  BY DEF UniformIntInRange
<1> DEFINE n == hi - lo
           k == select(w, n)
<1>1. /\ lo \in Int /\ hi \in Int /\ -Half <= lo /\ hi <= Half - 1
      /\ Half \in Nat /\ WordMod = 2 * Half
  BY Widths DEF Int32
<1>2. n \in Nat \ {0} /\ n < WordMod
  BY <1>1
<1>3. n % WordMod = n
  BY <1>1, <1>2
<1>4. k \in 0..(n - 1)
  BY <1>2, SelectBounds
<1> DEFINE v == (lo + k) % WordMod
<1>5. v = IF lo + k >= 0 THEN lo + k ELSE lo + k + WordMod
  BY <1>1, <1>4
<1>6. ToInt32(v) = lo + k
  BY <1>1, <1>4, <1>5 DEF ToInt32
<1>7. uniformInt(w, lo, hi) = lo + k
  BY <1>3, <1>6 DEF uniformInt
<1>. QED
  BY <1>1, <1>4, <1>7

\* RNG.h:69: flip(1) is always true, and flip(0) when the draw is 0.
THEOREM FlipCorrect == FlipAtTheEnds
<1> SUFFICES ASSUME NEW w \in Word32
             PROVE  /\ flip(w, [num |-> 1, den |-> 1])
                    /\ EpsInv > 1 => (flip(w, [num |-> 0, den |-> 1]) <=> w = 0)
  BY DEF FlipAtTheEnds
<1> DEFINE x == toUnitReal(w).num
           d == toUnitReal(w).den
<1>1. x \in Nat /\ d \in Nat \ {0} /\ x < d
  BY UnitBelowOne
<1>2. flip(w, [num |-> 1, den |-> 1])
  BY <1>1 DEF flip
<1>3. flip(w, [num |-> 0, den |-> 1]) <=> x = 0
  BY <1>1 DEF flip
<1>4. ASSUME EpsInv > 1 PROVE x = 0 <=> w = 0
  BY <1>4, Widths DEF toUnitReal, Word32
<1>. QED
  BY <1>2, <1>3, <1>4
=============================================================================
