----------------------------- MODULE GlobalRNG ------------------------------
(***************************************************************************)
(* The generator that RNG::get() shares (RNG.h, RNG.cpp), and zipf, which  *)
(* draws from it (zipf.cpp).                                               *)
(*                                                                         *)
(* _global is constructed by a static initialiser, and get() may be called *)
(* by one that runs before it.  From then on any thread may draw: nothing  *)
(* is locked, and a step is an access to the shared variables.  A cell of  *)
(* the cache is known by the seed it was drawn from; the place in the      *)
(* sequence is the subject of Generators.                                  *)
(***************************************************************************)
EXTENDS Integers

CONSTANTS
  Threads,
  Main,        \* the thread that runs the static initialisers
  CACHE_SZ,    \* _CACHE_SZ
  IxMod,       \* 2^32, the values of _ix
  Parameters,  \* the arguments of zipf, each [maxRandom, theta]
  Unset        \* the value of a static that was not set, or of no memory of ours

ASSUME GlobalAssumption ==
  /\ Main \in Threads
  /\ CACHE_SZ \in Nat \ {0} /\ IxMod \in Nat /\ CACHE_SZ < IxMod
  /\ \A v \in Parameters : v.theta # Unset   \* the assertion that theta > 0

VARIABLES
  constructed, \* the static initialiser of _global has run
  initialized, \* _globalInitialized
  coeff,       \* RGenI::_coeff is set: a draw is not turned into 0
  seed,        \* of _global: "zero" (static storage), "init" or "time"
  cache, ix,   \* _cache and _ix of _global
  maxRandom, theta, zetaN, eta, \* Zipf's statics; eta stands for alpha, too
  call,        \* the call of each thread: [pc, kind, arg, i]
  early,       \* history: get() was called before _global was constructed
  raced,       \* history: two threads were in the generator at once
  mixed        \* history: a zipf ran while another thread's set the statics

rngVars == <<constructed, initialized, coeff, seed, cache, ix>>
zipfVars == <<maxRandom, theta, zetaN, eta>>
vars == <<rngVars, zipfVars, call, early, raced, mixed>>

Idle == [pc |-> "idle", kind |-> "rand", arg |-> Unset, i |-> 0]

Setting == {"setMax", "setTheta", "setZeta", "setEta"}

InGenerator ==
  {"setCoeff", "setSeed", "setPos", "setFlag", "test", "fill", "filled", "decrement", "store", "read"}

InZipf == {"compare", "use"} \cup Setting

PCs == {"idle", "get"} \cup InGenerator \cup InZipf

Calls == [pc : PCs, kind : {"rand", "zipf"}, arg : Parameters \cup {Unset}, i : 0..(IxMod - 1)]

Maxes == {v.maxRandom : v \in Parameters} \cup {Unset}

Thetas == {v.theta : v \in Parameters} \cup {Unset}

Init ==
  /\ constructed = FALSE /\ initialized = FALSE /\ coeff = FALSE
  /\ seed = "zero"
  /\ cache = [c \in 0..(CACHE_SZ - 1) |-> Unset] /\ ix = 0
  /\ maxRandom = Unset /\ theta = Unset /\ zetaN = Unset /\ eta = Unset
  /\ call = [t \in Threads |-> Idle]
  /\ early = FALSE /\ raced = FALSE /\ mixed = FALSE

At(t, pc) == call[t].pc = pc

\* The thread goes on, and the histories see who is where.
GoTo(t, f) ==
  /\ call' = [call EXCEPT ![t] = f]
  /\ raced' = (raced \/ \E u, v \in Threads : u # v /\ {call'[u].pc, call'[v].pc} \subseteq InGenerator)
  /\ mixed' = (mixed \/ \E u, v \in Threads : u # v /\ call'[u].pc \in Setting /\ call'[v].kind = "zipf")

Step(t, pc) == GoTo(t, [call[t] EXCEPT !.pc = pc])

Return(t) == GoTo(t, Idle)

-----------------------------------------------------------------------------
(* Construction, and get().                                                *)

\* RNG RNG::_global: _ix is 0 and the generator's word is the initial one.
\* The constructor of every RGenI sets _coeff.
Construct ==
  /\ ~constructed /\ At(Main, "idle")
  /\ constructed' = TRUE /\ coeff' = TRUE
  /\ seed' = "init" /\ ix' = 0
  /\ UNCHANGED <<initialized, cache, zipfVars, call, early, raced, mixed>>

Begin(t, kind, arg) ==
  /\ At(t, "idle")
  /\ constructed \/ t = Main
  /\ early' = (early \/ ~constructed)
  /\ GoTo(t, [pc |-> "get", kind |-> kind, arg |-> arg, i |-> 0])
  /\ UNCHANGED <<rngVars, zipfVars>>

AfterGet(t) == IF call[t].kind = "zipf" THEN "compare" ELSE "test"

Get(t) ==
  /\ At(t, "get")
  /\ Step(t, IF initialized THEN AfterGet(t) ELSE "setCoeff")
  /\ UNCHANGED <<rngVars, zipfVars, early>>

\* Without it, which RNG.cpp:38 takes to be possible.
SetCoeffNot(t) ==
  /\ At(t, "setCoeff")
  /\ Step(t, "setSeed")
  /\ UNCHANGED <<rngVars, zipfVars, early>>

\* `RNG rng', for what its constructor does to _coeff.
SetCoeff(t) ==
  /\ At(t, "setCoeff")
  /\ coeff' = TRUE
  /\ Step(t, "setSeed")
  /\ UNCHANGED <<constructed, initialized, seed, cache, ix, zipfVars, early>>

\* _global.setSeed(0): the seed from the time of day, and then the position
\* and the index.
SetSeed(t) ==
  /\ At(t, "setSeed")
  /\ seed' = "time"
  /\ Step(t, "setPos")
  /\ UNCHANGED <<constructed, initialized, coeff, cache, ix, zipfVars, early>>

SetPos(t) ==
  /\ At(t, "setPos")
  /\ ix' = 0
  /\ Step(t, "setFlag")
  /\ UNCHANGED <<constructed, initialized, coeff, seed, cache, zipfVars, early>>

SetFlag(t) ==
  /\ At(t, "setFlag")
  /\ initialized' = TRUE
  /\ Step(t, AfterGet(t))
  /\ UNCHANGED <<constructed, coeff, seed, cache, ix, zipfVars, early>>

-----------------------------------------------------------------------------
(* RGenC::rand.                                                            *)

\* `if( _ix == 0 )'
Test(t) ==
  /\ At(t, "test")
  /\ Step(t, IF ix = 0 THEN "fill" ELSE "decrement")
  /\ UNCHANGED <<rngVars, zipfVars, early>>

\* _fill(), and its assignment to _ix.
Fill(t) ==
  /\ At(t, "fill")
  /\ cache' = [c \in DOMAIN cache |-> IF coeff THEN seed ELSE "zero"]
  /\ Step(t, "filled")
  /\ UNCHANGED <<constructed, initialized, coeff, seed, ix, zipfVars, early>>

Filled(t) ==
  /\ At(t, "filled")
  /\ ix' = CACHE_SZ
  /\ Step(t, "decrement")
  /\ UNCHANGED <<constructed, initialized, coeff, seed, cache, zipfVars, early>>

\* A signed index.
DecrementSigned(t) ==
  /\ At(t, "decrement")
  /\ GoTo(t, [call[t] EXCEPT !.pc = "store", !.i = ix - 1])
  /\ UNCHANGED <<rngVars, zipfVars, early>>

\* `--(_ix)' reads, and stores.
Decrement(t) ==
  /\ At(t, "decrement")
  /\ GoTo(t, [call[t] EXCEPT !.pc = "store", !.i = (ix - 1) % IxMod])
  /\ UNCHANGED <<rngVars, zipfVars, early>>

Store(t) ==
  /\ At(t, "store")
  /\ ix' = call[t].i
  /\ Step(t, "read")
  /\ UNCHANGED <<constructed, initialized, coeff, seed, cache, zipfVars, early>>

\* `return _cache[...]'
Read(t) ==
  /\ At(t, "read")
  /\ IF call[t].kind = "zipf" THEN Step(t, "use") ELSE Return(t)
  /\ UNCHANGED <<rngVars, zipfVars, early>>

-----------------------------------------------------------------------------
(* Zipf::zipf.                                                             *)

CompareMaxOnly(t) ==
  /\ At(t, "compare")
  /\ Step(t, IF maxRandom # call[t].arg.maxRandom THEN "setMax" ELSE "test")
  /\ UNCHANGED <<rngVars, zipfVars, early>>

Compare(t) ==
  /\ At(t, "compare")
  /\ Step(t, IF maxRandom # call[t].arg.maxRandom \/ theta # call[t].arg.theta THEN "setMax" ELSE "test")
  /\ UNCHANGED <<rngVars, zipfVars, early>>

SetMax(t) ==
  /\ At(t, "setMax")
  /\ maxRandom' = call[t].arg.maxRandom
  /\ Step(t, "setTheta")
  /\ UNCHANGED <<rngVars, theta, zetaN, eta, early>>

SetTheta(t) ==
  /\ At(t, "setTheta")
  /\ theta' = call[t].arg.theta
  /\ Step(t, "setZeta")
  /\ UNCHANGED <<rngVars, maxRandom, zetaN, eta, early>>

\* zeta is given the statics, not the arguments.
SetZeta(t) ==
  /\ At(t, "setZeta")
  /\ zetaN' = <<maxRandom, theta>>
  /\ Step(t, "setEta")
  /\ UNCHANGED <<rngVars, maxRandom, theta, eta, early>>

SetEta(t) ==
  /\ At(t, "setEta")
  /\ eta' = <<maxRandom, theta, zetaN>>
  /\ Step(t, "test")
  /\ UNCHANGED <<rngVars, maxRandom, theta, zetaN, early>>

\* The draw is turned into a number by the statics.
Use(t) ==
  /\ At(t, "use")
  /\ Return(t)
  /\ UNCHANGED <<rngVars, zipfVars, early>>

-----------------------------------------------------------------------------
Next ==
  \/ Construct
  \/ \E t \in Threads :
       \/ Begin(t, "rand", Unset)
       \/ \E v \in Parameters : Begin(t, "zipf", v)
       \/ Get(t) \/ SetCoeff(t) \/ SetSeed(t) \/ SetPos(t) \/ SetFlag(t)
       \/ Test(t) \/ Fill(t) \/ Filled(t) \/ Decrement(t) \/ Store(t) \/ Read(t)
       \/ Compare(t) \/ SetMax(t) \/ SetTheta(t) \/ SetZeta(t) \/ SetEta(t) \/ Use(t)

Spec == Init /\ [][Next]_vars

-----------------------------------------------------------------------------
(* Properties.                                                             *)

TypeOK ==
  /\ {constructed, initialized, coeff, early, raced, mixed} \subseteq BOOLEAN
  /\ seed \in {"zero", "init", "time"}
  /\ cache \in [0..(CACHE_SZ - 1) -> {"zero", "init", "time", Unset}]
  /\ ix \in 0..(IxMod - 1)
  /\ maxRandom \in Maxes /\ theta \in Thetas
  /\ call \in [Threads -> Calls]

\* RNG.h:295 and 109, the shared generator has "a random seed using time of
\* day": a draw returns a value of the cache, and of that seed, unless get() was
\* called before the constructor, which puts the initial seed back and leaves
\* the flag.  All that needs that no two threads were in the generator at once.
DrawsSound ==
  ~raced => \A t \in Threads : At(t, "read") =>
    /\ call[t].i \in DOMAIN cache
    /\ cache[call[t].i] = IF early /\ constructed THEN "init" ELSE "time"

\* Zipf's derived statics are those of the caller's arguments, although they
\* are computed only when these change, unless a call ran while another thread's
\* set the statics.
ZipfOfArguments ==
  ~mixed => \A t \in Threads : At(t, "use") =>
    LET v == call[t].arg
    IN  /\ maxRandom = v.maxRandom /\ theta = v.theta
        /\ zetaN = <<v.maxRandom, v.theta>>
        /\ eta = <<v.maxRandom, v.theta, zetaN>>
=============================================================================
