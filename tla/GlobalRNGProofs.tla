-------------------------- MODULE GlobalRNGProofs ---------------------------
(***************************************************************************)
(* What holds of the shared generator and of Zipf for any threads, cache   *)
(* and parameters.                                                         *)
(***************************************************************************)
EXTENDS GlobalRNG, TLAPS

Initing == {"setCoeff", "setSeed", "setPos", "setFlag"}

Drawing == {"test", "fill", "filled", "decrement", "store", "read"}

\* The seed that draws are to be of.
Want == IF early /\ constructed THEN "init" ELSE "time"

\* The histories say who can be where.
Exclusive ==
  /\ ~raced => \A u, v \in Threads :
       u # v /\ call[u].pc \in InGenerator => call[v].pc \notin InGenerator
  /\ ~mixed => \A u, v \in Threads :
       u # v /\ call[u].pc \in Setting => call[v].kind # "zipf"

LifeOf(c) ==
  /\ c.pc \in InZipf \cup Drawing => initialized
  /\ c.pc \in {"setSeed", "setPos", "setFlag"} => coeff
  /\ c.pc \in InZipf => c.kind = "zipf"
  /\ c.kind = "zipf" => c.arg \in Parameters

\* Before its constructor the generator is at most the main thread's, and once
\* it is initialised it stays so.
Life ==
  /\ ~constructed => \A t \in Threads : t # Main => At(t, "idle")
  /\ ~constructed /\ ~early => ~initialized /\ At(Main, "idle")
  /\ early => initialized \/ (~constructed /\ call[Main].pc \in Initing \cup {"get"})
  /\ constructed \/ initialized => coeff
  /\ \A t \in Threads : LifeOf(call[t])

\* Where the one thread in the generator is says what it has made of it.
GeneratorOf(c) ==
  /\ c.pc \in Initing => ~initialized
  /\ c.pc \in {"setPos", "setFlag"} => seed = "time"
  /\ c.pc = "setFlag" => ix = 0
  /\ c.pc = "fill" => ix = 0
  /\ c.pc = "filled" => \A k \in 0..(CACHE_SZ - 1) : cache[k] = Want
  /\ c.pc = "decrement" => ix > 0
  /\ c.pc = "store" => ix > 0 /\ c.i = ix - 1
  /\ c.pc = "read" => ix < CACHE_SZ /\ c.i = ix /\ cache[ix] = Want

\* What is left in the cache is of the seed wanted.
Filling == seed = Want /\ ix <= CACHE_SZ /\ \A k \in 0..(ix - 1) : cache[k] = Want

GeneratorSound ==
  ~raced =>
    /\ initialized => Filling
    /\ \A t \in Threads : GeneratorOf(call[t])

\* The derived statics are of the parameters, but while a thread sets them.
Derived == theta # Unset => zetaN = <<maxRandom, theta>> /\ eta = <<maxRandom, theta, zetaN>>

ZipfOf(c) ==
  /\ c.pc \in {"setTheta", "setZeta", "setEta"} => maxRandom = c.arg.maxRandom
  /\ c.pc \in {"setZeta", "setEta"} => theta = c.arg.theta
  /\ c.pc = "setEta" => zetaN = <<maxRandom, theta>>
  /\ c.kind = "zipf" /\ c.pc \in Drawing \cup {"use"} =>
       maxRandom = c.arg.maxRandom /\ theta = c.arg.theta

ZipfSound ==
  ~mixed =>
    /\ (\A t \in Threads : call[t].pc \notin Setting) => Derived
    /\ \A t \in Threads : ZipfOf(call[t])

IInv == TypeOK /\ Exclusive /\ Life /\ GeneratorSound /\ ZipfSound

-----------------------------------------------------------------------------
LEMMA ConstantFacts ==
  /\ Main \in Threads
  /\ CACHE_SZ \in Nat /\ CACHE_SZ > 0 /\ IxMod \in Nat /\ CACHE_SZ < IxMod
  /\ \A v \in Parameters : v.theta # Unset
  /\ \A v \in Parameters : v.maxRandom \in Maxes /\ v.theta \in Thetas
BY GlobalAssumption DEF Maxes, Thetas

LEMMA InitSound == Init => IInv
<1>. SUFFICES ASSUME Init PROVE IInv
  OBVIOUS
<1>1. \A t \in Threads : call[t] = Idle
  BY DEF Init
<1>2. TypeOK
  <2>1. Idle \in Calls
    BY ConstantFacts DEF Calls, Idle, PCs
  <2>2. call \in [Threads -> Calls]
    BY <2>1 DEF Init
  <2>3. ix \in 0..(IxMod - 1) /\ cache \in [0..(CACHE_SZ - 1) -> {"zero", "init", "time", Unset}]
    BY ConstantFacts DEF Init
  <2>. QED
    BY <2>2, <2>3 DEF Init, TypeOK, Maxes, Thetas
<1>3. Exclusive
  BY <1>1 DEF Exclusive, Idle, InGenerator, Setting
<1>4. Life
  BY <1>1, ConstantFacts DEF Init, Life, LifeOf, Idle, At, Initing, Drawing, InZipf, Setting
<1>5. GeneratorSound
  BY <1>1 DEF Init, GeneratorSound, GeneratorOf, Idle, Initing
<1>6. ZipfSound
  BY <1>1 DEF Init, ZipfSound, ZipfOf, Derived, Idle, Drawing
<1>. QED
  BY <1>2, <1>3, <1>4, <1>5, <1>6 DEF IInv

\* What a step of a thread does to the calls and the histories.
LEMMA GoToFacts ==
  ASSUME TypeOK, NEW t \in Threads, NEW f \in Calls, GoTo(t, f)
  PROVE  /\ call' \in [Threads -> Calls]
         /\ call'[t] = f
         /\ \A u \in Threads : u # t => call'[u] = call[u]
         /\ Exclusive'
         /\ raced' \in BOOLEAN /\ mixed' \in BOOLEAN
         /\ ~raced' => ~raced
         /\ ~mixed' => ~mixed
<1>1. call \in [Threads -> Calls] /\ raced \in BOOLEAN /\ mixed \in BOOLEAN
  BY DEF TypeOK
<1>2. call' = [call EXCEPT ![t] = f]
  BY DEF GoTo
<1>3. raced' = (raced \/ \E u, v \in Threads : u # v /\ {call'[u].pc, call'[v].pc} \subseteq InGenerator)
  BY DEF GoTo
<1>4. mixed' = (mixed \/ \E u, v \in Threads : u # v /\ call'[u].pc \in Setting /\ call'[v].kind = "zipf")
  BY DEF GoTo
<1>5. Exclusive'
  BY <1>3, <1>4 DEF Exclusive
<1>. QED
  BY <1>1, <1>2, <1>3, <1>4, <1>5

LEMMA StepFacts ==
  ASSUME TypeOK, NEW t \in Threads, NEW pc \in PCs, Step(t, pc)
  PROVE  /\ [call[t] EXCEPT !.pc = pc] \in Calls
         /\ GoTo(t, [call[t] EXCEPT !.pc = pc])
         /\ call'[t].pc = pc /\ call'[t].kind = call[t].kind
         /\ call'[t].arg = call[t].arg /\ call'[t].i = call[t].i
<1>1. [call[t] EXCEPT !.pc = pc] \in Calls
  BY DEF TypeOK, Calls
<1>2. GoTo(t, [call[t] EXCEPT !.pc = pc])
  BY DEF Step
<1>3. call[t] \in Calls
  BY DEF TypeOK
<1>. QED
  BY <1>1, <1>2, <1>3, GoToFacts DEF Calls

\* The thread in the generator is alone there, until two race.
LEMMA Alone ==
  ASSUME IInv, ~raced, NEW t \in Threads, call[t].pc \in InGenerator,
         NEW u \in Threads, u # t
  PROVE  call[u].pc \notin InGenerator
BY DEF IInv, Exclusive

\* A step that changes no more than a call's place keeps the invariant if what the
\* place says is so.
LEMMA MoveSound ==
  ASSUME IInv, NEW t \in Threads, NEW f \in Calls, GoTo(t, f),
         UNCHANGED <<rngVars, zipfVars, early>>,
         constructed \/ early, constructed \/ t = Main,
         LifeOf(f),
         ~raced => GeneratorOf(f),
         ~mixed => ZipfOf(f),
         ~mixed /\ call[t].pc \in Setting => f.pc \in Setting,
         early => initialized \/ (~constructed /\ (t = Main => f.pc \in Initing \cup {"get"}))
  PROVE  IInv'
<1>1. /\ call' \in [Threads -> Calls] /\ call'[t] = f
      /\ \A u \in Threads : u # t => call'[u] = call[u]
      /\ Exclusive' /\ raced' \in BOOLEAN /\ mixed' \in BOOLEAN
      /\ ~raced' => ~raced
      /\ ~mixed' => ~mixed
  BY GoToFacts DEF IInv
<1>2. TypeOK'
  BY <1>1 DEF IInv, TypeOK, rngVars, zipfVars
<1>3. Life'
  BY <1>1 DEF IInv, Life, LifeOf, At, rngVars
<1>4. GeneratorSound'
  BY <1>1 DEF IInv, GeneratorSound, GeneratorOf, Filling, Want, rngVars
<1>5. ZipfSound'
  <2>1. ASSUME ~mixed', \A u \in Threads : call'[u].pc \notin Setting PROVE Derived'
    BY <1>1, <2>1 DEF IInv, ZipfSound, Derived, zipfVars
  <2>2. ASSUME ~mixed', NEW u \in Threads PROVE ZipfOf(call[u])'
    BY <1>1, <2>2 DEF IInv, ZipfSound, ZipfOf, zipfVars
  <2>. QED
    BY <2>1, <2>2 DEF ZipfSound
<1>. QED
  BY <1>1, <1>2, <1>3, <1>4, <1>5 DEF IInv

\* What the invariant says of a thread that is in a call.
LEMMA Acting ==
  ASSUME IInv, NEW t \in Threads, call[t].pc # "idle"
  PROVE  /\ call[t] \in Calls
         /\ constructed \/ early
         /\ constructed \/ t = Main
         /\ early => initialized \/ (~constructed /\ (t = Main => call[t].pc \in Initing \cup {"get"}))
         /\ LifeOf(call[t])
         /\ ~raced => GeneratorOf(call[t])
         /\ ~mixed => ZipfOf(call[t])
BY DEF IInv, TypeOK, Life, At, GeneratorSound, ZipfSound

\* A write of the generator keeps the invariant if it does what the place of its
\* thread says: that thread is alone, or the two race.
LEMMA GeneratorWriteSound ==
  ASSUME IInv, NEW t \in Threads, call[t].pc \in InGenerator,
         NEW f \in Calls, GoTo(t, f),
         UNCHANGED <<constructed, zipfVars, early>>,
         TypeOK',
         initialized => initialized',
         coeff => coeff', initialized' => coeff',
         LifeOf(f)',
         ~raced => (initialized' => Filling') /\ GeneratorOf(f)',
         ~mixed => ZipfOf(f),
         early => initialized' \/ (~constructed /\ (t = Main => f.pc \in Initing \cup {"get"}))
  PROVE  IInv'
<1>1. /\ call'[t] = f
      /\ \A u \in Threads : u # t => call'[u] = call[u]
      /\ Exclusive'
      /\ ~raced' => ~raced
      /\ ~mixed' => ~mixed
  BY GoToFacts DEF IInv
<1>2. call[t].pc # "idle" /\ call[t].pc \notin Setting
  BY DEF InGenerator, Setting
<1>3. Life'
  <2>1. \A u \in Threads : u # t => LifeOf(call[u])'
    BY <1>1 DEF IInv, Life, LifeOf
  <2>2. \A u \in Threads : LifeOf(call[u])'
    BY <2>1, <1>1 DEF LifeOf
  <2>. QED
    BY <1>1, <1>2, <2>2, Acting DEF IInv, Life, At
<1>4. GeneratorSound'
  <2>1. ASSUME ~raced', NEW u \in Threads PROVE GeneratorOf(call[u])'
    <3>1. CASE u = t
      BY <1>1, <2>1, <3>1 DEF GeneratorOf
    <3>2. CASE u # t
      <4>1. call[u].pc \notin InGenerator
        BY Alone, <1>1, <2>1, <3>2
      <4>. QED
        BY <4>1, <1>1, <3>2 DEF GeneratorOf, InGenerator, Initing
    <3>. QED
      BY <3>1, <3>2
  <2>. QED
    BY <1>1, <2>1 DEF GeneratorSound
<1>5. ZipfSound'
  <2>1. ASSUME ~mixed', \A u \in Threads : call'[u].pc \notin Setting PROVE Derived'
    BY <1>1, <1>2, <2>1 DEF IInv, ZipfSound, Derived, zipfVars
  <2>2. ASSUME ~mixed', NEW u \in Threads PROVE ZipfOf(call[u])'
    BY <1>1, <2>2 DEF IInv, ZipfSound, ZipfOf, zipfVars
  <2>. QED
    BY <2>1, <2>2 DEF ZipfSound
<1>. QED
  BY <1>1, <1>3, <1>4, <1>5 DEF IInv

\* And a write of Zipf's statics likewise.
LEMMA ZipfWriteSound ==
  ASSUME IInv, NEW t \in Threads, call[t].pc \in Setting,
         NEW pc \in Setting \cup {"test"}, Step(t, pc),
         UNCHANGED <<rngVars, early>>,
         maxRandom' \in Maxes, theta' \in Thetas,
         ~mixed => ZipfOf(call[t])',
         ~mixed /\ pc = "test" => Derived'
  PROVE  IInv'
<1>0. pc \in PCs
  BY DEF PCs, Setting, InGenerator, InZipf
<1>1. /\ call' \in [Threads -> Calls]
      /\ \A u \in Threads : u # t => call'[u] = call[u]
      /\ Exclusive'
      /\ ~raced' => ~raced
      /\ ~mixed' => ~mixed
      /\ raced' \in BOOLEAN /\ mixed' \in BOOLEAN
  BY <1>0, StepFacts, GoToFacts DEF IInv
<1>2. /\ call'[t].pc = pc /\ call'[t].kind = call[t].kind
      /\ call'[t].arg = call[t].arg
  BY <1>0, StepFacts DEF IInv
<1>3. TypeOK'
  BY <1>1 DEF IInv, TypeOK, rngVars
<1>4. call[t].pc # "idle" /\ call[t].kind = "zipf" /\ initialized /\ call[t].arg \in Parameters
  BY DEF Setting, IInv, Life, LifeOf, InZipf
<1>5. Life'
  <2>1. \A u \in Threads : u # t => LifeOf(call[u])'
    BY <1>1 DEF IInv, Life, LifeOf, rngVars
  <2>2. LifeOf(call[t])'
    BY <1>2, <1>4 DEF LifeOf, rngVars, Setting
  <2>. QED
    BY <1>1, <1>4, <2>1, <2>2, Acting DEF IInv, Life, At, rngVars
<1>6. GeneratorSound'
  <2>1. ASSUME ~raced', NEW u \in Threads PROVE GeneratorOf(call[u])'
    <3>1. CASE u = t
      BY <1>2, <3>1 DEF GeneratorOf, Setting, Initing
    <3>2. CASE u # t
      BY <1>1, <2>1, <3>2 DEF IInv, GeneratorSound, GeneratorOf, Want, rngVars
    <3>. QED
      BY <3>1, <3>2
  <2>. QED
    BY <1>1, <2>1 DEF IInv, GeneratorSound, Filling, Want, rngVars
<1>7. ZipfSound'
  <2>1. ASSUME ~mixed', \A u \in Threads : call'[u].pc \notin Setting PROVE Derived'
    BY <1>1, <1>2, <2>1
  <2>2. ASSUME ~mixed', NEW u \in Threads PROVE ZipfOf(call[u])'
    <3>1. CASE u = t
      BY <1>1, <2>2, <3>1
    <3>2. CASE u # t
      <4>1. call[u].kind # "zipf" /\ call[u].pc \notin InZipf
        BY <1>1, <2>2, <3>2 DEF IInv, Exclusive, Life, LifeOf
      <4>. QED
        BY <4>1, <1>1, <3>2 DEF ZipfOf, InZipf, Setting
    <3>. QED
      BY <3>1, <3>2
  <2>. QED
    BY <2>1, <2>2 DEF ZipfSound
<1>. QED
  BY <1>1, <1>3, <1>5, <1>6, <1>7 DEF IInv

-----------------------------------------------------------------------------
(* The actions.                                                            *)

LEMMA ConstructSound == IInv /\ Construct => IInv'
<1>. SUFFICES ASSUME IInv, Construct PROVE IInv'
  OBVIOUS
<1>1. /\ ~constructed /\ constructed' /\ coeff' /\ seed' = "init" /\ ix' = 0
      /\ UNCHANGED <<initialized, cache, zipfVars, call, early, raced, mixed>>
  BY DEF Construct
<1>2. \A t \in Threads : call[t].pc = "idle"
  BY ConstantFacts DEF IInv, Life, At, Construct
<1>3. TypeOK'
  BY <1>1, ConstantFacts DEF IInv, TypeOK, zipfVars
<1>4. Exclusive'
  BY <1>1 DEF IInv, Exclusive
<1>5. Life'
  BY <1>1, <1>2, ConstantFacts DEF IInv, Life, LifeOf, At, Initing
<1>6. GeneratorSound'
  <2>1. initialized' => early'
    BY <1>1, <1>2, ConstantFacts DEF IInv, Life
  <2>2. initialized' => Filling'
    BY <1>1, <2>1, ConstantFacts DEF Filling, Want
  <2>3. \A t \in Threads : GeneratorOf(call[t])'
    BY <1>1, <1>2 DEF GeneratorOf, Initing
  <2>. QED
    BY <2>2, <2>3 DEF GeneratorSound
<1>7. ZipfSound'
  BY <1>1 DEF IInv, ZipfSound, ZipfOf, Derived, zipfVars
<1>. QED
  BY <1>3, <1>4, <1>5, <1>6, <1>7 DEF IInv

\* A call of the main thread before the constructor is the early one.
LEMMA BeginSound ==
  ASSUME IInv, NEW t \in Threads,
         NEW kind \in {"rand", "zipf"}, NEW arg \in Parameters \cup {Unset},
         kind = "zipf" => arg \in Parameters,
         Begin(t, kind, arg)
  PROVE  IInv'
<1>. DEFINE f == [pc |-> "get", kind |-> kind, arg |-> arg, i |-> 0]
<1>1. f \in Calls
  BY ConstantFacts DEF Calls, PCs
<1>2. GoTo(t, f) /\ (constructed \/ t = Main) /\ early' = (early \/ ~constructed)
      /\ At(t, "idle") /\ UNCHANGED <<rngVars, zipfVars>>
  BY DEF Begin
<1>3. /\ call' \in [Threads -> Calls] /\ call'[t] = f
      /\ \A u \in Threads : u # t => call'[u] = call[u]
      /\ Exclusive' /\ raced' \in BOOLEAN /\ mixed' \in BOOLEAN
      /\ ~raced' => ~raced
      /\ ~mixed' => ~mixed
  BY <1>1, <1>2, GoToFacts DEF IInv
<1>4. f.pc = "get" /\ f.kind = kind /\ f.arg = arg
  OBVIOUS
<1>. HIDE DEF f
<1>5. TypeOK'
  BY <1>2, <1>3 DEF IInv, TypeOK, rngVars, zipfVars
<1>6. Life'
  <2>1. \A u \in Threads : LifeOf(call[u])'
    BY <1>2, <1>3, <1>4 DEF IInv, Life, LifeOf, InZipf, Setting, Drawing, rngVars
  <2>2. early' => initialized' \/ (~constructed' /\ call'[Main].pc \in Initing \cup {"get"})
    BY <1>2, <1>3, <1>4, ConstantFacts DEF IInv, Life, At, rngVars
  <2>3. ~constructed' => \A u \in Threads : u # Main => call'[u].pc = "idle"
    BY <1>2, <1>3 DEF IInv, Life, At, rngVars
  <2>4. ~constructed' => early'
    BY <1>2 DEF IInv, TypeOK, rngVars
  <2>. QED
    BY <1>2, <2>1, <2>2, <2>3, <2>4 DEF IInv, Life, At, rngVars
<1>7. GeneratorSound'
  <2>1. Want' = Want
    BY <1>2 DEF Want, rngVars
  <2>2. ASSUME ~raced', NEW u \in Threads PROVE GeneratorOf(call[u])'
    <3>1. CASE u = t
      BY <1>3, <1>4, <3>1 DEF GeneratorOf, Initing
    <3>2. CASE u # t
      BY <1>2, <1>3, <2>1, <2>2, <3>2 DEF IInv, GeneratorSound, GeneratorOf, rngVars
    <3>. QED
      BY <3>1, <3>2
  <2>. QED
    BY <1>2, <1>3, <2>1, <2>2 DEF IInv, GeneratorSound, Filling, rngVars
<1>8. ZipfSound'
  <2>1. ASSUME ~mixed', \A u \in Threads : call'[u].pc \notin Setting PROVE Derived'
    BY <1>2, <1>3, <2>1 DEF IInv, ZipfSound, Derived, zipfVars, At, Setting
  <2>2. ASSUME ~mixed', NEW u \in Threads PROVE ZipfOf(call[u])'
    BY <1>2, <1>3, <1>4, <2>2 DEF IInv, ZipfSound, ZipfOf, zipfVars, Drawing
  <2>. QED
    BY <2>1, <2>2 DEF ZipfSound
<1>. QED
  BY <1>3, <1>5, <1>6, <1>7, <1>8 DEF IInv

\* A step that changes a call's place, in the terms of that place.
LEMMA StepSound ==
  ASSUME IInv, NEW t \in Threads, call[t].pc \notin {"idle"} \cup Setting,
         NEW pc \in PCs, Step(t, pc), UNCHANGED <<rngVars, zipfVars, early>>,
         LifeOf([call[t] EXCEPT !.pc = pc]),
         ~raced => GeneratorOf([call[t] EXCEPT !.pc = pc]),
         ~mixed => ZipfOf([call[t] EXCEPT !.pc = pc]),
         initialized \/ pc \in Initing
  PROVE  IInv'
<1>. DEFINE f == [call[t] EXCEPT !.pc = pc]
<1>1. f \in Calls /\ GoTo(t, f)
  BY StepFacts DEF IInv
<1>2. f.pc = pc
  BY Acting DEF Calls
<1>. QED
  BY <1>1, <1>2, Acting, MoveSound

LEMMA GetSound ==
  ASSUME IInv, NEW t \in Threads, Get(t)
  PROVE  IInv'
<1>. DEFINE pc == IF initialized THEN AfterGet(t) ELSE "setCoeff"
<1>. DEFINE f == [call[t] EXCEPT !.pc = pc]
<1>1. call[t].pc = "get" /\ Step(t, pc) /\ UNCHANGED <<rngVars, zipfVars, early>>
  BY DEF Get, At
<1>2. /\ pc \in {"compare", "test", "setCoeff"}
      /\ pc \in {"compare", "test"} => initialized
      /\ pc = "compare" => call[t].kind = "zipf"
      /\ pc = "setCoeff" => ~initialized
      /\ pc = "test" => call[t].kind # "zipf"
  BY DEF AfterGet
<1>3. call[t] \in Calls /\ LifeOf(call[t])
  BY <1>1, Acting
<1>4. f.pc = pc /\ f.kind = call[t].kind /\ f.arg = call[t].arg
  BY <1>3 DEF Calls
<1>. HIDE DEF pc
<1>5. pc \in PCs /\ (initialized \/ pc \in Initing) /\ call[t].pc \notin {"idle"} \cup Setting
  BY <1>1, <1>2 DEF PCs, InGenerator, InZipf, Initing, Setting
<1>6. LifeOf(f) /\ GeneratorOf(f) /\ ZipfOf(f)
  BY <1>2, <1>3, <1>4 DEF LifeOf, GeneratorOf, ZipfOf, InZipf, Setting, Drawing, Initing
<1>. QED
  BY <1>1, <1>5, <1>6, StepSound

LEMMA TestSound ==
  ASSUME IInv, NEW t \in Threads, Test(t)
  PROVE  IInv'
<1>. DEFINE pc == IF ix = 0 THEN "fill" ELSE "decrement"
<1>. DEFINE f == [call[t] EXCEPT !.pc = pc]
<1>1. call[t].pc = "test" /\ Step(t, pc) /\ UNCHANGED <<rngVars, zipfVars, early>>
  BY DEF Test, At
<1>2. pc \in {"fill", "decrement"} /\ (pc = "fill" => ix = 0) /\ (pc = "decrement" => ix > 0)
  BY ConstantFacts DEF IInv, TypeOK
<1>3. call[t] \in Calls /\ LifeOf(call[t]) /\ (~mixed => ZipfOf(call[t]))
  BY <1>1, Acting
<1>4. f.pc = pc /\ f.kind = call[t].kind /\ f.arg = call[t].arg
  BY <1>3 DEF Calls
<1>. HIDE DEF pc
<1>5. pc \in PCs /\ initialized /\ call[t].pc \notin {"idle"} \cup Setting
  BY <1>1, <1>2, <1>3 DEF PCs, InGenerator, InZipf, Setting, LifeOf, Drawing
<1>6. LifeOf(f) /\ GeneratorOf(f)
  BY <1>1, <1>2, <1>3, <1>4 DEF LifeOf, GeneratorOf, InZipf, Setting, Drawing, Initing
<1>7. ~mixed => ZipfOf(f)
  BY <1>1, <1>2, <1>3, <1>4 DEF ZipfOf, Drawing
<1>. QED
  BY <1>1, <1>5, <1>6, <1>7, StepSound

LEMMA CompareSound ==
  ASSUME IInv, NEW t \in Threads, Compare(t)
  PROVE  IInv'
<1>. DEFINE pc == IF maxRandom # call[t].arg.maxRandom \/ theta # call[t].arg.theta THEN "setMax" ELSE "test"
<1>. DEFINE f == [call[t] EXCEPT !.pc = pc]
<1>1. call[t].pc = "compare" /\ Step(t, pc) /\ UNCHANGED <<rngVars, zipfVars, early>>
  BY DEF Compare, At
<1>2. /\ pc \in {"setMax", "test"}
      /\ pc = "test" => maxRandom = call[t].arg.maxRandom /\ theta = call[t].arg.theta
  OBVIOUS
<1>3. call[t] \in Calls /\ LifeOf(call[t])
  BY <1>1, Acting
<1>4. f.pc = pc /\ f.kind = call[t].kind /\ f.arg = call[t].arg
  BY <1>3 DEF Calls
<1>. HIDE DEF pc
<1>5. pc \in PCs /\ initialized /\ call[t].pc \notin {"idle"} \cup Setting
  BY <1>1, <1>2, <1>3 DEF PCs, InGenerator, InZipf, Setting, LifeOf
<1>6. LifeOf(f) /\ GeneratorOf(f) /\ ZipfOf(f)
  BY <1>1, <1>2, <1>3, <1>4 DEF LifeOf, GeneratorOf, ZipfOf, InZipf, Setting, Drawing, Initing
<1>. QED
  BY <1>1, <1>5, <1>6, StepSound

LEMMA ReturnSound ==
  ASSUME IInv, NEW t \in Threads, initialized, call[t].pc \notin {"idle"} \cup Setting,
         Return(t), UNCHANGED <<rngVars, zipfVars, early>>
  PROVE  IInv'
<1>1. Idle \in Calls
  BY ConstantFacts DEF Calls, Idle, PCs
<1>2. LifeOf(Idle) /\ GeneratorOf(Idle) /\ ZipfOf(Idle)
  BY DEF LifeOf, GeneratorOf, ZipfOf, Idle, InZipf, Setting, Drawing, Initing
<1>. QED
  BY <1>1, <1>2, Acting, MoveSound DEF Return

LEMMA UseSound ==
  ASSUME IInv, NEW t \in Threads, Use(t)
  PROVE  IInv'
<1>1. call[t].pc = "use" /\ Return(t) /\ UNCHANGED <<rngVars, zipfVars, early>>
  BY DEF Use, At
<1>2. initialized
  BY <1>1, Acting DEF LifeOf, InZipf
<1>. QED
  BY <1>1, <1>2, ReturnSound DEF Setting

LEMMA ReadSound ==
  ASSUME IInv, NEW t \in Threads, Read(t)
  PROVE  IInv'
<1>. DEFINE f == [call[t] EXCEPT !.pc = "use"]
<1>1. call[t].pc = "read" /\ UNCHANGED <<rngVars, zipfVars, early>>
  BY DEF Read, At
<1>2. initialized /\ call[t] \in Calls /\ LifeOf(call[t]) /\ (~mixed => ZipfOf(call[t]))
  BY <1>1, Acting DEF LifeOf, Drawing
<1>3. CASE call[t].kind = "zipf"
  <2>1. f.pc = "use" /\ f.kind = call[t].kind /\ f.arg = call[t].arg
    BY <1>2 DEF Calls
  <2>2. LifeOf(f) /\ GeneratorOf(f)
    BY <2>1, <1>2, <1>3 DEF LifeOf, GeneratorOf, InZipf, Setting, Drawing, Initing
  <2>3. ~mixed => ZipfOf(f)
    BY <2>1, <1>1, <1>2 DEF ZipfOf, Drawing
  <2>4. Step(t, "use") /\ "use" \in PCs /\ call[t].pc \notin {"idle"} \cup Setting
    BY <1>1, <1>3 DEF Read, PCs, InZipf, Setting
  <2>. QED
    BY <1>1, <1>2, <2>2, <2>3, <2>4, StepSound
<1>4. CASE call[t].kind # "zipf"
  BY <1>1, <1>2, <1>4, ReturnSound DEF Read, Setting
<1>. QED
  BY <1>3, <1>4

LEMMA DecrementSound ==
  ASSUME IInv, NEW t \in Threads, Decrement(t)
  PROVE  IInv'
<1>. DEFINE f == [call[t] EXCEPT !.pc = "store", !.i = (ix - 1) % IxMod]
<1>1. call[t].pc = "decrement" /\ GoTo(t, f) /\ UNCHANGED <<rngVars, zipfVars, early>>
  BY DEF Decrement, At
<1>2. /\ initialized /\ call[t] \in Calls /\ LifeOf(call[t])
      /\ (~raced => GeneratorOf(call[t])) /\ (~mixed => ZipfOf(call[t]))
  BY <1>1, Acting DEF LifeOf, Drawing
<1>3. ix \in 0..(IxMod - 1)
  BY DEF IInv, TypeOK
<1>4. (ix - 1) % IxMod \in 0..(IxMod - 1) /\ (ix > 0 => (ix - 1) % IxMod = ix - 1)
  BY <1>3, ConstantFacts
<1>5. f \in Calls
  BY <1>2, <1>4 DEF Calls, PCs, InGenerator
<1>6. f.pc = "store" /\ f.kind = call[t].kind /\ f.arg = call[t].arg /\ f.i = (ix - 1) % IxMod
  BY <1>2 DEF Calls
<1>. HIDE DEF f
<1>7. LifeOf(f)
  BY <1>2, <1>6 DEF LifeOf, InZipf, Setting, Drawing
<1>8. ~raced => GeneratorOf(f)
  BY <1>1, <1>2, <1>4, <1>6 DEF GeneratorOf, Initing
<1>9. ~mixed => ZipfOf(f)
  BY <1>1, <1>2, <1>6 DEF ZipfOf, Drawing
<1>. QED
  BY <1>1, <1>2, <1>5, <1>7, <1>8, <1>9, Acting, MoveSound DEF Setting

\* The steps of setSeed: until the flag is set the invariant asks for nothing of
\* the cache.
LEMMA InitingSound ==
  ASSUME IInv, NEW t \in Threads, call[t].pc \in Initing, NEW pc \in Initing, Step(t, pc),
         UNCHANGED <<constructed, initialized, zipfVars, early>>,
         coeff => coeff',
         coeff' \in BOOLEAN, seed' \in {"zero", "init", "time"}, cache' = cache, ix' \in 0..(IxMod - 1),
         pc # "setCoeff" => coeff',
         (pc \in {"setPos", "setFlag"} /\ ~raced) => seed' = "time",
         pc = "setFlag" => ix' = 0
  PROVE  IInv'
<1>0. pc \in PCs
  BY DEF PCs, InGenerator, Initing
<1>1. PICK f \in Calls : f = [call[t] EXCEPT !.pc = pc] /\ GoTo(t, f)
  BY <1>0, StepFacts DEF IInv
<1>2. call[t] \in Calls /\ LifeOf(call[t]) /\ (~raced => GeneratorOf(call[t]))
  BY Acting DEF Initing
<1>3. f.pc = pc /\ f.kind = call[t].kind /\ f.arg = call[t].arg
  BY <1>1, <1>2 DEF Calls
<1>4. TypeOK'
  BY <1>1, GoToFacts DEF IInv, TypeOK, zipfVars
<1>5. LifeOf(f)'
  BY <1>2, <1>3 DEF LifeOf, InZipf, Setting, Drawing, Initing
<1>6. ~raced => ~initialized /\ GeneratorOf(f)'
  BY <1>2, <1>3 DEF GeneratorOf, Initing
<1>7. ZipfOf(f)
  BY <1>3 DEF ZipfOf, Initing, Drawing
<1>8. initialized' => coeff'
  BY DEF IInv, Life
<1>9. call[t].pc # "idle" /\ call[t].pc \in InGenerator
  BY DEF Initing, InGenerator
<1>10. early => initialized' \/ (~constructed /\ (t = Main => f.pc \in Initing \cup {"get"}))
  BY <1>3, <1>9, Acting
<1>. QED
  BY <1>1, <1>4, <1>5, <1>6, <1>7, <1>8, <1>9, <1>10, GeneratorWriteSound

LEMMA SetCoeffSound ==
  ASSUME IInv, NEW t \in Threads, SetCoeff(t)
  PROVE  IInv'
<1>1. Step(t, "setSeed") /\ call[t].pc = "setCoeff"
  BY DEF SetCoeff, At
<1>. QED
  BY <1>1, InitingSound DEF SetCoeff, Initing, IInv, TypeOK

LEMMA SetSeedSound ==
  ASSUME IInv, NEW t \in Threads, SetSeed(t)
  PROVE  IInv'
<1>1. Step(t, "setPos") /\ call[t].pc = "setSeed"
  BY DEF SetSeed, At
<1>2. coeff
  BY <1>1, Acting DEF LifeOf
<1>. QED
  BY <1>1, <1>2, InitingSound DEF SetSeed, Initing, IInv, TypeOK

LEMMA SetPosSound ==
  ASSUME IInv, NEW t \in Threads, SetPos(t)
  PROVE  IInv'
<1>1. Step(t, "setFlag") /\ call[t].pc = "setPos"
  BY DEF SetPos, At
<1>2. coeff /\ (~raced => seed = "time")
  BY <1>1, Acting DEF LifeOf, GeneratorOf
<1>3. 0 \in 0..(IxMod - 1)
  BY ConstantFacts
<1>. QED
  BY <1>1, <1>2, <1>3, InitingSound DEF SetPos, Initing, IInv, TypeOK

LEMMA SetFlagSound ==
  ASSUME IInv, NEW t \in Threads, SetFlag(t)
  PROVE  IInv'
<1>1. /\ call[t].pc = "setFlag" /\ Step(t, AfterGet(t)) /\ initialized'
      /\ UNCHANGED <<constructed, coeff, seed, cache, ix, zipfVars, early>>
  BY DEF SetFlag, At
<1>2. AfterGet(t) \in {"compare", "test"} /\ (AfterGet(t) = "compare" => call[t].kind = "zipf")
      /\ (AfterGet(t) = "test" => call[t].kind # "zipf")
  BY DEF AfterGet
<1>3. AfterGet(t) \in PCs
  BY <1>2 DEF PCs, InGenerator, InZipf
<1>4. call[t] \in Calls /\ LifeOf(call[t]) /\ (~raced => GeneratorOf(call[t]))
  BY <1>1, Acting
<1>5. PICK f \in Calls : f = [call[t] EXCEPT !.pc = AfterGet(t)] /\ GoTo(t, f)
  BY <1>1, <1>3, StepFacts DEF IInv
<1>6. f.pc = AfterGet(t) /\ f.kind = call[t].kind /\ f.arg = call[t].arg
  BY <1>4, <1>5 DEF Calls
<1>7. coeff
  BY <1>1, <1>4 DEF LifeOf
<1>8. TypeOK'
  BY <1>1, <1>5, GoToFacts DEF IInv, TypeOK, zipfVars
<1>9. LifeOf(f)'
  BY <1>1, <1>2, <1>4, <1>6 DEF LifeOf, InZipf, Setting
<1>10. ~raced => Filling' /\ GeneratorOf(f)'
  <2>. SUFFICES ASSUME ~raced PROVE Filling' /\ GeneratorOf(f)'
    OBVIOUS
  <2>1. seed = "time" /\ ix = 0 /\ ~initialized
    BY <1>1, <1>4 DEF GeneratorOf, Initing
  <2>2. Want' = "time"
    BY <1>1, <2>1, Acting DEF Want
  <2>3. Filling'
    BY <1>1, <2>1, <2>2, ConstantFacts DEF Filling
  <2>. QED
    BY <1>2, <1>6, <2>3 DEF GeneratorOf, Initing
<1>11. ZipfOf(f)
  BY <1>2, <1>6 DEF ZipfOf, Drawing
<1>. QED
  BY <1>1, <1>5, <1>7, <1>8, <1>9, <1>10, <1>11, GeneratorWriteSound DEF InGenerator

\* The writes of a draw.
LEMMA DrawingSound ==
  ASSUME IInv, NEW t \in Threads, call[t].pc \in Drawing, NEW pc \in Drawing, Step(t, pc),
         UNCHANGED <<constructed, initialized, coeff, seed, zipfVars, early>>,
         cache' \in [0..(CACHE_SZ - 1) -> {"zero", "init", "time", Unset}],
         ix' \in 0..(IxMod - 1),
         ~raced => Filling' /\ GeneratorOf(call[t])'
  PROVE  IInv'
<1>1. pc \in PCs
  BY DEF PCs, InGenerator, Drawing
<1>2. PICK f \in Calls : f = [call[t] EXCEPT !.pc = pc] /\ GoTo(t, f)
  BY <1>1, StepFacts DEF IInv
<1>3. call[t] \in Calls /\ LifeOf(call[t]) /\ (~mixed => ZipfOf(call[t]))
  BY Acting DEF Drawing
<1>4. f.pc = pc /\ f.kind = call[t].kind /\ f.arg = call[t].arg
  BY <1>2, <1>3 DEF Calls
<1>5. call'[t] = f
  BY <1>2, GoToFacts DEF IInv
<1>6. TypeOK'
  BY <1>2, GoToFacts DEF IInv, TypeOK, zipfVars
<1>7. initialized
  BY <1>3 DEF LifeOf
<1>8. LifeOf(f)'
  BY <1>3, <1>4, <1>7 DEF LifeOf, InZipf, Setting, Drawing
<1>9. ~raced => Filling' /\ GeneratorOf(f)'
  BY <1>5 DEF GeneratorOf
<1>10. ~mixed => ZipfOf(f)
  BY <1>3, <1>4 DEF ZipfOf, Drawing
<1>11. coeff
  BY <1>7 DEF IInv, Life
<1>12. call[t].pc \in InGenerator
  BY DEF Drawing, InGenerator
<1>. QED
  BY <1>2, <1>6, <1>7, <1>8, <1>9, <1>10, <1>11, <1>12, GeneratorWriteSound

LEMMA FillSound ==
  ASSUME IInv, NEW t \in Threads, Fill(t)
  PROVE  IInv'
<1>1. /\ call[t].pc = "fill" /\ Step(t, "filled")
      /\ cache' = [c \in DOMAIN cache |-> IF coeff THEN seed ELSE "zero"]
      /\ UNCHANGED <<constructed, initialized, coeff, seed, ix, zipfVars, early>>
  BY DEF Fill, At
<1>2. initialized /\ coeff
  BY <1>1, Acting DEF LifeOf, Drawing, IInv, Life
<1>3. /\ cache \in [0..(CACHE_SZ - 1) -> {"zero", "init", "time", Unset}]
      /\ ix \in 0..(IxMod - 1) /\ seed \in {"zero", "init", "time"}
  BY DEF IInv, TypeOK
<1>4. cache' = [c \in 0..(CACHE_SZ - 1) |-> seed]
  BY <1>1, <1>2, <1>3
<1>5. call'[t].pc = "filled"
  BY <1>1, StepFacts DEF IInv, PCs, InGenerator
<1>6. ~raced => Filling' /\ GeneratorOf(call[t])'
  <2>. SUFFICES ASSUME ~raced PROVE Filling' /\ GeneratorOf(call[t])'
    OBVIOUS
  <2>1. ix = 0 /\ seed = Want
    BY <1>1, <1>2, Acting DEF GeneratorOf, IInv, GeneratorSound, Filling
  <2>2. Want' = Want
    BY <1>1 DEF Want
  <2>. QED
    BY <1>1, <1>4, <1>5, <2>1, <2>2, ConstantFacts DEF Filling, GeneratorOf, Initing
<1>. QED
  BY <1>1, <1>3, <1>4, <1>6, DrawingSound DEF Drawing

LEMMA FilledSound ==
  ASSUME IInv, NEW t \in Threads, Filled(t)
  PROVE  IInv'
<1>1. /\ call[t].pc = "filled" /\ Step(t, "decrement") /\ ix' = CACHE_SZ
      /\ UNCHANGED <<constructed, initialized, coeff, seed, cache, zipfVars, early>>
  BY DEF Filled, At
<1>2. initialized
  BY <1>1, Acting DEF LifeOf, Drawing
<1>3. cache \in [0..(CACHE_SZ - 1) -> {"zero", "init", "time", Unset}]
  BY DEF IInv, TypeOK
<1>4. CACHE_SZ \in 0..(IxMod - 1)
  BY ConstantFacts
<1>5. call'[t].pc = "decrement"
  BY <1>1, StepFacts DEF IInv, PCs, InGenerator
<1>6. ~raced => Filling' /\ GeneratorOf(call[t])'
  <2>. SUFFICES ASSUME ~raced PROVE Filling' /\ GeneratorOf(call[t])'
    OBVIOUS
  <2>1. seed = Want /\ \A k \in 0..(CACHE_SZ - 1) : cache[k] = Want
    BY <1>1, <1>2, Acting DEF GeneratorOf, IInv, GeneratorSound, Filling
  <2>2. Want' = Want
    BY <1>1 DEF Want
  <2>. QED
    BY <1>1, <1>5, <2>1, <2>2, ConstantFacts DEF Filling, GeneratorOf, Initing
<1>. QED
  BY <1>1, <1>3, <1>4, <1>6, DrawingSound DEF Drawing

LEMMA StoreSound ==
  ASSUME IInv, NEW t \in Threads, Store(t)
  PROVE  IInv'
<1>1. /\ call[t].pc = "store" /\ Step(t, "read") /\ ix' = call[t].i
      /\ UNCHANGED <<constructed, initialized, coeff, seed, cache, zipfVars, early>>
  BY DEF Store, At
<1>2. initialized
  BY <1>1, Acting DEF LifeOf, Drawing
<1>3. /\ cache \in [0..(CACHE_SZ - 1) -> {"zero", "init", "time", Unset}]
      /\ ix \in 0..(IxMod - 1)
      /\ call[t].i \in 0..(IxMod - 1)
  BY DEF IInv, TypeOK, Calls
<1>4. call'[t].pc = "read" /\ call'[t].i = call[t].i
  BY <1>1, StepFacts DEF IInv, PCs, InGenerator
<1>5. ~raced => Filling' /\ GeneratorOf(call[t])'
  <2>. SUFFICES ASSUME ~raced PROVE Filling' /\ GeneratorOf(call[t])'
    OBVIOUS
  <2>1. ix > 0 /\ call[t].i = ix - 1
    BY <1>1, Acting DEF GeneratorOf
  <2>2. Filling
    BY <1>2 DEF IInv, GeneratorSound
  <2>3. Want' = Want
    BY <1>1 DEF Want
  <2>4. Filling'
    BY <1>1, <1>3, <2>1, <2>2, <2>3, ConstantFacts DEF Filling
  <2>5. ix' < CACHE_SZ /\ call'[t].i = ix' /\ cache'[ix'] = Want'
    BY <1>1, <1>3, <1>4, <2>1, <2>2, <2>3, ConstantFacts DEF Filling
  <2>. QED
    BY <1>4, <2>4, <2>5 DEF GeneratorOf, Initing
<1>. QED
  BY <1>1, <1>3, <1>5, DrawingSound DEF Drawing

-----------------------------------------------------------------------------
(* The statics of Zipf.                                                    *)

LEMMA SetMaxSound ==
  ASSUME IInv, NEW t \in Threads, SetMax(t)
  PROVE  IInv'
<1>1. /\ call[t].pc = "setMax" /\ Step(t, "setTheta") /\ maxRandom' = call[t].arg.maxRandom
      /\ UNCHANGED <<rngVars, theta, zetaN, eta, early>>
  BY DEF SetMax, At
<1>2. call[t].arg \in Parameters
  BY <1>1, Acting DEF LifeOf, InZipf, Setting
<1>3. call'[t].pc = "setTheta" /\ call'[t].arg = call[t].arg
  BY <1>1, StepFacts DEF IInv, PCs, InZipf, Setting
<1>4. maxRandom' \in Maxes /\ theta' \in Thetas
  BY <1>1, <1>2, ConstantFacts DEF IInv, TypeOK
<1>5. ZipfOf(call[t])'
  BY <1>1, <1>3 DEF ZipfOf, Drawing
<1>. QED
  BY <1>1, <1>4, <1>5, ZipfWriteSound DEF Setting

LEMMA SetThetaSound ==
  ASSUME IInv, NEW t \in Threads, SetTheta(t)
  PROVE  IInv'
<1>1. /\ call[t].pc = "setTheta" /\ Step(t, "setZeta") /\ theta' = call[t].arg.theta
      /\ UNCHANGED <<rngVars, maxRandom, zetaN, eta, early>>
  BY DEF SetTheta, At
<1>2. call[t].arg \in Parameters
  BY <1>1, Acting DEF LifeOf, InZipf, Setting
<1>3. call'[t].pc = "setZeta" /\ call'[t].arg = call[t].arg
  BY <1>1, StepFacts DEF IInv, PCs, InZipf, Setting
<1>4. maxRandom' \in Maxes /\ theta' \in Thetas
  BY <1>1, <1>2, ConstantFacts DEF IInv, TypeOK
<1>5. ~mixed => ZipfOf(call[t])'
  BY <1>1, <1>3, Acting DEF ZipfOf, Drawing
<1>. QED
  BY <1>1, <1>4, <1>5, ZipfWriteSound DEF Setting

LEMMA SetZetaSound ==
  ASSUME IInv, NEW t \in Threads, SetZeta(t)
  PROVE  IInv'
<1>1. /\ call[t].pc = "setZeta" /\ Step(t, "setEta") /\ zetaN' = <<maxRandom, theta>>
      /\ UNCHANGED <<rngVars, maxRandom, theta, eta, early>>
  BY DEF SetZeta, At
<1>2. call'[t].pc = "setEta" /\ call'[t].arg = call[t].arg
  BY <1>1, StepFacts DEF IInv, PCs, InZipf, Setting
<1>3. maxRandom' \in Maxes /\ theta' \in Thetas
  BY <1>1 DEF IInv, TypeOK
<1>4. ~mixed => ZipfOf(call[t])'
  BY <1>1, <1>2, Acting DEF ZipfOf, Drawing
<1>. QED
  BY <1>1, <1>3, <1>4, ZipfWriteSound DEF Setting

LEMMA SetEtaSound ==
  ASSUME IInv, NEW t \in Threads, SetEta(t)
  PROVE  IInv'
<1>1. /\ call[t].pc = "setEta" /\ Step(t, "test") /\ eta' = <<maxRandom, theta, zetaN>>
      /\ UNCHANGED <<rngVars, maxRandom, theta, zetaN, early>>
  BY DEF SetEta, At
<1>2. call'[t].pc = "test" /\ call'[t].arg = call[t].arg
  BY <1>1, StepFacts DEF IInv, PCs, InGenerator
<1>3. maxRandom' \in Maxes /\ theta' \in Thetas
  BY <1>1 DEF IInv, TypeOK
<1>4. ~mixed => zetaN = <<maxRandom, theta>> /\ maxRandom = call[t].arg.maxRandom /\ theta = call[t].arg.theta
  BY <1>1, Acting DEF ZipfOf
<1>5. ~mixed => ZipfOf(call[t])'
  BY <1>1, <1>2, <1>4 DEF ZipfOf
<1>6. ~mixed => Derived'
  BY <1>1, <1>4 DEF Derived
<1>. QED
  BY <1>1, <1>3, <1>5, <1>6, ZipfWriteSound DEF Setting

-----------------------------------------------------------------------------
LEMMA NextSound == IInv /\ [Next]_vars => IInv'
<1>. SUFFICES ASSUME IInv, [Next]_vars PROVE IInv'
  OBVIOUS
<1>1. CASE Construct
  BY <1>1, ConstructSound
<1>2. ASSUME NEW t \in Threads, Begin(t, "rand", Unset) PROVE IInv'
  BY <1>2, BeginSound
<1>3. ASSUME NEW t \in Threads, NEW v \in Parameters, Begin(t, "zipf", v) PROVE IInv'
  BY <1>3, BeginSound
<1>4. ASSUME NEW t \in Threads, Get(t) \/ SetCoeff(t) \/ SetSeed(t) \/ SetPos(t) \/ SetFlag(t)
      PROVE IInv'
  BY <1>4, GetSound, SetCoeffSound, SetSeedSound, SetPosSound, SetFlagSound
<1>5. ASSUME NEW t \in Threads,
             Test(t) \/ Fill(t) \/ Filled(t) \/ Decrement(t) \/ Store(t) \/ Read(t)
      PROVE IInv'
  BY <1>5, TestSound, FillSound, FilledSound, DecrementSound, StoreSound, ReadSound
<1>6. ASSUME NEW t \in Threads,
             Compare(t) \/ SetMax(t) \/ SetTheta(t) \/ SetZeta(t) \/ SetEta(t) \/ Use(t)
      PROVE IInv'
  BY <1>6, CompareSound, SetMaxSound, SetThetaSound, SetZetaSound, SetEtaSound, UseSound
<1>7. CASE UNCHANGED vars
  <2>1. UNCHANGED <<constructed, initialized, coeff, seed, cache, ix>>
        /\ UNCHANGED <<maxRandom, theta, zetaN, eta, call, early, raced, mixed>>
    BY <1>7 DEF vars, rngVars, zipfVars
  <2>2. TypeOK' /\ Exclusive' /\ Life'
    BY <2>1 DEF IInv, TypeOK, Exclusive, Life, LifeOf, At
  <2>3. GeneratorSound'
    BY <2>1 DEF IInv, GeneratorSound, GeneratorOf, Filling, Want
  <2>4. ZipfSound'
    BY <2>1 DEF IInv, ZipfSound, ZipfOf, Derived
  <2>. QED
    BY <2>2, <2>3, <2>4 DEF IInv
<1>. QED
  BY <1>1, <1>2, <1>3, <1>4, <1>5, <1>6, <1>7 DEF Next

LEMMA AlwaysIInv == Spec => []IInv
BY InitSound, NextSound, PTL DEF Spec

\* The calls and the statics have their types, whoever races: the index stays
\* within its width, and no static but those of a caller's arguments is met.
THEOREM TypeCorrect == Spec => []TypeOK
<1>1. IInv => TypeOK
  BY DEF IInv
<1>. QED
  BY <1>1, AlwaysIInv, PTL

\* RNG::get(): whatever the number of threads and the size of the cache, a draw is
\* a cell of the cache and of the seed wanted, so long as no two threads are in
\* the generator at once.
THEOREM DrawsCorrect == Spec => []DrawsSound
<1>1. IInv => DrawsSound
  <2>. SUFFICES ASSUME IInv, ~raced, NEW t \in Threads, call[t].pc = "read"
                PROVE  /\ call[t].i \in DOMAIN cache
                       /\ cache[call[t].i] = Want
    BY DEF DrawsSound, Want, At
  <2>1. ix < CACHE_SZ /\ call[t].i = ix /\ cache[ix] = Want
    BY Acting DEF GeneratorOf
  <2>2. ix \in 0..(IxMod - 1) /\ DOMAIN cache = 0..(CACHE_SZ - 1)
    BY DEF IInv, TypeOK
  <2>. QED
    BY <2>1, <2>2, ConstantFacts
<1>. QED
  BY <1>1, AlwaysIInv, PTL

\* Zipf::zipf: whatever the arguments, the number is computed from statics that
\* were all derived from the caller's, so long as no zipf runs while another
\* thread's sets them.
THEOREM ZipfCorrect == Spec => []ZipfOfArguments
<1>1. IInv => ZipfOfArguments
  <2>. SUFFICES ASSUME IInv, ~mixed, NEW t \in Threads, call[t].pc = "use"
                PROVE  LET v == call[t].arg
                       IN  /\ maxRandom = v.maxRandom /\ theta = v.theta
                           /\ zetaN = <<v.maxRandom, v.theta>>
                           /\ eta = <<v.maxRandom, v.theta, zetaN>>
    BY DEF ZipfOfArguments, At
  <2>1. call[t].kind = "zipf" /\ call[t].arg \in Parameters
    BY Acting DEF LifeOf, InZipf
  <2>2. maxRandom = call[t].arg.maxRandom /\ theta = call[t].arg.theta
    BY <2>1, Acting DEF ZipfOf
  <2>3. \A u \in Threads : call[u].pc \notin Setting
    BY <2>1 DEF IInv, Exclusive, Setting
  <2>4. Derived
    BY <2>3 DEF IInv, ZipfSound
  <2>. QED
    BY <2>1, <2>2, <2>4, ConstantFacts DEF Derived
<1>. QED
  BY <1>1, AlwaysIInv, PTL
=============================================================================
