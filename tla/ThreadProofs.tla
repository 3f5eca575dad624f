---------------------------- MODULE ThreadProofs -----------------------------
(***************************************************************************)
(* What holds of Thread objects for any clients, objects and pthreads.     *)
(***************************************************************************)
EXTENDS Thread, TLAPS

\* A thread that is not joined has its object still; one that can be joined is the
\* one the object names, and nobody else's result is in it; one that was given up
\* is not named, or not by an object that a client has.
ThreadOf(p) ==
  /\ p \in abandoned => pthread[p].pc # "free"
  /\ pthread[p].pc # "free" =>
       LET o == pthread[p].obj
       IN  /\ o \in Objects /\ Exists(o)
           /\ pthread[p].detached = object[o].detached
           /\ pthread[p].detached => object[o].tid # Nothing /\ pthread[p].pc # "ended"
           /\ ~pthread[p].detached /\ p \notin abandoned =>
                /\ object[o].tid = p /\ object[o].pending /\ object[o].owner # Nothing
                /\ Clean(o) /\ pthread[p].pc \in {"stored", "ended"} =>
                     object[o].result = pthread[p].value
           /\ p \in abandoned =>
                ~pthread[p].detached /\ (object[o].tid # p \/ object[o].owner = Nothing)
           /\ pthread[p].pc \in {"ran", "stored", "ended"} => pthread[p].value \in Results

\* An object that waits for its join names a thread that is its own; the thread
\* that has it is in the run() that constructed it.
ObjectOf(o) ==
  /\ Exists(o) /\ object[o].owner \in Pthreads => pthread[object[o].owner].pc = "run"
  /\ Exists(o) /\ object[o].pending =>
       /\ ~object[o].detached
       /\ object[o].tid \in Pthreads
       /\ pthread[object[o].tid].pc # "free"
       /\ pthread[object[o].tid].obj = o

\* The client that is in a join constructed the object, and no other client touches
\* it until the join has returned.
CallOf(c) ==
  LET o == call[c].obj
  IN  /\ call[c].pc = "none" => o = Nothing
      /\ call[c].pc # "none" => o \in Objects /\ Owns(c, o)
      /\ call[c].pc = "joining" => object[o].pending \/ object[o].detached
      /\ call[c].pc = "joined" =>
           /\ ~object[o].detached /\ ~object[o].pending
           /\ call[c].value \in Results
           /\ Clean(o) => object[o].result = call[c].value

IInv ==
  /\ TypeOK
  /\ \A p \in Pthreads : ThreadOf(p)
  /\ \A o \in Objects : ObjectOf(o)
  /\ \A c \in Clients : CallOf(c)

-----------------------------------------------------------------------------
LEMMA ConstantFacts ==
  /\ Nothing \notin Clients /\ Nothing \notin Objects /\ Nothing \notin Results
  /\ Nothing \notin ObjectRecords /\ Nothing \notin Pthreads
  /\ Main \in Clients /\ Pthreads \subseteq Clients
BY ThreadAssumption DEF Clients

LEMMA InitSound == Init => IInv
<1>. SUFFICES ASSUME Init PROVE IInv
  OBVIOUS
<1>1. TypeOK
  BY DEF Init, TypeOK, FreePthread, NoCall, PthreadRecords, Calls
<1>. QED
  BY <1>1, ConstantFacts DEF Init, IInv, ThreadOf, ObjectOf, CallOf, Exists, FreePthread, NoCall

\* What TypeOK says of each object, thread and call.
LEMMA Types ==
  ASSUME IInv
  PROVE  /\ object \in [Objects -> ObjectRecords \cup {Nothing}]
         /\ pthread \in [Pthreads -> PthreadRecords]
         /\ call \in [Clients -> Calls]
         /\ aborted \in BOOLEAN /\ abandoned \subseteq Pthreads
         /\ \A o \in Objects : Exists(o) => object[o] \in ObjectRecords
BY DEF IInv, TypeOK, Exists

\* A thread that was given up stays so, and with the object it had.
LEMMA CleanKept ==
  ASSUME IInv, abandoned \subseteq abandoned', \A p \in abandoned : pthread'[p].obj = pthread[p].obj
  PROVE  \A o : Clean(o)' => Clean(o)
BY DEF Clean

\* Nothing but the assertions' verdict changes.
LEMMA AbortSound == IInv /\ aborted' = TRUE /\ UNCHANGED <<object, pthread, call, abandoned>> => IInv'
BY DEF IInv, TypeOK, ThreadOf, ObjectOf, CallOf, Clean, Exists, Owns

LEMMA ConstructSound ==
  ASSUME IInv, NEW c \in Clients, NEW o \in Objects, NEW d \in BOOLEAN, Construct(c, o, d)
  PROVE  IInv'
<1>. DEFINE r == [tid |-> Nothing, detached |-> d, result |-> Nothing, owner |-> c, pending |-> FALSE]
<1>1. r \in ObjectRecords /\ r # Nothing /\ ~r.pending /\ r.owner = c
  <2>1. r \in ObjectRecords
    BY DEF ObjectRecords
  <2>2. r.pending = FALSE /\ r.owner = c
    OBVIOUS
  <2>. QED
    BY <2>1, <2>2, ConstantFacts
<1>2. object' = [object EXCEPT ![o] = r] /\ ~Exists(o)
      /\ (c \in Pthreads => pthread[c].pc = "run")
      /\ UNCHANGED <<pthread, call, aborted, abandoned>>
  BY DEF Construct, Active
<1>. HIDE DEF r
<1>3. object' \in [Objects -> ObjectRecords \cup {Nothing}]
      /\ object'[o] = r /\ \A x \in Objects : x # o => object'[x] = object[x]
  BY <1>1, <1>2, Types
<1>4. TypeOK'
  BY <1>2, <1>3 DEF IInv, TypeOK
<1>5. \A p \in Pthreads : ThreadOf(p)'
  BY <1>2, <1>3 DEF IInv, ThreadOf, Clean, Exists
<1>6. \A x \in Objects : ObjectOf(x)'
  BY <1>1, <1>2, <1>3 DEF IInv, ObjectOf, Exists
<1>7. \A x \in Clients : CallOf(x)'
  BY <1>2, <1>3 DEF IInv, CallOf, Clean, Owns, Exists
<1>. QED
  BY <1>4, <1>5, <1>6, <1>7 DEF IInv

\* What a client destroys has no thread, and nobody joins it.
LEMMA DestroySound ==
  ASSUME IInv, NEW c \in Clients, NEW o \in Objects, Destroy(c, o)
  PROVE  IInv'
<1>1. /\ object' = [object EXCEPT ![o] = Nothing] /\ UNCHANGED <<pthread, call, aborted, abandoned>>
      /\ call[c].pc = "none" /\ Exists(o) /\ object[o].owner = c /\ ~object[o].pending /\ Clean(o)
      /\ object[o].detached => object[o].tid = Nothing
  BY DEF Destroy, Active, Owns
<1>2. object' \in [Objects -> ObjectRecords \cup {Nothing}]
      /\ object'[o] = Nothing /\ \A x \in Objects : x # o => object'[x] = object[x]
  BY <1>1, Types
<1>3. TypeOK'
  BY <1>1, <1>2 DEF IInv, TypeOK
<1>4. \A p \in Pthreads : ThreadOf(p)'
  <2>1. \A p \in Pthreads : pthread[p].pc # "free" => pthread[p].obj # o
    BY <1>1 DEF IInv, ThreadOf, Clean
  <2>. QED
    BY <1>1, <1>2, <2>1 DEF IInv, ThreadOf, Clean, Exists
<1>5. \A x \in Objects : ObjectOf(x)'
  BY <1>1, <1>2 DEF IInv, ObjectOf, Exists
<1>6. \A x \in Clients : CallOf(x)'
  <2>1. \A x \in Clients : call[x].pc # "none" => call[x].obj # o
    BY <1>1 DEF IInv, CallOf, Owns
  <2>. QED
    BY <1>1, <1>2, <2>1 DEF IInv, CallOf, Clean, Owns, Exists
<1>. QED
  BY <1>3, <1>4, <1>5, <1>6 DEF IInv

\* The thread that starts is new, and no object waits for it.
LEMMA StartSound ==
  ASSUME IInv, NEW c \in Clients, NEW o \in Objects, NEW p \in Pthreads, Start(c, o, p)
  PROVE  IInv'
<1>1. /\ pthread[p].pc = "free" /\ call[c].pc = "none"
      /\ Exists(o) /\ object[o].owner = c
      /\ abandoned' = abandoned \cup Unjoined(o)
      /\ UNCHANGED <<call, aborted>>
  BY DEF Start, Active, Owns
<1>2. object[o] \in ObjectRecords
  BY <1>1, Types
<1>3. /\ pthread' \in [Pthreads -> PthreadRecords]
      /\ pthread'[p].pc = "created" /\ pthread'[p].obj = o /\ pthread'[p].value = Nothing
      /\ pthread'[p].detached = object[o].detached
      /\ \A q \in Pthreads : q # p => pthread'[q] = pthread[q]
  <2>1. [pc |-> "created", obj |-> o, value |-> Nothing, detached |-> object[o].detached] \in PthreadRecords
    BY <1>2 DEF PthreadRecords, ObjectRecords
  <2>. QED
    BY <2>1, Types DEF Start
<1>4. PICK r \in ObjectRecords :
        /\ r = [object[o] EXCEPT !.tid = p, !.pending = ~object[o].detached]
        /\ object' = [object EXCEPT ![o] = r]
  <2>1. [object[o] EXCEPT !.tid = p, !.pending = ~object[o].detached] \in ObjectRecords
    BY <1>2 DEF ObjectRecords
  <2>2. object' = [object EXCEPT ![o] = [object[o] EXCEPT !.tid = p, !.pending = ~object[o].detached]]
    BY Types DEF Start
  <2>. QED
    BY <2>1, <2>2
<1>5. /\ r.tid = p /\ r.detached = object[o].detached /\ r.result = object[o].result
      /\ r.owner = object[o].owner /\ r.pending = ~object[o].detached /\ r # Nothing
  BY <1>2, <1>4, ConstantFacts DEF ObjectRecords
<1>6. object' \in [Objects -> ObjectRecords \cup {Nothing}]
      /\ object'[o] = r /\ \A x \in Objects : x # o => object'[x] = object[x]
  BY <1>4, Types
<1>u. ASSUME NEW q \in Unjoined(o)
      PROVE  q \in Pthreads /\ pthread[q].pc # "free" /\ pthread[q].obj = o /\ ~pthread[q].detached
  <2>1. object[o].pending /\ q = object[o].tid
    BY DEF Unjoined
  <2>. QED
    BY <1>1, <2>1 DEF IInv, ObjectOf, ThreadOf
<1>n. p \notin abandoned'
  BY <1>1, <1>u DEF IInv, ThreadOf
<1>k. \A x : Clean(x)' => Clean(x)
  <2>1. \A q \in abandoned : pthread'[q].obj = pthread[q].obj
    BY <1>1, <1>3, Types DEF IInv, ThreadOf
  <2>. QED
    BY <1>1, <2>1, CleanKept
<1>7. TypeOK'
  BY <1>1, <1>3, <1>6, <1>u DEF IInv, TypeOK
<1>8. ASSUME NEW q \in Pthreads PROVE ThreadOf(q)'
  <2>1. CASE q = p
    <3>1. r.owner # Nothing
      BY <1>1, <1>5, ConstantFacts
    <3>2. ~pthread'[p].detached => r.pending
      BY <1>3, <1>5, Zenon
    <3>. QED
      BY <1>3, <1>5, <1>6, <1>n, <2>1, <3>1, <3>2, ConstantFacts DEF ThreadOf, Exists
  <2>2. CASE q # p
    <3>1. CASE pthread[q].obj = o /\ pthread[q].pc # "free"
      <4>1. ThreadOf(q)
        BY DEF IInv
      <4>2. ~pthread[q].detached => q \in abandoned'
        <5>1. ~pthread[q].detached /\ q \notin abandoned => q \in Unjoined(o)
          BY <3>1, <4>1 DEF ThreadOf, Unjoined
        <5>. QED
          BY <1>1, <5>1
      <4>3. q \in abandoned' => ~pthread[q].detached
        BY <1>1, <1>u, <3>1, <4>1 DEF ThreadOf
      <4>. QED
        BY <1>3, <1>5, <1>6, <2>2, <3>1, <4>1, <4>2, <4>3, ConstantFacts DEF ThreadOf, Exists
    <3>2. CASE pthread[q].obj # o \/ pthread[q].pc = "free"
      <4>1. ThreadOf(q) /\ pthread'[q] = pthread[q]
        BY <1>3, <2>2 DEF IInv
      <4>2. q \in abandoned' <=> q \in abandoned
        BY <1>1, <1>u, <3>2
      <4>3. pthread[q].pc # "free" => object'[pthread[q].obj] = object[pthread[q].obj]
        BY <1>6, <3>2, <4>1 DEF ThreadOf
      <4>. QED
        BY <1>k, <4>1, <4>2, <4>3 DEF ThreadOf, Exists
    <3>. QED
      BY <3>1, <3>2
  <2>. QED
    BY <2>1, <2>2
<1>9. ASSUME NEW x \in Objects PROVE ObjectOf(x)'
  <2>1. CASE x = o
    <3>1. r.pending => ~r.detached
      BY <1>5, Zenon
    <3>2. c \in Pthreads => pthread'[c].pc = "run"
      BY <1>1, <1>3 DEF IInv, ObjectOf
    <3>. QED
      BY <1>1, <1>3, <1>5, <1>6, <2>1, <3>1, <3>2 DEF ObjectOf
  <2>2. CASE x # o
    BY <1>1, <1>3, <1>6, <2>2 DEF IInv, ObjectOf, Exists
  <2>. QED
    BY <2>1, <2>2
<1>10. ASSUME NEW x \in Clients PROVE CallOf(x)'
  <2>1. call[x].pc # "none" => call[x].obj # o
    BY <1>1 DEF IInv, CallOf, Owns
  <2>. QED
    BY <1>1, <1>6, <1>k, <2>1 DEF IInv, CallOf, Owns, Exists
<1>. QED
  BY <1>7, <1>8, <1>9, <1>10 DEF IInv

LEMMA JoinSound ==
  ASSUME IInv, NEW c \in Clients, NEW o \in Objects, Join(c, o)
  PROVE  IInv'
<1>. DEFINE k == [pc |-> "joining", obj |-> o, value |-> Nothing]
<1>1. /\ Owns(c, o) /\ (object[o].pending \/ object[o].detached)
      /\ call' = [call EXCEPT ![c] = k] /\ UNCHANGED <<object, pthread, aborted, abandoned>>
  BY DEF Join
<1>2. k \in Calls /\ k.pc = "joining" /\ k.obj = o
  BY DEF Calls
<1>. HIDE DEF k
<1>3. call' \in [Clients -> Calls] /\ call'[c] = k
      /\ \A x \in Clients : x # c => call'[x] = call[x]
  BY <1>1, <1>2, Types
<1>4. TypeOK'
  BY <1>1, <1>3 DEF IInv, TypeOK
<1>5. ASSUME NEW x \in Clients PROVE CallOf(x)'
  BY <1>1, <1>2, <1>3 DEF IInv, CallOf, Clean, Owns, Exists
<1>. QED
  BY <1>1, <1>4, <1>5 DEF IInv, ThreadOf, ObjectOf, Clean, Exists

\* The thread that is joined is the object's own, and its result is in it.
LEMMA JoinedSound ==
  ASSUME IInv, NEW c \in Clients, Joined(c)
  PROVE  IInv'
<1>. DEFINE o == call[c].obj
            p == object[o].tid
<1>1. /\ call[c].pc = "joining" /\ p # Nothing /\ ~object[o].detached
      /\ pthread[p].pc = "ended"
      /\ pthread' = [pthread EXCEPT ![p] = FreePthread]
      /\ object' = [object EXCEPT ![o].pending = FALSE]
      /\ call' = [call EXCEPT ![c].pc = "joined", ![c].value = pthread[p].value]
      /\ UNCHANGED <<aborted, abandoned>>
  BY DEF Joined
<1>2. o \in Objects /\ Exists(o) /\ object[o].owner = c /\ object[o].pending
  BY <1>1 DEF IInv, CallOf, Owns
<1>3. p \in Pthreads /\ pthread[p].obj = o
  BY <1>1, <1>2 DEF IInv, ObjectOf
<1>4. /\ ~pthread[p].detached /\ pthread[p].value \in Results /\ p \notin abandoned
      /\ Clean(o) => object[o].result = pthread[p].value
  BY <1>1, <1>2, <1>3, ConstantFacts DEF IInv, ThreadOf
<1>5. object[o] \in ObjectRecords
  BY <1>2, Types
<1>6. PICK r \in ObjectRecords :
        r = [object[o] EXCEPT !.pending = FALSE] /\ object' = [object EXCEPT ![o] = r]
  BY <1>1, <1>2, <1>5, Types DEF ObjectRecords
<1>7. /\ r.tid = p /\ r.detached = object[o].detached /\ r.result = object[o].result
      /\ r.owner = c /\ r.pending = FALSE /\ r # Nothing
  BY <1>2, <1>5, <1>6, ConstantFacts DEF ObjectRecords
<1>8. object' \in [Objects -> ObjectRecords \cup {Nothing}]
      /\ object'[o] = r /\ \A x \in Objects : x # o => object'[x] = object[x]
  BY <1>2, <1>6, Types
<1>9. pthread' \in [Pthreads -> PthreadRecords] /\ pthread'[p].pc = "free"
      /\ \A q \in Pthreads : q # p => pthread'[q] = pthread[q]
  <2>1. FreePthread \in PthreadRecords /\ FreePthread.pc = "free"
    BY DEF FreePthread, PthreadRecords
  <2>. QED
    BY <1>1, <1>3, <2>1, Types
<1>10. PICK k \in Calls : k = [call[c] EXCEPT !.pc = "joined", !.value = pthread[p].value]
                        /\ call' = [call EXCEPT ![c] = k]
  <2>1. call[c] \in Calls /\ call \in [Clients -> Calls]
    BY Types
  <2>2. [call[c] EXCEPT !.pc = "joined", !.value = pthread[p].value] \in Calls
    BY <1>4, <2>1 DEF Calls
  <2>3. call' = [call EXCEPT ![c] = [call[c] EXCEPT !.pc = "joined", !.value = pthread[p].value]]
    BY <1>1, <2>1
  <2>. QED
    BY <2>2, <2>3
<1>11. k.pc = "joined" /\ k.obj = o /\ k.value = pthread[p].value
  <2>1. call[c] \in Calls
    BY Types
  <2>. QED
    BY <1>10, <2>1 DEF Calls
<1>12. call' \in [Clients -> Calls] /\ call'[c] = k
       /\ \A x \in Clients : x # c => call'[x] = call[x]
  BY <1>10, Types
<1>k. \A x : Clean(x)' => Clean(x)
  <2>1. \A q \in abandoned : pthread'[q].obj = pthread[q].obj
    BY <1>4, <1>9, Types
  <2>. QED
    BY <1>1, <2>1, CleanKept
<1>. HIDE DEF o, p
<1>13. TypeOK'
  BY <1>1, <1>8, <1>9, <1>12 DEF IInv, TypeOK
<1>14. ASSUME NEW q \in Pthreads PROVE ThreadOf(q)'
  <2>1. CASE q = p
    BY <1>1, <1>4, <1>9, <2>1 DEF ThreadOf
  <2>2. CASE q # p
    <3>1. ThreadOf(q) /\ pthread'[q] = pthread[q]
      BY <1>9, <2>2 DEF IInv
    <3>2. CASE pthread[q].pc # "free" /\ pthread[q].obj = o
      <4>1. q \in abandoned /\ ~pthread[q].detached
        BY <1>1, <2>2, <3>1, <3>2 DEF ThreadOf, p
      <4>2. object[o].detached = FALSE /\ object[o].tid = p
        BY <1>1, <3>1, <3>2, <4>1 DEF ThreadOf, p
      <4>3. /\ o \in Objects /\ object'[o] # Nothing /\ object'[o].tid # q
            /\ object'[o].detached = pthread[q].detached
        BY <1>2, <1>7, <1>8, <2>2, <3>1, <3>2, <4>2 DEF ThreadOf
      <4>. QED
        BY <1>1, <3>1, <3>2, <4>1, <4>3 DEF ThreadOf, Exists
    <3>3. CASE ~(pthread[q].pc # "free" /\ pthread[q].obj = o)
      <4>1. pthread[q].pc # "free" => object'[pthread[q].obj] = object[pthread[q].obj]
        BY <1>8, <3>1, <3>3 DEF ThreadOf
      <4>. QED
        BY <1>1, <1>k, <3>1, <4>1 DEF ThreadOf, Exists
    <3>. QED
      BY <3>2, <3>3
  <2>. QED
    BY <2>1, <2>2
<1>15. ASSUME NEW x \in Objects PROVE ObjectOf(x)'
  <2>1. CASE x = o
    <3>1. c \in Pthreads => c # p /\ pthread[c].pc = "run"
      BY <1>1, <1>2 DEF IInv, ObjectOf
    <3>. QED
      BY <1>7, <1>8, <1>9, <2>1, <3>1 DEF ObjectOf
  <2>2. CASE x # o
    <3>1. Exists(x) /\ object[x].pending => object[x].tid # p
      BY <1>3, <2>2 DEF IInv, ObjectOf
    <3>2. Exists(x) => object[x].owner # p \/ p \notin Pthreads
      BY <1>1 DEF IInv, ObjectOf
    <3>. QED
      BY <1>8, <1>9, <2>2, <3>1, <3>2 DEF IInv, ObjectOf, Exists
  <2>. QED
    BY <2>1, <2>2
<1>16. ASSUME NEW x \in Clients PROVE CallOf(x)'
  <2>1. CASE x = c
    <3>1. call'[x] = k /\ object'[o] = r
      BY <1>8, <1>12, <2>1
    <3>2. /\ k.pc = "joined" /\ k.obj = o /\ k.value \in Results
          /\ ~r.detached /\ ~r.pending /\ (Clean(o) => r.result = k.value) /\ r.owner = x /\ r # Nothing
      BY <1>1, <1>4, <1>7, <1>11, <2>1
    <3>. QED
      BY <1>2, <1>k, <3>1, <3>2 DEF CallOf, Owns, Exists
  <2>2. CASE x # c
    <3>1. call[x].pc # "none" => call[x].obj # o
      BY <1>2, <2>2 DEF IInv, CallOf, Owns
    <3>. QED
      BY <1>8, <1>12, <1>k, <2>2, <3>1 DEF IInv, CallOf, Owns, Exists
  <2>. QED
    BY <2>1, <2>2
<1>. QED
  BY <1>13, <1>14, <1>15, <1>16 DEF IInv

LEMMA JoinReturnsSound ==
  ASSUME IInv, NEW c \in Clients, JoinReturns(c)
  PROVE  IInv'
<1>1. call' = [call EXCEPT ![c] = NoCall] /\ UNCHANGED <<object, pthread, aborted, abandoned>>
  BY DEF JoinReturns
<1>2. NoCall \in Calls /\ NoCall.pc = "none" /\ NoCall.obj = Nothing
  BY DEF NoCall, Calls
<1>3. call' \in [Clients -> Calls] /\ call'[c] = NoCall
      /\ \A x \in Clients : x # c => call'[x] = call[x]
  BY <1>1, <1>2, Types
<1>4. TypeOK'
  BY <1>1, <1>3 DEF IInv, TypeOK
<1>5. ASSUME NEW x \in Clients PROVE CallOf(x)'
  BY <1>1, <1>2, <1>3 DEF IInv, CallOf, Clean, Owns, Exists
<1>. QED
  BY <1>1, <1>4, <1>5 DEF IInv, ThreadOf, ObjectOf, Clean, Exists

-----------------------------------------------------------------------------
(* The threads.                                                            *)

\* The step keeps the object's thread and its client, or leaves it without a client;
\* and the threads keep their objects.
Kept(x) ==
  /\ Exists(x)' => Exists(x)
  /\ Exists(x)' => /\ object'[x].tid = object[x].tid /\ object'[x].detached = object[x].detached
                   /\ object'[x].pending = object[x].pending
                   /\ object'[x].owner = object[x].owner \/ object'[x].owner = Nothing
  /\ \A q \in Pthreads : /\ pthread'[q].obj = pthread[q].obj
                         /\ pthread'[q].pc = "free" => pthread[q].pc = "free"
                         /\ Exists(x)' /\ object'[x].owner = q /\ pthread[q].pc = "run" =>
                              pthread'[q].pc = "run"

\* An object that is kept still waits for a thread of its own.
LEMMA ObjectKept ==
  ASSUME IInv, \A x \in Objects : Kept(x)
  PROVE  \A x \in Objects : ObjectOf(x)'
<1>. SUFFICES ASSUME NEW x \in Objects PROVE ObjectOf(x)'
  OBVIOUS
<1>0. Exists(x)' => Exists(x)
  BY DEF Kept
<1>t. Exists(x)' => /\ object'[x].tid = object[x].tid /\ object'[x].detached = object[x].detached
                    /\ object'[x].pending = object[x].pending
                    /\ object'[x].owner = object[x].owner \/ object'[x].owner = Nothing
  BY DEF Kept
<1>q. ASSUME NEW q \in Pthreads
      PROVE  /\ pthread'[q].obj = pthread[q].obj
             /\ pthread'[q].pc = "free" => pthread[q].pc = "free"
             /\ Exists(x)' /\ object'[x].owner = q /\ pthread[q].pc = "run" => pthread'[q].pc = "run"
  BY DEF Kept
<1>1. ObjectOf(x)
  BY DEF IInv
<1>2. ASSUME Exists(x)', object'[x].owner \in Pthreads PROVE pthread'[object'[x].owner].pc = "run"
  <2>1. PICK q \in Pthreads : q = object'[x].owner
    BY <1>2
  <2>2. q = object[x].owner
    BY <1>2, <1>t, <2>1, ConstantFacts
  <2>3. pthread[q].pc = "run"
    BY <1>0, <1>1, <1>2, <2>1, <2>2 DEF ObjectOf
  <2>. QED
    BY <1>2, <1>q, <2>1, <2>3
<1>3. ASSUME Exists(x)', object'[x].pending
      PROVE  /\ ~object'[x].detached /\ object'[x].tid \in Pthreads
             /\ pthread'[object'[x].tid].pc # "free" /\ pthread'[object'[x].tid].obj = x
  <2>0. Exists(x)' /\ Exists(x) /\ object[x].pending /\ object'[x].tid = object[x].tid
        /\ object'[x].detached = object[x].detached
    BY <1>0, <1>3, <1>t
  <2>1. PICK q \in Pthreads : q = object'[x].tid /\ pthread[q].pc # "free" /\ pthread[q].obj = x
    BY <1>1, <2>0 DEF ObjectOf
  <2>2. ~object'[x].detached
    BY <1>1, <2>0 DEF ObjectOf
  <2>. QED
    BY <1>3, <1>q, <1>t, <2>1, <2>2
<1>. QED
  BY <1>2, <1>3 DEF ObjectOf

LEMMA RunSound ==
  ASSUME IInv, NEW p \in Pthreads, Run(p)
  PROVE  IInv'
<1>1. pthread[p].pc = "created" /\ pthread' = [pthread EXCEPT ![p].pc = "run"]
      /\ UNCHANGED <<object, call, aborted, abandoned>>
  BY DEF Run, PC
<1>2. pthread[p] \in PthreadRecords
  BY Types
<1>3. PICK f \in PthreadRecords : f = [pthread[p] EXCEPT !.pc = "run"]
  BY <1>2 DEF PthreadRecords
<1>4. f.pc = "run" /\ f.obj = pthread[p].obj /\ f.detached = pthread[p].detached
  BY <1>2, <1>3 DEF PthreadRecords
<1>5. pthread' \in [Pthreads -> PthreadRecords] /\ pthread'[p] = f
      /\ \A q \in Pthreads : q # p => pthread'[q] = pthread[q]
  BY <1>1, <1>3, Types
<1>6. TypeOK'
  BY <1>1, <1>5 DEF IInv, TypeOK
<1>k. \A x : Clean(x)' => Clean(x)
  BY <1>1, <1>4, <1>5, Types, CleanKept
<1>7. ASSUME NEW q \in Pthreads PROVE ThreadOf(q)'
  <2>1. CASE q = p
    BY <1>1, <1>4, <1>5, <2>1 DEF IInv, ThreadOf, Exists
  <2>2. CASE q # p
    BY <1>1, <1>5, <1>k, <2>2 DEF IInv, ThreadOf, Exists
  <2>. QED
    BY <2>1, <2>2
<1>8. ASSUME NEW x \in Objects PROVE ObjectOf(x)'
  BY <1>1, <1>4, <1>5 DEF IInv, ObjectOf, Exists
<1>9. ASSUME NEW x \in Clients PROVE CallOf(x)'
  BY <1>1, <1>k DEF IInv, CallOf, Owns, Exists
<1>. QED
  BY <1>6, <1>7, <1>8, <1>9 DEF IInv

\* What a thread leaks when its run() returns is still there for its threads.
LEMMA RanSound ==
  ASSUME IInv, NEW p \in Pthreads, NEW v \in Results, Ran(p, v)
  PROVE  IInv'
<1>1. /\ pthread[p].pc = "run" /\ call[p].pc = "none"
      /\ pthread' = [pthread EXCEPT ![p].pc = "ran", ![p].value = v]
      /\ object' = [o \in Objects |-> IF Owns(p, o) THEN [object[o] EXCEPT !.owner = Nothing]
                                      ELSE object[o]]
      /\ abandoned' = abandoned \cup UNION {Unjoined(o) : o \in {x \in Objects : Owns(p, x)}}
      /\ UNCHANGED <<call, aborted>>
  BY DEF Ran, PC
<1>2. pthread[p] \in PthreadRecords /\ pthread \in [Pthreads -> PthreadRecords]
  BY Types
<1>3. PICK f \in PthreadRecords :
        f = [pthread[p] EXCEPT !.pc = "ran", !.value = v] /\ pthread' = [pthread EXCEPT ![p] = f]
  <2>1. [pthread[p] EXCEPT !.pc = "ran", !.value = v] \in PthreadRecords
    BY <1>2 DEF PthreadRecords
  <2>2. pthread' = [pthread EXCEPT ![p] = [pthread[p] EXCEPT !.pc = "ran", !.value = v]]
    BY <1>1, <1>2
  <2>. QED
    BY <2>1, <2>2
<1>4. f.pc = "ran" /\ f.obj = pthread[p].obj /\ f.detached = pthread[p].detached /\ f.value = v
  BY <1>2, <1>3 DEF PthreadRecords
<1>5. pthread' \in [Pthreads -> PthreadRecords] /\ pthread'[p] = f
      /\ \A q \in Pthreads : q # p => pthread'[q] = pthread[q]
  BY <1>2, <1>3
<1>6. ASSUME NEW o \in Objects
      PROVE  /\ object'[o] \in ObjectRecords \cup {Nothing}
             /\ object'[o] = Nothing <=> object[o] = Nothing
             /\ object[o] # Nothing => /\ object'[o].tid = object[o].tid
                                       /\ object'[o].detached = object[o].detached
                                       /\ object'[o].result = object[o].result
                                       /\ object'[o].pending = object[o].pending
             /\ object[o] # Nothing =>
                  object'[o].owner = IF object[o].owner = p THEN Nothing ELSE object[o].owner
  <2>1. CASE Owns(p, o)
    <3>1. object[o] \in ObjectRecords /\ Exists(o)
      BY <2>1, Types DEF Owns
    <3>2. [object[o] EXCEPT !.owner = Nothing] \in ObjectRecords
      BY <3>1 DEF ObjectRecords
    <3>3. object'[o] = [object[o] EXCEPT !.owner = Nothing]
      BY <1>1, <2>1
    <3>. QED
      BY <2>1, <3>1, <3>2, <3>3, ConstantFacts DEF Exists, Owns, ObjectRecords
  <2>2. CASE ~Owns(p, o)
    <3>1. object'[o] = object[o]
      BY <1>1, <2>2
    <3>. QED
      BY <2>2, <3>1, Types DEF Exists, Owns
  <2>. QED
    BY <2>1, <2>2
<1>7. object' \in [Objects -> ObjectRecords \cup {Nothing}]
  BY <1>1, <1>6
<1>u. ASSUME NEW q
      PROVE  q \in abandoned' <=>
               \/ q \in abandoned
               \/ \E o \in Objects : Owns(p, o) /\ object[o].pending /\ object[o].tid = q
  BY <1>1 DEF Unjoined
<1>g. ASSUME NEW o \in Objects, Owns(p, o), object[o].pending
      PROVE  /\ object[o].tid \in Pthreads /\ pthread[object[o].tid].pc # "free"
             /\ pthread[object[o].tid].obj = o /\ ~pthread[object[o].tid].detached
  BY <1>g DEF IInv, ObjectOf, ThreadOf, Owns
<1>k. \A x : Clean(x)' => Clean(x)
  <2>1. \A q \in abandoned : pthread'[q].obj = pthread[q].obj
    BY <1>4, <1>5, Types
  <2>. QED
    BY <1>1, <2>1, CleanKept
<1>8. TypeOK'
  <2>1. abandoned' \subseteq Pthreads
    BY <1>u, <1>g, Types
  <2>. QED
    BY <1>1, <1>5, <1>7, <2>1 DEF IInv, TypeOK
<1>9. ASSUME NEW q \in Pthreads PROVE ThreadOf(q)'
  <2>1. ThreadOf(q)
    BY DEF IInv
  <2>2. /\ pthread'[q].obj = pthread[q].obj /\ pthread'[q].detached = pthread[q].detached
        /\ pthread'[q].pc = "free" <=> pthread[q].pc = "free"
        /\ pthread'[q].pc \in {"stored", "ended"} => pthread[q].pc \in {"stored", "ended"} /\ q # p
        /\ pthread'[q].pc = "ended" => pthread[q].pc = "ended"
        /\ q # p => pthread'[q] = pthread[q]
    BY <1>1, <1>4, <1>5
  <2>3. CASE pthread[q].pc = "free"
    BY <1>u, <1>g, <2>1, <2>2, <2>3 DEF ThreadOf
  <2>4. CASE pthread[q].pc # "free"
    <3>1. PICK o \in Objects : o = pthread[q].obj /\ Exists(o) /\ pthread[q].detached = object[o].detached
      BY <2>1, <2>4 DEF ThreadOf
    <3>a. /\ pthread[q].detached => object[o].tid # Nothing /\ pthread[q].pc # "ended"
          /\ ~pthread[q].detached /\ q \notin abandoned =>
               object[o].tid = q /\ object[o].pending /\ object[o].owner # Nothing
          /\ ~pthread[q].detached /\ q \notin abandoned /\ Clean(o) /\ pthread[q].pc \in {"stored", "ended"} =>
               object[o].result = pthread[q].value
          /\ q \in abandoned =>
               ~pthread[q].detached /\ (object[o].tid # q \/ object[o].owner = Nothing)
          /\ pthread[q].pc \in {"ran", "stored", "ended"} => pthread[q].value \in Results
      BY <2>1, <2>4, <3>1 DEF ThreadOf
    <3>7. /\ Exists(o)' /\ object'[o].tid = object[o].tid /\ object'[o].detached = object[o].detached
          /\ object'[o].result = object[o].result /\ object'[o].pending = object[o].pending
          /\ object'[o].owner = IF object[o].owner = p THEN Nothing ELSE object[o].owner
      BY <1>6, <3>1 DEF Exists
    <3>2. ASSUME q \in abandoned'
          PROVE  ~pthread[q].detached /\ (object'[o].tid # q \/ object'[o].owner = Nothing)
      <4>1. CASE q \in abandoned
        BY <3>a, <3>7, <4>1
      <4>2. CASE \E y \in Objects : Owns(p, y) /\ object[y].pending /\ object[y].tid = q
        <5>1. PICK y \in Objects : Owns(p, y) /\ object[y].pending /\ object[y].tid = q
          BY <4>2
        <5>2. o = y /\ ~pthread[q].detached
          BY <1>g, <3>1, <5>1
        <5>. QED
          BY <3>7, <5>1, <5>2 DEF Owns
      <4>. QED
        BY <1>u, <3>2, <4>1, <4>2
    <3>3. ASSUME ~pthread[q].detached, q \notin abandoned'
          PROVE  /\ object[o].tid = q /\ object[o].pending /\ object[o].owner # Nothing
                 /\ object[o].owner # p /\ q \notin abandoned
      <4>1. q \notin abandoned
        BY <1>u, <3>3
      <4>2. object[o].tid = q /\ object[o].pending /\ object[o].owner # Nothing
        BY <3>a, <3>3, <4>1
      <4>3. object[o].owner # p
        BY <1>u, <3>1, <3>3, <4>2 DEF Owns
      <4>. QED
        BY <4>1, <4>2, <4>3
    <3>4. pthread'[q].pc \in {"ran", "stored", "ended"} => pthread'[q].value \in Results
      <4>1. CASE q = p
        BY <1>4, <1>5, <4>1
      <4>2. CASE q # p
        BY <2>2, <3>a, <4>2
      <4>. QED
        BY <4>1, <4>2
    <3>5. ASSUME ~pthread[q].detached, q \notin abandoned', Clean(o)', pthread'[q].pc \in {"stored", "ended"}
          PROVE  object'[o].result = pthread'[q].value
      <4>1. Clean(o) /\ pthread[q].pc \in {"stored", "ended"} /\ pthread'[q] = pthread[q]
        BY <1>k, <2>2, <3>5
      <4>2. q \notin abandoned
        BY <1>u, <3>5
      <4>. QED
        BY <3>a, <3>5, <3>7, <4>1, <4>2
    <3>6. pthread[q].detached => pthread'[q].pc # "ended"
      BY <2>2, <3>a
    <3>8. o = pthread'[q].obj /\ pthread'[q].detached = pthread[q].detached /\ pthread'[q].pc # "free"
      BY <2>2, <2>4, <3>1
    <3>9. /\ pthread'[q].detached = object'[o].detached
          /\ pthread'[q].detached => object'[o].tid # Nothing /\ pthread'[q].pc # "ended"
      BY <3>1, <3>6, <3>7, <3>8, <3>a
    <3>10. ~pthread'[q].detached /\ q \notin abandoned' =>
             object'[o].tid = q /\ object'[o].pending /\ object'[o].owner # Nothing
      BY <3>3, <3>7, <3>8
    <3>. QED
      BY <3>2, <3>4, <3>5, <3>7, <3>8, <3>9, <3>10 DEF ThreadOf
  <2>. QED
    BY <2>3, <2>4
<1>10. ASSUME NEW x \in Objects PROVE Kept(x)
  <2>2. \A q \in Pthreads : /\ pthread'[q].obj = pthread[q].obj
                            /\ pthread'[q].pc = "free" => pthread[q].pc = "free"
                            /\ q # p => pthread'[q].pc = pthread[q].pc
    BY <1>1, <1>4, <1>5
  <2>3. Exists(x)' => Exists(x)
    BY <1>6 DEF Exists
  <2>4. Exists(x)' => /\ object'[x].tid = object[x].tid /\ object'[x].detached = object[x].detached
                      /\ object'[x].pending = object[x].pending
                      /\ object'[x].owner = object[x].owner \/ object'[x].owner = Nothing
                      /\ object'[x].owner # p
    BY <1>6, <2>3, ConstantFacts DEF Exists
  <2>. QED
    BY <2>2, <2>3, <2>4 DEF Kept
<1>11. ASSUME NEW x \in Clients PROVE CallOf(x)'
  <2>1. CASE call[x].pc = "none"
    BY <1>1, <2>1 DEF IInv, CallOf
  <2>2. CASE call[x].pc # "none"
    <3>1. x # p /\ call[x].obj \in Objects /\ Owns(x, call[x].obj)
      BY <1>1, <2>2 DEF IInv, CallOf
    <3>. QED
      BY <1>1, <1>6, <1>k, <2>2, <3>1, ConstantFacts DEF IInv, CallOf, Owns, Exists
  <2>. QED
    BY <2>1, <2>2
<1>. QED
  BY <1>8, <1>9, <1>10, <1>11, ObjectKept DEF IInv

\* The result goes to an object that is there, and if its thread is joinable and
\* was not given up no other thread's, nor one that is joined already.
LEMMA StoreResultSound ==
  ASSUME IInv, NEW p \in Pthreads, StoreResult(p)
  PROVE  IInv'
<1>. DEFINE o == pthread[p].obj
            v == pthread[p].value
<1>1. /\ pthread[p].pc = "ran" /\ pthread' = [pthread EXCEPT ![p].pc = "stored"]
      /\ UNCHANGED <<call, aborted, abandoned>>
  BY DEF StoreResult, PC
<1>2. /\ o \in Objects /\ Exists(o) /\ v \in Results
      /\ pthread[p].detached = object[o].detached
      /\ pthread[p].detached => object[o].tid # Nothing
      /\ ~pthread[p].detached /\ p \notin abandoned => object[o].tid = p /\ object[o].pending
  BY <1>1 DEF IInv, ThreadOf
<1>3. object' = [object EXCEPT ![o].result = v]
  BY <1>2 DEF StoreResult
<1>4. pthread[p] \in PthreadRecords /\ object[o] \in ObjectRecords
  BY <1>2, Types
<1>5. PICK f \in PthreadRecords :
        f = [pthread[p] EXCEPT !.pc = "stored"] /\ pthread' = [pthread EXCEPT ![p] = f]
  BY <1>1, <1>4, Types DEF PthreadRecords
<1>6. f.pc = "stored" /\ f.obj = o /\ f.detached = pthread[p].detached /\ f.value = v
  BY <1>4, <1>5 DEF PthreadRecords
<1>7. PICK r \in ObjectRecords :
        r = [object[o] EXCEPT !.result = v] /\ object' = [object EXCEPT ![o] = r]
  BY <1>2, <1>3, <1>4, Types DEF ObjectRecords
<1>8. /\ r.tid = object[o].tid /\ r.detached = object[o].detached /\ r.result = v
      /\ r.owner = object[o].owner /\ r.pending = object[o].pending /\ r # Nothing
  BY <1>4, <1>7, ConstantFacts DEF ObjectRecords
<1>9. pthread' \in [Pthreads -> PthreadRecords] /\ pthread'[p] = f
      /\ \A q \in Pthreads : q # p => pthread'[q] = pthread[q]
  BY <1>5, Types
<1>10. object' \in [Objects -> ObjectRecords \cup {Nothing}]
       /\ object'[o] = r /\ \A x \in Objects : x # o => object'[x] = object[x]
  BY <1>2, <1>7, Types
<1>k. \A x : Clean(x)' => Clean(x)
  <2>1. \A q \in abandoned : pthread'[q].obj = pthread[q].obj
    BY <1>6, <1>9, Types
  <2>. QED
    BY <1>1, <2>1, CleanKept
<1>c. p \in abandoned => ~Clean(o)
  BY DEF Clean
<1>. HIDE DEF o, v
<1>11. TypeOK'
  BY <1>1, <1>9, <1>10 DEF IInv, TypeOK
<1>12. ASSUME NEW q \in Pthreads PROVE ThreadOf(q)'
  <2>1. CASE q = p
    <3>1. ThreadOf(p)
      BY DEF IInv
    <3>2. /\ pthread'[p].pc = "stored" /\ pthread'[p].obj = o /\ pthread'[p].value = v
          /\ pthread'[p].detached = pthread[p].detached /\ object'[o] = r
      BY <1>6, <1>9, <1>10
    <3>3. /\ ~pthread[p].detached /\ p \notin abandoned => r.owner # Nothing
          /\ p \in abandoned => ~pthread[p].detached /\ (r.tid # p \/ r.owner = Nothing)
      BY <1>1, <1>8, <3>1 DEF ThreadOf, o
    <3>. QED
      BY <1>1, <1>2, <1>8, <2>1, <3>2, <3>3 DEF ThreadOf, Exists
  <2>2. CASE q # p
    <3>1. CASE pthread[q].pc # "free" /\ pthread[q].obj = o
      <4>1. ThreadOf(q) /\ pthread'[q] = pthread[q]
        BY <1>9, <2>2 DEF IInv
      <4>2. ~pthread[q].detached /\ q \notin abandoned => p \in abandoned
        BY <1>2, <2>2, <3>1, <4>1 DEF ThreadOf
      <4>. QED
        BY <1>1, <1>8, <1>10, <1>c, <1>k, <3>1, <4>1, <4>2 DEF ThreadOf, Exists
    <3>2. CASE ~(pthread[q].pc # "free" /\ pthread[q].obj = o)
      <4>1. ThreadOf(q) /\ pthread'[q] = pthread[q]
        BY <1>9, <2>2 DEF IInv
      <4>2. pthread[q].pc # "free" => object'[pthread[q].obj] = object[pthread[q].obj]
        BY <1>10, <3>2, <4>1 DEF ThreadOf
      <4>. QED
        BY <1>1, <1>k, <4>1, <4>2 DEF ThreadOf, Exists
    <3>. QED
      BY <3>1, <3>2
  <2>. QED
    BY <2>1, <2>2
<1>13. ASSUME NEW x \in Objects PROVE Kept(x)
  <2>1. \A q \in Pthreads : /\ pthread'[q].obj = pthread[q].obj
                            /\ pthread'[q].pc = "free" => pthread[q].pc = "free"
                            /\ pthread[q].pc = "run" => pthread'[q].pc = "run"
    BY <1>1, <1>6, <1>9 DEF o
  <2>2. /\ Exists(x)' => Exists(x)
        /\ Exists(x)' => /\ object'[x].tid = object[x].tid /\ object'[x].detached = object[x].detached
                         /\ object'[x].pending = object[x].pending /\ object'[x].owner = object[x].owner
    BY <1>2, <1>8, <1>10 DEF Exists
  <2>. QED
    BY <2>1, <2>2 DEF Kept
<1>14. ASSUME NEW x \in Clients PROVE CallOf(x)'
  <2>1. CASE call[x].obj = o /\ call[x].pc # "none"
    <3>1. CallOf(x)
      BY DEF IInv
    <3>2. call[x].pc = "joined" => ~Clean(o)
      BY <1>2, <1>c, <2>1, <3>1 DEF CallOf
    <3>. QED
      BY <1>1, <1>8, <1>10, <1>k, <2>1, <3>1, <3>2 DEF CallOf, Owns, Exists
  <2>2. CASE call[x].obj # o \/ call[x].pc = "none"
    BY <1>1, <1>10, <1>k, <2>2 DEF IInv, CallOf, Owns, Exists
  <2>. QED
    BY <2>1, <2>2
<1>. QED
  BY <1>11, <1>12, <1>13, <1>14, ObjectKept DEF IInv

\* A detached thread is gone; a joinable one waits for its join.
LEMMA EndSound ==
  ASSUME IInv, NEW p \in Pthreads, End(p)
  PROVE  IInv'
<1>1. pthread[p].pc = "stored" /\ UNCHANGED <<object, call, aborted, abandoned>>
  BY DEF End, PC
<1>2. pthread[p] \in PthreadRecords /\ pthread \in [Pthreads -> PthreadRecords]
  BY Types
<1>3. PICK f \in PthreadRecords :
        /\ pthread' = [pthread EXCEPT ![p] = f]
        /\ pthread[p].detached => f.pc = "free"
        /\ ~pthread[p].detached => /\ f.pc = "ended" /\ f.obj = pthread[p].obj
                                   /\ f.detached = pthread[p].detached /\ f.value = pthread[p].value
  <2>1. CASE pthread[p].detached
    <3>1. FreePthread \in PthreadRecords /\ FreePthread.pc = "free"
      BY DEF FreePthread, PthreadRecords
    <3>2. pthread' = [pthread EXCEPT ![p] = FreePthread]
      BY <1>2, <2>1 DEF End
    <3>. QED
      BY <2>1, <3>1, <3>2
  <2>2. CASE ~pthread[p].detached
    <3>1. [pthread[p] EXCEPT !.pc = "ended"] \in PthreadRecords
      BY <1>2 DEF PthreadRecords
    <3>2. pthread' = [pthread EXCEPT ![p] = [pthread[p] EXCEPT !.pc = "ended"]]
      BY <1>2, <2>2 DEF End
    <3>. QED
      BY <1>2, <2>2, <3>1, <3>2 DEF PthreadRecords
  <2>. QED
    BY <2>1, <2>2
<1>4. pthread' \in [Pthreads -> PthreadRecords] /\ pthread'[p] = f
      /\ \A q \in Pthreads : q # p => pthread'[q] = pthread[q]
  BY <1>2, <1>3
<1>5. TypeOK'
  BY <1>1, <1>4 DEF IInv, TypeOK
<1>k. \A x : Clean(x)' => Clean(x)
  <2>1. p \in abandoned => ~pthread[p].detached
    BY <1>1 DEF IInv, ThreadOf
  <2>2. \A q \in abandoned : pthread'[q].obj = pthread[q].obj
    BY <1>3, <1>4, <2>1, Types
  <2>. QED
    BY <1>1, <2>2, CleanKept
<1>6. ASSUME NEW q \in Pthreads PROVE ThreadOf(q)'
  <2>1. CASE q = p
    BY <1>1, <1>3, <1>4, <1>k, <2>1 DEF IInv, ThreadOf, Exists
  <2>2. CASE q # p
    BY <1>1, <1>4, <1>k, <2>2 DEF IInv, ThreadOf, Exists
  <2>. QED
    BY <2>1, <2>2
<1>7. ASSUME NEW x \in Objects PROVE ObjectOf(x)'
  <2>1. Exists(x) /\ object[x].pending /\ object[x].tid = p => ~pthread[p].detached
    BY <1>1 DEF IInv, ObjectOf, ThreadOf
  <2>. QED
    BY <1>1, <1>3, <1>4, <2>1 DEF IInv, ObjectOf, Exists
<1>8. ASSUME NEW x \in Clients PROVE CallOf(x)'
  BY <1>1, <1>k DEF IInv, CallOf, Owns, Exists
<1>. QED
  BY <1>5, <1>6, <1>7, <1>8 DEF IInv

-----------------------------------------------------------------------------
LEMMA NextSound == IInv /\ [Next]_vars => IInv'
<1>. SUFFICES ASSUME IInv, [Next]_vars PROVE IInv'
  OBVIOUS
<1>1. ASSUME NEW c \in Clients, ClientStep(c) PROVE IInv'
  <2>1. ASSUME NEW o \in Objects, \E d \in BOOLEAN : Construct(c, o, d) PROVE IInv'
    BY <2>1, ConstructSound
  <2>2. ASSUME NEW o \in Objects, Destroy(c, o) PROVE IInv'
    BY <2>2, DestroySound
  <2>3. ASSUME NEW o \in Objects, \E p \in Pthreads : Start(c, o, p) PROVE IInv'
    BY <2>3, StartSound
  <2>4. ASSUME NEW o \in Objects, Join(c, o) PROVE IInv'
    BY <2>4, JoinSound
  <2>5. ASSUME ConstructFails(c) \/ JoinFails(c) \/ \E o \in Objects : StartFails(c, o) PROVE IInv'
    BY <2>5, AbortSound DEF ConstructFails, JoinFails, StartFails
  <2>. QED
    BY <1>1, <2>1, <2>2, <2>3, <2>4, <2>5, JoinedSound, JoinReturnsSound DEF ClientStep
<1>2. ASSUME NEW p \in Pthreads, PthreadStep(p) PROVE IInv'
  BY <1>2, RunSound, RanSound, StoreResultSound, EndSound DEF PthreadStep
<1>3. CASE UNCHANGED vars
  BY <1>3 DEF vars, IInv, TypeOK, ThreadOf, ObjectOf, CallOf, Clean, Exists, Owns
<1>. QED
  BY <1>1, <1>2, <1>3 DEF Next

LEMMA AlwaysIInv == Spec => []IInv
BY InitSound, NextSound, PTL DEF Spec

\* The objects, the pthreads and the joins keep their types, whatever the clients
\* start, join and destroy within the rules.
THEOREM TypeCorrect == Spec => []TypeOK
<1>1. IInv => TypeOK
  BY DEF IInv
<1>. QED
  BY <1>1, AlwaysIInv, PTL

\* Thread.cpp's start functions: however many threads and objects there are, the
\* object of a thread that has not ended is there, and names a joinable one that
\* was not given up.
THEOREM ObjectsOutliveThreads == Spec => []NoUseAfterDestroy
<1>1. IInv => NoUseAfterDestroy
  BY DEF IInv, ThreadOf, NoUseAfterDestroy, Unfinished
<1>. QED
  BY <1>1, AlwaysIInv, PTL

\* Thread::join: what it returns is what the run() of its object's thread did,
\* unless the object was started again with its thread unjoined.
THEOREM JoinsCorrect == Spec => []JoinReturnsOwnResult
<1>1. IInv => JoinReturnsOwnResult
  BY ConstantFacts DEF IInv, CallOf, JoinReturnsOwnResult, Owns
<1>. QED
  BY <1>1, AlwaysIInv, PTL

\* A joinable thread can be joined exactly if no restart and no return gave it up,
\* and by one client.
THEOREM JoinsOnce == Spec => []JoinableOnce
<1>1. ASSUME IInv PROVE JoinableOnce
  <2>1. ASSUME NEW p \in Pthreads, Joinable(p), p \notin abandoned
        PROVE  \E o \in Objects : CanBeJoined(o, p)
    <3>. DEFINE o == pthread[p].obj
                c == object[o].owner
    <3>1. o \in Objects /\ Exists(o) /\ object[o].tid = p /\ object[o].pending /\ c # Nothing
      BY <1>1, <2>1 DEF IInv, ThreadOf, Joinable
    <3>2. object[o] \in ObjectRecords
      BY <1>1, <3>1, Types
    <3>3. c \in Clients
      BY <3>1, <3>2 DEF ObjectRecords
    <3>4. c = Main \/ pthread[c].pc = "run"
      BY <1>1, <3>1, <3>3 DEF IInv, ObjectOf, Clients
    <3>. QED
      BY <3>1, <3>3, <3>4 DEF CanBeJoined, Owns
  <2>2. ASSUME NEW p \in Pthreads, Joinable(p), NEW o \in Objects, CanBeJoined(o, p)
        PROVE  p \notin abandoned
    <3>1. Exists(o) /\ object[o].tid = p /\ object[o].pending /\ object[o].owner # Nothing
      BY <2>2, ConstantFacts DEF CanBeJoined, Owns
    <3>2. pthread[p].obj = o
      BY <1>1, <3>1 DEF IInv, ObjectOf
    <3>. QED
      BY <1>1, <2>2, <3>1, <3>2 DEF IInv, ThreadOf, Joinable
  <2>3. \A o1, o2 \in Objects :
          (Exists(o1) /\ Exists(o2) /\ object[o1].pending /\ object[o2].pending
            /\ object[o1].tid = object[o2].tid) => o1 = o2
    BY <1>1 DEF IInv, ObjectOf
  <2>4. \A c1, c2 \in Clients :
          (call[c1].pc # "none" /\ call[c1].obj = call[c2].obj) => c1 = c2
    BY <1>1, ConstantFacts DEF IInv, CallOf, Owns
  <2>. QED
    BY <2>1, <2>2, <2>3, <2>4 DEF JoinableOnce
<1>. QED
  BY <1>1, AlwaysIInv, PTL
=============================================================================
