------------------------------- MODULE Thread -------------------------------
(***************************************************************************)
(* DBUtl::Thread (Thread.h, Thread.cpp): an object around one pthread, its *)
(* start function, and join.  The clients are the main thread and the      *)
(* bodies of the threads that run, which construct, start, join and        *)
(* destroy objects of their own.                                           *)
(*                                                                         *)
(* A client may give a joinable thread up: by starting its object again   *)
(* before it has joined it, which overwrites the thread id, or by          *)
(* returning from the run() that constructed the object.                   *)
(*                                                                         *)
(* What a client must respect, because the class neither checks nor        *)
(* reports it, is in the guards marked "client": an object is destroyed    *)
(* only when no thread of it is unjoined, given up, or detached, there     *)
(* being no way to learn that such a thread has ended; and join is called  *)
(* once for each start.  Joining a detached object, which is what the      *)
(* default arguments construct, is a mistake the class does report.        *)
(*                                                                         *)
(* The attribute object needs no variable: each start() initialises it,    *)
(* and destroys it again if the object is detached.                        *)
(***************************************************************************)
EXTENDS Naturals, FiniteSets

CONSTANTS
  Objects,     \* bound: Thread objects
  Pthreads,    \* bound: threads of the process, but the main one
  Main,
  Results,     \* what a run() may return
  Nothing

Clients == Pthreads \cup {Main}

\* pthreadThreadID, detached, result; the client that constructed the object;
\* and whether a thread of a joinable object is not joined yet.
ObjectRecords == [tid : Pthreads \cup {Nothing}, detached : BOOLEAN,
                  result : Results \cup {Nothing}, owner : Clients \cup {Nothing}, pending : BOOLEAN]

ASSUME ThreadAssumption ==
  Main \notin Pthreads /\ Nothing \notin Clients \cup Objects \cup Results \cup ObjectRecords

VARIABLES
  object,      \* each Thread object, or Nothing
  pthread,     \* external: each pthread
  call,        \* the join a client is in
  aborted,     \* an assertion has failed
  abandoned    \* history: the joinable threads that were given up

vars == <<object, pthread, call, aborted, abandoned>>

\* A pthread is free, created, in run(), done with run(), done with storing
\* the result, or ended and not joined; value is what its run() returned.
PthreadRecords == [pc : {"free", "created", "run", "ran", "stored", "ended"},
                   obj : Objects \cup {Nothing}, detached : BOOLEAN,
                   value : Results \cup {Nothing}]

FreePthread == [pc |-> "free", obj |-> Nothing, detached |-> FALSE, value |-> Nothing]

\* join: in pthread_join, or about to read the result; value is the history of
\* what the joined thread's run() returned.
Calls == [pc : {"none", "joining", "joined"}, obj : Objects \cup {Nothing},
          value : Results \cup {Nothing}]

NoCall == [pc |-> "none", obj |-> Nothing, value |-> Nothing]

Init ==
  /\ object = [o \in Objects |-> Nothing]
  /\ pthread = [p \in Pthreads |-> FreePthread]
  /\ call = [c \in Clients |-> NoCall]
  /\ aborted = FALSE
  /\ abandoned = {}

Exists(o) == object[o] # Nothing

\* The client c executes: it is in run(), or is the main thread, and not in join.
Active(c) ==
  /\ ~aborted
  /\ call[c].pc = "none"
  /\ c \in Pthreads => pthread[c].pc = "run"

Owns(c, o) == Exists(o) /\ object[o].owner = c

\* The thread, if any, that is given up with what the object names now.
Unjoined(o) == IF object[o].pending THEN {object[o].tid} ELSE {}

\* None of the object's threads was given up.
Clean(o) == \A p \in Pthreads : p \in abandoned => pthread[p].obj # o

-----------------------------------------------------------------------------
(* The calls of a client.                                                  *)

\* Thread(runnable, isDetached) or Thread(isDetached); the thread id and the
\* result are not initialised.
Construct(c, o, d) ==
  /\ Active(c)
  /\ ~Exists(o)
  /\ object' = [object EXCEPT ![o] = [tid |-> Nothing, detached |-> d, result |-> Nothing,
                                      owner |-> c, pending |-> FALSE]]
  /\ UNCHANGED <<pthread, call, aborted, abandoned>>

\* Thread(runnable, isDetached) with no Runnable in the auto_ptr:
\* DBUTL_ASSERT_ALWAYS( runnable.get() != NULL ).
ConstructFails(c) ==
  /\ Active(c)
  /\ aborted' = TRUE
  /\ UNCHANGED <<object, pthread, call, abandoned>>

\* ~Thread() touches nothing and waits for nothing.
Destroy(c, o) ==
  /\ Active(c)
  /\ Owns(c, o)
  /\ ~object[o].pending /\ Clean(o)                                  \* client
  /\ object[o].detached => object[o].tid = Nothing                   \* client
  /\ object' = [object EXCEPT ![o] = Nothing]
  /\ UNCHANGED <<pthread, call, aborted, abandoned>>

\* The class without its `if (!detached)', every thread being created joinable.
StartJoinable(c, o, p) ==
  /\ Active(c)
  /\ Owns(c, o)
  /\ pthread[p].pc = "free"
  /\ pthread' = [pthread EXCEPT ![p] = [pc |-> "created", obj |-> o, value |-> Nothing,
                                        detached |-> FALSE]]
  /\ object' = [object EXCEPT ![o].tid = p, ![o].pending = ~object[o].detached]
  /\ abandoned' = abandoned \cup Unjoined(o)
  /\ UNCHANGED <<call, aborted>>

\* The thread id goes to a local variable.
StartKeepsId(c, o, p) ==
  /\ Active(c)
  /\ Owns(c, o)
  /\ pthread[p].pc = "free"
  /\ pthread' = [pthread EXCEPT ![p] = [pc |-> "created", obj |-> o, value |-> Nothing,
                                        detached |-> object[o].detached]]
  /\ object' = [object EXCEPT ![o].pending = ~object[o].detached]
  /\ abandoned' = abandoned \cup Unjoined(o)
  /\ UNCHANGED <<call, aborted>>

\* start(), pthread_create succeeding; a thread the object still names is not
\* joined first.
Start(c, o, p) ==
  /\ Active(c)
  /\ Owns(c, o)
  /\ pthread[p].pc = "free"
  /\ pthread' = [pthread EXCEPT ![p] = [pc |-> "created", obj |-> o, value |-> Nothing,
                                        detached |-> object[o].detached]]
  /\ object' = [object EXCEPT ![o].tid = p, ![o].pending = ~object[o].detached]
  /\ abandoned' = abandoned \cup Unjoined(o)
  /\ UNCHANGED <<call, aborted>>

\* start(), pthread_create failing: DBUTL_ASSERT_ALWAYS( status == 0 ).
StartFails(c, o) ==
  /\ Active(c)
  /\ Owns(c, o)
  /\ aborted' = TRUE
  /\ UNCHANGED <<object, pthread, call, abandoned>>

Join(c, o) ==
  /\ Active(c)
  /\ Owns(c, o)
  /\ object[o].pending \/ (object[o].detached /\ object[o].tid # Nothing) \* client
  /\ call' = [call EXCEPT ![c] = [pc |-> "joining", obj |-> o, value |-> Nothing]]
  /\ UNCHANGED <<object, pthread, aborted, abandoned>>

\* pthread_join returns 0 when the thread has ended, and the thread is gone.
JoinedEarly(c) ==
  /\ ~aborted /\ call[c].pc = "joining"
  /\ LET o == call[c].obj
         p == object[o].tid
     IN  /\ p # Nothing
         /\ object' = [object EXCEPT ![o].pending = FALSE]
         /\ call' = [call EXCEPT ![c].pc = "joined", ![c].value = pthread[p].value]
  /\ UNCHANGED <<pthread, aborted, abandoned>>

Joined(c) ==
  /\ ~aborted /\ call[c].pc = "joining"
  /\ LET o == call[c].obj
         p == object[o].tid
     IN  /\ p # Nothing /\ ~object[o].detached
         /\ pthread[p].pc = "ended"
         /\ pthread' = [pthread EXCEPT ![p] = FreePthread]
         /\ object' = [object EXCEPT ![o].pending = FALSE]
         /\ call' = [call EXCEPT ![c].pc = "joined", ![c].value = pthread[p].value]
  /\ UNCHANGED <<aborted, abandoned>>

\* pthread_join fails for a detached thread, or for no thread, and with it the
\* assertion that follows.  (An id of a detached thread that has ended may by
\* then be another thread's: what happens then is undefined.)
JoinFails(c) ==
  /\ ~aborted /\ call[c].pc = "joining"
  /\ LET o == call[c].obj
         p == object[o].tid
     IN  object[o].detached \/ (p # Nothing /\ (pthread[p].detached \/ pthread[p].pc = "free"))
  /\ aborted' = TRUE
  /\ UNCHANGED <<object, pthread, call, abandoned>>

\* `return result;'
JoinReturns(c) ==
  /\ ~aborted /\ call[c].pc = "joined"
  /\ call' = [call EXCEPT ![c] = NoCall]
  /\ UNCHANGED <<object, pthread, aborted, abandoned>>

-----------------------------------------------------------------------------
(* startThread and startThreadRunnable, in the new thread.                 *)

PC(p, from) == ~aborted /\ pthread[p].pc = from

Run(p) ==
  /\ PC(p, "created")
  /\ pthread' = [pthread EXCEPT ![p].pc = "run"]
  /\ UNCHANGED <<object, call, aborted, abandoned>>

\* run() returns v; the objects it constructed and did not destroy are leaked.
Ran(p, v) ==
  /\ PC(p, "run")
  /\ call[p].pc = "none"
  /\ pthread' = [pthread EXCEPT ![p].pc = "ran", ![p].value = v]
  /\ object' = [o \in Objects |-> IF Owns(p, o) THEN [object[o] EXCEPT !.owner = Nothing]
                                  ELSE object[o]]
  /\ abandoned' = abandoned \cup UNION {Unjoined(o) : o \in {x \in Objects : Owns(p, x)}}
  /\ UNCHANGED <<call, aborted>>

StoreResultNot(p) ==
  /\ PC(p, "ran")
  /\ pthread' = [pthread EXCEPT ![p].pc = "stored"]
  /\ UNCHANGED <<object, call, aborted, abandoned>>

\* The result of run() is dropped for the object itself.
StoreResultObject(p) ==
  /\ PC(p, "ran")
  /\ pthread' = [pthread EXCEPT ![p].pc = "stored"]
  /\ object' = IF Exists(pthread[p].obj)
               THEN [object EXCEPT ![pthread[p].obj].result = pthread[p].obj]
               ELSE object
  /\ UNCHANGED <<call, aborted, abandoned>>

\* `aThread->result = ...', in whatever is at the object's address.
StoreResult(p) ==
  /\ PC(p, "ran")
  /\ pthread' = [pthread EXCEPT ![p].pc = "stored"]
  /\ object' = IF Exists(pthread[p].obj)
               THEN [object EXCEPT ![pthread[p].obj].result = pthread[p].value]
               ELSE object
  /\ UNCHANGED <<call, aborted, abandoned>>

\* setCompleted() does nothing; the result is read again, and the thread ends.
End(p) ==
  /\ PC(p, "stored")
  /\ pthread' = [pthread EXCEPT ![p] =
       IF @.detached THEN FreePthread ELSE [@ EXCEPT !.pc = "ended"]]
  /\ UNCHANGED <<object, call, aborted, abandoned>>

-----------------------------------------------------------------------------
ClientStep(c) ==
  \/ \E o \in Objects :
       \/ \E d \in BOOLEAN : Construct(c, o, d)
       \/ Destroy(c, o)
       \/ \E p \in Pthreads : Start(c, o, p)
       \/ StartFails(c, o)
       \/ Join(c, o)
  \/ ConstructFails(c)
  \/ Joined(c) \/ JoinFails(c) \/ JoinReturns(c)

PthreadStep(p) ==
  \/ Run(p)
  \/ \E v \in Results : Ran(p, v)
  \/ StoreResult(p)
  \/ End(p)

Next ==
  \/ \E c \in Clients : ClientStep(c)
  \/ \E p \in Pthreads : PthreadStep(p)

Spec == Init /\ [][Next]_vars

\* The system schedules every thread, and every run() returns that is not in a
\* join for ever; no client has to make any call.
FairSpec ==
  /\ Spec
  /\ \A p \in Pthreads : WF_vars(Run(p) \/ StoreResult(p) \/ End(p))
  /\ \A p \in Pthreads : SF_vars(\E v \in Results : Ran(p, v))
  /\ \A c \in Clients : WF_vars(Joined(c) \/ JoinFails(c) \/ JoinReturns(c))

-----------------------------------------------------------------------------
(* Properties.                                                             *)

TypeOK ==
  /\ object \in [Objects -> ObjectRecords \cup {Nothing}]
  /\ pthread \in [Pthreads -> PthreadRecords]
  /\ call \in [Clients -> Calls]
  /\ aborted \in BOOLEAN
  /\ abandoned \subseteq Pthreads

Unfinished(p) == pthread[p].pc \in {"created", "run", "ran", "stored"}

\* The start functions read and write the object until the thread ends: it is
\* still there, and for a joinable thread that was not given up it is the thread's
\* own, so that its id is not lost.
NoUseAfterDestroy ==
  \A p \in Pthreads : Unfinished(p) =>
    LET o == pthread[p].obj
    IN  /\ Exists(o)
        /\ pthread[p].detached = object[o].detached
        /\ ~pthread[p].detached /\ p \notin abandoned => object[o].tid = p /\ object[o].pending

\* join() returns what the run() of the thread it joined returned, unless the
\* object was started again with its former thread unjoined: then both write it.
JoinReturnsOwnResult ==
  \A c \in Clients : call[c].pc = "joined" =>
    /\ Exists(call[c].obj) /\ call[c].value # Nothing
    /\ Clean(call[c].obj) => object[call[c].obj].result = call[c].value

Joinable(p) == pthread[p].pc # "free" /\ ~pthread[p].detached

\* The object has the thread's id, and a client that has the object and executes.
CanBeJoined(o, p) ==
  /\ Exists(o) /\ object[o].tid = p /\ object[o].pending
  /\ \E c \in Clients : Owns(c, o) /\ (c = Main \/ pthread[c].pc = "run")

\* The joinable threads that can still be joined are exactly those that no restart
\* of their object and no return from run() gave up: nothing else leaks a thread.
\* Each is joined by its object alone, and at most one client is joining it.
JoinableOnce ==
  /\ \A p \in Pthreads : Joinable(p) =>
       (p \notin abandoned <=> \E o \in Objects : CanBeJoined(o, p))
  /\ \A o1, o2 \in Objects :
       (Exists(o1) /\ Exists(o2) /\ object[o1].pending /\ object[o2].pending
         /\ object[o1].tid = object[o2].tid) => o1 = o2
  /\ \A c1, c2 \in Clients :
       (call[c1].pc # "none" /\ call[c1].obj = call[c2].obj) => c1 = c2

\* A join returns, unless a failing assertion aborts the process first.
JoinTerminates == \A c \in Clients : call[c].pc = "joining" ~> (call[c].pc = "none" \/ aborted)
=============================================================================
