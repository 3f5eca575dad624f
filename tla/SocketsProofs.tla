--------------------------- MODULE SocketsProofs ----------------------------
(***************************************************************************)
(* What holds of socket objects for any threads, objects, descriptors,     *)
(* names and queues, whatever system calls fail.                           *)
(***************************************************************************)
EXTENDS Sockets, FiniteSetTheorems, SequenceTheorems, TLAPS

Ops == Constructors \cup Methods

Servers == {"ServerAny", "ServerAt"}

SystemCalls == {"socket", "resolve", "fill", "bind", "listen", "connect", "accept"}

-----------------------------------------------------------------------------
(* The lists of system calls.                                              *)

LEMMA ProgramType ==
  ASSUME NEW op \in Ops
  PROVE  /\ Program(op) \in Seq(SystemCalls) /\ Program(op) # <<>>
         /\ Len(Program(op)) \in Nat \ {0}
<1>1. CASE op = "TCPSocket"
  BY <1>1 DEF Program, SystemCalls
<1>2. CASE op = "TCPSocketTo"
  BY <1>2 DEF Program, SystemCalls
<1>3. CASE op = "ServerAny"
  BY <1>3 DEF Program, SystemCalls
<1>4. CASE op = "ServerAt"
  BY <1>4 DEF Program, SystemCalls
<1>5. CASE op = "connect"
  BY <1>5 DEF Program, SystemCalls
<1>6. CASE op = "setLocalPort"
  BY <1>6 DEF Program, SystemCalls
<1>7. CASE op = "setLocalAddressAndPort"
  BY <1>7 DEF Program, SystemCalls
<1>8. CASE op = "accept"
  BY <1>8 DEF Program, SystemCalls
<1>. QED
  BY <1>1, <1>2, <1>3, <1>4, <1>5, <1>6, <1>7, <1>8 DEF Ops, Constructors, Methods

\* A list of what is left is a place in the program.
LEMMA SuffixIsPlace ==
  ASSUME NEW op \in Ops, NEW s \in Suffixes(Program(op))
  PROVE  \E m \in 1..Len(Program(op)) :
           /\ s = SubSeq(Program(op), m, Len(Program(op)))
           /\ s \in Seq(SystemCalls) /\ s # <<>> /\ Len(s) = Len(Program(op)) - m + 1
           /\ Head(s) = Program(op)[m]
           /\ Len(s) # 1 => /\ m + 1 \in 1..Len(Program(op))
                            /\ Tail(s) \in Suffixes(Program(op)) /\ Tail(s) # <<>>
                            /\ Head(Tail(s)) = Program(op)[m + 1]
<1>. DEFINE P == Program(op)
            n == Len(P)
<1>1. P \in Seq(SystemCalls) /\ n \in Nat \ {0}
  BY ProgramType
<1>2. PICK m \in 1..n : s = SubSeq(P, m, n)
  BY DEF Suffixes
<1>. HIDE DEF P
<1>3. ASSUME NEW k \in 1..n
      PROVE  /\ SubSeq(P, k, n) \in Seq(SystemCalls) /\ Len(SubSeq(P, k, n)) = n - k + 1
             /\ Head(SubSeq(P, k, n)) = P[k] /\ SubSeq(P, k, n) # <<>>
             /\ Tail(SubSeq(P, k, n)) = SubSeq(P, k + 1, n)
  <2>1. k \in Int /\ n \in Int /\ k <= n /\ n \in k..n
    BY <1>1
  <2>2. \A i \in k..n : P[i] \in SystemCalls
    BY <1>1, <2>1
  <2>3. SubSeq(P, k, n) \in Seq(SystemCalls) /\ Len(SubSeq(P, k, n)) = n - k + 1
    BY <2>1, <2>2, SubSeqProperties
  <2>4. Head(SubSeq(P, k, n)) = P[k] /\ Tail(SubSeq(P, k, n)) = SubSeq(P, k + 1, n)
    BY <1>1, <2>1, HeadTailOfSubSeq
  <2>5. n - k + 1 # 0
    BY <2>1
  <2>. QED
    BY <2>3, <2>4, <2>5
<1>4. ASSUME Len(s) # 1
      PROVE  /\ m + 1 \in 1..n /\ Tail(s) \in Suffixes(P) /\ Tail(s) # <<>>
             /\ Head(Tail(s)) = P[m + 1]
  <2>1. m + 1 \in 1..n
    BY <1>1, <1>2, <1>3, <1>4
  <2>. QED
    BY <1>2, <1>3, <2>1 DEF Suffixes
<1>. QED
  BY <1>2, <1>3, <1>4 DEF P

\* The places of each program, one after the other.
LEMMA Places ==
  ASSUME NEW op \in Ops, NEW m \in 1..Len(Program(op))
  PROVE  LET P == Program(op)
             last == m = Len(P)
         IN  /\ P[m] \in SystemCalls
             /\ P[m] = "socket" <=> op \in Constructors /\ m = 1
             /\ P[m] = "resolve" => ~last /\ P[m + 1] = "fill"
             /\ P[m] = "fill" => ~last /\ P[m + 1] \in {"connect", "bind"}
             /\ P[m] \in {"resolve", "fill"} => Resolves(op)
             /\ P[m] = "socket" /\ ~last => P[m + 1] = "resolve" \/ (P[m + 1] = "bind" /\ ~Resolves(op))
             /\ P[m] = "bind" /\ ~last => P[m + 1] = "listen"
             /\ P[m] \in {"connect", "listen", "accept"} => last
             /\ P[m] = "listen" => op \in Servers
             /\ P[m] = "accept" => op \notin Constructors
             /\ last /\ op \in Servers => P[m] = "listen"
             /\ last /\ op = "TCPSocketTo" => P[m] = "connect"
             /\ op \in Methods /\ m = 1 => P[m] = "resolve" \/ (P[m] \in {"bind", "accept"} /\ ~Resolves(op))
<1>1. CASE op = "TCPSocket"
  BY <1>1 DEF Program, Resolves, Constructors, Methods, Servers, SystemCalls
<1>2. CASE op = "TCPSocketTo"
  BY <1>2 DEF Program, Resolves, Constructors, Methods, Servers, SystemCalls
<1>3. CASE op = "ServerAny"
  BY <1>3 DEF Program, Resolves, Constructors, Methods, Servers, SystemCalls
<1>4. CASE op = "ServerAt"
  BY <1>4 DEF Program, Resolves, Constructors, Methods, Servers, SystemCalls
<1>5. CASE op = "connect"
  BY <1>5 DEF Program, Resolves, Constructors, Methods, Servers, SystemCalls
<1>6. CASE op = "setLocalPort"
  BY <1>6 DEF Program, Resolves, Constructors, Methods, Servers, SystemCalls
<1>7. CASE op = "setLocalAddressAndPort"
  BY <1>7 DEF Program, Resolves, Constructors, Methods, Servers, SystemCalls
<1>8. CASE op = "accept"
  BY <1>8 DEF Program, Resolves, Constructors, Methods, Servers, SystemCalls
<1>. QED
  BY <1>1, <1>2, <1>3, <1>4, <1>5, <1>6, <1>7, <1>8 DEF Ops, Constructors, Methods

\* The same of a list of what is left.
LEMMA TodoFacts ==
  ASSUME NEW op \in Ops, NEW s \in Suffixes(Program(op))
  PROVE  /\ s \in Seq(SystemCalls) /\ s # <<>> /\ Len(s) \in Nat /\ Head(s) \in SystemCalls
         /\ Len(s) # 1 => /\ Tail(s) \in Suffixes(Program(op)) /\ Tail(s) # <<>>
                          /\ Tail(s) \in Seq(SystemCalls)
                          /\ Head(Tail(s)) # "socket"
         /\ Head(s) = "socket" => op \in Constructors
         /\ Head(s) = "resolve" => Len(s) # 1 /\ Head(Tail(s)) = "fill"
         /\ Head(s) = "fill" => Len(s) # 1 /\ Head(Tail(s)) \in {"connect", "bind"}
         /\ Head(s) \in {"resolve", "fill"} => Resolves(op)
         /\ Head(s) = "socket" /\ Len(s) # 1 =>
              Head(Tail(s)) = "resolve" \/ (Head(Tail(s)) = "bind" /\ ~Resolves(op))
         /\ Head(s) = "bind" /\ Len(s) # 1 => Head(Tail(s)) = "listen"
         /\ Head(s) \in {"connect", "listen", "accept"} => Len(s) = 1
         /\ Head(s) = "listen" => op \in Servers
         /\ Head(s) = "accept" => op \notin Constructors
         /\ Len(s) = 1 /\ op \in Servers => Head(s) = "listen"
         /\ Len(s) = 1 /\ op = "TCPSocketTo" => Head(s) = "connect"
<1>. DEFINE P == Program(op)
<1>1. PICK m \in 1..Len(P) :
        /\ s \in Seq(SystemCalls) /\ s # <<>> /\ Len(s) = Len(P) - m + 1
        /\ Head(s) = P[m]
        /\ Len(s) # 1 => /\ m + 1 \in 1..Len(P)
                         /\ Tail(s) \in Suffixes(P) /\ Tail(s) # <<>>
                         /\ Head(Tail(s)) = P[m + 1]
  BY SuffixIsPlace
<1>2. Len(P) \in Nat \ {0}
  BY ProgramType
<1>3. Len(s) = 1 <=> m = Len(P)
  BY <1>1, <1>2
<1>4. Len(s) \in Nat
  BY <1>1
<1>5. ASSUME Len(s) # 1
      PROVE  Tail(s) \in Seq(SystemCalls) /\ Head(Tail(s)) # "socket"
  <2>1. Tail(s) \in Seq(SystemCalls)
    BY <1>1, <1>5, SuffixIsPlace
  <2>2. m + 1 \in 1..Len(P) /\ m + 1 # 1
    BY <1>1, <1>5
  <2>3. P[m + 1] # "socket"
    BY <2>2, Places
  <2>. QED
    BY <1>1, <1>5, <2>1, <2>3
<1>6. /\ P[m] \in SystemCalls
      /\ P[m] = "socket" => op \in Constructors
      /\ P[m] = "resolve" => m # Len(P) /\ P[m + 1] = "fill"
      /\ P[m] = "fill" => m # Len(P) /\ P[m + 1] \in {"connect", "bind"}
      /\ P[m] \in {"resolve", "fill"} => Resolves(op)
      /\ P[m] = "socket" /\ m # Len(P) => P[m + 1] = "resolve" \/ (P[m + 1] = "bind" /\ ~Resolves(op))
      /\ P[m] = "bind" /\ m # Len(P) => P[m + 1] = "listen"
      /\ P[m] \in {"connect", "listen", "accept"} => m = Len(P)
      /\ P[m] = "listen" => op \in Servers
      /\ P[m] = "accept" => op \notin Constructors
      /\ m = Len(P) /\ op \in Servers => P[m] = "listen"
      /\ m = Len(P) /\ op = "TCPSocketTo" => P[m] = "connect"
  BY Places
<1>. HIDE DEF P
<1>. QED
  BY <1>1, <1>3, <1>4, <1>5, <1>6 DEF P

LEMMA ProgramFacts ==
  ASSUME NEW op \in Ops
  PROVE  /\ Program(op) \in Suffixes(Program(op))
         /\ op \in Constructors => Head(Program(op)) = "socket"
         /\ op \in Methods => /\ op \notin Constructors
                              /\ \/ Head(Program(op)) = "resolve"
                                 \/ Head(Program(op)) \in {"bind", "accept"} /\ ~Resolves(op)
<1>1. Program(op) \in Seq(SystemCalls) /\ Len(Program(op)) \in Nat \ {0}
  BY ProgramType
<1>2. SubSeq(Program(op), 1, Len(Program(op))) = Program(op) /\ 1 \in 1..Len(Program(op))
  BY <1>1, SubSeqFull
<1>3. Head(Program(op)) = Program(op)[1]
  BY <1>1
<1>4. op \in Methods => op \notin Constructors
  BY DEF Methods, Constructors
<1>. QED
  BY <1>2, <1>3, <1>4, Places DEF Suffixes

-----------------------------------------------------------------------------
(* The invariant.                                                          *)

\* What TypeOK says of the call of a thread.
Typed(t) == ~Idle(t) =>
  /\ call[t].op \in Ops
  /\ call[t].todo \in Suffixes(Program(call[t].op))
  /\ call[t].obj \in Objects /\ Exists(call[t].obj)
  /\ call[t].name \in Arguments(call[t].op)
  /\ At(t, "connect") \/ At(t, "bind") => call[t].host \in Hosts

\* A constructor is alone with its object; it is the one whose descriptor is
\* not there until socket() has returned; a call that is about to copy from the
\* static struct finds its name there, unless it was overtaken.
CallOf(t) == ~Idle(t) =>
  /\ call[t].op \in Constructors =>
       /\ objs[call[t].obj].made = call[t].op
       /\ \A u \in Threads : ~Idle(u) /\ call[u].obj = call[t].obj => u = t
  /\ At(t, "socket") <=> objs[call[t].obj].sockDesc = Nothing
  /\ At(t, "fill") => hostent \in Names /\ (hostent = call[t].name <=> ~call[t].overtaken)
  /\ (At(t, "connect") \/ At(t, "bind")) /\ Resolves(call[t].op) =>
       (call[t].host = call[t].name <=> ~call[t].overtaken)
  /\ ~Resolves(call[t].op) => call[t].host = "any"

Unmade(o) == Exists(o) /\ objs[o].sockDesc = Nothing =>
  \E t \in Threads : At(t, "socket") /\ call[t].obj = o

Owned ==
  /\ \A o \in Objects : Exists(o) /\ objs[o].sockDesc # Nothing => kernel[objs[o].sockDesc] # Nothing
  /\ \A o, p \in Objects :
       Exists(o) /\ Exists(p) /\ objs[o].sockDesc = objs[p].sockDesc /\ objs[o].sockDesc # Nothing => o = p
  /\ \A fd \in Fds : kernel[fd] # Nothing => \E o \in Objects : Exists(o) /\ objs[o].sockDesc = fd

IInv ==
  /\ TypeOK
  /\ \A t \in Threads : Typed(t) /\ CallOf(t)
  /\ \A o \in Objects : Unmade(o)
  /\ Owned
  /\ ReadyWhenBuilt

\* The types, in the form the steps need them.
BaseTypes ==
  /\ objs \in [Objects -> ObjectRecords \cup {Nothing}]
  /\ kernel \in [Fds -> KernelRecords \cup {Nothing}]
  /\ hostent \in Names \cup {Nothing}
  /\ call \in [Threads -> Calls]

LEMMA TypesSplit == TypeOK <=> BaseTypes /\ \A t \in Threads : Typed(t)
<1>1. ASSUME BaseTypes, NEW t \in Threads
      PROVE  Typed(t) <=> (~Idle(t) =>
               /\ call[t].op \in Constructors \cup Methods
               /\ call[t].todo \in Suffixes(Program(call[t].op))
               /\ call[t].obj \in Objects /\ Exists(call[t].obj)
               /\ call[t].name \in Arguments(call[t].op)
               /\ call[t].host \in IF At(t, "connect") \/ At(t, "bind") THEN Hosts ELSE Hosts \cup {Nothing})
  <2>1. call[t].host \in Hosts \cup {Nothing}
    BY <1>1 DEF BaseTypes, Calls
  <2>. QED
    BY <2>1 DEF Typed, Ops
<1>2. TypeOK => BaseTypes
  BY DEF TypeOK, BaseTypes
<1>3. TypeOK => \A t \in Threads : Typed(t)
  BY <1>1, <1>2 DEF TypeOK
<1>4. BaseTypes /\ (\A t \in Threads : Typed(t)) => TypeOK
  BY <1>1 DEF TypeOK, BaseTypes
<1>. QED
  BY <1>2, <1>3, <1>4

LEMMA TypesNext == BaseTypes' /\ (\A t \in Threads : Typed(t)') => TypeOK'
<1>1. (TypeOK <=> BaseTypes /\ \A t \in Threads : Typed(t))'
  BY TypesSplit, PTL
<1>. QED
  BY <1>1

LEMMA Bases ==
  ASSUME IInv
  PROVE  /\ objs \in [Objects -> ObjectRecords \cup {Nothing}]
         /\ kernel \in [Fds -> KernelRecords \cup {Nothing}]
         /\ hostent \in Names \cup {Nothing}
         /\ call \in [Threads -> Calls]
         /\ \A o \in Objects : Exists(o) =>
              /\ objs[o] \in ObjectRecords
              /\ objs[o].sockDesc \in Fds \cup {Nothing}
              /\ objs[o].made \in Constructors \cup {"accepted"}
         /\ \A fd \in Fds : kernel[fd] # Nothing => kernel[fd] \in KernelRecords
BY TypesSplit DEF IInv, BaseTypes, Exists, ObjectRecords

LEMMA IdleCallType == IdleCall \in Calls /\ IdleCall.todo = <<>>
BY DEF IdleCall, Calls

\* What is known of a thread that is in a call.
LEMMA InCall ==
  ASSUME IInv, NEW t \in Threads, ~Idle(t)
  PROVE  /\ call[t] \in Calls /\ call[t].op \in Ops /\ call[t].todo \in Suffixes(Program(call[t].op))
         /\ call[t].obj \in Objects /\ Exists(call[t].obj)
         /\ objs[call[t].obj] \in ObjectRecords
         /\ CallOf(t)
BY Bases DEF IInv, Typed

\* The call goes on, or returns.
LEMMA ProceedFacts ==
  ASSUME IInv, NEW t \in Threads, ~Idle(t), Proceed(t)
  PROVE  /\ call' \in [Threads -> Calls]
         /\ \A u \in Threads \ {t} : call'[u] = call[u]
         /\ Len(call[t].todo) = 1 => Idle(t)'
         /\ Len(call[t].todo) # 1 =>
              /\ ~Idle(t)' /\ call'[t].todo = Tail(call[t].todo)
              /\ call'[t].op = call[t].op /\ call'[t].obj = call[t].obj
              /\ call'[t].name = call[t].name /\ call'[t].host = call[t].host
              /\ call'[t].overtaken = call[t].overtaken
<1>1. /\ call[t] \in Calls /\ call[t].op \in Ops /\ call[t].todo \in Suffixes(Program(call[t].op))
      /\ call \in [Threads -> Calls]
  BY InCall, Bases
<1>2. CASE Len(call[t].todo) = 1
  <2>1. call' = [call EXCEPT ![t] = IdleCall]
    BY <1>2 DEF Proceed
  <2>. QED
    BY <1>1, <1>2, <2>1, IdleCallType DEF Idle
<1>3. CASE Len(call[t].todo) # 1
  <2>1. PICK rest : rest = Tail(call[t].todo)
    OBVIOUS
  <2>2. rest \in Seq(SystemCalls) /\ rest # <<>>
    BY <1>1, <1>3, <2>1, TodoFacts
  <2>3. PICK c : c = [call[t] EXCEPT !.todo = rest]
    OBVIOUS
  <2>4. /\ c \in Calls /\ c.todo = rest /\ c.op = call[t].op /\ c.obj = call[t].obj
        /\ c.name = call[t].name /\ c.host = call[t].host /\ c.overtaken = call[t].overtaken
    BY <1>1, <2>2, <2>3 DEF Calls, SystemCalls
  <2>5. call' = [call EXCEPT ![t] = c]
    <3>1. call' = [call EXCEPT ![t] = IF Len(call[t].todo) = 1 THEN IdleCall
                                      ELSE [call[t] EXCEPT !.todo = Tail(call[t].todo)]]
      BY DEF Proceed
    <3>. QED
      BY <1>3, <2>1, <2>3, <3>1
  <2>. QED
    BY <1>1, <1>3, <2>1, <2>2, <2>4, <2>5 DEF Idle
<1>. QED
  BY <1>2, <1>3

\* The calls of other threads, when their objects and the struct stay as they
\* are and nobody comes to a constructor's object.
LEMMA Others ==
  ASSUME IInv, NEW t \in Threads, NEW u \in Threads \ {t},
         \A v \in Threads \ {t} : call'[v] = call[v],
         hostent' = hostent,
         ~Idle(u) => objs'[call[u].obj] = objs[call[u].obj],
         ~Idle(u) /\ ~Idle(t)' /\ call[u].op \in Constructors => call'[t].obj # call[u].obj
  PROVE  Typed(u)' /\ CallOf(u)'
<1>. SUFFICES ASSUME ~Idle(u)
              PROVE  Typed(u)' /\ CallOf(u)'
  BY DEF Typed, CallOf, Idle
<1>1. call'[u] = call[u] /\ objs'[call[u].obj] = objs[call[u].obj] /\ hostent' = hostent
  OBVIOUS
<1>2. Typed(u) /\ CallOf(u) /\ ~Idle(u)'
  BY <1>1 DEF IInv, Idle
<1>3. Typed(u)'
  BY <1>1, <1>2 DEF Typed, Idle, At, Exists
<1>4. ASSUME call[u].op \in Constructors, NEW v \in Threads, ~Idle(v)', call'[v].obj = call[u].obj
      PROVE  v = u
  <2>1. CASE v = t
    BY <1>4, <2>1
  <2>2. CASE v # t
    <3>1. ~Idle(v) /\ call[v].obj = call[u].obj
      BY <1>4, <2>2 DEF Idle
    <3>. QED
      BY <1>2, <1>4, <3>1 DEF CallOf
  <2>. QED
    BY <2>1, <2>2
<1>5. CallOf(u)'
  BY <1>1, <1>2, <1>4 DEF CallOf, Idle, At
<1>. QED
  BY <1>3, <1>5

\* A step that keeps the objects and what is open.
LEMMA OwnedKept ==
  ASSUME IInv, objs' = objs,
         \A fd \in Fds : kernel'[fd] = Nothing <=> kernel[fd] = Nothing
  PROVE  Owned'
<1>1. \A o \in Objects : Exists(o) /\ objs[o].sockDesc # Nothing => objs[o].sockDesc \in Fds
  BY Bases
<1>. QED
  BY <1>1 DEF IInv, Owned, Exists

\* An object that is built after a step of t that keeps it was built before, or
\* t was constructing it.
LEMMA BuiltBefore ==
  ASSUME IInv, NEW t \in Threads, NEW o \in Objects, objs'[o] = objs[o], Built(o)',
         \A v \in Threads \ {t} : /\ Idle(v)' <=> Idle(v)
                                  /\ call'[v].op = call[v].op /\ call'[v].obj = call[v].obj
  PROVE  \/ Built(o)
         \/ ~Idle(t) /\ call[t].obj = o /\ call[t].op \in Constructors /\ objs[o].made = call[t].op
<1>1. Exists(o)
  BY DEF Built, Exists
<1>2. ASSUME NEW v \in Threads \ {t}, ~Idle(v), call[v].obj = o PROVE call[v].op \notin Constructors
  BY <1>2 DEF Built
<1>3. ~Idle(t) /\ call[t].op \in Constructors => objs[call[t].obj].made = call[t].op
  BY DEF IInv, CallOf
<1>. QED
  BY <1>1, <1>2, <1>3 DEF Built

\* A step that keeps the objects, what is open and the struct, in a call that
\* has its descriptor.
LEMMA SameObjects ==
  ASSUME IInv, NEW t \in Threads, BaseTypes', objs' = objs, hostent' = hostent,
         \A v \in Threads \ {t} : call'[v] = call[v],
         \A fd \in Fds : kernel'[fd] = Nothing <=> kernel[fd] = Nothing,
         ~At(t, "socket"), Typed(t)', CallOf(t)', ReadyWhenBuilt',
         Idle(t)' \/ (~Idle(t) /\ call'[t].obj = call[t].obj) \/ Built(call'[t].obj)
  PROVE  IInv'
<1>1. ASSUME NEW u \in Threads \ {t} PROVE Typed(u)' /\ CallOf(u)'
  <2>1. ASSUME ~Idle(u), ~Idle(t)', call[u].op \in Constructors, call'[t].obj = call[u].obj
        PROVE  FALSE
    <3>1. CASE ~Idle(t) /\ call'[t].obj = call[t].obj
      BY <2>1, <3>1 DEF IInv, CallOf
    <3>2. CASE Built(call'[t].obj)
      BY <2>1, <3>2 DEF Built
    <3>. QED
      BY <2>1, <3>1, <3>2
  <2>. QED
    BY <2>1, Others
<1>2. \A u \in Threads : Typed(u)' /\ CallOf(u)'
  BY <1>1
<1>3. TypeOK'
  BY <1>2, TypesNext
<1>4. ASSUME NEW o \in Objects PROVE Unmade(o)'
  <2>1. ASSUME Exists(o), objs[o].sockDesc = Nothing
        PROVE  \E u \in Threads : At(u, "socket")' /\ call'[u].obj = o
    <3>1. PICK u \in Threads : At(u, "socket") /\ call[u].obj = o
      BY <2>1 DEF IInv, Unmade
    <3>2. u # t
      BY <3>1
    <3>. QED
      BY <3>1, <3>2 DEF At, Idle
  <2>. QED
    BY <2>1 DEF Unmade, Exists
<1>5. Owned'
  BY OwnedKept
<1>. QED
  BY <1>2, <1>3, <1>4, <1>5 DEF IInv

-----------------------------------------------------------------------------
(* The steps.                                                              *)

LEMMA InitSound == Init => IInv
<1>. SUFFICES ASSUME Init PROVE IInv
  OBVIOUS
<1>1. /\ objs = [o \in Objects |-> Nothing] /\ kernel = [fd \in Fds |-> Nothing]
      /\ hostent = Nothing /\ call = [t \in Threads |-> IdleCall]
  BY DEF Init
<1>2. BaseTypes /\ \A t \in Threads : Idle(t)
  BY <1>1, IdleCallType DEF BaseTypes, Idle
<1>3. \A t \in Threads : Typed(t) /\ CallOf(t)
  BY <1>2 DEF Typed, CallOf
<1>4. \A o \in Objects : ~Exists(o)
  BY <1>1 DEF Exists
<1>5. Owned /\ ReadyWhenBuilt /\ \A o \in Objects : Unmade(o)
  BY <1>1, <1>4 DEF Owned, ReadyWhenBuilt, Unmade, Built
<1>. QED
  BY <1>2, <1>3, <1>5, TypesSplit DEF IInv

\* Where a thread is has one answer.
LEMMA OnePlace ==
  ASSUME NEW t \in Threads, NEW step, At(t, step)
  PROVE  ~Idle(t) /\ Head(call[t].todo) = step /\ \A other : At(t, other) <=> other = step
BY DEF At

\* bind, listen and connect.
LEMMA ProceedSound ==
  ASSUME IInv, NEW t \in Threads, At(t, "bind") \/ At(t, "listen") \/ At(t, "connect"),
         Proceed(t), UNCHANGED <<objs, hostent>>,
         kernel' \in [Fds -> KernelRecords \cup {Nothing}],
         \A fd \in Fds : kernel'[fd] = Nothing <=> kernel[fd] = Nothing,
         ReadyWhenBuilt'
  PROVE  IInv'
<1>1. ~Idle(t) /\ Head(call[t].todo) \in {"bind", "listen", "connect"} /\ ~At(t, "socket")
  BY DEF At
<1>2. /\ call' \in [Threads -> Calls]
      /\ \A u \in Threads \ {t} : call'[u] = call[u]
      /\ Len(call[t].todo) = 1 => Idle(t)'
      /\ Len(call[t].todo) # 1 =>
           /\ ~Idle(t)' /\ call'[t].todo = Tail(call[t].todo)
           /\ call'[t].op = call[t].op /\ call'[t].obj = call[t].obj
           /\ call'[t].name = call[t].name /\ call'[t].host = call[t].host
           /\ call'[t].overtaken = call[t].overtaken
  BY <1>1, ProceedFacts
<1>3. BaseTypes'
  BY <1>2, Bases DEF BaseTypes
<1>4. CASE Len(call[t].todo) = 1
  <2>1. Typed(t)' /\ CallOf(t)'
    BY <1>2, <1>4 DEF Typed, CallOf
  <2>. QED
    BY <1>1, <1>2, <1>3, <1>4, <2>1, SameObjects
<1>5. CASE Len(call[t].todo) # 1
  <2>1. /\ call[t].op \in Ops /\ call[t].todo \in Suffixes(Program(call[t].op))
        /\ Typed(t) /\ CallOf(t)
    BY <1>1, InCall DEF IInv
  <2>2. /\ call'[t].todo \in Suffixes(Program(call[t].op)) /\ Head(call'[t].todo) = "listen"
    BY <1>1, <1>2, <1>5, <2>1, TodoFacts
  <2>3. Typed(t)'
    BY <1>1, <1>2, <1>5, <2>1, <2>2 DEF Typed, At, Exists
  <2>4. /\ ~At(t, "socket")' /\ ~At(t, "fill")' /\ ~At(t, "connect")' /\ ~At(t, "bind")'
    BY <2>2 DEF At
  <2>5. CallOf(t)'
    <3>1. ASSUME call[t].op \in Constructors, NEW u \in Threads, ~Idle(u)', call'[u].obj = call[t].obj
          PROVE  u = t
      BY <1>1, <1>2, <2>1, <3>1 DEF CallOf, Idle
    <3>2. objs[call[t].obj].sockDesc # Nothing
      BY <1>1, <2>1 DEF CallOf
    <3>3. call[t].op \in Constructors => objs[call[t].obj].made = call[t].op
      BY <1>1, <2>1 DEF CallOf
    <3>4. ~Resolves(call[t].op) => call[t].host = "any"
      BY <1>1, <2>1 DEF CallOf
    <3>. QED
      BY <1>2, <1>5, <2>4, <3>1, <3>2, <3>3, <3>4 DEF CallOf
  <2>. QED
    BY <1>1, <1>2, <1>3, <1>5, <2>3, <2>5, SameObjects
<1>. QED
  BY <1>4, <1>5

\* The descriptor of a call that has one.
LEMMA OwnFd ==
  ASSUME IInv, NEW t \in Threads, ~Idle(t), ~At(t, "socket")
  PROVE  /\ Fd(t) \in Fds /\ kernel[Fd(t)] # Nothing /\ kernel[Fd(t)] \in KernelRecords
         /\ objs[call[t].obj].sockDesc = Fd(t) /\ Fd(t) # Nothing
         /\ \A o \in Objects : Exists(o) /\ objs[o].sockDesc = Fd(t) => o = call[t].obj
<1>1. /\ call[t].obj \in Objects /\ Exists(call[t].obj) /\ objs[call[t].obj].sockDesc # Nothing
  BY InCall DEF CallOf
<1>2. Fd(t) = objs[call[t].obj].sockDesc
  BY DEF Fd
<1>3. Fd(t) \in Fds
  BY <1>1, <1>2, Bases
<1>4. kernel[Fd(t)] # Nothing
  BY <1>1, <1>2 DEF IInv, Owned
<1>5. \A o \in Objects : Exists(o) /\ objs[o].sockDesc = Fd(t) => o = call[t].obj
  BY <1>1, <1>2 DEF IInv, Owned
<1>. QED
  BY <1>1, <1>2, <1>3, <1>4, <1>5, Bases

\* So has every object that is built.
LEMMA BuiltFd ==
  ASSUME IInv, NEW o \in Objects, Built(o)
  PROVE  objs[o].sockDesc \in Fds /\ kernel[objs[o].sockDesc] \in KernelRecords
         /\ kernel[objs[o].sockDesc] # Nothing
<1>1. Exists(o)
  BY DEF Built
<1>2. ASSUME objs[o].sockDesc = Nothing PROVE FALSE
  <2>1. PICK u \in Threads : At(u, "socket") /\ call[u].obj = o
    BY <1>1, <1>2 DEF IInv, Unmade
  <2>2. ~Idle(u) /\ Head(call[u].todo) = "socket" /\ call[u].op \in Ops
        /\ call[u].todo \in Suffixes(Program(call[u].op))
    BY <2>1, InCall DEF At
  <2>3. call[u].op \in Constructors
    BY <2>2, TodoFacts
  <2>. QED
    BY <2>1, <2>2, <2>3 DEF Built
<1>3. objs[o].sockDesc \in Fds /\ kernel[objs[o].sockDesc] # Nothing
  BY <1>1, <1>2, Bases DEF IInv, Owned
<1>. QED
  BY <1>3, Bases

\* What a step of t does to the state of its own socket only.
LEMMA ReadyKept ==
  ASSUME IInv, NEW t \in Threads, ~Idle(t), ~At(t, "socket"), objs' = objs,
         \A v \in Threads \ {t} : /\ Idle(v)' <=> Idle(v)
                                  /\ call'[v].op = call[v].op /\ call'[v].obj = call[v].obj,
         \A fd \in Fds \ {Fd(t)} : kernel[fd] # Nothing => kernel'[fd].state = kernel[fd].state,
         Built(call[t].obj) => kernel[Fd(t)].state \in {kernel'[Fd(t)].state, "new"},
         \A o \in Objects : o = call[t].obj /\ Built(o)' /\ call[t].op \in Constructors =>
           /\ call[t].op \in Servers => kernel'[Fd(t)].state = "listening"
           /\ call[t].op = "TCPSocketTo" => kernel'[Fd(t)].state = "connected"
  PROVE  ReadyWhenBuilt'
<1>. SUFFICES ASSUME NEW o \in Objects, Built(o)'
              PROVE  /\ objs[o].made \in Servers => kernel'[objs[o].sockDesc].state = "listening"
                     /\ objs[o].made \in {"TCPSocketTo", "accepted"} =>
                          kernel'[objs[o].sockDesc].state = "connected"
  BY DEF ReadyWhenBuilt, Servers
<1>1. Exists(o)
  BY DEF Built, Exists
<1>2. CASE Built(o)
  <2>1. /\ objs[o].made \in Servers => kernel[objs[o].sockDesc].state = "listening"
        /\ objs[o].made \in {"TCPSocketTo", "accepted"} => kernel[objs[o].sockDesc].state = "connected"
    BY <1>2 DEF IInv, ReadyWhenBuilt, Servers
  <2>2. CASE o = call[t].obj
    <3>1. objs[o].sockDesc = Fd(t) /\ kernel[Fd(t)].state \in {kernel'[Fd(t)].state, "new"}
      BY <1>2, <2>2, OwnFd
    <3>2. PICK before : before = kernel[objs[o].sockDesc].state
      OBVIOUS
    <3>3. PICK after : after = kernel'[objs[o].sockDesc].state
      OBVIOUS
    <3>4. before = after \/ before = "new"
      BY <3>1, <3>2, <3>3
    <3>5. objs[o].made \in Servers => after = "listening"
      BY <2>1, <3>2, <3>4
    <3>6. objs[o].made \in {"TCPSocketTo", "accepted"} => after = "connected"
      BY <2>1, <3>2, <3>4
    <3>. QED
      BY <3>3, <3>5, <3>6
  <2>3. CASE o # call[t].obj
    <3>2. objs[o].sockDesc \in Fds /\ objs[o].sockDesc # Fd(t) /\ kernel[objs[o].sockDesc] # Nothing
      BY <1>1, <1>2, <2>3, BuiltFd, OwnFd
    <3>3. kernel'[objs[o].sockDesc].state = kernel[objs[o].sockDesc].state
      BY <3>2
    <3>. QED
      BY <2>1, <3>3
  <2>. QED
    BY <2>2, <2>3
<1>3. CASE ~Built(o)
  <2>1. call[t].obj = o /\ call[t].op \in Constructors /\ objs[o].made = call[t].op
    BY <1>3, BuiltBefore
  <2>2. objs[o].sockDesc = Fd(t)
    BY <2>1, OwnFd
  <2>3. objs[o].made # "accepted"
    BY <2>1 DEF Constructors
  <2>. QED
    BY <2>1, <2>2, <2>3
<1>. QED
  BY <1>2, <1>3

\* A call that is about to bind, listen or connect and returns has made what its
\* constructor is for, if listen leaves the socket listening and connect connected.
LEMMA ReadyReturned ==
  ASSUME IInv, NEW t \in Threads, Proceed(t), objs' = objs,
         At(t, "bind") \/ At(t, "listen") \/ At(t, "connect"),
         At(t, "listen") => kernel'[Fd(t)].state = "listening",
         At(t, "connect") => kernel'[Fd(t)].state = "connected",
         NEW o \in Objects, o = call[t].obj, Built(o)', call[t].op \in Constructors
  PROVE  /\ call[t].op \in Servers => kernel'[Fd(t)].state = "listening"
         /\ call[t].op = "TCPSocketTo" => kernel'[Fd(t)].state = "connected"
<1>1. ~Idle(t) /\ call[t].op \in Ops /\ call[t].todo \in Suffixes(Program(call[t].op))
  BY InCall DEF At
<1>2. Len(call[t].todo) = 1
  <2>1. ASSUME Len(call[t].todo) # 1 PROVE FALSE
    <3>1. ~Idle(t)' /\ call'[t].op = call[t].op /\ call'[t].obj = o
      BY <1>1, <2>1, ProceedFacts
    <3>. QED
      BY <3>1 DEF Built
  <2>. QED
    BY <2>1
<1>3. call[t].op \in Servers => At(t, "listen")
  BY <1>1, <1>2, TodoFacts DEF At
<1>4. call[t].op = "TCPSocketTo" => At(t, "connect")
  BY <1>1, <1>2, TodoFacts DEF At
<1>. QED
  BY <1>3, <1>4

LEMMA OthersSame ==
  ASSUME IInv, NEW t \in Threads, ~Idle(t), Proceed(t)
  PROVE  \A v \in Threads \ {t} : /\ Idle(v)' <=> Idle(v)
                                  /\ call'[v].op = call[v].op /\ call'[v].obj = call[v].obj
BY ProceedFacts DEF Idle

LEMMA KernelRecord ==
  ASSUME NEW c \in KernelRecords
  PROVE  /\ \A s \in {"new", "listening", "connected"} :
              [c EXCEPT !.state = s] \in KernelRecords /\ [c EXCEPT !.state = s].state = s
         /\ \A h \in Hosts \cup {Nothing} :
              [c EXCEPT !.local = h] \in KernelRecords /\ [c EXCEPT !.local = h].state = c.state
         /\ \A q \in 0..QueueLen :
              [c EXCEPT !.queue = q] \in KernelRecords /\ [c EXCEPT !.queue = q].state = c.state
         /\ c.queue \in 0..QueueLen /\ c.local \in Hosts \cup {Nothing}
BY DEF KernelRecords

LEMMA BindSound == ASSUME IInv, NEW t \in Threads, Bind(t) PROVE IInv'
<1>1. /\ At(t, "bind") /\ kernel[Fd(t)].state = "new"
      /\ kernel' = [kernel EXCEPT ![Fd(t)].local = call[t].host]
      /\ Proceed(t) /\ UNCHANGED <<objs, hostent>>
  BY DEF Bind
<1>2. ~Idle(t) /\ ~At(t, "socket")
  BY <1>1 DEF At
<1>3. call[t].host \in Hosts
  BY <1>1, <1>2 DEF IInv, Typed
<1>4. Fd(t) \in Fds /\ kernel[Fd(t)] \in KernelRecords
  BY <1>2, OwnFd
<1>5. PICK r \in KernelRecords : r = [kernel[Fd(t)] EXCEPT !.local = call[t].host]
                               /\ r.state = kernel[Fd(t)].state
  <2>1. call[t].host \in Hosts \cup {Nothing}
    BY <1>3
  <2>2. \A h \in Hosts \cup {Nothing} : [kernel[Fd(t)] EXCEPT !.local = h] \in KernelRecords
          /\ [kernel[Fd(t)] EXCEPT !.local = h].state = kernel[Fd(t)].state
    BY <1>4, KernelRecord
  <2>. QED
    BY <2>1, <2>2
<1>6. PICK f : f = Fd(t)
  OBVIOUS
<1>7. kernel' = [kernel EXCEPT ![f] = r]
  BY <1>1, <1>5, <1>6
<1>8. /\ kernel' \in [Fds -> KernelRecords \cup {Nothing}]
      /\ kernel'[f] = r /\ \A fd \in Fds \ {f} : kernel'[fd] = kernel[fd]
  BY <1>4, <1>6, <1>7, Bases
<1>9. \A fd \in Fds : kernel'[fd] = Nothing <=> kernel[fd] = Nothing
  BY <1>2, <1>5, <1>6, <1>8, OwnFd, SocketsAssumption
<1>10. kernel'[Fd(t)].state = kernel[Fd(t)].state
  BY <1>5, <1>6, <1>8
<1>11. \A fd \in Fds \ {Fd(t)} : kernel'[fd].state = kernel[fd].state
  BY <1>6, <1>8
<1>12. ~At(t, "listen") /\ ~At(t, "connect")
  BY <1>1 DEF At
<1>13. ReadyWhenBuilt'
  <2>1. \A o \in Objects : o = call[t].obj /\ Built(o)' /\ call[t].op \in Constructors =>
          /\ call[t].op \in Servers => kernel'[Fd(t)].state = "listening"
          /\ call[t].op = "TCPSocketTo" => kernel'[Fd(t)].state = "connected"
    BY <1>1, <1>12, ReadyReturned
  <2>. QED
    BY <1>1, <1>2, <1>10, <1>11, <2>1, OthersSame, ReadyKept
<1>. QED
  BY <1>1, <1>8, <1>9, <1>13, ProceedSound

LEMMA ListenSound == ASSUME IInv, NEW t \in Threads, Listen(t) PROVE IInv'
<1>1. /\ At(t, "listen") /\ kernel' = [kernel EXCEPT ![Fd(t)].state = "listening"]
      /\ Proceed(t) /\ UNCHANGED <<objs, hostent>>
  BY DEF Listen
<1>2. ~Idle(t) /\ ~At(t, "socket")
  BY <1>1 DEF At
<1>3. Fd(t) \in Fds /\ kernel[Fd(t)] \in KernelRecords
  BY <1>2, OwnFd
<1>4. PICK r \in KernelRecords : r = [kernel[Fd(t)] EXCEPT !.state = "listening"]
                               /\ r.state = "listening"
  BY <1>3, KernelRecord
<1>5. PICK f : f = Fd(t)
  OBVIOUS
<1>6. kernel' = [kernel EXCEPT ![f] = r]
  BY <1>1, <1>4, <1>5
<1>7. /\ kernel' \in [Fds -> KernelRecords \cup {Nothing}]
      /\ kernel'[f] = r /\ \A fd \in Fds \ {f} : kernel'[fd] = kernel[fd]
  BY <1>3, <1>5, <1>6, Bases
<1>8. \A fd \in Fds : kernel'[fd] = Nothing <=> kernel[fd] = Nothing
  BY <1>2, <1>4, <1>5, <1>7, OwnFd, SocketsAssumption
<1>9. kernel'[Fd(t)].state = "listening"
  BY <1>4, <1>5, <1>7
<1>10. \A fd \in Fds \ {Fd(t)} : kernel'[fd].state = kernel[fd].state
  BY <1>5, <1>7
<1>11. ~At(t, "bind") /\ ~At(t, "connect")
  BY <1>1 DEF At
\* Only the constructor of a server listens.
<1>12. ~Built(call[t].obj)
  <2>1. call[t].op \in Servers
    BY <1>1, <1>2, InCall, TodoFacts DEF At
  <2>. QED
    BY <1>2, <2>1 DEF Built, Servers, Constructors
<1>13. ReadyWhenBuilt'
  <2>1. \A o \in Objects : o = call[t].obj /\ Built(o)' /\ call[t].op \in Constructors =>
          /\ call[t].op \in Servers => kernel'[Fd(t)].state = "listening"
          /\ call[t].op = "TCPSocketTo" => kernel'[Fd(t)].state = "connected"
    BY <1>1, <1>9, <1>11, ReadyReturned
  <2>. QED
    BY <1>1, <1>2, <1>10, <1>12, <2>1, OthersSame, ReadyKept
<1>. QED
  BY <1>1, <1>7, <1>8, <1>13, ProceedSound

\* A connection: fd was new and is connected, and no other state changes.
LEMMA ConnectionFacts ==
  ASSUME IInv, NEW f \in Fds, kernel[f] # Nothing, NEW host, NEW k \in Connections(f, host)
  PROVE  /\ k \in [Fds -> KernelRecords \cup {Nothing}]
         /\ \A fd \in Fds : k[fd] = Nothing <=> kernel[fd] = Nothing
         /\ kernel[f].state = "new" /\ k[f].state = "connected"
         /\ \A fd \in Fds \ {f} : kernel[fd] # Nothing => k[fd].state = kernel[fd].state
<1>1. PICK s \in Fds : /\ kernel[s] # Nothing /\ kernel[f].state = "new" /\ kernel[s].state = "listening"
                       /\ kernel[s].queue < QueueLen
                       /\ k = [kernel EXCEPT ![f].state = "connected", ![s].queue = @ + 1]
  BY DEF Connections, FreeFds
<1>2. s # f
  BY <1>1
<1>3. kernel[f] \in KernelRecords /\ kernel[s] \in KernelRecords
      /\ kernel \in [Fds -> KernelRecords \cup {Nothing}]
  BY <1>1, Bases
<1>4. kernel[s].queue + 1 \in 0..QueueLen
  <2>1. kernel[s].queue \in 0..QueueLen
    BY <1>3, KernelRecord
  <2>. QED
    BY <1>1, <2>1, SocketsAssumption
<1>5. PICK a \in KernelRecords : a = [kernel[f] EXCEPT !.state = "connected"] /\ a.state = "connected"
  BY <1>3, KernelRecord
<1>6. PICK b \in KernelRecords : b = [kernel[s] EXCEPT !.queue = kernel[s].queue + 1]
                               /\ b.state = kernel[s].state
  <2>1. \A q \in 0..QueueLen : [kernel[s] EXCEPT !.queue = q] \in KernelRecords
                               /\ [kernel[s] EXCEPT !.queue = q].state = kernel[s].state
    BY <1>3, KernelRecord
  <2>. QED
    BY <1>4, <2>1
<1>7. k = [kernel EXCEPT ![f] = a, ![s] = b]
  BY <1>1, <1>2, <1>3, <1>5, <1>6
<1>8. /\ k \in [Fds -> KernelRecords \cup {Nothing}] /\ k[f] = a /\ k[s] = b
      /\ \A fd \in Fds \ {f, s} : k[fd] = kernel[fd]
  BY <1>1, <1>2, <1>3, <1>7
<1>9. a # Nothing /\ b # Nothing
  BY SocketsAssumption
<1>. QED
  BY <1>1, <1>2, <1>5, <1>6, <1>8, <1>9

LEMMA ConnectSound == ASSUME IInv, NEW t \in Threads, Connect(t) PROVE IInv'
<1>1. /\ At(t, "connect") /\ kernel' \in Connections(Fd(t), call[t].host)
      /\ Proceed(t) /\ UNCHANGED <<objs, hostent>>
  BY DEF Connect
<1>2. ~Idle(t) /\ ~At(t, "socket")
  BY <1>1 DEF At
<1>3. /\ kernel' \in [Fds -> KernelRecords \cup {Nothing}]
      /\ \A fd \in Fds : kernel'[fd] = Nothing <=> kernel[fd] = Nothing
      /\ kernel[Fd(t)].state = "new" /\ kernel'[Fd(t)].state = "connected"
      /\ \A fd \in Fds \ {Fd(t)} : kernel[fd] # Nothing => kernel'[fd].state = kernel[fd].state
  <2>1. PICK f, k, h : f = Fd(t) /\ k = kernel' /\ h = call[t].host
    OBVIOUS
  <2>2. f \in Fds /\ kernel[f] # Nothing /\ k \in Connections(f, h)
    BY <1>1, <1>2, <2>1, OwnFd
  <2>. QED
    BY <2>1, <2>2, ConnectionFacts
<1>4. ~At(t, "bind") /\ ~At(t, "listen")
  BY <1>1 DEF At
<1>5. ReadyWhenBuilt'
  <2>1. \A o \in Objects : o = call[t].obj /\ Built(o)' /\ call[t].op \in Constructors =>
          /\ call[t].op \in Servers => kernel'[Fd(t)].state = "listening"
          /\ call[t].op = "TCPSocketTo" => kernel'[Fd(t)].state = "connected"
    BY <1>1, <1>3, <1>4, ReadyReturned
  <2>. QED
    BY <1>1, <1>2, <1>3, <2>1, OthersSame, ReadyKept
<1>. QED
  BY <1>1, <1>3, <1>5, ProceedSound

\* Entering a method of an object that is built.
LEMMA EnterSound ==
  ASSUME IInv, NEW t \in Threads, NEW op \in Methods, NEW o \in Objects,
         NEW name \in Arguments(op), Enter(t, op, o, name)
  PROVE  IInv'
<1>. DEFINE c == Called(op, o, name)
<1>1. /\ Idle(t) /\ Built(o) /\ call' = [call EXCEPT ![t] = c]
      /\ UNCHANGED <<objs, kernel, hostent>>
  BY DEF Enter
<1>2. /\ op \in Ops /\ op \notin Constructors /\ Program(op) \in Suffixes(Program(op))
      /\ Program(op) \in Seq(SystemCalls) /\ Program(op) # <<>>
      /\ \/ Head(Program(op)) = "resolve"
         \/ Head(Program(op)) \in {"bind", "accept"} /\ ~Resolves(op)
  BY ProgramFacts, ProgramType DEF Ops
<1>3. /\ c.op = op /\ c.obj = o /\ c.name = name /\ c.todo = Program(op) /\ c.overtaken = FALSE
      /\ c.host = IF Resolves(op) THEN Nothing ELSE "any"
  BY DEF Called
<1>4. c \in Calls
  <2>1. name \in Names \cup {Nothing}
    BY DEF Arguments
  <2>. QED
    BY <1>2, <2>1 DEF Called, Calls, Hosts, Ops, SystemCalls
<1>. HIDE DEF c
<1>5. /\ call' \in [Threads -> Calls] /\ call'[t] = c
      /\ \A u \in Threads \ {t} : call'[u] = call[u]
  BY <1>1, <1>4, Bases
<1>6. BaseTypes'
  BY <1>1, <1>5, Bases DEF BaseTypes
<1>7. ~Idle(t)' /\ ~At(t, "socket")' /\ ~At(t, "fill")' /\ ~At(t, "connect")'
      /\ (At(t, "bind")' => ~Resolves(op))
  BY <1>2, <1>3, <1>5 DEF Idle, At
<1>8. Typed(t)'
  <2>1. Exists(o)
    BY <1>1 DEF Built
  <2>2. At(t, "bind")' => c.host \in Hosts
    BY <1>3, <1>7 DEF Hosts
  <2>. QED
    BY <1>1, <1>2, <1>3, <1>5, <1>7, <2>1, <2>2 DEF Typed, Exists
<1>9. CallOf(t)'
  <2>1. objs[o].sockDesc # Nothing
    BY <1>1, BuiltFd, SocketsAssumption
  <2>. QED
    BY <1>1, <1>2, <1>3, <1>5, <1>7, <2>1 DEF CallOf
<1>10. ReadyWhenBuilt'
  <2>1. ASSUME NEW p \in Objects, Built(p)' PROVE Built(p)
    BY <1>1, <1>5, <2>1 DEF Built, Idle, Exists
  <2>. QED
    BY <1>1, <2>1 DEF IInv, ReadyWhenBuilt
<1>11. ~At(t, "socket")
  BY <1>1 DEF At
<1>12. Built(call'[t].obj)
  BY <1>1, <1>3, <1>5
<1>. QED
  BY <1>1, <1>5, <1>6, <1>8, <1>9, <1>10, <1>11, <1>12, SameObjects

\* A step that keeps the objects, the kernel, and which objects calls are of.
LEMMA ReadySame ==
  ASSUME IInv, objs' = objs, kernel' = kernel,
         \A v \in Threads : /\ Idle(v)' <=> Idle(v)
                            /\ call'[v].op = call[v].op /\ call'[v].obj = call[v].obj
  PROVE  ReadyWhenBuilt'
<1>1. ASSUME NEW o \in Objects, Built(o)' PROVE Built(o)
  BY <1>1 DEF Built, Exists
<1>. QED
  BY <1>1 DEF IInv, ReadyWhenBuilt

\* What is in the struct is an address: of the call's name, if it was not overtaken.
LEMMA FillAddrSound == ASSUME IInv, NEW t \in Threads, FillAddr(t) PROVE IInv'
<1>1. /\ At(t, "fill") /\ call' = [call EXCEPT ![t].host = hostent, ![t].todo = Tail(@)]
      /\ UNCHANGED <<objs, kernel, hostent>>
  BY DEF FillAddr
<1>2. /\ ~Idle(t) /\ Head(call[t].todo) = "fill" /\ ~At(t, "socket")
      /\ ~At(t, "connect") /\ ~At(t, "bind")
  BY <1>1 DEF At
<1>3. /\ call[t] \in Calls /\ call[t].op \in Ops /\ call[t].todo \in Suffixes(Program(call[t].op))
      /\ Typed(t) /\ CallOf(t) /\ call \in [Threads -> Calls]
  BY <1>2, InCall, Bases DEF IInv
<1>4. PICK rest : rest = Tail(call[t].todo)
  OBVIOUS
<1>5. /\ rest \in Suffixes(Program(call[t].op)) /\ rest \in Seq(SystemCalls) /\ rest # <<>>
      /\ Head(rest) \in {"connect", "bind"} /\ Resolves(call[t].op)
  BY <1>2, <1>3, <1>4, TodoFacts
<1>6. hostent \in Names /\ (hostent = call[t].name <=> ~call[t].overtaken)
  BY <1>1, <1>2, <1>3 DEF CallOf
<1>7. PICK c : c = [call[t] EXCEPT !.host = hostent, !.todo = rest]
  OBVIOUS
<1>8. /\ c \in Calls /\ c.host = hostent /\ c.todo = rest /\ c.op = call[t].op /\ c.obj = call[t].obj
      /\ c.name = call[t].name /\ c.overtaken = call[t].overtaken
  BY <1>3, <1>5, <1>6, <1>7 DEF Calls, Hosts, SystemCalls
<1>9. call' = [call EXCEPT ![t] = c]
  BY <1>1, <1>3, <1>4, <1>7 DEF Calls
<1>10. /\ call' \in [Threads -> Calls] /\ call'[t] = c
       /\ \A u \in Threads \ {t} : call'[u] = call[u]
  BY <1>3, <1>8, <1>9
<1>11. BaseTypes'
  BY <1>1, <1>10, Bases DEF BaseTypes
<1>12. ~Idle(t)' /\ ~At(t, "socket")' /\ ~At(t, "fill")'
  BY <1>5, <1>8, <1>10 DEF Idle, At
<1>13. Typed(t)'
  BY <1>1, <1>2, <1>3, <1>5, <1>6, <1>8, <1>10, <1>12 DEF Typed, Exists, Hosts
<1>14. CallOf(t)'
  <2>1. ASSUME call[t].op \in Constructors, NEW u \in Threads, ~Idle(u)', call'[u].obj = call[t].obj
        PROVE  u = t
    BY <1>2, <1>3, <1>10, <2>1 DEF CallOf, Idle
  <2>2. objs[call[t].obj].sockDesc # Nothing
    BY <1>2, <1>3 DEF CallOf
  <2>3. call[t].op \in Constructors => objs[call[t].obj].made = call[t].op
    BY <1>2, <1>3 DEF CallOf
  <2>. QED
    BY <1>1, <1>5, <1>6, <1>8, <1>10, <1>12, <2>1, <2>2, <2>3 DEF CallOf
<1>15. ReadyWhenBuilt'
  <2>1. \A v \in Threads : /\ Idle(v)' <=> Idle(v)
                           /\ call'[v].op = call[v].op /\ call'[v].obj = call[v].obj
    BY <1>2, <1>8, <1>10, <1>12 DEF Idle
  <2>. QED
    BY <1>1, <2>1, ReadySame
<1>. QED
  BY <1>1, <1>2, <1>8, <1>10, <1>11, <1>13, <1>14, <1>15, SameObjects

\* The struct holds the name of the last that looked one up, and whoever has
\* still to copy from it and had another name is overtaken.
LEMMA LookupSound == ASSUME IInv, NEW t \in Threads, Lookup(t) PROVE IInv'
<1>1. /\ At(t, "resolve") /\ hostent' = call[t].name /\ UNCHANGED <<objs, kernel>>
      /\ call' = [u \in Threads |->
           IF u = t THEN [call[t] EXCEPT !.todo = Tail(@), !.overtaken = FALSE]
           ELSE IF At(u, "fill") THEN [call[u] EXCEPT !.overtaken = call[t].name # call[u].name]
           ELSE call[u]]
  BY DEF Lookup, Resolved
<1>2. ~Idle(t) /\ Head(call[t].todo) = "resolve" /\ ~At(t, "socket")
  BY <1>1 DEF At
<1>3. /\ call[t] \in Calls /\ call[t].op \in Ops /\ call[t].todo \in Suffixes(Program(call[t].op))
      /\ Typed(t) /\ CallOf(t) /\ call \in [Threads -> Calls]
  BY <1>2, InCall, Bases DEF IInv
<1>4. PICK rest : rest = Tail(call[t].todo)
  OBVIOUS
<1>5. /\ rest \in Suffixes(Program(call[t].op)) /\ rest \in Seq(SystemCalls) /\ rest # <<>>
      /\ Head(rest) = "fill" /\ Resolves(call[t].op)
  BY <1>2, <1>3, <1>4, TodoFacts
<1>6. call[t].name \in Names
  BY <1>2, <1>3, <1>5 DEF Typed, Arguments
<1>7. PICK c : c = [call[t] EXCEPT !.todo = rest, !.overtaken = FALSE]
  OBVIOUS
<1>8. /\ c \in Calls /\ c.host = call[t].host /\ c.todo = rest /\ c.op = call[t].op
      /\ c.obj = call[t].obj /\ c.name = call[t].name /\ c.overtaken = FALSE
  BY <1>3, <1>5, <1>7 DEF Calls, SystemCalls
<1>9. call'[t] = c
  BY <1>1, <1>4, <1>7
<1>10. ASSUME NEW u \in Threads \ {t}
       PROVE  /\ call'[u] \in Calls
              /\ call'[u].op = call[u].op /\ call'[u].obj = call[u].obj /\ call'[u].name = call[u].name
              /\ call'[u].host = call[u].host /\ call'[u].todo = call[u].todo
              /\ ~At(u, "fill") => call'[u].overtaken = call[u].overtaken
              /\ At(u, "fill") => (call'[u].overtaken <=> call[t].name # call[u].name)
  <2>1. call[u] \in Calls
    BY <1>3
  <2>2. CASE At(u, "fill")
    <3>1. PICK b \in BOOLEAN : b <=> call[t].name # call[u].name
      OBVIOUS
    <3>2. call'[u] = [call[u] EXCEPT !.overtaken = call[t].name # call[u].name]
      BY <1>1, <2>2
    <3>3. call'[u] = [call[u] EXCEPT !.overtaken = b]
      BY <3>1, <3>2
    <3>4. /\ [call[u] EXCEPT !.overtaken = b] \in Calls
          /\ call'[u].op = call[u].op /\ call'[u].obj = call[u].obj /\ call'[u].name = call[u].name
          /\ call'[u].host = call[u].host /\ call'[u].todo = call[u].todo /\ call'[u].overtaken = b
      BY <2>1, <3>3 DEF Calls
    <3>. QED
      BY <2>2, <3>1, <3>3, <3>4
  <2>3. CASE ~At(u, "fill")
    BY <1>1, <2>1, <2>3
  <2>. QED
    BY <2>2, <2>3
<1>11. call' \in [Threads -> Calls]
  BY <1>1, <1>8, <1>9, <1>10
<1>12. BaseTypes'
  BY <1>1, <1>6, <1>11, Bases DEF BaseTypes
<1>13. /\ ~Idle(t)' /\ At(t, "fill")' /\ ~At(t, "socket")' /\ ~At(t, "connect")' /\ ~At(t, "bind")'
  BY <1>5, <1>8, <1>9 DEF Idle, At
<1>14. \A v \in Threads : /\ Idle(v)' <=> Idle(v)
                          /\ call'[v].op = call[v].op /\ call'[v].obj = call[v].obj
  BY <1>2, <1>8, <1>9, <1>10, <1>13 DEF Idle
<1>15. Typed(t)'
  BY <1>1, <1>2, <1>3, <1>5, <1>8, <1>9, <1>13 DEF Typed, Exists
<1>16. CallOf(t)'
  <2>1. ASSUME call[t].op \in Constructors, NEW u \in Threads, ~Idle(u)', call'[u].obj = call[t].obj
        PROVE  u = t
    BY <1>2, <1>3, <1>14, <2>1 DEF CallOf
  <2>2. objs[call[t].obj].sockDesc # Nothing
    BY <1>2, <1>3 DEF CallOf
  <2>3. call[t].op \in Constructors => objs[call[t].obj].made = call[t].op
    BY <1>2, <1>3 DEF CallOf
  <2>. QED
    BY <1>1, <1>5, <1>6, <1>8, <1>9, <1>13, <2>1, <2>2, <2>3 DEF CallOf
<1>17. ASSUME NEW u \in Threads \ {t} PROVE Typed(u)' /\ CallOf(u)'
  <2>. SUFFICES ASSUME ~Idle(u) PROVE Typed(u)' /\ CallOf(u)'
    BY <1>14 DEF Typed, CallOf
  <2>1. Typed(u) /\ CallOf(u)
    BY DEF IInv
  <2>2. \A step : At(u, step)' <=> At(u, step)
    BY <1>10, <1>14 DEF At
  <2>3. Typed(u)'
    BY <1>1, <1>10, <1>14, <2>1, <2>2 DEF Typed, Exists
  <2>4. ASSUME call[u].op \in Constructors, NEW v \in Threads, ~Idle(v)', call'[v].obj = call[u].obj
        PROVE  v = u
    BY <1>14, <2>1, <2>4 DEF CallOf
  <2>5. At(u, "fill") => hostent' \in Names /\ (hostent' = call'[u].name <=> ~call'[u].overtaken)
    BY <1>1, <1>6, <1>10
  <2>6. (At(u, "connect") \/ At(u, "bind")) => call'[u].overtaken = call[u].overtaken
    BY <1>10 DEF At
  <2>7. CallOf(u)'
    BY <1>1, <1>10, <1>14, <2>1, <2>2, <2>4, <2>5, <2>6 DEF CallOf
  <2>. QED
    BY <2>3, <2>7
<1>18. TypeOK' /\ \A u \in Threads : Typed(u)' /\ CallOf(u)'
  BY <1>12, <1>15, <1>16, <1>17, TypesNext
<1>19. ASSUME NEW o \in Objects PROVE Unmade(o)'
  <2>1. \A u \in Threads : At(u, "socket") => At(u, "socket")' /\ call'[u].obj = call[u].obj
    BY <1>2, <1>10, <1>14 DEF At
  <2>. QED
    BY <1>1, <2>1 DEF IInv, Unmade, Exists
<1>20. ReadyWhenBuilt' /\ Owned'
  BY <1>1, <1>14, ReadySame, OwnedKept
<1>. QED
  BY <1>18, <1>19, <1>20 DEF IInv

\* A constructor begins with an object that was free.
LEMMA ConstructSound ==
  ASSUME IInv, NEW t \in Threads, NEW op \in Constructors, NEW name \in Arguments(op),
         Construct(t, op, name)
  PROVE  IInv'
<1>1. PICK o \in FreeObjects :
        /\ objs' = [objs EXCEPT ![o] = [made |-> op, sockDesc |-> Nothing]]
        /\ call' = [call EXCEPT ![t] = Called(op, o, name)]
        /\ Idle(t) /\ UNCHANGED <<kernel, hostent>>
  BY DEF Construct, Lowest
<1>2. o \in Objects /\ ~Exists(o)
  BY DEF FreeObjects
<1>3. PICK r : r = [made |-> op, sockDesc |-> Nothing]
  OBVIOUS
<1>4. r \in ObjectRecords /\ r.made = op /\ r.sockDesc = Nothing /\ r # Nothing
  BY <1>3, SocketsAssumption DEF ObjectRecords
<1>5. /\ objs' \in [Objects -> ObjectRecords \cup {Nothing}]
      /\ objs'[o] = r /\ \A p \in Objects \ {o} : objs'[p] = objs[p]
  BY <1>1, <1>2, <1>3, <1>4, Bases
<1>6. /\ op \in Ops /\ Program(op) \in Suffixes(Program(op))
      /\ Program(op) \in Seq(SystemCalls) /\ Program(op) # <<>> /\ Head(Program(op)) = "socket"
  BY ProgramFacts, ProgramType DEF Ops
<1>7. PICK c : c = Called(op, o, name)
  OBVIOUS
<1>8. /\ c.op = op /\ c.obj = o /\ c.name = name /\ c.todo = Program(op) /\ c.overtaken = FALSE
      /\ c.host = IF Resolves(op) THEN Nothing ELSE "any"
  BY <1>7 DEF Called
<1>9. c \in Calls
  <2>1. name \in Names \cup {Nothing}
    BY DEF Arguments
  <2>. QED
    BY <1>2, <1>6, <1>7, <2>1 DEF Called, Calls, Hosts, Ops, SystemCalls
<1>10. /\ call' \in [Threads -> Calls] /\ call'[t] = c
       /\ \A u \in Threads \ {t} : call'[u] = call[u]
  BY <1>1, <1>7, <1>9, Bases
<1>11. BaseTypes'
  BY <1>1, <1>5, <1>10, Bases DEF BaseTypes
<1>12. ~Idle(t)' /\ At(t, "socket")' /\ ~At(t, "fill")' /\ ~At(t, "connect")' /\ ~At(t, "bind")'
  BY <1>6, <1>8, <1>10 DEF Idle, At
<1>13. \A u \in Threads : ~Idle(u) => call[u].obj # o /\ call[u].obj \in Objects
  BY <1>2, InCall
<1>14. ASSUME NEW u \in Threads \ {t} PROVE Typed(u)' /\ CallOf(u)'
  BY <1>1, <1>5, <1>8, <1>10, <1>13, Others
<1>15. Typed(t)'
  BY <1>2, <1>4, <1>5, <1>6, <1>8, <1>10, <1>12 DEF Typed, Exists
<1>16. CallOf(t)'
  <2>1. ASSUME NEW u \in Threads, ~Idle(u)', call'[u].obj = o PROVE u = t
    BY <1>10, <1>13, <2>1 DEF Idle
  <2>. QED
    BY <1>4, <1>5, <1>6, <1>8, <1>10, <1>12, <2>1 DEF CallOf
<1>17. TypeOK' /\ \A u \in Threads : Typed(u)' /\ CallOf(u)'
  BY <1>11, <1>14, <1>15, <1>16, TypesNext
<1>18. ASSUME NEW p \in Objects PROVE Unmade(p)'
  <2>1. CASE p = o
    BY <1>8, <1>10, <1>12, <2>1 DEF Unmade
  <2>2. CASE p # o
    <3>1. \A u \in Threads : At(u, "socket") => At(u, "socket")' /\ call'[u].obj = call[u].obj
      BY <1>1, <1>10 DEF At, Idle
    <3>. QED
      BY <1>5, <2>2, <3>1 DEF IInv, Unmade, Exists
  <2>. QED
    BY <2>1, <2>2
<1>19. Owned'
  <2>1. \A p \in Objects \ {o} : Exists(p)' <=> Exists(p)
    BY <1>5 DEF Exists
  <2>2. \A p \in Objects : Exists(p)' /\ objs'[p].sockDesc # Nothing =>
          p # o /\ Exists(p) /\ objs'[p].sockDesc = objs[p].sockDesc
    BY <1>4, <1>5, <2>1
  <2>3. ASSUME NEW fd \in Fds, kernel'[fd] # Nothing
        PROVE  \E p \in Objects : Exists(p)' /\ objs'[p].sockDesc = fd
    <3>1. PICK p \in Objects : Exists(p) /\ objs[p].sockDesc = fd
      BY <1>1, <2>3 DEF IInv, Owned
    <3>. QED
      BY <1>2, <1>5, <2>1, <3>1
  <2>4. \A p \in Objects : Exists(p)' /\ objs'[p].sockDesc # Nothing => kernel'[objs'[p].sockDesc] # Nothing
    BY <1>1, <2>2 DEF IInv, Owned
  <2>5. \A p, q \in Objects : Exists(p)' /\ Exists(q)' /\ objs'[p].sockDesc = objs'[q].sockDesc
                              /\ objs'[p].sockDesc # Nothing => p = q
    BY <2>2 DEF IInv, Owned
  <2>. QED
    BY <2>3, <2>4, <2>5 DEF Owned
<1>20. ReadyWhenBuilt'
  <2>1. ASSUME NEW p \in Objects, Built(p)' PROVE p # o /\ Built(p) /\ objs'[p] = objs[p]
    <3>1. p # o
      BY <1>8, <1>10, <1>12, <2>1 DEF Built
    <3>2. Exists(p)
      BY <1>5, <2>1, <3>1 DEF Built, Exists
    <3>3. \A u \in Threads : ~Idle(u) /\ call[u].obj = p => call[u].op \notin Constructors
      BY <1>1, <1>10, <2>1 DEF Built, Idle
    <3>. QED
      BY <1>5, <3>1, <3>2, <3>3 DEF Built
  <2>. QED
    BY <1>1, <2>1 DEF IInv, ReadyWhenBuilt
<1>. QED
  BY <1>17, <1>18, <1>19, <1>20 DEF IInv

\* The destructor closes the descriptor of an object that nobody is in a call of.
LEMMA DestroySound == ASSUME IInv, NEW t \in Threads, NEW o \in Objects, Destroy(t, o) PROVE IInv'
<1>1. /\ Built(o) /\ ~InUse(o)
      /\ kernel' = [kernel EXCEPT ![objs[o].sockDesc] = Nothing]
      /\ objs' = [objs EXCEPT ![o] = Nothing]
      /\ UNCHANGED <<hostent, call>>
  BY DEF Destroy
<1>2. PICK f \in Fds : f = objs[o].sockDesc
  BY <1>1, BuiltFd
<1>3. Exists(o) /\ f # Nothing
  BY <1>1, SocketsAssumption DEF Built
<1>4. /\ kernel' \in [Fds -> KernelRecords \cup {Nothing}] /\ kernel'[f] = Nothing
      /\ \A fd \in Fds \ {f} : kernel'[fd] = kernel[fd]
  BY <1>1, <1>2, Bases
<1>5. /\ objs' \in [Objects -> ObjectRecords \cup {Nothing}] /\ objs'[o] = Nothing
      /\ \A p \in Objects \ {o} : objs'[p] = objs[p]
  BY <1>1, Bases
<1>6. \A p \in Objects \ {o} : Exists(p) => objs[p].sockDesc # f
  BY <1>2, <1>3 DEF IInv, Owned
<1>7. BaseTypes'
  BY <1>1, <1>4, <1>5, Bases DEF BaseTypes
<1>8. ASSUME NEW u \in Threads PROVE Typed(u)' /\ CallOf(u)'
  <2>1. ~Idle(u) => call[u].obj \in Objects \ {o}
    BY <1>1, InCall DEF InUse
  <2>2. Typed(u) /\ CallOf(u) /\ call'[u] = call[u] /\ hostent' = hostent
    BY <1>1 DEF IInv
  <2>3. ~Idle(u) => objs'[call[u].obj] = objs[call[u].obj]
    BY <1>5, <2>1
  <2>4. Typed(u)'
    BY <2>2, <2>3 DEF Typed, Idle, At, Exists
  <2>5. CallOf(u)'
    BY <1>1, <2>2, <2>3 DEF CallOf, Idle, At
  <2>. QED
    BY <2>4, <2>5
<1>9. TypeOK'
  BY <1>7, <1>8, TypesNext
<1>10. ASSUME NEW p \in Objects PROVE Unmade(p)'
  <2>1. p # o => Unmade(p)'
    BY <1>1, <1>5 DEF IInv, Unmade, Exists, At, Idle
  <2>2. p = o => Unmade(p)'
    BY <1>5 DEF Unmade, Exists
  <2>. QED
    BY <2>1, <2>2
<1>11. \A p \in Objects : Exists(p)' => p # o /\ Exists(p) /\ objs'[p] = objs[p]
  BY <1>5 DEF Exists
<1>12. Owned'
  <2>1. ASSUME NEW fd \in Fds, kernel'[fd] # Nothing
        PROVE  \E p \in Objects : Exists(p)' /\ objs'[p].sockDesc = fd
    <3>1. fd # f /\ kernel[fd] # Nothing
      BY <1>4, <2>1
    <3>2. PICK p \in Objects : Exists(p) /\ objs[p].sockDesc = fd
      BY <3>1 DEF IInv, Owned
    <3>3. p # o
      BY <1>2, <3>1, <3>2
    <3>. QED
      BY <1>5, <3>2, <3>3 DEF Exists
  <2>2. ASSUME NEW p \in Objects, Exists(p)', objs'[p].sockDesc # Nothing
        PROVE  kernel'[objs'[p].sockDesc] # Nothing
    <3>1. p # o /\ Exists(p) /\ objs'[p] = objs[p]
      BY <1>11, <2>2
    <3>2. objs[p].sockDesc # f /\ objs[p].sockDesc \in Fds /\ kernel[objs[p].sockDesc] # Nothing
      BY <1>6, <2>2, <3>1, Bases DEF IInv, Owned
    <3>. QED
      BY <1>4, <3>1, <3>2
  <2>3. \A p, q \in Objects : Exists(p)' /\ Exists(q)' /\ objs'[p].sockDesc = objs'[q].sockDesc
                              /\ objs'[p].sockDesc # Nothing => p = q
    BY <1>11 DEF IInv, Owned
  <2>. QED
    BY <2>1, <2>2, <2>3 DEF Owned
<1>13. ReadyWhenBuilt'
  <2>1. ASSUME NEW p \in Objects, Built(p)'
        PROVE  Built(p) /\ objs'[p] = objs[p] /\ kernel'[objs[p].sockDesc] = kernel[objs[p].sockDesc]
    <3>1. p # o /\ Exists(p) /\ objs'[p] = objs[p]
      BY <1>11, <2>1 DEF Built
    <3>2. Built(p)
      BY <1>1, <2>1, <3>1 DEF Built, Idle
    <3>3. objs[p].sockDesc \in Fds \ {f}
      BY <1>6, <3>1, <3>2, BuiltFd
    <3>. QED
      BY <1>4, <3>1, <3>2, <3>3
  <2>. QED
    BY <2>1 DEF IInv, ReadyWhenBuilt
<1>. QED
  BY <1>8, <1>9, <1>10, <1>12, <1>13 DEF IInv

\* socket(): the descriptor was free, and is the object's.
LEMMA MakeSocketSound == ASSUME IInv, NEW t \in Threads, MakeSocket(t) PROVE IInv'
<1>1. PICK f \in FreeFds :
        /\ At(t, "socket") /\ kernel' = [kernel EXCEPT ![f] = Fresh]
        /\ objs' = [objs EXCEPT ![call[t].obj].sockDesc = f]
        /\ Proceed(t) /\ hostent' = hostent
  BY DEF MakeSocket, Lowest
<1>2. f \in Fds /\ kernel[f] = Nothing /\ f # Nothing
  BY SocketsAssumption DEF FreeFds
<1>3. PICK o : o = call[t].obj
  OBVIOUS
<1>4. /\ ~Idle(t) /\ Head(call[t].todo) = "socket"
      /\ call[t] \in Calls /\ call[t].op \in Ops /\ call[t].todo \in Suffixes(Program(call[t].op))
      /\ o \in Objects /\ Exists(o) /\ objs[o] \in ObjectRecords /\ objs[o].sockDesc = Nothing
      /\ Typed(t) /\ CallOf(t)
  BY <1>1, <1>3, InCall DEF At, CallOf, IInv
<1>5. call[t].op \in Constructors /\ objs[o].made = call[t].op
      /\ \A u \in Threads : ~Idle(u) /\ call[u].obj = o => u = t
  BY <1>3, <1>4, TodoFacts DEF CallOf
<1>6. PICK r : r = [objs[o] EXCEPT !.sockDesc = f]
  OBVIOUS
<1>7. r \in ObjectRecords /\ r.made = objs[o].made /\ r.sockDesc = f /\ r # Nothing
  BY <1>2, <1>4, <1>6, SocketsAssumption DEF ObjectRecords
<1>8. /\ objs' \in [Objects -> ObjectRecords \cup {Nothing}]
      /\ objs'[o] = r /\ \A p \in Objects \ {o} : objs'[p] = objs[p]
  <2>1. objs' = [objs EXCEPT ![o] = r]
    BY <1>1, <1>3, <1>6
  <2>. QED
    BY <1>4, <1>7, <2>1, Bases
<1>9. Fresh \in KernelRecords /\ Fresh # Nothing
  BY SocketsAssumption DEF Fresh, KernelRecords
<1>10. /\ kernel' \in [Fds -> KernelRecords \cup {Nothing}] /\ kernel'[f] # Nothing
       /\ \A fd \in Fds \ {f} : kernel'[fd] = kernel[fd]
  BY <1>1, <1>2, <1>9, Bases
<1>11. /\ call' \in [Threads -> Calls]
       /\ \A u \in Threads \ {t} : call'[u] = call[u]
       /\ Len(call[t].todo) = 1 => Idle(t)'
       /\ Len(call[t].todo) # 1 =>
            /\ ~Idle(t)' /\ call'[t].todo = Tail(call[t].todo)
            /\ call'[t].op = call[t].op /\ call'[t].obj = o
            /\ call'[t].name = call[t].name /\ call'[t].host = call[t].host
            /\ call'[t].overtaken = call[t].overtaken
  BY <1>1, <1>3, <1>4, ProceedFacts
<1>12. BaseTypes'
  BY <1>1, <1>8, <1>10, <1>11, Bases DEF BaseTypes
<1>13. ASSUME NEW u \in Threads \ {t} PROVE Typed(u)' /\ CallOf(u)'
  <2>1. ~Idle(u) => call[u].obj # o /\ call[u].obj \in Objects
    BY <1>5, InCall
  <2>2. ~Idle(u) /\ ~Idle(t)' => call'[t].obj # call[u].obj
    BY <1>11, <2>1
  <2>3. ~Idle(u) => objs'[call[u].obj] = objs[call[u].obj]
    BY <1>8, <2>1
  <2>. QED
    BY <1>1, <1>11, <2>2, <2>3, Others
<1>14. ASSUME Len(call[t].todo) # 1
       PROVE  Typed(t)' /\ CallOf(t)'
  <2>1. /\ call'[t].todo \in Suffixes(Program(call[t].op)) /\ Head(call'[t].todo) # "socket"
        /\ \/ Head(call'[t].todo) = "resolve"
           \/ Head(call'[t].todo) = "bind" /\ ~Resolves(call[t].op)
    <3>1. PICK s, op : s = call[t].todo /\ op = call[t].op
      OBVIOUS
    <3>2. op \in Ops /\ s \in Suffixes(Program(op)) /\ Len(s) # 1 /\ Head(s) = "socket"
      BY <1>4, <1>14, <3>1
    <3>3. /\ Tail(s) \in Suffixes(Program(op)) /\ Head(Tail(s)) # "socket"
          /\ Head(Tail(s)) = "resolve" \/ (Head(Tail(s)) = "bind" /\ ~Resolves(op))
      BY <3>2, TodoFacts
    <3>. QED
      BY <1>11, <1>14, <3>1, <3>3
  <2>2. ~At(t, "socket")' /\ ~At(t, "fill")' /\ ~At(t, "connect")'
        /\ (At(t, "bind")' => ~Resolves(call[t].op))
    BY <2>1 DEF At
  <2>3. ~Resolves(call[t].op) => call[t].host = "any"
    BY <1>4 DEF CallOf
  <2>4. Exists(o)'
    BY <1>7, <1>8 DEF Exists
  <2>5. call[t].name \in Arguments(call[t].op)
    BY <1>4 DEF Typed
  <2>6. Typed(t)'
    BY <1>4, <1>11, <1>14, <2>1, <2>2, <2>3, <2>4, <2>5 DEF Typed, Hosts
  <2>7. ASSUME NEW u \in Threads, ~Idle(u)', call'[u].obj = o
        PROVE  u = t
    BY <1>5, <1>11, <2>7 DEF Idle
  <2>8. objs'[o].made = call[t].op /\ objs'[o].sockDesc # Nothing
    BY <1>2, <1>5, <1>7, <1>8
  <2>9. CallOf(t)'
    BY <1>11, <1>14, <2>2, <2>3, <2>7, <2>8 DEF CallOf
  <2>. QED
    BY <2>6, <2>9
<1>15. Len(call[t].todo) = 1 => Typed(t)' /\ CallOf(t)'
  BY <1>11 DEF Typed, CallOf
<1>16. TypeOK' /\ \A u \in Threads : Typed(u)' /\ CallOf(u)'
  BY <1>12, <1>13, <1>14, <1>15, TypesNext
<1>17. ASSUME NEW p \in Objects PROVE Unmade(p)'
  <2>1. CASE p = o
    BY <1>2, <1>7, <1>8, <2>1 DEF Unmade
  <2>2. CASE p # o
    <3>1. \A u \in Threads : At(u, "socket") /\ call[u].obj = p => At(u, "socket")' /\ call'[u].obj = p
      BY <1>3, <1>11, <2>2 DEF At, Idle
    <3>. QED
      BY <1>8, <2>2, <3>1 DEF IInv, Unmade, Exists
  <2>. QED
    BY <2>1, <2>2
<1>18. \A p \in Objects \ {o} : /\ Exists(p)' <=> Exists(p)
                                /\ objs'[p] = objs[p]
                                /\ Exists(p) => objs[p].sockDesc # f
  BY <1>2, <1>8 DEF IInv, Owned, Exists
<1>19. Owned'
  <2>1. ASSUME NEW fd \in Fds, kernel'[fd] # Nothing
        PROVE  \E p \in Objects : Exists(p)' /\ objs'[p].sockDesc = fd
    <3>1. CASE fd = f
      BY <1>4, <1>7, <1>8, <3>1 DEF Exists
    <3>2. CASE fd # f
      <4>1. kernel[fd] # Nothing /\ fd # Nothing
        BY <1>10, <2>1, <3>2, SocketsAssumption
      <4>2. PICK p \in Objects : Exists(p) /\ objs[p].sockDesc = fd
        BY <4>1 DEF IInv, Owned
      <4>3. p # o
        BY <1>4, <4>1, <4>2
      <4>. QED
        BY <1>18, <4>2, <4>3
    <3>. QED
      BY <3>1, <3>2
  <2>2. ASSUME NEW p \in Objects, Exists(p)', objs'[p].sockDesc # Nothing
        PROVE  kernel'[objs'[p].sockDesc] # Nothing
    <3>1. CASE p = o
      BY <1>7, <1>8, <1>10, <3>1
    <3>2. CASE p # o
      <4>1. /\ Exists(p) /\ objs'[p] = objs[p] /\ objs[p].sockDesc # f
            /\ objs[p].sockDesc \in Fds /\ kernel[objs[p].sockDesc] # Nothing
        BY <1>18, <2>2, <3>2, Bases DEF IInv, Owned
      <4>. QED
        BY <1>10, <4>1
    <3>. QED
      BY <3>1, <3>2
  <2>3. ASSUME NEW p \in Objects, NEW q \in Objects, Exists(p)', Exists(q)',
               objs'[p].sockDesc = objs'[q].sockDesc, objs'[p].sockDesc # Nothing
        PROVE  p = q
    <3>1. CASE p = o
      BY <1>7, <1>8, <1>18, <2>3, <3>1
    <3>2. CASE q = o
      BY <1>7, <1>8, <1>18, <2>3, <3>2
    <3>3. CASE p # o /\ q # o
      BY <1>18, <2>3, <3>3 DEF IInv, Owned
    <3>. QED
      BY <3>1, <3>2, <3>3
  <2>. QED
    BY <2>1, <2>2, <2>3 DEF Owned
\* Only a TCPSocket with no address is done with its descriptor.
<1>20. ReadyWhenBuilt'
  <2>1. ASSUME NEW p \in Objects, p # o, Built(p)'
        PROVE  Built(p) /\ objs'[p] = objs[p] /\ kernel'[objs[p].sockDesc] = kernel[objs[p].sockDesc]
    <3>1. Exists(p) /\ objs'[p] = objs[p] /\ objs[p].sockDesc # f
      BY <1>18, <2>1 DEF Built
    <3>2. \A u \in Threads : ~Idle(u) /\ call[u].obj = p => call[u].op \notin Constructors
      BY <1>3, <1>11, <2>1 DEF Built, Idle
    <3>3. Built(p)
      BY <3>1, <3>2 DEF Built
    <3>. QED
      BY <1>10, <3>1, <3>3, BuiltFd
  <2>2. ASSUME Built(o)' PROVE objs'[o].made \notin Servers \cup {"TCPSocketTo", "accepted"}
    <3>1. Len(call[t].todo) = 1
      BY <1>5, <1>11, <2>2 DEF Built
    <3>2. call[t].op \notin Servers \cup {"TCPSocketTo"}
      BY <1>4, <3>1, TodoFacts
    <3>3. objs'[o].made = call[t].op /\ call[t].op # "accepted"
      BY <1>5, <1>7, <1>8 DEF Constructors
    <3>. QED
      BY <3>2, <3>3
  <2>3. ASSUME NEW p \in Objects, Built(p)'
        PROVE  /\ objs'[p].made \in {"ServerAny", "ServerAt"} => kernel'[objs'[p].sockDesc].state = "listening"
               /\ objs'[p].made \in {"TCPSocketTo", "accepted"} => kernel'[objs'[p].sockDesc].state = "connected"
    <3>1. CASE p = o
      BY <2>2, <2>3, <3>1 DEF Servers
    <3>2. CASE p # o
      BY <2>1, <2>3, <3>2 DEF IInv, ReadyWhenBuilt
    <3>. QED
      BY <3>1, <3>2
  <2>. QED
    BY <2>3 DEF ReadyWhenBuilt
<1>. QED
  BY <1>16, <1>17, <1>19, <1>20 DEF IInv

\* accept(): one connection less waits, and a new object has a new descriptor.
LEMMA AcceptSound == ASSUME IInv, NEW t \in Threads, Accept(t) PROVE IInv'
<1>1. PICK f \in FreeFds, o \in FreeObjects :
        /\ At(t, "accept") /\ kernel[Fd(t)].queue > 0
        /\ kernel' = [kernel EXCEPT ![Fd(t)].queue = @ - 1,
                                    ![f] = [Fresh EXCEPT !.state = "connected", !.local = kernel[Fd(t)].local]]
        /\ objs' = [objs EXCEPT ![o] = [made |-> "accepted", sockDesc |-> f]]
        /\ Proceed(t) /\ hostent' = hostent
  BY DEF Accept, Lowest
<1>2. f \in Fds /\ kernel[f] = Nothing /\ f # Nothing /\ o \in Objects /\ ~Exists(o)
  BY SocketsAssumption DEF FreeFds, FreeObjects
<1>3. ~Idle(t) /\ Head(call[t].todo) = "accept" /\ ~At(t, "socket")
  BY <1>1 DEF At
<1>4. PICK s \in Fds : s = Fd(t) /\ kernel[s] # Nothing /\ kernel[s] \in KernelRecords /\ s # f
  BY <1>2, <1>3, OwnFd
<1>5. Idle(t)' /\ call' \in [Threads -> Calls] /\ \A u \in Threads \ {t} : call'[u] = call[u]
  BY <1>1, <1>3, InCall, TodoFacts, ProceedFacts
<1>6. PICK a \in KernelRecords : a = [kernel[s] EXCEPT !.queue = kernel[s].queue - 1]
                               /\ a.state = kernel[s].state
  <2>1. kernel[s].queue \in 0..QueueLen
    BY <1>4, KernelRecord
  <2>2. kernel[s].queue - 1 \in 0..QueueLen
    BY <1>1, <1>4, <2>1, SocketsAssumption
  <2>3. \A q \in 0..QueueLen : [kernel[s] EXCEPT !.queue = q] \in KernelRecords
                               /\ [kernel[s] EXCEPT !.queue = q].state = kernel[s].state
    BY <1>4, KernelRecord
  <2>. QED
    BY <2>2, <2>3
<1>7. PICK b : b = [Fresh EXCEPT !.state = "connected", !.local = kernel[s].local]
  OBVIOUS
<1>8. b \in KernelRecords /\ b.state = "connected"
  <2>1. kernel[s].local \in Hosts \cup {Nothing}
    BY <1>4, KernelRecord
  <2>. QED
    <3>1. PICK h \in Hosts \cup {Nothing} : h = kernel[s].local
      BY <2>1
    <3>2. b = [state |-> "connected", local |-> h, queue |-> 0]
      BY <1>7, <3>1 DEF Fresh
    <3>3. 0 \in 0..QueueLen
      BY SocketsAssumption
    <3>. QED
      BY <3>2, <3>3 DEF KernelRecords
<1>9. /\ kernel' \in [Fds -> KernelRecords \cup {Nothing}] /\ kernel'[s] = a /\ kernel'[f] = b
      /\ \A fd \in Fds \ {s, f} : kernel'[fd] = kernel[fd]
  <2>1. kernel' = [kernel EXCEPT ![s] = a, ![f] = b]
    BY <1>1, <1>2, <1>4, <1>6, <1>7, Bases
  <2>. QED
    BY <1>2, <1>4, <1>6, <1>8, <2>1, Bases
<1>10. a # Nothing /\ b # Nothing
  BY <1>6, <1>8, SocketsAssumption
<1>11. PICK r : r = [made |-> "accepted", sockDesc |-> f]
  OBVIOUS
<1>12. r \in ObjectRecords /\ r.made = "accepted" /\ r.sockDesc = f /\ r # Nothing
  BY <1>2, <1>11, SocketsAssumption DEF ObjectRecords
<1>13. /\ objs' \in [Objects -> ObjectRecords \cup {Nothing}]
       /\ objs'[o] = r /\ \A p \in Objects \ {o} : objs'[p] = objs[p]
  BY <1>1, <1>2, <1>11, <1>12, Bases
<1>14. BaseTypes'
  BY <1>1, <1>5, <1>9, <1>13, Bases DEF BaseTypes
<1>15. ASSUME NEW u \in Threads \ {t} PROVE Typed(u)' /\ CallOf(u)'
  <2>1. ~Idle(u) => objs'[call[u].obj] = objs[call[u].obj]
    BY <1>2, <1>13, InCall
  <2>. QED
    BY <1>1, <1>5, <2>1, Others
<1>16. Typed(t)' /\ CallOf(t)'
  BY <1>5 DEF Typed, CallOf
<1>17. TypeOK' /\ \A u \in Threads : Typed(u)' /\ CallOf(u)'
  BY <1>14, <1>15, <1>16, TypesNext
<1>18. \A p \in Objects \ {o} : /\ Exists(p)' <=> Exists(p)
                                /\ objs'[p] = objs[p]
                                /\ Exists(p) => objs[p].sockDesc # f
  BY <1>2, <1>13 DEF IInv, Owned, Exists
<1>19. \A fd \in Fds \ {f} : kernel'[fd] = Nothing <=> kernel[fd] = Nothing
  BY <1>4, <1>9, <1>10
<1>20. \A fd \in Fds \ {f} : kernel[fd] # Nothing => kernel'[fd].state = kernel[fd].state
  BY <1>6, <1>9
<1>21. ASSUME NEW p \in Objects PROVE Unmade(p)'
  <2>1. CASE p = o
    BY <1>2, <1>12, <1>13, <2>1 DEF Unmade
  <2>2. CASE p # o
    <3>1. \A u \in Threads : At(u, "socket") => At(u, "socket")' /\ call'[u].obj = call[u].obj
      BY <1>3, <1>5 DEF At, Idle
    <3>. QED
      BY <1>13, <2>2, <3>1 DEF IInv, Unmade, Exists
  <2>. QED
    BY <2>1, <2>2
<1>22. Owned'
  <2>1. ASSUME NEW fd \in Fds, kernel'[fd] # Nothing
        PROVE  \E p \in Objects : Exists(p)' /\ objs'[p].sockDesc = fd
    <3>1. CASE fd = f
      BY <1>2, <1>12, <1>13, <3>1 DEF Exists
    <3>2. CASE fd # f
      <4>1. PICK p \in Objects : Exists(p) /\ objs[p].sockDesc = fd
        BY <1>19, <2>1, <3>2 DEF IInv, Owned
      <4>. QED
        BY <1>2, <1>18, <4>1
    <3>. QED
      BY <3>1, <3>2
  <2>2. ASSUME NEW p \in Objects, Exists(p)', objs'[p].sockDesc # Nothing
        PROVE  kernel'[objs'[p].sockDesc] # Nothing
    <3>1. CASE p = o
      BY <1>9, <1>10, <1>12, <1>13, <3>1
    <3>2. CASE p # o
      <4>1. /\ Exists(p) /\ objs'[p] = objs[p] /\ objs[p].sockDesc # f
            /\ objs[p].sockDesc \in Fds /\ kernel[objs[p].sockDesc] # Nothing
        BY <1>18, <2>2, <3>2, Bases DEF IInv, Owned
      <4>. QED
        BY <1>19, <4>1
    <3>. QED
      BY <3>1, <3>2
  <2>3. ASSUME NEW p \in Objects, NEW q \in Objects, Exists(p)', Exists(q)',
               objs'[p].sockDesc = objs'[q].sockDesc, objs'[p].sockDesc # Nothing
        PROVE  p = q
    <3>1. CASE p = o
      BY <1>12, <1>13, <1>18, <2>3, <3>1
    <3>2. CASE q = o
      BY <1>12, <1>13, <1>18, <2>3, <3>2
    <3>3. CASE p # o /\ q # o
      BY <1>18, <2>3, <3>3 DEF IInv, Owned
    <3>. QED
      BY <3>1, <3>2, <3>3
  <2>. QED
    BY <2>1, <2>2, <2>3 DEF Owned
<1>23. ReadyWhenBuilt'
  <2>1. ASSUME NEW p \in Objects, p # o, Built(p)'
        PROVE  /\ Built(p) /\ objs'[p] = objs[p]
               /\ kernel'[objs[p].sockDesc].state = kernel[objs[p].sockDesc].state
    <3>1. Exists(p) /\ objs'[p] = objs[p] /\ objs[p].sockDesc # f
      BY <1>18, <2>1 DEF Built
    <3>2. call[t].op \notin Constructors
      BY <1>3, InCall, TodoFacts
    <3>3. \A u \in Threads : ~Idle(u) /\ call[u].obj = p => call[u].op \notin Constructors
      BY <1>5, <2>1, <3>2 DEF Built, Idle
    <3>4. Built(p)
      BY <3>1, <3>3 DEF Built
    <3>. QED
      BY <1>20, <3>1, <3>4, BuiltFd
  <2>2. ASSUME NEW p \in Objects, Built(p)'
        PROVE  /\ objs'[p].made \in {"ServerAny", "ServerAt"} => kernel'[objs'[p].sockDesc].state = "listening"
               /\ objs'[p].made \in {"TCPSocketTo", "accepted"} => kernel'[objs'[p].sockDesc].state = "connected"
    <3>1. CASE p = o
      BY <1>8, <1>9, <1>12, <1>13, <3>1
    <3>2. CASE p # o
      BY <2>1, <2>2, <3>2 DEF IInv, ReadyWhenBuilt
    <3>. QED
      BY <3>1, <3>2
  <2>. QED
    BY <2>2 DEF ReadyWhenBuilt
<1>. QED
  BY <1>17, <1>21, <1>22, <1>23 DEF IInv

\* An exception out of a method or a constructor, the kernel having become k.
LEMMA ThrowSound ==
  ASSUME IInv, NEW t \in Threads, ~Idle(t), NEW k \in [Fds -> KernelRecords \cup {Nothing}],
         \A fd \in Fds : k[fd] = Nothing <=> kernel[fd] = Nothing,
         \A fd \in Fds : kernel[fd] # Nothing => kernel[fd].state \in {k[fd].state, "new"},
         Throw(t, k), hostent' = hostent
  PROVE  IInv'
<1>1. call' = [call EXCEPT ![t] = IdleCall]
  BY DEF Throw
<1>2. /\ call' \in [Threads -> Calls] /\ Idle(t)' /\ \A u \in Threads \ {t} : call'[u] = call[u]
  BY <1>1, Bases, IdleCallType DEF Idle
<1>3. Typed(t)' /\ CallOf(t)'
  BY <1>2 DEF Typed, CallOf
<1>4. /\ call[t].op \in Ops /\ call[t].todo \in Suffixes(Program(call[t].op))
      /\ call[t].obj \in Objects /\ Exists(call[t].obj) /\ objs[call[t].obj] \in ObjectRecords /\ CallOf(t)
  BY InCall
\* What holds of the state of a socket that stays holds in k.
<1>5. ASSUME NEW p \in Objects, Built(p)
      PROVE  /\ objs[p].made \in {"ServerAny", "ServerAt"} => k[objs[p].sockDesc].state = "listening"
             /\ objs[p].made \in {"TCPSocketTo", "accepted"} => k[objs[p].sockDesc].state = "connected"
  <2>1. PICK f \in Fds : f = objs[p].sockDesc /\ kernel[f] # Nothing
    BY <1>5, BuiltFd
  <2>2. PICK before : before = kernel[f].state
    OBVIOUS
  <2>3. PICK after : after = k[f].state
    OBVIOUS
  <2>4. before \in {after, "new"}
    BY <2>1, <2>2, <2>3
  <2>5. /\ objs[p].made \in {"ServerAny", "ServerAt"} => before = "listening"
        /\ objs[p].made \in {"TCPSocketTo", "accepted"} => before = "connected"
    BY <1>5, <2>1, <2>2 DEF IInv, ReadyWhenBuilt
  <2>6. objs[p].made \in {"ServerAny", "ServerAt"} => after = "listening"
    BY <2>4, <2>5
  <2>7. objs[p].made \in {"TCPSocketTo", "accepted"} => after = "connected"
    BY <2>4, <2>5
  <2>. QED
    BY <2>1, <2>3, <2>6, <2>7
<1>6. CASE call[t].op \notin Constructors
  <2>1. objs' = objs /\ kernel' = k
    BY <1>6 DEF Throw
  <2>2. BaseTypes'
    BY <1>2, <2>1, Bases DEF BaseTypes
  <2>3. ~At(t, "socket")
    BY <1>4, <1>6, TodoFacts DEF At
  <2>4. ReadyWhenBuilt'
    <3>1. ASSUME NEW p \in Objects, Built(p)' PROVE Built(p)
      BY <1>2, <1>6, <2>1, <3>1 DEF Built, Idle, Exists
    <3>. QED
      BY <1>5, <2>1, <3>1 DEF ReadyWhenBuilt
  <2>. QED
    BY <1>2, <1>3, <2>1, <2>2, <2>3, <2>4, SameObjects
<1>7. CASE call[t].op \in Constructors
  <2>1. PICK o \in Objects : o = call[t].obj /\ objs[o] \in ObjectRecords /\ Exists(o)
    BY <1>4
  <2>2. PICK f \in Fds \cup {Nothing} : f = objs[o].sockDesc /\ f = Fd(t)
    BY <2>1, Bases DEF Fd
  <2>3. /\ objs' = [objs EXCEPT ![o] = Nothing]
        /\ kernel' = IF f = Nothing THEN k ELSE [k EXCEPT ![f] = Nothing]
    BY <1>7, <2>1, <2>2 DEF Throw
  <2>4. /\ objs' \in [Objects -> ObjectRecords \cup {Nothing}] /\ objs'[o] = Nothing
        /\ \A p \in Objects \ {o} : objs'[p] = objs[p]
    BY <2>1, <2>3, Bases
  <2>5. /\ kernel' \in [Fds -> KernelRecords \cup {Nothing}]
        /\ f # Nothing => kernel'[f] = Nothing
        /\ \A fd \in Fds \ {f} : kernel'[fd] = k[fd]
    <3>1. CASE f = Nothing
      BY <2>3, <3>1, SocketsAssumption
    <3>2. CASE f # Nothing
      BY <2>2, <2>3, <3>2
    <3>. QED
      BY <3>1, <3>2
  <2>6. \A fd \in Fds \ {f} : kernel'[fd] = Nothing <=> kernel[fd] = Nothing
    BY <2>5
  <2>7. \A u \in Threads \ {t} : ~Idle(u) => call[u].obj \in Objects \ {o}
    BY <1>4, <1>7, <2>1, InCall DEF CallOf
  <2>8. BaseTypes'
    BY <1>2, <2>4, <2>5, Bases DEF BaseTypes
  <2>9. ASSUME NEW u \in Threads \ {t} PROVE Typed(u)' /\ CallOf(u)'
    <3>1. ~Idle(u) => objs'[call[u].obj] = objs[call[u].obj]
      BY <2>4, <2>7
    <3>. QED
      BY <1>2, <3>1, Others
  <2>10. TypeOK' /\ \A u \in Threads : Typed(u)' /\ CallOf(u)'
    BY <1>3, <2>8, <2>9, TypesNext
  <2>11. \A p \in Objects : Exists(p)' => p # o /\ Exists(p) /\ objs'[p] = objs[p]
    BY <2>4 DEF Exists
  <2>12. \A p \in Objects \ {o} : Exists(p) /\ objs[p].sockDesc # Nothing =>
           /\ objs[p].sockDesc \in Fds /\ objs[p].sockDesc # f /\ kernel[objs[p].sockDesc] # Nothing
    BY <2>1, <2>2, Bases DEF IInv, Owned
  <2>13. ASSUME NEW p \in Objects PROVE Unmade(p)'
    <3>1. CASE p = o
      BY <2>4, <3>1 DEF Unmade, Exists
    <3>2. CASE p # o
      <4>1. \A u \in Threads : At(u, "socket") /\ call[u].obj = p => At(u, "socket")' /\ call'[u].obj = p
        BY <1>2, <2>1, <3>2 DEF At, Idle
      <4>. QED
        BY <2>4, <3>2, <4>1 DEF IInv, Unmade, Exists
    <3>. QED
      BY <3>1, <3>2
  <2>14. Owned'
    <3>1. ASSUME NEW fd \in Fds, kernel'[fd] # Nothing
          PROVE  \E p \in Objects : Exists(p)' /\ objs'[p].sockDesc = fd
      <4>1. fd # f /\ kernel[fd] # Nothing
        BY <2>5, <2>6, <3>1, SocketsAssumption
      <4>2. PICK p \in Objects : Exists(p) /\ objs[p].sockDesc = fd
        BY <4>1 DEF IInv, Owned
      <4>3. p # o
        BY <2>2, <4>1, <4>2
      <4>. QED
        BY <2>4, <4>2, <4>3 DEF Exists
    <3>2. ASSUME NEW p \in Objects, Exists(p)', objs'[p].sockDesc # Nothing
          PROVE  kernel'[objs'[p].sockDesc] # Nothing
      <4>1. p # o /\ Exists(p) /\ objs'[p] = objs[p]
        BY <2>11, <3>2
      <4>. QED
        BY <2>6, <2>12, <3>2, <4>1
    <3>3. \A p, q \in Objects : Exists(p)' /\ Exists(q)' /\ objs'[p].sockDesc = objs'[q].sockDesc
                                /\ objs'[p].sockDesc # Nothing => p = q
      BY <2>11 DEF IInv, Owned
    <3>. QED
      BY <3>1, <3>2, <3>3 DEF Owned
  <2>15. ReadyWhenBuilt'
    <3>1. ASSUME NEW p \in Objects, Built(p)'
          PROVE  Built(p) /\ objs'[p] = objs[p] /\ kernel'[objs[p].sockDesc] = k[objs[p].sockDesc]
      <4>1. p # o /\ Exists(p) /\ objs'[p] = objs[p]
        BY <2>11, <3>1 DEF Built
      <4>2. \A u \in Threads : ~Idle(u) /\ call[u].obj = p => call[u].op \notin Constructors
        BY <1>2, <2>1, <3>1, <4>1 DEF Built, Idle
      <4>3. Built(p)
        BY <4>1, <4>2 DEF Built
      <4>4. objs[p].sockDesc \in Fds \ {f}
        BY <2>12, <4>1, <4>3, BuiltFd, SocketsAssumption
      <4>. QED
        BY <2>5, <4>1, <4>3, <4>4
    <3>. QED
      BY <1>5, <3>1 DEF ReadyWhenBuilt
  <2>. QED
    BY <2>10, <2>13, <2>14, <2>15 DEF IInv
<1>. QED
  BY <1>6, <1>7

LEMMA FailsSound == ASSUME IInv, NEW t \in Threads, Fails(t) PROVE IInv'
<1>1. ~Idle(t) /\ Throw(t, kernel) /\ hostent' = hostent
  BY DEF Fails
<1>2. PICK k \in [Fds -> KernelRecords \cup {Nothing}] : k = kernel
  BY Bases
<1>. QED
  BY <1>1, <1>2, ThrowSound

LEMMA ConnectInterruptedSound == ASSUME IInv, NEW t \in Threads, ConnectInterrupted(t) PROVE IInv'
<1>1. PICK k \in Connections(Fd(t), call[t].host) : At(t, "connect") /\ Throw(t, k) /\ hostent' = hostent
  BY DEF ConnectInterrupted
<1>2. ~Idle(t) /\ ~At(t, "socket")
  BY <1>1 DEF At
<1>3. PICK f, h : f = Fd(t) /\ h = call[t].host
  OBVIOUS
<1>4. f \in Fds /\ kernel[f] # Nothing /\ k \in Connections(f, h)
  BY <1>2, <1>3, OwnFd
<1>5. /\ k \in [Fds -> KernelRecords \cup {Nothing}]
      /\ \A fd \in Fds : k[fd] = Nothing <=> kernel[fd] = Nothing
      /\ kernel[f].state = "new"
      /\ \A fd \in Fds \ {f} : kernel[fd] # Nothing => k[fd].state = kernel[fd].state
  BY <1>4, ConnectionFacts
<1>6. \A fd \in Fds : kernel[fd] # Nothing => kernel[fd].state \in {k[fd].state, "new"}
  BY <1>5
<1>. QED
  BY <1>1, <1>2, <1>5, <1>6, ThrowSound

LEMMA StutterSound == ASSUME IInv, UNCHANGED vars PROVE IInv'
<1>1. objs' = objs /\ kernel' = kernel /\ hostent' = hostent /\ call' = call
  BY DEF vars
<1>2. BaseTypes' /\ \A t \in Threads : Typed(t)' /\ CallOf(t)'
  BY <1>1, Bases DEF IInv, BaseTypes, Typed, CallOf, Idle, At, Exists
<1>3. TypeOK'
  BY <1>2, TypesNext
<1>4. Owned' /\ \A o \in Objects : Unmade(o)'
  BY <1>1 DEF IInv, Owned, Unmade, Exists, At, Idle
<1>5. ReadyWhenBuilt'
  BY <1>1, ReadySame DEF Idle
<1>. QED
  BY <1>2, <1>3, <1>4, <1>5 DEF IInv

LEMMA NextSound == IInv /\ [Next]_vars => IInv'
<1>. SUFFICES ASSUME IInv, [Next]_vars PROVE IInv'
  OBVIOUS
<1>1. ASSUME NEW t \in Threads,
             NEW op \in Constructors, NEW name \in Arguments(op), Construct(t, op, name)
      PROVE  IInv'
  BY <1>1, ConstructSound
<1>2. ASSUME NEW t \in Threads, NEW op \in Methods, NEW o \in Objects,
             NEW name \in Arguments(op), Enter(t, op, o, name)
      PROVE  IInv'
  BY <1>2, EnterSound
<1>3. ASSUME NEW t \in Threads, NEW o \in Objects, Destroy(t, o)
      PROVE  IInv'
  BY <1>3, DestroySound
<1>4. ASSUME NEW t \in Threads,
             MakeSocket(t) \/ Lookup(t) \/ FillAddr(t) \/ Bind(t) \/ Listen(t)
             \/ Connect(t) \/ ConnectInterrupted(t) \/ Accept(t) \/ Fails(t)
      PROVE  IInv'
  BY <1>4, MakeSocketSound, LookupSound, FillAddrSound, BindSound, ListenSound,
     ConnectSound, ConnectInterruptedSound, AcceptSound, FailsSound
<1>. QED
  BY <1>1, <1>2, <1>3, <1>4, StutterSound DEF Next

-----------------------------------------------------------------------------
(* The theorems.                                                           *)

LEMMA OwnedCounts == IInv => DescriptorsOwned
<1>. SUFFICES ASSUME IInv, NEW fd \in Fds
              PROVE  Cardinality(Owners(fd)) = IF kernel[fd] = Nothing THEN 0 ELSE 1
  BY DEF DescriptorsOwned
<1>1. fd # Nothing
  BY SocketsAssumption
<1>2. CASE kernel[fd] = Nothing
  <2>1. Owners(fd) = {}
    BY <1>1, <1>2 DEF IInv, Owned, Owners
  <2>. QED
    BY <1>2, <2>1, FS_EmptySet
<1>3. CASE kernel[fd] # Nothing
  <2>1. PICK o \in Objects : Exists(o) /\ objs[o].sockDesc = fd
    BY <1>3 DEF IInv, Owned
  <2>2. Owners(fd) = {o}
    BY <1>1, <2>1 DEF IInv, Owned, Owners
  <2>. QED
    BY <1>3, <2>2, FS_Singleton
<1>. QED
  BY <1>2, <1>3

LEMMA AddressFollows == IInv => AddressAsked
<1>. SUFFICES ASSUME IInv, NEW t \in Threads, At(t, "connect") \/ At(t, "bind")
              PROVE  IF Resolves(call[t].op)
                     THEN call[t].host = call[t].name <=> ~call[t].overtaken
                     ELSE call[t].host = "any"
  BY DEF AddressAsked
<1>1. ~Idle(t) /\ CallOf(t)
  BY DEF IInv, At
<1>. QED
  BY <1>1 DEF CallOf

\* The types, the owners of descriptors and the state of what is built are one
\* invariant.
THEOREM Invariance == Spec => []IInv
<1>. QED
  BY InitSound, NextSound, PTL DEF Spec

\* Every object, descriptor and call is what its class and its program say.
THEOREM TypeCorrect == Spec => []TypeOK
<1>1. IInv => TypeOK
  BY DEF IInv
<1>. QED
  BY <1>1, Invariance, PTL

\* Whichever system call of a constructor, connect, bind or accept fails, in
\* whatever threads, an open descriptor is one object's and a closed one nobody's.
THEOREM OwnedCorrect == Spec => []DescriptorsOwned
BY Invariance, OwnedCounts, PTL

\* A constructor that does not throw leaves the socket in the state of its
\* class, and no later call of any thread takes it out of that state.
THEOREM ReadyCorrect == Spec => []ReadyWhenBuilt
<1>1. IInv => ReadyWhenBuilt
  BY DEF IInv
<1>. QED
  BY <1>1, Invariance, PTL

\* connect and bind go to the address of the name they were given exactly if no
\* other name was looked up between their own lookup and copy.
THEOREM AddressCorrect == Spec => []AddressAsked
BY Invariance, AddressFollows, PTL
=============================================================================
