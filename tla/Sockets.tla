------------------------------- MODULE Sockets -------------------------------
(***************************************************************************)
(* The life of Socket, TCPSocket and TCPServerSocket objects (Socket.cpp,  *)
(* CommSocket.cpp, TCPSocket.cpp, CommUtils.cpp): constructors that make   *)
(* several system calls and may throw after any of them, connect, bind and *)
(* accept, and the destructor, in threads that share the descriptor table  *)
(* and the one static struct of gethostbyname.                             *)
(*                                                                         *)
(* A call is the list of the system calls it has still to make.  A name    *)
(* stands for the address it resolves to, and there is one port; a server  *)
(* and its clients are in one process.                                     *)
(***************************************************************************)
EXTENDS Naturals, Sequences, FiniteSets

CONSTANTS
  Threads,
  Objects,       \* bound: objects at one time
  Fds,           \* the descriptors the process may have
  Names,         \* arguments localAddress and foreignAddress
  QueueLen,      \* queueLen, the connections a server keeps waiting
  Nothing

VARIABLES
  objs,          \* each object, or Nothing
  kernel,        \* external: the socket at each descriptor, or Nothing
  hostent,       \* external: what gethostbyname's static struct holds
  call           \* the call each thread is in; overtaken is history

vars == <<objs, kernel, hostent, call>>

Constructors == {"TCPSocket", "TCPSocketTo", "ServerAny", "ServerAt"}

Methods == {"connect", "setLocalPort", "setLocalAddressAndPort", "accept"}

Hosts == Names \cup {"any"}

ObjectRecords == [made : Constructors \cup {"accepted"}, sockDesc : Fds \cup {Nothing}]

KernelRecords == [state : {"new", "listening", "connected"},
                  local : Hosts \cup {Nothing}, queue : 0..QueueLen]

ASSUME SocketsAssumption ==
  /\ Objects \subseteq Nat /\ Fds \subseteq Nat
  /\ QueueLen \in Nat \ {0}
  /\ Nothing \notin Objects \cup Fds \cup Names /\ "any" \notin Names
  /\ Nothing \notin ObjectRecords /\ Nothing \notin KernelRecords

Fresh == [state |-> "new", local |-> Nothing, queue |-> 0]

\* Without setListen.
ProgramUnlistening(op) ==
  CASE op = "TCPSocket" -> <<"socket">>
    [] op = "TCPSocketTo" -> <<"socket", "resolve", "fill", "connect">>
    [] op = "ServerAny" -> <<"socket", "bind">>
    [] op = "ServerAt" -> <<"socket", "resolve", "fill", "bind">>
    [] op = "connect" -> <<"resolve", "fill", "connect">>
    [] op = "setLocalPort" -> <<"bind">>
    [] op = "setLocalAddressAndPort" -> <<"resolve", "fill", "bind">>
    [] op = "accept" -> <<"accept">>

\* The system calls of each constructor and method; "fill" is what fillAddr
\* does with the struct that gethostbyname returned.
Program(op) ==
  CASE op = "TCPSocket" -> <<"socket">>
    [] op = "TCPSocketTo" -> <<"socket", "resolve", "fill", "connect">>
    [] op = "ServerAny" -> <<"socket", "bind", "listen">>
    [] op = "ServerAt" -> <<"socket", "resolve", "fill", "bind", "listen">>
    [] op = "connect" -> <<"resolve", "fill", "connect">>
    [] op = "setLocalPort" -> <<"bind">>
    [] op = "setLocalAddressAndPort" -> <<"resolve", "fill", "bind">>
    [] op = "accept" -> <<"accept">>

Resolves(op) == "resolve" \in {Program(op)[i] : i \in DOMAIN Program(op)}

IdleCall == [op |-> Nothing, obj |-> Nothing, name |-> Nothing, host |-> Nothing, todo |-> <<>>,
             overtaken |-> FALSE]

Calls == [op : Constructors \cup Methods \cup {Nothing}, obj : Objects \cup {Nothing},
          name : Names \cup {Nothing}, host : Hosts \cup {Nothing},
          todo : Seq({"socket", "resolve", "fill", "bind", "listen", "connect", "accept"}),
          overtaken : BOOLEAN]

Idle(t) == call[t].todo = <<>>

At(t, step) == ~Idle(t) /\ Head(call[t].todo) = step

Exists(o) == objs[o] # Nothing

InUse(o) == \E t \in Threads : ~Idle(t) /\ call[t].obj = o

Built(o) == Exists(o) /\ \A t \in Threads : ~Idle(t) /\ call[t].obj = o => call[t].op \notin Constructors

FreeObjects == {o \in Objects : ~Exists(o)}

FreeFds == {fd \in Fds : kernel[fd] = Nothing}

Lowest(S) == {x \in S : \A y \in S : x <= y}

Fd(t) == objs[call[t].obj].sockDesc

Init ==
  /\ objs = [o \in Objects |-> Nothing]
  /\ kernel = [fd \in Fds |-> Nothing]
  /\ hostent = Nothing
  /\ call = [t \in Threads |-> IdleCall]

-----------------------------------------------------------------------------
(* Entering a call, returning from it, and leaving it by an exception.     *)

Arguments(op) == IF Resolves(op) THEN Names ELSE {Nothing}

Called(op, o, name) ==
  [op |-> op, obj |-> o, name |-> name, host |-> IF Resolves(op) THEN Nothing ELSE "any",
   todo |-> Program(op), overtaken |-> FALSE]

Construct(t, op, name) ==
  /\ Idle(t)
  /\ \E o \in Lowest(FreeObjects) :
       /\ objs' = [objs EXCEPT ![o] = [made |-> op, sockDesc |-> Nothing]]
       /\ call' = [call EXCEPT ![t] = Called(op, o, name)]
  /\ UNCHANGED <<kernel, hostent>>

\* A method of an object that is constructed; connect is a CommSocket's, accept
\* a TCPServerSocket's.
Enter(t, op, o, name) ==
  /\ Idle(t)
  /\ Built(o)
  /\ op = "connect" => objs[o].made \notin {"ServerAny", "ServerAt"}
  /\ op = "accept" => objs[o].made \in {"ServerAny", "ServerAt"}
  /\ call' = [call EXCEPT ![t] = Called(op, o, name)]
  /\ UNCHANGED <<objs, kernel, hostent>>

\* The system call succeeded: on to the next, or return.
Proceed(t) ==
  call' = [call EXCEPT ![t] = IF Len(call[t].todo) = 1 THEN IdleCall
                              ELSE [call[t] EXCEPT !.todo = Tail(call[t].todo)]]

\* An exception out of a method leaves the object as it is, and so do those out
\* of a constructor in this form, which does not destroy the base.
ThrowKeeping(t, k) ==
  /\ call' = [call EXCEPT ![t] = IdleCall]
  /\ objs' = IF call[t].op \in Constructors THEN [objs EXCEPT ![call[t].obj] = Nothing] ELSE objs
  /\ kernel' = k

\* An exception, the kernel having become k: one out of a constructor whose
\* Socket base is complete destroys the base, which closes the descriptor.
Throw(t, k) ==
  /\ call' = [call EXCEPT ![t] = IdleCall]
  /\ IF call[t].op \in Constructors
     THEN /\ objs' = [objs EXCEPT ![call[t].obj] = Nothing]
          /\ kernel' = IF Fd(t) = Nothing THEN k ELSE [k EXCEPT ![Fd(t)] = Nothing]
     ELSE objs' = objs /\ kernel' = k

\* ~Socket(), by a client that knows no thread is in a call of the object.
Destroy(t, o) ==
  /\ Idle(t)
  /\ Built(o) /\ ~InUse(o)
  /\ kernel' = [kernel EXCEPT ![objs[o].sockDesc] = Nothing]
  /\ objs' = [objs EXCEPT ![o] = Nothing]
  /\ UNCHANGED <<hostent, call>>

-----------------------------------------------------------------------------
(* The system calls and what follows each: every one may fail.             *)

\* socket(), which takes the lowest free descriptor; it always fails when the
\* process has all its descriptors.
MakeSocket(t) ==
  /\ At(t, "socket")
  /\ \E fd \in Lowest(FreeFds) :
       /\ kernel' = [kernel EXCEPT ![fd] = Fresh]
       /\ objs' = [objs EXCEPT ![call[t].obj].sockDesc = fd]
  /\ Proceed(t)
  /\ UNCHANGED hostent

\* On to the copy; another thread that is about to copy from the struct is
\* overtaken if this was another name than its own.
Resolved(t) ==
  call' = [u \in Threads |->
    IF u = t THEN [call[t] EXCEPT !.todo = Tail(@), !.overtaken = FALSE]
    ELSE IF At(u, "fill") THEN [call[u] EXCEPT !.overtaken = call[t].name # call[u].name]
    ELSE call[u]]

\* Without the test for NULL, and so with no address in the struct.
LookupUnchecked(t) ==
  /\ At(t, "resolve")
  /\ hostent' \in {call[t].name, Nothing}
  /\ Resolved(t)
  /\ UNCHANGED <<objs, kernel>>

\* gethostbyname writes the address in its static struct.
Lookup(t) ==
  /\ At(t, "resolve")
  /\ hostent' = call[t].name
  /\ Resolved(t)
  /\ UNCHANGED <<objs, kernel>>

\* fillAddr without `addr.sin_addr.s_addr = ...'.
FillAnyAddr(t) ==
  /\ At(t, "fill")
  /\ call' = [call EXCEPT ![t].host = "any", ![t].todo = Tail(@)]
  /\ UNCHANGED <<objs, kernel, hostent>>

\* fillAddr copies the address from the struct.
FillAddr(t) ==
  /\ At(t, "fill")
  /\ call' = [call EXCEPT ![t].host = hostent, ![t].todo = Tail(@)]
  /\ UNCHANGED <<objs, kernel, hostent>>

Overlap(a, b) == a = b \/ "any" \in {a, b}

\* bind() of a socket that has no address yet, to one that no other has.
Bind(t) ==
  /\ At(t, "bind")
  /\ kernel[Fd(t)].state = "new" /\ kernel[Fd(t)].local = Nothing
  /\ \A fd \in Fds \ FreeFds : kernel[fd].local # Nothing => ~Overlap(kernel[fd].local, call[t].host)
  /\ kernel' = [kernel EXCEPT ![Fd(t)].local = call[t].host]
  /\ Proceed(t)
  /\ UNCHANGED <<objs, hostent>>

Listen(t) ==
  /\ At(t, "listen")
  /\ kernel' = [kernel EXCEPT ![Fd(t)].state = "listening"]
  /\ Proceed(t)
  /\ UNCHANGED <<objs, hostent>>

\* The kernels after a connection of fd to host: a listening socket there has
\* one more in its queue.
Connections(fd, host) ==
  {[kernel EXCEPT ![fd].state = "connected", ![server].queue = @ + 1] :
     server \in {s \in Fds \ FreeFds : /\ kernel[fd].state = "new"
                                       /\ kernel[s].state = "listening"
                                       /\ Overlap(kernel[s].local, host)
                                       /\ kernel[s].queue < QueueLen}}

Connect(t) ==
  /\ At(t, "connect")
  /\ kernel' \in Connections(Fd(t), call[t].host)
  /\ Proceed(t)
  /\ UNCHANGED <<objs, hostent>>

\* A signal interrupts connect(): it throws, and the connection is made.
ConnectInterrupted(t) ==
  /\ At(t, "connect")
  /\ \E k \in Connections(Fd(t), call[t].host) : Throw(t, k)
  /\ UNCHANGED hostent

\* accept(): a connection waits; a new descriptor, and an object around it.
Accept(t) ==
  /\ At(t, "accept")
  /\ kernel[Fd(t)].queue > 0
  /\ \E fd \in Lowest(FreeFds), o \in Lowest(FreeObjects) :
       /\ kernel' = [kernel EXCEPT ![Fd(t)].queue = @ - 1,
                                   ![fd] = [Fresh EXCEPT !.state = "connected", !.local = kernel[Fd(t)].local]]
       /\ objs' = [objs EXCEPT ![o] = [made |-> "accepted", sockDesc |-> fd]]
  /\ Proceed(t)
  /\ UNCHANGED hostent

\* The system call fails; the copy in fillAddr cannot.
Fails(t) ==
  /\ ~Idle(t) /\ ~At(t, "fill")
  /\ Throw(t, kernel)
  /\ UNCHANGED hostent

-----------------------------------------------------------------------------
Next ==
  \E t \in Threads :
    \/ \E op \in Constructors : \E name \in Arguments(op) : Construct(t, op, name)
    \/ \E op \in Methods, o \in Objects : \E name \in Arguments(op) : Enter(t, op, o, name)
    \/ \E o \in Objects : Destroy(t, o)
    \/ MakeSocket(t) \/ Lookup(t) \/ FillAddr(t) \/ Bind(t) \/ Listen(t)
    \/ Connect(t) \/ ConnectInterrupted(t) \/ Accept(t) \/ Fails(t)

Spec == Init /\ [][Next]_vars

-----------------------------------------------------------------------------
(* Properties.                                                             *)

Suffixes(s) == {SubSeq(s, i, Len(s)) : i \in 1..Len(s)}

TypeOK ==
  /\ objs \in [Objects -> ObjectRecords \cup {Nothing}]
  /\ kernel \in [Fds -> KernelRecords \cup {Nothing}]
  /\ hostent \in Names \cup {Nothing}
  /\ call \in [Threads -> Calls]
  /\ \A t \in Threads : ~Idle(t) =>
       /\ call[t].op \in Constructors \cup Methods
       /\ call[t].todo \in Suffixes(Program(call[t].op))
       /\ call[t].obj \in Objects /\ Exists(call[t].obj)
       /\ call[t].name \in Arguments(call[t].op)
       /\ call[t].host \in IF At(t, "connect") \/ At(t, "bind") THEN Hosts ELSE Hosts \cup {Nothing}

Owners(fd) == {o \in Objects : Exists(o) /\ objs[o].sockDesc = fd}

\* An open descriptor belongs to one object, a closed one to none: whatever
\* system call of a constructor fails, its descriptor is closed, once, and no
\* object is left with a descriptor that another may be given.
DescriptorsOwned ==
  \A fd \in Fds : Cardinality(Owners(fd)) = IF kernel[fd] = Nothing THEN 0 ELSE 1

\* A constructor that did not throw made what its class is for (TCPSocket.h):
\* a server listens, and stays so whatever its methods do; a socket made with
\* an address, or by accept, is connected, and stays so.
ReadyWhenBuilt ==
  \A o \in Objects : Built(o) =>
    LET state == kernel[objs[o].sockDesc].state
    IN  /\ objs[o].made \in {"ServerAny", "ServerAt"} => state = "listening"
        /\ objs[o].made \in {"TCPSocketTo", "accepted"} => state = "connected"

\* CommSocket.h:23, "Establish a socket connection with the given address and
\* port", and the same of bind: the address that goes to the system call is the
\* one of the name that the call was given if and only if no other thread looked
\* another name up between the call's own lookup and its copy.
AddressAsked ==
  \A t \in Threads : At(t, "connect") \/ At(t, "bind") =>
    IF Resolves(call[t].op)
    THEN call[t].host = call[t].name <=> ~call[t].overtaken
    ELSE call[t].host = "any"
=============================================================================
