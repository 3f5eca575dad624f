----------------------------- MODULE CommSocket -----------------------------
(***************************************************************************)
(* One direction of a connected pair of CommSockets (CommSocket.cpp): one  *)
(* end calls send and closes, the other calls recv, recvFully and          *)
(* setRecvTimeout; between them the kernels' TCP, which takes and hands    *)
(* over bytes in pieces of its choice and may break the connection.        *)
(* Signals may interrupt the calls of both.                                *)
(*                                                                         *)
(* A byte is its number among those the sender was asked to send.          *)
(***************************************************************************)
EXTENDS Integers, Sequences

CONSTANTS
  MaxLen,      \* bound: bufferLen of a call
  MaxBytes,    \* bound: bytes sent in one behaviour
  Capacity,    \* bytes the kernels hold
  MaxIO,       \* the most one ::send takes (0x7ffff000 on Linux)
  Timeouts     \* arguments of setRecvTimeout, in microseconds

ASSUME CommAssumption ==
  /\ {MaxLen, MaxBytes, Capacity, MaxIO} \subseteq Nat \ {0}
  /\ Timeouts \subseteq Nat

VARIABLES
  snd,         \* the send call: [pc, len, done]
  given,       \* bytes of the send calls that returned
  wire,        \* external: bytes taken from the sender, not handed over
  closed,      \* the sender's socket is closed, or its process has ended
  broken,      \* external: "no", "yes", or "told" when a ::recv has reported it
  rcv,         \* the recv or recvFully call: [pc, len, rcount]
  buffer,      \* what the call has written into its buffer
  ret,         \* how the last call ended: "none" yet, "recv", "fully" or "throw"
  rcvTimeo,    \* external: SO_RCVTIMEO
  asked,       \* history: the argument of the last setRecvTimeout
  stream,      \* history: every byte the kernel took, in order
  start        \* history: bytes handed over before the present call

vars == <<snd, given, wire, closed, broken, rcv, buffer, ret, rcvTimeo, asked, stream, start>>
sndVars == <<snd, given, closed>>
rcvVars == <<rcv, buffer, ret, start>>
timeVars == <<rcvTimeo, asked>>

Idle == [pc |-> "idle", len |-> 0, rcount |-> 0]

NotSending == [pc |-> "idle", len |-> 0, done |-> 0]

Init ==
  /\ snd = NotSending /\ given = 0 /\ closed = FALSE
  /\ wire = <<>> /\ broken = "no" /\ rcvTimeo = 0 /\ asked = 0
  /\ rcv = Idle /\ buffer = <<>> /\ ret = "none"
  /\ stream = <<>> /\ start = 0

Second == 1000 * 1000   \* microseconds

MinOf(a, b) == IF a < b THEN a ELSE b

Interval(a, b) == [i \in 1..(b - a) |-> a + i]

-----------------------------------------------------------------------------
(* The sending end.                                                        *)

Send(n) ==
  /\ snd.pc = "idle" /\ ~closed
  /\ given + n <= MaxBytes
  /\ snd' = [pc |-> "sending", len |-> n, done |-> 0]
  /\ UNCHANGED <<given, closed, wire, broken, rcvVars, timeVars, stream>>

\* ::send, waiting for room.
KernelTakes(k) ==
  /\ snd.pc = "sending" /\ broken = "no"
  /\ k <= MinOf(snd.len, MaxIO) - snd.done
  /\ Len(wire) + k <= Capacity
  /\ LET bytes == Interval(given + snd.done, given + snd.done + k)
     IN  wire' = wire \o bytes /\ stream' = stream \o bytes
  /\ snd' = [snd EXCEPT !.done = @ + k]
  /\ UNCHANGED <<given, closed, broken, rcvVars, timeVars>>

\* ::send returns what it took: all, the most it takes at once, or less when the
\* connection broke.  The count is not looked at.
SendReturns ==
  /\ snd.pc = "sending"
  /\ \/ snd.done = MinOf(snd.len, MaxIO)
     \/ snd.done > 0 /\ broken # "no"
  /\ given' = given + snd.len
  /\ snd' = NotSending
  /\ UNCHANGED <<closed, wire, broken, rcvVars, timeVars, stream>>

\* ::send fails having taken nothing, and send throws.
SendThrows ==
  /\ snd.pc = "sending" /\ snd.done = 0 /\ broken # "no"
  /\ snd' = NotSending
  /\ UNCHANGED <<given, closed, wire, broken, rcvVars, timeVars, stream>>

\* Without MSG_NOSIGNAL a ::send on a broken connection may raise SIGPIPE, which
\* ends the process: nothing is thrown, and its kernel closes the socket.
SendKilled ==
  /\ snd.pc = "sending" /\ snd.done = 0 /\ broken # "no"
  /\ snd' = NotSending /\ closed' = TRUE
  /\ UNCHANGED <<given, wire, broken, rcvVars, timeVars, stream>>

\* A signal ends ::send: a failure if it has taken nothing, else a count.
SendInterrupted ==
  /\ snd.pc = "sending"
  /\ given' = IF snd.done = 0 THEN given ELSE given + snd.len
  /\ snd' = NotSending
  /\ UNCHANGED <<closed, wire, broken, rcvVars, timeVars, stream>>

\* ~Socket()
Close ==
  /\ snd.pc = "idle" /\ ~closed
  /\ closed' = TRUE
  /\ UNCHANGED <<snd, given, wire, broken, rcvVars, timeVars, stream>>

\* The connection is reset: what has not reached the receiver is lost.
Break ==
  /\ broken = "no"
  /\ broken' = "yes"
  /\ \E n \in 0..Len(wire) : wire' = SubSeq(wire, 1, n) /\ stream' = SubSeq(stream, 1, Len(stream) - Len(wire) + n)
  /\ UNCHANGED <<sndVars, rcvVars, timeVars>>

-----------------------------------------------------------------------------
(* The receiving end.                                                      *)

SetRecvTimeoutAny(usec) ==
  /\ rcv.pc = "idle"
  /\ rcvTimeo' = usec /\ asked' = usec
  /\ UNCHANGED <<sndVars, wire, broken, rcvVars, stream>>

\* The whole seconds of it alone.
SetRecvTimeoutSeconds(usec) ==
  /\ rcv.pc = "idle"
  /\ rcvTimeo' = (usec \div Second) * Second
  /\ asked' = usec
  /\ UNCHANGED <<sndVars, wire, broken, rcvVars, stream>>

\* setsockopt refuses a tv_usec of a second or more, and the refusal is not
\* looked at.
SetRecvTimeout(usec) ==
  /\ rcv.pc = "idle"
  /\ rcvTimeo' = IF usec < Second THEN usec ELSE rcvTimeo
  /\ asked' = usec
  /\ UNCHANGED <<sndVars, wire, broken, rcvVars, stream>>

\* recv(buffer, n) and recvFully(buffer, n) are entered.
Receive(pc, n) ==
  /\ rcv.pc = "idle"
  /\ rcv' = [pc |-> pc, len |-> n, rcount |-> 0]
  /\ buffer' = <<>> /\ ret' = "none"
  /\ start' = Len(stream) - Len(wire)
  /\ UNCHANGED <<sndVars, wire, broken, timeVars, stream>>

WantAll == rcv.len

\* The length each ::recv is called with.
Want == rcv.len - rcv.rcount

PutAtStart(bytes) == bytes \o SubSeq(buffer, Len(bytes) + 1, Len(buffer))

\* ::recv writes at buffer + rcount.
PutAt(bytes) == SubSeq(buffer, 1, rcv.rcount) \o bytes

StopsAtFirst(k) == TRUE

StopsWhenFull(k) == rcv.pc = "recv" \/ rcv.rcount + k >= rcv.len

\* What follows a ::recv that returned k >= 0.
Stops(k) == rcv.pc = "recv" \/ k = 0 \/ rcv.rcount + k >= rcv.len

RecvReturns(k) ==
  /\ rcv.pc # "idle"
  /\ \/ k \in 1..MinOf(Want, Len(wire))
     \/ k = 0 /\ (Want = 0 \/ (wire = <<>> /\ (broken = "told" \/ (closed /\ broken = "no"))))
  /\ buffer' = PutAt(SubSeq(wire, 1, k))
  /\ wire' = SubSeq(wire, k + 1, Len(wire))
  /\ IF Stops(k)
     THEN rcv' = [rcv EXCEPT !.pc = "idle"] /\ ret' = rcv.pc
     ELSE rcv' = [rcv EXCEPT !.rcount = @ + k] /\ UNCHANGED ret
  /\ UNCHANGED <<sndVars, broken, timeVars, stream, start>>

\* What was read before the failure, returned as if it were all.
RecvFailsShort ==
  /\ rcv.pc # "idle" /\ Want > 0 /\ wire = <<>>
  /\ \/ broken = "yes" /\ broken' = "told"
     \/ broken = "no" /\ ~closed /\ rcvTimeo # 0 /\ UNCHANGED broken
  /\ rcv' = [rcv EXCEPT !.pc = "idle"] /\ ret' = rcv.pc
  /\ UNCHANGED <<sndVars, wire, buffer, timeVars, stream, start>>

\* ::recv fails: the connection is broken, or the time is out; what the call
\* has read is not given back.
RecvFails ==
  /\ rcv.pc # "idle" /\ Want > 0 /\ wire = <<>>
  /\ \/ broken = "yes" /\ broken' = "told"
     \/ broken = "no" /\ ~closed /\ rcvTimeo # 0 /\ UNCHANGED broken
  /\ rcv' = [rcv EXCEPT !.pc = "idle"] /\ ret' = "throw"
  /\ UNCHANGED <<sndVars, wire, buffer, timeVars, stream, start>>

\* A signal comes while ::recv waits.
RecvInterrupted ==
  /\ rcv.pc # "idle" /\ Want > 0 /\ wire = <<>> /\ broken = "no" /\ ~closed
  /\ rcv' = [rcv EXCEPT !.pc = "idle"] /\ ret' = "throw"
  /\ UNCHANGED <<sndVars, broken, wire, buffer, timeVars, stream, start>>

-----------------------------------------------------------------------------
SenderNext ==
  \/ \E n \in 1..MaxLen : Send(n)
  \/ \E k \in 1..MaxIO : KernelTakes(k)
  \/ SendReturns \/ SendThrows \/ SendKilled \/ SendInterrupted \/ Close

ReceiverNext ==
  \/ \E u \in Timeouts : SetRecvTimeout(u)
  \/ \E pc \in {"recv", "fully"}, n \in 0..MaxLen : Receive(pc, n)
  \/ \E k \in 0..MaxLen : RecvReturns(k)
  \/ RecvFails \/ RecvInterrupted

Next == SenderNext \/ ReceiverNext \/ Break

Spec == Init /\ [][Next]_vars

\* A ::recv that can return does, and one whose time is out fails: the receiver
\* is scheduled.  Nothing makes a signal come.
FairSpec == Spec /\ WF_vars(RecvFails \/ \E k \in 0..MaxLen : RecvReturns(k))

-----------------------------------------------------------------------------
(* Properties.                                                             *)

TypeOK ==
  /\ snd \in [pc : {"idle", "sending"}, len : 0..MaxLen, done : 0..MaxLen]
  /\ given \in 0..MaxBytes
  /\ wire \in Seq(1..MaxBytes) /\ Len(wire) <= Capacity
  /\ closed \in BOOLEAN
  /\ broken \in {"no", "yes", "told"}
  /\ rcv \in [pc : {"idle", "recv", "fully"}, len : 0..MaxLen, rcount : 0..MaxLen]
  /\ buffer \in Seq(1..MaxBytes)
  /\ ret \in {"none", "recv", "fully", "throw"}
  /\ rcvTimeo \in Nat /\ rcvTimeo < Second
  /\ asked \in Timeouts \cup {0}
  /\ stream \in Seq(1..MaxBytes)
  /\ start \in 0..MaxBytes

\* The buffer holds the bytes the call has taken off the stream, in order,
\* none missing or twice, and nothing is written past bufferLen.
BufferIsStream ==
  /\ Len(buffer) <= rcv.len
  /\ buffer = SubSeq(stream, start + 1, start + Len(buffer))
  /\ rcv.pc # "idle" => start + Len(buffer) = Len(stream) - Len(wire)

\* The requested length, or the end of the stream: a recvFully that returned
\* less had no more to wait for.
ShortOnlyAtEnd ==
  ret = "fully" /\ Len(buffer) < rcv.len =>
    wire = <<>> /\ (closed \/ broken # "no")

\* The two ends together implement the pipe: the pieces that ::recv returned to
\* a recvFully still under way count as not delivered.
Line == (IF rcv.pc = "fully" THEN buffer ELSE <<>>) \o wire

Ended == closed \/ broken # "no"

CallUnderWay ==
  IF rcv.pc = "idle" THEN [kind |-> "none", n |-> 0] ELSE [kind |-> rcv.pc, n |-> rcv.len]

LastResult ==
  [how |-> CASE ret = "none" -> "none" [] ret = "throw" -> "thrown" [] OTHER -> "returned",
   bytes |-> IF ret \in {"recv", "fully"} THEN buffer ELSE <<>>]

Pipe == INSTANCE BytePipe WITH
  Bytes <- 1..MaxBytes, line <- Line, ended <- Ended,
  call <- CallUnderWay, result <- LastResult

ImplementsPipe == Pipe!PipeSpec

\* Blocked for ever is only a recvFully whose bytes never come: one that can
\* have them all, or whose other end has closed, returns or throws.
RecvFullyEnds ==
  rcv.pc = "fully" /\ (closed \/ broken # "no" \/ Len(buffer) + Len(wire) >= rcv.len)
    ~> rcv.pc = "idle"

\* With a timeout of less than a second, no recv or recvFully blocks for ever:
\* though recvFully starts the time again with every piece, it ends.
TimeoutEnds == rcv.pc # "idle" /\ asked > 0 /\ asked < Second ~> rcv.pc = "idle"

\* CommSocket.h:36, bufferLen is the "number of bytes from buffer to be written",
\* and CommSocket.h:73-74, "Set the recv time out for a TCP connection.
\* Parameter is micro-seconds": a recvFully for bytes whose send calls have
\* returned, on a connection that works and with a timeout asked for, ends.
PromisedEnds ==
  rcv.pc = "fully" /\ given - start >= rcv.len /\ snd.pc = "idle" /\ broken = "no" /\ asked > 0
    ~> rcv.pc = "idle"
=============================================================================
