------------------------------ MODULE BytePipe ------------------------------
(***************************************************************************)
(* What CommSocket.h promises a pair of connected sockets, one direction:  *)
(* recvFully returns, in one piece, as many bytes as it was asked for, or  *)
(* all that are left when the other end has closed; recv some of the bytes *)
(* that are there.  A recvFully that throws may lose bytes, fewer than it  *)
(* was asked for, and a recv none; a connection that breaks loses what was *)
(* not delivered.                                                          *)
(***************************************************************************)
EXTENDS Naturals, Sequences

CONSTANTS Bytes, MaxLen

VARIABLES
  line,        \* bytes sent and not delivered
  ended,       \* the other end has closed, or the connection has broken
  call,        \* the call under way, if any: its kind and the length asked for
  result       \* how the last call ended, and the bytes it delivered

pipeVars == <<line, ended, call, result>>

NoCall == [kind |-> "none", n |-> 0]

NoResult == [how |-> "none", bytes |-> <<>>]

PipeInit == line = <<>> /\ ended = FALSE /\ call = NoCall /\ result = NoResult

Put ==
  /\ ~ended
  /\ \E n \in 1..MaxLen : \E bs \in [1..n -> Bytes] : line' = line \o bs
  /\ UNCHANGED <<ended, call, result>>

End == ended' = TRUE /\ UNCHANGED <<line, call, result>>

Break ==
  /\ ended' = TRUE
  /\ \E n \in 0..Len(line) : line' = SubSeq(line, 1, n)
  /\ UNCHANGED <<call, result>>

Call ==
  /\ call = NoCall
  /\ \E kind \in {"recv", "fully"}, n \in 0..MaxLen : call' = [kind |-> kind, n |-> n]
  /\ result' = NoResult
  /\ UNCHANGED <<line, ended>>

\* The call returns the first k bytes of the line.
Deliver(k) ==
  /\ result' = [how |-> "returned", bytes |-> SubSeq(line, 1, k)]
  /\ line' = SubSeq(line, k + 1, Len(line))
  /\ call' = NoCall
  /\ UNCHANGED ended

Fully ==
  /\ call.kind = "fully"
  /\ \/ call.n <= Len(line) /\ Deliver(call.n)
     \/ call.n > Len(line) /\ ended /\ Deliver(Len(line))

Some ==
  /\ call.kind = "recv"
  /\ \E k \in 0..Len(line) :
       /\ k <= call.n
       /\ k = 0 => call.n = 0 \/ (line = <<>> /\ ended)
       /\ Deliver(k)

\* The call throws, and with recvFully go the pieces it had.
Fail ==
  /\ call # NoCall
  /\ \E k \in 0..Len(line) :
       /\ k = 0 \/ (call.kind = "fully" /\ k < call.n)
       /\ line' = SubSeq(line, k + 1, Len(line))
  /\ result' = [how |-> "thrown", bytes |-> <<>>]
  /\ call' = NoCall
  /\ UNCHANGED ended

PipeNext == Put \/ End \/ Break \/ Call \/ Fully \/ Some \/ Fail

PipeSpec == PipeInit /\ [][PipeNext]_pipeVars
=============================================================================
