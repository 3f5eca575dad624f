-------------------------- MODULE CommSocketProofs ---------------------------
(***************************************************************************)
(* What holds of a pair of CommSockets for any lengths of the calls, any   *)
(* kernels and any number of bytes.                                        *)
(***************************************************************************)
EXTENDS CommSocket, SequenceTheorems, TLAPS

Byte == 1..MaxBytes

\* How many bytes of the stream have been handed over.
Taken == Len(stream) - Len(wire)

\* The kernel has no more than it was given.
SentSound ==
  /\ snd.pc = "idle" => snd.done = 0
  /\ snd.pc = "sending" => snd.done <= snd.len /\ given + snd.len <= MaxBytes
  /\ closed => snd.pc = "idle"
  /\ Len(stream) <= given + snd.done

\* The wire is the end of the stream.
WireSound ==
  /\ Taken \in Nat
  /\ \A i \in 1..Len(wire) : wire[i] = stream[Taken + i]

\* The buffer is the part of it that the call has taken.
BufferSound ==
  /\ Len(buffer) <= rcv.len
  /\ start + Len(buffer) <= Taken
  /\ \A i \in 1..Len(buffer) : buffer[i] = stream[start + i]
  /\ rcv.pc # "idle" => rcv.rcount = Len(buffer) /\ start + Len(buffer) = Taken
  /\ rcv.pc = "recv" => rcv.rcount = 0

IInv == TypeOK /\ SentSound /\ WireSound /\ BufferSound /\ ShortOnlyAtEnd

-----------------------------------------------------------------------------
LEMMA ConstantFacts ==
  /\ MaxLen \in Nat /\ MaxLen > 0 /\ MaxBytes \in Nat /\ MaxBytes > 0
  /\ Capacity \in Nat /\ Capacity > 0 /\ MaxIO \in Nat /\ MaxIO > 0
  /\ Timeouts \subseteq Nat /\ Second \in Nat /\ Second > 0
BY CommAssumption DEF Second

LEMMA Numbers ==
  ASSUME TypeOK
  PROVE  /\ snd.done \in Nat /\ snd.done <= MaxLen /\ snd.len \in Nat /\ snd.len <= MaxLen
         /\ given \in Nat /\ given <= MaxBytes /\ start \in Nat /\ start <= MaxBytes
         /\ rcv.len \in Nat /\ rcv.len <= MaxLen /\ rcv.rcount \in Nat /\ rcv.rcount <= MaxLen
         /\ rcv.pc \in {"idle", "recv", "fully"} /\ snd.pc \in {"idle", "sending"}
BY ConstantFacts DEF TypeOK

LEMMA Lengths ==
  ASSUME TypeOK
  PROVE  /\ wire \in Seq(Byte) /\ stream \in Seq(Byte) /\ buffer \in Seq(Byte)
         /\ Len(wire) \in Nat /\ Len(stream) \in Nat /\ Len(buffer) \in Nat
<1>1. wire \in Seq(Byte) /\ stream \in Seq(Byte) /\ buffer \in Seq(Byte)
  BY DEF TypeOK, Byte
<1>. QED
  BY <1>1, LenProperties

LEMMA IntervalFacts ==
  ASSUME NEW a \in Nat, NEW k \in Nat, a + k <= MaxBytes
  PROVE  /\ Interval(a, a + k) \in Seq(Byte)
         /\ Len(Interval(a, a + k)) = k
<1>1. (a + k) - a = k
  OBVIOUS
<1>2. \A i \in 1..k : a + i \in Byte
  BY ConstantFacts DEF Byte
<1>3. Interval(a, a + k) \in [1..k -> Byte]
  BY <1>1, <1>2 DEF Interval
<1>4. Interval(a, a + k) \in Seq(Byte)
  BY <1>3, SeqDef
<1>. QED
  BY <1>3, <1>4, LenProperties

LEMMA PieceFacts ==
  ASSUME NEW s \in Seq(Byte), NEW m \in Nat, NEW n \in Nat, 1 <= m, m <= n + 1, n <= Len(s)
  PROVE  /\ SubSeq(s, m, n) \in Seq(Byte)
         /\ Len(SubSeq(s, m, n)) = n - m + 1
         /\ \A i \in 1..(n - m + 1) : SubSeq(s, m, n)[i] = s[m + i - 1]
<1>1. Len(s) \in Nat
  BY LenProperties
<1>2. \A i \in m..n : s[i] \in Byte
  BY <1>1, ElementOfSeq
<1>3. m \in Int /\ n \in Int
  OBVIOUS
<1>4. /\ SubSeq(s, m, n) \in Seq(Byte)
      /\ Len(SubSeq(s, m, n)) = IF m <= n THEN n - m + 1 ELSE 0
      /\ \A i \in 1..(n - m + 1) : SubSeq(s, m, n)[i] = s[m + i - 1]
  BY <1>2, <1>3, SubSeqProperties
<1>5. m <= n \/ n - m + 1 = 0
  OBVIOUS
<1>. QED
  BY <1>4, <1>5

LEMMA InitSound == Init => IInv
<1>. SUFFICES ASSUME Init PROVE IInv
  OBVIOUS
<1>1. <<>> \in Seq(1..MaxBytes) /\ Len(<<>>) = 0
  BY EmptySeq
<1>2. TypeOK
  <2>1. /\ snd \in [pc : {"idle", "sending"}, len : 0..MaxLen, done : 0..MaxLen]
        /\ rcv \in [pc : {"idle", "recv", "fully"}, len : 0..MaxLen, rcount : 0..MaxLen]
    BY ConstantFacts DEF Init, Idle, NotSending
  <2>2. wire \in Seq(1..MaxBytes) /\ buffer \in Seq(1..MaxBytes) /\ stream \in Seq(1..MaxBytes)
        /\ Len(wire) <= Capacity
    BY <1>1, ConstantFacts DEF Init
  <2>3. given \in 0..MaxBytes /\ start \in 0..MaxBytes /\ rcvTimeo \in Nat /\ rcvTimeo < Second
    BY ConstantFacts DEF Init
  <2>. QED
    BY <2>1, <2>2, <2>3 DEF Init, TypeOK
<1>. QED
  BY <1>1, <1>2, ConstantFacts
     DEF Init, IInv, SentSound, WireSound, BufferSound, ShortOnlyAtEnd, Taken, Idle, NotSending

-----------------------------------------------------------------------------
(* The sending end.                                                        *)

\* The receiver's side of the invariant is about the bytes it has taken.
LEMMA BufferKept ==
  ASSUME IInv, UNCHANGED rcvVars, Taken' = Taken,
         \A i \in 1..Taken : stream'[i] = stream[i]
  PROVE  BufferSound'
<1>1. start + Len(buffer) <= Taken /\ Len(buffer) \in Nat /\ start \in Nat /\ Taken \in Nat
      /\ \A i \in 1..Len(buffer) : buffer[i] = stream[start + i]
  BY Numbers, Lengths DEF IInv, BufferSound, WireSound
<1>2. \A i \in 1..Len(buffer) : stream'[start + i] = stream[start + i]
  BY <1>1
<1>3. buffer' = buffer /\ start' = start /\ rcv' = rcv
  BY DEF rcvVars
<1>. QED
  BY <1>1, <1>2, <1>3 DEF IInv, BufferSound

\* A step of the sender that gives the kernel nothing.
LEMMA SenderSound ==
  ASSUME IInv, UNCHANGED <<wire, broken, rcvVars, timeVars, stream>>,
         snd' \in [pc : {"idle", "sending"}, len : 0..MaxLen, done : 0..MaxLen],
         given' \in 0..MaxBytes, closed' \in BOOLEAN,
         closed => closed',
         SentSound'
  PROVE  IInv'
<1>1. TypeOK'
  BY DEF IInv, TypeOK, rcvVars, timeVars
<1>2. WireSound' /\ Taken' = Taken
  BY DEF IInv, WireSound, Taken
<1>3. BufferSound'
  BY <1>2, BufferKept
<1>4. ShortOnlyAtEnd'
  BY DEF IInv, ShortOnlyAtEnd, rcvVars
<1>. QED
  BY <1>1, <1>2, <1>3, <1>4 DEF IInv

LEMMA SendSound ==
  ASSUME IInv, NEW n \in 1..MaxLen, Send(n)
  PROVE  IInv'
<1>1. /\ snd.pc = "idle" /\ ~closed /\ given + n <= MaxBytes
      /\ snd' = [pc |-> "sending", len |-> n, done |-> 0]
      /\ UNCHANGED <<given, closed, wire, broken, rcvVars, timeVars, stream>>
  BY DEF Send
<1>2. SentSound'
  <2>1. snd'.pc = "sending" /\ snd'.len = n /\ snd'.done = 0 /\ snd.done = 0
    BY <1>1 DEF IInv, SentSound
  <2>2. n \in Nat /\ n > 0 /\ given \in Nat /\ Len(stream) \in Nat
    BY Numbers, Lengths, ConstantFacts DEF IInv
  <2>6. Len(stream) <= given
    BY <2>1, <2>2 DEF IInv, SentSound
  <2>. QED
    BY <1>1, <2>1, <2>2, <2>6 DEF SentSound
<1>3. /\ snd' \in [pc : {"idle", "sending"}, len : 0..MaxLen, done : 0..MaxLen]
      /\ given' \in 0..MaxBytes /\ closed' \in BOOLEAN
  BY <1>1, ConstantFacts DEF IInv, TypeOK
<1>. QED
  BY <1>1, <1>2, <1>3, SenderSound

\* What the kernel takes is what the call has left, at the end of wire and stream.
LEMMA KernelTakesSound ==
  ASSUME IInv, NEW k \in 1..MaxIO, KernelTakes(k)
  PROVE  IInv'
<1>. DEFINE a == given + snd.done
<1>1. /\ snd.pc = "sending" /\ broken = "no"
      /\ k <= MinOf(snd.len, MaxIO) - snd.done
      /\ Len(wire) + k <= Capacity
      /\ wire' = wire \o Interval(a, a + k) /\ stream' = stream \o Interval(a, a + k)
      /\ snd' = [snd EXCEPT !.done = @ + k]
      /\ UNCHANGED <<given, closed, broken, rcvVars, timeVars>>
  BY DEF KernelTakes
<1>2. k \in Nat /\ k > 0 /\ k <= snd.len - snd.done
  <2>1. k <= MinOf(snd.len, MaxIO) - snd.done
    BY <1>1
  <2>2. MinOf(snd.len, MaxIO) \in Nat /\ MinOf(snd.len, MaxIO) <= snd.len /\ snd.done \in Nat /\ snd.len \in Nat
    BY Numbers, ConstantFacts DEF IInv, MinOf
  <2>. QED
    BY <2>1, <2>2, ConstantFacts
<1>3. a \in Nat /\ a + k <= MaxBytes
  <2>1. snd.done <= snd.len /\ given + snd.len <= MaxBytes /\ given \in Nat /\ snd.done \in Nat /\ snd.len \in Nat
    BY <1>1, Numbers DEF IInv, SentSound
  <2>. QED
    BY <1>2, <2>1, ConstantFacts
<1>4. PICK bytes \in Seq(Byte) : Len(bytes) = k /\ wire' = wire \o bytes /\ stream' = stream \o bytes
  BY <1>1, <1>2, <1>3, IntervalFacts
<1>. HIDE DEF a
<1>5. /\ wire' \in Seq(Byte) /\ Len(wire') = Len(wire) + k
      /\ \A i \in 1..(Len(wire) + k) : wire'[i] = IF i <= Len(wire) THEN wire[i] ELSE bytes[i - Len(wire)]
  BY <1>4, Numbers, Lengths, ConcatProperties DEF IInv
<1>6. /\ stream' \in Seq(Byte) /\ Len(stream') = Len(stream) + k
      /\ \A i \in 1..(Len(stream) + k) : stream'[i] = IF i <= Len(stream) THEN stream[i] ELSE bytes[i - Len(stream)]
  BY <1>4, Numbers, Lengths, ConcatProperties DEF IInv
<1>7. /\ snd' \in [pc : {"idle", "sending"}, len : 0..MaxLen, done : 0..MaxLen]
      /\ snd'.pc = "sending" /\ snd'.len = snd.len /\ snd'.done = snd.done + k
  <2>1. snd \in [pc : {"idle", "sending"}, len : 0..MaxLen, done : 0..MaxLen]
    BY DEF IInv, TypeOK
  <2>2. snd.done \in Nat /\ snd.len \in Nat /\ snd.len <= MaxLen
    BY Numbers DEF IInv
  <2>3. snd.done + k \in 0..MaxLen
    BY <1>2, <2>2, ConstantFacts
  <2>. QED
    BY <1>1, <2>1, <2>3
<1>8. TypeOK'
  BY <1>1, <1>5, <1>6, <1>7 DEF IInv, TypeOK, Byte, rcvVars, timeVars
<1>9. SentSound'
  <2>1. UNCHANGED <<given, closed, broken>> /\ snd.pc = "sending" /\ Len(stream') = Len(stream) + k
    BY <1>1, <1>6
  <2>2. snd.done \in Nat /\ snd.len \in Nat /\ given \in Nat /\ Len(stream) \in Nat
    BY Numbers, Lengths DEF IInv
  <2>3. /\ ~closed /\ given + snd.len <= MaxBytes
        /\ Len(stream) <= given + snd.done
    BY <2>1 DEF IInv, SentSound
  <2>4. given' = given /\ broken' = broken /\ closed' = closed
    BY <2>1
  <2>5. Len(stream') <= given' + snd'.done /\ snd'.done <= snd'.len
    BY <1>2, <1>7, <2>1, <2>2, <2>3, <2>4
  <2>. QED
    BY <1>7, <2>1, <2>3, <2>4, <2>5 DEF SentSound
<1>10. Taken' = Taken /\ Taken \in Nat
  BY <1>5, <1>6, Numbers, Lengths DEF IInv, WireSound, Taken
<1>14. Len(wire) \in Nat /\ Len(stream) \in Nat
  BY Lengths DEF IInv
<1>15. ASSUME NEW j \in 1..Len(stream)
       PROVE  stream'[j] = stream[j]
  <2>1. j \in 1..(Len(stream) + k) /\ j <= Len(stream)
    BY <1>2, <1>14
  <2>. QED
    BY <1>6, <2>1
<1>16. ASSUME NEW j \in 1..(Len(stream) + k), j > Len(stream)
       PROVE  stream'[j] = bytes[j - Len(stream)]
  <2>1. ~(j <= Len(stream))
    BY <1>2, <1>14, <1>16
  <2>. QED
    BY <1>6, <2>1
<1>11. WireSound'
  <2>1. ASSUME NEW i \in 1..Len(wire') PROVE wire'[i] = stream'[Taken + i]
    <3>1. CASE i <= Len(wire)
      <4>1. wire'[i] = wire[i] /\ wire[i] = stream[Taken + i]
        BY <1>5, <3>1, Numbers, Lengths DEF IInv, WireSound
      <4>2. Taken + i \in 1..Len(stream)
        BY <1>10, <3>1, Numbers, Lengths DEF IInv, Taken
      <4>. QED
        BY <1>15, <4>1, <4>2
    <3>2. CASE i > Len(wire)
      <4>1. wire'[i] = bytes[i - Len(wire)]
        BY <1>5, <3>2, Lengths DEF IInv
      <4>2. Taken + i \in 1..(Len(stream) + k) /\ Taken + i > Len(stream)
            /\ Taken + i - Len(stream) = i - Len(wire)
        BY <1>2, <1>5, <1>10, <3>2, Numbers, Lengths DEF IInv, Taken
      <4>3. PICK j \in 1..(Len(stream) + k) : j = Taken + i
        BY <4>2
      <4>4. stream'[j] = bytes[j - Len(stream)]
        <5>1. j > Len(stream)
          BY <4>2, <4>3
        <5>. QED
          BY <1>16, <5>1
      <4>5. PICK x : x = Taken + i
        OBVIOUS
      <4>6. j = x /\ j - Len(stream) = i - Len(wire)
        BY <1>10, <1>14, <4>2, <4>3, <4>5
      <4>7. wire'[i] = stream'[x]
        BY <4>1, <4>4, <4>6
      <4>. QED
        BY <4>5, <4>7
    <3>. QED
      BY <3>1, <3>2, <1>2, <1>5, <1>14
  <2>. QED
    BY <1>10, <2>1 DEF WireSound
<1>12. BufferSound'
  <2>1. \A i \in 1..Taken : stream'[i] = stream[i]
    <3>1. \A i \in 1..Taken : i \in 1..Len(stream)
      BY <1>10, <1>14, Lengths DEF IInv, Taken
    <3>. QED
      BY <1>15, <3>1
  <2>. QED
    BY <1>1, <1>10, <2>1, BufferKept
<1>13. ShortOnlyAtEnd'
  BY <1>1 DEF IInv, ShortOnlyAtEnd, SentSound, rcvVars
<1>. QED
  BY <1>8, <1>9, <1>11, <1>12, <1>13 DEF IInv

\* A send call that is over, with its bytes given or none.
LEMMA SendOverSound ==
  ASSUME IInv, snd.pc = "sending", snd' = NotSending,
         UNCHANGED <<wire, broken, rcvVars, timeVars, stream>>,
         closed' \in BOOLEAN, closed => closed',
         given' = given + snd.len \/ (given' = given /\ snd.done = 0)
  PROVE  IInv'
<1>1. NotSending.pc = "idle" /\ NotSending.len = 0 /\ NotSending.done = 0
      /\ NotSending \in [pc : {"idle", "sending"}, len : 0..MaxLen, done : 0..MaxLen]
  BY ConstantFacts DEF NotSending
<1>2. given' \in 0..MaxBytes
  BY Numbers, Lengths, ConstantFacts DEF IInv, SentSound
<1>3. SentSound'
  BY <1>1, Numbers, Lengths, ConstantFacts DEF IInv, SentSound
<1>. QED
  BY <1>1, <1>2, <1>3, SenderSound

\* ::send returns, fails, kills the process or is interrupted.
LEMMA SendEndsSound == IInv /\ (SendReturns \/ SendThrows \/ SendKilled \/ SendInterrupted) => IInv'
<1>. SUFFICES ASSUME IInv, SendReturns \/ SendThrows \/ SendKilled \/ SendInterrupted PROVE IInv'
  OBVIOUS
<1>1. /\ snd.pc = "sending" /\ snd' = NotSending
      /\ given' = given + snd.len \/ (given' = given /\ snd.done = 0)
      /\ closed' = closed \/ closed' = TRUE
      /\ UNCHANGED <<wire, broken, rcvVars, timeVars, stream>>
  BY DEF SendReturns, SendThrows, SendKilled, SendInterrupted
<1>2. closed \in BOOLEAN
  BY DEF IInv, TypeOK
<1>3. closed' \in BOOLEAN /\ (closed => closed')
  <2>1. CASE closed' = closed
    BY <1>2, <2>1
  <2>2. CASE closed' = TRUE
    BY <2>2
  <2>. QED
    BY <1>1, <2>1, <2>2
<1>. QED
  BY <1>1, <1>3, SendOverSound

LEMMA CloseSound == IInv /\ Close => IInv'
<1>. SUFFICES ASSUME IInv, Close PROVE IInv'
  OBVIOUS
<1>1. /\ snd.pc = "idle" /\ ~closed /\ closed' = TRUE
      /\ UNCHANGED <<snd, given, wire, broken, rcvVars, timeVars, stream>>
  BY DEF Close
<1>2. SentSound'
  BY <1>1 DEF IInv, SentSound
<1>. QED
  BY <1>1, <1>2, SenderSound DEF IInv, TypeOK

\* A reset takes bytes off the end of the wire and of the stream.
LEMMA BreakSound == IInv /\ Break => IInv'
<1>. SUFFICES ASSUME IInv, Break PROVE IInv'
  OBVIOUS
<1>1. broken = "no" /\ broken' = "yes" /\ UNCHANGED <<sndVars, rcvVars, timeVars>>
  BY DEF Break
<1>2. PICK n \in 0..Len(wire) :
        /\ wire' = SubSeq(wire, 1, n)
        /\ stream' = SubSeq(stream, 1, Len(stream) - Len(wire) + n)
  BY DEF Break
<1>3. /\ wire \in Seq(Byte) /\ stream \in Seq(Byte)
      /\ Len(wire) \in Nat /\ Len(stream) \in Nat /\ n \in Nat /\ n <= Len(wire)
      /\ Taken \in Nat /\ Taken = Len(stream) - Len(wire)
  BY Lengths DEF IInv, WireSound, Taken
<1>4. /\ wire' \in Seq(Byte) /\ Len(wire') = n
      /\ \A i \in 1..n : wire'[i] = wire[i]
  <2>1. SubSeq(wire, 1, n) \in Seq(Byte) /\ Len(SubSeq(wire, 1, n)) = n - 1 + 1
        /\ \A i \in 1..(n - 1 + 1) : SubSeq(wire, 1, n)[i] = wire[1 + i - 1]
    BY <1>3, PieceFacts
  <2>2. n - 1 + 1 = n /\ \A i \in 1..n : 1 + i - 1 = i
    BY <1>3
  <2>. QED
    BY <1>2, <2>1, <2>2
<1>5. /\ stream' \in Seq(Byte) /\ Len(stream') = Taken + n
      /\ \A i \in 1..(Taken + n) : stream'[i] = stream[i]
  <2>. DEFINE m == Taken + n
  <2>1. m \in Nat /\ m <= Len(stream) /\ m = Len(stream) - Len(wire) + n
    BY <1>3
  <2>. HIDE DEF m
  <2>2. SubSeq(stream, 1, m) \in Seq(Byte) /\ Len(SubSeq(stream, 1, m)) = m - 1 + 1
        /\ \A i \in 1..(m - 1 + 1) : SubSeq(stream, 1, m)[i] = stream[1 + i - 1]
    BY <1>3, <2>1, PieceFacts
  <2>3. m - 1 + 1 = m /\ \A i \in 1..m : 1 + i - 1 = i
    BY <2>1
  <2>4. stream' = SubSeq(stream, 1, m)
    BY <1>2, <2>1
  <2>5. stream' \in Seq(Byte) /\ Len(stream') = m /\ \A i \in 1..m : stream'[i] = stream[i]
    BY <2>2, <2>3, <2>4
  <2>. QED
    BY <2>5 DEF m
<1>6. TypeOK'
  <2>1. Len(wire) <= Capacity
    BY DEF IInv, TypeOK
  <2>2. Len(wire') <= Capacity
    BY <1>3, <1>4, <2>1, ConstantFacts
  <2>. QED
    BY <1>1, <1>4, <1>5, <2>2 DEF IInv, TypeOK, Byte, sndVars, rcvVars, timeVars
<1>7. SentSound'
  <2>1. snd' = snd /\ given' = given /\ closed' = closed /\ Len(stream') <= Len(stream)
    BY <1>1, <1>3, <1>5 DEF sndVars
  <2>2. snd.done \in Nat /\ given \in Nat /\ Len(stream') \in Nat
    BY <1>3, <1>5, Numbers DEF IInv
  <2>3. Len(stream') <= given + snd.done
    BY <1>3, <2>1, <2>2 DEF IInv, SentSound
  <2>. QED
    BY <1>1, <2>1, <2>3 DEF IInv, SentSound
<1>8. Taken' = Taken
  BY <1>3, <1>4, <1>5 DEF Taken
<1>9. WireSound'
  <2>1. ASSUME NEW i \in 1..n PROVE wire'[i] = stream'[Taken + i]
    <3>1. wire[i] = stream[Taken + i]
      BY <1>3 DEF IInv, WireSound
    <3>2. Taken + i \in 1..(Taken + n)
      BY <1>3
    <3>. QED
      BY <1>4, <1>5, <3>1, <3>2
  <2>. QED
    BY <1>3, <1>4, <1>8, <2>1 DEF WireSound
<1>10. BufferSound'
  <2>1. \A i \in 1..Taken : stream'[i] = stream[i]
    BY <1>3, <1>5
  <2>. QED
    BY <1>1, <1>8, <2>1, BufferKept
<1>11. ShortOnlyAtEnd'
  <2>1. wire = <<>> => wire' = <<>>
    BY <1>3, <1>4, EmptySeq
  <2>. QED
    BY <1>1, <2>1 DEF IInv, ShortOnlyAtEnd, rcvVars
<1>. QED
  BY <1>6, <1>7, <1>9, <1>10, <1>11 DEF IInv

-----------------------------------------------------------------------------
(* The receiving end.                                                      *)

LEMMA SetRecvTimeoutSound ==
  ASSUME IInv, NEW u \in Timeouts, SetRecvTimeout(u)
  PROVE  IInv'
<1>1. /\ rcvTimeo' = (IF u < Second THEN u ELSE rcvTimeo) /\ asked' = u
      /\ UNCHANGED <<sndVars, wire, broken, rcvVars, stream>>
  BY DEF SetRecvTimeout
<1>2. rcvTimeo' \in Nat /\ rcvTimeo' < Second
  BY <1>1, ConstantFacts DEF IInv, TypeOK
<1>3. TypeOK'
  BY <1>1, <1>2 DEF IInv, TypeOK, sndVars, rcvVars
<1>4. Taken' = Taken /\ WireSound' /\ SentSound'
  BY <1>1 DEF IInv, WireSound, SentSound, Taken, sndVars
<1>5. BufferSound'
  BY <1>1, <1>4, BufferKept
<1>6. ShortOnlyAtEnd'
  BY <1>1 DEF IInv, ShortOnlyAtEnd, sndVars, rcvVars
<1>. QED
  BY <1>3, <1>4, <1>5, <1>6 DEF IInv

LEMMA ReceiveSound ==
  ASSUME IInv, NEW pc \in {"recv", "fully"}, NEW n \in 0..MaxLen, Receive(pc, n)
  PROVE  IInv'
<1>1. /\ rcv' = [pc |-> pc, len |-> n, rcount |-> 0] /\ buffer' = <<>> /\ ret' = "none"
      /\ start' = Taken
      /\ UNCHANGED <<sndVars, wire, broken, timeVars, stream>>
  BY DEF Receive, Taken
<1>2. /\ rcv'.pc = pc /\ rcv'.len = n /\ rcv'.rcount = 0
      /\ rcv' \in [pc : {"idle", "recv", "fully"}, len : 0..MaxLen, rcount : 0..MaxLen]
  BY <1>1, ConstantFacts
<1>3. buffer' \in Seq(Byte) /\ Len(buffer') = 0
  BY <1>1, EmptySeq
<1>4. Taken \in 0..MaxBytes
  <2>1. Len(stream) <= given + snd.done /\ Len(stream) \in Nat /\ Len(wire) \in Nat /\ Taken \in Nat
        /\ given \in Nat /\ snd.done \in Nat /\ given <= MaxBytes
    BY Numbers, Lengths DEF IInv, SentSound, WireSound
  <2>2. given + snd.done <= MaxBytes
    <3>1. snd.len \in Nat /\ (snd.pc = "idle" \/ snd.pc = "sending")
      BY Numbers DEF IInv
    <3>. QED
      BY <2>1, <3>1, ConstantFacts DEF IInv, SentSound
  <2>. QED
    BY <2>1, <2>2, ConstantFacts DEF Taken
<1>5. TypeOK'
  BY <1>1, <1>2, <1>3, <1>4 DEF IInv, TypeOK, Byte, sndVars, timeVars
<1>6. Taken' = Taken /\ WireSound' /\ SentSound'
  BY <1>1 DEF IInv, WireSound, SentSound, Taken, sndVars
<1>7. BufferSound'
  BY <1>1, <1>2, <1>3, <1>4, <1>6 DEF BufferSound
<1>8. ShortOnlyAtEnd'
  BY <1>1 DEF ShortOnlyAtEnd
<1>. QED
  BY <1>5, <1>6, <1>7, <1>8 DEF IInv

\* The piece moves from the beginning of the wire to the end of what is in the
\* buffer.
LEMMA RecvReturnsSound ==
  ASSUME IInv, NEW k \in 0..MaxLen, RecvReturns(k)
  PROVE  IInv'
<1>1. /\ rcv.pc # "idle"
      /\ \/ k \in 1..MinOf(Want, Len(wire))
         \/ k = 0 /\ (Want = 0 \/ (wire = <<>> /\ (broken = "told" \/ (closed /\ broken = "no"))))
      /\ buffer' = SubSeq(buffer, 1, rcv.rcount) \o SubSeq(wire, 1, k)
      /\ wire' = SubSeq(wire, k + 1, Len(wire))
      /\ UNCHANGED <<sndVars, broken, timeVars, stream, start>>
  BY DEF RecvReturns, PutAt
<1>2. /\ rcv.rcount = Len(buffer) /\ start + Len(buffer) = Taken
      /\ Taken = Len(stream) - Len(wire) /\ Taken \in Nat
      /\ Len(buffer) <= rcv.len
  BY <1>1 DEF IInv, BufferSound, WireSound, Taken
<1>3. /\ wire \in Seq(Byte) /\ stream \in Seq(Byte) /\ buffer \in Seq(Byte)
      /\ Len(wire) \in Nat /\ Len(stream) \in Nat /\ Len(buffer) \in Nat
      /\ rcv.len \in Nat /\ rcv.len <= MaxLen /\ start \in Nat
  BY Numbers, Lengths DEF IInv
<1>4. /\ k \in Nat /\ k <= Len(wire) /\ k <= rcv.len - Len(buffer)
  <2>1. Want \in Nat /\ Want = rcv.len - Len(buffer)
    BY <1>2, <1>3 DEF Want
  <2>2. k = 0 \/ (k <= Want /\ k <= Len(wire))
    BY <1>1, <1>3, <2>1 DEF MinOf
  <2>. QED
    BY <1>3, <2>1, <2>2, ConstantFacts
<1>5. PICK old \in Seq(Byte) : /\ old = SubSeq(buffer, 1, rcv.rcount) /\ Len(old) = Len(buffer)
                              /\ \A i \in 1..Len(buffer) : old[i] = buffer[i]
  <2>1. SubSeq(buffer, 1, Len(buffer)) = buffer
    BY <1>3, SubSeqFull
  <2>. QED
    BY <1>2, <1>3, <2>1
<1>6. PICK piece \in Seq(Byte) : /\ piece = SubSeq(wire, 1, k) /\ Len(piece) = k
                                /\ \A i \in 1..k : piece[i] = wire[i]
  <2>1. SubSeq(wire, 1, k) \in Seq(Byte) /\ Len(SubSeq(wire, 1, k)) = k - 1 + 1
        /\ \A i \in 1..(k - 1 + 1) : SubSeq(wire, 1, k)[i] = wire[1 + i - 1]
    BY <1>3, <1>4, PieceFacts
  <2>2. k - 1 + 1 = k /\ \A i \in 1..k : 1 + i - 1 = i
    BY <1>4
  <2>. QED
    BY <2>1, <2>2
<1>7. /\ buffer' \in Seq(Byte) /\ Len(buffer') = Len(buffer) + k
      /\ \A i \in 1..(Len(buffer) + k) : buffer'[i] = IF i <= Len(buffer) THEN buffer[i] ELSE wire[i - Len(buffer)]
  <2>1. buffer' = old \o piece
    BY <1>1, <1>5, <1>6
  <2>2. /\ old \o piece \in Seq(Byte) /\ Len(old \o piece) = Len(old) + Len(piece)
        /\ \A i \in 1..(Len(old) + Len(piece)) :
             (old \o piece)[i] = IF i <= Len(old) THEN old[i] ELSE piece[i - Len(old)]
    BY ConcatProperties
  <2>3. /\ old \o piece \in Seq(Byte) /\ Len(old \o piece) = Len(buffer) + k
        /\ \A i \in 1..(Len(buffer) + k) :
             (old \o piece)[i] = IF i <= Len(buffer) THEN old[i] ELSE piece[i - Len(buffer)]
    BY <1>5, <1>6, <2>2
  <2>4. ASSUME NEW i \in 1..(Len(buffer) + k)
        PROVE  (old \o piece)[i] = IF i <= Len(buffer) THEN buffer[i] ELSE wire[i - Len(buffer)]
    <3>1. CASE i <= Len(buffer)
      BY <1>3, <1>4, <1>5, <2>3, <3>1
    <3>2. CASE ~(i <= Len(buffer))
      <4>1. i - Len(buffer) \in 1..k
        BY <1>3, <1>4, <3>2
      <4>. QED
        BY <1>6, <2>3, <3>2, <4>1
    <3>. QED
      BY <3>1, <3>2
  <2>. QED
    BY <2>1, <2>3, <2>4
<1>8. /\ wire' \in Seq(Byte) /\ Len(wire') = Len(wire) - k
      /\ \A i \in 1..(Len(wire) - k) : wire'[i] = wire[k + i]
  <2>1. SubSeq(wire, k + 1, Len(wire)) \in Seq(Byte)
        /\ Len(SubSeq(wire, k + 1, Len(wire))) = Len(wire) - (k + 1) + 1
        /\ \A i \in 1..(Len(wire) - (k + 1) + 1) : SubSeq(wire, k + 1, Len(wire))[i] = wire[(k + 1) + i - 1]
    BY <1>3, <1>4, PieceFacts
  <2>2. Len(wire) - (k + 1) + 1 = Len(wire) - k /\ \A i \in 1..(Len(wire) - k) : (k + 1) + i - 1 = k + i
    BY <1>3, <1>4
  <2>. QED
    BY <1>1, <2>1, <2>2
<1>9. /\ rcv' \in [pc : {"idle", "recv", "fully"}, len : 0..MaxLen, rcount : 0..MaxLen]
      /\ rcv'.len = rcv.len /\ ret' \in {"none", "recv", "fully", "throw"}
      /\ rcv'.pc # "idle" => rcv'.pc = "fully" /\ rcv'.rcount = Len(buffer) + k /\ UNCHANGED ret
  <2>1. rcv \in [pc : {"idle", "recv", "fully"}, len : 0..MaxLen, rcount : 0..MaxLen]
        /\ ret \in {"none", "recv", "fully", "throw"}
    BY DEF IInv, TypeOK
  <2>2. CASE Stops(k)
    <3>1. rcv' = [rcv EXCEPT !.pc = "idle"] /\ ret' = rcv.pc
      BY <2>2 DEF RecvReturns
    <3>. QED
      BY <1>1, <2>1, <3>1
  <2>3. CASE ~Stops(k)
    <3>1. rcv' = [rcv EXCEPT !.rcount = @ + k] /\ ret' = ret /\ rcv.pc # "recv"
      BY <2>3 DEF RecvReturns, Stops
    <3>2. Len(buffer) + k \in 0..MaxLen /\ rcv.rcount + k = Len(buffer) + k
      BY <1>2, <1>3, <1>4, ConstantFacts
    <3>. QED
      BY <2>1, <3>1, <3>2
  <2>. QED
    BY <2>2, <2>3
<1>10. Len(wire') <= Capacity
  <2>1. Len(wire) <= Capacity
    BY DEF IInv, TypeOK
  <2>. QED
    BY <1>3, <1>4, <1>8, <2>1, ConstantFacts
<1>11. TypeOK'
  BY <1>1, <1>7, <1>8, <1>9, <1>10 DEF IInv, TypeOK, Byte, sndVars, timeVars
<1>12. SentSound'
  BY <1>1 DEF IInv, SentSound, sndVars
<1>13. Taken' = Taken + k /\ start' = start /\ stream' = stream
  <2>1. start' = start /\ stream' = stream
    BY <1>1
  <2>2. Taken' = Len(stream) - (Len(wire) - k)
    BY <1>8, <2>1 DEF Taken
  <2>. QED
    BY <1>2, <1>3, <1>4, <2>1, <2>2
<1>14. WireSound'
  <2>1. ASSUME NEW i \in 1..(Len(wire) - k) PROVE wire'[i] = stream'[Taken' + i]
    <3>1. k + i \in 1..Len(wire) /\ Taken + k + i = Taken + (k + i)
      BY <1>2, <1>3, <1>4
    <3>2. wire[k + i] = stream[Taken + (k + i)]
      BY <3>1 DEF IInv, WireSound
    <3>. QED
      BY <1>8, <1>13, <3>1, <3>2
  <2>2. Taken' \in Nat
    BY <1>2, <1>4, <1>13
  <2>. QED
    BY <1>8, <2>1, <2>2 DEF WireSound
<1>15. BufferSound'
  <2>1. ASSUME NEW i \in 1..(Len(buffer) + k) PROVE buffer'[i] = stream'[start' + i]
    <3>1. CASE i <= Len(buffer)
      <4>1. i \in 1..Len(buffer)
        BY <1>3, <1>4, <3>1
      <4>2. buffer[i] = stream[start + i]
        BY <4>1 DEF IInv, BufferSound
      <4>. QED
        BY <1>7, <1>13, <3>1, <4>2
    <3>2. CASE i > Len(buffer)
      <4>1. i - Len(buffer) \in 1..Len(wire) /\ Taken + (i - Len(buffer)) = start + i
        <5>1. i \in Nat /\ i > Len(buffer) /\ i <= Len(buffer) + k /\ Len(buffer) \in Nat /\ k \in Nat
              /\ k <= Len(wire) /\ Len(wire) \in Nat /\ start \in Nat /\ Taken = start + Len(buffer)
          BY <1>2, <1>3, <1>4, <3>2
        <5>. QED
          BY <5>1
      <4>2. wire[i - Len(buffer)] = stream[Taken + (i - Len(buffer))]
        BY <4>1 DEF IInv, WireSound
      <4>3. ~(i <= Len(buffer))
        BY <1>3, <3>2
      <4>. QED
        BY <1>7, <1>13, <4>1, <4>2, <4>3
    <3>. QED
      BY <1>3, <3>1, <3>2
  <2>2. Len(buffer') <= rcv'.len /\ start' + Len(buffer') = Taken' /\ start' + Len(buffer') <= Taken'
    <3>1. Len(buffer) + k <= rcv.len
      BY <1>3, <1>4
    <3>2. start + (Len(buffer) + k) = Taken + k /\ Taken + k \in Nat
      <4>1. Len(buffer) \in Nat /\ k \in Nat /\ start \in Nat /\ Taken = start + Len(buffer)
        BY <1>2, <1>3, <1>4
      <4>. QED
        BY <4>1
    <3>3. Len(buffer') = Len(buffer) + k /\ rcv'.len = rcv.len /\ Taken' = Taken + k /\ start' = start
      BY <1>7, <1>9, <1>13
    <3>4. Taken' <= Taken'
      BY <3>2, <3>3
    <3>. QED
      BY <3>1, <3>2, <3>3, <3>4
  <2>. QED
    BY <1>7, <1>9, <2>1, <2>2 DEF BufferSound
<1>16. ShortOnlyAtEnd'
  <2>. SUFFICES ASSUME ret' = "fully", Len(buffer') < rcv'.len
                PROVE  wire' = <<>> /\ (closed' \/ broken' # "no")
    BY DEF ShortOnlyAtEnd
  <2>1. CASE k = 0 /\ wire = <<>> /\ (broken = "told" \/ (closed /\ broken = "no"))
    <3>1. Len(wire') = 0
      BY <1>3, <1>8, <2>1, EmptySeq
    <3>2. wire' = <<>>
      BY <1>8, <3>1, EmptySeq
    <3>. QED
      BY <1>1, <2>1, <3>2 DEF sndVars
  <2>2. CASE ~(k = 0 /\ wire = <<>> /\ (broken = "told" \/ (closed /\ broken = "no")))
    <3>1. k > 0
      <4>1. Want = rcv.len - Len(buffer) /\ Len(buffer) + k < rcv.len
        BY <1>2, <1>7, <1>9 DEF Want
      <4>. QED
        BY <1>1, <1>3, <1>4, <2>2, <4>1
    <3>2. ~Stops(k) \/ rcv.pc = "recv"
      BY <1>2, <1>3, <1>4, <1>7, <1>9, <3>1 DEF Stops
    <3>3. ret = "fully" /\ rcv.pc = "fully"
      <4>1. rcv.pc # "recv" => ~Stops(k)
        BY <3>2
      <4>2. Stops(k) => ret' = rcv.pc
        BY DEF RecvReturns
      <4>3. ~Stops(k) => ret' = ret /\ rcv.pc # "recv"
        BY DEF RecvReturns, Stops
      <4>. QED
        BY <1>1, <4>1, <4>2, <4>3, Numbers DEF IInv
    <3>4. wire = <<>>
      <4>1. Len(buffer) < rcv.len
        BY <1>3, <1>4, <1>7, <1>9
      <4>. QED
        BY <3>3, <4>1 DEF IInv, ShortOnlyAtEnd
    <3>. QED
      BY <1>4, <3>1, <3>4, EmptySeq
  <2>. QED
    BY <2>1, <2>2
<1>. QED
  BY <1>11, <1>12, <1>14, <1>15, <1>16 DEF IInv

\* A call that fails leaves in the buffer what it has read.
LEMMA ThrowSound ==
  ASSUME IInv, rcv' = [rcv EXCEPT !.pc = "idle"], ret' = "throw",
         broken' \in {"no", "yes", "told"}, broken # "no" => broken' # "no", broken = "no" => broken' = "no",
         UNCHANGED <<sndVars, wire, buffer, timeVars, stream, start>>
  PROVE  IInv'
<1>1. /\ rcv' \in [pc : {"idle", "recv", "fully"}, len : 0..MaxLen, rcount : 0..MaxLen]
      /\ rcv'.pc = "idle" /\ rcv'.len = rcv.len
  BY DEF IInv, TypeOK
<1>2. TypeOK'
  BY <1>1 DEF IInv, TypeOK, sndVars, timeVars
<1>3. SentSound' /\ Taken' = Taken /\ WireSound'
  BY DEF IInv, SentSound, WireSound, Taken, sndVars
<1>4. BufferSound'
  BY <1>1, <1>3 DEF IInv, BufferSound
<1>5. ShortOnlyAtEnd'
  BY DEF ShortOnlyAtEnd
<1>. QED
  BY <1>2, <1>3, <1>4, <1>5 DEF IInv

-----------------------------------------------------------------------------
LEMMA NextSound == IInv /\ [Next]_vars => IInv'
<1>. SUFFICES ASSUME IInv, [Next]_vars PROVE IInv'
  OBVIOUS
<1>1. CASE SenderNext
  BY <1>1, SendSound, KernelTakesSound, SendEndsSound, CloseSound
     DEF SenderNext
<1>2. CASE RecvFails \/ RecvInterrupted
  <2>1. rcv' = [rcv EXCEPT !.pc = "idle"] /\ ret' = "throw"
        /\ UNCHANGED <<sndVars, wire, buffer, timeVars, stream, start>>
    BY <1>2 DEF RecvFails, RecvInterrupted
  <2>2. broken' \in {"no", "yes", "told"} /\ (broken # "no" <=> broken' # "no")
    BY <1>2 DEF RecvFails, RecvInterrupted
  <2>. QED
    BY <2>1, <2>2, ThrowSound
<1>3. CASE ReceiverNext
  BY <1>2, <1>3, SetRecvTimeoutSound, ReceiveSound, RecvReturnsSound DEF ReceiverNext
<1>4. CASE UNCHANGED vars
  <2>1. UNCHANGED <<snd, given, closed, wire, broken, rcv, buffer>>
        /\ UNCHANGED <<ret, rcvTimeo, asked, stream, start>>
    BY <1>4 DEF vars
  <2>. QED
    BY <2>1 DEF IInv, TypeOK, SentSound, WireSound, BufferSound, ShortOnlyAtEnd, Taken
<1>. QED
  BY <1>1, <1>3, <1>4, BreakSound DEF Next

LEMMA AlwaysIInv == Spec => []IInv
BY InitSound, NextSound, PTL DEF Spec

\* The calls, the sequences and the timeout have their types: in particular the
\* socket's timeout is never one setsockopt refuses.
THEOREM TypeCorrect == Spec => []TypeOK
<1>1. IInv => TypeOK
  BY DEF IInv
<1>. QED
  BY <1>1, AlwaysIInv, PTL

\* recv and recvFully: whatever the lengths and the pieces, the buffer is the part
\* of the stream the call has taken, and no longer than it.
THEOREM BufferCorrect == Spec => []BufferIsStream
<1>1. ASSUME IInv PROVE BufferIsStream
  <2>1. /\ stream \in Seq(Byte) /\ buffer \in Seq(Byte) /\ wire \in Seq(Byte)
        /\ Len(wire) \in Nat /\ Len(stream) \in Nat /\ Len(buffer) \in Nat /\ start \in Nat
    BY <1>1, Numbers, Lengths DEF IInv
  <2>2. start + Len(buffer) <= Taken /\ \A i \in 1..Len(buffer) : buffer[i] = stream[start + i]
    BY <1>1 DEF IInv, BufferSound
  <2>3. PICK q \in Nat, n \in Nat :
          q = start + 1 /\ n = start + Len(buffer) /\ n <= Len(stream) /\ 1 <= q /\ q <= n + 1
    <3>1. start + 1 \in Nat /\ start + Len(buffer) \in Nat
      BY <2>1
    <3>2. start + Len(buffer) <= Len(stream) /\ 1 <= start + 1 /\ start + 1 <= (start + Len(buffer)) + 1
      BY <2>1, <2>2 DEF Taken
    <3>. QED
      BY <3>1, <3>2
  <2>. DEFINE piece == SubSeq(stream, start + 1, start + Len(buffer))
  <2>4. /\ piece \in Seq(Byte) /\ Len(piece) = Len(buffer)
        /\ \A i \in 1..Len(buffer) : piece[i] = stream[start + i]
    <3>1. /\ SubSeq(stream, q, n) \in Seq(Byte)
          /\ Len(SubSeq(stream, q, n)) = n - q + 1
          /\ \A i \in 1..(n - q + 1) : SubSeq(stream, q, n)[i] = stream[q + i - 1]
      BY <2>1, <2>3, PieceFacts
    <3>2. n - q + 1 = Len(buffer) /\ \A i \in 1..Len(buffer) : q + i - 1 = start + i
      BY <2>1, <2>3
    <3>. QED
      BY <2>3, <3>1, <3>2
  <2>. HIDE DEF piece
  <2>5. \A i \in 1..Len(buffer) : buffer[i] = piece[i]
    BY <2>2, <2>4
  <2>6. buffer = piece
    BY <2>1, <2>4, <2>5, SeqEqual
  <2>. QED
    BY <1>1, <2>6 DEF IInv, BufferSound, BufferIsStream, Taken, piece
<1>. QED
  BY <1>1, AlwaysIInv, PTL

\* recvFully: less than was asked for is all there was.
THEOREM FullyCorrect == Spec => []ShortOnlyAtEnd
<1>1. IInv => ShortOnlyAtEnd
  BY DEF IInv
<1>. QED
  BY <1>1, AlwaysIInv, PTL

-----------------------------------------------------------------------------
(* The refinement: what the receiver has not been given, a recvFully's own *)
(* pieces included, is the line of BytePipe.                               *)

LEMMA Associative ==
  ASSUME NEW s \in Seq(Byte), NEW t \in Seq(Byte), NEW v \in Seq(Byte)
  PROVE  (s \o t) \o v = s \o (t \o v)
<1>1. Len(s) \in Nat /\ Len(t) \in Nat /\ Len(v) \in Nat
  BY LenProperties
<1>2. PICK a \in Seq(Byte) : a = s \o t
  BY ConcatProperties
<1>3. /\ Len(a) = Len(s) + Len(t)
      /\ \A i \in 1..(Len(s) + Len(t)) : a[i] = IF i <= Len(s) THEN s[i] ELSE t[i - Len(s)]
  BY <1>2, ConcatProperties
<1>4. PICK b \in Seq(Byte) : b = t \o v
  BY ConcatProperties
<1>5. /\ Len(b) = Len(t) + Len(v)
      /\ \A i \in 1..(Len(t) + Len(v)) : b[i] = IF i <= Len(t) THEN t[i] ELSE v[i - Len(t)]
  BY <1>4, ConcatProperties
<1>6. /\ a \o v \in Seq(Byte) /\ Len(a \o v) = Len(a) + Len(v)
      /\ \A i \in 1..(Len(a) + Len(v)) : (a \o v)[i] = IF i <= Len(a) THEN a[i] ELSE v[i - Len(a)]
  BY ConcatProperties
<1>7. /\ s \o b \in Seq(Byte) /\ Len(s \o b) = Len(s) + Len(b)
      /\ \A i \in 1..(Len(s) + Len(b)) : (s \o b)[i] = IF i <= Len(s) THEN s[i] ELSE b[i - Len(s)]
  BY ConcatProperties
<1>8. Len(a \o v) = Len(s \o b)
  BY <1>1, <1>3, <1>5, <1>6, <1>7
<1>9. ASSUME NEW i \in 1..Len(a \o v) PROVE (a \o v)[i] = (s \o b)[i]
  <2>1. i \in 1..(Len(s) + Len(t) + Len(v))
    BY <1>1, <1>3, <1>6
  <2>2. CASE i <= Len(s)
    BY <1>1, <1>3, <1>5, <1>6, <1>7, <2>1, <2>2
  <2>3. CASE i > Len(s) /\ i <= Len(s) + Len(t)
    <3>1. i - Len(s) \in 1..Len(t)
      BY <1>1, <2>1, <2>3
    <3>2. (a \o v)[i] = t[i - Len(s)]
      BY <1>1, <1>3, <1>6, <2>1, <2>3
    <3>3. (s \o b)[i] = b[i - Len(s)]
      BY <1>1, <1>5, <1>7, <2>1, <2>3
    <3>4. b[i - Len(s)] = t[i - Len(s)]
      <4>1. PICK j \in 1..Len(t) : j = i - Len(s)
        BY <3>1
      <4>2. j \in 1..(Len(t) + Len(v)) /\ j <= Len(t)
        BY <1>1
      <4>3. b[j] = t[j]
        BY <1>5, <4>2
      <4>. QED
        BY <4>1, <4>3
    <3>. QED
      BY <3>2, <3>3, <3>4
  <2>4. CASE i > Len(s) + Len(t)
    <3>1. i - Len(s) \in 1..(Len(t) + Len(v)) /\ ~(i - Len(s) <= Len(t))
          /\ (i - Len(s)) - Len(t) = i - (Len(s) + Len(t))
      BY <1>1, <2>1, <2>4
    <3>2. (a \o v)[i] = v[i - (Len(s) + Len(t))]
      BY <1>1, <1>3, <1>6, <2>1, <2>4
    <3>3. (s \o b)[i] = b[i - Len(s)]
      BY <1>1, <1>5, <1>7, <2>1, <2>4
    <3>4. b[i - Len(s)] = v[(i - Len(s)) - Len(t)]
      BY <1>5, <3>1
    <3>. QED
      BY <3>1, <3>2, <3>3, <3>4
  <2>5. i <= Len(s) \/ (i > Len(s) /\ i <= Len(s) + Len(t)) \/ i > Len(s) + Len(t)
    BY <1>1, <2>1
  <2>. QED
    BY <2>2, <2>3, <2>4, <2>5
<1>10. a \o v = s \o b
  BY <1>6, <1>7, <1>8, <1>9, SeqEqual
<1>. QED
  BY <1>2, <1>4, <1>10

LEMMA CutConcat ==
  ASSUME NEW s \in Seq(Byte), NEW t \in Seq(Byte), NEW k \in 0..Len(t)
  PROVE  /\ SubSeq(s \o t, 1, Len(s) + k) = s \o SubSeq(t, 1, k)
         /\ SubSeq(s \o t, Len(s) + k + 1, Len(s \o t)) = SubSeq(t, k + 1, Len(t))
         /\ s \o t = (s \o SubSeq(t, 1, k)) \o SubSeq(t, k + 1, Len(t))
<1>1. Len(s) \in Nat /\ Len(t) \in Nat /\ k \in Nat /\ k <= Len(t)
  BY LenProperties
<1>2. PICK u \in Seq(Byte) : u = s \o t /\ Len(u) = Len(s) + Len(t)
        /\ \A i \in 1..(Len(s) + Len(t)) : u[i] = IF i <= Len(s) THEN s[i] ELSE t[i - Len(s)]
  <2>1. /\ s \o t \in Seq(Byte) /\ Len(s \o t) = Len(s) + Len(t)
        /\ \A i \in 1..(Len(s) + Len(t)) : (s \o t)[i] = IF i <= Len(s) THEN s[i] ELSE t[i - Len(s)]
    BY ConcatProperties
  <2>. QED
    BY <2>1
<1>3. PICK a \in Seq(Byte) : a = SubSeq(t, 1, k) /\ Len(a) = k /\ \A i \in 1..k : a[i] = t[i]
  <2>1. /\ SubSeq(t, 1, k) \in Seq(Byte) /\ Len(SubSeq(t, 1, k)) = k - 1 + 1
        /\ \A i \in 1..(k - 1 + 1) : SubSeq(t, 1, k)[i] = t[1 + i - 1]
    BY <1>1, PieceFacts
  <2>2. k - 1 + 1 = k /\ \A i \in 1..k : 1 + i - 1 = i
    BY <1>1
  <2>. QED
    BY <2>1, <2>2
<1>4. PICK b \in Seq(Byte) : b = SubSeq(t, k + 1, Len(t)) /\ Len(b) = Len(t) - k
        /\ \A i \in 1..(Len(t) - k) : b[i] = t[k + i]
  <2>1. PICK q \in Nat, n \in Nat : q = k + 1 /\ n = Len(t) /\ 1 <= q /\ q <= n + 1
    <3>1. k + 1 \in Nat /\ Len(t) \in Nat /\ 1 <= k + 1 /\ k + 1 <= Len(t) + 1
      BY <1>1
    <3>. QED
      BY <3>1
  <2>2. /\ SubSeq(t, q, n) \in Seq(Byte)
        /\ Len(SubSeq(t, q, n)) = n - q + 1
        /\ \A i \in 1..(n - q + 1) : SubSeq(t, q, n)[i] = t[q + i - 1]
    BY <2>1, PieceFacts
  <2>3. n - q + 1 = Len(t) - k /\ \A i \in 1..(Len(t) - k) : q + i - 1 = k + i
    BY <1>1, <2>1
  <2>4. SubSeq(t, q, n) = SubSeq(t, k + 1, Len(t))
    BY <2>1
  <2>5. PICK c \in Seq(Byte) : c = SubSeq(t, q, n)
    BY <2>2
  <2>6. Len(c) = Len(t) - k /\ \A i \in 1..(Len(t) - k) : c[i] = t[k + i]
    BY <2>2, <2>3, <2>5
  <2>. QED
    BY <2>4, <2>5, <2>6
<1>5. SubSeq(u, 1, Len(s) + k) = s \o a
  <2>1. PICK n \in Nat : n = Len(s) + k /\ n <= Len(u)
    BY <1>1, <1>2
  <2>2. /\ SubSeq(u, 1, n) \in Seq(Byte) /\ Len(SubSeq(u, 1, n)) = n
        /\ \A i \in 1..n : SubSeq(u, 1, n)[i] = u[i]
    <3>1. /\ SubSeq(u, 1, n) \in Seq(Byte) /\ Len(SubSeq(u, 1, n)) = n - 1 + 1
          /\ \A i \in 1..(n - 1 + 1) : SubSeq(u, 1, n)[i] = u[1 + i - 1]
      BY <2>1, PieceFacts
    <3>2. n - 1 + 1 = n /\ \A i \in 1..n : 1 + i - 1 = i
      BY <2>1
    <3>. QED
      BY <3>1, <3>2
  <2>3. /\ s \o a \in Seq(Byte) /\ Len(s \o a) = n
        /\ \A i \in 1..n : (s \o a)[i] = IF i <= Len(s) THEN s[i] ELSE a[i - Len(s)]
    BY <1>3, <2>1, ConcatProperties
  <2>4. ASSUME NEW i \in 1..n PROVE SubSeq(u, 1, n)[i] = (s \o a)[i]
    <3>1. CASE i <= Len(s)
      BY <1>1, <1>2, <2>1, <2>2, <2>3, <3>1
    <3>2. CASE ~(i <= Len(s))
      <4>1. i - Len(s) \in 1..k /\ i \in 1..(Len(s) + Len(t))
        BY <1>1, <2>1, <3>2
      <4>. QED
        BY <1>2, <1>3, <2>2, <2>3, <3>2, <4>1
    <3>. QED
      BY <3>1, <3>2
  <2>. QED
    BY <2>1, <2>2, <2>3, <2>4, SeqEqual
<1>6. SubSeq(u, Len(s) + k + 1, Len(u)) = b
  <2>1. PICK q \in Nat, n \in Nat, l \in Nat :
          /\ q = Len(s) + k + 1 /\ n = Len(u) /\ l = Len(t) - k
          /\ 1 <= q /\ q <= n + 1 /\ n - q + 1 = l
    BY <1>1, <1>2
  <2>2. /\ SubSeq(u, q, n) \in Seq(Byte)
        /\ Len(SubSeq(u, q, n)) = n - q + 1
        /\ \A i \in 1..(n - q + 1) : SubSeq(u, q, n)[i] = u[q + i - 1]
    BY <2>1, PieceFacts
  <2>3. ASSUME NEW i \in 1..l PROVE SubSeq(u, q, n)[i] = b[i]
    <3>1. PICK j \in 1..(Len(s) + Len(t)) : j = q + i - 1 /\ ~(j <= Len(s)) /\ j - Len(s) = k + i
      <4>1. q + i - 1 \in 1..(Len(s) + Len(t)) /\ ~(q + i - 1 <= Len(s)) /\ (q + i - 1) - Len(s) = k + i
        BY <1>1, <1>2, <2>1
      <4>. QED
        BY <4>1
    <3>2. u[j] = t[k + i]
      BY <1>2, <3>1
    <3>3. b[i] = t[k + i]
      BY <1>4, <2>1
    <3>. QED
      BY <2>1, <2>2, <3>1, <3>2, <3>3
  <2>4. SubSeq(u, q, n) = b
    BY <1>4, <2>1, <2>2, <2>3, SeqEqual
  <2>. QED
    BY <2>1, <2>4
<1>7. a \o b = t
  <2>1. SubSeq(t, 1, k) \o SubSeq(t, k + 1, Len(t)) = SubSeq(t, 1, Len(t))
    <3>1. 1 \in 1..(Len(t) + 1) /\ k \in (1 - 1)..Len(t) /\ Len(t) \in k..Len(t)
      BY <1>1
    <3>. QED
      BY <3>1, ConcatAdjacentSubSeq
  <2>. QED
    BY <1>3, <1>4, <2>1, SubSeqFull
<1>8. s \o t = (s \o a) \o b
  <2>1. (s \o a) \o b = s \o (a \o b)
    BY Associative
  <2>. QED
    BY <1>7, <2>1
<1>. QED
  BY <1>2, <1>3, <1>4, <1>5, <1>6, <1>8

\* While a call is under way nothing is said of how the last one ended.
Waiting == rcv.pc # "idle" => ret = "none"

LEMMA WaitingAlways == Spec => []Waiting
<1>1. Init => Waiting
  BY DEF Init, Waiting, Idle
<1>2. TypeOK /\ Waiting /\ [Next]_vars => Waiting'
  <2>. SUFFICES ASSUME TypeOK, Waiting, [Next]_vars PROVE Waiting'
    OBVIOUS
  <2>1. rcv \in [pc : {"idle", "recv", "fully"}, len : 0..MaxLen, rcount : 0..MaxLen]
    BY DEF TypeOK
  <2>2. CASE UNCHANGED rcvVars
    BY <2>2 DEF Waiting, rcvVars
  <2>3. ASSUME NEW pc \in {"recv", "fully"}, NEW n \in 0..MaxLen, Receive(pc, n) PROVE Waiting'
    BY <2>3 DEF Receive, Waiting
  <2>4. ASSUME NEW k \in 0..MaxLen, RecvReturns(k) PROVE Waiting'
    <3>1. CASE Stops(k)
      BY <2>1, <2>4, <3>1 DEF RecvReturns, Waiting
    <3>2. CASE ~Stops(k)
      BY <2>4, <3>2 DEF RecvReturns, Waiting
    <3>. QED
      BY <3>1, <3>2
  <2>5. CASE RecvFails \/ RecvInterrupted
    BY <2>1, <2>5 DEF RecvFails, RecvInterrupted, Waiting
  <2>6. CASE SenderNext
    BY <2>2, <2>6 DEF SenderNext, Send, KernelTakes, SendReturns, SendThrows, SendKilled, SendInterrupted, Close
  <2>7. CASE Break \/ UNCHANGED vars
    BY <2>2, <2>7 DEF Break, vars, rcvVars
  <2>8. ASSUME NEW u \in Timeouts, SetRecvTimeout(u) PROVE Waiting'
    BY <2>2, <2>8 DEF SetRecvTimeout
  <2>. QED
    BY <2>3, <2>4, <2>5, <2>6, <2>7, <2>8 DEF Next, ReceiverNext
<1>. QED
  BY <1>1, <1>2, TypeCorrect, PTL DEF Spec

LEMMA InitPipe == Init => Pipe!PipeInit
<1>. SUFFICES ASSUME Init PROVE Pipe!PipeInit
  OBVIOUS
<1>1. /\ wire = <<>> /\ rcv.pc = "idle" /\ closed = FALSE /\ broken = "no" /\ ret = "none"
  BY DEF Init, Idle
<1>2. Line = <<>> \o <<>>
  BY <1>1 DEF Line
<1>3. <<>> \o <<>> = <<>>
  BY EmptySeq, ConcatEmptySeq
<1>. QED
  BY <1>1, <1>2, <1>3
     DEF Pipe!PipeInit, Pipe!NoCall, Pipe!NoResult, Ended, CallUnderWay, LastResult

\* The line, by what the receiver is doing.
LEMMA LineFacts ==
  ASSUME TypeOK
  PROVE  /\ rcv.pc = "fully" => Line = buffer \o wire
         /\ rcv.pc # "fully" => Line = wire
         /\ Line \in Seq(Byte)
<1>1. wire \in Seq(Byte) /\ buffer \in Seq(Byte)
  BY Lengths
<1>2. rcv.pc = "fully" => Line = buffer \o wire
  BY DEF Line
<1>3. rcv.pc # "fully" => Line = wire
  BY <1>1, ConcatEmptySeq DEF Line
<1>. QED
  BY <1>1, <1>2, <1>3, ConcatProperties

\* The call and how the last one ended are the receiver's alone.
LEMMA CallKept ==
  ASSUME UNCHANGED rcvVars
  PROVE  UNCHANGED <<CallUnderWay, LastResult>>
BY DEF CallUnderWay, LastResult, rcvVars

\* Steps of the sender that give the kernel nothing and leave the connection as
\* it is, and setRecvTimeout.
LEMMA QuietStutters ==
  ASSUME UNCHANGED <<wire, Ended, rcvVars>>
  PROVE  UNCHANGED Pipe!pipeVars
BY CallKept DEF Pipe!pipeVars, Line, rcvVars

LEMMA KernelTakesPuts ==
  ASSUME IInv, NEW k \in 1..MaxIO, KernelTakes(k)
  PROVE  Pipe!Put
<1>. DEFINE bytes == Interval(given + snd.done, given + snd.done + k)
<1>1. /\ snd.pc = "sending" /\ broken = "no" /\ ~closed
      /\ k <= MinOf(snd.len, MaxIO) - snd.done
      /\ wire' = wire \o bytes
      /\ UNCHANGED <<closed, broken, rcvVars>>
  BY DEF KernelTakes, IInv, SentSound
<1>2. /\ k \in Nat /\ given \in Nat /\ snd.done \in Nat /\ snd.len \in Nat /\ snd.len <= MaxLen
      /\ given + snd.len <= MaxBytes
  BY <1>1, Numbers, ConstantFacts DEF IInv, SentSound
<1>3. k <= snd.len - snd.done
  BY <1>1, <1>2, ConstantFacts DEF MinOf
<1>4. k \in 1..MaxLen /\ (given + snd.done) + k <= MaxBytes /\ given + snd.done \in Nat
  BY <1>2, <1>3, ConstantFacts
<1>5. bytes \in Seq(Byte) /\ Len(bytes) = k
  BY <1>2, <1>4, IntervalFacts
<1>6. bytes \in [1..k -> Byte]
  BY <1>5, LenProperties
<1>. HIDE DEF bytes
<1>7. wire \in Seq(Byte) /\ buffer \in Seq(Byte)
  BY Lengths DEF IInv
<1>8. Line' = Line \o bytes
  <2>1. rcv' = rcv /\ buffer' = buffer
    BY <1>1 DEF rcvVars
  <2>2. PICK old \in Seq(Byte) : old = IF rcv.pc = "fully" THEN buffer ELSE <<>>
    BY <1>7, EmptySeq
  <2>3. Line = old \o wire /\ Line' = old \o wire'
    BY <2>1, <2>2 DEF Line
  <2>4. (old \o wire) \o bytes = old \o (wire \o bytes)
    BY <1>5, <1>7, Associative
  <2>. QED
    BY <1>1, <2>3, <2>4
<1>9. UNCHANGED <<Ended, CallUnderWay, LastResult>>
  BY <1>1, CallKept DEF Ended
<1>10. \E n \in 1..MaxLen : \E bs \in [1..n -> 1..MaxBytes] : Line' = Line \o bs
  BY <1>4, <1>6, <1>8 DEF Byte
<1>11. ~Ended
  BY <1>1 DEF Ended
<1>. QED
  BY <1>9, <1>10, <1>11 DEF Pipe!Put

LEMMA CloseEnds ==
  ASSUME Close
  PROVE  Pipe!End
BY CallKept DEF Close, Pipe!End, Line, Ended, rcvVars

\* What is lost is the end of the wire, never what recvFully has.
LEMMA BreakBreaks ==
  ASSUME IInv, Break
  PROVE  Pipe!Break
<1>1. PICK n \in 0..Len(wire) : wire' = SubSeq(wire, 1, n)
  BY DEF Break
<1>2. broken' = "yes" /\ UNCHANGED <<closed, rcv, buffer, ret>>
  BY DEF Break, rcvVars, sndVars
<1>3. /\ wire \in Seq(Byte) /\ buffer \in Seq(Byte) /\ Len(wire) \in Nat /\ Len(buffer) \in Nat
      /\ n \in Nat /\ n <= Len(wire)
  BY Lengths DEF IInv
<1>4. PICK old \in Seq(Byte) : old = IF rcv.pc = "fully" THEN buffer ELSE <<>>
  BY <1>3, EmptySeq
<1>5. Line = old \o wire /\ Line' = old \o SubSeq(wire, 1, n)
  BY <1>1, <1>2, <1>4 DEF Line
<1>6. PICK m : m = Len(old) + n
  OBVIOUS
<1>7. m \in 0..Len(Line)
  <2>1. Len(old \o wire) = Len(old) + Len(wire) /\ Len(old) \in Nat
    BY <1>3, ConcatProperties, LenProperties
  <2>. QED
    BY <1>3, <1>5, <1>6, <2>1
<1>8. Line' = SubSeq(Line, 1, m)
  BY <1>3, <1>5, <1>6, CutConcat
<1>9. Ended' = TRUE /\ UNCHANGED <<CallUnderWay, LastResult>>
  BY <1>2, CallKept DEF Ended, rcvVars, Break
<1>. QED
  BY <1>7, <1>8, <1>9 DEF Pipe!Break

\* Entering recv or recvFully is a call of the pipe, and delivers nothing.
LEMMA ReceiveCalls ==
  ASSUME IInv, NEW pc \in {"recv", "fully"}, NEW n \in 0..MaxLen, Receive(pc, n)
  PROVE  Pipe!Call
<1>1. /\ rcv.pc = "idle" /\ rcv' = [pc |-> pc, len |-> n, rcount |-> 0]
      /\ buffer' = <<>> /\ ret' = "none" /\ UNCHANGED <<wire, closed, broken>>
  BY DEF Receive, sndVars
<1>2. Line' = <<>> \o wire /\ Line = <<>> \o wire
  BY <1>1 DEF Line
<1>3. CallUnderWay = Pipe!NoCall /\ CallUnderWay' = [kind |-> pc, n |-> n]
  BY <1>1 DEF CallUnderWay, Pipe!NoCall
<1>4. LastResult' = Pipe!NoResult
  BY <1>1 DEF LastResult, Pipe!NoResult
<1>. QED
  BY <1>1, <1>2, <1>3, <1>4 DEF Pipe!Call, Ended

\* A call that throws loses what recvFully had, less than it was asked for, and
\* there was nothing else.
LEMMA ThrowFails ==
  ASSUME IInv, RecvFails \/ RecvInterrupted
  PROVE  Pipe!Fail
<1>1. /\ rcv.pc # "idle" /\ Want > 0 /\ wire = <<>>
      /\ rcv' = [rcv EXCEPT !.pc = "idle"] /\ ret' = "throw"
      /\ UNCHANGED <<wire, closed>>
      /\ broken' # "no" <=> broken # "no"
  BY DEF RecvFails, RecvInterrupted, sndVars
<1>2. rcv'.pc = "idle" /\ rcv.pc \in {"recv", "fully"}
  BY <1>1 DEF IInv, TypeOK
<1>3. PICK k \in Nat : k = Len(Line)
  BY LineFacts, LenProperties DEF IInv
<1>4. Line' = <<>>
  <2>1. Line' = <<>> \o <<>>
    BY <1>1, <1>2 DEF Line
  <2>. QED
    BY <2>1, EmptySeq, ConcatEmptySeq
<1>5. Line' = SubSeq(Line, k + 1, Len(Line))
  BY <1>3, <1>4, SubSeqEmpty, LineFacts DEF IInv
<1>6. CallUnderWay = [kind |-> rcv.pc, n |-> rcv.len] /\ CallUnderWay # Pipe!NoCall
  BY <1>1, <1>2 DEF CallUnderWay, Pipe!NoCall
<1>7. k = 0 \/ (rcv.pc = "fully" /\ k < rcv.len)
  <2>1. CASE rcv.pc = "recv"
    BY <1>1, <1>3, <2>1, LineFacts, EmptySeq DEF IInv
  <2>2. CASE rcv.pc = "fully"
    <3>1. Line = buffer
      BY <1>1, <2>2, LineFacts, Lengths, ConcatEmptySeq DEF IInv
    <3>2. rcv.rcount = Len(buffer)
      BY <1>1 DEF IInv, BufferSound
    <3>. QED
      BY <1>1, <1>3, <2>2, <3>1, <3>2, Numbers DEF IInv, Want
  <2>. QED
    BY <1>2, <2>1, <2>2
<1>8. CallUnderWay' = Pipe!NoCall /\ LastResult' = [how |-> "thrown", bytes |-> <<>>]
  BY <1>1, <1>2 DEF CallUnderWay, LastResult, Pipe!NoCall
<1>9. k \in 0..Len(Line) /\ (k = 0 \/ (CallUnderWay.kind = "fully" /\ k < CallUnderWay.n))
  BY <1>3, <1>6, <1>7
<1>. QED
  BY <1>1, <1>5, <1>6, <1>8, <1>9 DEF Pipe!Fail, Ended

\* What is known of a ::recv that returns.
LEMMA RecvFacts ==
  ASSUME IInv, NEW k \in 0..MaxLen, RecvReturns(k)
  PROVE  /\ k \in 0..Len(wire) /\ Len(wire) \in Nat /\ Len(buffer) \in Nat
         /\ wire \in Seq(Byte) /\ buffer \in Seq(Byte)
         /\ rcv.len \in 0..MaxLen /\ rcv.rcount = Len(buffer) /\ Len(buffer) + k <= rcv.len
         /\ k = 0 => rcv.len = Len(buffer) \/ (wire = <<>> /\ (closed \/ broken # "no"))
         /\ buffer' = buffer \o SubSeq(wire, 1, k)
         /\ wire' = SubSeq(wire, k + 1, Len(wire))
         /\ UNCHANGED <<closed, broken>>
<1>1. /\ rcv.pc # "idle"
      /\ \/ k \in 1..MinOf(Want, Len(wire))
         \/ k = 0 /\ (Want = 0 \/ (wire = <<>> /\ (broken = "told" \/ (closed /\ broken = "no"))))
      /\ buffer' = SubSeq(buffer, 1, rcv.rcount) \o SubSeq(wire, 1, k)
      /\ wire' = SubSeq(wire, k + 1, Len(wire))
      /\ UNCHANGED <<closed, broken>>
  BY DEF RecvReturns, PutAt, sndVars
<1>2. /\ wire \in Seq(Byte) /\ buffer \in Seq(Byte)
      /\ Len(wire) \in Nat /\ Len(buffer) \in Nat /\ rcv.len \in Nat /\ rcv.len <= MaxLen
  BY Numbers, Lengths DEF IInv
<1>3. rcv.rcount = Len(buffer) /\ Len(buffer) <= rcv.len
  BY <1>1 DEF IInv, BufferSound
<1>4. SubSeq(buffer, 1, rcv.rcount) = buffer
  BY <1>2, <1>3, SubSeqFull
<1>5. Want = rcv.len - Len(buffer) /\ Want \in Nat
  BY <1>2, <1>3 DEF Want
<1>6. k = 0 \/ (k <= Want /\ k <= Len(wire))
  BY <1>1, <1>2, <1>5 DEF MinOf
<1>7. k \in 0..Len(wire) /\ Len(buffer) + k <= rcv.len
  BY <1>2, <1>3, <1>5, <1>6, ConstantFacts
<1>8. k = 0 => rcv.len = Len(buffer) \/ (wire = <<>> /\ (closed \/ broken # "no"))
  BY <1>1, <1>2, <1>5
<1>9. rcv.len \in 0..MaxLen
  BY <1>2, ConstantFacts
<1>. QED
  BY <1>1, <1>2, <1>3, <1>4, <1>7, <1>8, <1>9

\* recv delivers what the one ::recv returned.
LEMMA RecvDelivers ==
  ASSUME IInv, NEW k \in 0..MaxLen, RecvReturns(k), rcv.pc = "recv"
  PROVE  Pipe!Some
<1>1. rcv' = [rcv EXCEPT !.pc = "idle"] /\ ret' = "recv"
  BY DEF RecvReturns, Stops
<1>2. rcv'.pc = "idle"
  BY <1>1 DEF IInv, TypeOK
<1>3. Len(buffer) = 0 /\ buffer = <<>>
  <2>1. rcv.rcount = Len(buffer) /\ rcv.rcount = 0
    BY DEF IInv, BufferSound
  <2>. QED
    BY <2>1, RecvFacts, EmptySeq
<1>4. Line = wire /\ wire \in Seq(Byte)
  BY LineFacts, RecvFacts DEF IInv
<1>5. Line' = SubSeq(wire, k + 1, Len(wire))
  <2>1. PICK piece \in Seq(Byte) : piece = SubSeq(wire, k + 1, Len(wire))
    <3>1. k + 1 \in Nat /\ 1 <= k + 1 /\ k + 1 <= Len(wire) + 1 /\ Len(wire) <= Len(wire) /\ Len(wire) \in Nat
      BY RecvFacts
    <3>. QED
      BY <1>4, <3>1, PieceFacts
  <2>2. Line' = <<>> \o piece
    BY <1>2, <2>1, RecvFacts DEF Line
  <2>. QED
    BY <2>1, <2>2, ConcatEmptySeq
<1>6. buffer' = SubSeq(wire, 1, k)
  <2>1. PICK piece \in Seq(Byte) : piece = SubSeq(wire, 1, k)
    <3>1. k \in Nat /\ 1 \in Nat /\ 1 <= 1 /\ 1 <= k + 1 /\ k <= Len(wire)
      BY RecvFacts
    <3>. QED
      BY <1>4, <3>1, PieceFacts
  <2>2. buffer' = <<>> \o piece
    BY <1>3, <2>1, RecvFacts
  <2>. QED
    BY <2>1, <2>2, ConcatEmptySeq
<1>7. /\ k \in 0..Len(Line) /\ k <= rcv.len /\ rcv.len \in 0..MaxLen
      /\ k = 0 => rcv.len = 0 \/ (Line = <<>> /\ (closed \/ broken # "no"))
  BY <1>3, <1>4, RecvFacts
<1>8. LastResult' = [how |-> "returned", bytes |-> buffer'] /\ CallUnderWay' = Pipe!NoCall
  BY <1>1, <1>2 DEF LastResult, CallUnderWay, Pipe!NoCall
<1>9. Pipe!Deliver(k)
  BY <1>4, <1>5, <1>6, <1>8, RecvFacts DEF Pipe!Deliver, Ended
<1>10. CallUnderWay.kind = "recv" /\ CallUnderWay.n = rcv.len
  BY DEF CallUnderWay
<1>. QED
  BY <1>7, <1>9, <1>10 DEF Pipe!Some, Ended

\* recvFully delivers its pieces at once when it has the last one, or the stream
\* has ended, and until then the line is as it was.
LEMMA FullyDelivers ==
  ASSUME IInv, Waiting, NEW k \in 0..MaxLen, RecvReturns(k), rcv.pc = "fully"
  PROVE  Pipe!Fully \/ UNCHANGED Pipe!pipeVars
<1>1. Line = buffer \o wire /\ Line \in Seq(Byte) /\ Len(Line) = Len(buffer) + Len(wire)
  BY LineFacts, RecvFacts, ConcatProperties DEF IInv
<1>2. /\ k \in 0..Len(wire) /\ wire \in Seq(Byte) /\ buffer \in Seq(Byte)
      /\ Len(wire) \in Nat /\ Len(buffer) \in Nat
      /\ buffer' = buffer \o SubSeq(wire, 1, k)
      /\ wire' = SubSeq(wire, k + 1, Len(wire))
      /\ UNCHANGED <<closed, broken>>
  BY RecvFacts
<1>3. /\ buffer' = SubSeq(Line, 1, Len(buffer) + k)
      /\ wire' = SubSeq(Line, Len(buffer) + k + 1, Len(Line))
      /\ Line = buffer' \o wire'
  BY <1>1, <1>2, CutConcat
<1>4. CASE Stops(k)
  <2>1. rcv' = [rcv EXCEPT !.pc = "idle"] /\ ret' = "fully"
    BY <1>4 DEF RecvReturns
  <2>2. rcv'.pc = "idle"
    BY <2>1 DEF IInv, TypeOK
  <2>3. Line' = wire'
    <3>1. PICK piece \in Seq(Byte) : piece = wire'
      <4>1. k + 1 \in Nat /\ 1 <= k + 1 /\ k + 1 <= Len(wire) + 1 /\ Len(wire) <= Len(wire) /\ Len(wire) \in Nat
        BY <1>2
      <4>. QED
        BY <1>2, <4>1, PieceFacts
    <3>2. Line' = <<>> \o piece
      BY <2>2, <3>1 DEF Line
    <3>. QED
      BY <3>1, <3>2, ConcatEmptySeq
  <2>4. PICK m : m = Len(buffer) + k
    OBVIOUS
  <2>5. Pipe!Deliver(m)
    <3>1. Line' = SubSeq(Line, m + 1, Len(Line)) /\ buffer' = SubSeq(Line, 1, m)
      BY <1>3, <2>3, <2>4
    <3>2. LastResult' = [how |-> "returned", bytes |-> buffer'] /\ CallUnderWay' = Pipe!NoCall
      BY <2>1, <2>2 DEF LastResult, CallUnderWay, Pipe!NoCall
    <3>. QED
      BY <1>2, <3>1, <3>2 DEF Pipe!Deliver, Ended
  <2>6. PICK n \in 0..MaxLen : n = rcv.len
    BY RecvFacts
  <2>7. \/ n = m /\ n <= Len(Line)
        \/ n > Len(Line) /\ (closed \/ broken # "no") /\ m = Len(Line)
    <3>1. /\ Len(buffer) + k <= rcv.len /\ rcv.rcount = Len(buffer) /\ rcv.len \in Nat
          /\ k = 0 => rcv.len = Len(buffer) \/ (wire = <<>> /\ (closed \/ broken # "no"))
      BY RecvFacts
    <3>2. k = 0 \/ rcv.rcount + k >= rcv.len
      BY <1>4 DEF Stops
    <3>3. CASE Len(buffer) + k = rcv.len
      BY <1>1, <1>2, <2>4, <2>6, <3>3
    <3>4. CASE Len(buffer) + k # rcv.len
      <4>a. PICK b \in Nat : b = Len(buffer)
        BY <1>2
      <4>b. PICK c \in Nat, r \in Nat : c = rcv.len /\ r = rcv.rcount
        BY <3>1, <4>a
      <4>c. k \in Nat /\ b + k <= c /\ b + k # c /\ r = b
        BY <1>2, <3>1, <3>4, <4>a, <4>b
      <4>d. c > b /\ ~(r + k >= c)
        BY <4>c
      <4>e. k = 0
        BY <3>2, <4>b, <4>d
      <4>f. rcv.len # Len(buffer) /\ rcv.len > Len(buffer)
        BY <4>a, <4>b, <4>d
      <4>g. wire = <<>> /\ (closed \/ broken # "no")
        BY <3>1, <4>e, <4>f, Zenon
      <4>1. k = 0 /\ wire = <<>> /\ (closed \/ broken # "no") /\ rcv.len > Len(buffer)
        BY <4>e, <4>f, <4>g
      <4>2. Len(wire) = 0
        BY <4>1, EmptySeq
      <4>. QED
        BY <1>1, <1>2, <2>4, <2>6, <4>1, <4>2
    <3>. QED
      BY <3>3, <3>4
  <2>8. CallUnderWay.kind = "fully" /\ CallUnderWay.n = n
    BY <2>6 DEF CallUnderWay
  <2>9. Pipe!Fully
    BY <2>5, <2>7, <2>8 DEF Pipe!Fully, Ended
  <2>. QED
    BY <2>9
<1>5. CASE ~Stops(k)
  <2>1. rcv' = [rcv EXCEPT !.rcount = rcv.rcount + k] /\ ret' = ret
    BY <1>5 DEF RecvReturns
  <2>2. rcv'.pc = "fully"
    BY <2>1 DEF IInv, TypeOK
  <2>3. Line' = Line
    BY <1>3, <2>2 DEF Line
  <2>4. ret = "none"
    BY DEF Waiting
  <2>5. rcv'.len = rcv.len
    BY <2>1 DEF IInv, TypeOK
  <2>6. UNCHANGED <<CallUnderWay, LastResult>>
    BY <2>1, <2>2, <2>4, <2>5 DEF CallUnderWay, LastResult
  <2>. QED
    BY <1>2, <2>3, <2>6 DEF Pipe!pipeVars, Ended
<1>. QED
  BY <1>4, <1>5

LEMMA StepPipe == IInv /\ Waiting /\ [Next]_vars => [Pipe!PipeNext]_(Pipe!pipeVars)
<1>. SUFFICES ASSUME IInv, Waiting, [Next]_vars
              PROVE  Pipe!PipeNext \/ UNCHANGED Pipe!pipeVars
  OBVIOUS
<1>1. ASSUME NEW n \in 1..MaxLen, Send(n) PROVE UNCHANGED Pipe!pipeVars
  BY <1>1, QuietStutters DEF Send, Ended
<1>2. ASSUME NEW k \in 1..MaxIO, KernelTakes(k) PROVE Pipe!PipeNext
  BY <1>2, KernelTakesPuts DEF Pipe!PipeNext
<1>3. ASSUME SendReturns \/ SendThrows \/ SendKilled \/ SendInterrupted PROVE UNCHANGED Pipe!pipeVars
  BY <1>3, QuietStutters DEF SendReturns, SendThrows, SendKilled, SendInterrupted, Ended
<1>4. CASE Close
  BY <1>4, CloseEnds DEF Pipe!PipeNext
<1>5. CASE Break
  BY <1>5, BreakBreaks DEF Pipe!PipeNext
<1>6. ASSUME NEW u \in Timeouts, SetRecvTimeout(u) PROVE UNCHANGED Pipe!pipeVars
  BY <1>6, QuietStutters DEF SetRecvTimeout, sndVars, Ended
<1>7. ASSUME NEW pc \in {"recv", "fully"}, NEW n \in 0..MaxLen, Receive(pc, n) PROVE Pipe!PipeNext
  BY <1>7, ReceiveCalls DEF Pipe!PipeNext
<1>8. ASSUME NEW k \in 0..MaxLen, RecvReturns(k)
      PROVE  Pipe!PipeNext \/ UNCHANGED Pipe!pipeVars
  <2>1. CASE rcv.pc = "recv"
    BY <1>8, <2>1, RecvDelivers DEF Pipe!PipeNext
  <2>2. CASE rcv.pc = "fully"
    BY <1>8, <2>2, FullyDelivers DEF Pipe!PipeNext
  <2>3. rcv.pc \in {"recv", "fully"}
    BY <1>8, Numbers DEF RecvReturns, IInv
  <2>. QED
    BY <2>1, <2>2, <2>3
<1>9. CASE RecvFails \/ RecvInterrupted
  BY <1>9, ThrowFails DEF Pipe!PipeNext
<1>10. CASE UNCHANGED vars
  BY <1>10, QuietStutters DEF vars, rcvVars, Ended
<1>. QED
  BY <1>1, <1>2, <1>3, <1>4, <1>5, <1>6, <1>7, <1>8, <1>9, <1>10 DEF Next, SenderNext, ReceiverNext

\* The pair of sockets implements the pipe of CommSocket.h: every piece, signal,
\* timeout and reset is one of its steps, or none.
THEOREM PairImplementsPipe == Spec => ImplementsPipe
BY InitPipe, StepPipe, AlwaysIInv, WaitingAlways, PTL DEF Spec, ImplementsPipe, Pipe!PipeSpec
=============================================================================
