----------------------------- MODULE LogProofs ------------------------------
(***************************************************************************)
(* What holds of Log for any levels, blocks, files and depth: for any      *)
(* threads its types; with one thread everything that is said of the log   *)
(* stream and of the message printers, none of which has a lock.           *)
(***************************************************************************)
EXTENDS Log, TLAPS

\* What TypeOK says, in the form the steps need it.
LEMMA Types ==
  ASSUME TypeOK, NEW t \in Threads
  PROVE  /\ stack[t] \in Seq(Frames) /\ Len(stack[t]) \in Nat /\ Len(stack[t]) <= MaxDepth
         /\ stack[t] # <<>> => /\ Len(stack[t]) \in 1..Len(stack[t])
                               /\ Len(stack[t]) # 0
                               /\ Top(t) \in Frames
BY DEF TypeOK, Top

\* The frame on top is replaced, the others stay.
LEMMA SetTopFacts ==
  ASSUME TypeOK, NEW t \in Threads, stack[t] # <<>>, NEW f \in Frames, SetTop(t, f)
  PROVE  /\ stack' \in [Threads -> Seq(Frames)]
         /\ \A u \in Threads : Len(stack'[u]) = Len(stack[u])
         /\ \A u \in Threads \ {t} : stack'[u] = stack[u]
         /\ stack'[t][Len(stack[t])] = f
         /\ \A i \in 1..Len(stack[t]) : i # Len(stack[t]) => stack'[t][i] = stack[t][i]
<1>. DEFINE s == stack[t]
            r == [s EXCEPT ![Len(s)] = f]
<1>1. s \in Seq(Frames) /\ Len(s) \in 1..Len(s)
  BY Types
<1>2. r \in Seq(Frames) /\ Len(r) = Len(s) /\ r[Len(s)] = f
      /\ \A i \in 1..Len(s) : i # Len(s) => r[i] = s[i]
  BY <1>1
<1>3. stack \in [Threads -> Seq(Frames)] /\ stack' = [stack EXCEPT ![t] = r]
  BY DEF TypeOK, SetTop
<1>4. stack' \in [Threads -> Seq(Frames)] /\ stack'[t] = r
      /\ \A u \in Threads \ {t} : stack'[u] = stack[u]
  <2>. HIDE DEF r
  <2>. QED
    BY <1>2, <1>3
<1>. QED
  <2>. HIDE DEF r
  <2>. QED
    BY <1>2, <1>4

\* The frames above keep are gone, the others stay.
LEMMA CutFacts ==
  ASSUME TypeOK, NEW t \in Threads, NEW keep \in 0..Len(stack[t]),
         stack' = [stack EXCEPT ![t] = SubSeq(@, 1, keep)]
  PROVE  /\ stack' \in [Threads -> Seq(Frames)]
         /\ \A u \in Threads \ {t} : stack'[u] = stack[u]
         /\ Len(stack'[t]) = keep
         /\ \A i \in 1..keep : stack'[t][i] = stack[t][i]
<1>. DEFINE s == stack[t]
            r == SubSeq(s, 1, keep)
<1>1. s \in Seq(Frames) /\ Len(s) \in Nat /\ keep \in Nat /\ keep <= Len(s)
  BY Types
<1>2. r \in Seq(Frames) /\ Len(r) = keep /\ \A i \in 1..keep : r[i] = s[i]
  BY <1>1
<1>3. stack \in [Threads -> Seq(Frames)] /\ stack' = [stack EXCEPT ![t] = r]
  BY DEF TypeOK
<1>. QED
  <2>. HIDE DEF r
  <2>. QED
    BY <1>2, <1>3

LEMMA PopFacts ==
  ASSUME TypeOK, NEW t \in Threads, stack[t] # <<>>, Pop(t)
  PROVE  /\ stack' \in [Threads -> Seq(Frames)]
         /\ \A u \in Threads \ {t} : stack'[u] = stack[u]
         /\ Len(stack'[t]) = Len(stack[t]) - 1
         /\ \A i \in 1..(Len(stack[t]) - 1) : stack'[t][i] = stack[t][i]
<1>1. Len(stack[t]) \in 1..Len(stack[t]) /\ Len(stack[t]) - 1 \in 0..Len(stack[t])
  BY Types
<1>2. stack' = [stack EXCEPT ![t] = SubSeq(@, 1, Len(stack[t]) - 1)]
  BY DEF Pop, TypeOK
<1>. QED
  BY <1>1, <1>2, CutFacts

LEMMA PushFacts ==
  ASSUME TypeOK, NEW t \in Threads, NEW f \in Frames,
         stack' = [stack EXCEPT ![t] = Append(@, f)]
  PROVE  /\ stack' \in [Threads -> Seq(Frames)]
         /\ \A u \in Threads \ {t} : stack'[u] = stack[u]
         /\ Len(stack'[t]) = Len(stack[t]) + 1
         /\ stack'[t][Len(stack[t]) + 1] = f
         /\ \A i \in 1..Len(stack[t]) : stack'[t][i] = stack[t][i]
<1>. DEFINE s == stack[t]
            r == Append(s, f)
<1>1. s \in Seq(Frames) /\ Len(s) \in Nat
  BY Types
<1>2. r \in Seq(Frames) /\ Len(r) = Len(s) + 1 /\ r[Len(s) + 1] = f
      /\ \A i \in 1..Len(s) : r[i] = s[i]
  BY <1>1
<1>3. stack \in [Threads -> Seq(Frames)] /\ stack' = [stack EXCEPT ![t] = r]
  BY DEF TypeOK
<1>. QED
  <2>. HIDE DEF r
  <2>. QED
    BY <1>2, <1>3

-----------------------------------------------------------------------------
(* For any threads.                                                        *)

\* What the macro a statement was compiled from says of it.
Compiled(f) == IsAssert(f.kind) => f.sev = DISABLED

StackOK ==
  /\ stack \in [Threads -> Seq(Frames)]
  /\ \A t \in Threads : Len(stack[t]) <= MaxDepth
  /\ \A t \in Threads : \A i \in 1..Len(stack[t]) : Compiled(stack[t][i])

AnyInv == TypeOK /\ StackOK

LEMMA StackSame == StackOK /\ UNCHANGED stack => StackOK'
BY DEF StackOK

LEMMA TopSame ==
  ASSUME AnyInv, NEW t \in Threads, stack[t] # <<>>
  PROVE  Top(t) \in Frames /\ Compiled(Top(t))
BY Types DEF AnyInv, StackOK, Top

LEMMA SetTopOK ==
  ASSUME AnyInv, NEW t \in Threads, stack[t] # <<>>, NEW f \in Frames, Compiled(f), SetTop(t, f)
  PROVE  StackOK'
<1>1. TypeOK /\ StackOK
  BY DEF AnyInv
<1>2. ASSUME NEW u \in Threads, NEW i \in 1..Len(stack'[u])
      PROVE  Compiled(stack'[u][i])
  BY <1>1, <1>2, SetTopFacts DEF StackOK
<1>3. ASSUME NEW u \in Threads
      PROVE  Len(stack'[u]) <= MaxDepth
  BY <1>1, SetTopFacts DEF StackOK
<1>. QED
  BY <1>1, <1>2, <1>3, SetTopFacts DEF StackOK

LEMMA CutOK ==
  ASSUME AnyInv, NEW t \in Threads, NEW keep \in 0..Len(stack[t]),
         stack' = [stack EXCEPT ![t] = SubSeq(@, 1, keep)]
  PROVE  StackOK'
<1>1. TypeOK /\ StackOK /\ Len(stack[t]) \in Nat /\ MaxDepth \in Nat
  BY Types, LogAssumption DEF AnyInv
<1>2. stack' \in [Threads -> Seq(Frames)] /\ (\A u \in Threads \ {t} : stack'[u] = stack[u])
      /\ Len(stack'[t]) = keep /\ (\A i \in 1..keep : stack'[t][i] = stack[t][i])
  BY <1>1, CutFacts
<1>3. ASSUME NEW u \in Threads, NEW i \in 1..Len(stack'[u])
      PROVE  Compiled(stack'[u][i])
  <2>1. CASE u = t
    BY <2>1, <1>1, <1>2, i \in 1..Len(stack[t]) DEF StackOK
  <2>. QED
    BY <2>1, <1>1, <1>2 DEF StackOK
<1>4. ASSUME NEW u \in Threads
      PROVE  Len(stack'[u]) <= MaxDepth
  BY <1>1, <1>2 DEF StackOK
<1>. QED
  BY <1>2, <1>3, <1>4 DEF StackOK

LEMMA PopOK ==
  ASSUME AnyInv, NEW t \in Threads, stack[t] # <<>>, Pop(t)
  PROVE  StackOK'
<1>1. Len(stack[t]) \in 1..Len(stack[t]) /\ Len(stack[t]) - 1 \in 0..Len(stack[t])
  BY Types DEF AnyInv
<1>2. stack' = [stack EXCEPT ![t] = SubSeq(@, 1, Len(stack[t]) - 1)]
  BY DEF Pop, TypeOK, AnyInv
<1>. QED
  BY <1>1, <1>2, CutOK

LEMMA PushOK ==
  ASSUME AnyInv, NEW t \in Threads, NEW f \in Frames, Compiled(f), Len(stack[t]) < MaxDepth,
         stack' = [stack EXCEPT ![t] = Append(@, f)]
  PROVE  StackOK'
<1>1. TypeOK /\ StackOK /\ Len(stack[t]) \in Nat /\ MaxDepth \in Nat
  BY Types, LogAssumption DEF AnyInv
<1>2. stack' \in [Threads -> Seq(Frames)] /\ (\A u \in Threads \ {t} : stack'[u] = stack[u])
      /\ Len(stack'[t]) = Len(stack[t]) + 1
      /\ stack'[t][Len(stack[t]) + 1] = f
      /\ (\A i \in 1..Len(stack[t]) : stack'[t][i] = stack[t][i])
  BY <1>1, PushFacts
<1>3. ASSUME NEW u \in Threads, NEW i \in 1..Len(stack'[u])
      PROVE  Compiled(stack'[u][i])
  <2>1. CASE u = t
    <3>1. CASE i = Len(stack[t]) + 1
      BY <2>1, <3>1, <1>2
    <3>2. CASE i # Len(stack[t]) + 1
      <4>1. i \in 1..Len(stack[t])
        BY <2>1, <3>2, <1>1, <1>2
      <4>. QED
        BY <2>1, <4>1, <1>1, <1>2 DEF StackOK
    <3>. QED
      BY <3>1, <3>2
  <2>. QED
    BY <2>1, <1>1, <1>2 DEF StackOK
<1>4. ASSUME NEW u \in Threads
      PROVE  Len(stack'[u]) <= MaxDepth
  BY <1>1, <1>2 DEF StackOK
<1>. QED
  BY <1>2, <1>3, <1>4 DEF StackOK

LEMMA BeginAny ==
  ASSUME AnyInv, NEW t \in Threads, NEW k \in Kinds, NEW s \in Severities, NEW off \in BOOLEAN,
         Begin(t, k, s, off)
  PROVE  AnyInv'
<1>. DEFINE f == [kind |-> k, sev |-> s, pc |-> "start", mp |-> Nothing, args |-> FALSE]
<1>1. f \in Frames
  BY DEF Frames, PCs
<1>2. Compiled(f)
  BY DEF Begin, Compiled
<1>3. StackOK'
  <2>1. stack' = [stack EXCEPT ![t] = Append(@, f)] /\ Len(stack[t]) < MaxDepth
    BY DEF Begin
  <2>. HIDE DEF f
  <2>. QED
    BY <1>1, <1>2, <2>1, PushOK
<1>. QED
  BY <1>3 DEF AnyInv, StackOK, TypeOK, files, Begin

\* A frame at another point of its statement.
LEMMA PcMoves ==
  ASSUME NEW f \in Frames, NEW pc \in PCs
  PROVE  LET g == [f EXCEPT !.pc = pc]
         IN  /\ g \in Frames /\ g.pc = pc /\ g.mp = f.mp /\ g.args = f.args
             /\ g.kind = f.kind /\ g.sev = f.sev
BY DEF Frames

LEMMA MpMoves ==
  ASSUME NEW f \in Frames, NEW pc \in PCs, NEW p \in Printers \cup {Nothing}
  PROVE  LET g == [f EXCEPT !.mp = p, !.pc = pc]
         IN  /\ g \in Frames /\ g.pc = pc /\ g.mp = p /\ g.args = f.args
             /\ g.kind = f.kind /\ g.sev = f.sev
BY DEF Frames

LEMMA ArgsMoves ==
  ASSUME NEW f \in Frames
  PROVE  LET g == [f EXCEPT !.args = TRUE]
         IN  /\ g \in Frames /\ g.pc = f.pc /\ g.mp = f.mp /\ g.args = TRUE
             /\ g.kind = f.kind /\ g.sev = f.sev
BY DEF Frames

LEMMA PcMovedOK ==
  ASSUME AnyInv, NEW t \in Threads, stack[t] # <<>>, NEW pc \in PCs,
         SetTop(t, [Top(t) EXCEPT !.pc = pc])
  PROVE  StackOK'
<1>. DEFINE g == [Top(t) EXCEPT !.pc = pc]
<1>1. Top(t) \in Frames /\ Compiled(Top(t))
  BY TopSame
<1>2. g \in Frames /\ g.kind = Top(t).kind /\ g.sev = Top(t).sev
  BY <1>1, PcMoves
<1>3. SetTop(t, g)
  OBVIOUS
<1>. HIDE DEF g
<1>4. Compiled(g)
  BY <1>1, <1>2 DEF Compiled
<1>. QED
  BY <1>2, <1>3, <1>4, SetTopOK

LEMMA MpMovedOK ==
  ASSUME AnyInv, NEW t \in Threads, stack[t] # <<>>, NEW pc \in PCs,
         NEW p \in Printers \cup {Nothing}, SetTop(t, [Top(t) EXCEPT !.mp = p, !.pc = pc])
  PROVE  StackOK'
<1>. DEFINE g == [Top(t) EXCEPT !.mp = p, !.pc = pc]
<1>1. Top(t) \in Frames /\ Compiled(Top(t))
  BY TopSame
<1>2. g \in Frames /\ g.kind = Top(t).kind /\ g.sev = Top(t).sev
  BY <1>1 DEF Frames
<1>3. SetTop(t, g)
  OBVIOUS
<1>. HIDE DEF g
<1>4. Compiled(g)
  BY <1>1, <1>2 DEF Compiled
<1>. QED
  BY <1>2, <1>3, <1>4, SetTopOK

LEMMA EvalArgsAny == ASSUME AnyInv, NEW t \in Threads, EvalArgs(t) PROVE AnyInv'
<1>. DEFINE g == [Top(t) EXCEPT !.args = TRUE]
<1>1. Top(t) \in Frames /\ Compiled(Top(t)) /\ stack[t] # <<>>
  BY TopSame DEF EvalArgs
<1>2. g \in Frames /\ g.kind = Top(t).kind /\ g.sev = Top(t).sev
  BY <1>1, ArgsMoves
<1>3. SetTop(t, g)
  BY DEF EvalArgs
<1>4. StackOK'
  <2>. HIDE DEF g
  <2>1. Compiled(g)
    BY <1>1, <1>2 DEF Compiled
  <2>. QED
    BY <1>1, <1>2, <1>3, <2>1, SetTopOK
<1>. QED
  BY <1>4 DEF AnyInv, StackOK, TypeOK, files, EvalArgs

LEMMA ThrowAny == ASSUME AnyInv, NEW t \in Threads, NEW n \in 1..MaxDepth, Throw(t, n) PROVE AnyInv'
<1>. DEFINE keep == Len(stack[t]) - n
            gone == {stack[t][i].mp : i \in (keep + 1)..Len(stack[t])}
<1>1. Len(stack[t]) \in Nat /\ stack[t] \in Seq(Frames) /\ n \in 1..Len(stack[t])
  BY Types DEF AnyInv, Throw
<1>2. keep \in 0..Len(stack[t])
  BY <1>1
<1>3. stack' = [stack EXCEPT ![t] = SubSeq(@, 1, keep)] /\ lost' = lost \cup (gone \ {Nothing})
  BY DEF Throw
<1>4. StackOK'
  <2>. HIDE DEF keep
  <2>. QED
    BY <1>2, <1>3, CutOK
<1>5. \A i \in (keep + 1)..Len(stack[t]) : stack[t][i].mp \in Printers \cup {Nothing}
  <2>1. TAKE i \in (keep + 1)..Len(stack[t])
  <2>2. i \in 1..Len(stack[t])
    BY <1>1, <1>2
  <2>3. stack[t][i] \in Frames
    BY <1>1, <2>2
  <2>. QED
    BY <2>3 DEF Frames
<1>6. lost' \subseteq Printers
  BY <1>3, <1>5 DEF AnyInv, TypeOK
<1>. QED
  BY <1>4, <1>6 DEF AnyInv, StackOK, TypeOK, files, Throw

LEMMA InsertAny == ASSUME AnyInv, NEW t \in Threads, Insert(t) PROVE AnyInv'
<1>1. StackOK'
  BY PopOK DEF Insert, AtTop
<1>. QED
  BY <1>1 DEF AnyInv, StackOK, TypeOK, files, Insert

LEMMA ReadCacheAny == ASSUME AnyInv, NEW t \in Threads, ReadCache(t) PROVE AnyInv'
<1>1. StackOK'
  <2>1. mpCache \in Printers \cup {Nothing} /\ "clear" \in PCs
    BY DEF AnyInv, TypeOK, PCs
  <2>2. stack[t] # <<>> /\ SetTop(t, [Top(t) EXCEPT !.mp = mpCache, !.pc = "clear"])
    BY DEF ReadCache, AtTop
  <2>. QED
    BY <2>1, <2>2, MpMovedOK
<1>. QED
  BY <1>1 DEF AnyInv, StackOK, TypeOK, files, ReadCache

\* What getMP leaves in the fields is a level the code uses.
LEMMA StampedType ==
  \A old, k : Stamped(old, k) \in MsgPrinters
BY LogAssumption DEF Stamped, MsgPrinters, IsAssert

LEMMA ClearCacheAny == ASSUME AnyInv, NEW t \in Threads, ClearCache(t) PROVE AnyInv'
<1>1. stack[t] # <<>> /\ Top(t) \in Frames
  BY TopSame DEF ClearCache, AtTop
<1>2. PICK p \in (IF Top(t).mp = Nothing THEN Printers \ heap ELSE {Top(t).mp}), old \in MsgPrinters :
        /\ heap' = heap \cup {p}
        /\ fields' = [fields EXCEPT ![p] = Stamped(old, Top(t).kind)]
        /\ SetTop(t, [Top(t) EXCEPT !.mp = p, !.pc = "got"])
  BY DEF ClearCache
<1>3. p \in Printers
  <2>1. Top(t).mp \in Printers \cup {Nothing}
    BY <1>1 DEF Frames
  <2>. QED
    BY <1>2, <2>1
<1>4. StackOK'
  <2>1. "got" \in PCs
    BY DEF PCs
  <2>. QED
    BY <1>1, <1>2, <1>3, <2>1, MpMovedOK
<1>5. fields' \in [Printers -> MsgPrinters]
  <2>1. Stamped(old, Top(t).kind) \in MsgPrinters
    BY StampedType
  <2>2. fields \in [Printers -> MsgPrinters]
    BY DEF AnyInv, TypeOK
  <2>. QED
    BY <1>2, <2>1, <2>2
<1>6. heap' \subseteq Printers /\ mpCache' = Nothing
  BY <1>2, <1>3 DEF AnyInv, TypeOK, ClearCache
<1>. QED
  BY <1>4, <1>5, <1>6 DEF AnyInv, StackOK, TypeOK, files, ClearCache

LEMMA CurryAny == ASSUME AnyInv, NEW t \in Threads, Curry(t) PROVE AnyInv'
<1>1. stack[t] # <<>> /\ Top(t) \in Frames
  BY TopSame DEF Curry, AtTop
<1>2. StackOK'
  <2>1. "ready" \in PCs
    BY DEF PCs
  <2>. QED
    BY <1>1, <2>1, PcMovedOK DEF Curry
<1>3. fields' \in [Printers -> MsgPrinters]
  <2>1. fields \in [Printers -> MsgPrinters]
    BY DEF AnyInv, TypeOK
  <2>2. CASE fields' = fields
    BY <2>1, <2>2
  <2>3. CASE fields' = [fields EXCEPT ![Top(t).mp].level = Top(t).sev]
    <3>1. Top(t).sev \in Severities
      BY <1>1 DEF Frames
    <3>2. CASE Top(t).mp \in Printers
      <4>1. fields[Top(t).mp] \in MsgPrinters
        BY <2>1, <3>2
      <4>2. [fields[Top(t).mp] EXCEPT !.level = Top(t).sev] \in MsgPrinters
        BY <3>1, <4>1 DEF MsgPrinters
      <4>. QED
        BY <2>1, <2>3, <4>2
    <3>3. CASE Top(t).mp \notin Printers
      BY <2>1, <2>3, <3>3
    <3>. QED
      BY <3>2, <3>3
  <2>. QED
    BY <2>2, <2>3 DEF Curry
<1>. QED
  BY <1>2, <1>3 DEF AnyInv, StackOK, TypeOK, files, Curry

LEMMA PrintTestAny == ASSUME AnyInv, NEW t \in Threads, PrintTest(t) PROVE AnyInv'
<1>1. StackOK'
  <2>1. (IF Passes(Top(t).mp) THEN "write" ELSE "release") \in PCs
    BY DEF PCs
  <2>. QED
    BY <2>1, PcMovedOK DEF PrintTest, AtTop
<1>. QED
  BY <1>1 DEF AnyInv, StackOK, TypeOK, files, PrintTest

LEMMA WriteAny == ASSUME AnyInv, NEW t \in Threads, Write(t) PROVE AnyInv'
<1>1. StackOK'
  <2>1. "release" \in PCs
    BY DEF PCs
  <2>. QED
    BY <2>1, PcMovedOK DEF Write, AtTop
<1>. QED
  BY <1>1 DEF AnyInv, StackOK, TypeOK, files, Write

LEMMA ReleaseTestAny == ASSUME AnyInv, NEW t \in Threads, ReleaseTest(t) PROVE AnyInv'
<1>1. StackOK'
  <2>1. (IF mpCache = Nothing THEN "cache" ELSE "free") \in PCs
    BY DEF PCs
  <2>. QED
    BY <2>1, PcMovedOK DEF ReleaseTest, AtTop
<1>. QED
  BY <1>1 DEF AnyInv, StackOK, TypeOK, files, ReleaseTest

LEMMA CachePrinterAny == ASSUME AnyInv, NEW t \in Threads, CachePrinter(t) PROVE AnyInv'
<1>1. stack[t] # <<>> /\ Top(t) \in Frames
  BY TopSame DEF CachePrinter, AtTop
<1>2. StackOK'
  BY <1>1, PopOK DEF CachePrinter
<1>3. mpCache' \in Printers \cup {Nothing}
  BY <1>1 DEF CachePrinter, Frames
<1>. QED
  BY <1>2, <1>3 DEF AnyInv, StackOK, TypeOK, files, CachePrinter

LEMMA FreePrinterAny == ASSUME AnyInv, NEW t \in Threads, FreePrinter(t) PROVE AnyInv'
<1>1. stack[t] # <<>>
  BY DEF FreePrinter, AtTop
<1>2. StackOK'
  BY <1>1, PopOK DEF FreePrinter
<1>3. fields' \in [Printers -> MsgPrinters]
  <2>1. Freed \in MsgPrinters
    BY LogAssumption DEF Freed, MsgPrinters
  <2>. QED
    BY <2>1 DEF AnyInv, TypeOK, FreePrinter
<1>4. heap' \subseteq Printers
  BY DEF AnyInv, TypeOK, FreePrinter
<1>. QED
  BY <1>2, <1>3, <1>4 DEF AnyInv, StackOK, TypeOK, files, FreePrinter

\* What the steps of open and close write over the call's record.
LEMMA FileCallMoves ==
  ASSUME AnyInv, NEW t \in Threads, NEW c \in FileCalls, filing' = [filing EXCEPT ![t] = c],
         logStream' \in Streams, openFiles' \subseteq Files, misclosed' \in BOOLEAN,
         UNCHANGED others
  PROVE  /\ AnyInv'
         /\ filing'[t] = c
<1>1. StackOK'
  BY StackSame DEF AnyInv, others
<1>2. filing' \in [Threads -> FileCalls] /\ filing'[t] = c
  BY DEF AnyInv, TypeOK
<1>. QED
  BY <1>1, <1>2 DEF AnyInv, TypeOK, others

\* A step of open or of close, and the record it leaves.
FileStep(t, c) ==
  \/ /\ Open(t)
     /\ c = [pc |-> IF logStream = Nothing THEN "fopen" ELSE "close", opening |-> TRUE, stream |-> Nothing]
  \/ Close(t) /\ c = [pc |-> "close", opening |-> FALSE, stream |-> Nothing]
  \/ CloseTest(t) /\ c = [filing[t] EXCEPT !.pc = IF logStream \in Files THEN "fclose" ELSE "clear"]
  \/ FClose(t) /\ c = [filing[t] EXCEPT !.pc = "clear"]
  \/ /\ ClearStream(t)
     /\ c = IF filing[t].opening THEN [filing[t] EXCEPT !.pc = "fopen"] ELSE NoFileCall
  \/ \E s \in Streams : FOpen(t, s) /\ c = [filing[t] EXCEPT !.pc = "assign", !.stream = s]
  \/ AssignStream(t) /\ c = NoFileCall

LEMMA FileStepAny ==
  ASSUME AnyInv, NEW t \in Threads, NEW c, FileStep(t, c)
  PROVE  AnyInv' /\ c \in FileCalls /\ filing'[t] = c
<1>1. filing[t] \in FileCalls /\ filing \in [Threads -> FileCalls]
  BY DEF AnyInv, TypeOK
<1>2. c \in FileCalls
  <2>1. \A pc \in {"clear", "fclose", "fopen"} : [filing[t] EXCEPT !.pc = pc] \in FileCalls
    BY <1>1 DEF FileCalls
  <2>2. \A s \in Streams : [filing[t] EXCEPT !.pc = "assign", !.stream = s] \in FileCalls
    BY <1>1 DEF FileCalls
  <2>3. /\ NoFileCall \in FileCalls
        /\ \A pc \in {"close", "fopen"}, b \in BOOLEAN :
             [pc |-> pc, opening |-> b, stream |-> Nothing] \in FileCalls
    BY DEF NoFileCall, FileCalls, Streams
  <2>. QED
    BY <2>1, <2>2, <2>3 DEF FileStep
<1>3. filing' = [filing EXCEPT ![t] = c]
  BY <1>1 DEF FileStep, Open, Close, CloseTest, FClose, ClearStream, FOpen, AssignStream
<1>4. UNCHANGED others /\ logStream' \in Streams /\ openFiles' \subseteq Files /\ misclosed' \in BOOLEAN
  BY <1>1 DEF AnyInv, TypeOK, FileStep, FileCalls, Streams, Open, Close, CloseTest, FClose,
              ClearStream, FOpen, AssignStream
<1>. QED
  BY <1>2, <1>3, <1>4, FileCallMoves

LEMMA FileStepOf ==
  ASSUME NEW t \in Threads,
         \/ Open(t) \/ Close(t) \/ CloseTest(t) \/ FClose(t) \/ ClearStream(t)
         \/ (\E s \in Streams : FOpen(t, s)) \/ AssignStream(t)
  PROVE  \E c : FileStep(t, c)
BY DEF FileStep

LEMMA InitAny == Init => AnyInv
<1>. SUFFICES ASSUME Init PROVE AnyInv
  OBVIOUS
<1>1. <<>> \in Seq(Frames) /\ Len(<<>>) = 0 /\ MaxDepth \in Nat
  BY LogAssumption
<1>2. StackOK
  BY <1>1 DEF Init, StackOK
<1>3. fields \in [Printers -> MsgPrinters]
  BY LogAssumption DEF Init, Freed, MsgPrinters
<1>4. filing \in [Threads -> FileCalls]
  BY DEF Init, NoFileCall, FileCalls, Streams
<1>5. level \in Severities
  BY LogAssumption DEF Init
<1>. QED
  BY <1>2, <1>3, <1>4, <1>5 DEF AnyInv, StackOK, TypeOK, Init, Streams

\* One step of the program keeps what holds for any threads.
LEMMA NextAny == AnyInv /\ [Next]_vars => AnyInv'
<1>. SUFFICES ASSUME AnyInv, [Next]_vars PROVE AnyInv'
  OBVIOUS
<1>1. CASE UNCHANGED vars
  BY <1>1 DEF vars, AnyInv, StackOK, TypeOK
<1>2. CASE Next
  <2>1. PICK t \in Threads :
          \/ Statement(t)
          \/ \E s \in Severities : SetLevel(t, s)
          \/ \E e \in BOOLEAN : SetEnabled(t, e)
          \/ \E c : FileStep(t, c)
    BY <1>2, FileStepOf DEF Next
  <2>2. CASE \E k \in Kinds, s \in Severities, off \in BOOLEAN : Begin(t, k, s, off)
    BY <2>2, BeginAny
  <2>3. CASE EvalArgs(t)
    BY <2>3, EvalArgsAny
  <2>4. CASE Insert(t)
    BY <2>4, InsertAny
  <2>5. CASE \E n \in 1..MaxDepth : Throw(t, n)
    BY <2>5, ThrowAny
  <2>6. CASE ReadCache(t)
    BY <2>6, ReadCacheAny
  <2>7. CASE ClearCache(t)
    BY <2>7, ClearCacheAny
  <2>8. CASE Curry(t)
    BY <2>8, CurryAny
  <2>9. CASE PrintTest(t)
    BY <2>9, PrintTestAny
  <2>10. CASE Write(t)
    BY <2>10, WriteAny
  <2>11. CASE ReleaseTest(t)
    BY <2>11, ReleaseTestAny
  <2>12. CASE Abort(t)
    BY <2>12 DEF AnyInv, StackOK, TypeOK, files, Abort
  <2>13. CASE CachePrinter(t)
    BY <2>13, CachePrinterAny
  <2>14. CASE FreePrinter(t)
    BY <2>14, FreePrinterAny
  <2>15. CASE \E s \in Severities : SetLevel(t, s)
    BY <2>15 DEF AnyInv, StackOK, TypeOK, files, SetLevel
  <2>16. CASE \E e \in BOOLEAN : SetEnabled(t, e)
    BY <2>16 DEF AnyInv, StackOK, TypeOK, files, SetEnabled
  <2>17. CASE \E c : FileStep(t, c)
    BY <2>17, FileStepAny
  <2>18. CASE MallocFails(t)
    BY <2>18 DEF AnyInv, StackOK, TypeOK, files, MallocFails
  <2>. QED
    BY <2>1, <2>2, <2>3, <2>4, <2>5, <2>6, <2>7, <2>8, <2>9, <2>10, <2>11, <2>12,
       <2>13, <2>14, <2>15, <2>16, <2>17, <2>18 DEF Statement
<1>. QED
  BY <1>1, <1>2

\* What logging keeps, the number of threads notwithstanding: the level stays
\* one of the levels, the cache and the frames hold blocks or nothing.
THEOREM TypeCorrect == Spec => []TypeOK
<1>1. AnyInv => TypeOK
  BY DEF AnyInv
<1>. QED
  BY <1>1, InitAny, NextAny, PTL DEF Spec

-----------------------------------------------------------------------------
(* With one thread.                                                        *)

OneThread == \A t, u \in Threads : t = u

\* What a frame, wherever it is on the stack, knows of the printers.
Sound(f) ==
  /\ f.kind = "LOG" => f.pc = "start"
  /\ f.pc = "start" => f.mp = Nothing
  /\ f.pc = "clear" => f.mp = mpCache
  /\ f.pc = "cache" => mpCache = Nothing
  /\ f.pc = "write" => /\ logStream = "stdout" \/ logStream \in openFiles
                       /\ f.sev >= level
  /\ Has(f) => /\ f.mp \in heap /\ f.mp \notin lost /\ f.mp # mpCache
               /\ fields[f.mp].isAssertion = IsAssert(f.kind)
               /\ fields[f.mp].level = IF f.pc = "got" /\ ~IsAssert(f.kind) THEN ZERO ELSE f.sev

\* A statement whose arguments are being evaluated.
Resting(f) == f.pc \in {"start", "got", "ready"} /\ ~f.args

StackSound(t) ==
  /\ \A i \in 1..Len(stack[t]) : Sound(stack[t][i])
  /\ \A i \in 1..Len(stack[t]) : i # Len(stack[t]) => Resting(stack[t][i])
  /\ \A i, j \in 1..Len(stack[t]) :
       Has(stack[t][i]) /\ Has(stack[t][j]) /\ stack[t][i].mp = stack[t][j].mp => i = j

HeldBy(t, p) == \E i \in 1..Len(stack[t]) : Has(stack[t][i]) /\ stack[t][i].mp = p

HeapSound ==
  /\ lost \subseteq heap
  /\ mpCache # Nothing => mpCache \in heap /\ mpCache \notin lost
  /\ \A p \in heap : p \in lost \/ p = mpCache \/ \E t \in Threads : HeldBy(t, p)

\* The open FILE at each point of open and close; the statements are at rest then.
FileSound(t) ==
  /\ filing[t].pc \in {"none", "close"} => openFiles = {logStream} \cap Files
  /\ filing[t].pc = "fclose" => logStream \in Files /\ openFiles = {logStream}
  /\ filing[t].pc = "clear" => openFiles = {}
  /\ filing[t].pc = "fopen" => openFiles = {} /\ logStream = Nothing
  /\ filing[t].pc = "assign" => openFiles = {filing[t].stream} \cap Files /\ logStream = Nothing
  /\ filing[t].pc # "none" => \A i \in 1..Len(stack[t]) : Resting(stack[t][i])

FilesSound == StreamOwned /\ \A t \in Threads : FileSound(t)

IInv == AnyInv /\ FilesSound /\ (\A t \in Threads : StackSound(t)) /\ HeapSound

\* The statements under the innermost one.
Under(t) == {stack[t][i] : i \in 1..(Len(stack[t]) - 1)}

LEMMA UnderFacts ==
  ASSUME IInv, NEW t \in Threads, stack[t] # <<>>
  PROVE  /\ Top(t) \in Frames /\ Sound(Top(t))
         /\ \A g \in Under(t) : /\ g \in Frames /\ Sound(g) /\ Resting(g)
                                /\ Has(g) /\ Has(Top(t)) => g.mp # Top(t).mp
<1>1. /\ stack[t] \in Seq(Frames) /\ Len(stack[t]) \in Nat /\ Len(stack[t]) \in 1..Len(stack[t])
      /\ Top(t) \in Frames
  BY Types DEF IInv, AnyInv
<1>2. StackSound(t)
  BY DEF IInv
<1>3. Sound(Top(t))
  BY <1>1, <1>2 DEF StackSound, Top
<1>4. ASSUME NEW g \in Under(t)
      PROVE  /\ g \in Frames /\ Sound(g) /\ Resting(g)
             /\ Has(g) /\ Has(Top(t)) => g.mp # Top(t).mp
  <2>1. PICK i \in 1..(Len(stack[t]) - 1) : g = stack[t][i]
    BY DEF Under
  <2>2. i \in 1..Len(stack[t]) /\ i # Len(stack[t])
    BY <1>1, <2>1
  <2>3. g \in Frames
    BY <1>1, <2>1, <2>2
  <2>4. Sound(g) /\ Resting(g)
    BY <1>2, <2>1, <2>2 DEF StackSound
  <2>5. Has(g) /\ Has(Top(t)) => g.mp # Top(t).mp
    BY <1>1, <1>2, <2>1, <2>2 DEF StackSound, Top
  <2>. QED
    BY <2>3, <2>4, <2>5
<1>. QED
  BY <1>1, <1>3, <1>4

\* A step that replaces the frame on top.
LEMMA SetTopSound ==
  ASSUME OneThread, IInv, NEW t \in Threads, stack[t] # <<>>, NEW f \in Frames, SetTop(t, f),
         Sound(f)', \A g \in Under(t) : Sound(g)',
         Has(f) => \A g \in Under(t) : Has(g) => g.mp # f.mp
  PROVE  /\ \A u \in Threads : StackSound(u)'
         /\ \A p : HeldBy(t, p) => (Has(Top(t)) /\ Top(t).mp = p) \/ HeldBy(t, p)'
         /\ Has(f) => HeldBy(t, f.mp)'
<1>1. /\ Len(stack[t]) \in Nat /\ Len(stack[t]) \in 1..Len(stack[t])
  BY Types DEF IInv, AnyInv
<1>2. /\ Len(stack'[t]) = Len(stack[t])
      /\ stack'[t][Len(stack[t])] = f
      /\ \A i \in 1..Len(stack[t]) : i # Len(stack[t]) => stack'[t][i] = stack[t][i]
  BY SetTopFacts DEF IInv, AnyInv
<1>3. \A i \in 1..Len(stack[t]) : i # Len(stack[t]) => stack[t][i] \in Under(t)
  BY <1>1 DEF Under
<1>4. ASSUME NEW i \in 1..Len(stack'[t])
      PROVE  Sound(stack[t][i])'
  <2>1. PICK g : g = stack'[t][i]
    OBVIOUS
  <2>2. Sound(g)'
    BY <1>1, <1>2, <1>3, <2>1
  <2>. QED
    BY <2>1, <2>2
<1>5. \A i \in 1..Len(stack'[t]) : i # Len(stack'[t]) => Resting(stack'[t][i])
  BY <1>1, <1>2, <1>3, UnderFacts
<1>6. StackSound(t)
  BY DEF IInv
<1>7. ASSUME NEW i \in 1..Len(stack[t]), NEW j \in 1..Len(stack[t]),
             Has(stack'[t][i]), Has(stack'[t][j]), stack'[t][i].mp = stack'[t][j].mp
      PROVE  i = j
  <2>1. CASE i # Len(stack[t]) /\ j # Len(stack[t])
    BY <1>2, <1>6, <1>7, <2>1 DEF StackSound
  <2>2. CASE i = Len(stack[t]) /\ j # Len(stack[t])
    BY <1>2, <1>3, <1>7, <2>2
  <2>3. CASE i # Len(stack[t]) /\ j = Len(stack[t])
    BY <1>2, <1>3, <1>7, <2>3
  <2>. QED
    BY <2>1, <2>2, <2>3
<1>8. StackSound(t)'
  BY <1>2, <1>4, <1>5, <1>7 DEF StackSound
<1>9. ASSUME NEW p, HeldBy(t, p)
      PROVE  (Has(Top(t)) /\ Top(t).mp = p) \/ HeldBy(t, p)'
  <2>1. PICK i \in 1..Len(stack[t]) : Has(stack[t][i]) /\ stack[t][i].mp = p
    BY <1>9 DEF HeldBy
  <2>2. CASE i = Len(stack[t])
    BY <2>1, <2>2 DEF Top
  <2>3. CASE i # Len(stack[t])
    BY <1>2, <2>1, <2>3 DEF HeldBy
  <2>. QED
    BY <2>2, <2>3
<1>10. Has(f) => HeldBy(t, f.mp)'
  BY <1>1, <1>2 DEF HeldBy
<1>. QED
  BY <1>8, <1>9, <1>10 DEF OneThread

\* A step that leaves the frames it keeps as they were.
LEMMA CutSound ==
  ASSUME OneThread, IInv, NEW t \in Threads, NEW keep \in 0..Len(stack[t]),
         stack' = [stack EXCEPT ![t] = SubSeq(@, 1, keep)],
         \A i \in 1..keep : \E g : g = stack[t][i] /\ Sound(g)'
  PROVE  /\ \A u \in Threads : StackSound(u)'
         /\ \A p : HeldBy(t, p) =>
              \/ HeldBy(t, p)'
              \/ \E i \in (keep + 1)..Len(stack[t]) : Has(stack[t][i]) /\ stack[t][i].mp = p
<1>1. Len(stack[t]) \in Nat /\ keep \in Nat /\ keep <= Len(stack[t])
  BY Types DEF IInv, AnyInv
<1>2. Len(stack'[t]) = keep /\ \A i \in 1..keep : stack'[t][i] = stack[t][i]
  BY CutFacts DEF IInv, AnyInv
<1>3. StackSound(t)
  BY DEF IInv
<1>4. ASSUME NEW i \in 1..Len(stack'[t])
      PROVE  Sound(stack[t][i])'
  <2>1. PICK g : g = stack[t][i] /\ Sound(g)'
    BY <1>2
  <2>2. g = stack'[t][i]
    BY <1>2, <2>1
  <2>. QED
    BY <2>1, <2>2
<1>5. ASSUME NEW i \in 1..Len(stack'[t]), i # Len(stack'[t])
      PROVE  Resting(stack'[t][i])
  <2>1. i \in 1..Len(stack[t]) /\ i # Len(stack[t]) /\ stack'[t][i] = stack[t][i]
    BY <1>1, <1>2, <1>5
  <2>. QED
    BY <1>3, <2>1 DEF StackSound
<1>6. ASSUME NEW i \in 1..Len(stack'[t]), NEW j \in 1..Len(stack'[t]),
             Has(stack'[t][i]), Has(stack'[t][j]), stack'[t][i].mp = stack'[t][j].mp
      PROVE  i = j
  <2>1. i \in 1..Len(stack[t]) /\ j \in 1..Len(stack[t])
    BY <1>1, <1>2
  <2>. QED
    BY <1>2, <1>3, <1>6, <2>1 DEF StackSound
<1>7. StackSound(t)'
  BY <1>4, <1>5, <1>6 DEF StackSound
<1>8. ASSUME NEW p, HeldBy(t, p)
      PROVE  \/ HeldBy(t, p)'
             \/ \E i \in (keep + 1)..Len(stack[t]) : Has(stack[t][i]) /\ stack[t][i].mp = p
  <2>1. PICK i \in 1..Len(stack[t]) : Has(stack[t][i]) /\ stack[t][i].mp = p
    BY <1>8 DEF HeldBy
  <2>2. CASE i <= keep
    <3>1. i \in 1..Len(stack'[t]) /\ stack'[t][i] = stack[t][i]
      BY <1>1, <1>2, <2>2
    <3>. QED
      BY <2>1, <3>1 DEF HeldBy
  <2>3. CASE ~(i <= keep)
    <3>1. i \in (keep + 1)..Len(stack[t])
      BY <1>1, <2>3
    <3>. QED
      BY <2>1, <3>1
  <2>. QED
    BY <2>2, <2>3
<1>. QED
  BY <1>7, <1>8 DEF OneThread

\* The end of the innermost statement.
LEMMA PopSound ==
  ASSUME OneThread, IInv, NEW t \in Threads, stack[t] # <<>>, Pop(t),
         \A g \in Under(t) : Sound(g)'
  PROVE  /\ \A u \in Threads : StackSound(u)'
         /\ \A p : HeldBy(t, p) => (Has(Top(t)) /\ Top(t).mp = p) \/ HeldBy(t, p)'
<1>. DEFINE keep == Len(stack[t]) - 1
<1>1. Len(stack[t]) \in Nat /\ Len(stack[t]) \in 1..Len(stack[t])
  BY Types DEF IInv, AnyInv
<1>2. keep \in 0..Len(stack[t])
  BY <1>1
<1>3. stack' = [stack EXCEPT ![t] = SubSeq(@, 1, keep)]
  BY DEF Pop, TypeOK, IInv, AnyInv
<1>4. ASSUME NEW i \in 1..keep
      PROVE  \E g : g = stack[t][i] /\ Sound(g)'
  <2>1. stack[t][i] \in Under(t)
    BY DEF Under
  <2>2. PICK g \in Under(t) : g = stack[t][i]
    BY <2>1
  <2>. QED
    BY <2>2
<1>5. /\ \A u \in Threads : StackSound(u)'
      /\ \A p : HeldBy(t, p) =>
           \/ HeldBy(t, p)'
           \/ \E i \in (keep + 1)..Len(stack[t]) : Has(stack[t][i]) /\ stack[t][i].mp = p
  <2>. HIDE DEF keep
  <2>. QED
    BY <1>2, <1>3, <1>4, CutSound
<1>6. ASSUME NEW i \in (keep + 1)..Len(stack[t])
      PROVE  stack[t][i] = Top(t)
  <2>1. i = Len(stack[t])
    BY <1>1
  <2>. QED
    BY <2>1 DEF Top
<1>. QED
  BY <1>5, <1>6

\* A frame at rest does not see the level or the log stream.
LEMMA RestSound ==
  ASSUME NEW g, Sound(g), g.pc \in {"start", "got", "ready"},
         UNCHANGED <<mpCache, heap, fields, lost>>
  PROVE  Sound(g)'
BY DEF Sound, Has

\* When client code runs, all statements are at rest.
LEMMA ClientFacts ==
  ASSUME IInv, NEW t \in Threads, InClient(t), NEW i \in 1..Len(stack[t])
  PROVE  stack[t][i] \in Frames /\ Sound(stack[t][i]) /\ Resting(stack[t][i])
<1>1. stack[t] \in Seq(Frames) /\ Len(stack[t]) \in Nat
  BY Types DEF IInv, AnyInv
<1>2. StackSound(t)
  BY DEF IInv
<1>3. Resting(stack[t][i])
  <2>1. CASE i = Len(stack[t])
    <3>1. stack[t] # <<>>
      BY <1>1
    <3>. QED
      BY <2>1, <3>1 DEF InClient, Top, Resting
  <2>2. CASE i # Len(stack[t])
    BY <1>2, <2>2 DEF StackSound
  <2>. QED
    BY <2>1, <2>2
<1>. QED
  BY <1>1, <1>2, <1>3 DEF StackSound

\* The client's calls that leave the statements and the printers alone.
LEMMA ClientSound ==
  ASSUME OneThread, IInv, FilesSound', NEW t \in Threads, AnyInv',
         \A i \in 1..Len(stack[t]) : Resting(stack[t][i]),
         UNCHANGED <<mpCache, heap, fields, stack, lost>>
  PROVE  IInv'
<1>1. ASSUME NEW i \in 1..Len(stack[t])
      PROVE  Sound(stack[t][i])'
  <2>1. PICK g : g = stack[t][i]
    OBVIOUS
  <2>2. Sound(g) /\ g.pc \in {"start", "got", "ready"}
    BY <2>1 DEF Resting, IInv, StackSound
  <2>3. Sound(g)'
    BY <2>2, RestSound
  <2>. QED
    BY <2>1, <2>3
<1>2. StackSound(t)
  BY DEF IInv
<1>3. StackSound(t)'
  BY <1>1, <1>2 DEF StackSound
<1>4. HeapSound'
  BY DEF IInv, HeapSound, HeldBy
<1>. QED
  BY <1>3, <1>4 DEF IInv, OneThread

\* A new statement has no printer yet.
LEMMA BeginSound ==
  ASSUME OneThread, IInv, FilesSound', NEW t \in Threads,
         NEW k \in Kinds, NEW s \in Severities, NEW off \in BOOLEAN, Begin(t, k, s, off)
  PROVE  IInv'
<1>. DEFINE n == Len(stack[t])
<1>1. PICK f \in Frames : f = [kind |-> k, sev |-> s, pc |-> "start", mp |-> Nothing, args |-> FALSE]
  BY DEF Frames, PCs
<1>2. n \in Nat /\ InClient(t)
  BY Types DEF IInv, AnyInv, Begin
<1>3. stack' = [stack EXCEPT ![t] = Append(@, f)] /\ UNCHANGED <<mpCache, heap, fields, lost>>
  BY <1>1 DEF Begin
<1>4. /\ Len(stack'[t]) = n + 1 /\ stack'[t][n + 1] = f
      /\ \A i \in 1..n : stack'[t][i] = stack[t][i]
  BY <1>3, PushFacts DEF IInv, AnyInv
<1>. HIDE DEF n
<1>5. f.pc = "start" /\ f.mp = Nothing /\ ~Has(f) /\ Sound(f)'
  BY <1>1 DEF Sound, Has
<1>6. \A i \in 1..(n + 1) : i # n + 1 => i \in 1..n
  BY <1>2
<1>7. ASSUME NEW i \in 1..n
      PROVE  \E g : g = stack[t][i] /\ Sound(g)' /\ Resting(g)
  <2>1. PICK g : g = stack[t][i]
    OBVIOUS
  <2>2. Sound(g) /\ Resting(g)
    BY <1>2, <2>1, ClientFacts DEF n
  <2>3. Sound(g)'
    BY <1>3, <2>2, RestSound DEF Resting
  <2>. QED
    BY <2>1, <2>2, <2>3
<1>8. ASSUME NEW i \in 1..Len(stack'[t])
      PROVE  Sound(stack[t][i])'
  <2>1. PICK g : g = stack'[t][i]
    OBVIOUS
  <2>2. Sound(g)'
    BY <1>4, <1>5, <1>6, <1>7, <2>1
  <2>. QED
    BY <2>1, <2>2
<1>9. \A i \in 1..Len(stack'[t]) : i # Len(stack'[t]) => Resting(stack'[t][i])
  BY <1>4, <1>6, <1>7
<1>10. StackSound(t)
  BY DEF IInv
<1>11. ASSUME NEW i \in 1..Len(stack'[t]), NEW j \in 1..Len(stack'[t]),
              Has(stack'[t][i]), Has(stack'[t][j]), stack'[t][i].mp = stack'[t][j].mp
       PROVE  i = j
  <2>1. i \in 1..n /\ j \in 1..n
    BY <1>4, <1>5, <1>6, <1>11
  <2>. QED
    BY <1>4, <1>10, <1>11, <2>1 DEF StackSound, n
<1>12. StackSound(t)'
  BY <1>8, <1>9, <1>11 DEF StackSound
<1>13. \A p : HeldBy(t, p) => HeldBy(t, p)'
  <2>1. \A i \in 1..n : i \in 1..(n + 1)
    BY <1>2
  <2>. QED
    BY <1>4, <2>1 DEF HeldBy, n
<1>14. HeapSound'
  BY <1>3, <1>13 DEF IInv, HeapSound, OneThread
<1>. QED
  BY <1>12, <1>14, BeginAny DEF IInv, OneThread

\* The printers of the statements an exception ends are lost, and nobody else's.
LEMMA ThrowSound ==
  ASSUME OneThread, IInv, FilesSound', NEW t \in Threads, NEW n \in 1..MaxDepth, Throw(t, n)
  PROVE  IInv'
<1>. DEFINE keep == Len(stack[t]) - n
<1>1. PICK gone : gone = {stack[t][i].mp : i \in (keep + 1)..Len(stack[t])}
  OBVIOUS
<1>2. Len(stack[t]) \in Nat /\ n \in 1..Len(stack[t]) /\ InClient(t)
  BY Types DEF IInv, AnyInv, Throw
<1>3. keep \in 0..Len(stack[t])
  BY <1>2
<1>4. /\ stack' = [stack EXCEPT ![t] = SubSeq(@, 1, keep)]
      /\ lost' = lost \cup (gone \ {Nothing}) /\ UNCHANGED <<mpCache, heap, fields>>
  BY <1>1 DEF Throw
<1>5. \A i \in 1..keep : i \in 1..Len(stack[t])
  BY <1>2
<1>6. \A i \in (keep + 1)..Len(stack[t]) : i \in 1..Len(stack[t])
  BY <1>2
<1>7. \A i \in 1..keep, j \in (keep + 1)..Len(stack[t]) : i # j
  BY <1>2
<1>. HIDE DEF keep
<1>8. StackSound(t)
  BY DEF IInv
<1>9. ASSUME NEW i \in (keep + 1)..Len(stack[t]), stack[t][i].mp # Nothing
      PROVE  /\ Has(stack[t][i]) /\ stack[t][i].mp \in heap
             /\ stack[t][i].mp # mpCache
  <2>1. Sound(stack[t][i]) /\ Resting(stack[t][i])
    BY <1>2, <1>6, ClientFacts
  <2>. QED
    BY <1>9, <2>1 DEF Sound, Has, Resting
<1>10. ASSUME NEW i \in 1..keep
       PROVE  \E g : g = stack[t][i] /\ Sound(g)'
  <2>1. PICK g : g = stack[t][i]
    OBVIOUS
  <2>2. Sound(g) /\ Resting(g)
    BY <1>2, <1>5, <2>1, ClientFacts
  <2>3. Has(g) => g.mp \notin gone \ {Nothing}
    <3>. SUFFICES ASSUME Has(g), NEW j \in (keep + 1)..Len(stack[t]),
                         stack[t][j].mp # Nothing, g.mp = stack[t][j].mp
                  PROVE  FALSE
      BY <1>1
    <3>1. Has(stack[t][j])
      BY <1>9
    <3>. QED
      BY <1>5, <1>6, <1>7, <1>8, <2>1, <3>1 DEF StackSound
  <2>4. Sound(g)'
    BY <1>4, <2>2, <2>3 DEF Sound, Has, Resting
  <2>. QED
    BY <2>1, <2>4
<1>11. /\ \A u \in Threads : StackSound(u)'
       /\ \A p : HeldBy(t, p) =>
            \/ HeldBy(t, p)'
            \/ \E i \in (keep + 1)..Len(stack[t]) : Has(stack[t][i]) /\ stack[t][i].mp = p
  BY <1>3, <1>4, <1>10, CutSound
<1>12. gone \ {Nothing} \subseteq heap /\ (mpCache # Nothing => mpCache \notin gone \ {Nothing})
  BY <1>1, <1>9
<1>13. \A p \in heap : p # Nothing
  BY LogAssumption DEF IInv, AnyInv, TypeOK
<1>14. ASSUME NEW p \in heap'
       PROVE  p \in lost' \/ p = mpCache' \/ HeldBy(t, p)'
  <2>1. p \in lost \/ p = mpCache \/ HeldBy(t, p)
    BY <1>4 DEF IInv, HeapSound, OneThread
  <2>2. CASE \E i \in (keep + 1)..Len(stack[t]) : stack[t][i].mp = p
    BY <1>1, <1>4, <1>13, <2>2
  <2>. QED
    BY <1>4, <1>11, <2>1, <2>2
<1>15. HeapSound'
  BY <1>4, <1>12, <1>14 DEF IInv, HeapSound
<1>. QED
  BY <1>11, <1>15, ThrowAny DEF IInv

LEMMA InsertSound ==
  ASSUME OneThread, IInv, FilesSound', NEW t \in Threads, Insert(t)
  PROVE  IInv'
<1>1. stack[t] # <<>> /\ Pop(t) /\ ~Has(Top(t))
  BY DEF Insert, AtTop, Has
<1>2. ASSUME NEW g \in Under(t)
      PROVE  Sound(g)'
  BY <1>1, UnderFacts, RestSound DEF Insert, Resting
<1>3. (\A u \in Threads : StackSound(u)') /\ (\A p : HeldBy(t, p) => HeldBy(t, p)')
  BY <1>1, <1>2, PopSound
<1>4. HeapSound'
  BY <1>3 DEF IInv, HeapSound, OneThread, Insert
<1>. QED
  BY <1>3, <1>4, InsertAny DEF IInv

\* A step of the innermost statement that changes no printer and leaves it
\* with the printer it had.
LEMMA QuietSound ==
  ASSUME OneThread, IInv, NEW t \in Threads, stack[t] # <<>>, NEW f \in Frames, SetTop(t, f),
         AnyInv', FilesSound', UNCHANGED <<mpCache, heap, fields, lost>>,
         Sound(f)', Has(f) <=> Has(Top(t)), Has(f) => f.mp = Top(t).mp
  PROVE  IInv'
<1>1. ASSUME NEW g \in Under(t)
      PROVE  Sound(g)'
  BY UnderFacts, RestSound DEF Resting
<1>2. Has(f) => \A g \in Under(t) : Has(g) => g.mp # f.mp
  BY UnderFacts
<1>3. /\ \A u \in Threads : StackSound(u)'
      /\ \A p : HeldBy(t, p) => (Has(Top(t)) /\ Top(t).mp = p) \/ HeldBy(t, p)'
      /\ Has(f) => HeldBy(t, f.mp)'
  BY <1>1, <1>2, SetTopSound
<1>4. \A p : HeldBy(t, p) => HeldBy(t, p)'
  BY <1>3
<1>5. HeapSound'
  BY <1>4 DEF IInv, HeapSound, OneThread
<1>. QED
  BY <1>3, <1>5 DEF IInv

LEMMA EvalArgsSound ==
  ASSUME OneThread, IInv, FilesSound', NEW t \in Threads, EvalArgs(t)
  PROVE  IInv'
<1>1. stack[t] # <<>> /\ Top(t) \in Frames /\ Sound(Top(t)) /\ InClient(t)
  BY UnderFacts DEF EvalArgs
<1>2. PICK f \in Frames : f = [Top(t) EXCEPT !.args = TRUE]
  BY <1>1, ArgsMoves
<1>3. f.pc = Top(t).pc /\ f.mp = Top(t).mp /\ f.kind = Top(t).kind /\ f.sev = Top(t).sev
  BY <1>1, <1>2, ArgsMoves
<1>4. SetTop(t, f) /\ UNCHANGED <<mpCache, heap, fields, lost>>
  BY <1>2 DEF EvalArgs
<1>5. Has(f) <=> Has(Top(t))
  BY <1>3 DEF Has
<1>6. Sound(f)
  BY <1>1, <1>3, <1>5 DEF Sound
<1>7. Sound(f)'
  BY <1>1, <1>3, <1>4, <1>6, RestSound DEF InClient
<1>. QED
  BY <1>1, <1>3, <1>4, <1>5, <1>7, QuietSound, EvalArgsAny DEF IInv

LEMMA ReadCacheSound ==
  ASSUME OneThread, IInv, FilesSound', NEW t \in Threads, ReadCache(t)
  PROVE  IInv'
<1>1. stack[t] # <<>> /\ Top(t) \in Frames /\ Top(t).pc = "start" /\ Top(t).kind # "LOG"
  BY UnderFacts DEF ReadCache, AtTop
<1>2. mpCache \in Printers \cup {Nothing} /\ "clear" \in PCs
  BY DEF IInv, AnyInv, TypeOK, PCs
<1>3. PICK f \in Frames : f = [Top(t) EXCEPT !.mp = mpCache, !.pc = "clear"]
  BY <1>1, <1>2, MpMoves
<1>4. f.pc = "clear" /\ f.mp = mpCache /\ f.kind = Top(t).kind
  BY <1>1, <1>2, <1>3 DEF Frames
<1>5. SetTop(t, f) /\ UNCHANGED <<mpCache, heap, fields, lost>>
  BY <1>3 DEF ReadCache
<1>6. ~Has(f) /\ ~Has(Top(t))
  BY <1>1, <1>4 DEF Has
<1>7. Sound(f)'
  BY <1>1, <1>4, <1>5, <1>6 DEF Sound
<1>. QED
  BY <1>1, <1>5, <1>6, <1>7, QuietSound, ReadCacheAny DEF IInv

LEMMA PrintTestSound ==
  ASSUME OneThread, IInv, FilesSound', NEW t \in Threads, PrintTest(t)
  PROVE  IInv'
<1>1. stack[t] # <<>> /\ Top(t) \in Frames /\ Sound(Top(t)) /\ Top(t).pc = "ready"
  BY UnderFacts DEF PrintTest, AtTop
<1>2. PICK pc \in {"write", "release"} : pc = IF Passes(Top(t).mp) THEN "write" ELSE "release"
  OBVIOUS
<1>3. pc \in PCs
  BY DEF PCs
<1>4. PICK f \in Frames : f = [Top(t) EXCEPT !.pc = pc]
  BY <1>1, <1>3, PcMoves
<1>5. f.pc = pc /\ f.mp = Top(t).mp /\ f.kind = Top(t).kind /\ f.sev = Top(t).sev
  BY <1>1, <1>3, <1>4, PcMoves
<1>6. SetTop(t, f) /\ UNCHANGED <<mpCache, heap, fields, lost, level, logStream, openFiles>>
  BY <1>2, <1>4 DEF PrintTest, files
<1>7. Has(f) /\ Has(Top(t))
  BY <1>1, <1>5 DEF Has
<1>8. f.kind # "LOG"
  BY <1>1, <1>5 DEF Sound
<1>9. Top(t).mp \in heap /\ Top(t).mp \notin lost /\ Top(t).mp # mpCache
      /\ fields[Top(t).mp].isAssertion = IsAssert(Top(t).kind)
      /\ fields[Top(t).mp].level = Top(t).sev
  BY <1>1, <1>7 DEF Sound
<1>10. pc = "write" => (logStream = "stdout" \/ logStream \in openFiles) /\ f.sev >= level
  <2>. SUFFICES ASSUME pc = "write"
                PROVE  (logStream = "stdout" \/ logStream \in openFiles) /\ f.sev >= level
    OBVIOUS
  <2>1. fields[Top(t).mp].level >= level /\ logStream # Nothing
    BY <1>2 DEF Passes
  <2>2. logStream = "stdout" \/ logStream \in openFiles
    <3>1. filing[t].pc = "none"
      BY DEF PrintTest, AtTop, AtFile
    <3>2. openFiles = {logStream} \cap Files /\ logStream \in Streams
      BY <3>1 DEF IInv, FilesSound, FileSound, AnyInv, TypeOK
    <3>. QED
      BY <2>1, <3>2 DEF Streams
  <2>. QED
    BY <1>5, <1>9, <2>1, <2>2
<1>11. Sound(f)'
  BY <1>5, <1>6, <1>7, <1>8, <1>9, <1>10 DEF Sound
<1>. QED
  BY <1>1, <1>5, <1>6, <1>7, <1>11, QuietSound, PrintTestAny DEF IInv

LEMMA WriteSound ==
  ASSUME OneThread, IInv, FilesSound', NEW t \in Threads, Write(t)
  PROVE  IInv'
<1>1. stack[t] # <<>> /\ Top(t) \in Frames /\ Sound(Top(t)) /\ Top(t).pc = "write"
  BY UnderFacts DEF Write, AtTop
<1>2. "release" \in PCs
  BY DEF PCs
<1>3. PICK f \in Frames : f = [Top(t) EXCEPT !.pc = "release"]
  BY <1>1, <1>2, PcMoves
<1>4. f.pc = "release" /\ f.mp = Top(t).mp /\ f.kind = Top(t).kind /\ f.sev = Top(t).sev
  BY <1>1, <1>2, <1>3, PcMoves
<1>5. SetTop(t, f) /\ UNCHANGED <<mpCache, heap, fields, lost>>
  BY <1>3 DEF Write
<1>6. Has(f) /\ Has(Top(t))
  BY <1>1, <1>4 DEF Has
<1>7. Sound(f)'
  BY <1>1, <1>4, <1>5, <1>6 DEF Sound
<1>. QED
  BY <1>1, <1>4, <1>5, <1>6, <1>7, QuietSound, WriteAny DEF IInv

LEMMA ReleaseTestSound ==
  ASSUME OneThread, IInv, FilesSound', NEW t \in Threads, ReleaseTest(t)
  PROVE  IInv'
<1>1. stack[t] # <<>> /\ Top(t) \in Frames /\ Sound(Top(t)) /\ Top(t).pc = "release"
  BY UnderFacts DEF ReleaseTest, AtTop
<1>2. PICK pc \in {"cache", "free"} : pc = IF mpCache = Nothing THEN "cache" ELSE "free"
  OBVIOUS
<1>3. pc \in PCs
  BY DEF PCs
<1>4. PICK f \in Frames : f = [Top(t) EXCEPT !.pc = pc]
  BY <1>1, <1>3, PcMoves
<1>5. f.pc = pc /\ f.mp = Top(t).mp /\ f.kind = Top(t).kind /\ f.sev = Top(t).sev
  BY <1>1, <1>3, <1>4, PcMoves
<1>6. SetTop(t, f) /\ UNCHANGED <<mpCache, heap, fields, lost>>
  BY <1>2, <1>4 DEF ReleaseTest
<1>7. Has(f) /\ Has(Top(t))
  BY <1>1, <1>5 DEF Has
<1>8. Sound(f)'
  BY <1>1, <1>2, <1>5, <1>6, <1>7 DEF Sound
<1>. QED
  BY <1>1, <1>5, <1>6, <1>7, <1>8, QuietSound, ReleaseTestAny DEF IInv

\* The printer that comes out of getMP was free or cached: no statement has it.
LEMMA ClearCacheSound ==
  ASSUME OneThread, IInv, FilesSound', NEW t \in Threads, ClearCache(t)
  PROVE  IInv'
<1>1. stack[t] # <<>> /\ Top(t) \in Frames /\ Sound(Top(t)) /\ Top(t).pc = "clear"
  BY UnderFacts DEF ClearCache, AtTop
<1>2. Compiled(Top(t)) /\ fields \in [Printers -> MsgPrinters] /\ heap \subseteq Printers
  BY <1>1, TopSame DEF IInv, AnyInv, TypeOK
<1>3. PICK p \in (IF Top(t).mp = Nothing THEN Printers \ heap ELSE {Top(t).mp}), old \in MsgPrinters :
        /\ heap' = heap \cup {p}
        /\ fields' = [fields EXCEPT ![p] = Stamped(old, Top(t).kind)]
        /\ SetTop(t, [Top(t) EXCEPT !.mp = p, !.pc = "got"])
  BY DEF ClearCache
<1>4. mpCache' = Nothing /\ lost' = lost /\ Top(t).mp = mpCache
  BY <1>1 DEF ClearCache, Sound
<1>5. p \in Printers
  <2>1. Top(t).mp \in Printers \cup {Nothing}
    BY <1>1 DEF Frames
  <2>. QED
    BY <1>3, <2>1
<1>6. "got" \in PCs
  BY DEF PCs
<1>7. PICK f \in Frames : f = [Top(t) EXCEPT !.mp = p, !.pc = "got"]
  BY <1>1, <1>5, <1>6, MpMoves
<1>8. f.pc = "got" /\ f.mp = p /\ f.kind = Top(t).kind /\ f.sev = Top(t).sev
  BY <1>1, <1>5, <1>6, <1>7 DEF Frames
<1>9. SetTop(t, f)
  BY <1>3, <1>7
<1>10. p # Nothing /\ (\A q \in heap : q # Nothing)
  BY <1>2, <1>5, LogAssumption
<1>11. p \notin heap \/ (p = mpCache /\ p \in heap)
  <2>1. mpCache # Nothing => mpCache \in heap
    BY DEF IInv, HeapSound
  <2>. QED
    BY <1>3, <1>4, <2>1
<1>12. p \notin lost
  BY <1>10, <1>11 DEF IInv, HeapSound
<1>13. mpCache # Nothing => p = mpCache
  BY <1>3, <1>4
<1>14. /\ fields'[p] = Stamped(old, Top(t).kind)
       /\ \A q \in Printers : q # p => fields'[q] = fields[q]
  BY <1>2, <1>3, <1>5
<1>15. \A g \in Under(t) : Has(g) => g.mp \in heap /\ g.mp # p
  BY <1>1, <1>11, UnderFacts DEF Sound
<1>16. ASSUME NEW g \in Under(t)
       PROVE  Sound(g)'
  <2>1. Sound(g) /\ Resting(g)
    BY <1>1, UnderFacts
  <2>2. Has(g) => fields'[g.mp] = fields[g.mp] /\ g.mp # mpCache' /\ g.mp \in heap'
    BY <1>2, <1>3, <1>4, <1>10, <1>14, <1>15
  <2>. QED
    BY <1>4, <2>1, <2>2 DEF Sound, Has, Resting
<1>17. Has(f) /\ ~Has(Top(t))
  BY <1>1, <1>8 DEF Has
<1>18. fields'[p].isAssertion = IsAssert(f.kind)
       /\ fields'[p].level = IF ~IsAssert(f.kind) THEN ZERO ELSE f.sev
  <2>1. IsAssert(f.kind) => f.sev = DISABLED
    BY <1>2, <1>8 DEF Compiled
  <2>2. fields'[p].isAssertion = IsAssert(f.kind)
    BY <1>8, <1>14 DEF Stamped
  <2>3. fields'[p].level = IF IsAssert(f.kind) THEN DISABLED ELSE ZERO
    BY <1>8, <1>14 DEF Stamped
  <2>. QED
    BY <2>1, <2>2, <2>3
<1>19. f.kind # "LOG"
  BY <1>1, <1>8 DEF Sound
<1>20. Sound(f)'
  BY <1>3, <1>4, <1>8, <1>10, <1>12, <1>17, <1>18, <1>19 DEF Sound
<1>21. /\ \A u \in Threads : StackSound(u)'
       /\ \A q : HeldBy(t, q) => (Has(Top(t)) /\ Top(t).mp = q) \/ HeldBy(t, q)'
       /\ Has(f) => HeldBy(t, f.mp)'
  BY <1>1, <1>8, <1>9, <1>15, <1>16, <1>20, SetTopSound
<1>22. ASSUME NEW q \in heap'
       PROVE  q \in lost' \/ q = mpCache' \/ HeldBy(t, q)'
  <2>1. CASE q = p
    BY <1>8, <1>17, <1>21, <2>1
  <2>2. CASE q # p
    <3>1. q \in heap /\ q # mpCache
      BY <1>3, <1>10, <1>13, <2>2
    <3>2. q \in lost \/ HeldBy(t, q)
      BY <3>1 DEF IInv, HeapSound, OneThread
    <3>. QED
      BY <1>4, <1>17, <1>21, <3>2
  <2>. QED
    BY <2>1, <2>2
<1>23. HeapSound'
  BY <1>3, <1>4, <1>22 DEF IInv, HeapSound
<1>. QED
  BY <1>21, <1>23, ClearCacheAny DEF IInv

LEMMA CurrySound ==
  ASSUME OneThread, IInv, FilesSound', NEW t \in Threads, Curry(t)
  PROVE  IInv'
<1>1. stack[t] # <<>> /\ Top(t) \in Frames /\ Sound(Top(t)) /\ Top(t).pc = "got"
  BY UnderFacts DEF Curry, AtTop
<1>2. fields \in [Printers -> MsgPrinters] /\ heap \subseteq Printers
  BY DEF IInv, AnyInv, TypeOK
<1>3. "ready" \in PCs
  BY DEF PCs
<1>4. PICK f \in Frames : f = [Top(t) EXCEPT !.pc = "ready"]
  BY <1>1, <1>3, PcMoves
<1>5. f.pc = "ready" /\ f.mp = Top(t).mp /\ f.kind = Top(t).kind /\ f.sev = Top(t).sev
  BY <1>1, <1>3, <1>4, PcMoves
<1>6. SetTop(t, f) /\ UNCHANGED <<mpCache, heap, lost>>
  BY <1>4 DEF Curry
<1>7. Has(f) /\ Has(Top(t))
  BY <1>1, <1>5 DEF Has
<1>8. /\ f.mp \in heap /\ f.mp \notin lost /\ f.mp # mpCache
      /\ fields[f.mp].isAssertion = IsAssert(f.kind)
      /\ IsAssert(f.kind) => fields[f.mp].level = f.sev
  BY <1>1, <1>5, <1>7 DEF Sound
<1>9. f.mp \in Printers /\ fields[f.mp] \in MsgPrinters
  BY <1>2, <1>8
<1>10. fields' = IF IsAssert(f.kind) THEN fields ELSE [fields EXCEPT ![f.mp].level = f.sev]
  BY <1>5 DEF Curry
<1>11. \A q \in Printers : q # f.mp => fields'[q] = fields[q]
  BY <1>2, <1>9, <1>10
<1>12. fields'[f.mp].isAssertion = IsAssert(f.kind) /\ fields'[f.mp].level = f.sev
  <2>1. CASE IsAssert(f.kind)
    BY <1>8, <1>10, <2>1
  <2>2. CASE ~IsAssert(f.kind)
    <3>1. fields'[f.mp] = [fields[f.mp] EXCEPT !.level = f.sev]
      BY <1>2, <1>9, <1>10, <2>2
    <3>2. fields'[f.mp].level = f.sev /\ fields'[f.mp].isAssertion = fields[f.mp].isAssertion
      BY <1>9, <3>1 DEF MsgPrinters
    <3>. QED
      BY <1>8, <3>2
  <2>. QED
    BY <2>1, <2>2
<1>13. \A g \in Under(t) : Has(g) => g.mp \in heap /\ g.mp # f.mp
  BY <1>1, <1>5, <1>7, UnderFacts DEF Sound
<1>14. ASSUME NEW g \in Under(t)
       PROVE  Sound(g)'
  <2>1. Sound(g) /\ Resting(g)
    BY <1>1, UnderFacts
  <2>2. Has(g) => fields'[g.mp] = fields[g.mp]
    BY <1>2, <1>11, <1>13
  <2>. QED
    BY <1>6, <2>1, <2>2 DEF Sound, Has, Resting
<1>15. Sound(f)'
  BY <1>1, <1>5, <1>6, <1>7, <1>8, <1>12 DEF Sound
<1>16. /\ \A u \in Threads : StackSound(u)'
       /\ \A q : HeldBy(t, q) => (Has(Top(t)) /\ Top(t).mp = q) \/ HeldBy(t, q)'
       /\ Has(f) => HeldBy(t, f.mp)'
  BY <1>1, <1>6, <1>13, <1>14, <1>15, SetTopSound
<1>17. \A q : HeldBy(t, q) => HeldBy(t, q)'
  BY <1>5, <1>7, <1>16
<1>18. HeapSound'
  BY <1>6, <1>17 DEF IInv, HeapSound, OneThread
<1>. QED
  BY <1>16, <1>18, CurryAny DEF IInv

LEMMA CachePrinterSound ==
  ASSUME OneThread, IInv, FilesSound', NEW t \in Threads, CachePrinter(t)
  PROVE  IInv'
<1>1. stack[t] # <<>> /\ Sound(Top(t)) /\ Top(t).pc = "cache" /\ Has(Top(t))
  BY UnderFacts DEF CachePrinter, AtTop, Has
<1>2. Pop(t) /\ mpCache' = Top(t).mp /\ mpCache = Nothing /\ UNCHANGED <<heap, fields, lost>>
  BY <1>1 DEF CachePrinter, Sound
<1>3. ASSUME NEW g \in Under(t)
      PROVE  Sound(g)'
  <2>1. Sound(g) /\ Resting(g) /\ (Has(g) => g.mp # Top(t).mp)
    BY <1>1, UnderFacts
  <2>. QED
    BY <1>2, <2>1 DEF Sound, Has, Resting
<1>4. /\ \A u \in Threads : StackSound(u)'
      /\ \A p : HeldBy(t, p) => (Has(Top(t)) /\ Top(t).mp = p) \/ HeldBy(t, p)'
  BY <1>1, <1>2, <1>3, PopSound
<1>5. mpCache' \in heap' /\ mpCache' \notin lost'
  BY <1>1, <1>2 DEF Sound
<1>6. \A p \in heap : p # Nothing
  BY LogAssumption DEF IInv, AnyInv, TypeOK
<1>7. ASSUME NEW p \in heap'
      PROVE  p \in lost' \/ p = mpCache' \/ HeldBy(t, p)'
  <2>1. p \in lost \/ HeldBy(t, p)
    BY <1>2, <1>6 DEF IInv, HeapSound, OneThread
  <2>. QED
    BY <1>2, <1>4, <2>1
<1>8. HeapSound'
  BY <1>2, <1>5, <1>7 DEF IInv, HeapSound
<1>. QED
  BY <1>4, <1>8, CachePrinterAny DEF IInv

LEMMA FreePrinterSound ==
  ASSUME OneThread, IInv, FilesSound', NEW t \in Threads, FreePrinter(t)
  PROVE  IInv'
<1>1. stack[t] # <<>> /\ Sound(Top(t)) /\ Has(Top(t))
  BY UnderFacts DEF FreePrinter, AtTop, Has
<1>2. /\ Pop(t) /\ UNCHANGED <<mpCache, lost>> /\ heap' = heap \ {Top(t).mp}
      /\ fields' = [fields EXCEPT ![Top(t).mp] = Freed]
  BY DEF FreePrinter
<1>3. fields \in [Printers -> MsgPrinters] /\ heap \subseteq Printers
  BY DEF IInv, AnyInv, TypeOK
<1>4. ASSUME NEW g \in Under(t)
      PROVE  Sound(g)'
  <2>1. Sound(g) /\ Resting(g) /\ (Has(g) => g.mp # Top(t).mp)
    BY <1>1, UnderFacts
  <2>2. Has(g) => fields'[g.mp] = fields[g.mp] /\ g.mp \in heap'
    <3>1. Has(g) => g.mp \in heap
      BY <2>1 DEF Sound
    <3>. QED
      BY <1>2, <1>3, <2>1, <3>1
  <2>. QED
    BY <1>2, <2>1, <2>2 DEF Sound, Has, Resting
<1>5. /\ \A u \in Threads : StackSound(u)'
      /\ \A p : HeldBy(t, p) => (Has(Top(t)) /\ Top(t).mp = p) \/ HeldBy(t, p)'
  BY <1>1, <1>2, <1>4, PopSound
<1>6. Top(t).mp # mpCache /\ Top(t).mp \notin lost
  BY <1>1 DEF Sound
<1>7. ASSUME NEW p \in heap'
      PROVE  p \in lost' \/ p = mpCache' \/ HeldBy(t, p)'
  <2>1. p \in heap /\ p # Top(t).mp
    BY <1>2
  <2>2. p \in lost \/ p = mpCache \/ HeldBy(t, p)
    BY <2>1 DEF IInv, HeapSound, OneThread
  <2>. QED
    BY <1>2, <1>5, <2>1, <2>2
<1>8. HeapSound'
  BY <1>2, <1>6, <1>7 DEF IInv, HeapSound
<1>. QED
  BY <1>5, <1>8, FreePrinterAny DEF IInv

LEMMA InitSound == Init => IInv
<1>. SUFFICES ASSUME Init PROVE IInv
  OBVIOUS
<1>1. \A t \in Threads : stack[t] = <<>> /\ Len(stack[t]) = 0
  BY DEF Init
<1>2. \A t \in Threads : StackSound(t)
  BY <1>1 DEF StackSound
<1>3. HeapSound
  BY DEF Init, HeapSound
<1>4. FilesSound
  <2>1. \A t \in Threads : filing[t].pc = "none"
    BY DEF Init, NoFileCall
  <2>. QED
    BY <2>1, LogAssumption DEF Init, FilesSound, FileSound, StreamOwned
<1>. QED
  BY <1>2, <1>3, <1>4, InitAny DEF IInv

\* IInv does not look at the other variables.
LEMMA SameSound ==
  ASSUME IInv, AnyInv', FilesSound',
         UNCHANGED <<level, logStream, openFiles, mpCache, heap, fields, stack, lost>>
  PROVE  IInv'
<1>1. ASSUME NEW t \in Threads
      PROVE  StackSound(t)'
  <2>1. StackSound(t)
    BY DEF IInv
  <2>. QED
    BY <2>1 DEF StackSound, Sound
<1>2. HeapSound'
  BY DEF IInv, HeapSound, HeldBy
<1>. QED
  BY <1>1, <1>2 DEF IInv

\* A step outside open and close leaves their state alone.
LEMMA FilesStay ==
  ASSUME OneThread, IInv, NEW t \in Threads, filing[t].pc = "none", UNCHANGED files
  PROVE  FilesSound'
<1>1. FileSound(t)'
  BY DEF IInv, FilesSound, FileSound, files
<1>. QED
  BY <1>1 DEF OneThread, IInv, FilesSound, StreamOwned, files

\* What is at rest while open and close are executed, and where they find the FILE.
LEMMA FileStepRests ==
  ASSUME IInv, NEW t \in Threads, NEW c, FileStep(t, c)
  PROVE  \A i \in 1..Len(stack[t]) : Resting(stack[t][i])
<1>1. CASE Open(t) \/ Close(t)
  BY <1>1, ClientFacts DEF Open, Close
<1>2. CASE filing[t].pc # "none"
  BY <1>2 DEF IInv, FilesSound, FileSound
<1>. QED
  BY <1>1, <1>2 DEF FileStep, CloseTest, FClose, ClearStream, FOpen, AssignStream, AtFile

\* One FILE at a time: close leaves none open, and open opens its own after that.
LEMMA FileStepSound ==
  ASSUME OneThread, IInv, NEW t \in Threads, NEW c, FileStep(t, c)
  PROVE  FilesSound'
<1>1. AnyInv' /\ c \in FileCalls /\ filing'[t] = c /\ filing[t] \in FileCalls
  BY FileStepAny DEF IInv, AnyInv, TypeOK
<1>2. \A i \in 1..Len(stack'[t]) : Resting(stack'[t][i])
  BY FileStepRests DEF FileStep, Open, Close, CloseTest, FClose, ClearStream, FOpen, AssignStream, others
<1>3. FileSound(t) /\ ~misclosed /\ logStream \in Streams
  BY DEF IInv, FilesSound, StreamOwned, AnyInv, TypeOK
<1>4. ~misclosed' /\ FileSound(t)'
  <2>1. CASE Open(t) \/ Close(t)
    <3>1. /\ UNCHANGED <<logStream, openFiles, misclosed>> /\ filing[t].pc = "none"
          /\ c.pc = "close" \/ (c.pc = "fopen" /\ logStream = Nothing)
      BY <1>1, <2>1 DEF Open, Close, InClient, AtFile, AnyInv, IInv, TypeOK
    <3>. QED
      BY <1>1, <1>2, <1>3, <3>1, LogAssumption DEF FileSound
  <2>2. CASE CloseTest(t)
    <3>1. /\ UNCHANGED <<logStream, openFiles, misclosed>> /\ filing[t].pc = "close"
          /\ \/ c.pc = "fclose" /\ logStream \in Files
             \/ c.pc = "clear" /\ logStream \notin Files
      BY <1>1, <2>2 DEF CloseTest, AtFile, FileCalls, IInv, AnyInv, TypeOK
    <3>. QED
      BY <1>1, <1>2, <1>3, <3>1 DEF FileSound
  <2>3. CASE FClose(t)
    <3>1. /\ openFiles' = openFiles \ {logStream} /\ misclosed' = (misclosed \/ logStream \notin openFiles)
          /\ filing[t].pc = "fclose" /\ c.pc = "clear"
      BY <1>1, <2>3 DEF FClose, AtFile, FileCalls, IInv, AnyInv, TypeOK
    <3>. QED
      BY <1>1, <1>2, <1>3, <3>1 DEF FileSound
  <2>4. CASE ClearStream(t)
    <3>1. /\ logStream' = Nothing /\ UNCHANGED <<openFiles, misclosed>>
          /\ filing[t].pc = "clear" /\ c.pc \in {"fopen", "none"}
      BY <1>1, <2>4 DEF ClearStream, NoFileCall, AtFile, FileCalls, IInv, AnyInv, TypeOK
    <3>. QED
      BY <1>1, <1>2, <1>3, <3>1, LogAssumption DEF FileSound
  <2>5. CASE \E s \in Streams : FOpen(t, s)
    <3>1. PICK s \in Streams : FOpen(t, s)
      BY <2>5
    <3>2. /\ openFiles' = openFiles \cup ({s} \cap Files) /\ UNCHANGED <<logStream, misclosed>>
          /\ filing[t].pc = "fopen" /\ c.pc = "assign" /\ c.stream = s
      BY <1>1, <3>1 DEF FOpen, AtFile, FileCalls, IInv, AnyInv, TypeOK
    <3>. QED
      BY <1>1, <1>2, <1>3, <3>2 DEF FileSound
  <2>6. CASE AssignStream(t)
    <3>1. /\ logStream' = filing[t].stream /\ UNCHANGED <<openFiles, misclosed>>
          /\ filing[t].pc = "assign" /\ c.pc = "none"
      BY <1>1, <2>6 DEF AssignStream, NoFileCall, AtFile, IInv, AnyInv, TypeOK
    <3>. QED
      BY <1>1, <1>2, <1>3, <3>1 DEF FileSound
  <2>. QED
    BY <2>1, <2>2, <2>3, <2>4, <2>5, <2>6 DEF FileStep
<1>. QED
  BY <1>4 DEF OneThread, FilesSound, StreamOwned, FileSound

LEMMA FilesNext ==
  ASSUME OneThread, IInv, [Next]_vars
  PROVE  FilesSound'
<1>1. CASE UNCHANGED vars
  BY <1>1 DEF vars, IInv, FilesSound, FileSound, StreamOwned
<1>2. CASE Next
  <2>1. PICK t \in Threads :
          \/ Statement(t)
          \/ \E s \in Severities : SetLevel(t, s)
          \/ \E e \in BOOLEAN : SetEnabled(t, e)
          \/ \E c : FileStep(t, c)
    BY <1>2, FileStepOf DEF Next
  <2>2. CASE Statement(t)
    <3>1. filing[t].pc = "none" /\ UNCHANGED files
      BY <2>2 DEF Statement, Begin, EvalArgs, Insert, Throw, ReadCache, ClearCache, MallocFails, Curry,
                  PrintTest, Write, ReleaseTest, Abort, CachePrinter, FreePrinter, InClient, AtTop, AtFile
    <3>. QED
      BY <3>1, FilesStay
  <2>3. CASE (\E s \in Severities : SetLevel(t, s)) \/ \E e \in BOOLEAN : SetEnabled(t, e)
    BY <2>3, FilesStay DEF SetLevel, SetEnabled, InClient, AtFile
  <2>. QED
    BY <2>1, <2>2, <2>3, FileStepSound
<1>. QED
  BY <1>1, <1>2

LEMMA MallocFailsSound ==
  ASSUME OneThread, IInv, FilesSound', NEW t \in Threads, MallocFails(t)
  PROVE  IInv'
<1>1. stack[t] # <<>> /\ mpCache = Nothing
  BY UnderFacts DEF MallocFails, AtTop, Sound
<1>. QED
  BY <1>1, SameSound, NextAny DEF MallocFails, files, Next, Statement, IInv

LEMMA NextSound ==
  ASSUME OneThread, IInv, [Next]_vars
  PROVE  IInv'
<1>. AnyInv' /\ FilesSound'
  BY NextAny, FilesNext DEF IInv
<1>1. CASE UNCHANGED vars
  BY <1>1, SameSound DEF vars
<1>2. CASE Next
  <2>1. PICK t \in Threads :
          \/ Statement(t)
          \/ \E s \in Severities : SetLevel(t, s)
          \/ \E e \in BOOLEAN : SetEnabled(t, e)
          \/ \E c : FileStep(t, c)
    BY <1>2, FileStepOf DEF Next
  <2>2. CASE \E k \in Kinds, s \in Severities, off \in BOOLEAN : Begin(t, k, s, off)
    BY <2>2, BeginSound
  <2>3. CASE EvalArgs(t)
    BY <2>3, EvalArgsSound
  <2>4. CASE Insert(t)
    BY <2>4, InsertSound
  <2>5. CASE \E n \in 1..MaxDepth : Throw(t, n)
    BY <2>5, ThrowSound
  <2>6. CASE ReadCache(t)
    BY <2>6, ReadCacheSound
  <2>7. CASE ClearCache(t)
    BY <2>7, ClearCacheSound
  <2>8. CASE Curry(t)
    BY <2>8, CurrySound
  <2>9. CASE PrintTest(t)
    BY <2>9, PrintTestSound
  <2>10. CASE Write(t)
    BY <2>10, WriteSound
  <2>11. CASE ReleaseTest(t)
    BY <2>11, ReleaseTestSound
  <2>12. CASE Abort(t)
    BY <2>12, SameSound DEF Abort, files
  <2>13. CASE CachePrinter(t)
    BY <2>13, CachePrinterSound
  <2>14. CASE FreePrinter(t)
    BY <2>14, FreePrinterSound
  <2>15. CASE \E s \in Severities : SetLevel(t, s)
    BY <2>15, ClientFacts, ClientSound DEF SetLevel
  <2>16. CASE \E e \in BOOLEAN : SetEnabled(t, e)
    BY <2>16, ClientFacts, ClientSound DEF SetEnabled
  <2>17. CASE \E c : FileStep(t, c)
    <3>1. UNCHANGED others
      BY <2>17 DEF FileStep, Open, Close, CloseTest, FClose, ClearStream, FOpen, AssignStream
    <3>. QED
      BY <2>17, <3>1, FileStepRests, ClientSound DEF others
  <2>18. CASE MallocFails(t)
    BY <2>18, MallocFailsSound
  <2>. QED
    BY <2>1, <2>2, <2>3, <2>4, <2>5, <2>6, <2>7, <2>8, <2>9, <2>10, <2>11, <2>12,
       <2>13, <2>14, <2>15, <2>16, <2>17, <2>18 DEF Statement
<1>. QED
  BY <1>1, <1>2

\* What the properties, which speak of positions, have to do with the stack.
LEMMA PositionFacts ==
  ASSUME IInv, NEW x \in Positions
  PROVE  /\ x[1] \in Threads /\ x[2] \in 1..Len(stack[x[1]]) /\ x = <<x[1], x[2]>>
         /\ Frame(x) = stack[x[1]][x[2]] /\ Frame(x) \in Frames /\ Sound(Frame(x))
<1>1. x[1] \in Threads /\ x[2] \in 1..MaxDepth /\ x[2] <= Len(stack[x[1]]) /\ x = <<x[1], x[2]>>
  BY DEF Positions
<1>2. stack[x[1]] \in Seq(Frames) /\ Len(stack[x[1]]) \in Nat /\ MaxDepth \in Nat
  BY <1>1, Types, LogAssumption DEF IInv, AnyInv
<1>3. x[2] \in 1..Len(stack[x[1]])
  BY <1>1, <1>2
<1>4. StackSound(x[1])
  BY <1>1 DEF IInv
<1>5. Sound(Frame(x))
  BY <1>3, <1>4 DEF StackSound, Frame
<1>. QED
  BY <1>1, <1>2, <1>3, <1>5 DEF Frame

LEMMA HeldFacts ==
  ASSUME IInv, NEW t \in Threads, NEW p, HeldBy(t, p)
  PROVE  p \in Held
<1>1. PICK i \in 1..Len(stack[t]) : Has(stack[t][i]) /\ stack[t][i].mp = p
  BY DEF HeldBy
<1>2. Len(stack[t]) \in Nat /\ Len(stack[t]) <= MaxDepth /\ MaxDepth \in Nat
  BY Types, LogAssumption DEF IInv, AnyInv
<1>3. i \in 1..MaxDepth /\ i <= Len(stack[t])
  BY <1>1, <1>2
<1>4. <<t, i>> \in Holders
  BY <1>1, <1>3 DEF Holders, Positions, Frame
<1>. QED
  BY <1>1, <1>4 DEF Held, Frame

LEMMA OneShotFacts == OneThread /\ IInv => OneShot
<1>. SUFFICES ASSUME OneThread, IInv PROVE OneShot
  OBVIOUS
<1>1. ASSUME NEW x \in Holders, NEW y \in Holders, Frame(x).mp = Frame(y).mp
      PROVE  x = y
  <2>1. x \in Positions /\ y \in Positions /\ Has(Frame(x)) /\ Has(Frame(y))
    BY DEF Holders
  <2>2. /\ x[1] \in Threads /\ x[2] \in 1..Len(stack[x[1]]) /\ x = <<x[1], x[2]>>
        /\ Frame(x) = stack[x[1]][x[2]]
    BY <2>1, PositionFacts
  <2>3. /\ y[1] \in Threads /\ y[2] \in 1..Len(stack[y[1]]) /\ y = <<y[1], y[2]>>
        /\ Frame(y) = stack[y[1]][y[2]]
    BY <2>1, PositionFacts
  <2>4. x[1] = y[1] /\ StackSound(x[1])
    BY <2>2, <2>3 DEF OneThread, IInv
  <2>5. x[2] = y[2]
    BY <1>1, <2>1, <2>2, <2>3, <2>4 DEF StackSound
  <2>. QED
    BY <2>2, <2>3, <2>4, <2>5
<1>2. \A x \in Holders : Frame(x).mp \in heap /\ Frame(x).mp # mpCache
  BY PositionFacts DEF Holders, Sound
<1>3. mpCache \notin Held /\ Held \subseteq heap
  BY <1>2 DEF Held
<1>. QED
  BY <1>1, <1>3 DEF OneShot, IInv, HeapSound

\* However open, close and fopen's failures follow each other in one thread, also
\* in the arguments of its statements, no FILE is closed twice or left open.
THEOREM StreamCorrect == ASSUME OneThread PROVE Spec => []StreamOwned
<1>1. IInv => StreamOwned
  BY DEF IInv, FilesSound
<1>2. IInv /\ [Next]_vars => IInv'
  BY NextSound
<1>. QED
  BY <1>1, <1>2, InitSound, PTL DEF Spec

\* One statement at a time has a printer, and never the cached one: log
\* statements may stand in the arguments of others, to any depth, and any of
\* them may be left by an exception.
THEOREM OneShotCorrect == ASSUME OneThread PROVE Spec => []OneShot
<1>1. IInv => OneShot
  BY OneShotFacts
<1>2. IInv /\ [Next]_vars => IInv'
  BY NextSound
<1>. QED
  BY <1>1, <1>2, InitSound, PTL DEF Spec

\* In one thread only an exception loses a printer: what malloc returned is
\* given back to the cache or freed at the end of its statement.
THEOREM PrintersReturn == ASSUME OneThread PROVE Spec => []NoPrinterLeaks
<1>1. IInv => NoPrinterLeaks
  <2>. SUFFICES ASSUME IInv PROVE NoPrinterLeaks
    OBVIOUS
  <2>1. Held \cup ({mpCache} \ {Nothing}) \subseteq heap
    BY OneShotFacts DEF OneShot
  <2>2. ASSUME NEW p \in heap
        PROVE  p \in Held \cup ({mpCache} \ {Nothing}) \cup lost
    <3>1. p # Nothing
      BY LogAssumption DEF IInv, AnyInv, TypeOK
    <3>. QED
      BY <3>1, HeldFacts DEF IInv, HeapSound
  <2>. QED
    BY <2>1, <2>2 DEF NoPrinterLeaks, IInv, HeapSound
<1>2. IInv /\ [Next]_vars => IInv'
  BY NextSound
<1>. QED
  BY <1>1, <1>2, InitSound, PTL DEF Spec

\* In one thread the fields of a printer are the ones its own statement wrote,
\* whatever was logged while its arguments were evaluated.
THEOREM RecordsCorrect == ASSUME OneThread PROVE Spec => []OwnRecord
<1>1. IInv => OwnRecord
  <2>. SUFFICES ASSUME IInv, NEW x \in Holders
                PROVE  /\ fields[Frame(x).mp].isAssertion = IsAssert(Frame(x).kind)
                       /\ fields[Frame(x).mp].level =
                            IF Frame(x).pc = "got" /\ ~IsAssert(Frame(x).kind) THEN ZERO ELSE Frame(x).sev
    BY DEF OwnRecord
  <2>1. Sound(Frame(x)) /\ Has(Frame(x))
    BY PositionFacts DEF Holders
  <2>. QED
    BY <2>1 DEF Sound
<1>2. IInv /\ [Next]_vars => IInv'
  BY NextSound
<1>. QED
  BY <1>1, <1>2, InitSound, PTL DEF Spec

\* In one thread the stream a message is written to is open, and the message
\* passes the level of that moment, also when its arguments changed either.
THEOREM WritesCorrect == ASSUME OneThread PROVE Spec => []WritesWhatPasses
<1>1. IInv => WritesWhatPasses
  BY PositionFacts DEF WritesWhatPasses, Sound
<1>2. IInv /\ [Next]_vars => IInv'
  BY NextSound
<1>. QED
  BY <1>1, <1>2, InitSound, PTL DEF Spec
=============================================================================
