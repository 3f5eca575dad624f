-------------------------------- MODULE Log ---------------------------------
(***************************************************************************)
(* DBUtl::Log and DBUtl::Assert (Log.h, Log.cpp): log statements and       *)
(* failing assertions that take a message printer from a cache of one, or  *)
(* from malloc, print through it and give it back; and the LOG statements  *)
(* of LogCPP.h, which need no printer and share the level.                 *)
(*                                                                         *)
(* A statement is a frame on the stack of its thread.  Its arguments are   *)
(* evaluated before the printer is taken, after, or after its level is     *)
(* set (C++98 leaves the order open), and may themselves log, assert, set  *)
(* the level, open or close the log, or throw.  The macros DBUTL_NLOG and  *)
(* DBUTL_NDEBUG act where a statement is compiled, and the header may be   *)
(* included again with others: each statement has its own.                 *)
(***************************************************************************)
EXTENDS Integers, Sequences, FiniteSets

CONSTANTS
  Threads,
  Severities,  \* the levels used, ZERO and DISABLED among them
  Printers,    \* bound: blocks malloc can return
  Files,       \* bound: FILEs fopen can return
  MaxDepth,    \* bound: statements nested in arguments
  MaxLost,     \* bound: printers lost before the last exception
  Nothing      \* a null pointer

ZERO == 0
INFO == 12
DISABLED == 127   \* HIGHEST, too

ASSUME LogAssumption ==
  /\ Severities \subseteq 0..DISABLED /\ {ZERO, INFO, DISABLED} \subseteq Severities
  /\ MaxDepth \in Nat \ {0} /\ MaxLost \in Nat
  /\ Nothing \notin Printers /\ Nothing \notin Files /\ "stdout" \notin Files

VARIABLES
  level,       \* _severityLevel
  enabled,     \* Assert::_enabled
  logStream,   \* logStream: Nothing, "stdout" or a FILE
  openFiles,   \* external: the FILEs fopen returned and fclose did not close
  filing,      \* the open or close each thread is executing
  misclosed,   \* history: fclose was given something that was not open
  mpCache,     \* mpCache
  heap,        \* external: the blocks malloc returned and free did not free
  fields,      \* the MsgPrinter in each block
  stack,       \* the statements each thread is executing, the innermost last
  lost,        \* history: printers held by a statement an exception ended
  aborted      \* the process has ended, by abort() or a null pointer

vars == <<level, enabled, logStream, openFiles, filing, misclosed, mpCache, heap, fields, stack, lost,
          aborted>>

files == <<logStream, openFiles, filing, misclosed>>

Kinds == {"fprintf", "printf", "assert", "assertAlways", "LOG"}

\* Which statements DBUTL_NLOG or DBUTL_NDEBUG is about.
Switched == {"fprintf", "printf", "assert"}

IsAssert(k) == k \in {"assert", "assertAlways"}

PCs == {"start", "clear", "got", "ready", "write", "release", "cache", "free"}

Frames == [kind : Kinds, sev : Severities, pc : PCs, mp : Printers \cup {Nothing}, args : BOOLEAN]

MsgPrinters == [level : Severities, isAssertion : BOOLEAN]

\* What a block outside the heap holds does not matter.
Freed == [level |-> ZERO, isAssertion |-> FALSE]

Streams == Files \cup {"stdout", Nothing}

\* The open or close of a thread; stream is open's local variable.
FileCalls == [pc : {"none", "close", "fclose", "clear", "fopen", "assign"},
              opening : BOOLEAN, stream : Streams]

NoFileCall == [pc |-> "none", opening |-> FALSE, stream |-> Nothing]

AtFile(t, pc) == ~aborted /\ filing[t].pc = pc

Top(t) == stack[t][Len(stack[t])]

AtTop(t, pc) == AtFile(t, "none") /\ stack[t] # <<>> /\ Top(t).pc = pc

SetTop(t, f) == stack' = [stack EXCEPT ![t][Len(stack[t])] = f]

Pop(t) == stack' = [stack EXCEPT ![t] = SubSeq(@, 1, Len(@) - 1)]

\* Where the code of a client runs: outside any statement, or in the arguments
\* of the innermost one.
InClient(t) ==
  /\ AtFile(t, "none")
  /\ stack[t] # <<>> => ~Top(t).args /\ Top(t).pc \in {"start", "got", "ready"}

Init ==
  /\ level = INFO
  /\ enabled = TRUE
  /\ logStream = Nothing
  /\ openFiles = {}
  /\ filing = [t \in Threads |-> NoFileCall]
  /\ misclosed = FALSE
  /\ mpCache = Nothing
  /\ heap = {}
  /\ fields = [p \in Printers |-> Freed]
  /\ stack = [t \in Threads |-> <<>>]
  /\ lost = {}
  /\ aborted = FALSE

-----------------------------------------------------------------------------
(* The client's other calls: setLevel, setEnabled, open and close.         *)

SetLevel(t, s) ==
  /\ InClient(t)
  /\ level' = s
  /\ UNCHANGED <<enabled, files, mpCache, heap, fields, stack, lost, aborted>>

SetEnabled(t, e) ==
  /\ InClient(t)
  /\ enabled' = e
  /\ UNCHANGED <<level, files, mpCache, heap, fields, stack, lost, aborted>>

\* The variables open and close leave alone.
others == <<level, enabled, mpCache, heap, fields, stack, lost, aborted>>

\* open without `if( isOpen() ) close();'.
OpenKeepingOld(t) ==
  /\ InClient(t)
  /\ filing' = [filing EXCEPT ![t] = [pc |-> "fopen", opening |-> TRUE, stream |-> Nothing]]
  /\ UNCHANGED <<others, logStream, openFiles, misclosed>>

\* open: `if( isOpen() ) close();'
Open(t) ==
  /\ InClient(t)
  /\ filing' = [filing EXCEPT ![t] = [pc |-> IF logStream = Nothing THEN "fopen" ELSE "close",
                                      opening |-> TRUE, stream |-> Nothing]]
  /\ UNCHANGED <<others, logStream, openFiles, misclosed>>

Close(t) ==
  /\ InClient(t)
  /\ filing' = [filing EXCEPT ![t] = [pc |-> "close", opening |-> FALSE, stream |-> Nothing]]
  /\ UNCHANGED <<others, logStream, openFiles, misclosed>>

\* close: `if( (logStream != NULL) && (logStream != stdout) )'
CloseTest(t) ==
  /\ AtFile(t, "close")
  /\ filing' = [filing EXCEPT ![t].pc = IF logStream \in Files THEN "fclose" ELSE "clear"]
  /\ UNCHANGED <<others, logStream, openFiles, misclosed>>

\* `fclose(logStream);', which reads logStream again.
FClose(t) ==
  /\ AtFile(t, "fclose")
  /\ openFiles' = openFiles \ {logStream}
  /\ misclosed' = (misclosed \/ logStream \notin openFiles)
  /\ filing' = [filing EXCEPT ![t].pc = "clear"]
  /\ UNCHANGED <<others, logStream>>

\* `logStream = NULL;', where close ends.
ClearStream(t) ==
  /\ AtFile(t, "clear")
  /\ logStream' = Nothing
  /\ filing' = [filing EXCEPT ![t] = IF @.opening THEN [@ EXCEPT !.pc = "fopen"] ELSE NoFileCall]
  /\ UNCHANGED <<others, openFiles, misclosed>>

\* open: stdout if the name is missing or "-", or else what fopen returns, which
\* may be a null pointer.
FOpen(t, s) ==
  /\ AtFile(t, "fopen")
  /\ s \notin openFiles
  /\ openFiles' = openFiles \cup ({s} \cap Files)
  /\ filing' = [filing EXCEPT ![t].pc = "assign", ![t].stream = s]
  /\ UNCHANGED <<others, logStream, misclosed>>

\* `logStream = stream;'
AssignStream(t) ==
  /\ AtFile(t, "assign")
  /\ logStream' = filing[t].stream
  /\ filing' = [filing EXCEPT ![t] = NoFileCall]
  /\ UNCHANGED <<others, openFiles, misclosed>>

-----------------------------------------------------------------------------
(* A statement: the test of the macro, then getMP, the level, the          *)
(* arguments, and print or printCurried.                                   *)

\* DBUTL_LOG_LEVEL, DBUTL_NLOG being defined or not.
LogLevel(off) == IF off THEN DISABLED ELSE level

\* The condition of each macro; the asserted expression is false, and LOG_LIMIT
\* is the default, which no level is below.
Enabled(k, s, off) ==
  CASE k = "fprintf" -> s >= LogLevel(off)
    [] k = "printf" -> LogLevel(off) < DISABLED
    [] k = "assert" -> ~off /\ enabled
    [] k = "assertAlways" -> TRUE
    [] k = "LOG" -> s >= level

Begin(t, k, s, off) ==
  /\ InClient(t)
  /\ Len(stack[t]) < MaxDepth
  /\ Enabled(k, s, off)
  /\ off => k \in Switched
  /\ IsAssert(k) => s = DISABLED
  /\ stack' = [stack EXCEPT ![t] =
       Append(@, [kind |-> k, sev |-> s, pc |-> "start", mp |-> Nothing, args |-> FALSE])]
  /\ UNCHANGED <<level, enabled, files, mpCache, heap, fields, lost, aborted>>

\* The arguments of the innermost statement are evaluated.
EvalArgs(t) ==
  /\ InClient(t)
  /\ stack[t] # <<>>
  /\ SetTop(t, [Top(t) EXCEPT !.args = TRUE])
  /\ UNCHANGED <<level, enabled, files, mpCache, heap, fields, lost, aborted>>

\* They throw instead, and the exception leaves the n innermost statements.
Throw(t, n) ==
  /\ InClient(t)
  /\ n \in 1..Len(stack[t])
  /\ Cardinality(lost) < MaxLost
  /\ LET keep == Len(stack[t]) - n
         gone == {stack[t][i].mp : i \in (keep + 1)..Len(stack[t])}
     IN  /\ stack' = [stack EXCEPT ![t] = SubSeq(@, 1, keep)]
         /\ lost' = lost \cup (gone \ {Nothing})
  /\ UNCHANGED <<level, enabled, files, mpCache, heap, fields, aborted>>

\* LOG's insertions; the level is not looked at again.
Insert(t) ==
  /\ AtTop(t, "start")
  /\ Top(t).kind = "LOG" /\ Top(t).args
  /\ Pop(t)
  /\ UNCHANGED <<level, enabled, files, mpCache, heap, fields, lost, aborted>>

\* getMP: `mp = mpCache;'
ReadCache(t) ==
  /\ AtTop(t, "start") /\ Top(t).kind # "LOG"
  /\ SetTop(t, [Top(t) EXCEPT !.mp = mpCache, !.pc = "clear"])
  /\ UNCHANGED <<level, enabled, files, mpCache, heap, fields, lost, aborted>>

StampedPastHighest(old, k) == [level |-> IF IsAssert(k) THEN DISABLED + 1 ELSE ZERO,
                               isAssertion |-> IsAssert(k)]

StampedLevelOnly(old, k) == [level |-> IF IsAssert(k) THEN DISABLED ELSE ZERO,
                             isAssertion |-> old.isAssertion]

\* What getMP writes over the fields of a printer, malloc's or used before.
Stamped(old, k) == [level |-> IF IsAssert(k) THEN DISABLED ELSE ZERO,
                    isAssertion |-> IsAssert(k)]

\* getMP without `mpCache = 0'.
ClearCacheNot(t) ==
  /\ AtTop(t, "clear")
  /\ UNCHANGED mpCache
  /\ \E p \in (IF Top(t).mp = Nothing THEN Printers \ heap ELSE {Top(t).mp}),
        old \in MsgPrinters :
       /\ heap' = heap \cup {p}
       /\ Top(t).mp # Nothing => old = fields[p]
       /\ fields' = [fields EXCEPT ![p] = Stamped(old, Top(t).kind)]
       /\ SetTop(t, [Top(t) EXCEPT !.mp = p, !.pc = "got"])
  /\ UNCHANGED <<level, enabled, files, lost, aborted>>

\* getMP: `mpCache = 0;', malloc unless there was a printer, and its fields;
\* an assertion's printer is then ready, the other statements' not.
ClearCache(t) ==
  /\ AtTop(t, "clear")
  /\ mpCache' = Nothing
  /\ \E p \in (IF Top(t).mp = Nothing THEN Printers \ heap ELSE {Top(t).mp}),
        old \in MsgPrinters :
       /\ heap' = heap \cup {p}
       /\ Top(t).mp # Nothing => old = fields[p]
       /\ fields' = [fields EXCEPT ![p] = Stamped(old, Top(t).kind)]
       /\ SetTop(t, [Top(t) EXCEPT !.mp = p, !.pc = "got"])
  /\ UNCHANGED <<level, enabled, files, lost, aborted>>

\* getMP: malloc returns a null pointer, and `mp->level = s' writes through it.
MallocFails(t) ==
  /\ AtTop(t, "clear")
  /\ Top(t).mp = Nothing
  /\ mpCache' = Nothing
  /\ aborted' = TRUE
  /\ UNCHANGED <<level, enabled, files, heap, fields, stack, lost>>

\* curry(lev); assertionFailed writes its text instead, print() its level.
Curry(t) ==
  /\ AtTop(t, "got")
  /\ Top(t).kind = "printf" => Top(t).args
  /\ fields' = IF IsAssert(Top(t).kind) THEN fields
               ELSE [fields EXCEPT ![Top(t).mp].level = Top(t).sev]
  /\ SetTop(t, [Top(t) EXCEPT !.pc = "ready"])
  /\ UNCHANGED <<level, enabled, files, mpCache, heap, lost, aborted>>

PassesStreamOnly(mp) == logStream # Nothing

\* The condition of print and printCurried.
Passes(mp) == fields[mp].level >= level /\ logStream # Nothing

PrintTest(t) ==
  /\ AtTop(t, "ready")
  /\ Top(t).args
  /\ SetTop(t, [Top(t) EXCEPT !.pc = IF Passes(Top(t).mp) THEN "write" ELSE "release"])
  /\ UNCHANGED <<level, enabled, files, mpCache, heap, fields, lost, aborted>>

Write(t) ==
  /\ AtTop(t, "write")
  /\ SetTop(t, [Top(t) EXCEPT !.pc = "release"])
  /\ UNCHANGED <<level, enabled, files, mpCache, heap, fields, lost, aborted>>

ReleaseTestNot(t) ==
  /\ AtTop(t, "release")
  /\ ~fields[Top(t).mp].isAssertion
  /\ SetTop(t, [Top(t) EXCEPT !.pc = "cache"])
  /\ UNCHANGED <<level, enabled, files, mpCache, heap, fields, lost, aborted>>

\* `if( mpCache == 0 )', for a printer that is not an assertion's.
ReleaseTest(t) ==
  /\ AtTop(t, "release")
  /\ ~fields[Top(t).mp].isAssertion
  /\ SetTop(t, [Top(t) EXCEPT !.pc = IF mpCache = Nothing THEN "cache" ELSE "free"])
  /\ UNCHANGED <<level, enabled, files, mpCache, heap, fields, lost, aborted>>

Abort(t) ==
  /\ AtTop(t, "release")
  /\ fields[Top(t).mp].isAssertion
  /\ aborted' = TRUE
  /\ UNCHANGED <<level, enabled, files, mpCache, heap, fields, stack, lost>>

CachePrinter(t) ==
  /\ AtTop(t, "cache")
  /\ mpCache' = Top(t).mp
  /\ Pop(t)
  /\ UNCHANGED <<level, enabled, files, heap, fields, lost, aborted>>

FreePrinter(t) ==
  /\ AtTop(t, "free")
  /\ heap' = heap \ {Top(t).mp}
  /\ fields' = [fields EXCEPT ![Top(t).mp] = Freed]
  /\ Pop(t)
  /\ UNCHANGED <<level, enabled, files, mpCache, lost, aborted>>

-----------------------------------------------------------------------------
Statement(t) ==
  \/ \E k \in Kinds, s \in Severities, off \in BOOLEAN : Begin(t, k, s, off)
  \/ EvalArgs(t) \/ Insert(t)
  \/ \E n \in 1..MaxDepth : Throw(t, n)
  \/ ReadCache(t) \/ ClearCache(t) \/ MallocFails(t) \/ Curry(t)
  \/ PrintTest(t) \/ Write(t)
  \/ ReleaseTest(t) \/ Abort(t) \/ CachePrinter(t) \/ FreePrinter(t)

Next ==
  \E t \in Threads :
    \/ Statement(t)
    \/ \E s \in Severities : SetLevel(t, s)
    \/ \E e \in BOOLEAN : SetEnabled(t, e)
    \/ Open(t) \/ Close(t)
    \/ CloseTest(t) \/ FClose(t) \/ ClearStream(t)
    \/ \E s \in Streams : FOpen(t, s)
    \/ AssignStream(t)

Spec == Init /\ [][Next]_vars

-----------------------------------------------------------------------------
(* Properties.                                                             *)

TypeOK ==
  /\ level \in Severities
  /\ enabled \in BOOLEAN
  /\ logStream \in Streams
  /\ openFiles \subseteq Files
  /\ filing \in [Threads -> FileCalls]
  /\ misclosed \in BOOLEAN
  /\ mpCache \in Printers \cup {Nothing}
  /\ heap \subseteq Printers
  /\ fields \in [Printers -> MsgPrinters]
  /\ stack \in [Threads -> Seq(Frames)]
  /\ \A t \in Threads : Len(stack[t]) <= MaxDepth
  /\ lost \subseteq Printers
  /\ aborted \in BOOLEAN

\* A statement that has come out of getMP has the printer in its frame.
Has(f) == f.pc \notin {"start", "clear"}

Positions == {x \in Threads \X (1..MaxDepth) : x[2] <= Len(stack[x[1]])}

Frame(x) == stack[x[1]][x[2]]

Holders == {x \in Positions : Has(Frame(x))}

Held == {Frame(x).mp : x \in Holders}

\* Log.h:88, "get a (one-shot) log message printer": no two statements have
\* the same printer, and the cache does not offer one that a statement has.
OneShot ==
  /\ \A x, y \in Holders : Frame(x).mp = Frame(y).mp => x = y
  /\ mpCache \notin Held
  /\ Held \cup ({mpCache} \ {Nothing}) \subseteq heap

\* A printer is given back: each block still allocated belongs to a statement
\* being executed, or is the cached one, or was lost to an exception.
NoPrinterLeaks == heap = Held \cup ({mpCache} \ {Nothing}) \cup lost

\* Until it prints, a statement's printer keeps the level and the kind the
\* statement gave it, whatever its arguments log, and whatever malloc's block
\* or the previous user of the printer had in it.
OwnRecord ==
  \A x \in Holders :
    LET f == Frame(x)
        rec == fields[f.mp]
    IN  /\ rec.isAssertion = IsAssert(f.kind)
        /\ rec.level = IF f.pc = "got" /\ ~IsAssert(f.kind) THEN ZERO ELSE f.sev

\* open and close keep track of the FILE: nothing is closed twice, and between
\* the calls the one open file is the log stream, also when an fopen has failed.
StreamOwned ==
  /\ ~misclosed
  /\ (\A t \in Threads : filing[t].pc = "none") => openFiles = {logStream} \cap Files

\* The arguments may close the log or raise the level, but a message is never
\* written to a closed log, nor below the level of that moment.
WritesWhatPasses ==
  \A x \in Positions : Frame(x).pc = "write" =>
    /\ logStream = "stdout" \/ logStream \in openFiles
    /\ Frame(x).sev >= level
=============================================================================
