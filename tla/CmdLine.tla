------------------------------ MODULE CmdLine -------------------------------
(***************************************************************************)
(* DBUtl::CmdLine (CmdLine.cpp): the array parsers over getToken, which    *)
(* scans an argument character by character into a buffer of fixed length, *)
(* and compressArgs, which drops null arguments in place.                  *)
(*                                                                         *)
(* A call is chosen in Init and runs to its end.  The parsers get what     *)
(* getSuffixAfterPrefixMatch makes of an argument: what follows the flag,  *)
(* or a null pointer.                                                      *)
(***************************************************************************)
EXTENDS Integers, Sequences, FiniteSets, SequencesExt

CONSTANTS
  Digits,      \* characters strtod accepts, each with its value
  Letters,     \* characters it does not
  Flag,        \* flagArg
  MaxText,     \* bound: length of what follows the flag
  BLEN,        \* sizeof tokBuf
  MaxSize,     \* bound: sz of a call
  MaxArgs,     \* bound: argc
  Nothing      \* a null pointer

NUL == "NUL"

Space == " "

Delims == {",", ":"}   \* the default of getToken; strchr finds NUL, too

Characters == DOMAIN Digits \cup Letters \cup Delims \cup {Space}

ASSUME CmdLineAssumption ==
  /\ BLEN \in Nat \ {0, 1}
  /\ NUL \notin Characters /\ Nothing \notin Characters \cup {NUL}
  /\ {MaxText, MaxSize, MaxArgs} \subseteq Nat
  /\ Flag \in Seq(Characters)
  /\ \A d \in DOMAIN Digits : Digits[d] \in 0..9
  /\ (DOMAIN Digits \cup Letters) \cap (Delims \cup {Space}) = {}

VARIABLES
  call,        \* the call: [kind, text, sz]; the text of compressArgs is its argv
  pc,          \* "scan": in getToken; "token": it has returned; "compress";
               \* "returned"; "thrown"
  s,           \* *ps, or getToken's s: the position in the text
  buf,         \* tokBuf
  p,           \* getToken's p
  delim,       \* what getToken returned, Nothing being -1
  inner,       \* the inner loop of getArrayOfVectorsOfDoubles
  a,           \* the elements of the caller's array that are set
  argv, argc, i, newArgc, \* compressArgs
  ret          \* what the call returned

vars == <<call, pc, s, buf, p, delim, inner, a, argv, argc, i, newArgc, ret>>
tokVars == <<buf, p, s>>
argVars == <<argv, argc, i, newArgc>>

Kinds == {"strings", "doubles", "vectors", "compress"}

Texts == UNION {[1..n -> Characters] : n \in 0..MaxText}

\* What follows flagArg in an argument that begins with it.
getSuffixAfterPrefixMatch(arg, flagArg) ==
  IF IsPrefix(flagArg, arg) THEN SubSeq(arg, Len(flagArg) + 1, Len(arg)) ELSE Nothing

Arguments == {Flag \o t : t \in Texts} \cup {<<>>}

ArgTexts == {getSuffixAfterPrefixMatch(arg, Flag) : arg \in Arguments}

\* The caller's arguments, those it has dealt with being null.
ArgLists == UNION {[1..n -> {Nothing} \cup 1..n] : n \in 0..MaxArgs}

Init ==
  /\ call \in [kind : Kinds \ {"compress"}, text : ArgTexts, sz : 0..MaxSize]
              \cup [kind : {"compress"}, text : ArgLists, sz : {0}]
  /\ pc = IF call.kind = "compress" THEN "compress"
          ELSE IF call.text = Nothing THEN "returned" ELSE "scan"
  /\ ret = -1
  /\ s = 1 /\ p = 0
  /\ buf = [k \in 0..(BLEN - 1) |-> NUL]
  /\ delim = NUL /\ inner = FALSE
  /\ a = <<>>
  /\ argv = IF call.kind = "compress" THEN call.text ELSE <<>>
  /\ argc = Len(argv) /\ i = 0 /\ newArgc = 0

-----------------------------------------------------------------------------
(* getToken, one turn of its loop per step.                                *)

\* `c = *s'
Char == IF s <= Len(call.text) THEN call.text[s] ELSE NUL

PlimPast == BLEN

plim == BLEN - 1

IsDelim(c) == c \in Delims \cup {NUL}

SkipSpace ==
  /\ pc = "scan" /\ Char = Space
  /\ s' = s + 1
  /\ UNCHANGED <<call, pc, buf, p, delim, inner, a, argVars, ret>>

KeepChar ==
  /\ pc = "scan" /\ Char # Space /\ ~IsDelim(Char)
  /\ buf' = [buf EXCEPT ![p] = Char]
  /\ p' = IF p < plim THEN p + 1 ELSE p
  /\ s' = s + 1
  /\ UNCHANGED <<call, pc, delim, inner, a, argVars, ret>>

\* The slip of taking any empty token for the end of the text.
EndTokenEmpty ==
  /\ pc = "scan" /\ IsDelim(Char)
  /\ buf' = [buf EXCEPT ![p] = NUL]
  /\ s' = IF Char = NUL THEN s ELSE s + 1
  /\ delim' = IF p = 0 THEN Nothing ELSE Char
  /\ pc' = "token"
  /\ UNCHANGED <<call, p, inner, a, argVars, ret>>

EndToken ==
  /\ pc = "scan" /\ IsDelim(Char)
  /\ buf' = [buf EXCEPT ![p] = NUL]
  /\ s' = IF Char = NUL THEN s ELSE s + 1
  /\ delim' = IF Char = NUL /\ p = 0 THEN Nothing ELSE Char
  /\ pc' = "token"
  /\ UNCHANGED <<call, p, inner, a, argVars, ret>>

-----------------------------------------------------------------------------
(* getArrayOfStrings, getArrayOfDoubles and getArrayOfVectorsOfDoubles.    *)

\* A C string at the start of the buffer.
CString(b) ==
  LET end == CHOOSE n \in 0..(BLEN - 1) : b[n] = NUL /\ \A k \in 0..(n - 1) : b[k] # NUL
  IN  [k \in 1..end |-> b[k - 1]]

\* The value of the digits before the first character that is none.
strtod(tok) ==
  LET accepted == {n \in 0..Len(tok) : \A k \in 1..n : tok[k] \in DOMAIN Digits}
      n == CHOOSE m \in accepted : \A k \in accepted : k <= m
  IN  FoldLeft(LAMBDA v, c : 10 * v + Digits[c], 0, SubSeq(tok, 1, n))

\* copyCString or strtod
Value(kind, tok) == IF kind = "strings" THEN tok ELSE strtod(tok)

NoMoreTokens ==
  /\ pc = "token" /\ delim = Nothing
  /\ pc' = "returned" /\ ret' = Len(a)
  /\ UNCHANGED <<call, tokVars, delim, inner, a, argVars>>

TooManyValues ==
  /\ pc = "token" /\ delim # Nothing /\ ~inner /\ Len(a) >= call.sz
  /\ pc' = "thrown"
  /\ UNCHANGED <<call, tokVars, delim, inner, a, argVars, ret>>

\* The token goes into a new element, or at the end of the current vector.
Store ==
  /\ pc = "token" /\ delim # Nothing /\ (inner \/ Len(a) < call.sz)
  /\ LET v == Value(call.kind, CString(buf))
     IN  a' = IF inner THEN [a EXCEPT ![Len(a)] = Append(@, v)]
              ELSE Append(a, IF call.kind = "vectors" THEN <<v>> ELSE v)
  /\ inner' = (call.kind = "vectors" /\ delim # ":")
  /\ IF delim = NUL
     THEN pc' = "returned" /\ ret' = Len(a') /\ UNCHANGED p
     ELSE pc' = "scan" /\ p' = 0 /\ UNCHANGED ret
  /\ UNCHANGED <<call, s, buf, delim, argVars>>

-----------------------------------------------------------------------------
(* compressArgs, one turn of its loop per step.                            *)

Compress ==
  /\ pc = "compress" /\ i < argc
  /\ IF argv[i + 1] # Nothing
     THEN argv' = [argv EXCEPT ![newArgc + 1] = argv[i + 1]] /\ newArgc' = newArgc + 1
     ELSE UNCHANGED <<argv, newArgc>>
  /\ i' = i + 1
  /\ UNCHANGED <<call, pc, tokVars, delim, inner, a, argc, ret>>

CompressEndsKeeping ==
  /\ pc = "compress" /\ i = argc
  /\ pc' = "returned"
  /\ UNCHANGED <<call, tokVars, delim, inner, a, argVars, ret>>

CompressEnds ==
  /\ pc = "compress" /\ i = argc
  /\ argc' = newArgc
  /\ pc' = "returned"
  /\ UNCHANGED <<call, tokVars, delim, inner, a, argv, i, newArgc, ret>>

-----------------------------------------------------------------------------
Next ==
  \/ SkipSpace \/ KeepChar \/ EndToken
  \/ NoMoreTokens \/ TooManyValues \/ Store
  \/ Compress \/ CompressEnds

Spec == Init /\ [][Next]_vars

-----------------------------------------------------------------------------
(* Properties.                                                             *)

Parsing == call.kind # "compress" /\ call.text # Nothing

\* getToken stays inside its buffer, the last place of which is for the NUL,
\* and inside the text, and compressArgs writes behind where it reads.
TypeOK ==
  /\ pc \in {"scan", "token", "compress", "returned", "thrown"}
  /\ DOMAIN buf = 0..(BLEN - 1) /\ p \in 0..(BLEN - 1)
  /\ \A k \in DOMAIN buf : buf[k] \in Characters \cup {NUL}
  /\ Parsing => s \in 1..(Len(call.text) + 1)
  /\ delim \in Delims \cup {NUL, Nothing}
  /\ inner \in BOOLEAN
  /\ Len(a) <= call.sz
  /\ ret \in -1..MaxSize
  /\ newArgc \in 0..i /\ i \in 0..Len(argv) /\ argc \in 0..Len(argv)

\* The place of k in a set of numbers, and the number that has the n-th place.
Rank(S, k) == Cardinality({j \in S : j <= k})

Nth(S, n) == CHOOSE k \in S : Rank(S, k) = n

\* What is left of a sequence without these elements, in order.
Without(q, out) ==
  LET kept == {k \in DOMAIN q : q[k] # out}
  IN  [n \in 1..Cardinality(kept) |-> q[Nth(kept, n)]]

\* Each delimiter ends a token, and so does the end of the text unless there are
\* only spaces behind the last delimiter.
Ends(text) ==
  {k \in 1..(Len(text) + 1) :
     IF k <= Len(text) THEN text[k] \in Delims
     ELSE \E j \in DOMAIN text : text[j] # Space /\ \A m \in j..Len(text) : text[m] \notin Delims}

Before(text, k) == {e \in Ends(text) : e < k}

Begin(text, k) == Max({0} \cup Before(text, k)) + 1

Cut(tok) == SubSeq(tok, 1, IF Len(tok) < BLEN THEN Len(tok) ELSE BLEN - 1)

\* The token that ends at k, without its spaces.
Token(text, k) == Without(SubSeq(text, Begin(text, k), k - 1), Space)

\* The values of the tokens that end in the set of ends, in order.
Values(c, ends) ==
  [n \in 1..Cardinality(ends) |-> Value(c.kind, Cut(Token(c.text, Nth(ends, n))))]

\* A vector ends at a colon, and the last one at the last token.
VectorEnds(text, ends) == {e \in ends : e = Max(ends) \/ text[e] = ":"}

\* The ends of the tokens of the vector that ends at e.
OfVector(text, ends, e) ==
  {d \in ends : d <= e /\ \A f \in VectorEnds(text, ends) : f < e => f < d}

\* The elements that the tokens that end in the set of ends make.
ElementsOf(c, ends) ==
  IF c.kind # "vectors" THEN Values(c, ends)
  ELSE LET last == VectorEnds(c.text, ends)
       IN  [n \in 1..Cardinality(last) |-> Values(c, OfVector(c.text, ends, Nth(last, n)))]

Elements(c) == ElementsOf(c, Ends(c.text))

\* The parsers deliver the elements that the text stands for, each token cut to
\* the buffer's length; when there are more than sz, they throw, and the array
\* holds the first sz.
ArraysAreElements ==
  Parsing =>
    /\ pc = "returned" => a = Elements(call) /\ ret = Len(a)
    /\ pc = "thrown" =>
         Len(Elements(call)) > call.sz /\ a = SubSeq(Elements(call), 1, call.sz)

\* compressArgs keeps the arguments that are not null, in order; behind them,
\* argv is as it was: nothing makes argv[argc] null.
ArgsCompressed ==
  call.kind = "compress" /\ pc = "returned" =>
    /\ SubSeq(argv, 1, argc) = Without(call.text, Nothing)
    /\ \A k \in (argc + 1)..Len(argv) : argv[k] = call.text[k]
=============================================================================
