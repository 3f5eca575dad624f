# DBUtl in TLA+

DBUtl is a small C++ utility library for database prototypes: random number
generators, a log with assertions, an object around pthreads, TCP sockets with
exceptions, aligned memory, a command-line scanner, a Zipf generator and a
timer.  This directory holds TLA+ modules for the parts of it that keep state,
configurations that check them with TLC, and proofs that TLAPS checks.
`PROJECT.json` is the index: for each definition the lines of the source it
stands for, for each hazard the properties that cover it.

## The system

| component | state it keeps | operations | what is hard |
|---|---|---|---|
| RNG: `RGenI`, `RGenO`, `RGenC` in `TRNG` (`RNG.h`, `RNG.cpp`) | a 64-bit word, 24 bits of seed over 40 of position; `RGenC` also a cache it fills ahead, and an index into it | `rand`, `setSeed` (0: from the time of day), `setPos`, `getSeed`, `getPos` | calls that move the generator while the cache is half used; the carry from position into seed; three versions that should agree |
| `RNG::get()` and Zipf (`RNG.h`, `RNG.cpp`, `zipf.cpp`) | one `RNG` for the process and a flag; the last parameters of `zipf` and what was derived from them | `get`, `zipf`, and the draws through them | a call before the constructor has run; threads, for which nothing is locked |
| RNG2 (`RNG2.h`, `RNG2.cpp`) | two residues, the last output, a table of 32 | constructor, `rand` | 32-bit arithmetic at its borders; values met once in 2^31 draws |
| Log, Assert, LogCPP (`Log.h`, `Log.cpp`, `LogCPP.h`) | level, stream, one cached message printer, the switch of `Assert` | the log and assertion macros, `LOG`, `open`, `close`, `setLevel`, `setEnabled` | statements whose arguments log, or close the log; exceptions out of arguments; threads, for which nothing is locked |
| Thread, Runnable (`Thread.h`, `Thread.cpp`) | pthread id, detached flag, result | `start`, `join`, the start functions in the new thread, destructor | the object's life against the thread's; starting again; joins that wait |
| CommSocket transfer (`CommSocket.cpp`) | a descriptor | `send`, `recv`, `recvFully`, `setRecvTimeout` | bytes in pieces, timeouts, signals and resets between them; results that are not looked at |
| Socket, TCPSocket, TCPServerSocket, `fillAddr` | a descriptor each; the static struct of `gethostbyname` | constructors, `connect`, `setLocal...`, `accept`, destructor | a system call of several failing; descriptors that run out and are reused; threads at the resolver |
| CmdLine (`CmdLine.cpp`) | a token buffer, positions in a text, the caller's arrays | `getToken` and three array parsers over it, `compressArgs`, `getSuffixAfterPrefixMatch` | the borders of the buffer; empty and last tokens; a throw half-way |
| AlignedMem (`AlignedMem.cpp`) | none of its own: a pointer below each block | `allocate`, `allocateClear`, `deallocate` | address arithmetic; requests and failures it does not look at |
| PTimer | none | reads clocks | |

The components hardly call each other: `Thread` uses the assertions of `Log`
(a failing one aborts: the `aborted` of `Thread.tla`), `Zipf` draws from
`RNG::get()` and is one model with it (`GlobalRNG`), `LogCPP` reads `Log`'s level
and is one model with it (`Log`), and the socket classes inherit from
each other and are one model (`Sockets`), except for the transfer of data, which
needs none of the rest (`CommSocket`).

## The modules

`RGenWord` is the word of `RGenI`, as the pair of its fields, with the
operations on it: `Advance` (`data += 1`, carry included), `WithSeed`,
`WithPos`, `RandomSeed`.  The hash `psdes` is a constant function of the word.

`RandomStream` is the promise of the header, abstractly: a place, and draws that
return the hash of the place and move on.

`Generators` EXTENDS `RGenWord`: an `RNGSmall`, an `RNG` and an `RNGMin` driven by
the same calls.  `Rand`, `SetSeed` and `SetPos` are the calls; `BigRand` and
`Fill` are `RGenC::rand` and `_fill`.  `sameSeq` and `samePlace` are history:
what the calls so far say of where the versions stand, from the calls alone.
`BigStream` instantiates `RandomStream` with the place `ix` words before the
cached generator's.  `GeneratorsProofs` holds the proofs.

`Ranges` EXTENDS `RGenWord`, too: what `TRNG` makes of a draw, `select`,
`uniformInt` and `flip`, with a real as a fraction.  Its proofs are in `GeneratorsProofs`, too.

`GlobalRNG` is the generator of `RNG::get()` under threads, each access to a shared
variable one step, from `SetCoeff` .. `SetFlag` (`_initGlobal`) to `Test` .. `Read`
(`rand`), and `Zipf::zipf` around it (`Compare` .. `Use`).  `Construct` is the
constructor of the static object; the main thread may call `get()` before it.  Here
a draw is known by the seed it comes from, and a derived value of `Zipf` by the values it
was derived from; the order of the draws is the subject of `Generators`.

`RNG2` has the constructor's loop turn by turn (`Warmup`) and `Rand`, with the
code's own constants and integers.  `RNG2Proofs` holds the proofs.

`Log` has a stack of frames per thread, one per statement under way.  `Begin` is
the macro's test; `ReadCache` and `ClearCache` are the two halves of `getMP`;
`Curry` sets the level; `EvalArgs` is the evaluation of the arguments, at any
point before the output, since C++98 leaves the order open; `PrintTest`, `Write`,
`ReleaseTest`, `CachePrinter`, `FreePrinter` and `Abort` are the steps of `print`
and `printCurried`.  Arguments may do everything a client may.  A statement is
compiled with `DBUTL_NLOG` and `DBUTL_NDEBUG` or without (`off`, an argument of
`Begin`), as the header may be included more than once.  The `LOG` statements of
LogCPP have `Begin`, their arguments and `Insert`.  `MallocFails` is a null pointer
from malloc, through which `getMP` writes.  `open` and `close` are one step for each
access to `logStream` (`Open` and `Close`, which enter them, `CloseTest`, `FClose`,
`ClearStream`, `FOpen`, `AssignStream`), and `filing` says where a thread is in them.

`Thread` has the objects, the pthreads and the joins under way.  `Start` is
`start()` with `pthread_create`, `Run`, `Ran`, `StoreResult` and `End` are the
start functions in the new thread, `Join`, `Joined`, `JoinFails` and
`JoinReturns` are `join()`.  Clients are the main thread and every running
`run()`; each starts, joins and destroys the objects it has constructed.  An object
may be started again with its thread unjoined, and a `run()` may return and leave its
objects behind with theirs: `abandoned` is the history of the threads given up so.

`BytePipe` is what `CommSocket.h` promises of a connection: a `recvFully` returns at
once all it asked for (`Fully`), or all that is left of a pipe whose other end is gone;
a `recv` some of what is there (`Some`); a call that throws loses less than it asked for, and
a `recv` nothing (`Fail`).  Its state has the call under way and the result of the last, so
that the two kinds of call cannot stand in for each other.  `CommSocket` is
one direction of a connection: `Send` .. `Close` at one end, `Receive`, `RecvReturns`,
`RecvFails`, `SetRecvTimeout` at the other, and TCP between them.  `SendInterrupted`
and `RecvInterrupted` are signals, and `SendKilled` is SIGPIPE, which ends the sender's
process.  `Pipe` instantiates `BytePipe`; pieces a `recvFully` has already got count as not
delivered until it returns.

`Sockets` has a call as the list of system calls it still makes (`Program`), one
action per system call, `Fails` for the failure of any, and `Throw` for what C++
does then: out of a constructor the base is destroyed and closes the descriptor.

`CmdLine` has a call chosen in `Init`; `SkipSpace`, `KeepChar` and `EndToken` are the
turns of `getToken`'s loop, and `NoMoreTokens`, `TooManyValues` and `Store` what the
three parsers do with what it returns; `Compress` is a turn of `compressArgs`.  The
reference is `Elements`, which cuts the whole text at once: each delimiter ends a
token, and the n-th token is the one whose end has rank n among the ends.  The
references are written with ranks of sets of places and not with recursion, so that they
can be reasoned about.

`Allocator` is what AlignedMem promises: aligned blocks, apart from each other, until
they are given back.  `AlignedMem` has the bytes: `Allocate` does the arithmetic and
stores the base pointer, `WriteBlock` is a client that uses its block, `Deallocate`
loads what is below it and frees that (`MemInit`, `MemNext`, `MemSpec`).  A step that writes or frees what is not
its own sets `undefined`, and nothing is said of what follows.  `Abstract`
instantiates `Allocator`.

`GlobalRNGProofs`, `ThreadProofs`, `CommSocketProofs`, `LogProofs` and `SocketsProofs` hold
the proofs about the module each is named after.  `SequentialProofs` holds those about
`CmdLine` and `AlignedMem`, the two components that one caller runs from start to end.

`MCGenerators`, `MCRNG2`, `MCLog`, `MCGlobalRNG`, `MCCmdLine` and `MCSockets` give the constants values that a
configuration cannot spell (a hash function, seeds, symmetry sets).  `MCCmdLine` also
assumes, for TLC to test, that the references by rank agree with the library's
`SelectSeq` and `SetToSortSeq` (`WithoutIsSelectSeq`, `NthIsSorted`).  The symmetric
sets (printers, threads, names) are never compared except for equality, and no
temporal property is checked under symmetry.

Definitions that are not part of `Next` and stand next to one that is
(`BigSetPosStale` beside `BigSetPos`, `ThrowKeeping` beside `Throw`) are the same
operation with a slip in it: `PROJECT.json` names, for each property, one that
makes the property fail, so that no property holds of anything whatever.

## What the runs show

| run | module, cfg | what it asks |
|---|---|---|
| `generators` | `MCGenerators`, `MCGenerators.cfg` | Draws, reseedings and seeks in any order: the cache holds what comes next (`CacheHoldsNext`), `RNG` and `RNGSmall` agree whenever the calls put them at one place (`SmallBigAgree`), `RNG` implements the stream (`BigIsStream`). |
| `versions` | `MCVersions.cfg` | Violated: "All versions generate identical pseudorandom sequences" (`RNG.h:35`). |
| `rng2` | `MCRNG2`, `MCRNG2.cfg` | For 19 seeds at the borders, the warm-up and 400 draws stay in `int32_t` and in the table, deviates are inside (0,1), the sequences live. |
| `global_rng` | `MCGlobalRNG`, `MCGlobalRNG.cfg` | Two threads at `RNG::get()` and `zipf`, one of them before the generator's constructor: draws come out of the cache and of a random seed (`DrawsSound`), numbers are of their call's parameters (`ZipfOfArguments`), up to the exceptions below. |
| `log` | `MCLog`, `MCLog.cfg` | One thread, nested statements, exceptions: no printer is shared (`OneShot`), leaked (`NoPrinterLeaks`) or takes over another's fields (`OwnRecord`); no FILE is closed twice or left open (`StreamOwned`); a message passes the level of the moment it is written at and its stream is open (`WritesWhatPasses`). |
| `log_threads` | `MCLogThreads.cfg` | Violated: a "(one-shot) log message printer" (`Log.h:88`), with two threads. |
| `thread` | `Thread`, `MCThread.cfg` | Objects started, and started again, by main and by each other: no use after destruction (`NoUseAfterDestroy`), `join` returns its own thread's result (`JoinReturnsOwnResult`), a joinable thread can still be joined, and by one client, just if it was not given up (`JoinableOnce`), and every `join` returns (`JoinTerminates`). |
| `comm_socket` | `CommSocket`, `MCCommSocket.cfg` | `recvFully` gathers the pieces in order (`BufferIsStream`), stops short only at the end (`ShortOnlyAtEnd`), returns when it can (`RecvFullyEnds`) and when a timeout in force says so (`TimeoutEnds`); both ends implement `BytePipe` (`ImplementsPipe`). |
| `comm_socket_promises` | `MCCommSocketPromises.cfg` | Violated: a `recvFully` for bytes whose `send` has returned (`CommSocket.h:36`), with a timeout asked for (`CommSocket.h:73`), ends (`PromisedEnds`). |
| `sockets` | `MCSockets`, `MCSockets.cfg` | Two threads, every system call failing at times: each open descriptor has one object (`DescriptorsOwned`), what a constructor made is ready (`ReadyWhenBuilt`), an address is the one asked for unless another thread resolved another name before it was copied (`AddressAsked`). |
| `cmdline` | `MCCmdLine`, `MCCmdLine.cfg` | All texts of up to five characters and all argument lists of up to four: the scanner stays in its buffer (`TypeOK`), the arrays hold what the text stands for (`ArraysAreElements`), and the arguments kept are the ones that are not null, in order (`ArgsCompressed`). |
| `aligned_mem` | `AlignedMem`, `MCAlignedMem.cfg` | Blocks and stored pointers stay inside malloc's blocks and nothing is lost (`BlocksSound`); the class implements `Allocator`. |

### What the violated ones mean

- `versions`: `RGenO::setSeed` assigns a static that `rand` does not read, so an
  `RNGMin` ignores its seed; and `RGenC::setSeed` returns to position 0 where
  `RGenI::setSeed` keeps the position.  `SmallBigAgree` is the weaker statement
  that does hold: after `setSeed(s); setPos(p)`, and until they part again.
- `log_threads`: `mp = mpCache; mpCache = 0` without a lock.
- `comm_socket_promises`: two results that are not looked at, and the trace has both.
  `send` drops the count that `::send` returns, so the rest is not sent when
  a signal cuts a call short, or when the call is longer than the kernel takes at once
  (`MaxIO`; 0x7ffff000 bytes on Linux).  And `setRecvTimeout` puts all the microseconds
  into `tv_usec`, which the kernel refuses from a second on.  The receiver then waits for
  ever for what was never sent, with no timeout to end it.

### Where a property says "unless"

Some statements hold with exceptions that the code has.  The property says exactly
which, in both directions where it can:

- `DrawsSound`: not when two threads are in the generator at once (`_ix` may then wrap
  below 0, and the read is far outside the cache); and after a `get()` that came before
  the constructor the seed is the initial one for good, not one from the time of
  day, since the constructor puts it back and leaves the flag.
- `ZipfOfArguments`: not when a `zipf` runs while another thread's sets the statics.
- `JoinableOnce`, `JoinReturnsOwnResult`: a thread whose object was started again with it
  unjoined, or whose client returned from `run()`, cannot be joined any more; and both
  threads of an object that was started again write its one result.
- `StreamOwned`, and the other properties of the log but its types: with one thread.
  Nothing in `open` and `close` is locked, so two threads in them can close one FILE twice or
  leave one open.
- `NoPrinterLeaks`: the printer of a statement whose argument throws is lost, and counted as lost.
- `ImplementsPipe`: a `recvFully` that throws has lost the pieces it had got, fewer bytes than
  it asked for, since the caller does not learn how many they are.
- `AddressAsked`: the address is copied from the static struct of `gethostbyname`, and
  is wrong just when a lookup of another name came in between.
- `BlocksSound`: an alignment below the size of a pointer, a sum of size and alignment that
  wraps, and a malloc that fails are not looked at, and each makes `allocate` write
  where it must not.
- `SelectInRange`: `select(n)` never returns n - 1 for n above 2^23.

One disagreement with the header needs no run: `DBUTL_NLOG` is to disable logging statically
(`Log.h:18-20`), and makes the level of the macro's test `DISABLED`; but that is `HIGHEST`, too,
and the test is `lev >= LEVEL`, so a `DBUTL_LOG_FPRINTF(HIGHEST, ...)` is compiled in.  `LogLevel`
and `Enabled` in `Log` say the same.

### Bounds, and why they are enough

- `MCGenerators`: 4 seeds of 5 positions and a cache of 3, so a cache reaches over
  the end of a sequence and over the last seed, and every index of the cache meets
  every position; a hash that tells all words apart; three moves, as a move's effect
  on the cache lasts until the next.  Draws are not bounded.  The theorems
  below cover all widths.
- `MCRNG2`: the seeds around 0, both moduli, their negatives and the ends of the
  type; 400 draws visit the whole table.  Again the theorems cover the rest.
- `MCLog`: two statements deep is the least at which a statement and its argument
  compete for the cache; three blocks let one be lost and still leave one for each;
  three levels are the two ends and one between; one FILE, with `stdout` and a failing
  `fopen` beside it.  2.6 million states.  `MCLogThreads` has two threads, two blocks, no
  nesting and no FILE: the least at which two threads meet in `getMP`.
- `MCGlobalRNG`: the code's own cache size; an index that wraps at 8, which is outside the
  cache as 2^32 is; parameters that differ in the first, the second, or both.
- `MCThread`: two objects and two threads let a thread own an object, restart it with its
  thread joined or not, leave it behind, and be joined while another runs.  A second object for one thread's result
  to go to is enough for results to be mixed up.
- `MCCommSocket`: five bytes in calls of three through a kernel that holds three and
  takes two at once: a call is split, two are joined, the pipe is full, and a call is
  longer than the kernel takes; timeouts on both sides of a second.
  `MCCommSocketPromises` needs two bytes, one for the call that is cut short to leave out.
- `MCSockets`: two descriptors for three objects, so they run out and are reused at
  once; a queue of one; two names.
- `MCCmdLine`: a buffer of two and the NUL, so tokens of one to five characters are
  below, at and above it; one digit, one letter, both delimiters and a space, in all
  orders; arrays of none to three elements.
- `MCAlignedMem`: addresses below 18 of a `size_t` of 5 bits, pointers of two bytes,
  alignments of a byte to four pointers, 0, and one that is no power of two; two blocks can
  be neighbours, and one of four bytes end directly below the pointer stored for the next; the
  size 30 makes the sum wrap for each alignment but 0 and 1.

Deadlock is not checked where a model really may stop: after `abort()`, or when a
bound on moves, draws or bytes is used up, or when a call has returned (`Log`, `Thread`,
`RNG2`, `CommSocket`, `CmdLine`, `AlignedMem`).

### Fairness

- `Thread`: weak fairness of the start functions' own steps and of a
  `pthread_join` that can return is what the pthread scheduler gives.  Strong
  fairness of `Ran` says that a client's `run()` returns: it is disabled while
  the body is in a `join`, which may happen again and again.  Nothing says that a
  client makes any call.
- `CommSocket`: weak fairness of `::recv` returning once it can, or failing once its
  time is out, for the receiver only; the sender may stop, and TCP may be slow, for
  ever, and no signal need come.

### What clients must do

`Thread` does not check, and its header does not say, that an object must not be
destroyed while a thread of it is unjoined or was given up, nor at all once started
detached, there being no way to learn that such a thread has ended; and that `join` is
called once for each start (a second one passes an id to `pthread_join` that is nobody's or
somebody else's, as does the id of a detached thread that has ended and that another
thread was given).  The guards marked "client" assume these rules, and
`NoUseAfterDestroy` shows they suffice.  A client joins the objects it has constructed, so
no thread joins itself and no two wait for each other; that is a rule, too.  `Sockets` assumes that no object is
destroyed while a thread is in a call of it.

## What is proved

Checked by TLAPS, for every value of the constants the assumptions allow.

`GeneratorsProofs` (from `WordAssumption`: there is a seed and a position, the
cache is no longer than a sequence, a seed fits the client's integer;
`HashAssumption`: the hash is a function on words; `GeneratorAssumption`):

- `TypeCorrect`, `CacheCorrect`: `TypeOK` and `CacheHoldsNext` always hold.
- `SmallBigAgreement`: `SmallBigAgree` always holds.
- `BigImplementsStream`: `Spec => BigIsStream`, the refinement, step by step.

The inductive invariant is `IInv == TypeOK /\ CacheHoldsNext /\ Synced`.
`CacheHoldsNext` is inductive with `TypeOK`, by the lemmas `StepBack` and
`BackFromAhead` on `Advance` and `Retreat`.  Agreement is not: the last outputs
and the seeds that `getSeed` reports say too little of where the generators are.
`Synced` says what the history means: at one place of one sequence, the word
`ix` draws before the cached generator's is `RNGSmall`'s word, and the last outputs
are equal; in one sequence but not at one place, the two generators' seeds
are equal; and positions are kept together even when the sequences are not.

`RNG2Proofs` (from `RNG2Assumption`: the seed is any `int32_t` but the least, whose
negation overflows):

- `SchrageIsMultiplication`: the step is multiplication by `IA1` modulo `IM1`.
- `NoOverflow`, `OutputsInside`: `InRange` and `OutputInside` for every seed and
  any number of draws, which no run of TLC could cover.
- `SequencesLive`: only the seeds `IM1`, `IM2` and their negatives make a
  sequence die.  (With either, one of the two sequences is 0 for ever, but
  the deviates stay inside the interval.)
- `TypeCorrect`.

`IInv` adds to `TypeOK` what the first turn of the constructor establishes (the
residue is below `IM1` from then on, whatever the seed was), that the residues are
neither 0 nor the modulus unless the seed's size is the modulus (a multiplier below a
prime never makes a zero of a nonzero residue), and `OutputInside`.

`GeneratorsProofs` also has the three properties of `Ranges` (from
`RangesAssumption`: the words have an even number of values, epsilon is one over
a positive integer).  They are statements about all draws, without state:

- `SelectCorrect`, `UniformIntCorrect`, `FlipCorrect`: `SelectInRange`,
  `UniformIntInRange` and `FlipAtTheEnds`, by lemmas on division (`DivBounds`,
  `DivBelow`, `DivAtLeast`).

`SequentialProofs`, on `CmdLine` (from `CmdLineAssumption`: the buffer holds a character
and the NUL, digits and letters are neither delimiters nor spaces, and NUL and the null
pointer are no characters):

- `TypeCorrect`: for all texts, buffers and arrays, `getToken` stays in `tokBuf` and in
  its text, and no parser stores outside its array.
- `ParsersCorrect` (`ArraysAreElements`): the three parsers deliver what the whole text
  stands for, or throw with the first `sz` elements in place.
- `CompressCorrect` (`ArgsCompressed`): `compressArgs` keeps what is not null, in order.
- `LineInvariance`: the invariant below.

For the types, `IInv` adds to `TypeOK` `CallSound` (the text and size are the caller's, and
`getToken` is only at work for a parser) and `ArraysSound` (the arrays have no holes).
`ArraysAreElements` speaks of calls that have returned, so `LineInv` says what is true on
the way.  `Scanning`: inside a token, the array is the elements of the tokens that ended
before it (`ElementsOf`), the buffer is what has been read of this one, spaces left out, as
far as there is room (`Cut`), and the inner loop is running just when the last vector is
still open (`Open`).  `Scanned`: when `getToken` has returned, the C string in the buffer is
that token.  `Delivered`: what is said of a call that has returned or thrown, and of
one that has found no more tokens.  `Compressing`: of the arguments read so far, each that
is not null is at the place of its rank among them, and behind those nothing has
changed.  The argument rests on what one more character adds to a token
(`WithoutGrows`), one more token to the elements (`ElementsOneMore`), and one more
character to a buffer that may be full (`BufferGrows`); and for a throw, on the array being the
beginning of the whole one (`ElementsPrefix`).  `strtod` is opaque in this: the theorems hold
for any function of the token's characters.

`SequentialProofs`, on `AlignedMem` (from `AlignedMemAssumption`: a pointer's size is a power of
two, malloc's memory has room for more than one pointer and is below the end of `size_t`,
sizes and alignments are values of `size_t`):

- `MemTypeCorrect` (`MemTypeOK`): types; a block never has alignment 0.
- `BlocksCorrect` (`BlocksSound`), for any memory, pointer size, sizes and alignments.
- `MemImplementsAllocator`: `MemSpec => ImplementsAllocator`, the refinement.

`MemInv` is `MemTypeOK`, that nothing has gone wrong but by a request the class does not
check (`undefined = Unchecked`), and, while nothing has, that malloc's blocks
are apart and inside the memory (`HeapApart`), that each holds exactly one of the client's
together with the word below it, and that this word still holds malloc's pointer (`OneEach`), and that
there are as many of the one as of the other (`Counted`).  `BlocksSound` is not inductive
without the content of that word, from which `deallocate` takes what it frees, nor without
"exactly one": if two blocks were in one of malloc's, the client of one could write over the
word of the other, and giving back one would take the other's memory.  The
arithmetic is that of powers of two: of two of them the greater is a multiple of the
less, so an aligned address above malloc's leaves room for a pointer if the
alignment is a pointer's at least, and does not if it is less.  An
allocation that fits is `Succeed`, one that does not or a malloc that fails is `Fail`, `deallocate` is
`Release`, and what clients write in their blocks is a stutter.

`GlobalRNGProofs` (from `GlobalAssumption`: the index can hold the size of the cache):

- `TypeCorrect`, `DrawsCorrect`, `ZipfCorrect`, for any threads and parameters.

`IInv == TypeOK /\ Exclusive /\ Life /\ GeneratorSound /\ ZipfSound`.  `Exclusive` counts
who is inside: as long as the history says that no two threads met, there is at most
one.  `Life` relates the flag, the constructor and the seed; `GeneratorSound` says,
while no two have met, what the index and the cache are at each step of the one thread
inside; `ZipfSound` says the same of the statics of `zipf`, of which the last three are
of the first two only when nobody is between the assignments.

`ThreadProofs` (from `ThreadAssumption`: the sets do not overlap):

- `TypeCorrect`, `ObjectsOutliveThreads` (`NoUseAfterDestroy`), `JoinsCorrect`
  (`JoinReturnsOwnResult`), `JoinsOnce` (`JoinableOnce`).

`IInv` says for each pthread what its object must be at each point of its life
(`ThreadOf`), for each object which pthread its id names and, unless one of its threads
was given up, which result it holds (`ObjectOf`), and for each client in a `join` what it
waits for (`CallOf`).  None of
the properties is inductive without the others.

`CommSocketProofs` (from `CommAssumption`: lengths, kernel and timeouts are numbers):

- `TypeCorrect`, `BufferCorrect` (`BufferIsStream`), `FullyCorrect` (`ShortOnlyAtEnd`).
- `PairImplementsPipe`: `Spec => ImplementsPipe`, the refinement.

`IInv == TypeOK /\ SentSound /\ WireSound /\ BufferSound /\ ShortOnlyAtEnd`: the wire is a
suffix of the stream, the buffer the piece before it that this call took, and the
kernel has what the sender's counters say.  For the refinement `Waiting` is invariant,
too: nothing is returned while a call is under way.  A piece that arrives inside
`recvFully` is a stutter of the pipe, because buffer and wire together stay the same
(`CutConcat`), and the last one is the delivery: of all that was asked for, or, by
`ShortOnlyAtEnd`'s reason, of all that the ended pipe has left.

`LogProofs` (from `LogAssumption`):

- For any threads: `TypeCorrect`, from `AnyInv == TypeOK /\ StackOK`.
- With one thread (`OneThread`; run `log_threads` shows it is needed): `StreamCorrect`
  (`StreamOwned`), `OneShotCorrect`, `PrintersReturn` (`NoPrinterLeaks`), `RecordsCorrect` (`OwnRecord`),
  `WritesCorrect` (`WritesWhatPasses`), for any depth of nesting, blocks and exceptions.

`IInv` adds to `AnyInv` that each frame is sound and the ones below the top rest in the
evaluation of their arguments (`StackSound`), what `logStream` and the open FILEs are at
each step of `open` and `close`, in which no statement moves (`FilesSound`), and that
printers, cache and heap fit together (`HeapSound`).  TLC finds it to hold on the instance of `MCLog`.

`SocketsProofs` (from `SocketsAssumption`: objects and descriptors are numbers,
a server's queue has room, `Nothing` is none of the values and `"any"` no name):

- `TypeCorrect`, `OwnedCorrect` (`DescriptorsOwned`), `ReadyCorrect` (`ReadyWhenBuilt`),
  `AddressCorrect` (`AddressAsked`), for any threads, objects and descriptors.

`IInv` says of each call which suffix of its program it has left and what its object
and descriptor are by then (`CallOf`), that an object without a descriptor is in a
constructor that is before `socket` (`Unmade`), and that no two objects share a
descriptor and exactly the owned ones are open (`Owned`).  TLC finds it to hold on the instance of
`MCSockets`.

### Recursion

The library's induction theorems take an operator as a parameter, which the provers here
cannot instantiate.  Where a proof needs induction it takes the least number for which the
statement is false (`Least`, from the well-foundedness of `<`) and derives a
contradiction; so the function `Pow2` is shown to be what its definition says
(`Pow2Def`).  The folds over sequences in `strtod` are left opaque.

### What is only model-checked

Liveness: `JoinTerminates`, `RecvFullyEnds`, `TimeoutEnds`.  Fairness and ENABLED are outside
the prover.  Every safety property of a run that passes is proved, each under the
assumptions of its module.

## Not modelled

- `AlignedMem`'s variant with huge pages: it does not compile.
- In `LogCPP`: the pointer to an `ostream` that the client owns, `LOG_LIMIT` other
  than its default, and the table of level names.
- In `RNG.h` and `zipf.cpp`: floating point, which TLA+ does not have: `gauss`, the
  formulas of `Zipf` (which the model knows by what they are computed from), and the
  rounding of `double` in the ranges (which the model computes with fractions).
- The helpers of `RNG2.h`, which are those of `RNG.h` again over another draw.
- In `CmdLine`: `throwUsage`, which makes a message and throws; a malloc in `copyCString` that
  fails (`CmdLine.cpp:28`); and `isspace` of a negative `char`, which is undefined
  (`CmdLine.cpp:48` has a TODO on it): a character of the model is a digit, a letter, a
  delimiter or a space.
- `ptimer`, `pstdint.h`: clocks and type names.
- In `Sockets`: more than one port, and the getters.  In all: the text of messages.

## Plan

What is left: several ports in `Sockets`, so that two servers may listen at a time at one
address.
