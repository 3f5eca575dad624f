----------------------------- MODULE AlignedMem -----------------------------
(***************************************************************************)
(* DBUtl::AlignedMem (AlignedMem.cpp, without USE_HUGEPAGE): blocks of any *)
(* alignment cut out of malloc's, with malloc's pointer stored in the word *)
(* below the block, where deallocate finds it.                             *)
(*                                                                         *)
(* Memory is bytes; a word of it that was stored is that many bytes with   *)
(* the same content.  When the class writes or frees what is not its own,  *)
(* the behaviour is undefined, and the model stops.                        *)
(***************************************************************************)
EXTENDS Integers, FiniteSets

CONSTANTS
  Width,       \* bits of size_t
  Top,         \* bound: addresses malloc has
  W,           \* sizeof(void *)
  Sizes,       \* nBytes of a call
  Alignments,  \* alignSize of a call
  MaxBlocks    \* bound: blocks at a time

Pow2[k \in Nat] == IF k = 0 THEN 1 ELSE 2 * Pow2[k - 1]

AddrMod == Pow2[Width]

PowersOfTwo == {Pow2[k] : k \in 0..Width}

ASSUME AlignedMemAssumption ==
  /\ Width \in Nat /\ W \in PowersOfTwo /\ Top \in (W + 1)..(AddrMod - 1)
  /\ Sizes \subseteq 0..(AddrMod - 1) /\ Alignments \subseteq 0..(AddrMod - 1)
  /\ MaxBlocks \in Nat

VARIABLES
  heap,        \* external: malloc's blocks, [base, size]
  mem,         \* what each byte holds
  blocks,      \* the blocks the client has: [p, n, a]
  undefined,   \* memory was written or freed that must not be
  request      \* history: the last request that did not throw, and what malloc
               \* returned; at first, a good one

memVars == <<heap, mem, blocks, undefined, request>>

NULL == 0

Addresses == 0..(Top - 1)

Bases == {x \in Addresses : x % W = 0} \ {NULL}

\* A byte of a pointer, or one the client or nobody has written.
Other == -1

Contents == Bases \cup {NULL, Other}

Request(n, a, base) == [n |-> n, a |-> a, base |-> base]

MemInit ==
  /\ heap = {}
  /\ mem = [x \in Addresses |-> Other]
  /\ blocks = {}
  /\ undefined = FALSE
  /\ request = Request(0, W, W)

-----------------------------------------------------------------------------
Span(x, n) == x..(x + n - 1)

Owned(r) == Span(r.base, r.size)

\* malloc: room that nobody has, at an address fit for a pointer, or NULL.
Rooms(size) ==
  {base \in Bases : /\ Span(base, size) \subseteq Addresses
                    /\ \A r \in heap : (Span(base, size) \cup {base}) \cap Owned(r) = {}}

AnyAlignment(a) == TRUE

\* What passes `(alignSize & (alignSize-1)) == 0': the powers of two, and 0.
PowerOfTwoOrZero(a) == a \in PowersOfTwo \cup {0}

\* `p - off + alignSize', the mask being that of a power of two; for 0 it is
\* all ones.
AlignedNoOff(base, a) == IF a = 0 THEN NULL ELSE (base + a) % AddrMod

AlignedUp(base, a) == IF a = 0 THEN NULL ELSE base - (base % a) + a

Aligned(base, a) == AlignedUp(base, a) % AddrMod

AllocatedShort(n, a) == n

\* The size given to malloc, in size_t.
Allocated(n, a) == (n + a) % AddrMod

\* Bytes of the client's block after memset, or as malloc's was.
Stored(p, n, base, clear) ==
  [x \in Addresses |-> IF x \in Span(p - W, W) THEN base
                       ELSE IF clear /\ x \in Span(p, n) THEN NULL
                       ELSE mem[x]]

\* A bad alignment: allocate throws.
AllocateThrows(a) ==
  /\ ~undefined
  /\ ~PowerOfTwoOrZero(a)
  /\ UNCHANGED memVars

\* malloc fails, and the pointer is stored at alignSize - 1 words all the same.
AllocateNothing(n, a) ==
  /\ ~undefined
  /\ PowerOfTwoOrZero(a)
  /\ undefined' = TRUE
  /\ request' = Request(n, a, NULL)
  /\ UNCHANGED <<heap, mem, blocks>>

\* allocate or allocateClear: the word below the block and the block are to be
\* malloc's.
Allocate(n, a, clear) ==
  /\ ~undefined
  /\ PowerOfTwoOrZero(a)
  /\ Cardinality(blocks) < MaxBlocks
  /\ \E base \in Rooms(Allocated(n, a)) :
       LET p == Aligned(base, a)
           r == [base |-> base, size |-> Allocated(n, a)]
       IN  /\ heap' = heap \cup {r}
           /\ request' = Request(n, a, base)
           /\ IF Span(p - W, W + n) \subseteq Owned(r)
              THEN /\ mem' = Stored(p, n, base, clear)
                   /\ blocks' = blocks \cup {[p |-> p, n |-> n, a |-> a]}
                   /\ UNCHANGED undefined
              ELSE undefined' = TRUE /\ UNCHANGED <<mem, blocks>>

\* The client uses its block.
WriteBlock(b) ==
  /\ ~undefined
  /\ b \in blocks
  /\ mem' = [x \in Addresses |-> IF x \in Span(b.p, b.n) THEN Other ELSE mem[x]]
  /\ UNCHANGED <<heap, blocks, undefined, request>>

\* `((void **)(p))[-1]'
Load(p) ==
  IF \A x \in Span(p - W, W) : mem[x] = mem[p - 1] THEN mem[p - 1] ELSE Other

\* deallocate; free takes what malloc returned, and NULL.
Deallocate(b) ==
  /\ ~undefined
  /\ b \in blocks
  /\ blocks' = blocks \ {b}
  /\ heap' = {r \in heap : r.base # Load(b.p)}
  /\ undefined' = (Load(b.p) \notin {r.base : r \in heap} \cup {NULL})
  /\ mem' = [x \in Addresses |-> IF \E r \in heap \ heap' : x \in Owned(r) THEN Other ELSE mem[x]]
  /\ UNCHANGED request

MemNext ==
  \/ \E a \in Alignments : AllocateThrows(a)
  \/ \E n \in Sizes, a \in Alignments :
       \/ AllocateNothing(n, a)
       \/ \E clear \in BOOLEAN : Allocate(n, a, clear)
  \/ \E b \in blocks : WriteBlock(b) \/ Deallocate(b)

MemSpec == MemInit /\ [][MemNext]_memVars

-----------------------------------------------------------------------------
(* Properties.                                                             *)

MemTypeOK ==
  /\ heap \subseteq [base : Bases, size : 0..(AddrMod - 1)]
  /\ mem \in [Addresses -> Contents]
  /\ blocks \subseteq [p : 0..Top, n : Sizes, a : Alignments \cap PowersOfTwo]
  /\ undefined \in BOOLEAN
  /\ request \in [n : Sizes \cup {0}, a : Alignments \cup {W}, base : Bases \cup {NULL}]

\* What the class does not check: that malloc had room, that the alignment is
\* one of a pointer at least, and that its sum with the size is a size_t.
Unchecked == request.base = NULL \/ request.a < W \/ request.n + request.a >= AddrMod

\* The one way to go wrong is a request of these; otherwise each block lies,
\* with the word below it, in a block of malloc's, and each of malloc's holds
\* one: what the clients write never reaches a stored pointer, what deallocate
\* frees is what allocate got, and nothing is leaked.
BlocksSound ==
  /\ undefined = Unchecked
  /\ ~undefined =>
       /\ \A b \in blocks : \E r \in heap : Span(b.p - W, W + b.n) \subseteq Owned(r)
       /\ Cardinality(heap) = Cardinality(blocks)

Abstract == INSTANCE Allocator WITH Addresses <- 0..Top, live <- blocks, failed <- undefined

\* The class implements the allocator it stands for.
ImplementsAllocator == Abstract!AllocatorSpec
=============================================================================
