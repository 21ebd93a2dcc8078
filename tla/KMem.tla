---------------------------------- MODULE KMem ---------------------------------
(***************************************************************************)
(* The memory allocator (k_mem.c): a list of free regions and first fit.   *)
(* Addresses are offsets from the first region; the list head is a node of *)
(* size 0 one header before it.  A free region's size counts its header, a *)
(* block's does not.  The heap starts and ends at a multiple of eight: if  *)
(* the image ends at a multiple of four only, the last region may be one   *)
(* of four bytes, whose next lies behind the end of the RAM.               *)
(*                                                                         *)
(* A header holds an owner only if the block was split off a larger region *)
(* or is a task's stack.  When a region fits exactly the field keeps what  *)
(* the memory held before: an earlier owner or data, that is, anything.    *)
(***************************************************************************)
EXTENDS Integers, Sequences, FiniteSets, FiniteSetsExt

CONSTANTS
  HEAP,      \* bytes between the list head and the end of the RAM
  Sizes,     \* sizes requested
  Tids,      \* task ids
  MaxHeld    \* bound: blocks held at a time

ASSUME KMemConstants ==
  /\ HEAP \in Nat /\ HEAP % 8 = 0
  /\ Sizes \subseteq Nat \ {0}
  /\ MaxHeld \in Nat

node_size == 16
real_size(n) == IF n % 8 = 0 THEN n ELSE n + (8 - (n % 8))

VARIABLES
  free,   \* the free list, a sequence of regions [at, size]
  held,   \* the blocks given out: [at, size, by, owner]
  last    \* outcome of the last call

vars == <<free, held, last>>

NoOwner == -1   \* what is in the owner field is no task id
Owners == Tids \cup {NoOwner}

-------------------------------------------------------------------------------
(* k_mem_init.                                                             *)
Init ==
  /\ free = <<[at |-> 0, size |-> HEAP]>>
  /\ held = {}
  /\ last = "none"

(* k_mem_alloc: the first region with room for a header and n bytes.       *)
(* Mutants: the header needs no room; the last region that fits is taken.  *)
FitsWithoutHeader(i, n) == free[i].size >= n
LastFit(i, n) == free[i].size >= n + node_size
                 /\ \A j \in i + 1 .. Len(free) : free[j].size < n + node_size

Fits(i, n) == free[i].size >= n + node_size
FirstFit(i, n) == Fits(i, n) /\ \A j \in 1 .. i - 1 : ~Fits(j, n)
Exact(i, n) == free[i].size = n + node_size

(* Mutants: the regions before the one taken are lost; the header of the   *)
(* block is left in the region.                                            *)
UnlinkedFromHead(i) == SubSeq(free, i + 1, Len(free))
ShrunkWithoutHeader(i, n) == [free EXCEPT ![i] = [at |-> @.at + n, size |-> @.size - n]]

Unlinked(i) == SubSeq(free, 1, i - 1) \o SubSeq(free, i + 1, Len(free))

Shrunk(i, n) ==
  [free EXCEPT ![i] = [at |-> @.at + n + node_size, size |-> @.size - n - node_size]]

(* Task t gets a block in region i; its owner field reads owner.           *)
Taken(t, i, n, owner) ==
  /\ free' = IF Exact(i, n) THEN Unlinked(i) ELSE Shrunk(i, n)
  /\ held' = held \cup {[at |-> free[i].at, size |-> n, by |-> t, owner |-> owner]}
  /\ last' = "given"

Alloc(t, s) ==
  LET n == real_size(s)
  IN  /\ Cardinality(held) < MaxHeld
      /\ \E i \in DOMAIN free, owner \in Owners :
           /\ FirstFit(i, n)
           /\ ~Exact(i, n) => owner = t
           /\ Taken(t, i, n, owner)

NoRoom(s) ==
  /\ \A i \in DOMAIN free : ~Fits(i, real_size(s))
  /\ last' = "refused"
  /\ UNCHANGED <<free, held>>

(* k_alloc_p_stack, when there is room: the stack of a new task t.         *)
(* Mutant: the owner field is left as the allocator left it.               *)
AllocStackUnowned(t, s) ==
  LET n == real_size(s)
  IN  /\ Cardinality(held) < MaxHeld
      /\ \E i \in DOMAIN free, owner \in Owners : FirstFit(i, n) /\ Taken(t, i, n, owner)

AllocStack(t, s) ==
  LET n == real_size(s)
  IN  /\ Cardinality(held) < MaxHeld
      /\ \E i \in DOMAIN free : FirstFit(i, n) /\ Taken(t, i, n, t)

-------------------------------------------------------------------------------
(* k_mem_dealloc of a block in use.  The list is searched for neighbours   *)
(* of the block; behind the last region there is none to the right.        *)
EndOf(b) == b.at + node_size + b.size

Between(i, b) ==
  /\ i > 0 => free[i].at < b.at + node_size
  /\ i < Len(free) => free[i + 1].at > b.at + node_size

Neighbours(i, b) == Between(i, b) /\ \A j \in 0 .. i - 1 : ~Between(j, b)

(* The region to the left reaches into the block: it must be free already. *)
Inside(i, b) == i > 0 /\ i < Len(free) /\ free[i].at + free[i].size > b.at

(* Mutant: no merging with the left.                                       *)
MergesLeftNever(i, b) == FALSE

MergesLeft(i, b) == i > 0 /\ free[i].at + free[i].size = b.at
MergesRight(i, b) == i < Len(free) /\ EndOf(b) = free[i + 1].at

Region(i, b) ==
  [at   |-> IF MergesLeft(i, b) THEN free[i].at ELSE b.at,
   size |-> (IF MergesLeft(i, b) THEN free[i].size ELSE 0) + b.size + node_size
            + (IF MergesRight(i, b) THEN free[i + 1].size ELSE 0)]

Merged(i, b) ==
  SubSeq(free, 1, IF MergesLeft(i, b) THEN i - 1 ELSE i)
  \o <<Region(i, b)>>
  \o SubSeq(free, IF MergesRight(i, b) THEN i + 2 ELSE i + 1, Len(free))

Dealloc(t, b) ==
  /\ b \in held
  /\ b.owner = t
  /\ \E i \in 0 .. Len(free) :
       /\ Neighbours(i, b)
       /\ ~Inside(i, b)
       /\ free' = Merged(i, b)
  /\ held' = held \ {b}
  /\ last' = "returned"

Denied(t, b) ==
  /\ b \in held
  /\ b.owner # t \/ \E i \in 0 .. Len(free) : Neighbours(i, b) /\ Inside(i, b)
  /\ last' = "denied"
  /\ UNCHANGED <<free, held>>

-------------------------------------------------------------------------------
Next ==
  \E t \in Tids :
    \/ \E s \in Sizes : Alloc(t, s) \/ AllocStack(t, s) \/ NoRoom(s)
    \/ \E b \in held : Dealloc(t, b) \/ Denied(t, b)

Spec == Init /\ [][Next]_vars

-------------------------------------------------------------------------------
(* k_mem_count_extfrag and get_free_memory.                                *)
k_mem_count_extfrag(size) == Cardinality({i \in DOMAIN free : free[i].size < size})
get_free_memory == MapThenSumSet(LAMBDA i : free[i].size, DOMAIN free)

-------------------------------------------------------------------------------
(* Types of the variables.                                                 *)
TypeOK ==
  /\ free \in Seq([at : 0 .. HEAP, size : 0 .. HEAP])
  /\ held \subseteq [at : 0 .. HEAP, size : 1 .. HEAP, by : Tids, owner : Owners]
  /\ last \in {"none", "given", "refused", "returned", "denied"}

(* Two tasks never hold the same byte, a header is never inside a block,   *)
(* and what is held is not on the free list.                               *)
Disjoint ==
  LET regions == {<<free[i].at, free[i].at + free[i].size>> : i \in DOMAIN free}
      blocks == {<<b.at, EndOf(b)>> : b \in held}
  IN  /\ regions \cap blocks = {}
      /\ \A x, y \in regions \cup blocks : x = y \/ x[2] <= y[1] \/ y[2] <= x[1]
      /\ \A x \in regions \cup blocks : 0 <= x[1] /\ x[2] <= HEAP

(* Every byte is on the free list, in a block, or in a block's header:     *)
(* splitting, exact fits and the four ways of merging lose none.           *)
Accounted ==
  get_free_memory + MapThenSumSet(LAMBDA b : b.size + node_size, held) = HEAP

(* The list is in address order and neighbours are never adjacent: what is *)
(* given back is merged with what is free on either side of it.            *)
Coalesced ==
  \A i \in DOMAIN free \ {1} : free[i - 1].at + free[i - 1].size < free[i].at

(* ae_mem.c:57-70, for every history: a heap with nothing in use has no    *)
(* fragments, and one with n blocks has at most n + 1.                     *)
Fragments ==
  k_mem_count_extfrag(HEAP) <= IF held = {} THEN 0 ELSE Cardinality(held) + 1

(* See Allocator.                                                          *)
Heap == INSTANCE Allocator WITH
          held <- {[at |-> b.at, size |-> b.size, by |-> b.by] : b \in held}

FirstFitAllocator == Heap!Spec
===============================================================================
