------------------------------ MODULE Allocator -------------------------------
(***************************************************************************)
(* What mem_alloc and mem_dealloc promise: address-ordered first fit (the  *)
(* algorithm common.h:67 asks for) over one heap of HEAP bytes.  A block   *)
(* and its header lie in memory nobody else holds, at the lowest address   *)
(* where there is room, and a request is refused only if there is room     *)
(* nowhere; so nothing that is given back is ever lost.                    *)
(***************************************************************************)
EXTENDS Integers, FiniteSets

CONSTANTS HEAP, Sizes, Tids

node_size == 16   \* bytes of a header: sizeof(node_t) and padding

(* Sizes are rounded up to a multiple of eight.                            *)
real_size(n) == 8 * ((n + 7) \div 8)

VARIABLES
  held,   \* the blocks given out: where the header is, its size, the holder
  last    \* outcome of the last call

Taken == UNION {b.at .. b.at + node_size + b.size - 1 : b \in held}

Room(at, n) == /\ at + node_size + n <= HEAP
               /\ at .. at + node_size + n - 1 \cap Taken = {}

Addresses == {8 * i : i \in 0 .. HEAP \div 8}

Init == held = {} /\ last = "none"

Give(t, n) ==
  \E at \in Addresses :
    /\ Room(at, n)
    /\ \A lower \in Addresses : lower < at => ~Room(lower, n)
    /\ held' = held \cup {[at |-> at, size |-> n, by |-> t]}
    /\ last' = "given"

Refuse(n) ==
  /\ \A at \in Addresses : ~Room(at, n)
  /\ last' = "refused"
  /\ UNCHANGED held

TakeBack(b) ==
  /\ held' = held \ {b}
  /\ last' = "returned"

(* A block is left with its holder if the caller does not count as owner.  *)
Deny == last' = "denied" /\ UNCHANGED held

Next ==
  \/ \E t \in Tids, n \in {real_size(s) : s \in Sizes} : Give(t, n) \/ Refuse(n)
  \/ \E b \in held : TakeBack(b)
  \/ Deny

Spec == Init /\ [][Next]_<<held, last>>
===============================================================================
