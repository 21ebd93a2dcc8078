------------------------------ MODULE KMemProofs -------------------------------
(***************************************************************************)
(* Proofs about the allocator and the stacks of tasks, for every size of   *)
(* the heap, every set of request and stack sizes and every set of ids.    *)
(***************************************************************************)
EXTENDS TaskMem, SequenceFacts, FiniteSetTheorems, TLAPS

(* real_size is the least multiple of eight that is not less.              *)
LEMMA RealSize ==
  ASSUME NEW n \in Nat \ {0}
  PROVE  /\ real_size(n) \in Nat \ {0}
         /\ real_size(n) % 8 = 0
         /\ real_size(n) = 8 * ((n + 7) \div 8)
BY DEF real_size

-------------------------------------------------------------------------------
(* The inductive invariant.  The list is in address order with gaps; the   *)
(* blocks lie in the gaps, apart from each other; and every byte is in a   *)
(* region or a block, so that the blocks fill the gaps.  The last part is  *)
(* Accounted byte by byte.                                                 *)
Start(f, i) == f[i].at
End(f, i) == f[i].at + f[i].size

InEights(x) == x % 8 = 0

LEMMA EightsSum ==
  ASSUME NEW a \in Nat, NEW b \in Nat, InEights(a), InEights(b)
  PROVE  InEights(a + b) /\ InEights(a - b)
BY DEF InEights

Aligned ==
  /\ \A i \in DOMAIN free : InEights(Start(free, i)) /\ InEights(free[i].size)
  /\ \A b \in held : InEights(b.at) /\ InEights(b.size)

Within ==
  /\ \A i \in DOMAIN free : End(free, i) <= HEAP
  /\ \A b \in held : EndOf(b) <= HEAP

Ordered == \A i, j \in DOMAIN free : i < j => End(free, i) < Start(free, j)

Apart == \A i \in DOMAIN free, b \in held : End(free, i) <= b.at \/ EndOf(b) <= Start(free, i)

BlocksApart == \A b, c \in held : b = c \/ EndOf(b) <= c.at \/ EndOf(c) <= b.at

InRegion(x) == \E i \in DOMAIN free : Start(free, i) <= x /\ x < End(free, i)
InBlock(x) == \E b \in held : b.at <= x /\ x < EndOf(b)
Covered == \A x \in 0 .. HEAP - 1 : InRegion(x) \/ InBlock(x)

Layout == Within /\ Ordered /\ Apart /\ BlocksApart /\ Covered
HeapInv == TypeOK /\ Aligned /\ Layout

FreeRegion == [at : 0 .. HEAP, size : 0 .. HEAP]
Block == [at : 0 .. HEAP, size : 1 .. HEAP, by : Tids, owner : Owners]

(* What the types say of a list, and of the list and the blocks.           *)
LEMMA ListTypes ==
  ASSUME NEW f \in Seq(FreeRegion)
  PROVE  /\ Len(f) \in Nat /\ DOMAIN f = 1 .. Len(f)
         /\ \A i \in 1 .. Len(f) :
              /\ f[i] \in FreeRegion
              /\ Start(f, i) \in Nat /\ f[i].size \in Nat
              /\ End(f, i) \in Nat
<1>1. HEAP \in Nat
  BY KMemConstants
<1>2. Len(f) \in Nat /\ DOMAIN f = 1 .. Len(f)
  BY LenProperties
<1>3. ASSUME NEW i \in 1 .. Len(f)
      PROVE  /\ f[i] \in FreeRegion
             /\ Start(f, i) \in Nat /\ f[i].size \in Nat
             /\ End(f, i) \in Nat
  <2>1. f[i] \in FreeRegion
    BY ElementOfSeq
  <2> QED BY <1>1, <2>1 DEF FreeRegion, Start, End
<1> QED BY <1>2, <1>3

LEMMA Types ==
  ASSUME TypeOK
  PROVE  /\ HEAP \in Nat /\ HEAP % 8 = 0
         /\ free \in Seq(FreeRegion)
         /\ Len(free) \in Nat /\ DOMAIN free = 1 .. Len(free)
         /\ \A i \in 1 .. Len(free) :
              /\ free[i] \in FreeRegion
              /\ Start(free, i) \in Nat /\ free[i].size \in Nat
              /\ End(free, i) \in Nat
         /\ \A b \in held :
              /\ b \in Block
              /\ b.at \in Nat /\ b.size \in Nat \ {0} /\ EndOf(b) \in Nat
              /\ EndOf(b) = b.at + 16 + b.size
<1>1. HEAP \in Nat /\ HEAP % 8 = 0
  BY KMemConstants
<1>2. free \in Seq(FreeRegion) /\ held \subseteq Block
  BY DEF TypeOK, FreeRegion, Block
<1>3. /\ Len(free) \in Nat /\ DOMAIN free = 1 .. Len(free)
      /\ \A i \in 1 .. Len(free) :
           /\ free[i] \in FreeRegion
           /\ Start(free, i) \in Nat /\ free[i].size \in Nat
           /\ End(free, i) \in Nat
  BY <1>2, ListTypes
<1>4. ASSUME NEW b \in held
      PROVE  /\ b \in Block
             /\ b.at \in Nat /\ b.size \in Nat \ {0} /\ EndOf(b) \in Nat
             /\ EndOf(b) = b.at + 16 + b.size
  BY <1>1, <1>2 DEF Block, EndOf, node_size
<1> QED BY <1>1, <1>2, <1>3, <1>4

LEMMA InitHeap == Init => HeapInv
<1> SUFFICES ASSUME Init PROVE HeapInv
  OBVIOUS
<1> DEFINE r == [at |-> 0, size |-> HEAP]
<1>1. HEAP \in Nat /\ HEAP % 8 = 0
  BY KMemConstants
<1>2. free = <<r>> /\ held = {} /\ last = "none"
  BY DEF Init
<1>3. r \in FreeRegion
  BY <1>1 DEF FreeRegion
<1>4. DOMAIN free = {1} /\ free[1] = r /\ free \in Seq(FreeRegion)
  BY <1>2, <1>3
<1>5. TypeOK
  BY <1>2, <1>4 DEF TypeOK, FreeRegion
<1>6. Start(free, 1) = 0 /\ free[1].size = HEAP /\ End(free, 1) = HEAP
  BY <1>1, <1>4 DEF Start, End
<1>7. Aligned
  BY <1>1, <1>2, <1>4, <1>6 DEF Aligned, InEights
<1>8. Within /\ Ordered /\ Apart /\ BlocksApart
  BY <1>1, <1>2, <1>4, <1>6 DEF Within, Ordered, Apart, BlocksApart
<1>9. Covered
  BY <1>1, <1>4, <1>6 DEF Covered, InRegion
<1> QED BY <1>5, <1>7, <1>8, <1>9 DEF HeapInv, Layout
-------------------------------------------------------------------------------
(* The list after an allocation: the region taken is gone or starts behind *)
(* the block, the others are as before and in the same order.              *)
LEMMA UnlinkedFacts ==
  ASSUME TypeOK, NEW i \in 1 .. Len(free)
  PROVE  /\ Unlinked(i) \in Seq(FreeRegion)
         /\ Len(Unlinked(i)) = Len(free) - 1
         /\ \A j \in 1 .. i - 1 : Unlinked(i)[j] = free[j]
         /\ \A j \in i .. Len(free) - 1 : Unlinked(i)[j] = free[j + 1]
BY Types, WithoutFacts DEF Unlinked

LEMMA ShrunkFacts ==
  ASSUME TypeOK, Within, NEW i \in 1 .. Len(free), NEW n \in Nat, free[i].size >= n + 16
  PROVE  /\ Shrunk(i, n) \in Seq(FreeRegion)
         /\ Len(Shrunk(i, n)) = Len(free)
         /\ \A j \in 1 .. Len(free) : j # i => Shrunk(i, n)[j] = free[j]
         /\ Shrunk(i, n)[i] = [at |-> Start(free, i) + n + 16, size |-> free[i].size - n - 16]
<1> DEFINE x == [at |-> free[i].at + n + 16, size |-> free[i].size - n - 16]
<1>1. x \in FreeRegion
  <2>1. End(free, i) <= HEAP /\ free[i].at \in Nat /\ free[i].size \in Nat /\ HEAP \in Nat
    BY Types DEF Within, Start
  <2> DEFINE p == free[i].at
             q == free[i].size
  <2>2. p + q <= HEAP /\ p \in Nat /\ q \in Nat /\ HEAP \in Nat /\ q >= n + 16
    BY <2>1 DEF End
  <2> HIDE DEF p, q
  <2>3. p + n + 16 \in 0 .. HEAP /\ q - n - 16 \in 0 .. HEAP
    <3>1. p + n + 16 \in Nat /\ q - n - 16 \in Nat
      BY <2>2
    <3>2. p + n + 16 <= HEAP /\ q - n - 16 <= HEAP
      BY <2>2
    <3> QED BY <2>2, <3>1, <3>2
  <2> QED BY <2>3, Zenon DEF FreeRegion, p, q
<1>2. Shrunk(i, n) = [free EXCEPT ![i] = x]
  BY DEF Shrunk, node_size
<1> HIDE DEF x
<1>3. /\ [free EXCEPT ![i] = x] \in Seq(FreeRegion)
      /\ Len([free EXCEPT ![i] = x]) = Len(free)
      /\ \A j \in 1 .. Len(free) : [free EXCEPT ![i] = x][j] = IF j = i THEN x ELSE free[j]
  BY <1>1, Types, ExceptSeq
<1> QED BY <1>2, <1>3 DEF x, Start

(* What an allocation leaves of the list: every region lies in one of the  *)
(* old ones and ends where that ends, in the same order; all but the one   *)
(* taken are still there, and so is the rest of that one.                  *)
Remains(g, i, n) ==
  /\ \A j \in 1 .. Len(g) : \E k \in 1 .. Len(free) :
       /\ Start(free, k) <= Start(g, j) /\ End(g, j) = End(free, k)
       /\ InEights(Start(g, j)) /\ InEights(g[j].size)
       /\ k = i => Start(g, j) = Start(free, i) + n + 16
  /\ \A j, k \in 1 .. Len(g) : j < k => End(g, j) < Start(g, k)
  /\ \A k \in 1 .. Len(free) : k # i =>
       \E j \in 1 .. Len(g) : Start(g, j) = Start(free, k) /\ End(g, j) = End(free, k)
  /\ \/ End(free, i) = Start(free, i) + n + 16
     \/ \E j \in 1 .. Len(g) :
          Start(g, j) = Start(free, i) + n + 16 /\ End(g, j) = End(free, i)

LEMMA ListFacts ==
  ASSUME HeapInv
  PROVE  /\ Len(free) \in Nat
         /\ \A j \in 1 .. Len(free) :
              /\ Start(free, j) \in Nat /\ free[j].size \in Nat /\ End(free, j) \in Nat
              /\ InEights(Start(free, j)) /\ InEights(free[j].size)
              /\ End(free, j) = Start(free, j) + free[j].size
         /\ \A j, k \in 1 .. Len(free) : j < k => End(free, j) < Start(free, k)
BY Types DEF HeapInv, Layout, Ordered, Aligned, Start, End

LEMMA UnlinkedRemains ==
  ASSUME HeapInv, NEW i \in 1 .. Len(free), NEW n \in Nat, free[i].size = n + 16,
         NEW g, Len(g) = Len(free) - 1,
         \A j \in 1 .. i - 1 : g[j] = free[j],
         \A j \in i .. Len(free) - 1 : g[j] = free[j + 1]
  PROVE  Remains(g, i, n)
<1> DEFINE old(j) == IF j < i THEN j ELSE j + 1
<1>1. Len(free) \in Nat /\ Len(g) \in Nat
  BY ListFacts
<1>2. ASSUME NEW j \in 1 .. Len(g)
      PROVE  /\ old(j) \in 1 .. Len(free) /\ old(j) # i
             /\ Start(g, j) = Start(free, old(j)) /\ End(g, j) = End(free, old(j))
             /\ g[j].size = free[old(j)].size
  <2>1. CASE j < i
    <3>1. j \in 1 .. i - 1 /\ old(j) = j /\ j \in 1 .. Len(free) /\ j # i
      BY <1>1, <2>1
    <3>2. g[j] = free[j]
      BY <3>1
    <3> QED BY <3>1, <3>2, Zenon DEF Start, End
  <2>2. CASE ~(j < i)
    <3>1. j \in i .. Len(free) - 1 /\ old(j) = j + 1 /\ j + 1 \in 1 .. Len(free) /\ j + 1 # i
      BY <1>1, <2>2
    <3>2. g[j] = free[j + 1]
      BY <3>1
    <3> QED BY <3>1, <3>2, Zenon DEF Start, End
  <2> QED BY <2>1, <2>2
<1>3. \A j, k \in 1 .. Len(g) : j < k => old(j) < old(k)
  BY <1>1
<1>4. ASSUME NEW k \in 1 .. Len(free), k # i
      PROVE  \E j \in 1 .. Len(g) : old(j) = k
  <2>1. CASE k < i
    <3>1. k \in 1 .. Len(g) /\ old(k) = k
      BY <1>1, <2>1
    <3> QED BY <3>1
  <2>2. CASE ~(k < i)
    <3>1. k - 1 \in 1 .. Len(g) /\ old(k - 1) = k
      BY <1>1, <1>4, <2>2
    <3> QED BY <3>1
  <2> QED BY <2>1, <2>2
<1> HIDE DEF old
<1>5. \A j \in 1 .. Len(g) : \E k \in 1 .. Len(free) :
        /\ Start(free, k) <= Start(g, j) /\ End(g, j) = End(free, k)
        /\ InEights(Start(g, j)) /\ InEights(g[j].size)
        /\ k = i => Start(g, j) = Start(free, i) + n + 16
  <2> SUFFICES ASSUME NEW j \in 1 .. Len(g)
               PROVE  \E k \in 1 .. Len(free) :
                        /\ Start(free, k) <= Start(g, j) /\ End(g, j) = End(free, k)
                        /\ InEights(Start(g, j)) /\ InEights(g[j].size)
                        /\ k = i => Start(g, j) = Start(free, i) + n + 16
    OBVIOUS
  <2>1. \A k \in 1 .. Len(free) : Start(free, k) \in Nat
                                /\ InEights(Start(free, k)) /\ InEights(free[k].size)
    BY ListFacts
  <2>2. Start(free, old(j)) <= Start(g, j)
    BY <1>2, <2>1
  <2>3. InEights(Start(g, j)) /\ InEights(g[j].size)
    BY <1>2, <2>1
  <2> QED BY <1>2, <2>2, <2>3, Zenon
<1>6. \A j, k \in 1 .. Len(g) : j < k => End(g, j) < Start(g, k)
  BY <1>2, <1>3, ListFacts
<1>7. \A k \in 1 .. Len(free) : k # i =>
        \E j \in 1 .. Len(g) : Start(g, j) = Start(free, k) /\ End(g, j) = End(free, k)
  BY <1>2, <1>4
<1>8. End(free, i) = Start(free, i) + n + 16
  BY ListFacts
<1> QED BY <1>5, <1>6, <1>7, <1>8 DEF Remains

LEMMA ShrunkRemains ==
  ASSUME HeapInv, NEW i \in 1 .. Len(free), NEW n \in Nat, InEights(n), free[i].size >= n + 16,
         NEW g, Len(g) = Len(free),
         \A j \in 1 .. Len(free) : j # i => g[j] = free[j],
         g[i] = [at |-> Start(free, i) + n + 16, size |-> free[i].size - n - 16]
  PROVE  Remains(g, i, n)
<1>1. /\ Start(g, i) = Start(free, i) + n + 16
      /\ g[i].size = free[i].size - n - 16
      /\ End(g, i) = Start(free, i) + n + 16 + (free[i].size - n - 16)
  BY DEF Start, End
<1>2. ASSUME NEW j \in 1 .. Len(free), j # i
      PROVE  Start(g, j) = Start(free, j) /\ End(g, j) = End(free, j)
             /\ g[j].size = free[j].size
  BY <1>2, Zenon DEF Start, End
<1>3. /\ End(g, i) = End(free, i)
      /\ InEights(Start(g, i)) /\ InEights(g[i].size)
      /\ Start(free, i) <= Start(g, i)
  <2>1. /\ Start(free, i) \in Nat /\ free[i].size \in Nat
        /\ End(free, i) = Start(free, i) + free[i].size
        /\ InEights(Start(free, i)) /\ InEights(free[i].size)
    BY ListFacts
  <2>2. InEights(Start(free, i) + (n + 16)) /\ InEights(free[i].size - (n + 16))
    <3>1. n + 16 \in Nat /\ InEights(n + 16)
      BY DEF InEights
    <3> QED BY <2>1, <3>1, EightsSum
  <2>3. /\ Start(free, i) + n + 16 = Start(free, i) + (n + 16)
        /\ free[i].size - n - 16 = free[i].size - (n + 16)
    <3> DEFINE p == Start(free, i)
               q == free[i].size
    <3>1. p \in Nat /\ q \in Nat
      BY <2>1
    <3> HIDE DEF p, q
    <3>2. p + n + 16 = p + (n + 16) /\ q - n - 16 = q - (n + 16)
      BY <3>1
    <3> QED BY <3>2 DEF p, q
  <2>4. End(g, i) = End(free, i)
    <3> DEFINE p == Start(free, i)
               q == free[i].size
               e == End(free, i)
    <3>1. p \in Nat /\ q \in Nat /\ e = p + q
      BY <2>1
    <3>2. End(g, i) = p + n + 16 + (q - n - 16)
      BY <1>1
    <3> HIDE DEF p, q, e
    <3>3. End(g, i) = e
      BY <3>1, <3>2
    <3> QED BY <3>3 DEF e
  <2>5. InEights(Start(g, i)) /\ InEights(g[i].size)
    BY <1>1, <2>2, <2>3, Zenon
  <2>6. Start(free, i) <= Start(g, i)
    BY <1>1, <2>1
  <2> QED BY <2>4, <2>5, <2>6
<1>4. ASSUME NEW j \in 1 .. Len(g)
      PROVE  /\ Start(free, j) <= Start(g, j) /\ End(g, j) = End(free, j)
             /\ InEights(Start(g, j)) /\ InEights(g[j].size)
             /\ j = i => Start(g, j) = Start(free, i) + n + 16
  <2>1. CASE j = i
    <3>1. Start(free, i) \in Nat
      BY ListFacts
    <3> QED BY <1>1, <1>3, <2>1, <3>1
  <2>2. CASE j # i
    <3>1. j \in 1 .. Len(free)
      OBVIOUS
    <3>2. Start(g, j) = Start(free, j) /\ End(g, j) = End(free, j) /\ g[j].size = free[j].size
      BY <1>2, <2>2, <3>1
    <3>3. Start(free, j) \in Nat /\ InEights(Start(free, j)) /\ InEights(free[j].size)
      BY <3>1, ListFacts
    <3> QED BY <2>2, <3>2, <3>3
  <2> QED BY <2>1, <2>2
<1>5. ASSUME NEW j \in 1 .. Len(g), NEW k \in 1 .. Len(g), j < k
      PROVE  End(g, j) < Start(g, k)
  <2>1. End(free, j) < Start(free, k) /\ End(free, j) \in Nat /\ Start(free, k) \in Nat
    BY <1>5, ListFacts
  <2>2. Start(g, k) \in Nat
    <3>1. k \in 1 .. Len(free) /\ Start(free, k) \in Nat /\ Start(free, i) \in Nat
      BY ListFacts
    <3> QED BY <3>1, <1>1, <1>2
  <2> QED BY <1>4, <2>1, <2>2
<1> QED BY <1>1, <1>2, <1>3, <1>4, <1>5 DEF Remains
-------------------------------------------------------------------------------
(* Giving out a block keeps the layout: it is cut from the front of one    *)
(* region, and what is left of that region starts where the block ends.    *)
LEMMA TakenKeepsTypes ==
  ASSUME HeapInv, NEW t \in Tids, NEW i \in 1 .. Len(free), NEW n \in Nat \ {0},
         InEights(n), NEW owner \in Owners, Fits(i, n), Taken(t, i, n, owner)
  PROVE  /\ TypeOK' /\ Aligned'
         /\ Remains(free', i, n)
<1>1. /\ TypeOK /\ Within /\ Aligned
      /\ free[i].size >= n + 16 /\ free[i].size \in Nat
      /\ Len(free) \in Nat /\ Start(free, i) \in Nat /\ End(free, i) <= HEAP
      /\ End(free, i) = Start(free, i) + free[i].size /\ HEAP \in Nat
      /\ InEights(Start(free, i))
  BY Types, ListFacts DEF HeapInv, Layout, Within, Fits, node_size
<1>2. free' \in Seq(FreeRegion) /\ Remains(free', i, n)
  <2>1. CASE Exact(i, n)
    <3>1. free' = Unlinked(i) /\ free[i].size = n + 16
      BY <2>1 DEF Taken, Exact, node_size
    <3>2. /\ free' \in Seq(FreeRegion)
          /\ Len(free') = Len(free) - 1
          /\ \A j \in 1 .. i - 1 : free'[j] = free[j]
          /\ \A j \in i .. Len(free) - 1 : free'[j] = free[j + 1]
      BY <1>1, <3>1, UnlinkedFacts
    <3> QED BY <3>1, <3>2, UnlinkedRemains
  <2>2. CASE ~Exact(i, n)
    <3>1. free' = Shrunk(i, n)
      BY <2>2 DEF Taken
    <3>2. /\ free' \in Seq(FreeRegion)
          /\ Len(free') = Len(free)
          /\ \A j \in 1 .. Len(free) : j # i => free'[j] = free[j]
          /\ free'[i] = [at |-> Start(free, i) + n + 16, size |-> free[i].size - n - 16]
      BY <1>1, <3>1, ShrunkFacts
    <3> QED BY <1>1, <3>2, ShrunkRemains
  <2> QED BY <2>1, <2>2
<1> DEFINE b == [at |-> free[i].at, size |-> n, by |-> t, owner |-> owner]
<1>3. held' = held \cup {b} /\ last' = "given"
  BY DEF Taken
<1>4. b \in Block /\ InEights(b.at) /\ InEights(b.size)
  BY <1>1 DEF Block, Start, End
<1>5. TypeOK'
  BY <1>1, <1>2, <1>3, <1>4 DEF TypeOK, Block, FreeRegion
<1>6. DOMAIN free' = 1 .. Len(free')
  BY <1>2, LenProperties
<1>7. \A j \in DOMAIN free' : InEights(Start(free', j)) /\ InEights(free'[j].size)
  BY <1>2, <1>6 DEF Remains
<1>8. \A c \in held' : InEights(c.at) /\ InEights(c.size)
  BY <1>1, <1>3, <1>4 DEF Aligned
<1> QED BY <1>2, <1>5, <1>7, <1>8 DEF Aligned

LEMMA TakenKeepsLayout ==
  ASSUME HeapInv, NEW t \in Tids, NEW i \in 1 .. Len(free), NEW n \in Nat \ {0},
         InEights(n), NEW owner \in Owners, Fits(i, n), Taken(t, i, n, owner)
  PROVE  Layout'
<1> DEFINE b == [at |-> free[i].at, size |-> n, by |-> t, owner |-> owner]
           g == free'
<1>1. TypeOK' /\ Remains(g, i, n)
  BY TakenKeepsTypes
<1>2. held' = held \cup {b}
  BY DEF Taken
<1>3. b.at = Start(free, i) /\ EndOf(b) = Start(free, i) + n + 16
      /\ Start(free, i) \in Nat /\ EndOf(b) <= End(free, i) /\ EndOf(b) \in Nat
  <2>1. /\ Start(free, i) \in Nat /\ free[i].size \in Nat
        /\ End(free, i) = Start(free, i) + free[i].size
    BY ListFacts
  <2>2. free[i].size >= n + 16
    BY DEF Fits, node_size
  <2>3. b.at = Start(free, i) /\ b.size = n /\ EndOf(b) = b.at + 16 + b.size
    BY Zenon DEF EndOf, node_size, Start
  <2> HIDE DEF b
  <2> QED BY <2>1, <2>2, <2>3
<1> HIDE DEF b
<1>4. /\ HEAP \in Nat
      /\ \A j \in 1 .. Len(free) : Start(free, j) \in Nat /\ End(free, j) \in Nat
      /\ \A j, k \in 1 .. Len(free) : j < k => End(free, j) < Start(free, k)
      /\ \A j \in 1 .. Len(free) : End(free, j) <= HEAP
      /\ \A j \in 1 .. Len(free), c \in held : End(free, j) <= c.at \/ EndOf(c) <= Start(free, j)
      /\ \A c \in held : EndOf(c) <= HEAP /\ EndOf(c) \in Nat /\ c.at \in Nat
  BY Types, ListFacts DEF HeapInv, Layout, Within, Apart
<1>5. /\ DOMAIN g = 1 .. Len(g)
      /\ \A j \in 1 .. Len(g) : Start(g, j) \in Nat /\ End(g, j) \in Nat
  <2>1. g \in Seq(FreeRegion)
    BY <1>1 DEF TypeOK, FreeRegion
  <2> QED BY <2>1, ListTypes
<1>6. \A j \in 1 .. Len(g) : \E k \in 1 .. Len(free) :
        /\ Start(free, k) <= Start(g, j) /\ End(g, j) = End(free, k)
        /\ k = i => Start(g, j) = EndOf(b)
  BY <1>1, <1>3 DEF Remains
<1> HIDE DEF g
<1>7. \A j \in 1 .. Len(g) : End(g, j) <= HEAP
  BY <1>4, <1>6
<1>8. \A c \in held' : EndOf(c) <= HEAP
  BY <1>2, <1>3, <1>4
<1>9. ASSUME NEW j \in 1 .. Len(g), NEW c \in held'
      PROVE  End(g, j) <= c.at \/ EndOf(c) <= Start(g, j)
  <2>1. PICK k \in 1 .. Len(free) : /\ Start(free, k) <= Start(g, j) /\ End(g, j) = End(free, k)
                                    /\ k = i => Start(g, j) = EndOf(b)
    BY <1>6
  <2>2. CASE c \in held
    BY <2>1, <2>2, <1>4, <1>5
  <2>3. CASE c = b
    <3>1. CASE k = i
      BY <2>1, <2>3, <3>1, <1>3
    <3>2. CASE k # i
      <4>1. End(free, k) < Start(free, i) \/ End(free, i) < Start(free, k)
        BY <3>2, <1>4, ListFacts
      <4>2. c.at = Start(free, i) /\ EndOf(c) <= End(free, i)
        BY <2>3, <1>3
      <4>3. /\ End(free, i) \in Nat /\ Start(free, k) \in Nat /\ Start(free, i) \in Nat
            /\ End(free, k) \in Nat /\ Start(g, j) \in Nat /\ EndOf(c) \in Nat
        BY <2>3, <1>3, <1>4, <1>5
      <4>4. CASE End(free, k) < Start(free, i)
        BY <2>1, <4>2, <4>3, <4>4
      <4>5. CASE End(free, i) < Start(free, k)
        BY <2>1, <4>2, <4>3, <4>5
      <4> QED BY <4>1, <4>4, <4>5
    <3> QED BY <3>1, <3>2
  <2> QED BY <2>2, <2>3, <1>2
<1>10. ASSUME NEW c \in held PROVE EndOf(b) <= c.at \/ EndOf(c) <= b.at
  BY <1>3, <1>4
<1>11. BlocksApart'
  BY <1>2, <1>10 DEF HeapInv, Layout, BlocksApart
<1>12. ASSUME NEW x \in 0 .. HEAP - 1
       PROVE  \/ \E j \in 1 .. Len(g) : Start(g, j) <= x /\ x < End(g, j)
              \/ \E c \in held' : c.at <= x /\ x < EndOf(c)
  <2>1. CASE \E c \in held : c.at <= x /\ x < EndOf(c)
    BY <2>1, <1>2
  <2>2. ASSUME NEW k \in 1 .. Len(free), Start(free, k) <= x, x < End(free, k), k # i
        PROVE  \E j \in 1 .. Len(g) : Start(g, j) <= x /\ x < End(g, j)
    <3>1. PICK j \in 1 .. Len(g) : Start(g, j) = Start(free, k) /\ End(g, j) = End(free, k)
      BY <1>1, <2>2 DEF Remains, g
    <3> QED BY <3>1, <2>2
  <2>3. ASSUME Start(free, i) <= x, x < End(free, i), ~(x < EndOf(b))
        PROVE  \E j \in 1 .. Len(g) : Start(g, j) <= x /\ x < End(g, j)
    <3>1. EndOf(b) # End(free, i) /\ EndOf(b) <= x
      BY <2>3, <1>3, <1>4
    <3>2. PICK j \in 1 .. Len(g) : Start(g, j) = EndOf(b) /\ End(g, j) = End(free, i)
      BY <1>1, <1>3, <3>1 DEF Remains, g
    <3> QED BY <3>1, <3>2, <2>3
  <2>4. CASE Start(free, i) <= x /\ x < EndOf(b)
    BY <2>4, <1>2, <1>3
  <2>5. \/ \E k \in 1 .. Len(free) : Start(free, k) <= x /\ x < End(free, k)
        \/ \E c \in held : c.at <= x /\ x < EndOf(c)
    BY Types DEF HeapInv, Layout, Covered, InRegion, InBlock
  <2> QED BY <2>1, <2>2, <2>3, <2>4, <2>5
<1>13. \A j, k \in 1 .. Len(g) : j < k => End(g, j) < Start(g, k)
  BY <1>1 DEF Remains, g
<1>14. (DOMAIN free)' = 1 .. Len(g)
  BY <1>5 DEF g
<1>15. Within' /\ Ordered'
  BY <1>7, <1>8, <1>13, <1>14 DEF Within, Ordered, g
<1>16. Apart'
  BY <1>9, <1>14 DEF Apart, g
<1>17. Covered'
  BY <1>12, <1>14 DEF Covered, InRegion, InBlock, g
<1> QED BY <1>11, <1>15, <1>16, <1>17 DEF Layout
-------------------------------------------------------------------------------
(* k_mem_dealloc: the place where the search stops is the gap of the block,*)
(* so that the test for a block inside a free region never succeeds.       *)
LEMMA Place ==
  ASSUME HeapInv, NEW b \in held, NEW i \in 0 .. Len(free), Neighbours(i, b)
  PROVE  /\ \A j \in 1 .. i : End(free, j) <= b.at
         /\ \A j \in i + 1 .. Len(free) : EndOf(b) <= Start(free, j)
         /\ ~Inside(i, b)
<1>1. /\ Len(free) \in Nat
      /\ \A j \in 1 .. Len(free) : /\ Start(free, j) \in Nat /\ End(free, j) \in Nat
                                   /\ Start(free, j) <= End(free, j)
      /\ \A j, k \in 1 .. Len(free) : j < k => End(free, j) < Start(free, k)
      /\ \A j \in 1 .. Len(free) : End(free, j) <= b.at \/ EndOf(b) <= Start(free, j)
      /\ b.at \in Nat /\ EndOf(b) \in Nat /\ b.at + 16 < EndOf(b)
  <2>1. /\ b.at \in Nat /\ EndOf(b) \in Nat /\ b.size \in Nat \ {0}
        /\ EndOf(b) = b.at + 16 + b.size
        /\ DOMAIN free = 1 .. Len(free)
    BY Types DEF HeapInv
  <2>2. \A j \in 1 .. Len(free) : End(free, j) <= b.at \/ EndOf(b) <= Start(free, j)
    BY <2>1 DEF HeapInv, Layout, Apart
  <2>3. \A j \in 1 .. Len(free) : /\ Start(free, j) \in Nat /\ End(free, j) \in Nat
                                   /\ Start(free, j) <= End(free, j)
    BY ListFacts
  <2> QED BY <2>1, <2>2, <2>3, ListFacts
<1>2. /\ i > 0 => Start(free, i) < b.at + 16
      /\ i < Len(free) => Start(free, i + 1) > b.at + 16
  BY DEF Neighbours, Between, Start, node_size
<1>3. ASSUME NEW j \in 1 .. i PROVE End(free, j) <= b.at
  <2>1. i \in 1 .. Len(free) /\ j \in 1 .. Len(free) /\ i > 0
    BY <1>1
  <2>2. End(free, i) <= b.at
    BY <1>1, <1>2, <2>1
  <2>3. j < i => End(free, j) < Start(free, i)
    BY <1>1, <2>1
  <2> QED BY <2>1, <2>2, <2>3, <1>1
<1>4. ASSUME NEW j \in i + 1 .. Len(free) PROVE EndOf(b) <= Start(free, j)
  <2>1. i + 1 \in 1 .. Len(free) /\ i < Len(free)
    BY <1>1
  <2>2. EndOf(b) <= Start(free, i + 1)
    BY <1>1, <1>2, <2>1
  <2>3. i + 1 < j => End(free, i + 1) < Start(free, j)
    BY <1>1, <2>1
  <2> QED BY <2>1, <2>2, <2>3, <1>1
<1>5. ~Inside(i, b)
  BY <1>1, <1>3 DEF Inside, End
<1> QED BY <1>3, <1>4, <1>5

LEMMA Eights == InEights(0) /\ InEights(16)
BY DEF InEights

LEMMA MergedSize ==
  ASSUME NEW at \in Nat, NEW l \in Nat, NEW n \in Nat, NEW r \in Nat,
         InEights(l), InEights(n), InEights(r)
  PROVE  /\ l + n + 16 + r \in Nat /\ InEights(l + n + 16 + r)
         /\ at + (l + n + 16 + r) = at + l + 16 + n + r
<1>1. l + n \in Nat /\ InEights(l + n) /\ 16 + r \in Nat /\ InEights(16 + r)
  BY Eights, EightsSum
<1>2. InEights((l + n) + (16 + r))
  BY <1>1, EightsSum
<1> QED BY <1>2

(* The region that takes the place of the block and of the neighbours it   *)
(* touches: the first and the last of the regions merged away.             *)
Lo(i, b) == IF MergesLeft(i, b) THEN i - 1 ELSE i
Hi(i, b) == IF MergesRight(i, b) THEN i + 2 ELSE i + 1

LEMMA RegionFacts ==
  ASSUME HeapInv, NEW b \in held, NEW i \in 0 .. Len(free), Neighbours(i, b)
  PROVE  LET x == Region(i, b)
         IN  /\ x \in FreeRegion
             /\ InEights(x.at) /\ InEights(x.size)
             /\ x.at = IF MergesLeft(i, b) THEN Start(free, i) ELSE b.at
             /\ x.at + x.size = IF MergesRight(i, b) THEN End(free, i + 1) ELSE EndOf(b)
             /\ x.at + x.size <= HEAP
             /\ Lo(i, b) \in 0 .. Len(free)
             /\ Hi(i, b) \in Lo(i, b) + 1 .. Len(free) + 1
             /\ MergesLeft(i, b) => i \in 1 .. Len(free) /\ End(free, i) = b.at
             /\ MergesRight(i, b) => i + 1 \in 1 .. Len(free) /\ Start(free, i + 1) = EndOf(b)
<1> DEFINE l == IF MergesLeft(i, b) THEN free[i].size ELSE 0
           r == IF MergesRight(i, b) THEN free[i + 1].size ELSE 0
           x == Region(i, b)
<1>1. /\ HEAP \in Nat /\ Len(free) \in Nat
      /\ b.at \in Nat /\ b.size \in Nat /\ EndOf(b) = b.at + 16 + b.size /\ EndOf(b) <= HEAP
      /\ InEights(b.at) /\ InEights(b.size)
      /\ \A j \in 1 .. Len(free) : /\ Start(free, j) \in Nat /\ free[j].size \in Nat
                                   /\ End(free, j) = Start(free, j) + free[j].size
                                   /\ End(free, j) <= HEAP
                                   /\ InEights(Start(free, j)) /\ InEights(free[j].size)
  BY Types, ListFacts DEF HeapInv, Layout, Within, Aligned
<1>2. MergesLeft(i, b) => i \in 1 .. Len(free) /\ End(free, i) = b.at
  BY <1>1 DEF MergesLeft, End
<1>3. MergesRight(i, b) => i + 1 \in 1 .. Len(free) /\ Start(free, i + 1) = EndOf(b)
  BY <1>1 DEF MergesRight, Start
<1>4. /\ x.at = IF MergesLeft(i, b) THEN Start(free, i) ELSE b.at
      /\ x.size = l + b.size + 16 + r
  BY DEF Region, Start, node_size
<1>11. x = [at |-> x.at, size |-> x.size]
  BY DEF Region
<1>5. /\ l \in Nat /\ InEights(l) /\ x.at \in Nat /\ InEights(x.at) /\ x.at + l = b.at
  <2>1. CASE MergesLeft(i, b)
    BY <1>1, <1>2, <1>4, <2>1
  <2>2. CASE ~MergesLeft(i, b)
    <3>1. l = 0 /\ x.at = b.at
      BY <1>4, <2>2
    <3> QED BY <1>1, <3>1, Eights
  <2> QED BY <2>1, <2>2
<1>6. /\ r \in Nat /\ InEights(r) /\ EndOf(b) + r <= HEAP
      /\ EndOf(b) + r = IF MergesRight(i, b) THEN End(free, i + 1) ELSE EndOf(b)
  <2>1. CASE MergesRight(i, b)
    BY <1>1, <1>3, <2>1
  <2>2. CASE ~MergesRight(i, b)
    <3>1. r = 0
      BY <2>2
    <3> QED BY <1>1, <2>2, <3>1, Eights
  <2> QED BY <2>1, <2>2
<1> HIDE DEF l, r, x
<1>7. x.at + x.size = EndOf(b) + r /\ x.size \in Nat /\ InEights(x.size)
  <2> DEFINE at == x.at
             n == b.size
  <2>1. at \in Nat /\ l \in Nat /\ n \in Nat /\ r \in Nat
    BY <1>1, <1>5, <1>6
  <2>2. InEights(l) /\ InEights(n) /\ InEights(r)
    BY <1>1, <1>5, <1>6
  <2>3. x.size = l + n + 16 + r /\ EndOf(b) = at + l + 16 + n
    BY <1>1, <1>4, <1>5
  <2>4. x.at = at
    OBVIOUS
  <2> HIDE DEF at, n
  <2>5. /\ l + n + 16 + r \in Nat /\ InEights(l + n + 16 + r)
        /\ at + (l + n + 16 + r) = at + l + 16 + n + r
    BY <2>1, <2>2, MergedSize
  <2> QED BY <2>3, <2>4, <2>5
<1>9. x \in FreeRegion
  <2>1. x.at \in 0 .. HEAP /\ x.size \in 0 .. HEAP
    <3>1. /\ HEAP \in Nat /\ x.at \in Nat /\ x.size \in Nat
          /\ x.at + x.size <= HEAP
      BY <1>1, <1>5, <1>6, <1>7
    <3> QED BY <3>1
  <2> QED BY <2>1, <1>11, Zenon DEF FreeRegion
<1>10. /\ Lo(i, b) \in 0 .. Len(free)
       /\ Hi(i, b) \in Lo(i, b) + 1 .. Len(free) + 1
  <2>1. /\ Len(free) \in Nat
        /\ MergesLeft(i, b) => i \in 1 .. Len(free)
        /\ MergesRight(i, b) => i + 1 \in 1 .. Len(free)
    BY <1>1, <1>2, <1>3
  <2> QED BY <2>1 DEF Lo, Hi
<1> QED BY <1>2, <1>3, <1>4, <1>5, <1>6, <1>7, <1>9, <1>10 DEF x

LEMMA MergedFacts ==
  ASSUME HeapInv, NEW b \in held, NEW i \in 0 .. Len(free), Neighbours(i, b)
  PROVE  LET g == Merged(i, b)
             lo == Lo(i, b)
             hi == Hi(i, b)
         IN  /\ g \in Seq(FreeRegion)
             /\ Len(g) = lo + 1 + (Len(free) + 1 - hi)
             /\ \A j \in 1 .. lo : g[j] = free[j]
             /\ g[lo + 1] = Region(i, b)
             /\ \A j \in lo + 2 .. Len(g) : g[j] = free[j - lo - 2 + hi]
<1> DEFINE lo == Lo(i, b)
           hi == Hi(i, b)
           x == Region(i, b)
<1>1. /\ free \in Seq(FreeRegion)
      /\ x \in FreeRegion
      /\ lo \in 0 .. Len(free)
      /\ hi \in lo + 1 .. Len(free) + 1
  BY Types, RegionFacts DEF HeapInv
<1>2. Merged(i, b) = Splice(free, lo, x, hi)
  <2>1. Splice(free, lo, x, hi) = SubSeq(free, 1, lo) \o <<x>> \o SubSeq(free, hi, Len(free))
    BY Zenon DEF Splice
  <2> QED BY <2>1, Zenon DEF Merged, Lo, Hi
<1> HIDE DEF lo, hi, x
<1>3. /\ Splice(free, lo, x, hi) \in Seq(FreeRegion)
      /\ IsSplice(Splice(free, lo, x, hi), free, lo, x, hi)
  BY <1>1, SpliceFacts
<1>4. Merged(i, b) \in Seq(FreeRegion) /\ IsSplice(Merged(i, b), free, lo, x, hi)
  BY <1>2, <1>3, Zenon
<1> QED BY <1>4 DEF IsSplice, lo, hi, x

(* What a release makes of the list: one region, the m-th, reaches from    *)
(* the block or the neighbour before it to the block's or the next         *)
(* neighbour's end; the others are as before.                              *)
Gains(g, i, b, m) ==
  /\ m \in 1 .. Len(g)
  /\ Start(g, m) = IF MergesLeft(i, b) THEN Start(free, i) ELSE b.at
  /\ End(g, m) = IF MergesRight(i, b) THEN End(free, i + 1) ELSE EndOf(b)
  /\ \A j \in 1 .. Len(g) : InEights(Start(g, j)) /\ InEights(g[j].size)
  /\ \A j \in 1 .. Len(g) : j # m => \E k \in 1 .. Len(free) :
       Start(g, j) = Start(free, k) /\ End(g, j) = End(free, k)
  /\ \A j, k \in 1 .. Len(g) : j < k => End(g, j) < Start(g, k)
  /\ \A k \in 1 .. Len(free) : \E j \in 1 .. Len(g) :
       Start(g, j) <= Start(free, k) /\ End(free, k) <= End(g, j)

LEMMA MergedGains ==
  ASSUME HeapInv, NEW b \in held, NEW i \in 0 .. Len(free), Neighbours(i, b)
  PROVE  Gains(Merged(i, b), i, b, Lo(i, b) + 1)
<1> DEFINE g == Merged(i, b)
           lo == Lo(i, b)
           hi == Hi(i, b)
           m == lo + 1
           old(j) == IF j <= lo THEN j ELSE j - lo - 2 + hi
<1>1. /\ Len(free) \in Nat
      /\ lo \in 0 .. Len(free)
      /\ hi \in lo + 1 .. Len(free) + 1
      /\ Len(g) = lo + 1 + (Len(free) + 1 - hi)
      /\ \A j \in 1 .. lo : g[j] = free[j]
      /\ g[m] = Region(i, b)
      /\ \A j \in lo + 2 .. Len(g) : g[j] = free[j - lo - 2 + hi]
  BY ListFacts, RegionFacts, MergedFacts
<1>2. /\ Start(g, m) = IF MergesLeft(i, b) THEN Start(free, i) ELSE b.at
      /\ End(g, m) = IF MergesRight(i, b) THEN End(free, i + 1) ELSE EndOf(b)
      /\ InEights(Start(g, m)) /\ InEights(g[m].size)
  BY <1>1, RegionFacts DEF Start, End
<1>3. /\ MergesLeft(i, b) => lo = i - 1 /\ i \in 1 .. Len(free) /\ End(free, i) = b.at
      /\ ~MergesLeft(i, b) => lo = i
      /\ MergesRight(i, b) => /\ hi = i + 2 /\ i + 1 \in 1 .. Len(free)
                              /\ Start(free, i + 1) = EndOf(b)
      /\ ~MergesRight(i, b) => hi = i + 1
  BY RegionFacts DEF Lo, Hi
<1>4. /\ \A j \in 1 .. Len(free) : /\ Start(free, j) \in Nat /\ End(free, j) \in Nat
                                   /\ Start(free, j) <= End(free, j)
                                   /\ InEights(Start(free, j)) /\ InEights(free[j].size)
      /\ \A j, k \in 1 .. Len(free) : j < k => End(free, j) < Start(free, k)
      /\ b.at \in Nat /\ EndOf(b) \in Nat /\ b.at < EndOf(b)
  <2>1. b.at \in Nat /\ EndOf(b) \in Nat /\ b.size \in Nat /\ EndOf(b) = b.at + 16 + b.size
    BY Types DEF HeapInv
  <2> QED BY <2>1, ListFacts
<1> HIDE DEF g, lo, hi
<1>5. ASSUME NEW j \in 1 .. Len(g), j # m
      PROVE  /\ old(j) \in 1 .. Len(free)
             /\ Start(g, j) = Start(free, old(j)) /\ End(g, j) = End(free, old(j))
             /\ g[j].size = free[old(j)].size
  <2>1. CASE j <= lo
    <3>1. j \in 1 .. lo /\ old(j) = j /\ j \in 1 .. Len(free)
      BY <1>1, <2>1
    <3>2. g[j] = free[j]
      BY <1>1, <3>1
    <3> QED BY <3>1, <3>2, Zenon DEF Start, End
  <2>2. CASE ~(j <= lo)
    <3>1. /\ j \in lo + 2 .. Len(g) /\ old(j) = j - lo - 2 + hi
          /\ j - lo - 2 + hi \in 1 .. Len(free)
      BY <1>1, <1>5, <2>2
    <3>2. g[j] = free[j - lo - 2 + hi]
      BY <1>1, <3>1
    <3> QED BY <3>1, <3>2, Zenon DEF Start, End
  <2> QED BY <2>1, <2>2
<1>6. /\ \A j \in 1 .. Len(g) : j < m => old(j) <= lo
      /\ \A j \in 1 .. Len(g) : m < j => hi <= old(j)
      /\ \A j, k \in 1 .. Len(g) : j < k /\ j # m /\ k # m => old(j) < old(k)
      /\ m \in 1 .. Len(g)
  BY <1>1
<1>7. ASSUME NEW k \in 1 .. Len(free), k <= lo \/ hi <= k
      PROVE  \E j \in 1 .. Len(g) : j # m /\ old(j) = k
  <2>1. CASE k <= lo
    <3>1. k \in 1 .. Len(g) /\ k # m /\ old(k) = k
      BY <1>1, <2>1
    <3> QED BY <3>1
  <2>2. CASE ~(k <= lo)
    <3> DEFINE j == k - hi + lo + 2
    <3>1. hi <= k /\ hi \in Int /\ lo \in Int /\ k \in Int
      BY <1>1, <1>7, <2>2
    <3>2. j \in 1 .. Len(g) /\ j # m /\ ~(j <= lo) /\ j - lo - 2 + hi = k
      BY <1>1, <3>1
    <3>3. old(j) = k
      BY <3>2, Zenon
    <3> QED BY <3>2, <3>3, Zenon
  <2> QED BY <2>1, <2>2
<1> HIDE DEF old, m
<1>8. ASSUME NEW j \in 1 .. Len(g)
      PROVE  InEights(Start(g, j)) /\ InEights(g[j].size)
  <2>1. CASE j = m
    BY <1>2, <2>1
  <2>2. CASE j # m
    BY <1>4, <1>5, <2>2
  <2> QED BY <2>1, <2>2
<1>9. ASSUME NEW k \in 1 .. lo PROVE End(free, k) < Start(g, m)
  <2>1. i \in 0 .. Len(free) /\ k \in 1 .. Len(free) /\ k <= i
    BY <1>1, <1>3
  <2>2. CASE MergesLeft(i, b)
    <3>1. k < i /\ i \in 1 .. Len(free) /\ Start(g, m) = Start(free, i)
      BY <1>1, <1>2, <1>3, <2>2
    <3> QED BY <1>4, <2>1, <3>1
  <2>3. CASE ~MergesLeft(i, b)
    <3>1. Start(g, m) = b.at /\ i \in 1 .. Len(free) /\ i > 0
      BY <1>1, <1>2, <2>1, <2>3
    <3>2. End(free, i) # b.at
      BY <2>3, <3>1 DEF MergesLeft, End
    <3>3. End(free, i) <= b.at /\ End(free, k) <= b.at
      BY <2>1, <3>1, Place
    <3>4. k < i => End(free, k) < Start(free, i)
      BY <1>4, <2>1, <3>1
    <3> QED BY <1>4, <2>1, <3>1, <3>2, <3>3, <3>4
  <2> QED BY <2>2, <2>3
<1>10. ASSUME NEW k \in 1 .. Len(free), hi <= k PROVE End(g, m) < Start(free, k)
  <2>1. i + 1 <= k
    BY <1>1, <1>3, <1>10
  <2>2. CASE MergesRight(i, b)
    <3>1. i + 1 < k /\ i + 1 \in 1 .. Len(free) /\ End(g, m) = End(free, i + 1)
      BY <1>1, <1>2, <1>3, <1>10, <2>2
    <3> QED BY <1>4, <3>1
  <2>3. CASE ~MergesRight(i, b)
    <3>1. End(g, m) = EndOf(b) /\ i + 1 \in 1 .. Len(free) /\ i < Len(free)
      BY <1>1, <1>2, <2>1, <2>3
    <3>2. EndOf(b) # Start(free, i + 1)
      BY <2>3, <3>1 DEF MergesRight, Start
    <3>3. EndOf(b) <= Start(free, i + 1) /\ EndOf(b) <= Start(free, k)
      BY <2>1, <3>1, <1>1, Place
    <3>4. i + 1 < k => End(free, i + 1) < Start(free, k)
      BY <1>4, <3>1
    <3> QED BY <1>4, <2>1, <3>1, <3>2, <3>3, <3>4
  <2> QED BY <2>2, <2>3
<1>11. ASSUME NEW j \in 1 .. Len(g), NEW k \in 1 .. Len(g), j < k
       PROVE  End(g, j) < Start(g, k)
  <2>1. CASE j = m
    <3>1. k # m /\ hi <= old(k)
      BY <1>6, <1>11, <2>1
    <3> QED BY <1>5, <1>10, <2>1, <3>1
  <2>2. CASE k = m
    <3>1. j # m /\ old(j) \in 1 .. lo
      BY <1>1, <1>5, <1>6, <1>11, <2>2
    <3> QED BY <1>5, <1>9, <2>2, <3>1
  <2>3. CASE j # m /\ k # m
    BY <1>4, <1>5, <1>6, <1>11, <2>3
  <2> QED BY <2>1, <2>2, <2>3
<1>12. ASSUME NEW k \in 1 .. Len(free)
       PROVE  \E j \in 1 .. Len(g) : Start(g, j) <= Start(free, k) /\ End(free, k) <= End(g, j)
  <2>1. CASE k <= lo \/ hi <= k
    <3>1. PICK j \in 1 .. Len(g) : j # m /\ old(j) = k
      BY <1>7, <2>1
    <3>2. Start(g, j) = Start(free, k) /\ End(g, j) = End(free, k)
      BY <1>5, <3>1
    <3> QED BY <1>4, <3>2
  <2>2. CASE ~(k <= lo \/ hi <= k)
    <3>1. \/ k = i /\ MergesLeft(i, b)
          \/ k = i + 1 /\ MergesRight(i, b)
      BY <1>1, <1>3, <2>2
    <3>2. CASE k = i /\ MergesLeft(i, b)
      <4>1. Start(g, m) = Start(free, k) /\ End(free, k) = b.at
        BY <1>2, <1>3, <3>2
      <4>2. EndOf(b) <= End(g, m) /\ End(g, m) \in Nat
        BY <1>2, <1>3, <1>4
      <4>3. Start(free, k) <= Start(free, k) /\ b.at <= End(g, m)
        BY <1>4, <4>2
      <4> QED BY <1>6, <4>1, <4>3
    <3>3. CASE k = i + 1 /\ MergesRight(i, b)
      <4>1. End(g, m) = End(free, k) /\ Start(free, k) = EndOf(b)
        BY <1>2, <1>3, <3>3
      <4>2. Start(g, m) <= b.at
        BY <1>2, <1>3, <1>4
      <4>3. Start(g, m) \in Nat
        BY <1>2, <1>3, <1>4
      <4> QED BY <1>4, <1>6, <4>1, <4>2, <4>3
    <3> QED BY <3>1, <3>2, <3>3
  <2> QED BY <2>1, <2>2
<1>13. ASSUME NEW j \in 1 .. Len(g), j # m
       PROVE  \E k \in 1 .. Len(free) : Start(g, j) = Start(free, k) /\ End(g, j) = End(free, k)
  BY <1>5, <1>13
<1> QED BY <1>2, <1>6, <1>8, <1>11, <1>12, <1>13 DEF Gains, g, m, lo

(* Taking a block back keeps the layout.                                   *)
LEMMA DeallocKeepsTypes ==
  ASSUME HeapInv, NEW b \in held, NEW i \in 0 .. Len(free), Neighbours(i, b),
         free' = Merged(i, b), held' = held \ {b}, last' = "returned"
  PROVE  /\ TypeOK' /\ Aligned'
         /\ Gains(free', i, b, Lo(i, b) + 1)
         /\ free' \in Seq(FreeRegion)
<1>1. free' \in Seq(FreeRegion)
  BY MergedFacts
<1>2. TypeOK'
  BY <1>1 DEF HeapInv, TypeOK, FreeRegion
<1>3. Gains(free', i, b, Lo(i, b) + 1)
  BY MergedGains
<1>4. DOMAIN free' = 1 .. Len(free')
  BY <1>1, LenProperties
<1>5. \A j \in DOMAIN free' : InEights(Start(free', j)) /\ InEights(free'[j].size)
  BY <1>3, <1>4 DEF Gains
<1>6. \A c \in held' : InEights(c.at) /\ InEights(c.size)
  BY DEF HeapInv, Aligned
<1> QED BY <1>1, <1>2, <1>3, <1>5, <1>6 DEF Aligned

LEMMA DeallocKeepsLayout ==
  ASSUME HeapInv, NEW b \in held, NEW i \in 0 .. Len(free), Neighbours(i, b),
         free' = Merged(i, b), held' = held \ {b}, last' = "returned"
  PROVE  Layout'
<1> DEFINE g == free'
           m == Lo(i, b) + 1
<1>1. g \in Seq(FreeRegion) /\ Gains(g, i, b, m)
  BY DeallocKeepsTypes
<1>2. /\ DOMAIN g = 1 .. Len(g)
      /\ \A j \in 1 .. Len(g) : Start(g, j) \in Nat /\ End(g, j) \in Nat
  BY <1>1, ListTypes
<1>3. /\ HEAP \in Nat
      /\ \A j \in 1 .. Len(free) : Start(free, j) \in Nat /\ End(free, j) \in Nat
      /\ \A j \in 1 .. Len(free) : End(free, j) <= HEAP
      /\ \A j \in 1 .. Len(free), c \in held : End(free, j) <= c.at \/ EndOf(c) <= Start(free, j)
      /\ \A c \in held : EndOf(c) <= HEAP /\ EndOf(c) \in Nat /\ c.at \in Nat
  BY Types, ListFacts DEF HeapInv, Layout, Within, Apart
<1>4. \A c \in held : c.at < EndOf(c)
  <2>1. \A c \in held : c.at \in Nat /\ c.size \in Nat /\ EndOf(c) = c.at + 16 + c.size
    BY Types DEF HeapInv
  <2> QED BY <2>1
<1>5. \A c \in held : c = b \/ EndOf(b) <= c.at \/ EndOf(c) <= b.at
  BY DEF HeapInv, Layout, BlocksApart
<1>6. /\ m \in 1 .. Len(g)
      /\ Start(g, m) = IF MergesLeft(i, b) THEN Start(free, i) ELSE b.at
      /\ End(g, m) = IF MergesRight(i, b) THEN End(free, i + 1) ELSE EndOf(b)
      /\ \A j \in 1 .. Len(g) : j # m => \E k \in 1 .. Len(free) :
           Start(g, j) = Start(free, k) /\ End(g, j) = End(free, k)
      /\ \A j, k \in 1 .. Len(g) : j < k => End(g, j) < Start(g, k)
      /\ \A k \in 1 .. Len(free) : \E j \in 1 .. Len(g) :
           Start(g, j) <= Start(free, k) /\ End(free, k) <= End(g, j)
  BY <1>1 DEF Gains
<1>7. /\ MergesLeft(i, b) => i \in 1 .. Len(free) /\ End(free, i) = b.at
      /\ MergesRight(i, b) => i + 1 \in 1 .. Len(free) /\ Start(free, i + 1) = EndOf(b)
  BY RegionFacts
<1>8. Start(g, m) <= b.at /\ EndOf(b) <= End(g, m) /\ End(g, m) <= HEAP
  <2>1. \A j \in 1 .. Len(free) : Start(free, j) <= End(free, j)
    <3>1. \A j \in 1 .. Len(free) : /\ Start(free, j) \in Nat /\ free[j].size \in Nat
                                    /\ End(free, j) = Start(free, j) + free[j].size
      BY ListFacts
    <3> QED BY <3>1
  <2>2. Start(g, m) <= b.at
    BY <1>3, <1>6, <1>7, <2>1
  <2>3. EndOf(b) <= End(g, m) /\ End(g, m) <= HEAP
    BY <1>3, <1>6, <1>7, <2>1
  <2> QED BY <2>2, <2>3
<1> HIDE DEF g, m
<1>9. \A j \in 1 .. Len(g) : End(g, j) <= HEAP
  <2> SUFFICES ASSUME NEW j \in 1 .. Len(g) PROVE End(g, j) <= HEAP
    OBVIOUS
  <2>1. CASE j = m
    BY <1>8, <2>1
  <2>2. CASE j # m
    BY <1>3, <1>6, <2>2
  <2> QED BY <2>1, <2>2
<1>10. ASSUME NEW j \in 1 .. Len(g), NEW c \in held, c # b
       PROVE  End(g, j) <= c.at \/ EndOf(c) <= Start(g, j)
  <2>1. CASE j # m
    BY <1>3, <1>6, <2>1
  <2>2. CASE j = m
    <3>1. CASE EndOf(b) <= c.at
      <4>1. CASE MergesRight(i, b)
        <5>1. End(free, i + 1) <= c.at \/ EndOf(c) <= EndOf(b)
          BY <1>3, <1>7, <4>1
        <5>2. ~(EndOf(c) <= EndOf(b))
          BY <1>3, <1>4, <3>1
        <5> QED BY <1>6, <2>2, <4>1, <5>1, <5>2
      <4>2. CASE ~MergesRight(i, b)
        BY <1>6, <2>2, <3>1, <4>2
      <4> QED BY <4>1, <4>2
    <3>2. CASE EndOf(c) <= b.at
      <4>1. CASE MergesLeft(i, b)
        <5>1. b.at <= c.at \/ EndOf(c) <= Start(free, i)
          BY <1>3, <1>7, <4>1
        <5>2. ~(b.at <= c.at)
          BY <1>3, <1>4, <3>2
        <5> QED BY <1>6, <2>2, <4>1, <5>1, <5>2
      <4>2. CASE ~MergesLeft(i, b)
        BY <1>6, <2>2, <3>2, <4>2
      <4> QED BY <4>1, <4>2
    <3> QED BY <1>5, <1>10, <3>1, <3>2
  <2> QED BY <2>1, <2>2
<1>11. ASSUME NEW x \in 0 .. HEAP - 1
       PROVE  \/ \E j \in 1 .. Len(g) : Start(g, j) <= x /\ x < End(g, j)
              \/ \E c \in held \ {b} : c.at <= x /\ x < EndOf(c)
  <2>1. \/ \E k \in 1 .. Len(free) : Start(free, k) <= x /\ x < End(free, k)
        \/ \E c \in held : c.at <= x /\ x < EndOf(c)
    BY Types DEF HeapInv, Layout, Covered, InRegion, InBlock
  <2>2. ASSUME NEW k \in 1 .. Len(free), Start(free, k) <= x, x < End(free, k)
        PROVE  \E j \in 1 .. Len(g) : Start(g, j) <= x /\ x < End(g, j)
    <3>1. PICK j \in 1 .. Len(g) : Start(g, j) <= Start(free, k) /\ End(free, k) <= End(g, j)
      BY <1>6
    <3>2. Start(g, j) <= x /\ x < End(g, j)
      BY <1>2, <1>3, <2>2, <3>1
    <3> QED BY <3>2
  <2>3. ASSUME b.at <= x, x < EndOf(b)
        PROVE  \E j \in 1 .. Len(g) : Start(g, j) <= x /\ x < End(g, j)
    <3>1. Start(g, m) <= x /\ x < End(g, m) /\ m \in 1 .. Len(g)
      BY <1>2, <1>3, <1>6, <1>8, <2>3
    <3> QED BY <3>1
  <2> QED BY <2>1, <2>2, <2>3
<1>12. (DOMAIN free)' = 1 .. Len(g)
  BY <1>2 DEF g
<1>13. Within' /\ Ordered'
  BY <1>3, <1>6, <1>9, <1>12 DEF Within, Ordered, g
<1>14. Apart'
  BY <1>10, <1>12 DEF Apart, g
<1>15. BlocksApart'
  BY DEF HeapInv, Layout, BlocksApart
<1>16. Covered'
  BY <1>11, <1>12 DEF Covered, InRegion, InBlock, g
<1> QED BY <1>13, <1>14, <1>15, <1>16 DEF Layout
-------------------------------------------------------------------------------
(* Every step of the allocator and of the tasks keeps the invariant.       *)
LEMMA TakenKeeps ==
  ASSUME HeapInv, NEW t \in Tids, NEW s \in Nat \ {0}, NEW i \in DOMAIN free,
         NEW owner \in Owners, FirstFit(i, real_size(s)), Taken(t, i, real_size(s), owner)
  PROVE  HeapInv'
<1>1. /\ real_size(s) \in Nat \ {0} /\ InEights(real_size(s))
      /\ i \in 1 .. Len(free) /\ Fits(i, real_size(s))
  BY RealSize, Types DEF HeapInv, InEights, FirstFit
<1>2. TypeOK' /\ Aligned' /\ Layout'
  BY <1>1, TakenKeepsTypes, TakenKeepsLayout
<1> QED BY <1>2 DEF HeapInv

LEMMA AllocKeeps ==
  ASSUME HeapInv, NEW t \in Tids, NEW s \in Nat \ {0}, Alloc(t, s) \/ AllocStack(t, s)
  PROVE  HeapInv'
<1>1. t \in Owners
  BY DEF Owners
<1>2. PICK i \in DOMAIN free, owner \in Owners :
        FirstFit(i, real_size(s)) /\ Taken(t, i, real_size(s), owner)
  BY <1>1 DEF Alloc, AllocStack
<1> QED BY <1>2, TakenKeeps

LEMMA DeallocKeeps ==
  ASSUME HeapInv, NEW t \in Tids, NEW b \in held, Dealloc(t, b)
  PROVE  HeapInv'
<1>1. PICK i \in 0 .. Len(free) : Neighbours(i, b) /\ free' = Merged(i, b)
  BY DEF Dealloc
<1>2. held' = held \ {b} /\ last' = "returned"
  BY DEF Dealloc
<1>3. TypeOK' /\ Aligned' /\ Layout'
  BY <1>1, <1>2, DeallocKeepsTypes, DeallocKeepsLayout
<1> QED BY <1>3 DEF HeapInv

LEMMA RefusalKeeps ==
  ASSUME HeapInv, UNCHANGED <<free, held>>, last' = last \/ last' \in {"refused", "denied"}
  PROVE  HeapInv'
<1>1. TypeOK'
  BY DEF HeapInv, TypeOK
<1>2. Aligned'
  BY DEF HeapInv, Aligned
<1>3. Layout'
  BY DEF HeapInv, Layout, Within, Ordered, Apart, BlocksApart, Covered, InRegion, InBlock
<1> QED BY <1>1, <1>2, <1>3 DEF HeapInv

(* The calls a step of the tasks can be.                                   *)
LEMMA RequestedSizes ==
  /\ \A s \in Sizes : s \in Nat \ {0}
  /\ \A s \in StackSizes : s \in Nat \ {0}
BY KMemConstants, TaskMemConstants

LEMMA CreateStep ==
  ASSUME HeapInv, NEW t \in Tids, NEW s \in StackSizes, Create(t, s)
  PROVE  HeapInv'
BY AllocKeeps, RefusalKeeps, RequestedSizes DEF Create, NoRoom

LEMMA ExitStep ==
  ASSUME HeapInv, NEW t \in Tids, Exit(t)
  PROVE  HeapInv'
BY DeallocKeeps, RefusalKeeps DEF Exit, Denied, StackOf

LEMMA UseStep ==
  ASSUME HeapInv, NEW t \in Tids, Use(t)
  PROVE  HeapInv'
BY AllocKeeps, DeallocKeeps, RefusalKeeps, RequestedSizes DEF Use, NoRoom, Denied

LEMMA HeapStep == HeapInv /\ [TaskNext]_tvars => HeapInv'
<1> SUFFICES ASSUME HeapInv, [TaskNext]_tvars PROVE HeapInv'
  OBVIOUS
<1>1. CASE UNCHANGED tvars
  BY <1>1, RefusalKeeps DEF tvars
<1>2. CASE TaskNext
  BY <1>2, CreateStep, ExitStep, UseStep DEF TaskNext
<1> QED BY <1>1, <1>2

LEMMA HeapInvariant == TaskSpec => []HeapInv
<1>1. TaskInit => HeapInv
  BY InitHeap DEF TaskInit
<1> QED BY <1>1, HeapStep, PTL DEF TaskSpec

(* The variables of the allocator have their types at every step of every  *)
(* history of tasks that come, go, allocate and release.                   *)
THEOREM HeapTypesCorrect == TaskSpec => []TypeOK
<1>1. HeapInv => TypeOK
  BY DEF HeapInv
<1> QED BY <1>1, HeapInvariant, PTL

(* No byte is ever held twice, lies on the free list while it is held, or  *)
(* outside the heap: the splitting, unlinking and merging of k_mem_alloc   *)
(* and k_mem_dealloc are right for every size.                             *)
THEOREM DisjointCorrect == TaskSpec => []Disjoint
<1>1. ASSUME HeapInv PROVE Disjoint
  <2> DEFINE regions == {<<free[i].at, free[i].at + free[i].size>> : i \in DOMAIN free}
             blocks == {<<b.at, EndOf(b)>> : b \in held}
  <2>1. /\ DOMAIN free = 1 .. Len(free) /\ HEAP \in Nat
        /\ \A i \in DOMAIN free : /\ Start(free, i) \in Nat /\ End(free, i) \in Nat
                                  /\ Start(free, i) <= End(free, i) /\ End(free, i) <= HEAP
    <3>1. /\ DOMAIN free = 1 .. Len(free) /\ HEAP \in Nat
          /\ \A i \in DOMAIN free : /\ Start(free, i) \in Nat /\ free[i].size \in Nat
                                    /\ End(free, i) = Start(free, i) + free[i].size
      BY <1>1, Types, ListFacts DEF HeapInv
    <3> QED BY <1>1, <3>1 DEF HeapInv, Layout, Within
  <2>2. \A b \in held : b.at \in Nat /\ EndOf(b) \in Nat /\ b.at < EndOf(b) /\ EndOf(b) <= HEAP
    <3>1. \A b \in held : b.at \in Nat /\ b.size \in Nat /\ EndOf(b) = b.at + 16 + b.size
      BY <1>1, Types DEF HeapInv
    <3> QED BY <1>1, <3>1 DEF HeapInv, Layout, Within
  <2>3. /\ \A x \in regions : \E i \in DOMAIN free : x = <<Start(free, i), End(free, i)>>
        /\ \A x \in blocks : \E b \in held : x = <<b.at, EndOf(b)>>
    BY DEF Start, End
  <2> HIDE DEF regions, blocks
  <2>4. /\ \A i, j \in DOMAIN free : i < j => End(free, i) < Start(free, j)
        /\ \A i \in DOMAIN free, b \in held : End(free, i) <= b.at \/ EndOf(b) <= Start(free, i)
        /\ \A b, c \in held : b = c \/ EndOf(b) <= c.at \/ EndOf(c) <= b.at
    BY <1>1 DEF HeapInv, Layout, Ordered, Apart, BlocksApart
  <2>5. ASSUME NEW x \in regions, NEW y \in blocks
        PROVE  x # y /\ (x[2] <= y[1] \/ y[2] <= x[1])
    <3>1. PICK i \in DOMAIN free : x = <<Start(free, i), End(free, i)>>
      BY <2>3
    <3>2. PICK b \in held : y = <<b.at, EndOf(b)>>
      BY <2>3
    <3> QED BY <2>1, <2>2, <2>4, <3>1, <3>2
  <2>6. ASSUME NEW x \in regions, NEW y \in regions
        PROVE  x = y \/ x[2] <= y[1] \/ y[2] <= x[1]
    <3>1. PICK i \in DOMAIN free : x = <<Start(free, i), End(free, i)>>
      BY <2>3
    <3>2. PICK j \in DOMAIN free : y = <<Start(free, j), End(free, j)>>
      BY <2>3
    <3>3. i \in Int /\ j \in Int
      BY <2>1
    <3>4. i = j \/ i < j \/ j < i
      BY <3>3
    <3> QED BY <2>1, <2>4, <3>1, <3>2, <3>4
  <2>7. ASSUME NEW x \in blocks, NEW y \in blocks
        PROVE  x = y \/ x[2] <= y[1] \/ y[2] <= x[1]
    <3>1. PICK b \in held : x = <<b.at, EndOf(b)>>
      BY <2>3
    <3>2. PICK c \in held : y = <<c.at, EndOf(c)>>
      BY <2>3
    <3> QED BY <2>4, <3>1, <3>2
  <2>8. ASSUME NEW x \in regions \cup blocks PROVE 0 <= x[1] /\ x[2] <= HEAP
    <3>1. CASE x \in regions
      BY <2>1, <2>3, <3>1
    <3>2. CASE x \in blocks
      BY <2>2, <2>3, <3>2
    <3> QED BY <3>1, <3>2
  <2>9. regions \cap blocks = {}
    BY <2>5
  <2>10. \A x, y \in regions \cup blocks : x = y \/ x[2] <= y[1] \/ y[2] <= x[1]
    BY <2>5, <2>6, <2>7
  <2> QED BY <2>8, <2>9, <2>10, Zenon DEF Disjoint, regions, blocks
<1> QED BY <1>1, HeapInvariant, PTL

(* The list stays in address order and without adjacent regions, whatever  *)
(* the order in which blocks are given back.                               *)
THEOREM CoalescedCorrect == TaskSpec => []Coalesced
<1>1. ASSUME HeapInv PROVE Coalesced
  <2>1. DOMAIN free = 1 .. Len(free) /\ Len(free) \in Nat
    BY <1>1, Types DEF HeapInv
  <2>2. \A i, j \in DOMAIN free : i < j => End(free, i) < Start(free, j)
    BY <1>1 DEF HeapInv, Layout, Ordered
  <2>3. ASSUME NEW i \in DOMAIN free \ {1} PROVE i - 1 \in DOMAIN free /\ i - 1 < i
    BY <2>1
  <2> QED BY <2>2, <2>3 DEF Coalesced, Start, End
<1> QED BY <1>1, HeapInvariant, PTL
-------------------------------------------------------------------------------
(* Sums.  If each element of a set stands for as many numbers as it adds,  *)
(* and no two elements for the same one, the sum is the number of them     *)
(* all.  This also shows that the function exists that MapThenSumSet       *)
(* defines by recursion.                                                   *)
Pick(s) == CHOOSE x \in s : TRUE

IsSum(g, S, B) ==
  g = [s \in SUBSET S |->
         IF s = {} THEN 0 ELSE Cardinality(B[Pick(s)]) + g[s \ {Pick(s)}]]

Count(s, B) == Cardinality(UNION {B[x] : x \in s})

LEMMA CountStep ==
  ASSUME NEW S, NEW N, IsFiniteSet(N), NEW B \in [S -> SUBSET N],
         \A x, y \in S : x = y \/ B[x] \cap B[y] = {},
         NEW s \in SUBSET S, s # {}
  PROVE  Count(s, B) = Cardinality(B[Pick(s)]) + Count(s \ {Pick(s)}, B)
<1> DEFINE p == Pick(s)
           Q == UNION {B[x] : x \in s \ {p}}
<1>1. p \in s
  BY DEF Pick
<1> HIDE DEF p
<1>2. B[p] \in SUBSET N /\ Q \in SUBSET N /\ B[p] \cap Q = {}
  BY <1>1
<1>3. UNION {B[x] : x \in s} = B[p] \cup Q
  BY <1>1
<1> HIDE DEF Q
<1>4. /\ IsFiniteSet(B[p]) /\ IsFiniteSet(Q)
      /\ Cardinality(B[p]) \in Nat /\ Cardinality(Q) \in Nat
  BY <1>2, FS_Subset, FS_CardinalityType
<1>5. Cardinality(B[p] \cup Q) = Cardinality(B[p]) + Cardinality(Q) - 0
  BY <1>2, <1>4, FS_Union, FS_EmptySet
<1>6. Count(s, B) = Cardinality(B[p] \cup Q)
  BY <1>3 DEF Count
<1>7. Count(s \ {p}, B) = Cardinality(Q)
  BY DEF Count, Q
<1>8. Count(s, B) = Cardinality(B[p]) + Count(s \ {p}, B)
  BY <1>4, <1>5, <1>6, <1>7
<1> QED BY <1>8 DEF p

LEMMA SumCounts ==
  ASSUME NEW S, IsFiniteSet(S), NEW N, IsFiniteSet(N), NEW B \in [S -> SUBSET N],
         \A x, y \in S : x = y \/ B[x] \cap B[y] = {}
  PROVE  /\ \E g : IsSum(g, S, B)
         /\ \A g : IsSum(g, S, B) => g[S] = Count(S, B)
<1> DEFINE G == [s \in SUBSET S |-> Count(s, B)]
<1>0. Count({}, B) = 0
  <2>1. UNION {B[x] : x \in {}} = {}
    OBVIOUS
  <2> QED BY <2>1, FS_EmptySet DEF Count
<1>1. \A s \in SUBSET S : s # {} => Pick(s) \in s /\ s \ {Pick(s)} \in SUBSET S
  BY DEF Pick
<1>2. ASSUME NEW s \in SUBSET S
      PROVE  G[s] = IF s = {} THEN 0 ELSE Cardinality(B[Pick(s)]) + G[s \ {Pick(s)}]
  BY <1>0, <1>1, CountStep
<1>3. IsSum(G, S, B)
  <2>1. DOMAIN G = SUBSET S /\ G = [s \in SUBSET S |-> G[s]]
    OBVIOUS
  <2> HIDE DEF G
  <2> QED BY <1>2, <2>1 DEF IsSum
<1>4. ASSUME NEW g, IsSum(g, S, B) PROVE g[S] = G[S]
  <2> DEFINE Bad == {s \in SUBSET S : g[s] # G[s]}
             R == StrictSubsetOrdering(S)
             F == FiniteSubsetsOf(S)
  <2>1. \A s \in SUBSET S :
          g[s] = IF s = {} THEN 0 ELSE Cardinality(B[Pick(s)]) + g[s \ {Pick(s)}]
    BY <1>4 DEF IsSum
  <2>2. IsWellFoundedOn(R, F)
    BY FS_StrictSubsetOrderingWellFounded
  <2>3. Bad \subseteq F
    BY FS_Subset DEF FiniteSubsetsOf
  <2> HIDE DEF Bad, R, F, G
  <2>4. ASSUME Bad # {} PROVE FALSE
    <3>1. PICK m \in Bad : \A y \in Bad : ~ (<<y, m>> \in R)
      BY <2>2, <2>3, <2>4, WFMin
    <3>2. m \in SUBSET S /\ g[m] # G[m]
      BY DEF Bad
    <3>3. m # {}
      BY <1>2, <2>1, <3>2
    <3>4. m \ {Pick(m)} \in SUBSET S /\ m \ {Pick(m)} # m /\ m \ {Pick(m)} \subseteq m
      BY <1>1, <3>2, <3>3
    <3>5. <<m \ {Pick(m)}, m>> \in R
      BY <3>2, <3>4 DEF R, StrictSubsetOrdering
    <3>6. g[m \ {Pick(m)}] = G[m \ {Pick(m)}]
      BY <3>1, <3>4, <3>5 DEF Bad
    <3> QED BY <1>2, <2>1, <3>2, <3>3, <3>6
  <2>5. S \in SUBSET S
    OBVIOUS
  <2> QED BY <2>4, <2>5 DEF Bad
<1> QED BY <1>3, <1>4

(* The bytes of the regions and those of the blocks are those of the heap. *)
RegionBytes == [i \in DOMAIN free |-> Start(free, i) .. End(free, i) - 1]
BlockBytes == [b \in held |-> b.at .. EndOf(b) - 1]

LEMMA HeapFacts ==
  ASSUME HeapInv
  PROVE  /\ HEAP \in Nat
         /\ IsFiniteSet(0 .. HEAP - 1) /\ Cardinality(0 .. HEAP - 1) = HEAP
         /\ Len(free) \in Nat /\ DOMAIN free = 1 .. Len(free)
         /\ \A i \in 1 .. Len(free) :
              /\ Start(free, i) \in Nat /\ End(free, i) \in Nat
              /\ free[i].size \in Nat /\ End(free, i) = Start(free, i) + free[i].size
              /\ End(free, i) <= HEAP
         /\ \A i, j \in 1 .. Len(free) : i < j => End(free, i) < Start(free, j)
         /\ \A b \in held : /\ b.at \in Nat /\ b.size \in Nat \ {0} /\ EndOf(b) \in Nat
                            /\ EndOf(b) = b.at + 16 + b.size /\ EndOf(b) <= HEAP
<1>1. HEAP \in Nat
  BY Types DEF HeapInv
<1>2. IsFiniteSet(0 .. HEAP - 1) /\ Cardinality(0 .. HEAP - 1) = HEAP
  <2>1. 0 \in Int /\ HEAP - 1 \in Int
    BY <1>1
  <2>2. /\ IsFiniteSet(0 .. HEAP - 1)
        /\ Cardinality(0 .. HEAP - 1) = IF 0 > HEAP - 1 THEN 0 ELSE (HEAP - 1) - 0 + 1
    BY <2>1, FS_Interval
  <2> QED BY <1>1, <2>2
<1> QED BY <1>1, <1>2, Types, ListFacts DEF HeapInv, Layout, Within

(* Blocks are apart, so that there are finitely many of them.              *)
LEMMA HeldFinite == HeapInv => IsFiniteSet(held)
<1> SUFFICES ASSUME HeapInv PROVE IsFiniteSet(held)
  OBVIOUS
<1> DEFINE f == [b \in held |-> b.at]
<1>1. \A b \in held : b.at \in 0 .. HEAP - 1
  BY HeapFacts
<1>2. \A b, c \in held : b.at = c.at => b = c
  <2>1. \A b \in held : b.at \in Nat /\ EndOf(b) \in Nat /\ b.at < EndOf(b)
    BY HeapFacts
  <2>2. \A b, c \in held : b = c \/ EndOf(b) <= c.at \/ EndOf(c) <= b.at
    BY DEF HeapInv, Layout, BlocksApart
  <2> QED BY <2>1, <2>2
<1>3. f \in Injection(held, 0 .. HEAP - 1)
  BY <1>1, <1>2 DEF Injection, IsInjective
<1> HIDE DEF f
<1> QED BY <1>3, HeapFacts, FS_Injection

LEMMA RegionSum ==
  ASSUME HeapInv PROVE get_free_memory = Count(DOMAIN free, RegionBytes)
<1> DEFINE S == DOMAIN free
           B == RegionBytes
           P(g) == g = [s \in SUBSET S |->
                          IF s = {} THEN 0
                          ELSE free[CHOOSE x \in s : TRUE].size
                               + g[s \ {CHOOSE x \in s : TRUE}]]
           h == CHOOSE g : P(g)
<1>1. get_free_memory = h[S]
  BY Zenon DEF get_free_memory, MapThenSumSet, MapThenFoldSet
<1>2. IsFiniteSet(S)
  BY HeapFacts, FS_Interval
<1>3. B \in [S -> SUBSET (0 .. HEAP - 1)]
  BY HeapFacts DEF RegionBytes
<1>4. ASSUME NEW i \in S PROVE Cardinality(B[i]) = free[i].size
  <2>1. B[i] = Start(free, i) .. End(free, i) - 1
    BY DEF RegionBytes
  <2>2. Start(free, i) \in Int /\ End(free, i) - 1 \in Int
    BY HeapFacts
  <2>3. Cardinality(B[i]) = IF Start(free, i) > End(free, i) - 1 THEN 0
                            ELSE (End(free, i) - 1) - Start(free, i) + 1
    BY <2>1, <2>2, FS_Interval
  <2> QED BY <2>3, HeapFacts
<1>5. \A i, j \in S : i = j \/ B[i] \cap B[j] = {}
  <2> SUFFICES ASSUME NEW i \in S, NEW j \in S, i < j PROVE B[i] \cap B[j] = {}
    <3>1. \A i, j \in S : i \in Int /\ j \in Int
      BY HeapFacts
    <3>2. \A i, j \in S : i = j \/ i < j \/ j < i
      BY <3>1
    <3> QED BY <3>2
  <2>1. End(free, i) < Start(free, j)
    BY HeapFacts
  <2>2. /\ B[i] = Start(free, i) .. End(free, i) - 1
        /\ B[j] = Start(free, j) .. End(free, j) - 1
    BY DEF RegionBytes
  <2>3. Start(free, i) \in Nat /\ End(free, i) \in Nat /\ Start(free, j) \in Nat /\ End(free, j) \in Nat
    BY HeapFacts
  <2> QED BY <2>1, <2>2, <2>3
<1> HIDE DEF S, B
<1>6. ASSUME NEW g PROVE P(g) <=> IsSum(g, S, B)
  <2>1. \A s \in SUBSET S : s # {} => Pick(s) \in S
    BY DEF Pick
  <2>2. [s \in SUBSET S |-> IF s = {} THEN 0 ELSE free[Pick(s)].size + g[s \ {Pick(s)}]]
        = [s \in SUBSET S |-> IF s = {} THEN 0
                              ELSE Cardinality(B[Pick(s)]) + g[s \ {Pick(s)}]]
    BY <1>4, <2>1
  <2> QED BY <2>2, Zenon DEF Pick, IsSum
<1> HIDE DEF P
<1>7. /\ \E g : IsSum(g, S, B)
      /\ \A g : IsSum(g, S, B) => g[S] = Count(S, B)
  BY <1>2, <1>3, <1>5, HeapFacts, SumCounts
<1>8. P(h)
  BY <1>6, <1>7, Zenon
<1> QED BY <1>1, <1>6, <1>7, <1>8 DEF S, B

LEMMA BlockSum ==
  ASSUME HeapInv
  PROVE  MapThenSumSet(LAMBDA b : b.size + node_size, held) = Count(held, BlockBytes)
<1> DEFINE S == held
           B == BlockBytes
           P(g) == g = [s \in SUBSET S |->
                          IF s = {} THEN 0
                          ELSE (CHOOSE x \in s : TRUE).size + node_size
                               + g[s \ {CHOOSE x \in s : TRUE}]]
           h == CHOOSE g : P(g)
<1>1. MapThenSumSet(LAMBDA b : b.size + node_size, held) = h[S]
  BY Zenon DEF MapThenSumSet, MapThenFoldSet
<1>2. IsFiniteSet(S)
  BY HeldFinite
<1>3. B \in [S -> SUBSET (0 .. HEAP - 1)]
  BY HeapFacts DEF BlockBytes
<1>4. ASSUME NEW b \in S PROVE Cardinality(B[b]) = b.size + node_size
  <2>1. B[b] = b.at .. EndOf(b) - 1
    BY DEF BlockBytes
  <2>2. b.at \in Int /\ EndOf(b) - 1 \in Int
    BY HeapFacts
  <2>3. Cardinality(B[b]) = IF b.at > EndOf(b) - 1 THEN 0 ELSE (EndOf(b) - 1) - b.at + 1
    BY <2>1, <2>2, FS_Interval
  <2>4. b.at \in Nat /\ b.size \in Nat \ {0} /\ EndOf(b) = b.at + 16 + b.size
    BY HeapFacts
  <2> QED BY <2>3, <2>4 DEF node_size
<1>5. \A b, c \in S : b = c \/ B[b] \cap B[c] = {}
  <2> SUFFICES ASSUME NEW b \in S, NEW c \in S, b # c PROVE B[b] \cap B[c] = {}
    OBVIOUS
  <2>1. EndOf(b) <= c.at \/ EndOf(c) <= b.at
    BY DEF HeapInv, Layout, BlocksApart
  <2>2. B[b] = b.at .. EndOf(b) - 1 /\ B[c] = c.at .. EndOf(c) - 1
    BY DEF BlockBytes
  <2>3. b.at \in Nat /\ EndOf(b) \in Nat /\ c.at \in Nat /\ EndOf(c) \in Nat
    BY HeapFacts
  <2> QED BY <2>1, <2>2, <2>3
<1> HIDE DEF S, B
<1>6. ASSUME NEW g PROVE P(g) <=> IsSum(g, S, B)
  <2>1. \A s \in SUBSET S : s # {} => Pick(s) \in S
    BY DEF Pick
  <2>2. [s \in SUBSET S |-> IF s = {} THEN 0
                            ELSE Pick(s).size + node_size + g[s \ {Pick(s)}]]
        = [s \in SUBSET S |-> IF s = {} THEN 0
                              ELSE Cardinality(B[Pick(s)]) + g[s \ {Pick(s)}]]
    BY <1>4, <2>1
  <2> QED BY <2>2, Zenon DEF Pick, IsSum
<1> HIDE DEF P
<1>7. /\ \E g : IsSum(g, S, B)
      /\ \A g : IsSum(g, S, B) => g[S] = Count(S, B)
  BY <1>2, <1>3, <1>5, HeapFacts, SumCounts
<1>8. P(h)
  BY <1>6, <1>7, Zenon
<1> QED BY <1>1, <1>6, <1>7, <1>8 DEF S, B

(* k_mem_alloc and k_mem_dealloc lose no byte, and count none twice, over  *)
(* any history of splitting, exact fits and merging (k_mem.c:145-167,      *)
(* 190-266).                                                               *)
THEOREM AccountedCorrect == TaskSpec => []Accounted
<1>1. ASSUME HeapInv PROVE Accounted
  <2> DEFINE A == UNION {RegionBytes[i] : i \in DOMAIN free}
             C == UNION {BlockBytes[b] : b \in held}
  <2>1. A \cap C = {}
    <3> SUFFICES ASSUME NEW i \in DOMAIN free, NEW b \in held,
                        NEW x \in RegionBytes[i], x \in BlockBytes[b]
                 PROVE  FALSE
      OBVIOUS
    <3>1. /\ x \in Start(free, i) .. End(free, i) - 1
          /\ x \in b.at .. EndOf(b) - 1
      BY DEF RegionBytes, BlockBytes
    <3>2. End(free, i) <= b.at \/ EndOf(b) <= Start(free, i)
      BY <1>1 DEF HeapInv, Layout, Apart
    <3>3. /\ Start(free, i) \in Nat /\ End(free, i) \in Nat
          /\ b.at \in Nat /\ EndOf(b) \in Nat
      BY <1>1, HeapFacts
    <3> QED BY <3>1, <3>2, <3>3
  <2>2. A \subseteq 0 .. HEAP - 1 /\ C \subseteq 0 .. HEAP - 1
    <3>1. ASSUME NEW i \in DOMAIN free PROVE RegionBytes[i] \subseteq 0 .. HEAP - 1
      <4>1. /\ Start(free, i) \in Nat /\ End(free, i) \in Nat /\ HEAP \in Nat
            /\ End(free, i) <= HEAP
        BY <1>1, HeapFacts
      <4> QED BY <4>1 DEF RegionBytes
    <3>2. ASSUME NEW b \in held PROVE BlockBytes[b] \subseteq 0 .. HEAP - 1
      <4>1. b.at \in Nat /\ EndOf(b) \in Nat /\ HEAP \in Nat /\ EndOf(b) <= HEAP
        BY <1>1, HeapFacts
      <4> QED BY <4>1 DEF BlockBytes
    <3> QED BY <3>1, <3>2
  <2>3. ASSUME NEW x \in 0 .. HEAP - 1 PROVE x \in A \cup C
    <3>1. CASE InRegion(x)
      BY <1>1, <3>1, HeapFacts DEF InRegion, RegionBytes
    <3>2. CASE InBlock(x)
      BY <1>1, <3>2, HeapFacts DEF InBlock, BlockBytes
    <3> QED BY <1>1, <3>1, <3>2 DEF HeapInv, Layout, Covered
  <2> HIDE DEF A, C
  <2>4. A \cup C = 0 .. HEAP - 1
    BY <2>2, <2>3
  <2>5. /\ IsFiniteSet(A) /\ IsFiniteSet(C)
        /\ Cardinality(A) \in Nat /\ Cardinality(C) \in Nat
    BY <1>1, <2>2, HeapFacts, FS_Subset, FS_CardinalityType
  <2>6. HEAP = Cardinality(A) + Cardinality(C) - 0
    <3>1. Cardinality(A \cup C) = Cardinality(A) + Cardinality(C) - Cardinality(A \cap C)
      BY <2>5, FS_Union
    <3>2. Cardinality(A \cup C) = HEAP
      BY <1>1, <2>4, HeapFacts
    <3> QED BY <2>1, <3>1, <3>2, FS_EmptySet
  <2>7. get_free_memory = Cardinality(A)
    BY <1>1, RegionSum DEF Count, A
  <2>8. MapThenSumSet(LAMBDA b : b.size + node_size, held) = Cardinality(C)
    BY <1>1, BlockSum, Zenon DEF Count, C
  <2>9. Cardinality(A) + Cardinality(C) = HEAP
    BY <2>5, <2>6
  <2> QED BY <2>7, <2>8, <2>9, Zenon DEF Accounted
<1> QED BY <1>1, HeapInvariant, PTL

(* Behind each region but the last there is a block.                       *)
LEMMA BlockBehind ==
  ASSUME HeapInv, NEW i \in 1 .. Len(free) - 1
  PROVE  \E b \in held : b.at = End(free, i)
<1>1. i \in 1 .. Len(free) /\ i + 1 \in 1 .. Len(free) /\ i < i + 1
  BY HeapFacts
<1> DEFINE x == End(free, i)
<1>2. x \in Nat /\ x < Start(free, i + 1) /\ Start(free, i + 1) <= HEAP /\ Start(free, i) <= x
  <2>1. /\ End(free, i) \in Nat /\ Start(free, i) \in Nat /\ free[i].size \in Nat
        /\ End(free, i) = Start(free, i) + free[i].size
    BY <1>1, HeapFacts
  <2>2. /\ Start(free, i + 1) \in Nat /\ End(free, i + 1) <= HEAP /\ HEAP \in Nat
        /\ End(free, i + 1) = Start(free, i + 1) + free[i + 1].size /\ free[i + 1].size \in Nat
    BY <1>1, HeapFacts
  <2>3. End(free, i) < Start(free, i + 1)
    BY <1>1, HeapFacts
  <2> QED BY <2>1, <2>2, <2>3
<1>3. ~InRegion(x)
  <2> SUFFICES ASSUME NEW j \in 1 .. Len(free), Start(free, j) <= x, x < End(free, j)
               PROVE  FALSE
    BY HeapFacts DEF InRegion
  <2>1. CASE j < i
    BY <1>1, <1>2, <2>1, HeapFacts
  <2>2. CASE j = i
    BY <1>2, <2>2
  <2>3. CASE i < j
    BY <1>1, <1>2, <2>3, HeapFacts
  <2> QED BY <2>1, <2>2, <2>3
<1>4. x \in 0 .. HEAP - 1
  BY <1>2, HeapFacts
<1>5. PICK b \in held : b.at <= x /\ x < EndOf(b)
  BY <1>3, <1>4 DEF HeapInv, Layout, Covered, InBlock
<1>6. x <= b.at \/ EndOf(b) <= Start(free, i)
  BY <1>1, HeapFacts DEF HeapInv, Layout, Apart
<1>7. b.at \in Nat /\ EndOf(b) \in Nat /\ Start(free, i) \in Nat
  BY <1>1, HeapFacts
<1> HIDE DEF x
<1>8. b.at = x
  BY <1>2, <1>5, <1>6, <1>7
<1> QED BY <1>8 DEF x

(* A heap without blocks is one region.                                    *)
LEMMA OneRegion ==
  ASSUME HeapInv, held = {}, NEW i \in 1 .. Len(free) PROVE free[i].size >= HEAP
<1>1. ASSUME NEW j \in 1 .. Len(free) - 1 PROVE FALSE
  BY <1>1, BlockBehind
<1>2. i = 1 /\ Len(free) = 1
  <2>1. Len(free) \in Nat /\ 1 \notin 1 .. Len(free) - 1
    BY <1>1, HeapFacts
  <2> QED BY <2>1
<1>3. CASE HEAP = 0
  BY <1>3, HeapFacts
<1>4. CASE HEAP > 0
  <2>1. \A x \in 0 .. HEAP - 1 : InRegion(x)
    BY DEF HeapInv, Layout, Covered, InBlock
  <2>2. \A x \in 0 .. HEAP - 1 : Start(free, 1) <= x /\ x < End(free, 1)
    BY <1>2, <2>1, HeapFacts DEF InRegion
  <2>3. 0 \in 0 .. HEAP - 1 /\ HEAP - 1 \in 0 .. HEAP - 1
    BY <1>4, HeapFacts
  <2>4. Start(free, 1) <= 0 /\ HEAP - 1 < End(free, 1)
    BY <2>2, <2>3
  <2> QED BY <1>2, <2>4, HeapFacts
<1> QED BY <1>3, <1>4, HeapFacts

(* ae_mem.c:57-70: a heap with nothing in use has no fragments, and one    *)
(* with n blocks has at most n + 1.                                        *)
THEOREM FragmentsCorrect == TaskSpec => []Fragments
<1>1. ASSUME HeapInv PROVE Fragments
  <2> DEFINE T == {i \in DOMAIN free : free[i].size < HEAP}
  <2>1. IsFiniteSet(T) /\ Cardinality(T) <= Len(free) /\ Cardinality(T) \in Nat
    <3>1. /\ IsFiniteSet(1 .. Len(free))
          /\ Cardinality(1 .. Len(free)) = IF 1 > Len(free) THEN 0 ELSE Len(free) - 1 + 1
      <4>1. 1 \in Int /\ Len(free) \in Int
        BY <1>1, HeapFacts
      <4> QED BY <4>1, FS_Interval
    <3>2. T \in SUBSET (1 .. Len(free))
      BY <1>1, HeapFacts
    <3> HIDE DEF T
    <3>3. IsFiniteSet(T) /\ Cardinality(T) <= Cardinality(1 .. Len(free))
      BY <3>1, <3>2, FS_Subset
    <3>4. Cardinality(T) \in Nat
      BY <3>3, FS_CardinalityType
    <3> QED BY <1>1, <3>1, <3>3, <3>4, HeapFacts
  <2>2. held = {} => T = {}
    BY <1>1, OneRegion, HeapFacts
  <2> HIDE DEF T
  <2>3. held = {} => Cardinality(T) = 0
    BY <2>2, FS_EmptySet
  <2>4. held # {} => Cardinality(T) <= Cardinality(held) + 1
    <3> DEFINE D == 1 .. Len(free) - 1
               f == [i \in D |-> CHOOSE b \in held : b.at = End(free, i)]
    <3>1. \A i \in D : f[i] \in held /\ f[i].at = End(free, i)
      BY <1>1, BlockBehind
    <3>2. \A i, j \in D : End(free, i) = End(free, j) => i = j
      <4> SUFFICES ASSUME NEW i \in D, NEW j \in D, i < j PROVE End(free, i) < End(free, j)
        <5>1. \A i, j \in D : i = j \/ i < j \/ j < i
          OBVIOUS
        <5>2. \A i \in D : End(free, i) \in Nat
          BY <1>1, HeapFacts
        <5> QED BY <5>1, <5>2
      <4>1. /\ i \in 1 .. Len(free) /\ j \in 1 .. Len(free)
            /\ End(free, i) \in Nat /\ Start(free, j) \in Nat /\ free[j].size \in Nat
            /\ End(free, j) = Start(free, j) + free[j].size
        BY <1>1, HeapFacts
      <4>2. End(free, i) < Start(free, j)
        BY <1>1, <4>1, HeapFacts
      <4> QED BY <4>1, <4>2
    <3>3. f \in [D -> held]
      BY <3>1
    <3> HIDE DEF f
    <3>4. f \in Injection(D, held)
      BY <3>1, <3>2, <3>3 DEF Injection, IsInjective
    <3>5. Cardinality(D) <= Cardinality(held)
      BY <1>1, <3>4, HeldFinite, FS_Injection
    <3>6. Cardinality(D) = IF 1 > Len(free) - 1 THEN 0 ELSE (Len(free) - 1) - 1 + 1
      <4>1. 1 \in Int /\ Len(free) - 1 \in Int
        BY <1>1, HeapFacts
      <4> QED BY <4>1, FS_Interval
    <3>7. Cardinality(held) \in Nat
      BY <1>1, HeldFinite, FS_CardinalityType
    <3> HIDE DEF D
    <3> QED BY <1>1, <2>1, <3>5, <3>6, <3>7, HeapFacts
  <2>5. k_mem_count_extfrag(HEAP) = Cardinality(T)
    BY DEF k_mem_count_extfrag, T
  <2> QED BY <2>3, <2>4, <2>5, <2>1 DEF Fragments
<1> QED BY <1>1, HeapInvariant, PTL
-------------------------------------------------------------------------------
(* Stacks.  A TCB that has one names a block in use that counts as its own;*)
(* a DORMANT one names none.  Since blocks are apart the block is unique,  *)
(* and since it has one owner no two TCBs name the same.                   *)
Owned(t, B) == \E b \in B : Payload(b) = u_stack[t] /\ b.owner = t

StackInv ==
  /\ u_stack \in [Tids -> Int]
  /\ \A t \in Tids : u_stack[t] # NULL => t \in live /\ Owned(t, held)

TaskInv == HeapInv /\ StackInv

LEMMA SameBlock ==
  ASSUME HeapInv, NEW b \in held, NEW c \in held, Payload(b) = Payload(c)
  PROVE  b = c
<1>1. /\ \A x \in held : x.at \in Nat /\ x.size \in Nat /\ EndOf(x) = x.at + 16 + x.size
      /\ b = c \/ EndOf(b) <= c.at \/ EndOf(c) <= b.at
  BY Types DEF HeapInv, Layout, BlocksApart
<1>2. b.at = c.at
  BY <1>1 DEF Payload, node_size
<1> QED BY <1>1, <1>2

LEMMA PayloadNotNull ==
  ASSUME HeapInv, NEW b \in held
  PROVE  Payload(b) \in Int /\ Payload(b) # NULL
<1>1. b.at \in Nat
  BY Types DEF HeapInv
<1> QED BY <1>1 DEF Payload, NULL, node_size

(* The block of a stack, seen from its TCB.                                *)
LEMMA StackFacts ==
  ASSUME TaskInv, NEW t \in Tids, NEW b \in StackOf(t)
  PROVE  b \in held /\ b.owner = t /\ StackOf(t) = {b} /\ u_stack[t] # NULL /\ t \in live
<1>1. b \in held /\ Payload(b) = u_stack[t]
  BY DEF StackOf
<1>2. u_stack[t] # NULL
  BY <1>1, PayloadNotNull DEF TaskInv
<1>3. PICK c \in held : Payload(c) = u_stack[t] /\ c.owner = t
  BY <1>2 DEF TaskInv, StackInv, Owned
<1>4. \A x \in StackOf(t) : x = b
  BY <1>1, SameBlock DEF TaskInv, StackOf
<1>5. b = c
  BY <1>3, <1>4 DEF StackOf
<1> QED BY <1>1, <1>2, <1>3, <1>4, <1>5 DEF TaskInv, StackInv

(* k_tsk_exit finds the stack and is let to release it.                    *)
LEMMA StackIsReleased ==
  ASSUME TaskInv, NEW t \in Tids, NEW b \in StackOf(t)
  PROVE  ~Denied(t, b)
<1>1. b \in held /\ b.owner = t
  BY StackFacts
<1>2. ASSUME NEW i \in 0 .. Len(free), Neighbours(i, b) PROVE ~Inside(i, b)
  BY <1>1, <1>2, Place DEF TaskInv
<1> QED BY <1>1, <1>2 DEF Denied

(* What keeps the stacks: blocks that are no stack may come and go.        *)
LEMMA OthersKeep ==
  ASSUME TaskInv, UNCHANGED <<live, u_stack>>, Stacks \subseteq held'
  PROVE  StackInv'
<1>1. ASSUME NEW t \in Tids, u_stack[t] # NULL PROVE t \in live /\ Owned(t, held')
  <2>1. PICK b \in held : Payload(b) = u_stack[t] /\ b.owner = t
    BY <1>1 DEF TaskInv, StackInv, Owned
  <2>2. t \in live /\ b \in StackOf(t)
    BY <1>1, <2>1 DEF TaskInv, StackInv, StackOf
  <2>3. b \in held'
    BY <2>2 DEF Stacks
  <2> QED BY <2>1, <2>2, <2>3 DEF Owned
<1> QED BY <1>1 DEF TaskInv, StackInv, Owned

LEMMA CreateKeepsStacks ==
  ASSUME TaskInv, NEW t \in Tids, NEW s \in StackSizes, Create(t, s)
  PROVE  StackInv'
<1>1. live' = live \cup {t} /\ t \notin live
  BY DEF Create
<1>2. CASE NoRoom(s) /\ UNCHANGED u_stack
  <2>1. UNCHANGED <<u_stack, held>>
    BY <1>2 DEF NoRoom
  <2> QED BY <1>1, <2>1 DEF TaskInv, StackInv, Owned
<1>3. CASE AllocStack(t, s) /\ \E b \in held' \ held : u_stack' = [u_stack EXCEPT ![t] = Payload(b)]
  <2>1. PICK i \in DOMAIN free : Taken(t, i, real_size(s), t)
    BY <1>3 DEF AllocStack
  <2> DEFINE b == [at |-> free[i].at, size |-> real_size(s), by |-> t, owner |-> t]
  <2>2. held' = held \cup {b}
    BY <2>1 DEF Taken
  <2>3. u_stack' = [u_stack EXCEPT ![t] = Payload(b)] /\ b.owner = t
    BY <1>3, <2>2
  <2>4. Payload(b) \in Int
    <3>1. i \in 1 .. Len(free)
      BY Types DEF TaskInv, HeapInv
    <3>2. Start(free, i) \in Nat
      BY <3>1, ListFacts DEF TaskInv
    <3> QED BY <3>2 DEF Payload, node_size, Start
  <2> HIDE DEF b
  <2>5. u_stack' \in [Tids -> Int]
    BY <2>3, <2>4 DEF TaskInv, StackInv
  <2>6. ASSUME NEW u \in Tids, u_stack'[u] # NULL
        PROVE  u \in live' /\ \E c \in held' : Payload(c) = u_stack'[u] /\ c.owner = u
    <3>1. CASE u = t
      <4>1. u_stack'[u] = Payload(b) /\ b \in held'
        BY <2>2, <2>3, <3>1 DEF TaskInv, StackInv
      <4> QED BY <1>1, <2>3, <3>1, <4>1
    <3>2. CASE u # t
      <4>1. u_stack'[u] = u_stack[u]
        BY <2>3, <3>2 DEF TaskInv, StackInv
      <4> QED BY <1>1, <2>2, <2>6, <4>1 DEF TaskInv, StackInv, Owned
    <3> QED BY <3>1, <3>2
  <2> QED BY <2>5, <2>6 DEF StackInv, Owned
<1> QED BY <1>2, <1>3 DEF Create

(* What an exit releases is the stack of the task, and all of it.          *)
LEMMA ExitReleases ==
  ASSUME TaskInv, NEW t \in Tids, Exit(t)
  PROVE  held' = held \ StackOf(t) /\ (u_stack[t] # NULL => StackOf(t) # {})
<1>1. u_stack[t] # NULL => StackOf(t) # {}
  BY DEF TaskInv, StackInv, Owned, StackOf
<1>2. CASE \E b \in StackOf(t) : Dealloc(t, b) \/ Denied(t, b)
  <2>1. PICK b \in StackOf(t) : Dealloc(t, b) \/ Denied(t, b)
    BY <1>2
  <2>2. held' = held \ {b} /\ StackOf(t) = {b}
    BY <2>1, StackIsReleased, StackFacts DEF Dealloc
  <2> QED BY <1>1, <2>2
<1>3. CASE StackOf(t) = {} /\ UNCHANGED <<free, held, last>>
  BY <1>1, <1>3
<1> QED BY <1>2, <1>3 DEF Exit

LEMMA ExitKeepsStacks ==
  ASSUME TaskInv, NEW t \in Tids, Exit(t)
  PROVE  StackInv'
<1>1. /\ live' = live \ {t}
      /\ u_stack' = [u_stack EXCEPT ![t] = NULL]
      /\ held' = held \ StackOf(t)
  BY ExitReleases DEF Exit
<1>2. u_stack' \in [Tids -> Int]
  BY <1>1 DEF TaskInv, StackInv, NULL
<1>3. ASSUME NEW u \in Tids, u_stack'[u] # NULL
      PROVE  u \in live' /\ \E c \in held' : Payload(c) = u_stack'[u] /\ c.owner = u
  <2>1. u # t /\ u_stack'[u] = u_stack[u]
    BY <1>1, <1>3 DEF TaskInv, StackInv
  <2>2. PICK c \in held : Payload(c) = u_stack[u] /\ c.owner = u
    BY <1>3, <2>1 DEF TaskInv, StackInv, Owned
  <2>3. c \notin StackOf(t)
    BY <2>1, <2>2, StackFacts
  <2> QED BY <1>1, <1>3, <2>1, <2>2, <2>3 DEF TaskInv, StackInv
<1> QED BY <1>2, <1>3 DEF StackInv, Owned

LEMMA UseKeepsStacks ==
  ASSUME TaskInv, NEW t \in Tids, Use(t)
  PROVE  StackInv'
<1>1. Stacks \subseteq held
  BY DEF Stacks, StackOf
<1>2. Stacks \subseteq held'
  <2>1. CASE \E s \in Sizes : Alloc(t, s) \/ NoRoom(s)
    BY <1>1, <2>1 DEF Alloc, Taken, NoRoom
  <2>2. CASE \E b \in held \ Stacks : Dealloc(t, b) \/ Denied(t, b)
    BY <1>1, <2>2 DEF Dealloc, Denied
  <2> QED BY <2>1, <2>2 DEF Use
<1> QED BY <1>2, OthersKeep DEF Use

LEMMA TaskStep == TaskInv /\ [TaskNext]_tvars => TaskInv'
<1> SUFFICES ASSUME TaskInv, [TaskNext]_tvars PROVE TaskInv'
  OBVIOUS
<1>1. HeapInv'
  BY HeapStep DEF TaskInv
<1>2. CASE UNCHANGED tvars
  <2>1. StackInv'
    BY <1>2 DEF tvars, TaskInv, StackInv, Owned
  <2> QED BY <1>1, <2>1 DEF TaskInv
<1>3. CASE TaskNext
  <2>1. StackInv'
    BY <1>3, CreateKeepsStacks, ExitKeepsStacks, UseKeepsStacks DEF TaskNext
  <2> QED BY <1>1, <2>1 DEF TaskInv
<1> QED BY <1>2, <1>3

LEMMA TaskInvariant == TaskSpec => []TaskInv
<1>1. ASSUME TaskInit PROVE TaskInv
  <2>1. HeapInv
    BY <1>1, InitHeap DEF TaskInit
  <2>2. StackInv
    BY <1>1 DEF TaskInit, StackInv, NULL
  <2> QED BY <2>1, <2>2 DEF TaskInv
<1> QED BY <1>1, TaskStep, PTL DEF TaskSpec

(* The stack of a task is a block in use with the task as its owner, and   *)
(* no block is the stack of two tasks: other tasks cannot release it, and  *)
(* the task cannot be kept from doing so when it exits.                    *)
THEOREM OwnStacksCorrect == TaskSpec => []OwnStacks
<1>1. ASSUME TaskInv, live \subseteq Tids PROVE OwnStacks
  <2>1. ASSUME NEW t \in live, u_stack[t] # NULL PROVE \E b \in StackOf(t) : b.owner = t
    BY <1>1, <2>1 DEF TaskInv, StackInv, Owned, StackOf
  <2>2. ASSUME NEW t \in live, NEW u \in live, t # u PROVE StackOf(t) \cap StackOf(u) = {}
    <3>1. ASSUME NEW b \in StackOf(t), b \in StackOf(u) PROVE FALSE
      BY <1>1, <2>2, <3>1, StackFacts
    <3> QED BY <3>1
  <2> QED BY <2>1, <2>2 DEF OwnStacks
<1>2. TaskSpec => [](live \subseteq Tids)
  <2>1. TaskInit => live \subseteq Tids
    BY DEF TaskInit
  <2>2. live \subseteq Tids /\ [TaskNext]_tvars => (live \subseteq Tids)'
    BY DEF TaskNext, Create, Exit, Use, tvars
  <2> QED BY <2>1, <2>2, PTL DEF TaskSpec
<1> QED BY <1>1, <1>2, TaskInvariant, PTL

(* A task that exits gives back exactly its stack: k_mem_dealloc never     *)
(* refuses it there, which k_tsk_exit would not notice.                    *)
THEOREM StackReturnedCorrect == TaskSpec => StackReturned
<1> DEFINE Returned == \A t \in live : t \notin live' =>
             held' = held \ StackOf(t) /\ (u_stack[t] # NULL => StackOf(t) # {})
<1>1. ASSUME TaskInv, [TaskNext]_tvars PROVE Returned
  <2> SUFFICES ASSUME NEW t \in live, t \notin live'
               PROVE  held' = held \ StackOf(t) /\ (u_stack[t] # NULL => StackOf(t) # {})
    OBVIOUS
  <2>1. t \in Tids /\ Exit(t)
    BY <1>1 DEF TaskNext, Create, Exit, Use, tvars
  <2> QED BY <1>1, <2>1, ExitReleases
<1>2. TaskInv /\ [TaskNext]_tvars => [Returned]_tvars
  BY <1>1
<1> QED BY <1>2, TaskInvariant, PTL DEF TaskSpec, StackReturned
-------------------------------------------------------------------------------
(* The heap is an address-ordered first-fit allocator (Allocator).  Where  *)
(* it has room the list has a region: since all bytes are in a region or a *)
(* block and regions are never adjacent, room never spans two regions.     *)
View(b) == [at |-> b.at, size |-> b.size, by |-> b.by]
HeldView == {View(b) : b \in held}

LEMMA HeapTaken ==
  ASSUME HeapInv, NEW x \in Int
  PROVE  x \in Heap!Taken <=> InBlock(x)
<1>1. \A b \in held : b.at \in Nat /\ b.size \in Nat /\ EndOf(b) = b.at + 16 + b.size
  BY Types DEF HeapInv
<1>2. \A b \in held : x \in b.at .. b.at + 16 + b.size - 1 <=> b.at <= x /\ x < EndOf(b)
  BY <1>1
<1>3. Heap!Taken = UNION {c.at .. c.at + 16 + c.size - 1 : c \in HeldView}
  BY Zenon DEF Heap!Taken, Heap!node_size, HeldView, View
<1>4. \A b \in held : View(b).at = b.at /\ View(b).size = b.size
  BY DEF View
<1>5. x \in Heap!Taken <=> \E b \in held : x \in View(b).at .. View(b).at + 16 + View(b).size - 1
  BY <1>3, Zenon DEF HeldView
<1> QED BY <1>2, <1>4, <1>5 DEF InBlock

LEMMA RoomIsRegion ==
  ASSUME HeapInv, NEW a \in Nat, NEW n \in Nat, Heap!Room(a, n)
  PROVE  \E k \in 1 .. Len(free) : Start(free, k) <= a /\ Fits(k, n)
<1>1. a + 16 + n <= HEAP /\ HEAP \in Nat
  BY Types DEF HeapInv, Heap!Room, Heap!node_size
<1>2. ASSUME NEW x \in a .. a + 16 + n - 1 PROVE InRegion(x)
  <2>1. x \in Int /\ x \in 0 .. HEAP - 1 /\ x \notin Heap!Taken
    BY <1>1 DEF Heap!Room, Heap!node_size
  <2> QED BY <2>1, HeapTaken DEF HeapInv, Layout, Covered
<1>3. /\ Len(free) \in Nat /\ DOMAIN free = 1 .. Len(free)
      /\ \A j \in 1 .. Len(free) : /\ Start(free, j) \in Nat /\ free[j].size \in Nat
                                   /\ End(free, j) = Start(free, j) + free[j].size
                                   /\ End(free, j) \in Nat
      /\ \A j, k \in 1 .. Len(free) : j < k => End(free, j) < Start(free, k)
  BY ListFacts, Types DEF HeapInv
<1>4. a \in a .. a + 16 + n - 1
  OBVIOUS
<1>5. PICK k \in 1 .. Len(free) : Start(free, k) <= a /\ a < End(free, k)
  BY <1>2, <1>3, <1>4 DEF InRegion
<1>6. ASSUME End(free, k) < a + 16 + n PROVE FALSE
  <2>1. End(free, k) \in a .. a + 16 + n - 1
    BY <1>3, <1>5, <1>6
  <2>2. PICK m \in 1 .. Len(free) : Start(free, m) <= End(free, k) /\ End(free, k) < End(free, m)
    BY <1>2, <1>3, <2>1 DEF InRegion
  <2>3. m < k \/ m = k \/ k < m
    <3>1. m \in Int /\ k \in Int
      OBVIOUS
    <3> QED BY <3>1
  <2> DEFINE sk == Start(free, k)
             ek == End(free, k)
             sm == Start(free, m)
             em == End(free, m)
  <2>4. sk \in Nat /\ sm \in Nat
    BY <1>3
  <2>5. ek \in Nat /\ em \in Nat
    BY <1>3
  <2>6. sk <= a /\ a < ek /\ sm <= ek /\ ek < em
    BY <1>5, <2>2
  <2>7. (m < k => em < sk) /\ (k < m => ek < sm) /\ (m = k => em = ek)
    BY <1>3, Zenon
  <2> HIDE DEF sk, ek, sm, em
  <2> QED BY <2>3, <2>4, <2>5, <2>6, <2>7
<1>7. free[k].size >= n + 16
  BY <1>3, <1>5, <1>6
<1> QED BY <1>5, <1>7 DEF Fits, node_size

LEMMA NoFitNoRoom ==
  ASSUME HeapInv, NEW a \in Nat, NEW n \in Nat, \A i \in DOMAIN free : ~Fits(i, n)
  PROVE  ~Heap!Room(a, n)
BY RoomIsRegion, Types DEF HeapInv

LEMMA GiveStep ==
  ASSUME HeapInv, NEW t \in Tids, NEW s \in Sizes, NEW i \in DOMAIN free,
         NEW owner \in Owners, FirstFit(i, real_size(s)), Taken(t, i, real_size(s), owner)
  PROVE  Heap!Give(t, real_size(s))
<1> DEFINE n == real_size(s)
           a == Start(free, i)
<1>1. n \in Nat
  BY RealSize, RequestedSizes
<1>2. /\ i \in 1 .. Len(free) /\ Len(free) \in Nat /\ HEAP \in Nat /\ HEAP % 8 = 0
      /\ a \in Nat /\ InEights(a)
      /\ a + 16 + n <= End(free, i) /\ End(free, i) <= HEAP /\ End(free, i) \in Nat
  <2>1. i \in 1 .. Len(free) /\ HEAP \in Nat /\ HEAP % 8 = 0
    BY Types DEF HeapInv
  <2>2. /\ Len(free) \in Nat /\ a \in Nat /\ InEights(a) /\ free[i].size \in Nat
        /\ End(free, i) = a + free[i].size
    BY <2>1, ListFacts
  <2>3. free[i].size >= n + 16 /\ End(free, i) <= HEAP
    BY DEF FirstFit, Fits, node_size, HeapInv, Layout, Within
  <2> QED BY <1>1, <2>1, <2>2, <2>3
<1> HIDE DEF n, a
<1>3. a \in Heap!Addresses
  <2>1. a = 8 * (a \div 8) /\ a \div 8 \in 0 .. HEAP \div 8
    BY <1>1, <1>2 DEF InEights
  <2> QED BY <2>1 DEF Heap!Addresses
<1>4. Heap!Room(a, n)
  <2>1. ASSUME NEW x \in a .. a + 16 + n - 1 PROVE x \notin Heap!Taken
    <3>1. x \in Int /\ a <= x /\ x < End(free, i)
      BY <1>1, <1>2
    <3>2. \A b \in held : End(free, i) <= b.at \/ EndOf(b) <= a
      BY DEF HeapInv, Layout, Apart, a
    <3>3. \A b \in held : b.at \in Nat /\ EndOf(b) \in Nat
      BY Types DEF HeapInv
    <3>4. ~InBlock(x)
      BY <1>2, <3>1, <3>2, <3>3 DEF InBlock
    <3> QED BY <3>1, <3>4, HeapTaken
  <2> QED BY <1>1, <1>2, <2>1 DEF Heap!Room, Heap!node_size
<1>5. ASSUME NEW l \in Heap!Addresses, l < a PROVE ~Heap!Room(l, n)
  <2>1. l \in Nat
    BY <1>2 DEF Heap!Addresses
  <2>2. SUFFICES ASSUME Heap!Room(l, n) PROVE FALSE
    OBVIOUS
  <2>3. PICK k \in 1 .. Len(free) : Start(free, k) <= l /\ Fits(k, n)
    BY <1>1, <2>1, <2>2, RoomIsRegion
  <2>4. ~(k < i)
    BY <1>2, <2>3 DEF FirstFit, n
  <2>5. /\ Start(free, k) \in Nat /\ Start(free, i) <= End(free, i)
        /\ i < k => End(free, i) < Start(free, k)
    BY <1>1, <1>2, ListFacts DEF a
  <2>6. Start(free, k) >= a
    BY <1>2, <2>4, <2>5 DEF a
  <2> QED BY <1>2, <1>5, <2>1, <2>3, <2>5, <2>6
<1>6. HeldView' = HeldView \cup {[at |-> a, size |-> n, by |-> t]} /\ last' = "given"
  <2> DEFINE b == [at |-> free[i].at, size |-> n, by |-> t, owner |-> owner]
  <2>1. held' = held \cup {b} /\ last' = "given"
    BY DEF Taken, n
  <2>2. View(b) = [at |-> a, size |-> n, by |-> t]
    BY DEF View, a, Start
  <2> HIDE DEF b
  <2>3. HeldView' = HeldView \cup {View(b)}
    BY <2>1, Zenon DEF HeldView
  <2> QED BY <2>1, <2>2, <2>3
<1> QED BY <1>3, <1>4, <1>5, <1>6 DEF Heap!Give, HeldView, View, n

LEMMA RefuseStep ==
  ASSUME HeapInv, NEW s \in Sizes, NoRoom(s)
  PROVE  Heap!Refuse(real_size(s))
<1>1. real_size(s) \in Nat
  BY RealSize, RequestedSizes
<1>2. \A a \in Heap!Addresses : a \in Nat
  BY KMemConstants DEF Heap!Addresses
<1>3. \A a \in Heap!Addresses : ~Heap!Room(a, real_size(s))
  BY <1>1, <1>2, NoFitNoRoom DEF NoRoom
<1> QED BY <1>3 DEF Heap!Refuse, NoRoom

LEMMA TakeBackStep ==
  ASSUME HeapInv, NEW t \in Tids, NEW b \in held, Dealloc(t, b)
  PROVE  \E c \in HeldView : Heap!TakeBack(c)
<1>1. \A c \in held : View(c) = View(b) => c = b
  <2>1. \A c \in held : View(c) = View(b) => Payload(c) = Payload(b)
    BY DEF View, Payload
  <2> QED BY <2>1, SameBlock
<1>2. held' = held \ {b} /\ last' = "returned"
  BY DEF Dealloc
<1>3. HeldView' = HeldView \ {View(b)}
  BY <1>1, <1>2 DEF HeldView
<1>4. View(b) \in HeldView
  BY DEF HeldView
<1>5. Heap!TakeBack(View(b))
  BY <1>2, <1>3, Zenon DEF Heap!TakeBack, HeldView, View
<1> QED BY <1>4, <1>5, Zenon

(* real_size, as the code rounds and as the specification does.            *)
LEMMA SameSizes ==
  ASSUME NEW s \in Sizes
  PROVE  real_size(s) \in {Heap!real_size(r) : r \in Sizes}
BY RealSize, RequestedSizes DEF Heap!real_size

LEMMA AllocatorStep ==
  ASSUME StackSizes \subseteq Sizes, HeapInv, [TaskNext]_tvars
  PROVE  Heap!Next \/ UNCHANGED <<HeldView, last>>
<1>1. ASSUME NEW t \in Tids, NEW s \in Sizes, Alloc(t, s) \/ AllocStack(t, s)
      PROVE  Heap!Next
  <2>1. t \in Owners
    BY DEF Owners
  <2>2. PICK i \in DOMAIN free, owner \in Owners :
          FirstFit(i, real_size(s)) /\ Taken(t, i, real_size(s), owner)
    BY <1>1, <2>1 DEF Alloc, AllocStack
  <2> QED BY <2>2, GiveStep, SameSizes DEF Heap!Next
<1>2. ASSUME NEW t \in Tids, NEW s \in Sizes, NoRoom(s) PROVE Heap!Next
  BY <1>2, RefuseStep, SameSizes DEF Heap!Next
<1>3. ASSUME NEW t \in Tids, NEW b \in held, Dealloc(t, b) PROVE Heap!Next
  BY <1>3, TakeBackStep DEF Heap!Next, HeldView, View
<1>4. ASSUME NEW t, NEW b, Denied(t, b) PROVE Heap!Next
  BY <1>4 DEF Denied, Heap!Next, Heap!Deny
<1>5. CASE UNCHANGED tvars
  BY <1>5 DEF tvars, HeldView
<1>6. CASE TaskNext
  <2>1. PICK t \in Tids : (\E s \in StackSizes : Create(t, s)) \/ Exit(t) \/ Use(t)
    BY <1>6 DEF TaskNext
  <2>2. CASE \E s \in StackSizes : Create(t, s)
    BY <1>1, <1>2, <2>2 DEF Create
  <2>3. CASE Exit(t)
    BY <1>3, <1>4, <2>3 DEF Exit, StackOf, HeldView
  <2>4. CASE Use(t)
    BY <1>1, <1>2, <1>3, <1>4, <2>4 DEF Use
  <2> QED BY <2>1, <2>2, <2>3, <2>4
<1> QED BY <1>5, <1>6

(* First fit on the list of regions is first fit on the heap: a block is   *)
(* given at the lowest address where memory nobody holds has room for it,  *)
(* and a request is refused only if there is room nowhere.                 *)
THEOREM AllocatorCorrect ==
  ASSUME StackSizes \subseteq Sizes
  PROVE  TaskSpec => FirstFitAllocator
<1>1. ASSUME TaskInit PROVE Heap!Init
  BY <1>1 DEF TaskInit, Init, Heap!Init
<1>2. HeapInv /\ [TaskNext]_tvars => [Heap!Next]_<<HeldView, last>>
  BY AllocatorStep
<1> QED BY <1>1, <1>2, HeapInvariant, PTL
       DEF TaskSpec, FirstFitAllocator, Heap!Spec, HeldView, View
===============================================================================
