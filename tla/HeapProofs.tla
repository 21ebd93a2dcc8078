------------------------------ MODULE HeapProofs ------------------------------
(***************************************************************************)
(* The binary heap of k_task.c, for queues of every length and every       *)
(* record of keys: what max_heapify, the upward loop, enqueue and dequeue  *)
(* return.  The loops are functions that are recursive (see Loop); what    *)
(* holds when one ends follows from an invariant and a measure             *)
(* (LoopInvariant).                                                        *)
(***************************************************************************)
EXTENDS Heap, Functions, SequenceFacts, FiniteSetTheorems, TLAPS

(* A set of natural numbers has a least element.                           *)
LEMMA Least ==
  ASSUME NEW S \in SUBSET Nat, NEW n \in S
  PROVE  \E m \in S : \A i \in S : m <= i
<1> DEFINE R == StrictSubsetOrdering(Nat)
           F == FiniteSubsetsOf(Nat)
           T == {0 .. i : i \in S}
<1>1. IsWellFoundedOn(R, F)
  BY FS_StrictSubsetOrderingWellFounded
<1>2. \A i, j \in Nat : i < j => <<0 .. i, 0 .. j>> \in R
  <2> SUFFICES ASSUME NEW i \in Nat, NEW j \in Nat, i < j PROVE <<0 .. i, 0 .. j>> \in R
    OBVIOUS
  <2> DEFINE a == 0 .. i
             b == 0 .. j
  <2>1. a \in SUBSET Nat /\ b \in SUBSET Nat /\ a \subseteq b /\ a # b
    <3>1. j \in b /\ j \notin a
      OBVIOUS
    <3> QED BY <3>1
  <2> HIDE DEF a, b
  <2> QED BY <2>1 DEF StrictSubsetOrdering
<1>3. T \subseteq F /\ T # {}
  <2>1. ASSUME NEW i \in S PROVE 0 .. i \in F
    <3>1. IsFiniteSet(0 .. i) /\ 0 .. i \subseteq Nat
      BY FS_Interval
    <3> QED BY <3>1 DEF FiniteSubsetsOf
  <2>2. 0 .. n \in T
    OBVIOUS
  <2> HIDE DEF F
  <2> QED BY <2>1, <2>2
<1> HIDE DEF R, F
<1>4. \E x \in T : \A y \in T : ~ (<<y, x>> \in R)
  <2> HIDE DEF T
  <2> QED BY <1>1, <1>3, WFMin
<1>5. PICK m \in S : \A y \in T : ~ (<<y, 0 .. m>> \in R)
  BY <1>4
<1>6. ASSUME NEW i \in S, i < m PROVE FALSE
  <2>1. 0 .. i \in T /\ <<0 .. i, 0 .. m>> \in R
    BY <1>2, <1>6
  <2> QED BY <1>5, <2>1
<1> QED BY <1>6

(* The states that rounds reach from s.                                    *)
Reached(round, s) ==
  {u \in DOMAIN round :
     \A C \in SUBSET DOMAIN round : s \in C /\ (\A v \in C : round[v] \in C) => u \in C}

(* What is reached from x is x, and what is reached from the next state.   *)
LEMMA ReachedFacts ==
  ASSUME NEW A, NEW F \in [A -> A], NEW x \in A
  PROVE  /\ F[x] = x => Reached(F, x) = {x}
         /\ Reached(F, x) = {x} \cup Reached(F, F[x])
<1> DEFINE O(u) == Reached(F, u)
<1>0. F[x] \in A /\ DOMAIN F = A
  OBVIOUS
<1>1. \A u \in A : u \in O(u)
  BY DEF Reached
<1>2. \A u \in A : \A z \in O(u) : F[z] \in O(u)
  BY DEF Reached
<1>3. ASSUME NEW u \in A, NEW C \in SUBSET A, u \in C, \A z \in C : F[z] \in C
      PROVE  O(u) \subseteq C
  BY <1>3 DEF Reached
<1>4. \A u \in A : O(u) \in SUBSET A
  BY DEF Reached
<1> HIDE DEF O
<1>5. O(x) \subseteq {x} \cup O(F[x])
  <2> DEFINE C == {x} \cup O(F[x])
  <2>1. C \in SUBSET A /\ x \in C
    BY <1>0, <1>4
  <2>2. \A z \in C : F[z] \in C
    BY <1>0, <1>1, <1>2
  <2> HIDE DEF C
  <2>3. O(x) \subseteq C
    BY <1>3, <2>1, <2>2
  <2> QED BY <2>3 DEF C
<1>6. O(F[x]) \subseteq O(x)
  BY <1>0, <1>1, <1>2, <1>3, <1>4
<1>7. x \in O(x)
  BY <1>1
<1>8. F[x] = x => O(x) \subseteq {x}
  <2>1. F[x] = x => \A z \in {x} : F[z] \in {x}
    OBVIOUS
  <2> QED BY <1>3, <2>1
<1> QED BY <1>5, <1>6, <1>7, <1>8 DEF O

(* A function that satisfies the recursive definition exists: the state    *)
(* without a successor among those that are reached, if there is one.      *)
LEMMA LoopUnfolds ==
  ASSUME NEW A, NEW F \in [A -> A]
  PROVE  \A s \in A : Loop(F, s) = IF F[s] = s THEN s ELSE Loop(F, F[s])
<1> DEFINE P(g) == g = [u \in DOMAIN F |-> IF F[u] = u THEN u ELSE g[F[u]]]
           Ends(x) == {y \in Reached(F, x) : F[y] = y}
           G == [x \in A |-> CHOOSE y : y \in Ends(x)]
<1>1. ASSUME NEW x \in A PROVE G[x] = IF F[x] = x THEN x ELSE G[F[x]]
  <2>1. CASE F[x] = x
    <3>1. Ends(x) = {x}
      BY <2>1, ReachedFacts
    <3> HIDE DEF Ends
    <3> QED BY <2>1, <3>1
  <2>2. CASE F[x] # x
    <3>1. Ends(x) = Ends(F[x])
      BY <2>2, ReachedFacts
    <3> HIDE DEF Ends
    <3> QED BY <2>2, <3>1
  <2> QED BY <2>1, <2>2
<1>2. P(G)
  <2>1. DOMAIN F = A /\ DOMAIN G = A
    OBVIOUS
  <2> HIDE DEF G
  <2>2. G = [x \in A |-> G[x]]
    BY <2>1 DEF G
  <2>3. [x \in A |-> G[x]] = [u \in A |-> IF F[u] = u THEN u ELSE G[F[u]]]
    BY <1>1
  <2> QED BY <2>1, <2>2, <2>3
<1> DEFINE H == CHOOSE g : P(g)
<1>3. \A s : Loop(F, s) = H[s]
  BY Zenon DEF Loop
<1> HIDE DEF P
<1>4. P(H)
  BY <1>2, Zenon
<1> HIDE DEF H
<1>5. \A s \in A : H[s] = IF F[s] = s THEN s ELSE H[F[s]]
  BY <1>4 DEF P
<1> QED BY <1>3, <1>5

(* A loop with a measure that decreases ends, and keeps its invariant.     *)
LEMMA LoopInvariant ==
  ASSUME NEW A, NEW F \in [A -> A],
         NEW I \in SUBSET A, \A s \in I : F[s] \in I,
         NEW M \in [A -> Nat], \A s \in I : F[s] # s => M[F[s]] < M[s],
         NEW x \in I
  PROVE  Loop(F, x) \in I /\ F[Loop(F, x)] = Loop(F, x)
<1> DEFINE Good(s) == Loop(F, s) \in I /\ F[Loop(F, s)] = Loop(F, s)
           Bad == {s \in I : ~Good(s)}
           S == {M[s] : s \in Bad}
<1> SUFFICES ASSUME Bad # {} PROVE FALSE
  OBVIOUS
<1>1. S \in SUBSET Nat /\ S # {}
  OBVIOUS
<1>2. PICK m \in S : \A i \in S : m <= i
  <2> HIDE DEF S
  <2> QED BY <1>1, Least
<1>3. PICK s \in Bad : M[s] = m
  OBVIOUS
<1>4. Loop(F, s) = IF F[s] = s THEN s ELSE Loop(F, F[s])
  BY LoopUnfolds
<1>5. F[s] # s
  BY <1>3, <1>4
<1>6. F[s] \in Bad
  BY <1>3, <1>4, <1>5
<1>7. M[F[s]] \in S /\ M[F[s]] < M[s]
  BY <1>3, <1>5, <1>6
<1> QED BY <1>2, <1>3, <1>7

-------------------------------------------------------------------------------
(* The arithmetic of positions.                                            *)
LEMMA ParentFacts ==
  ASSUME NEW i \in Nat \ {0}
  PROVE  /\ parent(i) \in Nat /\ parent(i) < i
         /\ i = left_child(parent(i)) \/ i = right_child(parent(i))
BY DEF parent, left_child, right_child

LEMMA ChildFacts ==
  ASSUME NEW i \in Nat
  PROVE  /\ left_child(i) \in Nat \ {0} /\ left_child(i) > i /\ parent(left_child(i)) = i
         /\ right_child(i) \in Nat \ {0} /\ right_child(i) > i /\ parent(right_child(i)) = i
BY DEF parent, left_child, right_child

(* The tasks of T have keys that can be compared.                          *)
Keyed(keys, T) == \A t \in T : keys.prio[t] \in Int /\ keys.degree[t] \in Int

(* compare is a strict order in which keys that are equal are level.       *)
LEMMA CompareFacts ==
  ASSUME NEW keys, NEW T, Keyed(keys, T), NEW a \in T, NEW b \in T, NEW c \in T
  PROVE  /\ ~compare(keys, a, a)
         /\ compare(keys, a, b) => ~compare(keys, b, a)
         /\ compare(keys, a, b) /\ compare(keys, b, c) => compare(keys, a, c)
         /\ ~compare(keys, b, a) /\ ~compare(keys, c, b) => ~compare(keys, c, a)
<1>1. /\ keys.prio[a] \in Int /\ keys.prio[b] \in Int /\ keys.prio[c] \in Int
      /\ keys.degree[a] \in Int /\ keys.degree[b] \in Int /\ keys.degree[c] \in Int
  BY DEF Keyed
<1> QED BY <1>1 DEF compare

Once(q) == \A i, j \in 1 .. Len(q) : q[i] = q[j] => i = j

(* r holds what q holds.                                                   *)
SameTasks(r, q) == Len(r) = Len(q) /\ Range(r) = Range(q) /\ (Once(q) => Once(r))

(* Positions from 0, as in the code.                                       *)
LEMMA PqFacts ==
  ASSUME NEW S, NEW q \in Seq(S)
  PROVE  /\ Len(q) \in Nat
         /\ \A i \in 0 .. Len(q) - 1 : Pq(q, i) \in S /\ Pq(q, i) \in Range(q)
         /\ \A t \in Range(q) : \E i \in 0 .. Len(q) - 1 : Pq(q, i) = t
         /\ Once(q) <=> \A i, j \in 0 .. Len(q) - 1 : Pq(q, i) = Pq(q, j) => i = j
<1> DEFINE n == Len(q)
<1>1. n \in Nat /\ DOMAIN q = 1 .. n /\ \A i \in 1 .. n : q[i] \in S
  BY LenProperties, ElementOfSeq
<1> HIDE DEF n
<1>2. \A i \in 0 .. n - 1 : i + 1 \in 1 .. n
  BY <1>1
<1>3. \A i \in 1 .. n : i - 1 \in 0 .. n - 1 /\ Pq(q, i - 1) = q[i]
  BY <1>1 DEF Pq
<1>4. \A i \in 0 .. n - 1 : Pq(q, i) \in S /\ Pq(q, i) \in Range(q)
  BY <1>1, <1>2 DEF Pq, Range
<1>5. \A t \in Range(q) : \E i \in 0 .. n - 1 : Pq(q, i) = t
  BY <1>1, <1>3 DEF Range
<1>6. Once(q) => \A i, j \in 0 .. n - 1 : Pq(q, i) = Pq(q, j) => i = j
  BY <1>1, <1>2 DEF Once, Pq, n
<1>7. (\A i, j \in 0 .. n - 1 : Pq(q, i) = Pq(q, j) => i = j) => Once(q)
  <2> SUFFICES ASSUME \A i, j \in 0 .. n - 1 : Pq(q, i) = Pq(q, j) => i = j,
                      NEW i \in 1 .. n, NEW j \in 1 .. n, q[i] = q[j]
               PROVE  i = j
    BY DEF Once, n
  <2>1. i - 1 = j - 1
    BY <1>3
  <2> QED BY <1>1, <2>1
<1> QED BY <1>1, <1>4, <1>5, <1>6, <1>7 DEF n

(* r is q with the tasks at i and j exchanged.                             *)
Swapped(r, q, i, j) ==
  /\ Len(r) = Len(q)
  /\ Pq(r, i) = Pq(q, j) /\ Pq(r, j) = Pq(q, i)
  /\ \A m \in 0 .. Len(q) - 1 : m # i /\ m # j => Pq(r, m) = Pq(q, m)

(* A swap keeps the tasks.                                                 *)
LEMMA SwapFacts ==
  ASSUME NEW S, NEW q \in Seq(S), NEW i \in 0 .. Len(q) - 1, NEW j \in 0 .. Len(q) - 1
  PROVE  LET r == swap(q, i, j)
         IN  r \in Seq(S) /\ SameTasks(r, q) /\ Swapped(r, q, i, j)
<1> DEFINE n == Len(q)
           r == swap(q, i, j)
<1>1. n \in Nat /\ DOMAIN q = 1 .. n /\ \A m \in 1 .. n : q[m] \in S
  BY LenProperties, ElementOfSeq
<1>2. i + 1 \in 1 .. n /\ j + 1 \in 1 .. n
  BY <1>1
<1>3. r = [m \in 1 .. n |-> IF m = j + 1 THEN q[i + 1] ELSE IF m = i + 1 THEN q[j + 1] ELSE q[m]]
  BY <1>1, <1>2 DEF swap, Pq
<1> HIDE DEF n
<1>4. r \in Seq(S) /\ Len(r) = n /\ DOMAIN r = 1 .. n
  BY <1>1, <1>2, <1>3
<1> HIDE DEF r
<1>5. /\ Pq(r, i) = Pq(q, j) /\ Pq(r, j) = Pq(q, i)
      /\ \A m \in 0 .. n - 1 : m # i /\ m # j => Pq(r, m) = Pq(q, m)
  BY <1>1, <1>2, <1>3 DEF Pq
<1>6. Range(r) = Range(q)
  <2>1. \A m \in 1 .. n : r[m] \in Range(q)
    BY <1>1, <1>2, <1>3 DEF Range
  <2>2. \A m \in 1 .. n : q[m] \in Range(r)
    <3> TAKE m \in 1 .. n
    <3>1. CASE m = i + 1
      BY <1>2, <1>3, <1>4, <3>1 DEF Range
    <3>2. CASE m = j + 1
      BY <1>2, <1>3, <1>4, <3>2 DEF Range
    <3>3. CASE m # i + 1 /\ m # j + 1
      BY <1>2, <1>3, <1>4, <3>3 DEF Range
    <3> QED BY <3>1, <3>2, <3>3
  <2> QED BY <1>1, <1>4, <2>1, <2>2 DEF Range
<1>7. Once(q) => Once(r)
  BY <1>1, <1>2, <1>3, <1>4 DEF Once, n
<1> QED BY <1>4, <1>5, <1>6, <1>7 DEF n, r, SameTasks, Swapped

-------------------------------------------------------------------------------
(* largest is the position or a child of it ...                            *)
LEMMA LargestFacts ==
  ASSUME NEW keys, NEW q, NEW i \in Nat, Len(q) \in Nat
  PROVE  LET l == largest(keys, q, i)
         IN  /\ l \in {i, left_child(i), right_child(i)}
             /\ l # i => l \in Nat \ {0} /\ i < l /\ l < Len(q) /\ parent(l) = i
<1>1. /\ left_child(i) \in Nat \ {0} /\ left_child(i) > i /\ parent(left_child(i)) = i
      /\ right_child(i) \in Nat \ {0} /\ right_child(i) > i /\ parent(right_child(i)) = i
  BY ChildFacts
<1> QED BY <1>1 DEF largest

(* ... whose task runs before none of the others.                          *)
LEMMA LargestIsFirst ==
  ASSUME NEW S, NEW q \in Seq(S), NEW i \in 0 .. Len(q) - 1, NEW keys, Keyed(keys, S)
  PROVE  LET l == largest(keys, q, i)
         IN  /\ l # i => compare(keys, Pq(q, l), Pq(q, i))
             /\ ~compare(keys, Pq(q, i), Pq(q, l))
             /\ \A c \in {left_child(i), right_child(i)} :
                  c < Len(q) => ~compare(keys, Pq(q, c), Pq(q, l))
<1> DEFINE a == left_child(i)
           b == right_child(i)
           n == Len(q)
           Lt(x, y) == compare(keys, Pq(q, x), Pq(q, y))
           l == largest(keys, q, i)
<1>1. n \in Nat /\ i \in Nat /\ a \in Nat /\ b \in Nat
  BY LenProperties DEF left_child, right_child
<1>2. \A x \in 0 .. n - 1 : Pq(q, x) \in S
  BY PqFacts
<1>3. \A x, y, z \in 0 .. n - 1 :
        /\ ~Lt(x, x)
        /\ Lt(x, y) => ~Lt(y, x)
        /\ Lt(x, y) /\ Lt(y, z) => Lt(x, z)
        /\ ~Lt(y, x) /\ ~Lt(z, y) => ~Lt(z, x)
  BY <1>2, CompareFacts, Zenon
<1>4. l = LET m == IF a < n /\ Lt(a, i) THEN a ELSE i
          IN  IF b < n /\ Lt(b, m) THEN b ELSE m
  BY Zenon DEF largest
<1>5. /\ a < n => a \in 0 .. n - 1
      /\ b < n => b \in 0 .. n - 1
  BY <1>1
<1> HIDE DEF a, b, n, Lt, l
<1>6. /\ l # i => Lt(l, i)
      /\ ~Lt(i, l)
      /\ \A c \in {a, b} : c < n => ~Lt(c, l)
  BY <1>3, <1>4, <1>5 DEF n
<1> QED BY <1>6, Zenon DEF a, b, n, Lt, l

-------------------------------------------------------------------------------
(* The heap property, but for the task at position i, which may have to go *)
(* down, or up.                                                            *)
SiftsDown(keys, q, i) ==
  \A j \in 1 .. Len(q) - 1 :
    IF parent(j) # i THEN ~compare(keys, Pq(q, j), Pq(q, parent(j)))
    ELSE i # 0 => ~compare(keys, Pq(q, j), Pq(q, parent(i)))

SiftsUp(keys, q, i) ==
  \A j \in 1 .. Len(q) - 1 :
    /\ j # i => ~compare(keys, Pq(q, j), Pq(q, parent(j)))
    /\ parent(j) = i /\ i # 0 => ~compare(keys, Pq(q, j), Pq(q, parent(i)))

(* One round of max_heapify keeps the heap property, but for the position  *)
(* that it goes on at.                                                     *)
LEMMA DownStep ==
  ASSUME NEW S, NEW q \in Seq(S), NEW keys, Keyed(keys, S), NEW i \in Nat,
         SiftsDown(keys, q, i), largest(keys, q, i) # i
  PROVE  SiftsDown(keys, swap(q, i, largest(keys, q, i)), largest(keys, q, i))
<1> DEFINE n == Len(q)
           l == largest(keys, q, i)
           r == swap(q, i, l)
           Gt(x, y) == compare(keys, y, x)
<1>1. n \in Nat
  BY LenProperties
<1>2. l \in Nat \ {0} /\ i < l /\ l < n /\ parent(l) = i
      /\ l \in {left_child(i), right_child(i)}
  BY <1>1, LargestFacts
<1>3. i \in 0 .. n - 1 /\ l \in 0 .. n - 1
  BY <1>1, <1>2
<1>4. /\ compare(keys, Pq(q, l), Pq(q, i))
      /\ ~compare(keys, Pq(q, i), Pq(q, l))
      /\ \A c \in {left_child(i), right_child(i)} :
           c < n => ~compare(keys, Pq(q, c), Pq(q, l))
  BY <1>3, LargestIsFirst
<1>5. /\ Len(r) = n /\ Pq(r, i) = Pq(q, l) /\ Pq(r, l) = Pq(q, i)
      /\ \A m \in 0 .. n - 1 : m # i /\ m # l => Pq(r, m) = Pq(q, m)
  BY <1>1, <1>3, SwapFacts DEF Swapped
<1> SUFFICES ASSUME NEW j \in 1 .. n - 1
             PROVE  IF parent(j) # l THEN ~compare(keys, Pq(r, j), Pq(r, parent(j)))
                    ELSE l # 0 => ~compare(keys, Pq(r, j), Pq(r, parent(l)))
  BY <1>5 DEF SiftsDown
<1>6. /\ parent(j) \in Nat /\ parent(j) < j /\ parent(j) \in 0 .. n - 1 /\ j \in 0 .. n - 1
      /\ j = left_child(parent(j)) \/ j = right_child(parent(j))
  BY <1>1, ParentFacts
<1>7. IF parent(j) # i THEN ~compare(keys, Pq(q, j), Pq(q, parent(j)))
      ELSE i # 0 => ~compare(keys, Pq(q, j), Pq(q, parent(i)))
  BY DEF SiftsDown
<1> HIDE DEF r, l, n
<1>8. CASE j = i
  <2>1. parent(i) # i /\ parent(i) # l /\ i # 0
    BY <1>2, <1>6, <1>8
  <2>2. ~compare(keys, Pq(q, l), Pq(q, parent(i)))
    <3>1. l \in 1 .. n - 1
      BY <1>1, <1>2
    <3> QED BY <1>2, <2>1, <3>1 DEF SiftsDown, n
  <2> QED BY <1>5, <1>6, <1>8, <2>1, <2>2
<1>9. CASE j = l
  BY <1>2, <1>4, <1>5, <1>9
<1>10. CASE j # i /\ j # l
  <2>1. Pq(r, j) = Pq(q, j)
    BY <1>5, <1>6, <1>10
  <2>2. CASE parent(j) = i
    <3>1. ~compare(keys, Pq(q, j), Pq(q, l))
      BY <1>1, <1>4, <1>6, <2>2
    <3> QED BY <1>2, <1>5, <2>1, <2>2, <3>1
  <2>3. CASE parent(j) = l
    BY <1>2, <1>5, <1>7, <2>1, <2>3
  <2>4. CASE parent(j) # i /\ parent(j) # l
    BY <1>5, <1>6, <1>7, <2>1, <2>4
  <2> QED BY <2>2, <2>3, <2>4
<1> QED BY <1>8, <1>9, <1>10

(* One round of the upward loop keeps the heap property, but for the       *)
(* position that it goes on at.                                            *)
LEMMA UpStep ==
  ASSUME NEW S, NEW q \in Seq(S), NEW keys, Keyed(keys, S), NEW i \in 0 .. Len(q) - 1,
         SiftsUp(keys, q, i), Misplaced(keys, q, i)
  PROVE  SiftsUp(keys, swap(q, parent(i), i), parent(i))
<1> DEFINE n == Len(q)
           p == parent(i)
           r == swap(q, p, i)
<1>1. n \in Nat
  BY LenProperties
<1>2. i \in 1 .. n - 1 /\ i # 0 /\ compare(keys, Pq(q, i), Pq(q, p))
  BY <1>1 DEF Misplaced
<1>3. p \in 0 .. n - 1 /\ p < i /\ p \in Nat /\ p # i
  BY <1>1, <1>2, ParentFacts
<1>4. /\ Len(r) = n /\ Pq(r, p) = Pq(q, i) /\ Pq(r, i) = Pq(q, p)
      /\ \A m \in 0 .. n - 1 : m # p /\ m # i => Pq(r, m) = Pq(q, m)
  <2>1. Swapped(r, q, p, i)
    BY <1>3, SwapFacts
  <2> QED BY <2>1 DEF Swapped
<1>5. \A m \in 1 .. n - 1 :
        /\ m # i => ~compare(keys, Pq(q, m), Pq(q, parent(m)))
        /\ parent(m) = i => ~compare(keys, Pq(q, m), Pq(q, p))
  BY <1>2 DEF SiftsUp
<1>6. \A m \in 0 .. n - 1 : Pq(q, m) \in S
  BY PqFacts
<1>7. \A x, y, z \in 0 .. n - 1 :
        /\ compare(keys, Pq(q, x), Pq(q, y)) => ~compare(keys, Pq(q, y), Pq(q, x))
        /\ ~compare(keys, Pq(q, y), Pq(q, x)) /\ ~compare(keys, Pq(q, z), Pq(q, y))
             => ~compare(keys, Pq(q, z), Pq(q, x))
  BY <1>6, CompareFacts, Zenon
<1> SUFFICES ASSUME NEW j \in 1 .. n - 1
             PROVE  /\ j # p => ~compare(keys, Pq(r, j), Pq(r, parent(j)))
                    /\ parent(j) = p /\ p # 0 => ~compare(keys, Pq(r, j), Pq(r, parent(p)))
  BY <1>4 DEF SiftsUp
<1>8. parent(j) \in Nat /\ parent(j) < j /\ parent(j) \in 0 .. n - 1 /\ j \in 0 .. n - 1 /\ j # 0
  BY <1>1, ParentFacts
<1>9. i \in 0 .. n - 1
  OBVIOUS
<1> HIDE DEF r, p, n
<1>10. j # p => ~compare(keys, Pq(r, j), Pq(r, parent(j)))
  <2> SUFFICES ASSUME j # p PROVE ~compare(keys, Pq(r, j), Pq(r, parent(j)))
    OBVIOUS
  <2>1. CASE j = i
    BY <1>2, <1>3, <1>4, <1>7, <1>9, <2>1 DEF p
  <2>2. CASE j # i /\ parent(j) = i
    BY <1>3, <1>4, <1>5, <1>8, <2>2
  <2>3. CASE j # i /\ parent(j) = p
    <3>1. ~compare(keys, Pq(q, j), Pq(q, p)) /\ ~compare(keys, Pq(q, p), Pq(q, i))
      BY <1>2, <1>3, <1>5, <1>7, <1>9, <2>3
    <3>2. ~compare(keys, Pq(q, j), Pq(q, i))
      BY <1>3, <1>7, <1>8, <1>9, <3>1
    <3> QED BY <1>3, <1>4, <1>8, <2>3, <3>2
  <2>4. CASE j # i /\ parent(j) # i /\ parent(j) # p
    BY <1>3, <1>4, <1>5, <1>8, <2>4
  <2> QED BY <2>1, <2>2, <2>3, <2>4
<1>11. ASSUME parent(j) = p, p # 0 PROVE ~compare(keys, Pq(r, j), Pq(r, parent(p)))
  <2> DEFINE g == parent(p)
  <2>1. g \in 0 .. n - 1 /\ g # p /\ g # i /\ p \in 1 .. n - 1
    BY <1>1, <1>3, <1>11, ParentFacts
  <2>2. ~compare(keys, Pq(q, p), Pq(q, g)) /\ Pq(r, g) = Pq(q, g)
    BY <1>3, <1>4, <1>5, <2>1
  <2>3. CASE j = i
    BY <1>4, <2>2, <2>3
  <2>4. CASE j # i
    <3>1. ~compare(keys, Pq(q, j), Pq(q, p)) /\ Pq(r, j) = Pq(q, j)
      BY <1>4, <1>5, <1>8, <1>11, <2>4
    <3>2. ~compare(keys, Pq(q, j), Pq(q, g))
      BY <1>3, <1>7, <1>8, <2>1, <2>2, <3>1
    <3> QED BY <2>2, <3>1, <3>2
  <2> QED BY <2>3, <2>4
<1> QED BY <1>10, <1>11

-------------------------------------------------------------------------------
(* SameTasks is an equivalence.                                            *)
LEMMA SameTasksTransitive ==
  ASSUME NEW p, NEW q, NEW r, SameTasks(q, p), SameTasks(r, q)
  PROVE  SameTasks(r, p)
BY Zenon DEF SameTasks

LEMMA SameTasksReflexive == ASSUME NEW q PROVE SameTasks(q, q)
BY DEF SameTasks

(* Sequences over a subset.                                                *)
LEMMA SeqOfSubset == ASSUME NEW T, NEW S \in SUBSET T PROVE Seq(S) \subseteq Seq(T)
<1> SUFFICES ASSUME NEW u \in Seq(S) PROVE u \in Seq(T)
  OBVIOUS
<1> QED BY SeqDef, \A n \in Nat : [1 .. n -> S] \subseteq [1 .. n -> T]

(* max_heapify keeps the tasks of the queue, each once, and makes a heap   *)
(* of one that is a heap but for the task at i, which may have to go down  *)
(* (k_task.c:175-196).                                                     *)
THEOREM HeapifyFacts ==
  ASSUME NEW S \in SUBSET Int, NEW q \in Seq(S), NEW keys, NEW i \in Nat
  PROVE  LET r == max_heapify(keys, q, i)
         IN  /\ r \in Seq(S)
             /\ SameTasks(r, q)
             /\ Keyed(keys, S) /\ SiftsDown(keys, q, i) => IsHeap(keys, r)
<1> DEFINE A == [q : Seq(Int), i : Nat]
           step(s) == LET l == largest(keys, s.q, s.i)
                      IN  IF l = s.i THEN s ELSE [q |-> swap(s.q, s.i, l), i |-> l]
           F == [s \in A |-> step(s)]
           sifts == Keyed(keys, S) /\ SiftsDown(keys, q, i)
           I == {s \in A : /\ s.q \in Seq(S)
                           /\ SameTasks(s.q, q)
                           /\ sifts => SiftsDown(keys, s.q, s.i)}
           M == [s \in A |-> IF s.i < Len(s.q) THEN Len(s.q) - s.i ELSE 0]
           s0 == [q |-> q, i |-> i]
           end == Loop(F, s0)
<1>1. max_heapify(keys, q, i) = end.q
  BY Zenon DEF max_heapify
<1>2. ASSUME NEW T \in SUBSET Int, NEW u \in Seq(T), NEW j \in Nat, largest(keys, u, j) # j
      PROVE  LET l == largest(keys, u, j)
             IN  /\ l \in Nat /\ j < l /\ l < Len(u) /\ Len(u) \in Nat
                 /\ swap(u, j, l) \in Seq(T)
                 /\ SameTasks(swap(u, j, l), u)
  <2> DEFINE l == largest(keys, u, j)
  <2>1. Len(u) \in Nat
    BY LenProperties
  <2>2. l \in Nat /\ j < l /\ l < Len(u)
    BY <1>2, <2>1, LargestFacts
  <2>3. l \in 0 .. Len(u) - 1 /\ j \in 0 .. Len(u) - 1
    BY <2>1, <2>2
  <2> HIDE DEF l
  <2>4. swap(u, j, l) \in Seq(T) /\ SameTasks(swap(u, j, l), u)
    BY <2>3, SwapFacts
  <2> QED BY <2>1, <2>2, <2>4 DEF l
<1>3. F \in [A -> A]
  <2> SUFFICES ASSUME NEW s \in A PROVE step(s) \in A
    BY Zenon
  <2>1. s.q \in Seq(Int) /\ s.i \in Nat
    OBVIOUS
  <2>2. CASE largest(keys, s.q, s.i) = s.i
    BY <2>2
  <2>3. CASE largest(keys, s.q, s.i) # s.i
    BY <1>2, <2>1, <2>3
  <2> QED BY <2>2, <2>3
<1>4. Seq(S) \subseteq Seq(Int)
  BY SeqOfSubset
<1>5. \A s \in I : F[s] \in I
  <2> SUFFICES ASSUME NEW s \in I PROVE step(s) \in I
    OBVIOUS
  <2> DEFINE l == largest(keys, s.q, s.i)
  <2>1. s.q \in Seq(S) /\ s.i \in Nat /\ SameTasks(s.q, q)
        /\ (sifts => SiftsDown(keys, s.q, s.i))
    OBVIOUS
  <2>2. CASE l = s.i
    BY <2>2
  <2>3. CASE l # s.i
    <3> DEFINE r == swap(s.q, s.i, l)
    <3>1. l \in Nat /\ r \in Seq(S) /\ SameTasks(r, s.q)
      BY <1>2, <2>1, <2>3
    <3>2. SameTasks(r, q)
      BY <2>1, <3>1, SameTasksTransitive
    <3>3. sifts => SiftsDown(keys, r, l)
      BY <2>1, <2>3, DownStep
    <3>4. step(s) = [q |-> r, i |-> l]
      BY <2>3
    <3> HIDE DEF r, l, step, sifts
    <3> QED BY <1>4, <3>1, <3>2, <3>3, <3>4
  <2> QED BY <2>2, <2>3
<1>6. M \in [A -> Nat]
  <2> SUFFICES ASSUME NEW s \in A PROVE (IF s.i < Len(s.q) THEN Len(s.q) - s.i ELSE 0) \in Nat
    OBVIOUS
  <2>1. Len(s.q) \in Nat /\ s.i \in Nat
    BY LenProperties
  <2> QED BY <2>1
<1>7. \A s \in I : F[s] # s => M[F[s]] < M[s]
  <2> SUFFICES ASSUME NEW s \in I, F[s] # s PROVE M[F[s]] < M[s]
    OBVIOUS
  <2> DEFINE l == largest(keys, s.q, s.i)
             r == swap(s.q, s.i, l)
  <2>1. l # s.i /\ F[s] = [q |-> r, i |-> l]
    OBVIOUS
  <2>2. s.q \in Seq(S) /\ s.i \in Nat
    OBVIOUS
  <2>3. l \in Nat /\ s.i < l /\ l < Len(s.q) /\ Len(s.q) \in Nat
        /\ r \in Seq(S) /\ SameTasks(r, s.q)
    BY <1>2, <2>1, <2>2
  <2>4. Len(r) = Len(s.q)
    BY <2>3 DEF SameTasks
  <2>5. M[F[s]] = Len(s.q) - l /\ M[s] = Len(s.q) - s.i
    <3> HIDE DEF l, r, F
    <3>1. [q |-> r, i |-> l] \in A
      BY <1>4, <2>3
    <3> QED BY <2>1, <2>2, <2>3, <2>4, <3>1
  <2> HIDE DEF l, r, F, M
  <2> QED BY <2>2, <2>3, <2>5
<1>8. s0 \in I
  <2>1. SameTasks(q, q)
    BY SameTasksReflexive
  <2> QED BY <1>4, <2>1
<1>9. end \in I /\ F[end] = end
  <2>1. I \in SUBSET A
    OBVIOUS
  <2> HIDE DEF A, F, M, I, s0
  <2> QED BY <1>3, <1>5, <1>6, <1>7, <1>8, <2>1, LoopInvariant
<1> HIDE DEF end
<1>10. end.q \in Seq(S) /\ SameTasks(end.q, q) /\ end.i \in Nat
       /\ (sifts => SiftsDown(keys, end.q, end.i))
  BY <1>9
<1>11. largest(keys, end.q, end.i) = end.i
  <2> SUFFICES ASSUME largest(keys, end.q, end.i) # end.i PROVE FALSE
    OBVIOUS
  <2>1. end.i < largest(keys, end.q, end.i) /\ largest(keys, end.q, end.i) \in Nat
    BY <1>2, <1>10
  <2>2. step(end) = [q |-> swap(end.q, end.i, largest(keys, end.q, end.i)),
                     i |-> largest(keys, end.q, end.i)]
    OBVIOUS
  <2>3. step(end) = end
    BY <1>9
  <2> QED BY <1>10, <2>1, <2>2, <2>3
<1>12. ASSUME sifts PROVE IsHeap(keys, end.q)
  <2> DEFINE u == end.q
             m == end.i
             n == Len(u)
  <2>1. SiftsDown(keys, u, m) /\ Keyed(keys, S) /\ u \in Seq(S) /\ m \in Nat /\ n \in Nat
    BY <1>10, <1>12, LenProperties
  <2> SUFFICES ASSUME NEW j \in 1 .. n - 1
               PROVE  ~compare(keys, Pq(u, j), Pq(u, parent(j)))
    BY DEF IsHeap
  <2>2. largest(keys, u, m) = m
    BY <1>11
  <2> HIDE DEF u, m
  <2>3. CASE parent(j) = m
    <3>1. /\ j \in {left_child(m), right_child(m)}
          /\ m \in 0 .. n - 1 /\ j < n
      BY <2>1, <2>3, ParentFacts
    <3>2. ~compare(keys, Pq(u, j), Pq(u, m))
      BY <2>1, <2>2, <3>1, LargestIsFirst
    <3> QED BY <2>3, <3>2
  <2>4. CASE parent(j) # m
    BY <2>1, <2>4 DEF SiftsDown
  <2> QED BY <2>3, <2>4
<1> QED BY <1>1, <1>10, <1>12

(* The upward loop does the same for a task that may have to go up         *)
(* (k_task.c:203-206, 723-726).                                            *)
THEOREM SiftUpFacts ==
  ASSUME NEW S \in SUBSET Int, NEW q \in Seq(S), NEW keys, NEW i \in 0 .. Len(q) - 1
  PROVE  LET r == sift_up(keys, q, i)
         IN  /\ r \in Seq(S)
             /\ SameTasks(r, q)
             /\ Keyed(keys, S) /\ SiftsUp(keys, q, i) => IsHeap(keys, r)
<1> DEFINE A == {u \in [q : Seq(Int), i : Nat] : u.i < Len(u.q)}
           step(s) == IF Misplaced(keys, s.q, s.i)
                      THEN [q |-> swap(s.q, parent(s.i), s.i), i |-> parent(s.i)] ELSE s
           F == [s \in A |-> step(s)]
           sifts == Keyed(keys, S) /\ SiftsUp(keys, q, i)
           I == {s \in A : /\ s.q \in Seq(S)
                           /\ SameTasks(s.q, q)
                           /\ sifts => SiftsUp(keys, s.q, s.i)}
           M == [s \in A |-> s.i]
           s0 == [q |-> q, i |-> i]
           end == Loop(F, s0)
<1>1. sift_up(keys, q, i) = end.q
  BY Zenon DEF sift_up
<1>2. ASSUME NEW T \in SUBSET Int, NEW u \in Seq(T), NEW j \in Nat, j < Len(u),
             Misplaced(keys, u, j)
      PROVE  LET p == parent(j)
             IN  /\ p \in Nat /\ p < j
                 /\ swap(u, p, j) \in Seq(T) /\ p < Len(swap(u, p, j))
                 /\ SameTasks(swap(u, p, j), u)
  <2> DEFINE p == parent(j)
  <2>1. Len(u) \in Nat
    BY LenProperties
  <2>2. p \in Nat /\ p < j
    BY <1>2, ParentFacts DEF Misplaced
  <2>3. p \in 0 .. Len(u) - 1 /\ j \in 0 .. Len(u) - 1
    BY <1>2, <2>1, <2>2
  <2> HIDE DEF p
  <2>4. swap(u, p, j) \in Seq(T) /\ SameTasks(swap(u, p, j), u) /\ Len(swap(u, p, j)) = Len(u)
    BY <2>3, SwapFacts DEF Swapped
  <2> QED BY <2>1, <2>2, <2>3, <2>4 DEF p
<1>3. F \in [A -> A]
  <2> SUFFICES ASSUME NEW s \in A PROVE step(s) \in A
    BY Zenon
  <2>1. s.q \in Seq(Int) /\ s.i \in Nat /\ s.i < Len(s.q)
    OBVIOUS
  <2>2. CASE ~Misplaced(keys, s.q, s.i)
    BY <2>2
  <2>3. CASE Misplaced(keys, s.q, s.i)
    BY <1>2, <2>1, <2>3
  <2> QED BY <2>2, <2>3
<1>4. Seq(S) \subseteq Seq(Int)
  BY SeqOfSubset
<1>5. \A s \in I : F[s] \in I
  <2> SUFFICES ASSUME NEW s \in I PROVE step(s) \in I
    OBVIOUS
  <2> DEFINE p == parent(s.i)
  <2>1. s.q \in Seq(S) /\ s.i \in Nat /\ s.i < Len(s.q) /\ SameTasks(s.q, q)
        /\ (sifts => SiftsUp(keys, s.q, s.i))
    OBVIOUS
  <2>2. CASE ~Misplaced(keys, s.q, s.i)
    BY <2>2
  <2>3. CASE Misplaced(keys, s.q, s.i)
    <3> DEFINE r == swap(s.q, p, s.i)
    <3>1. p \in Nat /\ r \in Seq(S) /\ SameTasks(r, s.q) /\ p < Len(r)
      BY <1>2, <2>1, <2>3
    <3>2. SameTasks(r, q)
      BY <2>1, <3>1, SameTasksTransitive
    <3>3. sifts => SiftsUp(keys, r, p)
      <4>1. s.i \in 0 .. Len(s.q) - 1
        BY <2>1, LenProperties
      <4> QED BY <2>1, <2>3, <4>1, UpStep
    <3>4. step(s) = [q |-> r, i |-> p]
      BY <2>3
    <3> HIDE DEF r, p, step, sifts
    <3> QED BY <1>4, <3>1, <3>2, <3>3, <3>4
  <2> QED BY <2>2, <2>3
<1>6. M \in [A -> Nat]
  OBVIOUS
<1>7. \A s \in I : F[s] # s => M[F[s]] < M[s]
  <2> SUFFICES ASSUME NEW s \in I, F[s] # s PROVE M[F[s]] < M[s]
    OBVIOUS
  <2> DEFINE p == parent(s.i)
             r == swap(s.q, p, s.i)
  <2>1. Misplaced(keys, s.q, s.i) /\ F[s] = [q |-> r, i |-> p]
    OBVIOUS
  <2>2. s.q \in Seq(S) /\ s.i \in Nat /\ s.i < Len(s.q)
    OBVIOUS
  <2>3. p < s.i
    BY <1>2, <2>1, <2>2
  <2>4. F[s] \in A /\ s \in A
    BY <1>3
  <2> QED BY <2>1, <2>3, <2>4
<1>8. s0 \in I
  <2>1. SameTasks(q, q)
    BY SameTasksReflexive
  <2>2. i \in Nat /\ i < Len(q)
    BY LenProperties
  <2> QED BY <1>4, <2>1, <2>2
<1>9. end \in I /\ F[end] = end
  <2>1. I \in SUBSET A
    OBVIOUS
  <2> HIDE DEF A, F, M, I, s0
  <2> QED BY <1>3, <1>5, <1>6, <1>7, <1>8, <2>1, LoopInvariant
<1> HIDE DEF end
<1>10. end.q \in Seq(S) /\ SameTasks(end.q, q) /\ end.i \in Nat /\ end.i < Len(end.q)
       /\ (sifts => SiftsUp(keys, end.q, end.i))
  BY <1>9
<1>11. ~Misplaced(keys, end.q, end.i)
  <2> SUFFICES ASSUME Misplaced(keys, end.q, end.i) PROVE FALSE
    OBVIOUS
  <2>1. parent(end.i) < end.i /\ parent(end.i) \in Nat
    BY <1>2, <1>10
  <2>2. step(end) = [q |-> swap(end.q, parent(end.i), end.i), i |-> parent(end.i)]
    OBVIOUS
  <2>3. step(end) = end
    BY <1>9
  <2> QED BY <1>10, <2>1, <2>2, <2>3
<1>12. ASSUME sifts PROVE IsHeap(keys, end.q)
  <2> DEFINE u == end.q
             m == end.i
             n == Len(u)
  <2>1. SiftsUp(keys, u, m) /\ ~Misplaced(keys, u, m) /\ n \in Nat
    BY <1>10, <1>11, <1>12, LenProperties
  <2> SUFFICES ASSUME NEW j \in 1 .. n - 1
               PROVE  ~compare(keys, Pq(u, j), Pq(u, parent(j)))
    BY DEF IsHeap
  <2> HIDE DEF u, m
  <2>2. CASE j = m
    BY <2>1, <2>2 DEF Misplaced
  <2>3. CASE j # m
    BY <2>1, <2>3 DEF SiftsUp
  <2> QED BY <2>2, <2>3
<1> QED BY <1>1, <1>10, <1>12

(* No task of a heap runs before its root, which scheduler() takes         *)
(* (k_task.c:264-275).                                                     *)
THEOREM RootFirst ==
  ASSUME NEW S, NEW q \in Seq(S), NEW keys, Keyed(keys, S), IsHeap(keys, q)
  PROVE  \A i \in 0 .. Len(q) - 1 : ~compare(keys, Pq(q, i), Pq(q, 0))
<1> DEFINE n == Len(q)
           Bad == {i \in 0 .. n - 1 : compare(keys, Pq(q, i), Pq(q, 0))}
<1> SUFFICES ASSUME NEW b \in Bad PROVE FALSE
  OBVIOUS
<1>1. n \in Nat
  BY LenProperties
<1>2. PICK m \in Bad : \A i \in Bad : m <= i
  <2>1. Bad \in SUBSET Nat
    BY <1>1
  <2> HIDE DEF Bad
  <2> QED BY <2>1, Least
<1>3. m \in 0 .. n - 1 /\ 0 \in 0 .. n - 1 /\ compare(keys, Pq(q, m), Pq(q, 0))
  BY <1>1
<1>4. \A x \in 0 .. n - 1 : Pq(q, x) \in S
  BY PqFacts
<1>5. m \in 1 .. n - 1
  BY <1>1, <1>3, <1>4, CompareFacts
<1>6. ~compare(keys, Pq(q, m), Pq(q, parent(m)))
  BY <1>5 DEF IsHeap
<1>7. parent(m) \in 0 .. n - 1 /\ parent(m) < m
  BY <1>1, <1>5, ParentFacts
<1>8. compare(keys, Pq(q, parent(m)), Pq(q, 0))
  BY <1>3, <1>4, <1>6, <1>7, CompareFacts
<1>9. parent(m) \in Bad
  BY <1>7, <1>8
<1> HIDE DEF Bad
<1> QED BY <1>2, <1>3, <1>7, <1>9

-------------------------------------------------------------------------------
(* A heap stays one under keys that order its tasks alike.                 *)
LEMMA HeapKeys ==
  ASSUME NEW S, NEW q \in Seq(S), NEW old, NEW new, IsHeap(old, q),
         \A a, b \in Range(q) : compare(new, a, b) => compare(old, a, b)
  PROVE  IsHeap(new, q)
<1>1. Len(q) \in Nat /\ \A i \in 0 .. Len(q) - 1 : Pq(q, i) \in Range(q)
  BY PqFacts
<1>2. \A j \in 1 .. Len(q) - 1 : parent(j) \in 0 .. Len(q) - 1 /\ j \in 0 .. Len(q) - 1
  BY <1>1, ParentFacts
<1> QED BY <1>1, <1>2 DEF IsHeap

(* A heap is one but for its root.                                         *)
LEMMA HeapSiftsDown ==
  ASSUME NEW keys, NEW q, IsHeap(keys, q)
  PROVE  SiftsDown(keys, q, 0)
BY DEF IsHeap, SiftsDown

(* The task at position i has got another key.                             *)
LEMMA KeyChanges ==
  ASSUME NEW S, NEW q \in Seq(S), Once(q), NEW old, NEW new, Keyed(old, S), IsHeap(old, q),
         NEW i \in 0 .. Len(q) - 1,
         \A a, b \in Range(q) \ {Pq(q, i)} : compare(new, a, b) <=> compare(old, a, b)
  PROVE  /\ (\A u \in Range(q) \ {Pq(q, i)} : compare(new, Pq(q, i), u) => compare(old, Pq(q, i), u))
              => SiftsDown(new, q, i)
         /\ (\A u \in Range(q) \ {Pq(q, i)} : ~compare(new, u, Pq(q, i)))
              => SiftsUp(new, q, i)
<1> DEFINE n == Len(q)
           t == Pq(q, i)
<1>1. /\ n \in Nat
      /\ \A x \in 0 .. n - 1 : Pq(q, x) \in Range(q) /\ Pq(q, x) \in S
      /\ \A x \in 0 .. n - 1 : x # i => Pq(q, x) # t
  BY PqFacts
<1>2. \A j \in 1 .. n - 1 : parent(j) \in 0 .. n - 1 /\ parent(j) < j /\ j \in 0 .. n - 1
  BY <1>1, ParentFacts
<1>3. \A j \in 1 .. n - 1 : ~compare(old, Pq(q, j), Pq(q, parent(j)))
  BY DEF IsHeap
<1>4. \A x, y \in 0 .. n - 1 :
        x # i /\ y # i => (compare(new, Pq(q, x), Pq(q, y)) <=> compare(old, Pq(q, x), Pq(q, y)))
  BY <1>1
<1>5. ASSUME NEW j \in 1 .. n - 1, parent(j) = i, i # 0
      PROVE  ~compare(new, Pq(q, j), Pq(q, parent(i)))
  <2>1. i \in 1 .. n - 1
    BY <1>1, <1>5
  <2>2. ~compare(old, t, Pq(q, parent(i))) /\ ~compare(old, Pq(q, j), t)
    BY <1>3, <1>5, <2>1
  <2>3. ~compare(old, Pq(q, j), Pq(q, parent(i)))
    BY <1>1, <1>2, <2>1, <2>2, CompareFacts
  <2> QED BY <1>2, <1>4, <1>5, <2>1, <2>3
<1>6. ASSUME \A u \in Range(q) \ {t} : compare(new, t, u) => compare(old, t, u)
      PROVE  SiftsDown(new, q, i)
  <2> SUFFICES ASSUME NEW j \in 1 .. n - 1, parent(j) # i
               PROVE  ~compare(new, Pq(q, j), Pq(q, parent(j)))
    BY <1>5 DEF SiftsDown
  <2> QED BY <1>1, <1>2, <1>3, <1>4, <1>6
<1>7. ASSUME \A u \in Range(q) \ {t} : ~compare(new, u, t)
      PROVE  SiftsUp(new, q, i)
  <2> SUFFICES ASSUME NEW j \in 1 .. n - 1, j # i
               PROVE  ~compare(new, Pq(q, j), Pq(q, parent(j)))
    BY <1>5 DEF SiftsUp
  <2>1. CASE parent(j) = i
    BY <1>1, <1>2, <1>7, <2>1
  <2>2. CASE parent(j) # i
    BY <1>2, <1>3, <1>4, <2>2
  <2> QED BY <2>1, <2>2
<1> QED BY <1>6, <1>7

(* enqueue adds the task, once, and keeps the heap (k_task.c:198-209).     *)
THEOREM EnqueueFacts ==
  ASSUME NEW S \in SUBSET Int, NEW q \in Seq(S), NEW keys, NEW t \in S
  PROVE  LET r == enqueue(keys, q, t)
         IN  /\ r \in Seq(S)
             /\ Len(r) = Len(q) + 1
             /\ Range(r) = Range(q) \cup {t}
             /\ Once(q) /\ t \notin Range(q) => Once(r)
             /\ Keyed(keys, S) /\ IsHeap(keys, q) => IsHeap(keys, r)
<1> DEFINE n == Len(q)
           p == Append(q, t)
           r == sift_up(keys, p, n)
<1>1. n \in Nat /\ DOMAIN q = 1 .. n /\ \A i \in 1 .. n : q[i] \in S
  BY LenProperties, ElementOfSeq
<1>2. /\ p \in Seq(S) /\ Len(p) = n + 1 /\ DOMAIN p = 1 .. n + 1
      /\ p[n + 1] = t /\ \A i \in 1 .. n : p[i] = q[i]
  BY <1>1, AppendProperties
<1> HIDE DEF n, p
<1>3. n \in 0 .. Len(p) - 1
  BY <1>1, <1>2
<1>4. /\ r \in Seq(S)
      /\ SameTasks(r, p)
      /\ Keyed(keys, S) /\ SiftsUp(keys, p, n) => IsHeap(keys, r)
  BY <1>2, <1>3, SiftUpFacts
<1>5. Range(p) = Range(q) \cup {t}
  <2>1. \A i \in 1 .. n + 1 : i = n + 1 \/ i \in 1 .. n
    BY <1>1
  <2>2. \A i \in 1 .. n : i \in 1 .. n + 1
    BY <1>1
  <2>3. n + 1 \in 1 .. n + 1
    BY <1>1
  <2> QED BY <1>1, <1>2, <2>1, <2>2, <2>3 DEF Range
<1>6. ASSUME Once(q), t \notin Range(q) PROVE Once(p)
  <2>1. \A i \in 1 .. n : q[i] # t
    BY <1>1, <1>6 DEF Range
  <2>2. \A i, j \in 1 .. n : q[i] = q[j] => i = j
    BY <1>6 DEF Once, n
  <2> SUFFICES ASSUME NEW i \in 1 .. n + 1, NEW j \in 1 .. n + 1, p[i] = p[j] PROVE i = j
    BY <1>2 DEF Once
  <2>3. (i \in 1 .. n \/ i = n + 1) /\ (j \in 1 .. n \/ j = n + 1)
    BY <1>1
  <2> QED BY <1>2, <2>1, <2>2, <2>3
<1>7. ASSUME IsHeap(keys, q) PROVE SiftsUp(keys, p, n)
  <2> SUFFICES ASSUME NEW j \in 1 .. Len(p) - 1
               PROVE  /\ j # n => ~compare(keys, Pq(p, j), Pq(p, parent(j)))
                      /\ parent(j) = n /\ n # 0 => ~compare(keys, Pq(p, j), Pq(p, parent(n)))
    BY DEF SiftsUp
  <2>1. j \in 1 .. n /\ parent(j) \in Nat /\ parent(j) < j
    BY <1>1, <1>2, ParentFacts
  <2>2. \A x \in 0 .. n - 1 : Pq(p, x) = Pq(q, x)
    <3>1. \A x \in 0 .. n - 1 : x + 1 \in 1 .. n
      BY <1>1
    <3> QED BY <1>2, <3>1 DEF Pq
  <2>3. j # n => ~compare(keys, Pq(q, j), Pq(q, parent(j)))
    <3>1. \A x \in 1 .. n - 1 : ~compare(keys, Pq(q, x), Pq(q, parent(x)))
      BY <1>7 DEF IsHeap, n
    <3>2. j # n => j \in 1 .. n - 1
      BY <1>1, <2>1
    <3> QED BY <3>1, <3>2
  <2>4. j # n => j \in 0 .. n - 1 /\ parent(j) \in 0 .. n - 1
    BY <1>1, <2>1
  <2>5. parent(j) # n
    BY <1>1, <2>1
  <2> QED BY <2>2, <2>3, <2>4, <2>5
<1>8. Len(r) = n + 1 /\ Range(r) = Range(p) /\ (Once(p) => Once(r))
  BY <1>2, <1>4 DEF SameTasks
<1> HIDE DEF r
<1>9. enqueue(keys, q, t) = r
  BY Zenon DEF enqueue, r, p, n
<1> QED BY <1>4, <1>5, <1>6, <1>7, <1>8, <1>9 DEF n

(* dequeue removes the root and no other task, and keeps the heap          *)
(* (k_task.c:211-224).                                                     *)
THEOREM DequeueFacts ==
  ASSUME NEW S \in SUBSET Int, NEW q \in Seq(S), NEW keys, Len(q) > 1
  PROVE  LET r == dequeue(keys, q)
         IN  /\ r \in Seq(S)
             /\ Len(r) = Len(q) - 1
             /\ Once(q) => Once(r) /\ Range(r) = Range(q) \ {Pq(q, 0)}
             /\ Keyed(keys, S) /\ IsHeap(keys, q) => IsHeap(keys, r)
<1> DEFINE n == Len(q)
           u == SubSeq(q, 1, n - 1)
           p == [u EXCEPT ![1] = q[n]]
           r == max_heapify(keys, p, 0)
<1>1. n \in Nat /\ n > 1 /\ DOMAIN q = 1 .. n /\ \A i \in 1 .. n : q[i] \in S
  BY LenProperties, ElementOfSeq
<1>2. n - 1 \in 0 .. Len(q)
  BY <1>1
<1>3. u \in Seq(S) /\ Len(u) = n - 1 /\ \A i \in 1 .. n - 1 : u[i] = q[i]
  <2> HIDE DEF n
  <2> QED BY <1>2, PrefixFacts
<1>4. DOMAIN u = 1 .. n - 1
  BY <1>3, LenProperties
<1> HIDE DEF u
<1> HIDE DEF n
<1>5. p = [i \in 1 .. n - 1 |-> IF i = 1 THEN q[n] ELSE q[i]]
  BY <1>1, <1>3, <1>4
<1> HIDE DEF p
<1>6. p \in Seq(S) /\ Len(p) = n - 1 /\ DOMAIN p = 1 .. n - 1
  <2>1. \A i \in 1 .. n - 1 : p[i] \in S
    BY <1>1, <1>5
  <2> QED BY <1>1, <1>5, <2>1
<1>7. /\ r \in Seq(S)
      /\ SameTasks(r, p)
      /\ Keyed(keys, S) /\ SiftsDown(keys, p, 0) => IsHeap(keys, r)
  BY <1>6, HeapifyFacts
<1>8. dequeue(keys, q) = r
  <2>1. Len(q) # 1
    BY <1>1 DEF n
  <2> QED BY <2>1, Zenon DEF dequeue, r, p, u, n
<1>9. Len(r) = n - 1 /\ Range(r) = Range(p) /\ (Once(p) => Once(r))
  BY <1>6, <1>7 DEF SameTasks
<1> HIDE DEF r
<1>10. ASSUME Once(q) PROVE Once(p) /\ Range(p) = Range(q) \ {Pq(q, 0)}
  <2>1. \A i, j \in 1 .. n : q[i] = q[j] => i = j
    BY <1>10 DEF Once, n
  <2>2. Once(p)
    BY <1>1, <1>5, <1>6, <2>1 DEF Once
  <2>3. Pq(q, 0) = q[1]
    BY DEF Pq
  <2>4. \A i \in 1 .. n - 1 : p[i] \in Range(q) /\ p[i] # q[1]
    BY <1>1, <1>5, <2>1 DEF Range
  <2>5. \A i \in 2 .. n : q[i] \in Range(p)
    <3> TAKE i \in 2 .. n
    <3>1. CASE i = n
      <4>1. 1 \in 1 .. n - 1 /\ p[1] = q[n]
        BY <1>1, <1>5
      <4> QED BY <1>6, <3>1, <4>1 DEF Range
    <3>2. CASE i # n
      <4>1. i \in 1 .. n - 1 /\ p[i] = q[i]
        BY <1>1, <1>5, <3>2
      <4> QED BY <1>6, <4>1 DEF Range
    <3> QED BY <3>1, <3>2
  <2>6. \A i \in 1 .. n : i # 1 => i \in 2 .. n
    BY <1>1
  <2> QED BY <1>1, <1>6, <2>2, <2>3, <2>4, <2>5, <2>6 DEF Range
<1>11. ASSUME IsHeap(keys, q) PROVE SiftsDown(keys, p, 0)
  <2> SUFFICES ASSUME NEW j \in 1 .. Len(p) - 1, parent(j) # 0
               PROVE  ~compare(keys, Pq(p, j), Pq(p, parent(j)))
    BY DEF SiftsDown
  <2>1. j \in 1 .. n - 2 /\ parent(j) \in Nat /\ parent(j) < j
    BY <1>1, <1>6, ParentFacts
  <2>2. \A x \in 1 .. n - 2 : Pq(p, x) = Pq(q, x)
    <3>1. \A x \in 1 .. n - 2 : x + 1 \in 1 .. n - 1 /\ x + 1 # 1
      BY <1>1
    <3> QED BY <1>5, <3>1 DEF Pq
  <2>3. ~compare(keys, Pq(q, j), Pq(q, parent(j)))
    BY <1>1, <1>11, <2>1 DEF IsHeap, n
  <2>4. parent(j) \in 1 .. n - 2
    BY <1>1, <2>1
  <2> QED BY <2>1, <2>2, <2>3, <2>4
<1> QED BY <1>7, <1>8, <1>9, <1>10, <1>11 DEF n

-------------------------------------------------------------------------------
(* s lists the tasks of Q in the order of their keys.                      *)
Lists(s, Q, keys) ==
  /\ s \in Seq(Q) /\ Range(s) = Q
  /\ \A i, j \in 1 .. Len(s) : i < j => compare(keys, s[i], s[j])

(* Two such lists agree as far as both go ...                              *)
LEMMA ListsAgree ==
  ASSUME NEW Q, NEW keys, Keyed(keys, Q), NEW s, Lists(s, Q, keys), NEW r, Lists(r, Q, keys)
  PROVE  \A i \in 1 .. Len(s) : i \in 1 .. Len(r) => s[i] = r[i]
<1>1. /\ Len(s) \in Nat /\ Len(r) \in Nat
      /\ DOMAIN s = 1 .. Len(s) /\ DOMAIN r = 1 .. Len(r)
      /\ \A i \in 1 .. Len(s) : s[i] \in Q /\ \E j \in 1 .. Len(r) : r[j] = s[i]
      /\ \A i \in 1 .. Len(r) : r[i] \in Q /\ \E j \in 1 .. Len(s) : s[j] = r[i]
  <2>1. s \in Seq(Q) /\ r \in Seq(Q) /\ Range(s) = Q /\ Range(r) = Q
    BY DEF Lists
  <2>2. /\ Len(s) \in Nat /\ Len(r) \in Nat
        /\ DOMAIN s = 1 .. Len(s) /\ DOMAIN r = 1 .. Len(r)
    BY <2>1, LenProperties
  <2> QED BY <2>1, <2>2 DEF Range
<1>2. /\ \A i, j \in 1 .. Len(s) : i < j => compare(keys, s[i], s[j])
      /\ \A i, j \in 1 .. Len(r) : i < j => compare(keys, r[i], r[j])
  BY DEF Lists
<1>3. \A a, b \in Q : ~(compare(keys, a, b) /\ compare(keys, b, a))
  BY CompareFacts
<1> DEFINE Bad == {i \in 1 .. Len(s) : i \in 1 .. Len(r) /\ s[i] # r[i]}
<1> SUFFICES ASSUME NEW b \in Bad PROVE FALSE
  OBVIOUS
<1>4. PICK m \in Bad : \A i \in Bad : m <= i
  <2>1. Bad \in SUBSET Nat
    BY <1>1
  <2> HIDE DEF Bad
  <2> QED BY <2>1, Least
<1>5. /\ m \in 1 .. Len(s) /\ m \in 1 .. Len(r) /\ s[m] # r[m]
      /\ \A i \in 1 .. m - 1 : s[i] = r[i]
  BY <1>1, <1>4
<1>6. PICK i \in 1 .. Len(r) : r[i] = s[m]
  BY <1>1, <1>5
<1>7. PICK j \in 1 .. Len(s) : s[j] = r[m]
  BY <1>1, <1>5
<1>8. m < i
  <2>1. CASE i < m
    <3>1. s[i] = s[m] /\ compare(keys, s[i], s[m]) /\ s[m] \in Q
      BY <1>1, <1>2, <1>5, <1>6, <2>1
    <3> QED BY <1>3, <3>1
  <2> QED BY <1>1, <1>5, <1>6, <2>1
<1>9. m < j
  <2>1. CASE j < m
    <3>1. r[j] = r[m] /\ compare(keys, r[j], r[m]) /\ r[m] \in Q
      BY <1>1, <1>2, <1>5, <1>7, <2>1
    <3> QED BY <1>3, <3>1
  <2> QED BY <1>1, <1>5, <1>7, <2>1
<1> QED BY <1>1, <1>2, <1>3, <1>5, <1>6, <1>7, <1>8, <1>9

(* ... and none is longer.                                                 *)
LEMMA ListNoLonger ==
  ASSUME NEW Q, NEW keys, Keyed(keys, Q), NEW s, Lists(s, Q, keys), NEW r, Lists(r, Q, keys)
  PROVE  Len(s) <= Len(r)
<1>1. /\ Len(s) \in Nat /\ Len(r) \in Nat
      /\ \A i \in 1 .. Len(s) : s[i] \in Q /\ \E j \in 1 .. Len(r) : r[j] = s[i]
  <2>1. s \in Seq(Q) /\ r \in Seq(Q) /\ Range(s) = Q /\ Range(r) = Q
    BY DEF Lists
  <2>2. /\ Len(s) \in Nat /\ Len(r) \in Nat
        /\ DOMAIN s = 1 .. Len(s) /\ DOMAIN r = 1 .. Len(r)
    BY <2>1, LenProperties
  <2> QED BY <2>1, <2>2 DEF Range
<1> SUFFICES ASSUME Len(r) < Len(s) PROVE FALSE
  BY <1>1
<1>2. Len(r) + 1 \in 1 .. Len(s)
  BY <1>1
<1>3. PICK j \in 1 .. Len(r) : r[j] = s[Len(r) + 1]
  BY <1>1, <1>2
<1>4. j \in 1 .. Len(s) /\ j < Len(r) + 1
  BY <1>1
<1>5. s[j] = r[j]
  BY <1>4, ListsAgree
<1>6. compare(keys, s[j], s[Len(r) + 1]) /\ s[j] \in Q
  BY <1>1, <1>2, <1>4 DEF Lists
<1> QED BY <1>3, <1>5, <1>6, CompareFacts

(* There is one way to list them.                                          *)
LEMMA ListUnique ==
  ASSUME NEW Q, NEW keys, Keyed(keys, Q), NEW s, Lists(s, Q, keys), NEW r, Lists(r, Q, keys)
  PROVE  s = r
<1>1. s \in Seq(Q) /\ r \in Seq(Q) /\ Len(s) \in Nat /\ Len(r) \in Nat
  BY LenProperties DEF Lists
<1>2. Len(s) = Len(r)
  BY <1>1, ListNoLonger
<1>3. \A i \in 1 .. Len(s) : s[i] = r[i]
  BY <1>2, ListsAgree
<1> QED BY <1>1, <1>2, <1>3, SeqEqual

(* Keys that order the tasks alike have the same list.                     *)
LEMMA ListSame ==
  ASSUME NEW Q, NEW keys, NEW s, Lists(s, Q, keys), NEW others,
         \A a, b \in Q : compare(keys, a, b) => compare(others, a, b)
  PROVE  Lists(s, Q, others)
<1>1. \A i \in 1 .. Len(s) : s[i] \in Q
  BY ElementOfSeq DEF Lists
<1> QED BY <1>1 DEF Lists

(* The list with a task that comes after all others, and without a task.   *)
LEMMA ListAppend ==
  ASSUME NEW Q, NEW keys, NEW s, Lists(s, Q, keys), NEW t, t \notin Q,
         \A u \in Q : compare(keys, u, t)
  PROVE  Lists(Append(s, t), Q \cup {t}, keys)
<1> DEFINE r == Append(s, t)
<1>1. s \in Seq(Q) /\ Range(s) = Q /\ Len(s) \in Nat /\ DOMAIN s = 1 .. Len(s)
      /\ \A i \in 1 .. Len(s) : s[i] \in Q
  BY LenProperties, ElementOfSeq DEF Lists
<1>2. s \in Seq(Q \cup {t})
  BY <1>1, SeqOfSubset
<1>3. /\ r \in Seq(Q \cup {t}) /\ Len(r) = Len(s) + 1 /\ r[Len(s) + 1] = t
      /\ \A i \in 1 .. Len(s) : r[i] = s[i]
  BY <1>2, AppendProperties
<1>4. DOMAIN r = 1 .. Len(s) + 1
  BY <1>3, LenProperties
<1> HIDE DEF r
<1>5. Range(r) = Q \cup {t}
  <2>1. \A i \in 1 .. Len(s) + 1 : i = Len(s) + 1 \/ i \in 1 .. Len(s)
    BY <1>1
  <2>2. 1 .. Len(s) \subseteq 1 .. Len(s) + 1 /\ Len(s) + 1 \in 1 .. Len(s) + 1
    BY <1>1
  <2>3. Range(r) \subseteq Q \cup {t}
    BY <1>1, <1>3, <1>4, <2>1 DEF Range
  <2>4. Q \subseteq Range(r)
    BY <1>1, <1>3, <1>4, <2>2 DEF Range
  <2>5. t \in Range(r)
    BY <1>3, <1>4, <2>2 DEF Range
  <2> QED BY <2>3, <2>4, <2>5
<1>6. ASSUME NEW i \in 1 .. Len(r), NEW j \in 1 .. Len(r), i < j
      PROVE  compare(keys, r[i], r[j])
  <2>1. i \in 1 .. Len(s)
    BY <1>1, <1>3, <1>6
  <2>2. CASE j = Len(s) + 1
    BY <1>1, <1>3, <2>1, <2>2
  <2>3. CASE j # Len(s) + 1
    <3>1. j \in 1 .. Len(s)
      BY <1>1, <1>3, <2>3
    <3> QED BY <1>3, <1>6, <2>1, <3>1 DEF Lists
  <2> QED BY <2>2, <2>3
<1> QED BY <1>3, <1>5, <1>6 DEF Lists, r

LEMMA ListRemove ==
  ASSUME NEW Q, NEW keys, Keyed(keys, Q), NEW s, Lists(s, Q, keys), NEW k \in 1 .. Len(s)
  PROVE  Lists(SubSeq(s, 1, k - 1) \o SubSeq(s, k + 1, Len(s)), Q \ {s[k]}, keys)
<1> DEFINE r == SubSeq(s, 1, k - 1) \o SubSeq(s, k + 1, Len(s))
           At(j) == IF j < k THEN j ELSE j + 1
<1>1. s \in Seq(Q) /\ Range(s) = Q /\ Len(s) \in Nat /\ DOMAIN s = 1 .. Len(s)
      /\ (\A i \in 1 .. Len(s) : s[i] \in Q)
      /\ \A i, j \in 1 .. Len(s) : i < j => compare(keys, s[i], s[j])
  BY LenProperties, ElementOfSeq DEF Lists
<1>2. /\ r \in Seq(Q) /\ Len(r) = Len(s) - 1
      /\ \A j \in 1 .. k - 1 : r[j] = s[j]
      /\ \A j \in k .. Len(s) - 1 : r[j] = s[j + 1]
  BY <1>1, WithoutFacts
<1>3. DOMAIN r = 1 .. Len(s) - 1
  BY <1>2, LenProperties
<1> HIDE DEF r
<1>4. \A j \in 1 .. Len(s) - 1 : /\ r[j] = s[At(j)] /\ At(j) \in 1 .. Len(s) /\ At(j) # k
                                 /\ \A i \in 1 .. Len(s) - 1 : i < j => At(i) < At(j)
  BY <1>1, <1>2
<1>5. \A i \in 1 .. Len(s) : i # k => s[i] # s[k]
  <2> SUFFICES ASSUME NEW i \in 1 .. Len(s), i # k PROVE s[i] # s[k]
    OBVIOUS
  <2>1. compare(keys, s[i], s[k]) \/ compare(keys, s[k], s[i])
    BY <1>1
  <2> QED BY <1>1, <2>1, CompareFacts
<1>6. \A i \in 1 .. Len(s) : i # k => \E j \in 1 .. Len(s) - 1 : At(j) = i
  <2> TAKE i \in 1 .. Len(s)
  <2>1. CASE i < k
    BY <1>1, <2>1
  <2>2. CASE k < i
    <3>1. i - 1 \in 1 .. Len(s) - 1 /\ At(i - 1) = i
      BY <1>1, <2>2
    <3> QED BY <3>1
  <2> QED BY <1>1, <2>1, <2>2
<1> HIDE DEF At
<1>7. Range(r) = Q \ {s[k]}
  <2>1. Range(r) \subseteq Q \ {s[k]}
    BY <1>1, <1>3, <1>4, <1>5 DEF Range
  <2>2. ASSUME NEW u \in Q, u # s[k] PROVE u \in Range(r)
    <3>1. PICK i \in 1 .. Len(s) : s[i] = u
      BY <1>1 DEF Range
    <3>2. PICK j \in 1 .. Len(s) - 1 : At(j) = i
      BY <1>6, <2>2, <3>1
    <3> QED BY <1>3, <1>4, <3>1, <3>2 DEF Range
  <2> QED BY <2>1, <2>2
<1>8. r \in Seq(Q \ {s[k]})
  <2>1. \A j \in 1 .. Len(r) : r[j] \in Q \ {s[k]}
    BY <1>2, <1>4, <1>5, <1>1
  <2> QED BY <1>2, <2>1, SeqDef, LenProperties
<1>9. \A i, j \in 1 .. Len(r) : i < j => compare(keys, r[i], r[j])
  BY <1>1, <1>2, <1>4
<1> QED BY <1>7, <1>8, <1>9 DEF Lists, r
===============================================================================
