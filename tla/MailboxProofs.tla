----------------------------- MODULE MailboxProofs -----------------------------
(***************************************************************************)
(* Proofs about Mailbox, for every set of message lengths, mailbox sizes   *)
(* and tasks.                                                              *)
(***************************************************************************)
EXTENDS Mailbox, SequenceTheorems, TLAPS

Slot == [at : Nat, msg : Message]

(* get_real_size returns the least multiple of four that is not less.      *)
LEMMA RealSize ==
  ASSUME NEW n \in Nat
  PROVE  /\ get_real_size(n) \in Nat
         /\ get_real_size(n) % 4 = 0
         /\ n <= get_real_size(n)
         /\ get_real_size(n) < n + 4
BY DEF get_real_size

LEMMA MultipleOfFour ==
  ASSUME NEW a \in Nat, NEW b \in Nat, a % 4 = 0, b % 4 = 0
  PROVE  (a + b) % 4 = 0
OBVIOUS

(* A message takes whole words, and more bytes than its length.            *)
LEMMA CostFacts ==
  ASSUME NEW m \in Message
  PROVE  /\ m.length \in Nat
         /\ Cost(m) \in Nat
         /\ Cost(m) > m.length
         /\ Cost(m) > HDR_SIZE
         /\ Cost(m) % 4 = 0
<1>1. m.length \in Nat /\ m.length >= HDR_SIZE
  BY LengthsAssumption DEF Message
<1> QED BY <1>1, RealSize, SMTT(30) DEF Cost, HDR_SIZE

LEMMA MarkersDiffer ==
  /\ Mark \notin Message
  /\ Junk \notin Message
BY CellsAssumption

(* What the copy of a message leaves in the ring.                          *)
LEMMA StoredType ==
  ASSUME NEW ring, NEW D, ring \in [D -> Cell], NEW at \in D, NEW m \in Message
  PROVE  Stored(ring, at, m) \in [D -> Cell]
BY DEF Stored, Cell

LEMMA StoredFacts ==
  ASSUME NEW ring, DOMAIN ring \subseteq Nat, NEW at \in DOMAIN ring, NEW m \in Message
  PROVE  /\ Stored(ring, at, m)[at] = m
         /\ \A o \in DOMAIN ring :
              o < at \/ at + Cost(m) <= o => Stored(ring, at, m)[o] = ring[o]
<1>1. Cost(m) \in Nat /\ Cost(m) > 0
  BY CostFacts DEF HDR_SIZE
<1> QED BY <1>1 DEF Stored

(* The wrap marker changes the byte at tail, if there is one, and no other.*)
LEMMA MarkedFacts ==
  ASSUME TypeOK, tail \in Nat, mbx
  PROVE  /\ Marked(mem) \in [0 .. mbx_size - 1 -> Cell]
         /\ \A o \in 0 .. mbx_size - 1 : o # tail => Marked(mem)[o] = mem[o]
         /\ tail < mbx_size => Marked(mem)[tail] = Mark
BY SMT DEF TypeOK, Marked, Cell

-------------------------------------------------------------------------------
(* Type correctness of every step.                                         *)

LEMMA TypeInit == Init => TypeOK
<1> SUFFICES ASSUME Init PROVE TypeOK
  OBVIOUS
<1>1. mem \in [(IF mbx THEN 0 .. mbx_size - 1 ELSE {}) -> Cell]
  BY DEF Init
<1>2. live \in Seq([at : Nat, msg : Message])
  BY EmptySeq DEF Init
<1>3. out \in Outcomes
  BY DEF Init, Outcomes, NoCall
<1> QED BY <1>1, <1>2, <1>3 DEF Init, TypeOK

LEMMA TypePut ==
  ASSUME TypeOK, mbx, NEW m \in Message, NEW ring, NEW at \in 0 .. mbx_size - 1,
         ring \in [0 .. mbx_size - 1 -> Cell], Put(m, ring, at),
         head' \in Nat \cup {NULL}
  PROVE  TypeOK'
<1>1. Stored(ring, at, m) \in [0 .. mbx_size - 1 -> Cell]
  BY StoredType
<1>2. at + Cost(m) \in Nat
  BY CostFacts DEF TypeOK
<1>3. [at |-> at, msg |-> m] \in Slot
  BY DEF Slot, TypeOK
<1>4. Append(live, [at |-> at, msg |-> m]) \in Seq(Slot)
  BY <1>3, AppendProperties DEF TypeOK, Slot
<1>5. Called("send", TRUE, m) \in Outcomes
  BY DEF Called, Outcomes, Outcome
<1> QED BY <1>1, <1>2, <1>4, <1>5 DEF Put, TypeOK, Slot

LEMMA TypeRefused ==
  ASSUME TypeOK, NEW m \in Message, Refused(m),
         mem' \in [(IF mbx THEN 0 .. mbx_size - 1 ELSE {}) -> Cell]
  PROVE  TypeOK'
<1>1. Called("send", FALSE, m) \in Outcomes
  BY DEF Called, Outcomes, Outcome
<1> QED BY <1>1 DEF Refused, TypeOK

(* The two pointers are NULL together; without it tail could be one when   *)
(* a message is appended.                                                  *)
Paired == head = NULL <=> tail = NULL

LEMMA TypeSend ==
  ASSUME TypeOK, Paired, NEW m \in Message, Send(m)
  PROVE  TypeOK' /\ Paired'
<1>0. /\ mbx_size \in Nat
      /\ head \in Nat \cup {NULL}
      /\ tail \in Nat \cup {NULL}
      /\ Cost(m) \in Nat
      /\ Cost(m) > 0
      /\ mbx
      /\ mem \in [0 .. mbx_size - 1 -> Cell]
  BY CostFacts DEF TypeOK, HDR_SIZE, Send, SendTooLarge, SendFirst, SendNoGap,
                   SendToFront, SendNoFront, SendToTail
<1>00. ~Empty => head \in Nat /\ tail \in Nat
  BY <1>0 DEF Empty, Paired
<1>1. CASE SendTooLarge(m)
  BY <1>1, TypeRefused DEF SendTooLarge, TypeOK, Paired, Refused
<1>2. CASE SendFirst(m)
  <2>1. 0 \in 0 .. mbx_size - 1 /\ head' = 0
    BY <1>0, <1>2 DEF SendFirst, TooLarge
  <2>2. tail' = Cost(m)
    BY <1>0, <1>2 DEF SendFirst, Put
  <2>3. TypeOK'
    BY <1>0, <1>2, <2>1, TypePut DEF SendFirst
  <2> QED BY <1>0, <2>1, <2>2, <2>3 DEF Paired, NULL
<1>3. CASE SendNoGap(m)
  BY <1>3, TypeRefused DEF SendNoGap, TypeOK, Paired, Refused
<1>4. CASE SendToFront(m)
  <2>1. 0 \in 0 .. mbx_size - 1 /\ head' \in Nat
    BY <1>0, <1>00, <1>4 DEF SendToFront, TooLarge
  <2>2. Marked(mem) \in [0 .. mbx_size - 1 -> Cell]
    BY <1>0, <1>00, <1>4, MarkedFacts DEF SendToFront
  <2>3. TypeOK'
    BY <1>0, <1>4, <2>1, <2>2, TypePut DEF SendToFront
  <2>4. tail' = Cost(m)
    BY <1>0, <1>4 DEF SendToFront, Put
  <2> QED BY <1>0, <2>1, <2>3, <2>4 DEF Paired, NULL
<1>5. CASE SendNoFront(m)
  <2>1. Marked(mem) \in [0 .. mbx_size - 1 -> Cell]
    BY <1>0, <1>00, <1>5, MarkedFacts DEF SendNoFront
  <2>2. TypeOK'
    BY <1>0, <1>5, <2>1, TypeRefused DEF SendNoFront
  <2> QED BY <1>5, <2>2 DEF SendNoFront, Refused, Paired
<1>6. CASE SendToTail(m)
  <2>1. head \in Nat /\ tail \in 0 .. mbx_size - 1 /\ head' = head
    BY <1>0, <1>00, <1>6 DEF SendToTail, EndInTheWay
  <2>2. tail' \in Nat
    BY <1>0, <1>6, <2>1 DEF SendToTail, Put
  <2>3. TypeOK'
    BY <1>0, <1>6, <2>1, TypePut DEF SendToTail
  <2> QED BY <2>1, <2>2, <2>3 DEF Paired, NULL
<1> QED BY <1>1, <1>2, <1>3, <1>4, <1>5, <1>6 DEF Send

LEMMA TypeRecv ==
  ASSUME TypeOK, Paired, NEW len, Recv(len)
  PROVE  TypeOK' /\ Paired'
<1> DEFINE m == mem[head]
           next == head + Cost(m)
<1>1. m \in Message /\ head \in Nat /\ tail \in Nat
  BY DEF Recv, TypeOK, Paired
<1>2. next \in Nat
  BY <1>1, CostFacts
<1>3. SubSeq(live, 2, Len(live)) \in Seq(Slot)
  <2>1. live \in Seq(Slot)
    BY DEF TypeOK, Slot
  <2> QED BY <2>1, SMT
<1>4. Called("recv", m.length <= len, m) \in Outcomes
  BY <1>1 DEF Called, Outcomes, Outcome
<1>5. head' \in Nat \cup {NULL} /\ tail' \in Nat \cup {NULL} /\ Paired'
  <2>1. CASE next = tail
    BY <2>1 DEF Recv, Paired
  <2>2. CASE next # tail
    <3>1. head' \in Nat /\ tail' = tail
      BY <1>2, <2>2 DEF Recv
    <3> QED BY <1>1, <3>1 DEF Paired, NULL
  <2> QED BY <2>1, <2>2
<1>6. mbx' = mbx /\ mbx_size' = mbx_size /\ mem' = mem
      /\ live' = SubSeq(live, 2, Len(live)) /\ out' = Called("recv", m.length <= len, m)
  BY DEF Recv
<1> HIDE DEF m, next
<1> QED BY <1>3, <1>4, <1>5, <1>6 DEF TypeOK, Slot

LEMMA TypeStep == TypeOK /\ Paired /\ [Next]_vars => TypeOK' /\ Paired'
<1> SUFFICES ASSUME TypeOK, Paired, [Next]_vars PROVE TypeOK' /\ Paired'
  OBVIOUS
<1>1. ASSUME NEW size \in MbxSizes, Create(size) PROVE TypeOK' /\ Paired'
  <2>1. size \in Nat
    BY MbxSizesAssumption
  <2>2. PICK allocated \in BOOLEAN :
          /\ mbx' = allocated
          /\ mem' = [o \in (IF allocated THEN 0 .. size - 1 ELSE {}) |-> Junk]
    BY <1>1 DEF Create
  <2>3. mem' \in [(IF mbx' THEN 0 .. size - 1 ELSE {}) -> Cell]
    BY <2>2 DEF Cell
  <2> QED BY <1>1, <2>1, <2>2, <2>3 DEF Create, TypeOK, Paired
<1>2. ASSUME Reset PROVE TypeOK' /\ Paired'
  <2>1. live' \in Seq([at : Nat, msg : Message])
    BY <1>2, EmptySeq DEF Reset
  <2>2. mem' \in [(IF mbx' THEN 0 .. mbx_size' - 1 ELSE {}) -> Cell]
    BY <1>2 DEF Reset
  <2> QED BY <1>2, <2>1, <2>2 DEF Reset, TypeOK, Paired
<1>3. CASE UNCHANGED vars
  BY <1>3 DEF vars, TypeOK, Paired
<1> QED BY <1>1, <1>2, <1>3, TypeSend, TypeRecv DEF Next

(* Types of the variables, in every reachable state: in particular no      *)
(* pointer is ever below the start of the mailbox and the copy of a        *)
(* message never leaves the allocated block.                               *)
THEOREM TypeCorrect == Spec => []TypeOK
<1>1. Init => TypeOK /\ Paired
  BY TypeInit DEF Init, Paired
<1> QED BY <1>1, TypeStep, PTL DEF Spec
-------------------------------------------------------------------------------
(* The inductive invariant is TypeOK and Ring.  Ring speaks of the history *)
(* of the mailbox: where each waiting message was put.                     *)

LEMMA SlotFacts ==
  ASSUME TypeOK
  PROVE  /\ Len(live) \in Nat
         /\ Waiting = 1 .. Len(live)
         /\ \A i \in Waiting : /\ At(i) \in Nat
                               /\ live[i].msg \in Message
                               /\ End(i) \in Nat
                               /\ End(i) > At(i)
                               /\ End(i) - At(i) = Cost(live[i].msg)
<1>1. live \in Seq(Slot)
  BY DEF TypeOK, Slot
<1>2. Len(live) \in Nat /\ Waiting = 1 .. Len(live)
  BY <1>1, LenProperties DEF Waiting
<1>3. ASSUME NEW i \in Waiting
      PROVE  /\ At(i) \in Nat
             /\ live[i].msg \in Message
             /\ End(i) \in Nat
             /\ End(i) > At(i)
             /\ End(i) - At(i) = Cost(live[i].msg)
  <2>1. live[i] \in Slot
    BY <1>1, <1>2, <1>3, ElementOfSeq
  <2>2. live[i].at \in Nat /\ live[i].msg \in Message
    BY <2>1 DEF Slot
  <2> QED BY <2>2, CostFacts DEF At, End, HDR_SIZE
<1> QED BY <1>2, <1>3

(* A message that is put is the youngest; the others stay where they are.  *)
LEMMA PutFacts ==
  ASSUME TypeOK, NEW m \in Message, NEW ring, NEW at \in Nat, Put(m, ring, at)
  PROVE  /\ Len(live) \in Nat
         /\ Len(live') = Len(live) + 1
         /\ Waiting = 1 .. Len(live)
         /\ Waiting' = 1 .. Len(live')
         /\ live' # <<>>
         /\ \A i \in Waiting : live'[i] = live[i] /\ At(i)' = At(i) /\ End(i)' = End(i)
         /\ live'[Len(live')] = [at |-> at, msg |-> m]
<1>1. live \in Seq(Slot) /\ [at |-> at, msg |-> m] \in Slot
  BY DEF TypeOK, Slot
<1>2. live' = Append(live, [at |-> at, msg |-> m])
  BY DEF Put
<1>3. /\ Len(live) \in Nat
      /\ Len(live') = Len(live) + 1
      /\ Waiting = 1 .. Len(live)
      /\ Waiting' = 1 .. Len(live')
      /\ \A i \in Waiting : live'[i] = live[i]
      /\ live'[Len(live')] = [at |-> at, msg |-> m]
  BY <1>1, <1>2, AppendProperties, LenProperties DEF Waiting
<1>4. live' # <<>>
  BY <1>3, EmptySeq
<1>5. \A i \in Waiting : At(i)' = At(i) /\ End(i)' = End(i)
  BY <1>3 DEF At, End
<1> QED BY <1>3, <1>4, <1>5

(* A consumed message was the oldest; the others move up by one.           *)
LEMMA RecvFacts ==
  ASSUME TypeOK, live # <<>>, live' = SubSeq(live, 2, Len(live))
  PROVE  /\ Waiting' = 1 .. (Len(live) - 1)
         /\ Len(live') = Len(live) - 1
         /\ Len(live) \in Nat \ {0}
         /\ \A i \in Waiting' : live'[i] = live[i + 1]
         /\ \A i \in Waiting' : At(i)' = At(i + 1) /\ End(i)' = End(i + 1)
         /\ live' = <<>> <=> Len(live) = 1
<1>1. live \in Seq(Slot)
  BY DEF TypeOK, Slot
<1>2. Len(live) \in Nat \ {0}
  BY <1>1, EmptySeq
<1>3. /\ Waiting' = 1 .. (Len(live) - 1)
      /\ Len(live') = Len(live) - 1
      /\ \A i \in Waiting' : live'[i] = live[i + 1]
  <2>1. live' = Tail(live)
    BY <1>1, TailIsSubSeq
  <2>2. /\ live' \in Seq(Slot)
        /\ Len(live') = Len(live) - 1
        /\ \A i \in 1 .. Len(live') : live'[i] = live[i + 1]
    BY <1>1, <2>1, HeadTailProperties
  <2> QED BY <1>2, <2>2, LenProperties DEF Waiting
<1>4. live' = <<>> <=> Len(live) = 1
  <2>1. live' \in Seq(Slot)
    BY <1>1, SMT
  <2>2. live' # <<>> => Len(live') \in Nat \ {0}
    BY <2>1, EmptySeq
  <2>3. live' = <<>> => Len(live') = 0
    BY EmptySeq
  <2> QED BY <1>2, <1>3, <2>2, <2>3
<1> QED BY <1>2, <1>3, <1>4 DEF At, End
-------------------------------------------------------------------------------
(* Messages are in two laps, so neither group overlaps the other.          *)
LEMMA RingNoOverlap == TypeOK /\ Ring => NoOverlap
<1> SUFFICES ASSUME TypeOK, Ring,
                    NEW i \in Waiting, NEW j \in Waiting, i < j
             PROVE  End(i) <= At(j) \/ End(j) <= At(i)
  BY SlotFacts DEF NoOverlap
<1>1. /\ At(i) \in Nat /\ At(j) \in Nat /\ End(i) \in Nat /\ End(j) \in Nat
      /\ End(i) > At(i) /\ End(j) > At(j)
      /\ head \in Nat /\ tail \in Nat
  BY SlotFacts DEF Ring, PointersMatch, TypeOK
<1>2. CASE At(j) >= head
  BY <1>1, <1>2 DEF Ring, Laps
<1>3. CASE At(i) < head
  BY <1>1, <1>3 DEF Ring, Laps
<1>4. CASE At(j) < head /\ At(i) >= head
  BY <1>1, <1>4 DEF Ring, GapFree
<1> QED BY <1>1, <1>2, <1>3, <1>4

(* What Ring says of the oldest and the youngest message.                  *)
LEMMA Ends ==
  ASSUME TypeOK, Ring, live # <<>>, NEW n, n = Len(live)
  PROVE  /\ n \in Nat \ {0}
         /\ Waiting = 1 .. n
         /\ mbx
         /\ head = At(1) /\ head \in Nat
         /\ tail = End(n) /\ tail \in Nat
         /\ tail <= mbx_size
         /\ 1 \in Waiting /\ n \in Waiting
<1>1. n \in Nat \ {0}
  BY SlotFacts, EmptySeq DEF TypeOK
<1> QED BY <1>1, SlotFacts DEF Ring, PointersMatch, InBounds

(* In a ring that has not wrapped all messages lie between head and tail.  *)
LEMMA Unwrapped ==
  ASSUME TypeOK, Ring, live # <<>>, head < tail, NEW i \in Waiting
  PROVE  head <= At(i) /\ End(i) <= tail /\ At(i) < tail
BY SlotFacts, Ends DEF Ring, GapFree

(* A message at the front that is not the oldest was put by a wrap.        *)
LEMMA Wrapped ==
  ASSUME TypeOK, Ring, live # <<>>, NEW i \in Waiting, i + 1 \in Waiting,
         At(i + 1) = 0
  PROVE  At(i) >= head /\ tail <= head /\ head > 0
<1> DEFINE n == Len(live)
<1>1. /\ n \in Nat /\ i \in 1 .. n /\ i + 1 \in 1 .. n /\ 1 \in Waiting
      /\ head = At(1) /\ head \in Nat /\ tail \in Nat
  BY Ends
<1>2. /\ At(1) \in Nat /\ End(1) > At(1) /\ End(1) \in Nat
      /\ At(i) \in Nat /\ End(i) > At(i) /\ End(i) \in Nat
  BY <1>1, SlotFacts
<1>3. ~(At(i + 1) >= head)
  BY <1>1, <1>2 DEF Ring, Laps
<1>4. ~(At(i) < head)
  BY <1>1, <1>2 DEF Ring, Laps
<1>5. ~(head < tail)
  BY <1>1, <1>3 DEF Ring, GapFree
<1> QED BY <1>1, <1>2, <1>3, <1>4, <1>5

LEMMA RingSendFirst ==
  ASSUME TypeOK, Ring, NEW m \in Message, SendFirst(m)
  PROVE  Ring'
<1>1. Cost(m) \in Nat /\ Cost(m) > 0 /\ Cost(m) % 4 = 0 /\ mbx_size \in Nat
  BY CostFacts DEF HDR_SIZE, TypeOK
<1>2. Put(m, mem, 0) /\ head' = 0 /\ mbx /\ live = <<>> /\ Cost(m) <= mbx_size
  BY <1>1 DEF SendFirst, Empty, Ring, PointersMatch, TooLarge
<1>3. Len(live) = 0
  BY <1>2, EmptySeq
<1>4. /\ Waiting' = 1 .. 1
      /\ Len(live') = 1
      /\ live'[1] = [at |-> 0, msg |-> m]
      /\ At(1)' = 0
      /\ End(1)' = Cost(m)
      /\ live' # <<>>
  <2>1. 0 \in Nat
    OBVIOUS
  <2>2. /\ Waiting' = 1 .. 1
        /\ Len(live') = 1
        /\ live'[1] = [at |-> 0, msg |-> m]
        /\ live' # <<>>
    BY <1>2, <1>3, <2>1, PutFacts
  <2> QED BY <1>1, <2>2 DEF At, End
<1>5. mem' = Stored(mem, 0, m) /\ tail' = Cost(m) /\ mbx' = mbx /\ mbx_size' = mbx_size
  BY <1>1, <1>2 DEF Put
<1>6. mem'[0] = m
  <2>1. DOMAIN mem = 0 .. mbx_size - 1
    BY <1>2 DEF TypeOK
  <2>2. 0 \in DOMAIN mem /\ DOMAIN mem \subseteq Nat
    BY <1>1, <1>2, <2>1
  <2> QED BY <1>5, <2>2, StoredFacts
<1>7. \A i \in Waiting' : i = 1 /\ At(i)' = 0 /\ End(i)' = Cost(m)
  BY <1>4
<1>8. PointersMatch'
  BY <1>1, <1>2, <1>4, <1>5 DEF PointersMatch, NULL
<1>9. InBounds'
  BY <1>1, <1>2, <1>5, <1>7 DEF InBounds
<1>10. Intact'
  BY <1>4, <1>6 DEF Intact
<1>11. Chained'
  BY <1>4 DEF Chained
<1>12. Laps'
  BY <1>4 DEF Laps
<1>13. GapFree'
  BY <1>1, <1>2, <1>5, <1>7 DEF GapFree
<1> QED BY <1>8, <1>9, <1>10, <1>11, <1>12, <1>13 DEF Ring

LEMMA RingSendToTail ==
  ASSUME TypeOK, Ring, NEW m \in Message, SendToTail(m)
  PROVE  Ring'
<1>0. PICK n : n = Len(live)
  OBVIOUS
<1>1. Cost(m) \in Nat /\ Cost(m) > 0 /\ Cost(m) % 4 = 0 /\ mbx_size \in Nat
  BY CostFacts DEF HDR_SIZE, TypeOK
<1>2. Put(m, mem, tail) /\ head' = head /\ mbx /\ live # <<>>
  BY DEF SendToTail, Empty, Ring, PointersMatch
<1>3. /\ n \in Nat \ {0} /\ Waiting = 1 .. n /\ 1 \in Waiting /\ n \in Waiting
      /\ head = At(1) /\ tail = End(n) /\ head \in Nat /\ tail \in Nat
  BY <1>0, <1>2, Ends
<1>4. /\ tail # head
      /\ head > tail => tail + Cost(m) <= head
      /\ tail + Cost(m) <= mbx_size
  BY <1>1, <1>3 DEF SendToTail, HeadInTheWay, EndInTheWay
<1>5. /\ Len(live') = n + 1
      /\ Waiting' = 1 .. (n + 1)
      /\ live' # <<>>
      /\ \A i \in Waiting : live'[i] = live[i] /\ At(i)' = At(i) /\ End(i)' = End(i)
      /\ live'[n + 1] = [at |-> tail, msg |-> m]
  BY <1>0, <1>2, <1>3, PutFacts
<1>6. \A i \in Waiting' \ Waiting : i = n + 1 /\ At(i)' = tail /\ End(i)' = tail + Cost(m)
  BY <1>3, <1>5 DEF At, End
<1>7. mem' = Stored(mem, tail, m) /\ tail' = tail + Cost(m) /\ mbx' = mbx /\ mbx_size' = mbx_size
  BY <1>2 DEF Put
<1>8. /\ mem'[tail] = m
      /\ \A o \in 0 .. mbx_size - 1 : o < tail \/ tail + Cost(m) <= o => mem'[o] = mem[o]
  <2>1. DOMAIN mem = 0 .. mbx_size - 1
    BY <1>2 DEF TypeOK
  <2>2. tail \in DOMAIN mem /\ DOMAIN mem \subseteq Nat
    BY <1>1, <1>3, <1>4, <2>1
  <2>3. Stored(mem, tail, m)[tail] = m
    BY <2>2, StoredFacts
  <2>4. \A o \in DOMAIN mem : o < tail \/ tail + Cost(m) <= o => Stored(mem, tail, m)[o] = mem[o]
    BY <2>2, StoredFacts
  <2> QED BY <1>7, <2>1, <2>3, <2>4
<1>9. \A i \in Waiting : /\ At(i) \in Nat /\ End(i) \in Nat /\ At(i) < End(i)
                         /\ End(i) <= mbx_size
  BY SlotFacts DEF Ring, InBounds
<1>10. \A i \in Waiting : At(i) % 4 = 0 /\ mem[At(i)] = live[i].msg
  BY DEF Ring, InBounds, Intact
<1>11. \A i \in Waiting : /\ head < tail => head <= At(i) /\ End(i) <= tail
                          /\ tail <= head => End(i) <= tail \/ head <= At(i)
  BY DEF Ring, GapFree
<1>12. PointersMatch'
  <2>1. At(1)' = head /\ End(n + 1)' = tail + Cost(m)
    BY <1>3, <1>5, <1>6
  <2>2. head' # NULL /\ tail' # NULL
    BY <1>1, <1>2, <1>3, <1>7 DEF NULL
  <2> QED BY <1>2, <1>5, <1>7, <2>1, <2>2 DEF PointersMatch
<1>13. InBounds'
  <2>1. tail % 4 = 0
    <3>1. /\ End(n) = At(n) + Cost(live[n].msg)
          /\ Cost(live[n].msg) \in Nat
          /\ Cost(live[n].msg) % 4 = 0
      BY <1>3, SlotFacts, CostFacts DEF End, At
    <3> QED BY <1>3, <1>9, <1>10, <3>1, MultipleOfFour
  <2> QED BY <1>1, <1>4, <1>5, <1>6, <1>7, <1>9, <1>10, <2>1 DEF InBounds
<1>14. Intact'
  <2>1. ASSUME NEW i \in Waiting PROVE mem'[At(i)] = live[i].msg
    <3>1. CASE head < tail
      <4>1. At(i) < tail /\ At(i) \in 0 .. mbx_size - 1
        BY <1>1, <1>3, <1>9, <1>11, <3>1
      <4> QED BY <1>8, <1>10, <4>1
    <3>2. CASE tail < head
      <4>1. At(i) < tail \/ tail + Cost(m) <= At(i)
        <5>1. head \in Nat /\ tail \in Nat /\ tail + Cost(m) <= head
          BY <1>3, <1>4, <3>2
        <5>2. End(i) <= tail \/ head <= At(i)
          BY <1>11, <3>2, <5>1
        <5>3. At(i) \in Nat /\ End(i) \in Nat /\ At(i) < End(i)
          BY <1>9
        <5> QED BY <1>1, <5>1, <5>2, <5>3
      <4>2. At(i) \in 0 .. mbx_size - 1
        BY <1>1, <1>9
      <4> QED BY <1>8, <1>10, <4>1, <4>2
    <3> QED BY <1>3, <1>4, <3>1, <3>2
  <2> QED BY <1>5, <1>6, <1>8, <2>1 DEF Intact
<1>15. Chained'
  <2>1. ASSUME NEW i \in Waiting, i + 1 \in Waiting
        PROVE  \/ At(i + 1) = End(i)
               \/ At(i + 1) = 0 /\ (End(i) = mbx_size \/ mem'[End(i)] = Mark)
    <3>1. CASE At(i + 1) = 0 /\ End(i) # mbx_size /\ mem[End(i)] = Mark
      <4>1. End(i) > tail + Cost(m)
        BY <1>1, <1>2, <1>3, <1>4, <1>9, <2>1, <3>1, Wrapped, SMTT(30)
      <4>2. End(i) \in 0 .. mbx_size - 1 /\ tail + Cost(m) <= End(i)
        BY <1>1, <1>3, <1>9, <3>1, <4>1
      <4>3. mem'[End(i)] = mem[End(i)]
        BY <1>8, <4>2
      <4> QED BY <3>1, <4>3
    <3> QED BY <2>1, <3>1 DEF Ring, Chained
  <2>2. ASSUME NEW i \in Waiting, i + 1 \in Waiting'
        PROVE  \/ At(i + 1)' = End(i)'
               \/ At(i + 1)' = 0 /\ (End(i)' = mbx_size' \/ mem'[End(i)'] = Mark)
    <3>1. CASE i + 1 \in Waiting
      BY <1>5, <1>7, <2>1, <3>1
    <3>2. CASE i + 1 \notin Waiting
      <4>1. i = n /\ At(i + 1)' = tail /\ End(i)' = End(n)
        BY <1>3, <1>5, <1>6, <2>2, <3>2
      <4> QED BY <1>3, <4>1
    <3> QED BY <3>1, <3>2
  <2> QED BY <1>3, <1>5, <2>2 DEF Chained
<1>16. Laps'
  <2>1. ASSUME NEW i \in Waiting
        PROVE  /\ tail >= head => At(i) >= head /\ End(i) <= tail
               /\ At(i) < head => End(i) <= tail
    BY <1>3, <1>4, <1>9, <1>11
  <2>2. ASSUME NEW i \in Waiting', NEW j \in Waiting', i < j
        PROVE  (/\ At(j) >= head => At(i) >= head /\ End(i) <= At(j)
                /\ At(i) < head => End(i) <= At(j))'
    <3>1. i \in Waiting
      BY <1>3, <1>5, <2>2
    <3>2. CASE j \in Waiting
      BY <1>2, <1>5, <2>2, <3>1, <3>2 DEF Ring, Laps
    <3>3. CASE j \notin Waiting
      BY <1>2, <1>5, <1>6, <2>1, <3>1, <3>3
    <3> QED BY <3>2, <3>3
  <2> QED BY <2>2 DEF Laps
<1>17. GapFree'
  <2>1. ASSUME NEW i \in Waiting
        PROVE  /\ head < tail + Cost(m) => head <= At(i) /\ End(i) <= tail + Cost(m)
               /\ tail + Cost(m) <= head => End(i) <= tail + Cost(m) \/ head <= At(i)
    <3>1. head \in Nat /\ tail \in Nat /\ (head > tail => tail + Cost(m) <= head) /\ tail # head
      BY <1>3, <1>4
    <3>2. At(i) \in Nat /\ End(i) \in Nat /\ At(i) < End(i)
      BY <1>9
    <3>3. CASE head < tail
      <4>1. head <= At(i) /\ End(i) <= tail
        BY <1>11, <3>3
      <4> QED BY <1>1, <3>1, <3>2, <3>3, <4>1
    <3>4. CASE tail < head
      <4>1. End(i) <= tail \/ head <= At(i)
        BY <1>11, <3>1, <3>4
      <4> QED BY <1>1, <3>1, <3>2, <3>4, <4>1
    <3> QED BY <3>1, <3>3, <3>4
  <2> QED BY <1>1, <1>2, <1>3, <1>4, <1>5, <1>6, <1>7, <2>1 DEF GapFree
<1> QED BY <1>12, <1>13, <1>14, <1>15, <1>16, <1>17 DEF Ring

(* A wrap happens only in a ring that has not wrapped already.             *)
LEMMA WrapOnce ==
  ASSUME TypeOK, Ring, NEW m \in Message, ~Empty, ~HeadInTheWay(m), EndInTheWay(m)
  PROVE  head < tail
<1>0. PICK n : n = Len(live)
  OBVIOUS
<1>1. Cost(m) \in Nat /\ Cost(m) > 0 /\ mbx_size \in Nat
  BY CostFacts DEF HDR_SIZE, TypeOK
<1>2. live # <<>>
  BY DEF Empty, Ring, PointersMatch
<1>3. /\ 1 \in Waiting
      /\ head = At(1) /\ head \in Nat /\ tail \in Nat /\ tail <= mbx_size
  BY <1>0, <1>2, Ends
<1>4. head < mbx_size
  <2>1. At(1) < End(1) /\ End(1) <= mbx_size /\ End(1) \in Nat
    BY <1>3, SlotFacts DEF Ring, InBounds
  <2> QED BY <1>1, <1>3, <2>1
<1> QED BY <1>1, <1>3, <1>4 DEF HeadInTheWay, EndInTheWay

LEMMA RingSendNoFront ==
  ASSUME TypeOK, Ring, NEW m \in Message, SendNoFront(m)
  PROVE  Ring'
<1>1. /\ mbx' = mbx /\ mbx_size' = mbx_size /\ head' = head /\ tail' = tail /\ live' = live
      /\ mem' = Marked(mem) /\ mbx
  BY DEF SendNoFront, Refused
<1>2. live # <<>> /\ head < tail
  BY WrapOnce DEF SendNoFront, Empty, Ring, PointersMatch
<1>3. mbx_size \in Nat /\ tail \in Nat
  BY <1>2, Ends DEF TypeOK
<1>4. /\ \A o \in 0 .. mbx_size - 1 : o # tail => mem'[o] = mem[o]
      /\ tail < mbx_size => mem'[tail] = Mark
  BY <1>1, <1>3, MarkedFacts
<1>5. \A i \in Waiting : /\ At(i) \in Nat /\ End(i) \in Nat /\ At(i) < End(i)
                         /\ End(i) <= mbx_size
                         /\ At(i) < tail
  BY <1>2, Unwrapped, SlotFacts DEF Ring, InBounds
<1>6. Intact'
  <2>1. ASSUME NEW i \in Waiting PROVE mem'[At(i)] = live[i].msg
    <3>1. At(i) # tail /\ At(i) \in 0 .. mbx_size - 1
      BY <1>3, <1>5
    <3> QED BY <1>4, <3>1 DEF Ring, Intact
  <2> QED BY <1>1, <2>1 DEF Intact, Waiting, At
<1>7. Chained'
  <2>1. ASSUME NEW i \in Waiting, mem[End(i)] = Mark, End(i) # mbx_size
        PROVE  mem'[End(i)] = Mark
    BY <1>3, <1>4, <1>5, <2>1
  <2> QED BY <1>1, <2>1 DEF Ring, Chained, Waiting, At, End
<1>8. PointersMatch' /\ InBounds' /\ Laps' /\ GapFree'
  BY <1>1 DEF Ring, PointersMatch, InBounds, Laps, GapFree, Waiting, At, End
<1> QED BY <1>6, <1>7, <1>8 DEF Ring

LEMMA RingSendToFront ==
  ASSUME TypeOK, Ring, NEW m \in Message, SendToFront(m)
  PROVE  Ring'
<1>0. PICK n : n = Len(live)
  OBVIOUS
<1>1. Cost(m) \in Nat /\ Cost(m) > 0 /\ Cost(m) % 4 = 0 /\ mbx_size \in Nat
  BY CostFacts DEF HDR_SIZE, TypeOK
<1>2. Put(m, Marked(mem), 0) /\ head' = head /\ mbx /\ live # <<>>
  BY DEF SendToFront, Empty, Ring, PointersMatch
<1>3. /\ n \in Nat \ {0} /\ Waiting = 1 .. n /\ 1 \in Waiting /\ n \in Waiting
      /\ head = At(1) /\ tail = End(n) /\ head \in Nat /\ tail \in Nat
      /\ tail <= mbx_size
  BY <1>0, <1>2, Ends
<1>4. head < tail /\ Cost(m) <= head
  BY <1>1, <1>3, WrapOnce DEF SendToFront
<1>5. /\ Len(live') = n + 1
      /\ Waiting' = 1 .. (n + 1)
      /\ live' # <<>>
      /\ \A i \in Waiting : live'[i] = live[i] /\ At(i)' = At(i) /\ End(i)' = End(i)
      /\ live'[n + 1] = [at |-> 0, msg |-> m]
  <2>1. 0 \in Nat
    OBVIOUS
  <2> QED BY <1>0, <1>2, <1>3, <2>1, PutFacts
<1>6. \A i \in Waiting' \ Waiting : i = n + 1 /\ At(i)' = 0 /\ End(i)' = Cost(m)
  BY <1>1, <1>3, <1>5 DEF At, End
<1>7. mem' = Stored(Marked(mem), 0, m) /\ tail' = Cost(m) /\ mbx' = mbx /\ mbx_size' = mbx_size
  BY <1>1, <1>2 DEF Put
<1>8. /\ mem'[0] = m
      /\ \A o \in 0 .. mbx_size - 1 : Cost(m) <= o /\ o # tail => mem'[o] = mem[o]
      /\ tail < mbx_size => mem'[tail] = Mark
  <2> DEFINE ring == Marked(mem)
  <2>1. /\ DOMAIN ring = 0 .. mbx_size - 1
        /\ \A o \in 0 .. mbx_size - 1 : o # tail => ring[o] = mem[o]
        /\ tail < mbx_size => ring[tail] = Mark
    BY <1>2, <1>3, MarkedFacts
  <2> HIDE DEF ring
  <2>2. 0 \in DOMAIN ring /\ DOMAIN ring \subseteq Nat
    BY <1>1, <1>3, <1>4, <2>1
  <2>3. Stored(ring, 0, m)[0] = m
    BY <2>2, StoredFacts
  <2>4. \A o \in DOMAIN ring : o < 0 \/ 0 + Cost(m) <= o => Stored(ring, 0, m)[o] = ring[o]
    BY <2>2, StoredFacts
  <2>5. mem' = Stored(ring, 0, m)
    BY <1>7 DEF ring
  <2>6. ASSUME NEW o \in 0 .. mbx_size - 1, Cost(m) <= o PROVE mem'[o] = ring[o]
    BY <1>1, <2>1, <2>4, <2>5, <2>6
  <2> QED BY <1>1, <1>3, <1>4, <2>1, <2>3, <2>5, <2>6
<1>9. \A i \in Waiting : /\ At(i) \in Nat /\ End(i) \in Nat /\ At(i) < End(i)
                         /\ End(i) <= mbx_size
                         /\ head <= At(i) /\ End(i) <= tail
  BY <1>2, <1>4, SlotFacts, Unwrapped DEF Ring, InBounds
<1>10. PointersMatch'
  <2>1. At(1)' = head /\ End(n + 1)' = Cost(m)
    BY <1>3, <1>5, <1>6
  <2>2. head' # NULL /\ tail' # NULL
    BY <1>1, <1>2, <1>3, <1>7 DEF NULL
  <2> QED BY <1>2, <1>5, <1>7, <2>1, <2>2 DEF PointersMatch
<1>11. InBounds'
  <2>1. Cost(m) <= mbx_size
    BY <1>1, <1>3, <1>4
  <2>2. \A i \in Waiting : At(i) % 4 = 0
    BY DEF Ring, InBounds
  <2> QED BY <1>1, <1>5, <1>6, <1>7, <1>9, <2>1, <2>2 DEF InBounds
<1>12. Intact'
  <2>1. ASSUME NEW i \in Waiting PROVE mem'[At(i)] = live[i].msg
    <3>1. At(i) # tail /\ Cost(m) <= At(i) /\ At(i) \in 0 .. mbx_size - 1
      BY <1>1, <1>3, <1>4, <1>9
    <3> QED BY <1>8, <3>1 DEF Ring, Intact
  <2> QED BY <1>5, <1>6, <1>8, <2>1 DEF Intact
<1>13. Chained'
  <2>1. ASSUME NEW i \in Waiting, i + 1 \in Waiting
        PROVE  At(i + 1) = End(i)
    BY <1>1, <1>2, <1>3, <1>4, <2>1, Wrapped DEF Ring, Chained
  <2>2. ASSUME NEW i \in Waiting, i + 1 \in Waiting'
        PROVE  \/ At(i + 1)' = End(i)'
               \/ At(i + 1)' = 0 /\ (End(i)' = mbx_size' \/ mem'[End(i)'] = Mark)
    <3>1. CASE i + 1 \in Waiting
      BY <1>5, <2>1, <3>1
    <3>2. CASE i + 1 \notin Waiting
      <4>1. i = n /\ At(i + 1)' = 0 /\ End(i)' = tail
        BY <1>3, <1>5, <1>6, <2>2, <3>2
      <4> QED BY <1>1, <1>3, <1>7, <1>8, <4>1
    <3> QED BY <3>1, <3>2
  <2> QED BY <1>3, <1>5, <2>2 DEF Chained
<1>14. Laps'
  <2>1. ASSUME NEW i \in Waiting', NEW j \in Waiting', i < j
        PROVE  (/\ At(j) >= head => At(i) >= head /\ End(i) <= At(j)
                /\ At(i) < head => End(i) <= At(j))'
    <3>1. i \in Waiting
      BY <1>3, <1>5, <2>1
    <3>2. CASE j \in Waiting
      BY <1>2, <1>5, <2>1, <3>1, <3>2 DEF Ring, Laps
    <3>3. CASE j \notin Waiting
      BY <1>1, <1>2, <1>3, <1>4, <1>5, <1>6, <1>9, <3>1, <3>3
    <3> QED BY <3>2, <3>3
  <2> QED BY <2>1 DEF Laps
<1>15. GapFree'
  BY <1>1, <1>2, <1>3, <1>4, <1>5, <1>6, <1>7, <1>9 DEF GapFree
<1> QED BY <1>10, <1>11, <1>12, <1>13, <1>14, <1>15 DEF Ring

(* A stored message is taken for a marker only if its length reads as '#'. *)
LEMMA NotMarked ==
  ASSUME NoHashLength, NEW m \in Message
  PROVE  ~LooksMarked(m)
BY MarkersDiffer DEF NoHashLength, LooksMarked, Message

LEMMA RingHeadAtMessage ==
  ASSUME TypeOK, Ring, head # NULL
  PROVE  live # <<>> /\ head \in Nat /\ mem[head] = live[1].msg /\ mem[head] \in Message
<1>0. PICK n : n = Len(live)
  OBVIOUS
<1>1. live # <<>>
  BY DEF Ring, PointersMatch
<1>2. 1 \in Waiting /\ head = At(1) /\ head \in Nat
  BY <1>0, <1>1, Ends
<1> QED BY <1>1, <1>2, SlotFacts DEF Ring, Intact

(* The receiver finds the next message where it was put.                   *)
LEMMA NextFound ==
  ASSUME NoHashLength, TypeOK, Ring, NEW len, Recv(len)
  PROVE  /\ live # <<>>
         /\ Len(live) = 1 => head' = NULL /\ tail' = NULL
         /\ Len(live) # 1 => head' = At(2) /\ tail' = tail
<1> DEFINE m == mem[head]
           next == head + Cost(m)
<1>0. PICK n : n = Len(live)
  OBVIOUS
<1>1. live # <<>> /\ head \in Nat /\ m = live[1].msg
  BY RingHeadAtMessage DEF Recv
<1>2. /\ n \in Nat \ {0} /\ Waiting = 1 .. n
      /\ head = At(1) /\ tail = End(n) /\ tail \in Nat
      /\ 1 \in Waiting /\ n \in Waiting
  BY <1>0, <1>1, Ends
<1>3. next = End(1) /\ next \in Nat /\ head < next
  BY <1>1, <1>2, SlotFacts DEF End, At
<1>4. CASE n = 1
  <2>1. next = tail
    BY <1>2, <1>3, <1>4
  <2> QED BY <1>0, <1>1, <1>4, <2>1 DEF Recv
<1>5. CASE n # 1
  <2>1. 2 \in Waiting /\ n \in Waiting /\ 1 < n /\ 1 < 2 /\ 1 + 1 \in Waiting
    BY <1>2, <1>5
  <2>2. /\ At(2) \in Nat /\ End(2) \in Nat /\ At(2) < End(2) /\ live[2].msg \in Message
        /\ At(n) \in Nat /\ End(n) \in Nat /\ At(n) < End(n)
        /\ End(2) <= mbx_size /\ mbx_size \in Nat
    BY <2>1, SlotFacts DEF Ring, InBounds, TypeOK
  <2>3. next # tail
    <3>1. CASE At(n) >= head
      <4>1. End(1) <= At(n)
        BY <1>2, <2>1, <3>1 DEF Ring, Laps
      <4> QED BY <1>2, <1>3, <2>2, <4>1
    <3>2. CASE At(n) < head
      <4>1. ~(head < tail)
        BY <1>1, <1>2, <2>2, <3>2 DEF Ring, GapFree
      <4> QED BY <1>1, <1>2, <1>3, <4>1
    <3> QED BY <1>1, <2>2, <3>1, <3>2
  <2>4. \/ At(2) = next
        \/ At(2) = 0 /\ (next = mbx_size \/ mem[next] = Mark)
    <3>1. \/ At(1 + 1) = End(1)
          \/ At(1 + 1) = 0 /\ (End(1) = mbx_size \/ mem[End(1)] = Mark)
      BY <2>1, <1>2 DEF Ring, Chained
    <3> QED BY <1>3, <3>1
  <2>5. CASE At(2) = next
    <3>1. mem[next] = live[2].msg /\ next # mbx_size
      BY <2>1, <2>2, <2>5 DEF Ring, Intact
    <3>2. ~Beyond(next)
      BY <2>2, <3>1, NotMarked DEF Beyond
    <3> QED BY <1>0, <1>1, <1>5, <2>3, <2>5, <3>2 DEF Recv
  <2>6. CASE At(2) = 0 /\ (next = mbx_size \/ mem[next] = Mark)
    <3>1. Beyond(next)
      BY <2>6 DEF Beyond, LooksMarked
    <3> QED BY <1>0, <1>1, <1>5, <2>3, <2>6, <3>1 DEF Recv
  <2> QED BY <2>4, <2>5, <2>6
<1> QED BY <1>4, <1>5

(* What was the second oldest message becomes the oldest.  Either it lies  *)
(* after the consumed one, or it is at the front and all the waiting       *)
(* messages are in the second lap.                                         *)
LEMMA RingRecv ==
  ASSUME NoHashLength, TypeOK, Ring, NEW len, Recv(len)
  PROVE  Ring'
<1>0. PICK n : n = Len(live)
  OBVIOUS
<1>1. /\ live # <<>>
      /\ live' = SubSeq(live, 2, Len(live))
      /\ mem' = mem /\ mbx' = mbx /\ mbx_size' = mbx_size
  BY NextFound DEF Recv
<1>2. /\ n \in Nat \ {0} /\ Waiting = 1 .. n /\ mbx
      /\ head = At(1) /\ tail = End(n) /\ head \in Nat /\ tail \in Nat
      /\ 1 \in Waiting /\ n \in Waiting
  BY <1>0, <1>1, Ends
<1>3. /\ Waiting' = 1 .. (n - 1)
      /\ Len(live') = n - 1
      /\ \A i \in Waiting' : live'[i] = live[i + 1]
      /\ \A i \in Waiting' : At(i)' = At(i + 1) /\ End(i)' = End(i + 1)
      /\ live' = <<>> <=> n = 1
  BY <1>0, <1>1, RecvFacts
<1>4. \A i \in Waiting' : i + 1 \in Waiting /\ 1 < i + 1
  BY <1>2, <1>3
<1>5. \A i \in Waiting : /\ At(i) \in Nat /\ End(i) \in Nat /\ At(i) < End(i)
                         /\ End(i) <= mbx_size /\ At(i) % 4 = 0
                         /\ mem[At(i)] = live[i].msg
  BY SlotFacts DEF Ring, InBounds, Intact
<1>6. InBounds' /\ Intact'
  BY <1>1, <1>3, <1>4, <1>5 DEF InBounds, Intact
<1>7. Chained'
  <2>1. ASSUME NEW i \in Waiting', i + 1 \in Waiting'
        PROVE  \/ At(i + 1)' = End(i)'
               \/ At(i + 1)' = 0 /\ (End(i)' = mbx_size' \/ mem'[End(i)'] = Mark)
    <3>1. i + 1 \in Waiting /\ (i + 1) + 1 \in Waiting
      BY <1>4, <2>1
    <3>2. \/ At((i + 1) + 1) = End(i + 1)
          \/ At((i + 1) + 1) = 0 /\ (End(i + 1) = mbx_size \/ mem[End(i + 1)] = Mark)
      BY <3>1 DEF Ring, Chained
    <3> QED BY <1>1, <1>3, <2>1, <3>2
  <2> QED BY <2>1 DEF Chained
<1>8. CASE n = 1
  <2>1. PointersMatch'
    BY <1>0, <1>3, <1>8, NextFound DEF PointersMatch
  <2>2. Laps' /\ GapFree'
    BY <1>3, <1>8 DEF Laps, GapFree
  <2> QED BY <1>6, <1>7, <2>1, <2>2 DEF Ring
<1>9. CASE n # 1
  <2>1. head' = At(2) /\ tail' = tail /\ 2 \in Waiting
    BY <1>0, <1>2, <1>9, NextFound
  <2>2. PointersMatch'
    <3>1. 1 \in Waiting' /\ n - 1 \in Waiting'
      BY <1>2, <1>3, <1>9
    <3>2. At(1)' = At(2) /\ End(n - 1)' = End(n)
      BY <1>2, <1>3, <3>1
    <3>3. At(2) # NULL /\ tail # NULL
      BY <1>2, <1>5, <2>1 DEF NULL
    <3> QED BY <1>1, <1>2, <1>3, <1>9, <2>1, <3>2, <3>3 DEF PointersMatch
  <2>3. At(2) = End(1) \/ At(2) = 0
    <3>1. 1 + 1 \in Waiting
      BY <2>1
    <3>2. At(1 + 1) = End(1) \/ At(1 + 1) = 0
      BY <1>2, <3>1 DEF Ring, Chained
    <3> QED BY <3>2
  <2>4. ASSUME NEW i \in Waiting, 1 < i
        PROVE  IF At(2) = 0 THEN At(i) < head
               ELSE At(i) >= head => At(i) >= At(2)
    <3>1. CASE i = 2
      BY <1>2, <1>5, <2>1, <3>1 DEF Ring, Laps
    <3>2. CASE i # 2
      <4>1. 2 < i
        BY <1>2, <2>4, <3>2
      <4>2. /\ At(i) >= head => At(2) >= head /\ End(2) <= At(i)
            /\ At(2) >= head => End(1) <= At(2)
        BY <1>2, <2>1, <4>1 DEF Ring, Laps
      <4> QED BY <1>2, <1>5, <2>1, <4>2
    <3> QED BY <3>1, <3>2
  <2>5. ASSUME NEW i \in Waiting, NEW j \in Waiting, 1 < i, i < j
        PROVE  /\ At(j) >= At(2) => At(i) >= At(2) /\ End(i) <= At(j)
               /\ At(i) < At(2) => End(i) <= At(j)
    <3>1. /\ At(j) >= head => At(i) >= head /\ End(i) <= At(j)
          /\ At(i) < head => End(i) <= At(j)
      BY <2>5 DEF Ring, Laps
    <3>2. 1 < j
      BY <1>2, <2>5
    <3>3. CASE At(2) = 0
      BY <1>2, <1>5, <2>4, <2>5, <3>1, <3>2, <3>3
    <3>4. CASE At(2) = End(1) /\ At(2) # 0
      BY <1>2, <1>5, <2>4, <2>5, <3>1, <3>2, <3>4, SMTT(30)
    <3> QED BY <2>3, <3>3, <3>4
  <2>6. Laps'
    <3>1. ASSUME NEW i \in Waiting', NEW j \in Waiting', i < j
          PROVE  (/\ At(j) >= head => At(i) >= head /\ End(i) <= At(j)
                  /\ At(i) < head => End(i) <= At(j))'
      <4>1. i + 1 \in Waiting /\ j + 1 \in Waiting /\ 1 < i + 1 /\ i + 1 < j + 1
        BY <1>2, <1>3, <1>4, <3>1
      <4> QED BY <1>3, <2>1, <2>5, <3>1, <4>1
    <3> QED BY <3>1 DEF Laps
  <2>7. ASSUME NEW i \in Waiting, 1 < i
        PROVE  /\ At(2) < tail => At(2) <= At(i) /\ End(i) <= tail
               /\ tail <= At(2) => End(i) <= tail \/ At(2) <= At(i)
    <3>1. /\ head < tail => head <= At(i) /\ End(i) <= tail /\ head <= At(2)
          /\ tail <= head => End(i) <= tail \/ head <= At(i)
      BY <1>2, <2>1 DEF Ring, GapFree
    <3>2. CASE At(2) = 0
      BY <1>2, <1>5, <2>1, <2>4, <2>7, <3>1, <3>2
    <3>3. CASE At(2) = End(1) /\ At(2) # 0
      BY <1>2, <1>5, <2>1, <2>4, <2>7, <3>1, <3>3
    <3> QED BY <2>3, <3>2, <3>3
  <2>8. GapFree'
    <3>1. ASSUME NEW i \in Waiting'
          PROVE  (/\ head < tail => head <= At(i) /\ End(i) <= tail
                  /\ tail <= head => End(i) <= tail \/ head <= At(i))'
      <4>1. i + 1 \in Waiting /\ 1 < i + 1
        BY <1>4
      <4> QED BY <1>3, <2>1, <2>7, <4>1
    <3> QED BY <3>1 DEF GapFree
  <2> QED BY <1>6, <1>7, <2>2, <2>6, <2>8 DEF Ring
<1> QED BY <1>8, <1>9

LEMMA RingRefused ==
  ASSUME Ring, NEW m \in Message, Refused(m), mem' = mem
  PROVE  Ring'
BY DEF Refused, Ring, PointersMatch, InBounds, Intact, Chained, Laps, GapFree,
       Waiting, At, End

LEMMA RingEmpty ==
  ASSUME live' = <<>>, head' = NULL, tail' = NULL
  PROVE  Ring'
<1>1. Waiting' = {}
  BY DEF Waiting
<1> QED BY <1>1 DEF Ring, PointersMatch, InBounds, Intact, Chained, Laps, GapFree

LEMMA RingInit == Init => Ring
BY DEF Init, Ring, PointersMatch, InBounds, Intact, Chained, Laps, GapFree, Waiting

LEMMA RingStep ==
  ASSUME NoHashLength
  PROVE  TypeOK /\ Ring /\ [Next]_vars => Ring'
<1> SUFFICES ASSUME TypeOK, Ring, [Next]_vars PROVE Ring'
  OBVIOUS
<1>1. ASSUME NEW size \in MbxSizes, Create(size) PROVE Ring'
  <2>1. live = <<>> /\ head = NULL /\ tail = NULL
    BY <1>1 DEF Create, Ring, PointersMatch
  <2> QED BY <1>1, <2>1, RingEmpty DEF Create
<1>2. ASSUME Reset PROVE Ring'
  BY <1>2, RingEmpty DEF Reset
<1>3. ASSUME NEW m \in Message, Send(m) PROVE Ring'
  <2>1. CASE SendTooLarge(m)
    BY <2>1, RingRefused DEF SendTooLarge
  <2>2. CASE SendNoGap(m)
    BY <2>2, RingRefused DEF SendNoGap
  <2> QED BY <1>3, <2>1, <2>2, RingSendFirst, RingSendToFront, RingSendNoFront,
             RingSendToTail DEF Send
<1>4. ASSUME NEW len \in RecvLens, Recv(len) PROVE Ring'
  BY <1>4, RingRecv
<1>5. CASE UNCHANGED vars
  BY <1>5 DEF vars, Ring, PointersMatch, InBounds, Intact, Chained, Laps, GapFree,
              Waiting, At, End
<1> QED BY <1>1, <1>2, <1>3, <1>4, <1>5 DEF Next

LEMMA RingPaired == Ring => Paired
BY DEF Ring, PointersMatch, Paired

(* The layout of the ring: the pointers delimit the waiting messages, each *)
(* is inside the block and unharmed, and from each the next can be found.  *)
(* It needs that no message is as long as to look like a wrap marker.      *)
THEOREM RingCorrect ==
  ASSUME NoHashLength
  PROVE  Spec => []Ring
<1>1. Init => TypeOK /\ Ring
  BY TypeInit, RingInit
<1>2. TypeOK /\ Ring /\ [Next]_vars => TypeOK' /\ Ring'
  BY TypeStep, RingStep, RingPaired
<1> QED BY <1>1, <1>2, PTL DEF Spec

(* An accepted message is not overwritten before it is consumed.           *)
THEOREM IntactCorrect ==
  ASSUME NoHashLength
  PROVE  Spec => []Intact
<1>1. Ring => Intact
  BY DEF Ring
<1> QED BY <1>1, RingCorrect, PTL

(* Waiting messages never share a byte of the mailbox.                     *)
THEOREM NoOverlapCorrect ==
  ASSUME NoHashLength
  PROVE  Spec => []NoOverlap
BY TypeCorrect, RingCorrect, RingNoOverlap, PTL

(* The receiver always takes the bytes of a message for a message.         *)
THEOREM HeadCorrect ==
  ASSUME NoHashLength
  PROVE  Spec => []HeadAtMessage
<1>1. TypeOK /\ Ring => HeadAtMessage
  BY RingHeadAtMessage DEF HeadAtMessage
<1> QED BY <1>1, TypeCorrect, RingCorrect, PTL
-------------------------------------------------------------------------------
(* The mailbox implements the queue.                                       *)

Contents(s) == [i \in DOMAIN s |-> s[i].msg]

LEMMA ContentsFacts ==
  ASSUME NEW s \in Seq(Slot)
  PROVE  /\ Contents(s) \in Seq(Message)
         /\ Len(Contents(s)) = Len(s)
         /\ \A i \in 1 .. Len(s) : Contents(s)[i] = s[i].msg
         /\ Contents(s) = <<>> <=> s = <<>>
<1>1. Len(s) \in Nat /\ DOMAIN s = 1 .. Len(s)
  BY LenProperties
<1>2. ASSUME NEW i \in 1 .. Len(s) PROVE s[i].msg \in Message
  <2>1. s[i] \in Slot
    BY ElementOfSeq
  <2> QED BY <2>1 DEF Slot
<1>3. Contents(s) \in [1 .. Len(s) -> Message]
  BY <1>1, <1>2 DEF Contents
<1>4. Contents(s) \in Seq(Message) /\ Len(Contents(s)) = Len(s)
  BY <1>1, <1>3, SMT
<1>5. \A i \in 1 .. Len(s) : Contents(s)[i] = s[i].msg
  BY <1>1 DEF Contents
<1>6. Contents(s) = <<>> <=> s = <<>>
  BY <1>1, <1>4, EmptySeq
<1> QED BY <1>4, <1>5, <1>6

LEMMA ContentsAppend ==
  ASSUME NEW s \in Seq(Slot), NEW x \in Slot
  PROVE  Contents(Append(s, x)) = Append(Contents(s), x.msg)
<1> DEFINE t == Append(s, x)
           c == Append(Contents(s), x.msg)
<1>1. /\ Contents(s) \in Seq(Message) /\ Len(Contents(s)) = Len(s) /\ Len(s) \in Nat
      /\ \A i \in 1 .. Len(s) : Contents(s)[i] = s[i].msg
  BY ContentsFacts, LenProperties
<1>2. t \in Seq(Slot) /\ Len(t) = Len(s) + 1 /\ t[Len(s) + 1] = x
      /\ \A i \in 1 .. Len(s) : t[i] = s[i]
  BY <1>1, AppendProperties
<1>3. x.msg \in Message
  BY DEF Slot
<1>4. c \in Seq(Message) /\ Len(c) = Len(s) + 1 /\ c[Len(s) + 1] = x.msg
      /\ \A i \in 1 .. Len(s) : c[i] = Contents(s)[i]
  BY <1>1, <1>3, AppendProperties
<1> HIDE DEF t, c
<1>5. /\ Contents(t) \in Seq(Message) /\ Len(Contents(t)) = Len(s) + 1
      /\ \A i \in 1 .. Len(s) + 1 : Contents(t)[i] = t[i].msg
  BY <1>2, ContentsFacts
<1>6. \A i \in 1 .. Len(s) + 1 : Contents(t)[i] = c[i]
  BY <1>1, <1>2, <1>4, <1>5
<1>7. Contents(t) = c
  BY <1>4, <1>5, <1>6, SeqEqual
<1> QED BY <1>7 DEF t, c

LEMMA ContentsTail ==
  ASSUME NEW s \in Seq(Slot), s # <<>>
  PROVE  /\ Contents(SubSeq(s, 2, Len(s))) = Tail(Contents(s))
         /\ Head(Contents(s)) = s[1].msg
<1> DEFINE t == Tail(s)
           c == Tail(Contents(s))
<1>1. /\ Contents(s) \in Seq(Message) /\ Len(Contents(s)) = Len(s)
      /\ Len(s) \in Nat \ {0}
      /\ \A i \in 1 .. Len(s) : Contents(s)[i] = s[i].msg
      /\ Contents(s) # <<>>
  BY ContentsFacts, EmptySeq
<1>2. t \in Seq(Slot) /\ Len(t) = Len(s) - 1
      /\ \A i \in 1 .. Len(t) : t[i] = s[i + 1]
  BY HeadTailProperties
<1>3. c \in Seq(Message) /\ Len(c) = Len(s) - 1
      /\ \A i \in 1 .. Len(c) : c[i] = Contents(s)[i + 1]
  BY <1>1, HeadTailProperties
<1> HIDE DEF t, c
<1>4. /\ Contents(t) \in Seq(Message) /\ Len(Contents(t)) = Len(s) - 1
      /\ \A i \in 1 .. Len(s) - 1 : Contents(t)[i] = t[i].msg
  BY <1>2, ContentsFacts
<1>5. ASSUME NEW i \in 1 .. Len(s) - 1 PROVE Contents(t)[i] = c[i]
  <2>1. i + 1 \in 1 .. Len(s) /\ i \in 1 .. Len(t) /\ i \in 1 .. Len(c)
    BY <1>1, <1>2, <1>3
  <2>2. Contents(t)[i] = s[i + 1].msg
    BY <1>2, <1>4, <2>1
  <2>3. c[i] = s[i + 1].msg
    BY <1>1, <1>3, <2>1
  <2> QED BY <2>2, <2>3
<1>6. Contents(t) = c
  BY <1>3, <1>4, <1>5, SeqEqual
<1>7. SubSeq(s, 2, Len(s)) = t
  BY TailIsSubSeq DEF t
<1>8. Head(Contents(s)) = s[1].msg
  BY <1>1
<1> QED BY <1>6, <1>7, <1>8 DEF c

LEMMA FifoInit == Init => Queue!Init
<1> SUFFICES ASSUME Init PROVE Queue!Init
  OBVIOUS
<1>1. Contents(live) = <<>>
  BY ContentsFacts, EmptySeq DEF Init
<1> QED BY <1>1 DEF Init, Queue!Init, Contents, NoCall, Queue!NoCall

LEMMA FifoSend ==
  ASSUME TypeOK, Ring, NEW m \in Message, Send(m)
  PROVE  Queue!Accept(m) \/ Queue!Refuse(m)
<1>0. live \in Seq(Slot)
  BY DEF TypeOK, Slot
<1>1. ASSUME NEW ring, NEW at \in Nat, Put(m, ring, at), mbx, ~TooLarge(m)
      PROVE  Queue!Accept(m)
  <2>1. [at |-> at, msg |-> m] \in Slot /\ [at |-> at, msg |-> m].msg = m
    BY DEF Slot
  <2>2. Contents(live') = Append(Contents(live), m)
    BY <1>0, <1>1, <2>1, ContentsAppend DEF Put
  <2>3. Cost(m) <= mbx_size
    BY <1>1, CostFacts DEF TooLarge, TypeOK
  <2> QED BY <1>1, <2>2, <2>3 DEF Queue!Accept, Put, Contents, Called, Queue!Called, Queue!Cost,
             Queue!get_real_size, Cost, get_real_size
<1>2. ASSUME Refused(m), mbx, TooLarge(m) \/ live # <<>>
      PROVE  Queue!Refuse(m)
  <2>1. Contents(live') = Contents(live)
    BY <1>2 DEF Refused
  <2>2. Cost(m) > mbx_size \/ Contents(live) # <<>>
    <3>1. m.length \in Lengths
      BY DEF Message
    <3>2. m.length \in Nat /\ m.length >= 8
      BY <3>1, LengthsAssumption DEF HDR_SIZE
    <3> QED BY <1>0, <1>2, <3>2, ContentsFacts DEF TooLarge, MIN_MSG_SIZE
  <2> QED BY <1>2, <2>1, <2>2 DEF Queue!Refuse, Refused, Contents, Called, Queue!Called,
             Queue!Cost, Queue!get_real_size, Cost, get_real_size
<1>3. ~Empty => live # <<>>
  BY DEF Empty, Ring, PointersMatch
<1>4. ~Empty => tail \in Nat
  BY <1>3, Ends
<1>5. CASE SendTooLarge(m)
  BY <1>2, <1>5 DEF SendTooLarge
<1>6. CASE SendFirst(m)
  BY <1>1, <1>6 DEF SendFirst
<1>7. CASE SendNoGap(m)
  BY <1>2, <1>3, <1>7 DEF SendNoGap
<1>8. CASE SendToFront(m)
  BY <1>1, <1>8 DEF SendToFront
<1>9. CASE SendNoFront(m)
  BY <1>2, <1>3, <1>9 DEF SendNoFront
<1>10. CASE SendToTail(m)
  BY <1>1, <1>4, <1>10 DEF SendToTail
<1> QED BY <1>5, <1>6, <1>7, <1>8, <1>9, <1>10 DEF Send

LEMMA FifoRecv ==
  ASSUME TypeOK, Ring, NEW len, Recv(len)
  PROVE  Queue!Deliver(len)
<1>1. live # <<>> /\ mem[head] = live[1].msg
  BY RingHeadAtMessage DEF Recv
<1>2. live \in Seq(Slot)
  BY DEF TypeOK, Slot
<1>3. /\ Contents(live') = Tail(Contents(live))
      /\ Head(Contents(live)) = mem[head]
      /\ Contents(live) # <<>>
  BY <1>1, <1>2, ContentsTail, ContentsFacts DEF Recv
<1> QED BY <1>3 DEF Recv, Queue!Deliver, Contents, Called, Queue!Called

LEMMA FifoStep == TypeOK /\ Ring /\ [Next]_vars => [Queue!Next]_(Queue!qvars)
<1> SUFFICES ASSUME TypeOK, Ring, [Next]_vars
             PROVE  Queue!Next \/ UNCHANGED Queue!qvars
  OBVIOUS
<1>1. ASSUME NEW size \in MbxSizes, Create(size) PROVE Queue!Create(size)
  BY <1>1 DEF Create, Queue!Create
<1>2. ASSUME Reset PROVE Queue!Reset
  <2>1. Contents(live') = <<>>
    BY <1>2, ContentsFacts, EmptySeq DEF Reset
  <2> QED BY <1>2, <2>1 DEF Reset, Queue!Reset, Contents
<1>3. CASE UNCHANGED vars
  BY <1>3 DEF vars, Queue!qvars
<1>4. Queue!Message = Message
  BY DEF Queue!Message, Message
<1> QED BY <1>1, <1>2, <1>3, <1>4, FifoSend, FifoRecv DEF Next, Queue!Next

(* A mailbox is a queue: what is accepted is delivered once, unchanged, in *)
(* order, and what is refused did not fit or found others waiting.         *)
THEOREM FifoCorrect ==
  ASSUME NoHashLength
  PROVE  Spec => Fifo
<1>1. TypeOK /\ Ring /\ [Next]_vars => [Queue!Next]_(Queue!qvars)
  BY FifoStep
<1> QED BY <1>1, FifoInit, TypeCorrect, RingCorrect, PTL DEF Spec, Fifo, Queue!Spec
================================================================================
