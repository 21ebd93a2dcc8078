------------------------------- MODULE Mailbox --------------------------------
(***************************************************************************)
(* The mailbox of one task (k_msg.c): a ring of mbx_size bytes in the heap *)
(* block that k_mbx_create allocates.  Addresses are offsets from its      *)
(* start, which is 8-byte aligned.  Every message starts at a multiple of  *)
(* four and fills whole words.  Messages are never split: one that does    *)
(* not fit between tail and the end goes to the front, and a '#' written   *)
(* over the first byte at the old tail tells the receiver to follow.       *)
(*                                                                         *)
(* That byte is also the low byte of a message's length, so whether a word *)
(* reads as a marker is a question about the message stored there: see     *)
(* LooksMarked and NoHashLength.                                           *)
(*                                                                         *)
(* The blocking of a receiver and its wake-up are not here but in Rtx.     *)
(***************************************************************************)
EXTENDS Messages, Sequences

CONSTANTS
  MbxSizes,  \* the sizes applications call k_mbx_create with
  RecvLens,  \* the buffer lengths they call k_recv_msg with
  Mark,      \* a word whose first byte was overwritten with '#'
  Junk       \* a word that starts no message: payload, or never written

ASSUME MbxSizesAssumption == MbxSizes \subseteq Nat
ASSUME RecvLensAssumption == RecvLens \subseteq Nat
ASSUME CellsAssumption == Mark # Junk /\ {Mark, Junk} \cap Message = {}

HASH == 35    \* '#'
NULL == -1    \* no address

VARIABLES
  mbx,        \* receiver->mbx is not NULL
  mbx_size,
  head,       \* the oldest message, or NULL
  tail,       \* where the next message goes, or NULL
  mem,        \* what starts at each offset of the ring
  out,        \* outcome of the last call
  live        \* history: where each waiting message was put, oldest first

vars == <<mbx, mbx_size, head, tail, mem, out, live>>

Cell == Message \cup {Mark, Junk}

(* The first byte at an address is '#'.                                    *)
LooksMarked(c) == c = Mark \/ (c \in Message /\ c.length % 256 = HASH)

(* The hard copy of a message to offset at: its first word reads as the    *)
(* message, the words under the rest of it no longer start anything.       *)
Stored(ring, at, m) ==
  [o \in DOMAIN ring |->
     IF o = at THEN m
     ELSE IF at < o /\ o < at + Cost(m) THEN Junk
     ELSE ring[o]]

(* Mutant of Marked: the marker is not written.                            *)
MarkedNever(ring) == ring

Marked(ring) == IF mbx_size > tail THEN [ring EXCEPT ![tail] = Mark] ELSE ring

-------------------------------------------------------------------------------
Init ==
  /\ mbx = FALSE
  /\ mbx_size = 0
  /\ head = NULL
  /\ tail = NULL
  /\ mem = [o \in {} |-> Junk]
  /\ out = NoCall
  /\ live = <<>>

(* Mutant of Create: the size is rounded up to words, the block is not.    *)
CreateRounded(size) ==
  /\ ~mbx
  /\ size >= MIN_MBX_SIZE
  /\ mbx_size' = get_real_size(size)
  /\ mbx' = TRUE
  /\ mem' = [o \in 0 .. size - 1 |-> Junk]
  /\ UNCHANGED <<head, tail, out, live>>

(* k_mbx_create.  The size is set before the allocation, which may fail.   *)
Create(size) ==
  /\ ~mbx
  /\ size >= MIN_MBX_SIZE
  /\ mbx_size' = size
  /\ \E allocated \in BOOLEAN :
       /\ mbx' = allocated
       /\ mem' = [o \in (IF allocated THEN 0 .. size - 1 ELSE {}) |-> Junk]
  /\ UNCHANGED <<head, tail, out, live>>

(* mbx_init, when the slot of a task that exited is given to a new task.   *)
Reset ==
  /\ mbx' = FALSE
  /\ mbx_size' = 0
  /\ head' = NULL
  /\ tail' = NULL
  /\ mem' = [o \in {} |-> Junk]
  /\ live' = <<>>
  /\ UNCHANGED out

-------------------------------------------------------------------------------
(* k_send_msg: the tests of its if-else chain, in the order they are made. *)

(* Mutants: the size of the mailbox is not looked at; the place of head is *)
(* looked at only where tail has met it, or only where it has not.         *)
TooLargeNever(m) == m.length < MIN_MSG_SIZE
HeadInTheWayWhenMet(m) == tail = head
HeadInTheWayWhenNotMet(m) == head > tail /\ head - tail < Cost(m)

TooLarge(m) == m.length < MIN_MSG_SIZE \/ Cost(m) > mbx_size
Empty == head = NULL /\ tail = NULL
HeadInTheWay(m) == tail = head \/ (head > tail /\ head - tail < Cost(m))
EndInTheWay(m) == tail = mbx_size \/ mbx_size - tail < Cost(m)

Refused(m) ==
  /\ out' = Called("send", FALSE, m)
  /\ UNCHANGED <<mbx, mbx_size, head, tail, live>>

Put(m, ring, at) ==
  /\ mem' = Stored(ring, at, m)
  /\ tail' = at + Cost(m)
  /\ live' = Append(live, [at |-> at, msg |-> m])
  /\ out' = Called("send", TRUE, m)
  /\ UNCHANGED <<mbx, mbx_size>>

SendTooLarge(m) ==
  /\ mbx
  /\ TooLarge(m)
  /\ Refused(m)
  /\ UNCHANGED mem

SendFirst(m) ==
  /\ mbx
  /\ ~TooLarge(m)
  /\ Empty
  /\ Put(m, mem, 0)
  /\ head' = 0

SendNoGap(m) ==
  /\ mbx
  /\ ~TooLarge(m)
  /\ ~Empty
  /\ HeadInTheWay(m)
  /\ Refused(m)
  /\ UNCHANGED mem

SendToFront(m) ==
  /\ mbx
  /\ ~TooLarge(m)
  /\ ~Empty
  /\ ~HeadInTheWay(m)
  /\ EndInTheWay(m)
  /\ head >= Cost(m)
  /\ Put(m, Marked(mem), 0)
  /\ UNCHANGED head

(* The marker is written before the front is found to have no room.        *)
SendNoFront(m) ==
  /\ mbx
  /\ ~TooLarge(m)
  /\ ~Empty
  /\ ~HeadInTheWay(m)
  /\ EndInTheWay(m)
  /\ head < Cost(m)
  /\ mem' = Marked(mem)
  /\ Refused(m)

SendToTail(m) ==
  /\ mbx
  /\ ~TooLarge(m)
  /\ ~Empty
  /\ ~HeadInTheWay(m)
  /\ ~EndInTheWay(m)
  /\ Put(m, mem, tail)
  /\ UNCHANGED head

Send(m) ==
  \/ SendTooLarge(m) \/ SendFirst(m) \/ SendNoGap(m)
  \/ SendToFront(m) \/ SendNoFront(m) \/ SendToTail(m)

-------------------------------------------------------------------------------
(* k_recv_msg from the point where there is a message.  If head were not   *)
(* at a message the bytes there would be read as one: HeadAtMessage.       *)

HeadAtMessage == head # NULL => mem[head] \in Message

(* Mutant of Beyond: the marker is not looked for.                         *)
BeyondAtEnd(o) == o = mbx_size

Beyond(o) == o = mbx_size \/ LooksMarked(mem[o])

Recv(len) ==
  LET m == mem[head]
      next == head + Cost(m)
  IN  /\ mbx
      /\ head # NULL
      /\ mem[head] \in Message
      /\ head' = IF next = tail THEN NULL ELSE IF Beyond(next) THEN 0 ELSE next
      /\ tail' = IF next = tail THEN NULL ELSE tail
      /\ live' = SubSeq(live, 2, Len(live))
      /\ out' = Called("recv", m.length <= len, m)
      /\ UNCHANGED <<mbx, mbx_size, mem>>

-------------------------------------------------------------------------------
Next ==
  \/ \E size \in MbxSizes : Create(size)
  \/ Reset
  \/ \E m \in Message : Send(m)
  \/ \E len \in RecvLens : Recv(len)

Spec == Init /\ [][Next]_vars

-------------------------------------------------------------------------------
(* The lengths for which a stored message cannot be taken for a marker.    *)
NoHashLength == \A n \in Lengths : n % 256 # HASH

(* Types of the variables.                                                 *)
TypeOK ==
  /\ mbx \in BOOLEAN
  /\ mbx_size \in Nat
  /\ head \in Nat \cup {NULL}
  /\ tail \in Nat \cup {NULL}
  /\ mem \in [(IF mbx THEN 0 .. mbx_size - 1 ELSE {}) -> Cell]
  /\ out \in Outcomes
  /\ live \in Seq([at : Nat, msg : Message])

At(i) == live[i].at
End(i) == live[i].at + Cost(live[i].msg)
Waiting == DOMAIN live

(* The pointers delimit exactly the waiting messages.                      *)
PointersMatch ==
  /\ live = <<>> <=> head = NULL
  /\ live = <<>> <=> tail = NULL
  /\ live # <<>> => mbx /\ head = At(1) /\ tail = End(Len(live))

(* The comment in k_recv_msg (k_msg.c:193): "move head to the next         *)
(* message".                                                               *)
HeadAtOldest == live # <<>> => head = At(1)

(* No message reaches outside the block allocated for the mailbox.         *)
InBounds == \A i \in Waiting : At(i) % 4 = 0 /\ End(i) <= mbx_size

(* No accepted message is overwritten before it is consumed, neither by a  *)
(* later message nor by a marker.                                          *)
Intact == \A i \in Waiting : mem[At(i)] = live[i].msg

(* Waiting messages do not share a byte.                                   *)
NoOverlap ==
  \A i, j \in Waiting : i # j => End(i) <= At(j) \/ End(j) <= At(i)

(* The message after the i-th is found from where the i-th ends: right     *)
(* there, or at the front when the end of the ring or a marker is there.   *)
Chained ==
  \A i \in Waiting : i + 1 \in Waiting =>
     \/ At(i + 1) = End(i)
     \/ At(i + 1) = 0 /\ (End(i) = mbx_size \/ mem[End(i)] = Mark)

(* The messages at or after head are older than those before it, and in    *)
(* each of the two groups age goes with address.                           *)
Laps ==
  \A i, j \in Waiting : i < j =>
     /\ At(j) >= head => At(i) >= head /\ End(i) <= At(j)
     /\ At(i) < head => End(i) <= At(j)

(* The gap between tail and head holds no message.                         *)
GapFree ==
  \A i \in Waiting :
     /\ head < tail => head <= At(i) /\ End(i) <= tail
     /\ tail <= head => End(i) <= tail \/ head <= At(i)

Ring == PointersMatch /\ InBounds /\ Intact /\ Chained /\ Laps /\ GapFree

(* A mailbox is a queue: see MessageQueue.                                 *)
Queue == INSTANCE MessageQueue WITH
           open <- mbx,
           capacity <- mbx_size,
           queue <- [i \in DOMAIN live |-> live[i].msg]

Fifo == Queue!Spec
===============================================================================
