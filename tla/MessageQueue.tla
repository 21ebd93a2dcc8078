----------------------------- MODULE MessageQueue -----------------------------
(***************************************************************************)
(* What a mailbox promises to the tasks that use it: a queue.  A message   *)
(* that is accepted is consumed exactly once, unchanged, in the order of   *)
(* acceptance; a message is refused only if it is larger than the mailbox  *)
(* or other messages are still waiting.                                    *)
(***************************************************************************)
EXTENDS Messages, Sequences

CONSTANTS MbxSizes, RecvLens

VARIABLES
  open,       \* the owner has a mailbox
  capacity,   \* the size it was created with
  queue,      \* accepted and not yet consumed, oldest first
  out         \* outcome of the last call

qvars == <<open, capacity, queue, out>>

Init ==
  /\ open = FALSE
  /\ capacity = 0
  /\ queue = <<>>
  /\ out = NoCall

(* A creation may fail for want of memory; the size is kept all the same.  *)
Create(size) ==
  /\ ~open
  /\ open' \in BOOLEAN
  /\ capacity' = size
  /\ UNCHANGED <<queue, out>>

(* The task ended and its slot is used for a new task: the messages that   *)
(* were waiting are lost with the mailbox.                                 *)
Reset ==
  /\ open' = FALSE
  /\ capacity' = 0
  /\ queue' = <<>>
  /\ UNCHANGED out

Accept(m) ==
  /\ open
  /\ Cost(m) <= capacity
  /\ queue' = Append(queue, m)
  /\ out' = Called("send", TRUE, m)
  /\ UNCHANGED <<open, capacity>>

Refuse(m) ==
  /\ open
  /\ Cost(m) > capacity \/ queue # <<>>
  /\ out' = Called("send", FALSE, m)
  /\ UNCHANGED <<open, capacity, queue>>

(* A message longer than the receiver's buffer is consumed and lost.       *)
Deliver(len) ==
  /\ open
  /\ queue # <<>>
  /\ queue' = Tail(queue)
  /\ out' = Called("recv", Head(queue).length <= len, Head(queue))
  /\ UNCHANGED <<open, capacity>>

Next ==
  \/ \E size \in MbxSizes : Create(size)
  \/ Reset
  \/ \E m \in Message : Accept(m) \/ Refuse(m)
  \/ \E len \in RecvLens : Deliver(len)

Spec == Init /\ [][Next]_qvars
===============================================================================
