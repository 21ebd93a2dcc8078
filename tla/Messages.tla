------------------------------- MODULE Messages -------------------------------
(***************************************************************************)
(* What a message is, and how much of a mailbox it takes.  The data of a   *)
(* message is abstracted to a value of Bodies (its type and its bytes);    *)
(* its length keeps its number, because the mailbox is laid out with it.   *)
(***************************************************************************)
EXTENDS Integers

CONSTANTS
  Lengths,   \* values of the length field of the messages tasks send
  Bodies,    \* message types and contents
  Senders    \* task ids that send

HDR_SIZE     == 8     \* sizeof(RTX_MSG_HDR), two U32 fields
MIN_MSG_SIZE == 1
MIN_MBX_SIZE == 1

(* The length field counts the header.                                     *)
ASSUME LengthsAssumption == Lengths \subseteq {n \in Nat : n >= HDR_SIZE}

Message == [length : Lengths, body : Bodies, sender : Senders]

(* get_real_size: the next multiple of four.                               *)
get_real_size(n) == IF n % 4 = 0 THEN n ELSE n + (4 - (n % 4))

(* The bytes a message takes in a mailbox: its length, one byte for the    *)
(* id of the sender, and the padding to a multiple of four.                *)
Cost(m) == get_real_size(m.length + 1)

(* The outcome of the last call on a mailbox, as its caller sees it: which *)
(* call, whether it returned RTX_OK, and the message it sent or consumed.  *)
Outcome == [call : {"send", "recv"}, ok : BOOLEAN, msg : Message]

Outcomes == Outcome \cup {[call |-> "none"]}

Called(c, ok, m) == [call |-> c, ok |-> ok, msg |-> m]
NoCall == [call |-> "none"]
===============================================================================
