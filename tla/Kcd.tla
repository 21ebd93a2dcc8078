---------------------------------- MODULE Kcd ----------------------------------
(***************************************************************************)
(* The KCD task (kcd_task.c): what it does with a message it received.  A  *)
(* registration maps an identifier to its sender; a key is added to the    *)
(* line; the return key sends the line to the task that registered its     *)
(* second character.  Messages that are neither, or longer than its        *)
(* buffer, change nothing.  System says how messages reach it and where    *)
(* its commands go.                                                        *)
(***************************************************************************)
EXTENDS Integers, Sequences, SequencesExt

CONSTANTS
  Chars,     \* characters typed and registered, the return key apart
  Percent,   \* '%'
  LONGEST    \* the longest line, '%' included, that is a command: 63

NOBODY == -1   \* receiver_tid when no task registered the identifier

VARIABLES
  identifies,   \* the identifiers registered: [val, tid]
  line          \* the characters after head

Init ==
  /\ identifies = <<>>
  /\ line = <<>>

(* Mutant of Known: an identifier registered before is not found.          *)
KnownNever(c) == FALSE

(* The table has an entry for the identifier.                              *)
Known(c) == \E i \in DOMAIN identifies : identifies[i].val = c

(* Mutant of Reregister: the entry stays that of the first task.           *)
ReregisterIgnored(t, c) == UNCHANGED identifies

Reregister(t, c) ==
  \E i \in DOMAIN identifies :
    /\ identifies[i].val = c
    /\ \A j \in 1 .. i - 1 : identifies[j].val # c
    /\ identifies' = [identifies EXCEPT ![i].tid = t]

(* KCD_REG: the entry of the identifier is replaced, or one is added.      *)
Register(t, c) ==
  /\ IF Known(c) THEN Reregister(t, c)
     ELSE identifies' = Append(identifies, [val |-> c, tid |-> t])
  /\ UNCHANGED line

(* KEY_IN.                                                                 *)
KeyIn(c) ==
  /\ line' = Append(line, c)
  /\ UNCHANGED identifies

(* The last entry with the identifier counts.                              *)
receiver_tid(c) ==
  LET entries == {i \in DOMAIN identifies : identifies[i].val = c}
  IN  IF entries = {} THEN NOBODY ELSE identifies[Max(entries)].tid

(* The identifier of a line of one character is read through NULL: it may  *)
(* be any character.                                                       *)
MsgIdentifiers == IF Len(line) = 1 THEN Chars ELSE {line[2]}

(* The return key first: nothing happens.                                  *)
EmptyLine == line = <<>> /\ UNCHANGED <<identifies, line>>

Invalid == Head(line) # Percent \/ Len(line) > LONGEST

(* Mutant of Cleared: the line is kept.                                    *)
ClearedNot == UNCHANGED <<identifies, line>>

Cleared == line' = <<>> /\ UNCHANGED identifies

(* The return key after a line that is no command, or one for nobody.      *)
Rejected ==
  /\ line # <<>>
  /\ \E c \in MsgIdentifiers : Invalid \/ receiver_tid(c) = NOBODY
  /\ Cleared

(* The return key after a command for task t: the line without its '%'.    *)
Command == Tail(line)

Forwarded(t) ==
  /\ line # <<>>
  /\ ~Invalid
  /\ t # NOBODY
  /\ \E c \in MsgIdentifiers : t = receiver_tid(c)
  /\ Cleared
===============================================================================
