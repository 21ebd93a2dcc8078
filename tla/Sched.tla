--------------------------------- MODULE Sched ---------------------------------
(***************************************************************************)
(* What the scheduler promises (common.h:72): strict priority, first come  *)
(* first served.  The tasks that can run stand in one line per priority;   *)
(* the processor belongs to the first of the first line that is not empty; *)
(* whoever becomes able to run, yields or changes priority goes to the end *)
(* of a line.  The lower the number of a priority, the more urgent it is.  *)
(***************************************************************************)
EXTENDS Integers, FiniteSets, SequencesExt

CONSTANTS
  Tasks,
  Null,    \* the null task: it can always run
  Prios    \* priority numbers, with that of the null task

VARIABLES
  line,    \* the tasks of each priority that can run, in order
  running  \* the task that has the processor

svars == <<line, running>>

Standing(l, p) == {l[p][i] : i \in DOMAIN l[p]}
Able(l) == UNION {Standing(l, p) : p \in Prios}

(* The first of the first line.                                            *)
IsNext(l, t) ==
  \E p \in Prios :
    /\ l[p] # <<>> /\ t = Head(l[p])
    /\ \A q \in Prios : q < p => l[q] = <<>>

Place(s, t) == CHOOSE i \in DOMAIN s : s[i] = t

Without(l, t) ==
  [p \in Prios |-> IF t \in Standing(l, p) THEN RemoveAt(l[p], Place(l[p], t)) ELSE l[p]]

AtEnd(l, t, p) == [l EXCEPT ![p] = Append(@, t)]

Dispatch == IsNext(line', running')

(* Boot: the null task has the processor although others can run.          *)
Init ==
  /\ running = Null
  /\ line \in [Prios -> Seq(Tasks)]
  /\ Null \in Able(line)

Start == ~IsNext(line, running) /\ UNCHANGED line /\ Dispatch

Ready == IsNext(line, running)

(* A task is created, or woken by a message.                               *)
Join(t, p) ==
  /\ Ready
  /\ t \notin Able(line)
  /\ line' = AtEnd(line, t, p)
  /\ Dispatch

(* The running task exits, or waits for a message.                         *)
Leave ==
  /\ Ready
  /\ running # Null
  /\ line' = Without(line, running)
  /\ Dispatch

(* A task yields (to its own line) or is given a priority.                 *)
Requeue(t, p) ==
  /\ Ready
  /\ t \in Able(line) \ {Null}
  /\ line' = AtEnd(Without(line, t), t, p)
  /\ Dispatch

Next ==
  \/ Start \/ Leave
  \/ \E t \in Tasks, p \in Prios : Join(t, p) \/ Requeue(t, p)

Spec == Init /\ [][Next]_svars
===============================================================================
