-------------------------------- MODULE TaskOps --------------------------------
(***************************************************************************)
(* The functions of k_task.c that change the task table, as operators on   *)
(* its globals.  A system call runs to its end with interrupts masked, so  *)
(* each is one atomic step of Rtx and is built here from the functions it  *)
(* calls, in the order it calls them.                                      *)
(*                                                                         *)
(* The globals are a record:                                               *)
(*   state, prio, degree, priv   the fields of g_tcbs                      *)
(*   pq                          the ready queue (see Heap); it holds the  *)
(*                               running task too                          *)
(*   cur                         gp_current_task                           *)
(*   active                      g_num_active_tasks                        *)
(*   degrees                     the next degree of each priority          *)
(***************************************************************************)
EXTENDS Heap, FiniteSets, Functions, FiniteSetsExt

CONSTANTS
  MAX_TASKS,    \* number of TCBs
  TID_KCD,      \* the slot reserved for the KCD task
  Priorities,   \* the priorities tasks may have (HIGH, ..., LOWEST)
  Boots         \* choices of boot-time tasks, in order: [tid, prio, priv]

TID_NULL  == 0
PRIO_NULL == 255
Tids == 0 .. MAX_TASKS - 1

(* At boot k_tsk_init numbers the tasks from 1 and keeps the TCB at TID_KCD*)
(* for the KCD task: no two tasks get the same one while there are fewer   *)
(* than TID_KCD others.                                                    *)
ASSUME TaskConstants ==
  /\ MAX_TASKS \in Nat \ {0}
  /\ TID_KCD \in Tids \ {TID_NULL}
  /\ Priorities \subseteq 100 .. 103
  /\ Boots \subseteq Seq([tid : Tids \ {TID_NULL}, prio : Priorities, priv : {0, 1}])
  /\ \A tasks \in Boots : IsInjective([i \in DOMAIN tasks |-> tasks[i].tid])

States == {"DORMANT", "READY", "RUNNING", "BLK_MSG"}

Globals ==
  [state   : [Tids -> States],
   prio    : [Tids -> Priorities \cup {PRIO_NULL, 0}],
   degree  : [Tids -> Nat],
   priv    : [Tids -> {0, 1}],
   pq      : Seq(Tids),
   cur     : Tids,
   active  : Nat,
   degrees : [Priorities -> Nat]]

(* Degrees are only ever compared, among the queued tasks of a priority,   *)
(* and a new degree is larger than those.  Each is replaced by its rank,   *)
(* which keeps the counters finite.  (The int they are in the code         *)
(* overflows after 2^31 calls.)                                            *)
Ranked(k) ==
  LET queued(p) == {t \in Range(k.pq) : k.prio[t] = p}
      before(t) == {u \in queued(k.prio[t]) : k.degree[u] < k.degree[t]}
  IN  [k EXCEPT !.degree = [t \in Tids |-> IF t \in Range(k.pq)
                                           THEN Cardinality(before(t)) ELSE 0],
                !.degrees = [p \in Priorities |-> Cardinality(queued(p))]]

(* The task takes the next degree of a priority.                           *)
TakeDegree(k, t, p) ==
  [k EXCEPT !.prio[t] = p, !.degree[t] = k.degrees[p], !.degrees[p] = @ + 1]

Enqueued(k, t) == [k EXCEPT !.pq = enqueue(k, @, t)]
Dequeued(k) == [k EXCEPT !.pq = dequeue(k, @)]

scheduler(k) == Pq(k.pq, 0)

(* Mutant of k_tsk_run_new: the old task is made READY even if it waits.   *)
k_tsk_run_new_ready(k) ==
  LET old == k.cur
      new == scheduler(k)
  IN  IF new = old THEN k
      ELSE [k EXCEPT !.cur = new, !.state = [@ EXCEPT ![new] = "RUNNING", ![old] = "READY"]]

(* The old task keeps its state if it is blocked.                          *)
k_tsk_run_new(k) ==
  LET old == k.cur
      new == scheduler(k)
  IN  IF new = old THEN k
      ELSE [k EXCEPT !.cur = new,
                     !.state = [@ EXCEPT ![new] = "RUNNING",
                                         ![old] = IF k.state[old] = "BLK_MSG"
                                                  THEN "BLK_MSG" ELSE "READY"]]

(* Mutant of yield_helper: the task keeps its degree.                      *)
yield_helper_same(k) == k_tsk_run_new(k)

(* One degree is taken for every queued task of the same priority, itself  *)
(* included, and the root is sifted down each time.                        *)
yield_helper(k) ==
  LET requeued(h) == LET g == TakeDegree(h, h.cur, h.prio[h.cur])
                     IN  [g EXCEPT !.pq = max_heapify(g, @, 0)]
      round == [s \in [k : {h \in Globals : h.prio[h.cur] \in Priorities}, i : Nat] |->
                  IF s.i = Len(s.k.pq) THEN s
                  ELSE [k |-> IF s.k.prio[Pq(s.k.pq, s.i)] = s.k.prio[s.k.cur]
                              THEN requeued(s.k) ELSE s.k,
                        i |-> s.i + 1]]
  IN  k_tsk_run_new(Loop(round, [k |-> k, i |-> 0]).k)

k_tsk_yield(k) ==
  IF k.prio[k.cur] = PRIO_NULL THEN k_tsk_run_new(k) ELSE yield_helper(k)

(* A receiver that waited gets a message.                                  *)
mbx_unblock(k, t) ==
  LET g == [TakeDegree(k, t, k.prio[t]) EXCEPT !.state[t] = "READY"]
  IN  k_tsk_run_new([Enqueued(g, t) EXCEPT !.active = @ + 1])

(* Mutant of Blocked: the waiting task stays counted.                      *)
BlockedCounted(k) ==
  k_tsk_run_new(Dequeued([k EXCEPT !.state[k.cur] = "BLK_MSG"]))

(* k_recv_msg on an empty mailbox.                                         *)
Blocked(k) ==
  LET g == Dequeued([k EXCEPT !.state[k.cur] = "BLK_MSG"])
  IN  k_tsk_run_new([g EXCEPT !.active = @ - 1])

(* The new task is READY; what it finds on its stacks is not modelled.     *)
k_tsk_create_new(k, t) == [k EXCEPT !.state[t] = "READY"]

(* k_tsk_create, once it has chosen the slot t.                            *)
Created(k, t, p, mode) ==
  LET g == [k_tsk_create_new(TakeDegree(k, t, p), t) EXCEPT !.priv[t] = mode]
  IN  [Enqueued(g, t) EXCEPT !.active = @ + 1]

(* Mutant of k_tsk_create: a more urgent task does not get the processor.  *)
k_tsk_create_later(k, t, p) == Created(k, t, p, 0)

k_tsk_create(k, t, p) == k_tsk_run_new(Created(k, t, p, 0))

(* Mutant of Dormant: waiting tasks are taken for free slots.              *)
DormantOrWaiting(k) == {t \in Tids : k.state[t] \in {"DORMANT", "BLK_MSG"}}

Dormant(k) == {t \in Tids : k.state[t] = "DORMANT"}

(* The last queued task takes the place of the one that exits.             *)
Removed(k, t) ==
  LET i == CHOOSE j \in 0 .. Len(k.pq) - 1 : Pq(k.pq, j) = t
      rest == SubSeq(k.pq, 1, Len(k.pq) - 1)
  IN  IF i = Len(rest) THEN rest
      ELSE max_heapify(k, [rest EXCEPT ![i + 1] = k.pq[Len(k.pq)]], i)

k_tsk_exit(k) ==
  LET g == [k EXCEPT !.state[k.cur] = "DORMANT", !.active = @ - 1]
      h == IF scheduler(g) = g.cur THEN Dequeued(g) ELSE [g EXCEPT !.pq = Removed(g, g.cur)]
  IN  [h EXCEPT !.cur = scheduler(h), !.state[scheduler(h)] = "RUNNING"]

(* The heap is repaired upwards iff the new priority is above the caller's.*)
k_tsk_set_prio(k, t, p) ==
  LET raised == k.prio[k.cur] > p
      g == TakeDegree(k, t, p)
      places == {j \in 0 .. Len(g.pq) - 1 : Pq(g.pq, j) = t}
      repaired == IF places = {} THEN g.pq
                  ELSE IF raised THEN sift_up(g, g.pq, Min(places))
                  ELSE max_heapify(g, g.pq, Min(places))
  IN  k_tsk_run_new([g EXCEPT !.pq = repaired])

(* k_tsk_init: the null task is made RUNNING, the others are queued behind *)
(* it and none of them is started.                                         *)
Booted(tasks) ==
  LET none == [state   |-> [t \in Tids |-> IF t = TID_NULL THEN "RUNNING" ELSE "DORMANT"],
               prio    |-> [t \in Tids |-> IF t = TID_NULL THEN PRIO_NULL ELSE 0],
               degree  |-> [t \in Tids |-> 0],
               priv    |-> [t \in Tids |-> IF t = TID_NULL THEN 1 ELSE 0],
               pq      |-> <<TID_NULL>>,
               cur     |-> TID_NULL,
               active  |-> 1,
               degrees |-> [p \in Priorities |-> 0]]
      round == [s \in [k : Globals, n : 0 .. Len(tasks)] |->
                  IF s.n = Len(tasks) THEN s
                  ELSE LET task == tasks[s.n + 1]
                       IN  [k |-> Created(s.k, task.tid, task.prio, task.priv), n |-> s.n + 1]]
  IN  Ranked(Loop(round, [k |-> none, n |-> 0]).k)
===============================================================================
