------------------------------ MODULE TaskProofs ------------------------------
(***************************************************************************)
(* The functions of k_task.c on the task table, for every number of TCBs,  *)
(* every set of priorities and every table that satisfies Table: which     *)
(* tasks are queued afterwards, in which order, and who runs.              *)
(***************************************************************************)
EXTENDS TaskOps, HeapProofs

(* Task ids and priorities are numbers; PRIO_NULL is above all priorities. *)
LEMMA TidFacts ==
  /\ Tids \in SUBSET Int /\ Tids \in SUBSET Nat
  /\ TID_NULL \in Tids
  /\ IsFiniteSet(Tids) /\ Cardinality(Tids) = MAX_TASKS /\ MAX_TASKS \in Nat
  /\ Priorities \subseteq Nat /\ \A p \in Priorities : p < PRIO_NULL /\ p # 0
<1>1. MAX_TASKS \in Nat \ {0} /\ Priorities \subseteq 100 .. 103
  BY TaskConstants
<1>2. IsFiniteSet(0 .. MAX_TASKS - 1) /\ Cardinality(0 .. MAX_TASKS - 1) = MAX_TASKS
  BY <1>1, FS_Interval
<1> QED BY <1>1, <1>2 DEF Tids, TID_NULL, PRIO_NULL

LEMMA PrioFacts ==
  ASSUME NEW p \in Priorities
  PROVE  p \in Nat /\ p \in Int /\ p < PRIO_NULL /\ p # PRIO_NULL /\ p # 0
<1>1. Priorities \subseteq 100 .. 103
  BY TaskConstants
<1> QED BY <1>1 DEF PRIO_NULL

(* The fields of the globals.                                              *)
LEMMA GlobalsFacts ==
  ASSUME NEW k \in Globals
  PROVE  /\ k.state \in [Tids -> States]
         /\ k.prio \in [Tids -> Priorities \cup {PRIO_NULL, 0}]
         /\ k.degree \in [Tids -> Nat]
         /\ k.priv \in [Tids -> {0, 1}]
         /\ k.pq \in Seq(Tids)
         /\ k.cur \in Tids
         /\ k.active \in Nat
         /\ k.degrees \in [Priorities -> Nat]
BY DEF Globals

LEMMA GlobalsKeyed ==
  ASSUME NEW k \in Globals
  PROVE  Keyed(k, Tids)
<1>1. Priorities \cup {PRIO_NULL, 0} \subseteq Int
  BY TidFacts DEF PRIO_NULL
<1>2. \A t \in Tids : k.prio[t] \in Int /\ k.degree[t] \in Int
  BY <1>1, GlobalsFacts
<1> QED BY <1>2 DEF Keyed

(* What the assignments of a function change, and what they leave alone.   *)
Takes(k, g, t, p) ==
  /\ g \in Globals
  /\ g.prio = [k.prio EXCEPT ![t] = p]
  /\ g.degree = [k.degree EXCEPT ![t] = k.degrees[p]]
  /\ g.degrees = [k.degrees EXCEPT ![p] = @ + 1]
  /\ g.state = k.state /\ g.priv = k.priv /\ g.pq = k.pq
  /\ g.cur = k.cur /\ g.active = k.active

LEMMA TakeDegreeFacts ==
  ASSUME NEW k \in Globals, NEW t \in Tids, NEW p \in Priorities
  PROVE  Takes(k, TakeDegree(k, t, p), t, p)
<1>1. k.degrees[p] \in Nat /\ k.degrees[p] + 1 \in Nat
  BY GlobalsFacts
<1> QED BY <1>1 DEF TakeDegree, Globals, Takes

LEMMA TakeDegreeSame ==
  ASSUME NEW k \in Globals, NEW t \in Tids, NEW p \in Priorities, NEW g, Takes(k, g, t, p)
  PROVE  \A u \in Tids : g.prio[u] = IF u = t THEN p ELSE k.prio[u]
BY GlobalsFacts DEF Takes

LEMMA EnqueuedFacts ==
  ASSUME NEW k \in Globals, NEW t \in Tids
  PROVE  LET g == Enqueued(k, t)
         IN  /\ g \in Globals
             /\ g.pq = enqueue(k, k.pq, t)
             /\ g.prio = k.prio /\ g.degree = k.degree /\ g.degrees = k.degrees
             /\ g.state = k.state /\ g.priv = k.priv
             /\ g.cur = k.cur /\ g.active = k.active
<1>1. enqueue(k, k.pq, t) \in Seq(Tids)
  BY GlobalsFacts, TidFacts, EnqueueFacts
<1> QED BY <1>1 DEF Enqueued, Globals

LEMMA DequeuedFacts ==
  ASSUME NEW k \in Globals, Len(k.pq) > 1
  PROVE  LET g == Dequeued(k)
         IN  /\ g \in Globals
             /\ g.pq = dequeue(k, k.pq)
             /\ g.prio = k.prio /\ g.degree = k.degree /\ g.degrees = k.degrees
             /\ g.state = k.state /\ g.priv = k.priv
             /\ g.cur = k.cur /\ g.active = k.active
<1>1. dequeue(k, k.pq) \in Seq(Tids)
  BY GlobalsFacts, TidFacts, DequeueFacts
<1> QED BY <1>1 DEF Dequeued, Globals

LEMMA RunNewFacts ==
  ASSUME NEW k \in Globals, Len(k.pq) > 0
  PROVE  LET h == k_tsk_run_new(k)
         IN  /\ h \in Globals
             /\ h.cur = scheduler(k) /\ scheduler(k) \in Range(k.pq)
             /\ h.prio = k.prio /\ h.degree = k.degree /\ h.degrees = k.degrees
             /\ h.priv = k.priv /\ h.pq = k.pq /\ h.active = k.active
             /\ h.state = IF scheduler(k) = k.cur THEN k.state
                          ELSE [t \in Tids |->
                                  IF t = scheduler(k) THEN "RUNNING"
                                  ELSE IF t = k.cur /\ k.state[t] # "BLK_MSG" THEN "READY"
                                  ELSE k.state[t]]
<1>1. scheduler(k) \in Tids /\ scheduler(k) \in Range(k.pq) /\ k.cur \in Tids
  <2>1. Len(k.pq) \in Nat /\ 0 \in 0 .. Len(k.pq) - 1
    BY GlobalsFacts, LenProperties
  <2> QED BY <2>1, GlobalsFacts, PqFacts DEF scheduler
<1>2. CASE scheduler(k) = k.cur
  BY <1>1, <1>2 DEF k_tsk_run_new
<1>3. CASE scheduler(k) # k.cur
  <2> DEFINE new == scheduler(k)
             st == [k.state EXCEPT ![new] = "RUNNING",
                                   ![k.cur] = IF k.state[k.cur] = "BLK_MSG" THEN "BLK_MSG" ELSE "READY"]
  <2>1. k_tsk_run_new(k) = [k EXCEPT !.cur = new, !.state = st]
    BY <1>3, Zenon DEF k_tsk_run_new
  <2>2. st = [t \in Tids |-> IF t = new THEN "RUNNING"
                             ELSE IF t = k.cur /\ k.state[t] # "BLK_MSG" THEN "READY"
                             ELSE k.state[t]]
    BY <1>1, <1>3, GlobalsFacts
  <2>3. st \in [Tids -> States]
    BY <2>2, GlobalsFacts DEF States
  <2> HIDE DEF st, new
  <2> QED BY <1>1, <1>3, <2>1, <2>2, <2>3 DEF Globals, new
<1> QED BY <1>2, <1>3

-------------------------------------------------------------------------------
CanRun(k) == {t \in Tids : k.state[t] \in {"READY", "RUNNING"}}

(* The ready queue holds the tasks that can run, each once.                *)
Table(k) ==
  /\ k \in Globals
  /\ Once(k.pq)
  /\ Range(k.pq) = CanRun(k)
  /\ k.active = Len(k.pq)
  /\ TID_NULL \in CanRun(k)
  /\ k.prio[TID_NULL] = PRIO_NULL /\ k.priv[TID_NULL] = 1
  /\ \A t \in Tids \ {TID_NULL} : k.state[t] # "DORMANT" => k.prio[t] \in Priorities

(* Before and after k_tsk_run_new.                                         *)
Undispatched(k) ==
  /\ Table(k)
  /\ \A t \in Tids : k.state[t] = "RUNNING" => t = k.cur
  /\ k.state[k.cur] \in {"RUNNING", "BLK_MSG"}

Dispatched(k) ==
  /\ Table(k)
  /\ \A t \in Tids : k.state[t] = "RUNNING" <=> t = k.cur

(* The keys of the queued tasks.                                           *)
Ordered(k) ==
  /\ \A t, u \in Range(k.pq) : t # u /\ k.prio[t] = k.prio[u] => k.degree[t] # k.degree[u]
  /\ \A t \in Range(k.pq) : k.prio[t] \in Priorities => k.degree[t] < k.degrees[k.prio[t]]
  /\ IsHeap(k, k.pq)

(* The tasks of T wait, or not, and exist, or not, in h as in k.           *)
Alike(k, h, T) ==
  \A t \in T : /\ h.state[t] = "BLK_MSG" <=> k.state[t] = "BLK_MSG"
               /\ h.state[t] = "DORMANT" <=> k.state[t] = "DORMANT"

(* From k to h, t goes behind the tasks of its priority; the others keep   *)
(* their priorities and their order.                                       *)
GoesLast(k, h, t) ==
  /\ \A u \in Range(k.pq) \ {t} : h.prio[u] = k.prio[u]
  /\ \A a, b \in Range(k.pq) \ {t} : compare(h, a, b) <=> compare(k, a, b)
  /\ t \in Range(h.pq) =>
       \A u \in Range(k.pq) \ {t} : compare(h, t, u) => h.prio[t] < h.prio[u]

(* The order depends on the keys only.                                     *)
LEMMA SameKeys ==
  ASSUME NEW k, NEW h, h.prio = k.prio, h.degree = k.degree
  PROVE  /\ \A a, b : compare(h, a, b) <=> compare(k, a, b)
         /\ \A q : IsHeap(h, q) <=> IsHeap(k, q)
<1>1. \A a, b : compare(h, a, b) <=> compare(k, a, b)
  BY DEF compare
<1> QED BY <1>1 DEF IsHeap

LEMMA SameKeysGoLast ==
  ASSUME NEW k, NEW h, NEW t, GoesLast(k, h, t), NEW n, n.prio = h.prio, n.degree = h.degree, n.pq = h.pq
  PROVE  GoesLast(k, n, t)
BY SameKeys DEF GoesLast

(* The queue is never empty.                                               *)
LEMMA TableFacts ==
  ASSUME NEW k, Table(k)
  PROVE  /\ k \in Globals /\ k.pq \in Seq(Tids) /\ Len(k.pq) \in Nat /\ Len(k.pq) > 0
         /\ Pq(k.pq, 0) \in Range(k.pq)
         /\ Range(k.pq) \in SUBSET Tids
<1>1. k \in Globals /\ k.pq \in Seq(Tids) /\ Len(k.pq) \in Nat /\ DOMAIN k.pq = 1 .. Len(k.pq)
  BY GlobalsFacts, LenProperties DEF Table
<1>2. Range(k.pq) # {} /\ Range(k.pq) \in SUBSET Tids
  BY DEF Table, CanRun
<1>3. Len(k.pq) > 0
  <2>1. 1 .. Len(k.pq) # {}
    BY <1>1, <1>2 DEF Range
  <2> QED BY <1>1, <2>1
<1>4. 0 \in 0 .. Len(k.pq) - 1
  BY <1>1, <1>3
<1> QED BY <1>1, <1>2, <1>3, <1>4, PqFacts

(* k_tsk_run_new makes the first of the queue the only task that is        *)
(* RUNNING and moves no task.                                              *)
LEMMA RunNewKeeps ==
  ASSUME NEW k, Undispatched(k)
  PROVE  LET h == k_tsk_run_new(k)
         IN  /\ Dispatched(h)
             /\ Pq(h.pq, 0) = h.cur /\ h.pq = k.pq
             /\ h.prio = k.prio /\ h.degree = k.degree /\ h.degrees = k.degrees
             /\ Alike(k, h, Tids)
             /\ CanRun(h) = CanRun(k)
             /\ Ordered(k) => Ordered(h)
<1> DEFINE h == k_tsk_run_new(k)
           new == scheduler(k)
<1>1. Table(k) /\ k \in Globals /\ Len(k.pq) > 0 /\ new \in Range(k.pq) /\ new \in CanRun(k)
  BY TableFacts DEF Undispatched, Table, scheduler
<1>2. /\ h \in Globals
      /\ h.cur = new
      /\ h.prio = k.prio /\ h.degree = k.degree /\ h.degrees = k.degrees
      /\ h.priv = k.priv /\ h.pq = k.pq /\ h.active = k.active
      /\ h.state = IF new = k.cur THEN k.state
                   ELSE [t \in Tids |->
                           IF t = new THEN "RUNNING"
                           ELSE IF t = k.cur /\ k.state[t] # "BLK_MSG" THEN "READY"
                           ELSE k.state[t]]
  BY <1>1, RunNewFacts
<1>3. /\ \A t \in Tids : k.state[t] = "RUNNING" => t = k.cur
      /\ k.state[k.cur] \in {"RUNNING", "BLK_MSG"}
      /\ k.state[new] \in {"READY", "RUNNING"}
      /\ new \in Tids /\ k.cur \in Tids
      /\ k.state \in [Tids -> States]
  BY <1>1, GlobalsFacts DEF Undispatched, CanRun
<1> HIDE DEF h, new
<1>4. /\ \A t \in Tids : h.state[t] = "RUNNING" <=> t = h.cur
      /\ Alike(k, h, Tids)
      /\ CanRun(h) = CanRun(k)
  <2>1. CASE new = k.cur
    BY <1>2, <1>3, <2>1 DEF Alike, CanRun
  <2>2. CASE new # k.cur
    <3>1. \A t \in Tids : h.state[t] = IF t = new THEN "RUNNING"
                                      ELSE IF t = k.cur /\ k.state[t] # "BLK_MSG" THEN "READY"
                                      ELSE k.state[t]
      BY <1>2, <2>2
    <3> QED BY <1>2, <1>3, <2>2, <3>1 DEF Alike, CanRun
  <2> QED BY <2>1, <2>2
<1>5. Table(h)
  BY <1>1, <1>2, <1>4 DEF Table, Alike
<1>6. Ordered(k) => Ordered(h)
  BY <1>2, SameKeys DEF Ordered
<1>7. Pq(h.pq, 0) = h.cur
  BY <1>2 DEF new, scheduler
<1> QED BY <1>2, <1>4, <1>5, <1>6, <1>7 DEF h, Dispatched

(* From k to h the task t takes a degree of priority p and is queued.      *)
Joins(k, h, t, p) ==
  /\ h \in Globals
  /\ h.prio = [k.prio EXCEPT ![t] = p]
  /\ h.degree = [k.degree EXCEPT ![t] = k.degrees[p]]
  /\ h.degrees = [k.degrees EXCEPT ![p] = @ + 1]
  /\ h.state = [k.state EXCEPT ![t] = "READY"]
  /\ h.cur = k.cur
  /\ h.active = k.active + 1
  /\ \E g \in Globals : /\ g.prio = h.prio /\ g.degree = h.degree
                        /\ h.pq = enqueue(g, k.pq, t)

(* The queue holds one task more, behind those of its priority.            *)
LEMMA JoinFacts ==
  ASSUME NEW k, Undispatched(k), NEW t \in Tids, t \notin Range(k.pq), t # k.cur,
         NEW p \in Priorities, NEW h, Joins(k, h, t, p), h.priv[TID_NULL] = 1
  PROVE  /\ Undispatched(h)
         /\ Alike(k, h, Tids \ {t}) /\ h.state[t] = "READY"
         /\ Range(h.pq) = Range(k.pq) \cup {t}
         /\ h.prio[t] = p
         /\ Ordered(k) => Ordered(h) /\ GoesLast(k, h, t)
<1>0. PICK g \in Globals : /\ g.prio = h.prio /\ g.degree = h.degree
                           /\ h.pq = enqueue(g, k.pq, t)
  BY DEF Joins
<1> /\ h \in Globals
    /\ h.prio = [k.prio EXCEPT ![t] = p]
    /\ h.degree = [k.degree EXCEPT ![t] = k.degrees[p]]
    /\ h.degrees = [k.degrees EXCEPT ![p] = @ + 1]
    /\ h.state = [k.state EXCEPT ![t] = "READY"]
    /\ h.cur = k.cur
    /\ h.active = k.active + 1
  BY DEF Joins
<1>1. /\ Table(k) /\ k \in Globals /\ k.pq \in Seq(Tids) /\ Len(k.pq) \in Nat
      /\ Range(k.pq) \in SUBSET Tids /\ TID_NULL \in Range(k.pq) /\ t # TID_NULL
  BY TableFacts DEF Undispatched, Table
<1>2. /\ Len(h.pq) = Len(k.pq) + 1
      /\ Range(h.pq) = Range(k.pq) \cup {t}
      /\ Once(h.pq)
      /\ IsHeap(g, k.pq) => IsHeap(g, h.pq)
  <2>1. Keyed(g, Tids) /\ Once(k.pq)
    BY <1>1, GlobalsKeyed DEF Table
  <2> QED BY <1>0, <1>1, <2>1, TidFacts, EnqueueFacts
<1>3. /\ k.state \in [Tids -> States] /\ k.prio \in [Tids -> Priorities \cup {PRIO_NULL, 0}]
      /\ k.degree \in [Tids -> Nat] /\ k.degrees \in [Priorities -> Nat] /\ k.cur \in Tids
  BY <1>1, GlobalsFacts
<1>4. h.state[t] = "READY" /\ \A u \in Tids : u # t => h.state[u] = k.state[u]
  BY <1>3
<1>5. h.prio[t] = p /\ \A u \in Tids : u # t => h.prio[u] = k.prio[u]
  BY <1>3
<1>6. h.degree[t] = k.degrees[p] /\ \A u \in Tids : u # t => h.degree[u] = k.degree[u]
  BY <1>3
<1>7. h.degrees[p] = k.degrees[p] + 1 /\ \A r \in Priorities : r # p => h.degrees[r] = k.degrees[r]
  BY <1>3
<1>8. CanRun(h) = CanRun(k) \cup {t}
  BY <1>4 DEF CanRun
<1>9. Table(h)
  BY <1>1, <1>2, <1>4, <1>5, <1>8 DEF Table
<1>10. Undispatched(h)
  BY <1>3, <1>4, <1>9 DEF Undispatched
<1>11. Alike(k, h, Tids \ {t})
  BY <1>4 DEF Alike
<1>12. ASSUME Ordered(k) PROVE Ordered(h)
  <2>1. \A u \in Range(k.pq) : u \in Tids /\ u # t
    BY <1>1
  <2>2. IsHeap(h, h.pq)
    <3>1. \A a, b \in Range(k.pq) : compare(g, a, b) <=> compare(k, a, b)
      BY <1>0, <1>5, <1>6, <2>1 DEF compare
    <3>2. IsHeap(g, k.pq)
      BY <1>1, <1>12, <3>1, HeapKeys DEF Ordered
    <3> QED BY <1>0, <1>2, <3>2, SameKeys
  <2>3. \A u \in Range(k.pq) : k.prio[u] = p => k.degree[u] < k.degrees[p]
    BY <1>12 DEF Ordered
  <2>4. \A u \in Range(k.pq) : k.degree[u] \in Nat /\ k.degrees[p] \in Nat
    BY <1>3, <2>1
  <2>5. \A u, v \in Range(h.pq) : u # v /\ h.prio[u] = h.prio[v] => h.degree[u] # h.degree[v]
    <3> TAKE u, v \in Range(h.pq)
    <3>1. \A x, y \in Range(k.pq) : x # y /\ k.prio[x] = k.prio[y] => k.degree[x] # k.degree[y]
      BY <1>12 DEF Ordered
    <3> QED BY <1>2, <1>5, <1>6, <2>1, <2>3, <2>4, <3>1
  <2>6. \A u \in Range(h.pq) : h.prio[u] \in Priorities => h.degree[u] < h.degrees[h.prio[u]]
    <3> TAKE u \in Range(h.pq)
    <3>1. CASE u = t
      BY <1>3, <1>5, <1>6, <1>7, <3>1
    <3>2. CASE u \in Range(k.pq)
      <4>1. h.prio[u] = k.prio[u] /\ h.degree[u] = k.degree[u] /\ k.degree[u] \in Nat
        BY <1>5, <1>6, <2>1, <2>4, <3>2
      <4>2. k.prio[u] \in Priorities => k.degree[u] < k.degrees[k.prio[u]]
        BY <1>12, <3>2 DEF Ordered
      <4>3. k.prio[u] \in Priorities => k.degrees[k.prio[u]] \in Nat
        BY <1>3
      <4> QED BY <1>7, <4>1, <4>2, <4>3
    <3> QED BY <1>2, <3>1, <3>2
  <2> QED BY <2>2, <2>5, <2>6 DEF Ordered
<1>13. ASSUME Ordered(k) PROVE GoesLast(k, h, t)
  <2>1. \A u \in Range(k.pq) : u \in Tids /\ u # t
    BY <1>1
  <2>2. \A u \in Range(k.pq) : k.prio[u] = p => ~(k.degrees[p] < k.degree[u])
    <3> TAKE u \in Range(k.pq)
    <3>1. k.prio[u] = p => k.degree[u] < k.degrees[p]
      BY <1>13 DEF Ordered
    <3>2. k.degree[u] \in Nat /\ k.degrees[p] \in Nat
      BY <1>3, <2>1
    <3> QED BY <3>1, <3>2
  <2> QED BY <1>5, <1>6, <2>1, <2>2 DEF GoesLast, compare
<1> QED BY <1>2, <1>4, <1>5, <1>10, <1>11, <1>12, <1>13

(* k_tsk_create up to its call of k_tsk_run_new.                           *)
LEMMA CreatedFields ==
  ASSUME NEW k \in Globals, NEW t \in Tids, NEW p \in Priorities, NEW mode \in {0, 1}
  PROVE  LET h == Created(k, t, p, mode)
         IN  Joins(k, h, t, p) /\ \A u \in Tids : u # t => h.priv[u] = k.priv[u]
<1> DEFINE d == TakeDegree(k, t, p)
           c == [d EXCEPT !.state[t] = "READY"]
           g == [c EXCEPT !.priv[t] = mode]
           e == Enqueued(g, t)
           h == [e EXCEPT !.active = @ + 1]
<1>1. Created(k, t, p, mode) = h
  BY Zenon DEF Created, k_tsk_create_new
<1>2. /\ d \in Globals
      /\ d.prio = [k.prio EXCEPT ![t] = p]
      /\ d.degree = [k.degree EXCEPT ![t] = k.degrees[p]]
      /\ d.degrees = [k.degrees EXCEPT ![p] = @ + 1]
      /\ d.state = k.state /\ d.priv = k.priv /\ d.pq = k.pq
      /\ d.cur = k.cur /\ d.active = k.active
  <2>1. Takes(k, d, t, p)
    BY TakeDegreeFacts
  <2> QED BY <2>1 DEF Takes
<1> HIDE DEF d
<1>3. /\ g \in Globals
      /\ g.state = [d.state EXCEPT ![t] = "READY"] /\ g.priv = [d.priv EXCEPT ![t] = mode]
      /\ g.prio = d.prio /\ g.degree = d.degree /\ g.degrees = d.degrees
      /\ g.pq = d.pq /\ g.cur = d.cur /\ g.active = d.active
  BY <1>2 DEF Globals, States
<1> HIDE DEF g
<1>4. /\ e \in Globals
      /\ e.pq = enqueue(g, g.pq, t)
      /\ e.prio = g.prio /\ e.degree = g.degree /\ e.degrees = g.degrees
      /\ e.state = g.state /\ e.priv = g.priv
      /\ e.cur = g.cur /\ e.active = g.active
  BY <1>3, EnqueuedFacts
<1> HIDE DEF e
<1>5. /\ h \in Globals
      /\ h.active = e.active + 1
      /\ h.pq = e.pq /\ h.prio = e.prio /\ h.degree = e.degree /\ h.degrees = e.degrees
      /\ h.state = e.state /\ h.priv = e.priv /\ h.cur = e.cur
  <2>1. e.active + 1 \in Nat
    BY <1>4, GlobalsFacts
  <2> QED BY <1>4, <2>1 DEF Globals
<1> HIDE DEF h
<1>6. Joins(k, h, t, p)
  BY <1>2, <1>3, <1>4, <1>5 DEF Joins
<1>7. \A u \in Tids : u # t => h.priv[u] = k.priv[u]
  BY <1>2, <1>3, <1>4, <1>5, GlobalsFacts
<1> QED BY <1>1, <1>6, <1>7

LEMMA CreatedFacts ==
  ASSUME NEW k, Undispatched(k), NEW t \in Tids, k.state[t] = "DORMANT",
         NEW p \in Priorities, NEW mode \in {0, 1}
  PROVE  LET h == Created(k, t, p, mode)
         IN  /\ Undispatched(h)
             /\ Alike(k, h, Tids \ {t}) /\ h.state[t] = "READY"
             /\ Range(h.pq) = Range(k.pq) \cup {t}
             /\ h.prio[t] = p
             /\ Ordered(k) => Ordered(h) /\ GoesLast(k, h, t)
<1> DEFINE h == Created(k, t, p, mode)
<1>1. /\ k \in Globals /\ Table(k)
      /\ k.state[k.cur] \in {"RUNNING", "BLK_MSG"} /\ Range(k.pq) = CanRun(k)
      /\ TID_NULL \in CanRun(k) /\ k.priv[TID_NULL] = 1
  BY DEF Undispatched, Table
<1>2. t \notin Range(k.pq) /\ t # k.cur /\ t # TID_NULL
  BY <1>1 DEF CanRun
<1>3. Joins(k, h, t, p) /\ \A u \in Tids : u # t => h.priv[u] = k.priv[u]
  <2>1. k \in Globals
    BY <1>1
  <2> QED BY <2>1, CreatedFields
<1> HIDE DEF h
<1>4. h.priv[TID_NULL] = 1
  BY <1>1, <1>2, <1>3, GlobalsFacts, TidFacts
<1>5. /\ Undispatched(h)
      /\ Alike(k, h, Tids \ {t}) /\ h.state[t] = "READY"
      /\ Range(h.pq) = Range(k.pq) \cup {t}
      /\ h.prio[t] = p
      /\ Ordered(k) => Ordered(h) /\ GoesLast(k, h, t)
  BY <1>2, <1>3, <1>4, JoinFacts
<1> QED BY <1>5 DEF h

(* mbx_unblock, as called by k_send_msg: the task that waited is queued    *)
(* behind those of its priority; the first of the queue runs.              *)
THEOREM WokenFacts ==
  ASSUME NEW k, Dispatched(k), NEW t \in Tids, k.state[t] = "BLK_MSG"
  PROVE  LET h == mbx_unblock(k, t)
         IN  /\ Dispatched(h) /\ Pq(h.pq, 0) = h.cur
             /\ Alike(k, h, Tids \ {t}) /\ h.state[t] \in {"READY", "RUNNING"}
             /\ h.prio[t] = k.prio[t] /\ k.prio[t] \in Priorities
             /\ Ordered(k) => Ordered(h) /\ GoesLast(k, h, t)
<1> DEFINE p == k.prio[t]
           d == TakeDegree(k, t, p)
           g == [d EXCEPT !.state[t] = "READY"]
           e == Enqueued(g, t)
           h == [e EXCEPT !.active = @ + 1]
<1>1. mbx_unblock(k, t) = k_tsk_run_new(h)
  BY Zenon DEF mbx_unblock
<1>2. /\ k \in Globals /\ Table(k) /\ Undispatched(k) /\ k.cur \in Tids
      /\ Range(k.pq) = CanRun(k) /\ t # k.cur
      /\ TID_NULL \in CanRun(k) /\ k.priv[TID_NULL] = 1 /\ k.prio[t] \in Priorities
  <2>1. Table(k) /\ k \in Globals /\ k.cur \in Tids
    BY GlobalsFacts DEF Dispatched, Table
  <2>2. k.state[k.cur] = "RUNNING"
    BY <2>1 DEF Dispatched
  <2>3. Undispatched(k)
    BY <2>1, <2>2 DEF Dispatched, Undispatched
  <2>4. t # TID_NULL
    BY <2>1 DEF Table, CanRun
  <2> QED BY <2>1, <2>2, <2>3, <2>4 DEF Table
<1>3. t \notin Range(k.pq)
  BY <1>2 DEF CanRun
<1> HIDE DEF p
<1>4. p \in Priorities
  BY <1>2 DEF p
<1>5. /\ d \in Globals
      /\ d.prio = [k.prio EXCEPT ![t] = p]
      /\ d.degree = [k.degree EXCEPT ![t] = k.degrees[p]]
      /\ d.degrees = [k.degrees EXCEPT ![p] = @ + 1]
      /\ d.state = k.state /\ d.priv = k.priv /\ d.pq = k.pq
      /\ d.cur = k.cur /\ d.active = k.active
  <2>1. Takes(k, d, t, p)
    BY <1>2, <1>4, TakeDegreeFacts
  <2> QED BY <2>1 DEF Takes
<1> HIDE DEF d
<1>6. /\ g \in Globals
      /\ g.state = [d.state EXCEPT ![t] = "READY"]
      /\ g.prio = d.prio /\ g.degree = d.degree /\ g.degrees = d.degrees
      /\ g.pq = d.pq /\ g.cur = d.cur /\ g.active = d.active /\ g.priv = d.priv
  BY <1>5 DEF Globals, States
<1> HIDE DEF g
<1>7. /\ e \in Globals
      /\ e.pq = enqueue(g, g.pq, t)
      /\ e.prio = g.prio /\ e.degree = g.degree /\ e.degrees = g.degrees
      /\ e.state = g.state /\ e.priv = g.priv
      /\ e.cur = g.cur /\ e.active = g.active
  BY <1>6, EnqueuedFacts
<1> HIDE DEF e
<1>8. /\ h \in Globals
      /\ h.active = e.active + 1
      /\ h.pq = e.pq /\ h.prio = e.prio /\ h.degree = e.degree /\ h.degrees = e.degrees
      /\ h.state = e.state /\ h.priv = e.priv /\ h.cur = e.cur
  <2>1. e.active + 1 \in Nat
    BY <1>7, GlobalsFacts
  <2> QED BY <1>7, <2>1 DEF Globals
<1> HIDE DEF h
<1>9. /\ Undispatched(h)
      /\ Alike(k, h, Tids \ {t}) /\ h.state[t] = "READY"
      /\ Range(h.pq) = Range(k.pq) \cup {t}
      /\ h.prio[t] = p
      /\ Ordered(k) => Ordered(h) /\ GoesLast(k, h, t)
  <2>1. Joins(k, h, t, p) /\ h.priv[TID_NULL] = 1
    BY <1>2, <1>5, <1>6, <1>7, <1>8 DEF Joins
  <2> QED BY <1>2, <1>3, <1>4, <2>1, JoinFacts
<1>10. LET n == k_tsk_run_new(h)
       IN  /\ Dispatched(n) /\ Pq(n.pq, 0) = n.cur
           /\ Alike(h, n, Tids) /\ CanRun(n) = CanRun(h)
           /\ n.prio = h.prio /\ n.degree = h.degree /\ n.pq = h.pq
           /\ Ordered(h) => Ordered(n)
  BY <1>9, RunNewKeeps
<1>11. Ordered(k) => GoesLast(k, k_tsk_run_new(h), t)
  BY <1>9, <1>10, SameKeysGoLast
<1>12. k_tsk_run_new(h).prio[t] = k.prio[t] /\ k.prio[t] \in Priorities
  BY <1>2, <1>9, <1>10 DEF p
<1> QED BY <1>1, <1>9, <1>10, <1>11, <1>12, Zenon DEF Alike, CanRun

-------------------------------------------------------------------------------
(* From k to h the running task, the first of the queue, leaves it.        *)
Leaves(k, h, s) ==
  /\ h \in Globals
  /\ h.prio = k.prio /\ h.degree = k.degree /\ h.degrees = k.degrees /\ h.priv = k.priv
  /\ h.state = [k.state EXCEPT ![k.cur] = s]
  /\ h.cur = k.cur
  /\ h.active = k.active - 1
  /\ \E g \in Globals : /\ g.prio = k.prio /\ g.degree = k.degree
                        /\ h.pq = dequeue(g, k.pq)

(* The null task is queued, too.                                           *)
LEMMA LeavingIsLong ==
  ASSUME NEW k, Dispatched(k), k.cur # TID_NULL
  PROVE  k \in Globals /\ Len(k.pq) > 1 /\ Len(k.pq) \in Nat
<1>1. /\ k \in Globals /\ k.pq \in Seq(Tids) /\ Len(k.pq) \in Nat /\ Len(k.pq) > 0
      /\ Range(k.pq) = CanRun(k) /\ TID_NULL \in CanRun(k) /\ k.cur \in Tids
  BY TableFacts, GlobalsFacts DEF Dispatched, Table
<1>2. k.cur \in Range(k.pq) /\ TID_NULL \in Range(k.pq)
  BY <1>1 DEF Dispatched, CanRun
<1>3. PICK i \in 0 .. Len(k.pq) - 1, j \in 0 .. Len(k.pq) - 1 :
             Pq(k.pq, i) = k.cur /\ Pq(k.pq, j) = TID_NULL
  BY <1>1, <1>2, PqFacts
<1>4. i # j
  BY <1>3
<1> QED BY <1>1, <1>3, <1>4

(* The queue holds one task less, in the same order.                       *)
LEMMA LeaveFacts ==
  ASSUME NEW k, Dispatched(k), Pq(k.pq, 0) = k.cur, k.cur # TID_NULL,
         NEW s \in {"BLK_MSG", "DORMANT"}, NEW h, Leaves(k, h, s)
  PROVE  /\ Table(h)
         /\ \A t \in Tids : h.state[t] # "RUNNING"
         /\ Alike(k, h, Tids \ {k.cur}) /\ h.state[k.cur] = s
         /\ Range(h.pq) = Range(k.pq) \ {k.cur}
         /\ Ordered(k) => Ordered(h)
<1>0. PICK g \in Globals : /\ g.prio = k.prio /\ g.degree = k.degree
                           /\ h.pq = dequeue(g, k.pq)
  BY DEF Leaves
<1> /\ h \in Globals
    /\ h.prio = k.prio /\ h.degree = k.degree /\ h.degrees = k.degrees /\ h.priv = k.priv
    /\ h.state = [k.state EXCEPT ![k.cur] = s]
    /\ h.cur = k.cur
    /\ h.active = k.active - 1
  BY DEF Leaves
<1>1. /\ Table(k) /\ k \in Globals /\ k.pq \in Seq(Tids) /\ Len(k.pq) \in Nat /\ Len(k.pq) > 1
      /\ Once(k.pq)
  BY TableFacts, LeavingIsLong DEF Dispatched, Table
<1>2. /\ Len(h.pq) = Len(k.pq) - 1
      /\ Range(h.pq) = Range(k.pq) \ {k.cur}
      /\ Once(h.pq)
      /\ IsHeap(g, k.pq) => IsHeap(g, h.pq)
  <2>1. Keyed(g, Tids)
    BY GlobalsKeyed
  <2> QED BY <1>0, <1>1, <2>1, TidFacts, DequeueFacts
<1>3. k.state \in [Tids -> States] /\ k.cur \in Tids
  BY <1>1, GlobalsFacts
<1>4. h.state[k.cur] = s /\ \A u \in Tids : u # k.cur => h.state[u] = k.state[u]
  BY <1>3
<1>5. CanRun(h) = CanRun(k) \ {k.cur}
  BY <1>4 DEF CanRun
<1>6. Table(h)
  <2>1. \A t \in Tids \ {TID_NULL} : h.state[t] # "DORMANT" => k.state[t] # "DORMANT"
    BY <1>1, <1>3, <1>4 DEF Dispatched
  <2> QED BY <1>1, <1>2, <1>5, <2>1 DEF Table
<1>7. \A t \in Tids : h.state[t] # "RUNNING"
  BY <1>4 DEF Dispatched
<1>8. Alike(k, h, Tids \ {k.cur})
  BY <1>4 DEF Alike
<1>9. ASSUME Ordered(k) PROVE Ordered(h)
  <2>1. IsHeap(h, h.pq)
    <3>1. IsHeap(g, k.pq)
      BY <1>0, <1>9, SameKeys DEF Ordered
    <3> QED BY <1>0, <1>2, <3>1, SameKeys
  <2> QED BY <1>2, <1>9, <2>1 DEF Ordered
<1> QED BY <1>2, <1>4, <1>6, <1>7, <1>8, <1>9

(* k_recv_msg on an empty mailbox: the running task leaves the queue and   *)
(* waits; the first of the others runs, and no other task is touched.      *)
THEOREM BlockedFacts ==
  ASSUME NEW k, Dispatched(k), Pq(k.pq, 0) = k.cur, k.cur # TID_NULL
  PROVE  LET h == Blocked(k)
         IN  /\ Dispatched(h) /\ Pq(h.pq, 0) = h.cur
             /\ Alike(k, h, Tids \ {k.cur}) /\ h.state[k.cur] = "BLK_MSG"
             /\ h.prio = k.prio /\ h.degree = k.degree
             /\ Ordered(k) => Ordered(h)
<1> DEFINE c == [k EXCEPT !.state[k.cur] = "BLK_MSG"]
           g == Dequeued(c)
           h == [g EXCEPT !.active = @ - 1]
<1>1. Blocked(k) = k_tsk_run_new(h)
  BY Zenon DEF Blocked
<1>2. k \in Globals /\ Len(k.pq) > 1 /\ Len(k.pq) \in Nat /\ k.active = Len(k.pq) /\ k.cur \in Tids
  BY LeavingIsLong, GlobalsFacts DEF Dispatched, Table
<1>3. /\ c \in Globals
      /\ c.state = [k.state EXCEPT ![k.cur] = "BLK_MSG"]
      /\ c.prio = k.prio /\ c.degree = k.degree /\ c.degrees = k.degrees
      /\ c.pq = k.pq /\ c.cur = k.cur /\ c.active = k.active /\ c.priv = k.priv
  BY <1>2 DEF Globals, States
<1> HIDE DEF c
<1>4. /\ g \in Globals
      /\ g.pq = dequeue(c, c.pq)
      /\ g.prio = c.prio /\ g.degree = c.degree /\ g.degrees = c.degrees
      /\ g.state = c.state /\ g.priv = c.priv
      /\ g.cur = c.cur /\ g.active = c.active
  BY <1>2, <1>3, DequeuedFacts
<1> HIDE DEF g
<1>5. /\ h \in Globals
      /\ h.active = g.active - 1
      /\ h.pq = g.pq /\ h.prio = g.prio /\ h.degree = g.degree /\ h.degrees = g.degrees
      /\ h.state = g.state /\ h.priv = g.priv /\ h.cur = g.cur
  <2>1. g.active - 1 \in Nat
    BY <1>2, <1>3, <1>4
  <2> QED BY <1>4, <2>1 DEF Globals
<1> HIDE DEF h
<1>6. Leaves(k, h, "BLK_MSG")
  BY <1>2, <1>3, <1>4, <1>5 DEF Leaves
<1>7. /\ Table(h)
      /\ \A t \in Tids : h.state[t] # "RUNNING"
      /\ Alike(k, h, Tids \ {k.cur}) /\ h.state[k.cur] = "BLK_MSG"
      /\ Ordered(k) => Ordered(h)
  BY <1>6, LeaveFacts
<1>8. Undispatched(h)
  BY <1>3, <1>4, <1>5, <1>7 DEF Undispatched
<1>9. LET n == k_tsk_run_new(h)
      IN  /\ Dispatched(n) /\ Pq(n.pq, 0) = n.cur
          /\ Alike(h, n, Tids)
          /\ n.prio = h.prio /\ n.degree = h.degree /\ n.pq = h.pq
          /\ Ordered(h) => Ordered(n)
  BY <1>8, RunNewKeeps
<1>10. h.prio = k.prio /\ h.degree = k.degree
  BY <1>3, <1>4, <1>5
<1> QED BY <1>1, <1>2, <1>7, <1>9, <1>10, Zenon DEF Alike

(* k_tsk_exit: the running task leaves the queue and is DORMANT; the first *)
(* of the others runs, and no other task is touched.                       *)
THEOREM ExitFacts ==
  ASSUME NEW k, Dispatched(k), Pq(k.pq, 0) = k.cur, k.cur # TID_NULL
  PROVE  LET h == k_tsk_exit(k)
         IN  /\ Dispatched(h) /\ Pq(h.pq, 0) = h.cur
             /\ Alike(k, h, Tids \ {k.cur}) /\ h.state[k.cur] = "DORMANT"
             /\ h.prio = k.prio /\ h.degree = k.degree
             /\ Ordered(k) => Ordered(h)
<1> DEFINE c == [k EXCEPT !.state[k.cur] = "DORMANT", !.active = @ - 1]
           h == Dequeued(c)
           new == scheduler(h)
           n == [h EXCEPT !.cur = new, !.state[new] = "RUNNING"]
<1>1. k \in Globals /\ Len(k.pq) > 1 /\ Len(k.pq) \in Nat /\ k.active = Len(k.pq) /\ k.cur \in Tids
  BY LeavingIsLong, GlobalsFacts DEF Dispatched, Table
<1>2. /\ c \in Globals
      /\ c.state = [k.state EXCEPT ![k.cur] = "DORMANT"]
      /\ c.prio = k.prio /\ c.degree = k.degree /\ c.degrees = k.degrees
      /\ c.pq = k.pq /\ c.cur = k.cur /\ c.active = k.active - 1 /\ c.priv = k.priv
  <2>1. k.active - 1 \in Nat
    BY <1>1
  <2> QED BY <1>1, <2>1 DEF Globals, States
<1>3. k_tsk_exit(k) = n
  <2>1. scheduler(c) = c.cur
    BY <1>2 DEF scheduler
  <2> QED BY <2>1 DEF k_tsk_exit
<1> HIDE DEF c
<1>4. /\ h \in Globals
      /\ h.pq = dequeue(c, c.pq)
      /\ h.prio = c.prio /\ h.degree = c.degree /\ h.degrees = c.degrees
      /\ h.state = c.state /\ h.priv = c.priv
      /\ h.cur = c.cur /\ h.active = c.active
  BY <1>1, <1>2, DequeuedFacts
<1> HIDE DEF h
<1>5. Leaves(k, h, "DORMANT")
  BY <1>1, <1>2, <1>4 DEF Leaves
<1>6. /\ Table(h)
      /\ \A t \in Tids : h.state[t] # "RUNNING"
      /\ Alike(k, h, Tids \ {k.cur}) /\ h.state[k.cur] = "DORMANT"
      /\ Range(h.pq) = Range(k.pq) \ {k.cur}
      /\ Ordered(k) => Ordered(h)
  BY <1>5, LeaveFacts
<1>7. new \in Tids /\ new # k.cur /\ new \in CanRun(h) /\ new = Pq(h.pq, 0)
  BY <1>6, TableFacts DEF Table, scheduler
<1> HIDE DEF new
<1>8. /\ n \in Globals /\ n.cur = new /\ n.state = [h.state EXCEPT ![new] = "RUNNING"]
      /\ n.pq = h.pq /\ n.prio = h.prio /\ n.degree = h.degree /\ n.degrees = h.degrees
      /\ n.priv = h.priv /\ n.active = h.active
  BY <1>4, <1>7 DEF Globals, States
<1> HIDE DEF n
<1>9. n.state[new] = "RUNNING" /\ \A t \in Tids : t # new => n.state[t] = h.state[t]
  BY <1>4, <1>7, <1>8, GlobalsFacts
<1>10. CanRun(n) = CanRun(h)
  BY <1>7, <1>9 DEF CanRun
<1>11. Table(n)
  BY <1>6, <1>7, <1>8, <1>9, <1>10 DEF Table, CanRun
<1>12. Dispatched(n)
  BY <1>6, <1>8, <1>9, <1>11 DEF Dispatched
<1>13. Ordered(h) => Ordered(n)
  BY <1>8, SameKeys DEF Ordered
<1>14. Alike(h, n, Tids)
  BY <1>7, <1>9 DEF Alike, CanRun
<1>15. n.state[k.cur] = "DORMANT"
  BY <1>1, <1>6, <1>7, <1>9
<1>16. Alike(k, n, Tids \ {k.cur})
  BY <1>6, <1>14 DEF Alike
<1>17. n.prio = k.prio /\ n.degree = k.degree
  BY <1>2, <1>4, <1>8
<1> QED BY <1>3, <1>6, <1>7, <1>8, <1>12, <1>13, <1>15, <1>16, <1>17

-------------------------------------------------------------------------------
(* The queued tasks of a priority, and those before t among them.          *)
OfPrio(k, p) == {t \in Range(k.pq) : k.prio[t] = p}
Before(k, t) == {u \in OfPrio(k, k.prio[t]) : k.degree[u] < k.degree[t]}

(* Cardinalities of sets of tasks.                                         *)
LEMMA CountFacts ==
  ASSUME NEW A \in SUBSET Tids, NEW B \in SUBSET A
  PROVE  /\ IsFiniteSet(A) /\ Cardinality(A) \in Nat /\ Cardinality(A) <= MAX_TASKS
         /\ Cardinality(B) \in Nat /\ Cardinality(B) <= Cardinality(A)
         /\ \A t \in A : t \notin B => Cardinality(B) < Cardinality(A)
<1>1. IsFiniteSet(A) /\ Cardinality(A) <= MAX_TASKS
  BY TidFacts, FS_Subset
<1>2. IsFiniteSet(B) /\ Cardinality(B) <= Cardinality(A) /\ (Cardinality(A) = Cardinality(B) => A = B)
  BY <1>1, FS_Subset
<1>3. Cardinality(A) \in Nat /\ Cardinality(B) \in Nat
  BY <1>1, <1>2, FS_CardinalityType
<1> QED BY <1>1, <1>2, <1>3

(* Ranks in the place of degrees change no comparison.                     *)
LEMMA RankedFields ==
  ASSUME NEW k \in Globals
  PROVE  LET h == Ranked(k)
         IN  /\ h \in Globals
             /\ h.state = k.state /\ h.prio = k.prio /\ h.priv = k.priv
             /\ h.pq = k.pq /\ h.cur = k.cur /\ h.active = k.active
             /\ h.degree = [t \in Tids |-> IF t \in Range(k.pq) THEN Cardinality(Before(k, t)) ELSE 0]
             /\ h.degrees = [p \in Priorities |-> Cardinality(OfPrio(k, p))]
             /\ \A t \in Tids : h.degree[t] <= MAX_TASKS
             /\ \A p \in Priorities : h.degrees[p] <= MAX_TASKS
<1> DEFINE h == Ranked(k)
           D == [t \in Tids |-> IF t \in Range(k.pq) THEN Cardinality(Before(k, t)) ELSE 0]
           E == [p \in Priorities |-> Cardinality(OfPrio(k, p))]
<1>1. h = [k EXCEPT !.degree = D, !.degrees = E]
  BY Zenon DEF Ranked, OfPrio, Before
<1>2. Range(k.pq) \in SUBSET Tids
  <2>1. k.pq \in Seq(Tids)
    BY GlobalsFacts
  <2>2. \A i \in DOMAIN k.pq : k.pq[i] \in Tids
    BY <2>1, LenProperties, ElementOfSeq
  <2> QED BY <2>2 DEF Range
<1>3. \A p : Cardinality(OfPrio(k, p)) \in Nat /\ Cardinality(OfPrio(k, p)) <= MAX_TASKS
  BY <1>2, CountFacts DEF OfPrio
<1>4. \A t : Cardinality(Before(k, t)) \in Nat /\ Cardinality(Before(k, t)) <= MAX_TASKS
  BY <1>2, CountFacts DEF OfPrio, Before
<1>5. D \in [Tids -> Nat] /\ E \in [Priorities -> Nat]
  BY <1>3, <1>4
<1>6. (\A t \in Tids : D[t] <= MAX_TASKS) /\ \A p \in Priorities : E[p] <= MAX_TASKS
  BY <1>3, <1>4, TidFacts
<1> HIDE DEF h, D, E
<1>7. /\ h \in Globals
      /\ h.state = k.state /\ h.prio = k.prio /\ h.priv = k.priv
      /\ h.pq = k.pq /\ h.cur = k.cur /\ h.active = k.active
      /\ h.degree = D /\ h.degrees = E
  BY <1>1, <1>5 DEF Globals
<1> QED BY <1>6, <1>7 DEF h, D, E

LEMMA RankedFacts ==
  ASSUME NEW k, Dispatched(k)
  PROVE  LET h == Ranked(k)
         IN  /\ Dispatched(h)
             /\ h.pq = k.pq /\ h.cur = k.cur /\ h.prio = k.prio /\ h.state = k.state
             /\ \A t \in Tids : h.degree[t] <= MAX_TASKS
             /\ \A p \in Priorities : h.degrees[p] <= MAX_TASKS
             /\ Ordered(k) =>
                  /\ Ordered(h)
                  /\ \A a, b \in Range(k.pq) : compare(h, a, b) <=> compare(k, a, b)
<1> DEFINE h == Ranked(k)
<1>1. /\ k \in Globals /\ k.pq \in Seq(Tids) /\ Range(k.pq) \in SUBSET Tids
  BY TableFacts DEF Dispatched
<1>2. /\ h \in Globals
      /\ h.state = k.state /\ h.prio = k.prio /\ h.priv = k.priv
      /\ h.pq = k.pq /\ h.cur = k.cur /\ h.active = k.active
      /\ h.degree = [t \in Tids |-> IF t \in Range(k.pq) THEN Cardinality(Before(k, t)) ELSE 0]
      /\ h.degrees = [p \in Priorities |-> Cardinality(OfPrio(k, p))]
      /\ \A t \in Tids : h.degree[t] <= MAX_TASKS
      /\ \A p \in Priorities : h.degrees[p] <= MAX_TASKS
  BY <1>1, RankedFields
<1> HIDE DEF h
<1>3. Dispatched(h)
  BY <1>2 DEF Dispatched, Table, CanRun
<1>4. ASSUME Ordered(k)
      PROVE  Ordered(h) /\ \A a, b \in Range(k.pq) : compare(h, a, b) <=> compare(k, a, b)
  <2>1. \A t, u \in Range(k.pq) : t # u /\ k.prio[t] = k.prio[u] => k.degree[t] # k.degree[u]
    BY <1>4 DEF Ordered
  <2>2. \A t \in Range(k.pq) : k.degree[t] \in Nat
    BY <1>1, GlobalsFacts
  <2>3. \A t \in Range(k.pq) : h.degree[t] = Cardinality(Before(k, t)) /\ Cardinality(Before(k, t)) \in Nat
    BY <1>1, <1>2, CountFacts DEF Before, OfPrio
  <2>4. ASSUME NEW t \in Range(k.pq), NEW u \in Range(k.pq), k.prio[t] = k.prio[u],
               k.degree[t] < k.degree[u]
        PROVE  h.degree[t] < h.degree[u]
    <3>1. Before(k, t) \in SUBSET Before(k, u)
      BY <2>2, <2>4 DEF Before, OfPrio
    <3>2. t \in Before(k, u) /\ t \notin Before(k, t)
      BY <2>2, <2>4 DEF Before, OfPrio
    <3>3. Before(k, u) \in SUBSET Tids
      BY <1>1 DEF Before, OfPrio
    <3>4. Cardinality(Before(k, t)) < Cardinality(Before(k, u))
      BY <3>1, <3>2, <3>3, CountFacts
    <3> QED BY <2>3, <3>4
  <2>5. \A t, u \in Range(k.pq) : k.prio[t] = k.prio[u] =>
          (h.degree[t] < h.degree[u] <=> k.degree[t] < k.degree[u])
    <3> TAKE t, u \in Range(k.pq)
    <3>1. h.degree[t] \in Nat /\ h.degree[u] \in Nat /\ k.degree[t] \in Nat /\ k.degree[u] \in Nat
      BY <2>2, <2>3
    <3>2. t # u /\ k.prio[t] = k.prio[u] => k.degree[t] # k.degree[u]
      BY <2>1
    <3> QED BY <2>4, <3>1, <3>2
  <2>6. \A a, b \in Range(k.pq) : compare(h, a, b) <=> compare(k, a, b)
    BY <1>2, <2>5 DEF compare
  <2>7. \A t, u \in Range(k.pq) : t # u /\ k.prio[t] = k.prio[u] => h.degree[t] # h.degree[u]
    <3> TAKE t, u \in Range(k.pq)
    <3>1. h.degree[t] \in Nat /\ h.degree[u] \in Nat /\ k.degree[t] \in Nat /\ k.degree[u] \in Nat
      BY <2>2, <2>3
    <3> QED BY <2>1, <2>4, <3>1
  <2>8. \A t \in Range(k.pq) : k.prio[t] \in Priorities => h.degree[t] < h.degrees[k.prio[t]]
    <3> SUFFICES ASSUME NEW t \in Range(k.pq), k.prio[t] \in Priorities
                 PROVE  h.degree[t] < h.degrees[k.prio[t]]
      OBVIOUS
    <3> DEFINE p == k.prio[t]
    <3>1. h.degrees[p] = Cardinality(OfPrio(k, p))
      BY <1>2
    <3>2. Before(k, t) \in SUBSET OfPrio(k, p) /\ t \in OfPrio(k, p) /\ t \notin Before(k, t)
      BY <2>2 DEF Before, OfPrio
    <3>3. OfPrio(k, p) \in SUBSET Tids
      BY <1>1 DEF OfPrio
    <3>4. Cardinality(Before(k, t)) < Cardinality(OfPrio(k, p))
      BY <3>2, <3>3, CountFacts
    <3> QED BY <2>3, <3>1, <3>4
  <2>9. IsHeap(h, h.pq)
    BY <1>1, <1>2, <1>4, <2>6, HeapKeys DEF Ordered
  <2> QED BY <1>2, <2>6, <2>7, <2>8, <2>9 DEF Ordered
<1> QED BY <1>2, <1>3, <1>4 DEF h

(* The degrees of the queued tasks of a priority are 0, 1, 2, and so on.   *)
Counted(k) ==
  \A p \in Priorities \cup {PRIO_NULL} :
    LET n == Cardinality(OfPrio(k, p))
    IN  /\ \A t \in OfPrio(k, p) : k.degree[t] \in 0 .. n - 1
        /\ \A i \in 0 .. n - 1 : \E t \in OfPrio(k, p) : k.degree[t] = i

LEMMA RankedCounted ==
  ASSUME NEW k, Dispatched(k), Ordered(k)
  PROVE  Counted(Ranked(k))
<1> DEFINE h == Ranked(k)
<1>1. /\ k \in Globals /\ Range(k.pq) \in SUBSET Tids
      /\ k.degree \in [Tids -> Nat]
  BY TableFacts, GlobalsFacts DEF Dispatched
<1>2. /\ h.prio = k.prio /\ h.pq = k.pq
      /\ h.degree = [t \in Tids |-> IF t \in Range(k.pq) THEN Cardinality(Before(k, t)) ELSE 0]
  BY <1>1, RankedFields
<1>3. \A t, u \in Range(k.pq) : t # u /\ h.prio[t] = h.prio[u] => h.degree[t] # h.degree[u]
  <2>1. Ordered(h)
    BY RankedFacts
  <2> QED BY <1>2, <2>1 DEF Ordered
<1> HIDE DEF h
<1> SUFFICES ASSUME NEW p
             PROVE  LET n == Cardinality(OfPrio(h, p))
                    IN  /\ \A t \in OfPrio(h, p) : h.degree[t] \in 0 .. n - 1
                        /\ \A i \in 0 .. n - 1 : \E t \in OfPrio(h, p) : h.degree[t] = i
  BY DEF Counted, h
<1> DEFINE Q == OfPrio(h, p)
           n == Cardinality(Q)
           f == [t \in Q |-> h.degree[t]]
<1>4. Q = OfPrio(k, p) /\ Q \in SUBSET Range(k.pq) /\ Q \in SUBSET Tids
  BY <1>1, <1>2 DEF OfPrio
<1>5. n \in Nat
  BY <1>4, CountFacts
<1>6. \A t \in Q : h.degree[t] \in 0 .. n - 1
  <2> SUFFICES ASSUME NEW t \in Q PROVE h.degree[t] \in 0 .. n - 1
    OBVIOUS
  <2>1. t \in Tids /\ t \in Range(k.pq) /\ k.prio[t] = p
    BY <1>4 DEF OfPrio
  <2>2. Before(k, t) \in SUBSET Q /\ t \in Q /\ t \notin Before(k, t)
    BY <1>1, <1>4, <2>1 DEF Before
  <2>3. Cardinality(Before(k, t)) \in Nat /\ Cardinality(Before(k, t)) < n
    BY <1>4, <2>2, CountFacts
  <2> HIDE DEF n
  <2> QED BY <1>2, <1>5, <2>1, <2>3
<1>7. f \in Injection(Q, 0 .. n - 1)
  <2>1. \A t \in Q : h.prio[t] = p
    BY DEF OfPrio
  <2>2. f \in [Q -> 0 .. n - 1]
    BY <1>6
  <2>3. IsInjective(f)
    BY <1>3, <1>4, <2>1 DEF IsInjective
  <2> QED BY <2>2, <2>3 DEF Injection
<1>8. IsFiniteSet(0 .. n - 1) /\ Cardinality(0 .. n - 1) = n
  <2> HIDE DEF n
  <2>1. 0 \in Int /\ n - 1 \in Int
    BY <1>5
  <2>2. /\ IsFiniteSet(0 .. n - 1)
        /\ Cardinality(0 .. n - 1) = IF 0 > n - 1 THEN 0 ELSE (n - 1) - 0 + 1
    BY <2>1, FS_Interval
  <2> QED BY <1>5, <2>2
<1>9. f \in Surjection(Q, 0 .. n - 1)
  <2> HIDE DEF f
  <2> QED BY <1>7, <1>8, FS_Injection
<1>10. \A i \in 0 .. n - 1 : \E t \in Q : h.degree[t] = i
  BY <1>9 DEF Surjection
<1> QED BY <1>6, <1>10

LEMMA RankedGoesLast ==
  ASSUME NEW k, Table(k), NEW h, Dispatched(h), Ordered(h), NEW t, GoesLast(k, h, t),
         Range(k.pq) \ {t} \subseteq Range(h.pq)
  PROVE  GoesLast(k, Ranked(h), t)
<1> DEFINE r == Ranked(h)
<1>1. /\ r.pq = h.pq /\ r.prio = h.prio
      /\ \A a, b \in Range(h.pq) : compare(r, a, b) <=> compare(h, a, b)
  BY RankedFacts
<1> HIDE DEF r
<1>2. \A u \in Range(k.pq) \ {t} : u \in Range(h.pq)
  OBVIOUS
<1> QED BY <1>1, <1>2 DEF GoesLast, r

-------------------------------------------------------------------------------
(* A queued or another task takes a degree.                                *)
LEMMA TakenKeys ==
  ASSUME NEW k \in Globals, Ordered(k), NEW t \in Tids, NEW p \in Priorities
  PROVE  LET g == TakeDegree(k, t, p)
         IN  /\ \A u, v \in Range(k.pq) : u # v /\ g.prio[u] = g.prio[v] => g.degree[u] # g.degree[v]
             /\ \A u \in Range(k.pq) : g.prio[u] \in Priorities => g.degree[u] < g.degrees[g.prio[u]]
             /\ \A a, b \in Range(k.pq) \ {t} : compare(g, a, b) <=> compare(k, a, b)
             /\ \A u \in Range(k.pq) \ {t} : compare(g, t, u) => p < k.prio[u]
             /\ \A u \in Range(k.pq) \ {t} : compare(g, u, t) => k.prio[u] <= p
<1> DEFINE g == TakeDegree(k, t, p)
<1>1. /\ k.prio \in [Tids -> Priorities \cup {PRIO_NULL, 0}]
      /\ k.degree \in [Tids -> Nat] /\ k.degrees \in [Priorities -> Nat]
      /\ \A u \in Tids : k.prio[u] \in Int
  <2>1. Keyed(k, Tids)
    BY GlobalsKeyed
  <2> QED BY <2>1, GlobalsFacts DEF Keyed
<1>2. /\ g.prio = [k.prio EXCEPT ![t] = p]
      /\ g.degree = [k.degree EXCEPT ![t] = k.degrees[p]]
      /\ g.degrees = [k.degrees EXCEPT ![p] = @ + 1]
  BY TakeDegreeFacts DEF Takes
<1> HIDE DEF g
<1>3. g.prio[t] = p /\ \A u \in Tids : u # t => g.prio[u] = k.prio[u]
  BY <1>1, <1>2
<1>4. g.degree[t] = k.degrees[p] /\ \A u \in Tids : u # t => g.degree[u] = k.degree[u]
  BY <1>1, <1>2
<1>5. g.degrees[p] = k.degrees[p] + 1 /\ \A r \in Priorities : r # p => g.degrees[r] = k.degrees[r]
  BY <1>1, <1>2
<1>6. Range(k.pq) \subseteq Tids
  <2>1. k.pq \in Seq(Tids)
    BY GlobalsFacts
  <2>2. \A i \in DOMAIN k.pq : k.pq[i] \in Tids
    BY <2>1, LenProperties, ElementOfSeq
  <2> QED BY <2>2 DEF Range
<1>7. \A u \in Range(k.pq) : k.prio[u] \in Priorities => k.degree[u] < k.degrees[k.prio[u]]
  BY DEF Ordered
<1>8. \A u, v \in Range(k.pq) : u # v /\ k.prio[u] = k.prio[v] => k.degree[u] # k.degree[v]
  BY DEF Ordered
<1>9. \A u \in Range(k.pq) : k.prio[u] = p => k.degree[u] < k.degrees[p]
  BY <1>7
<1>10. k.degrees[p] \in Nat /\ p \in Int /\ \A u \in Range(k.pq) : k.degree[u] \in Nat /\ k.prio[u] \in Int
  BY <1>1, <1>6, PrioFacts
<1>11. \A u, v \in Range(k.pq) : u # v /\ g.prio[u] = g.prio[v] => g.degree[u] # g.degree[v]
  <2> TAKE u, v \in Range(k.pq)
  <2> QED BY <1>3, <1>4, <1>6, <1>8, <1>9, <1>10
<1>12. \A u \in Range(k.pq) : g.prio[u] \in Priorities => g.degree[u] < g.degrees[g.prio[u]]
  <2> SUFFICES ASSUME NEW u \in Range(k.pq), g.prio[u] \in Priorities
               PROVE  g.degree[u] < g.degrees[g.prio[u]]
    OBVIOUS
  <2>1. CASE u = t
    BY <1>3, <1>4, <1>5, <1>10, <2>1
  <2>2. CASE u # t
    <3>1. g.prio[u] = k.prio[u] /\ g.degree[u] = k.degree[u]
      BY <1>3, <1>4, <1>6, <2>2
    <3>2. k.degree[u] < k.degrees[k.prio[u]] /\ k.degree[u] \in Nat /\ k.degrees[k.prio[u]] \in Nat
      BY <1>1, <1>7, <1>10, <3>1
    <3> QED BY <1>5, <3>1, <3>2
  <2> QED BY <2>1, <2>2
<1>13. \A a, b \in Range(k.pq) \ {t} : compare(g, a, b) <=> compare(k, a, b)
  BY <1>3, <1>4, <1>6 DEF compare
<1>14. \A u \in Range(k.pq) \ {t} : compare(g, t, u) => p < k.prio[u]
  <2> SUFFICES ASSUME NEW u \in Range(k.pq) \ {t}, compare(g, t, u) PROVE p < k.prio[u]
    OBVIOUS
  <2>1. g.prio[u] = k.prio[u] /\ g.degree[u] = k.degree[u] /\ g.prio[t] = p /\ g.degree[t] = k.degrees[p]
    BY <1>3, <1>4, <1>6
  <2> QED BY <1>9, <1>10, <2>1 DEF compare
<1>15. \A u \in Range(k.pq) \ {t} : compare(g, u, t) => k.prio[u] <= p
  <2> SUFFICES ASSUME NEW u \in Range(k.pq) \ {t}, compare(g, u, t) PROVE k.prio[u] <= p
    OBVIOUS
  <2>1. g.prio[u] = k.prio[u] /\ g.prio[t] = p
    BY <1>3, <1>6
  <2> QED BY <1>10, <2>1 DEF compare
<1> QED BY <1>11, <1>12, <1>13, <1>14, <1>15 DEF g

(* k_tsk_set_prio: the queue is what it was; if it was ordered, it still   *)
(* is and the task stands behind those of its new priority, unless a       *)
(* queued task is raised behind the caller: then the repair goes the wrong *)
(* way (k_task.c:706-711).                                                 *)
THEOREM SetPrioFacts ==
  ASSUME NEW k, Dispatched(k), NEW t \in Tids \ {TID_NULL}, NEW p \in Priorities
  PROVE  LET h == k_tsk_set_prio(k, t, p)
         IN  /\ Dispatched(h) /\ Pq(h.pq, 0) = h.cur
             /\ Alike(k, h, Tids)
             /\ h.prio[t] = p
             /\ Ordered(k) /\ Pq(k.pq, 0) = k.cur
                  /\ (t \in Range(k.pq) /\ k.prio[k.cur] <= p => k.prio[t] <= p)
                => Ordered(h) /\ GoesLast(k, h, t)
<1> DEFINE g == TakeDegree(k, t, p)
           places == {j \in 0 .. Len(g.pq) - 1 : Pq(g.pq, j) = t}
           raised == k.prio[k.cur] > p
           r == IF places = {} THEN g.pq
                ELSE IF raised THEN sift_up(g, g.pq, Min(places))
                ELSE max_heapify(g, g.pq, Min(places))
           h == [g EXCEPT !.pq = r]
           ok == /\ Ordered(k) /\ Pq(k.pq, 0) = k.cur
                 /\ (t \in Range(k.pq) /\ k.prio[k.cur] <= p => k.prio[t] <= p)
<1>1. k_tsk_set_prio(k, t, p) = k_tsk_run_new(h)
  BY Zenon DEF k_tsk_set_prio
<1>2. /\ k \in Globals /\ Table(k) /\ k.pq \in Seq(Tids) /\ Len(k.pq) \in Nat /\ Len(k.pq) > 0
      /\ Range(k.pq) \in SUBSET Tids /\ Once(k.pq) /\ k.cur \in Tids
      /\ Pq(k.pq, 0) \in Range(k.pq)
  BY TableFacts, GlobalsFacts DEF Dispatched, Table
<1>3. /\ g \in Globals
      /\ \A u \in Tids : g.prio[u] = IF u = t THEN p ELSE k.prio[u]
      /\ g.state = k.state /\ g.priv = k.priv /\ g.pq = k.pq
      /\ g.cur = k.cur /\ g.active = k.active
  <2>1. Takes(k, g, t, p)
    BY <1>2, TakeDegreeFacts
  <2> HIDE DEF g
  <2>2. \A u \in Tids : g.prio[u] = IF u = t THEN p ELSE k.prio[u]
    BY <1>2, <2>1, TakeDegreeSame
  <2> QED BY <2>1, <2>2 DEF Takes
<1>4. ok => /\ \A u, v \in Range(k.pq) : u # v /\ g.prio[u] = g.prio[v] => g.degree[u] # g.degree[v]
            /\ \A u \in Range(k.pq) : g.prio[u] \in Priorities => g.degree[u] < g.degrees[g.prio[u]]
            /\ \A a, b \in Range(k.pq) \ {t} : compare(g, a, b) <=> compare(k, a, b)
            /\ \A u \in Range(k.pq) \ {t} : compare(g, t, u) => p < k.prio[u]
            /\ \A u \in Range(k.pq) \ {t} : compare(g, u, t) => k.prio[u] <= p
  BY <1>2, TakenKeys
<1>5. Keyed(g, Tids) /\ Keyed(k, Tids)
  BY <1>2, <1>3, GlobalsKeyed
<1> HIDE DEF g
<1>6. /\ r \in Seq(Tids) /\ SameTasks(r, k.pq)
      /\ ok => IsHeap(g, r)
  <2>1. CASE places = {}
    <3>1. r = k.pq
      <4> HIDE DEF places
      <4> QED BY <1>3, <2>1
    <3>2. t \notin Range(k.pq)
      <4>1. \A u \in Range(k.pq) : \E j \in 0 .. Len(k.pq) - 1 : Pq(k.pq, j) = u
        BY <1>2, PqFacts
      <4>2. g.pq = k.pq
        BY <1>3
      <4> QED BY <2>1, <4>1, <4>2
    <3>3. ok => IsHeap(g, k.pq)
      BY <1>2, <1>4, <3>2, HeapKeys DEF Ordered
    <3> QED BY <1>2, <3>1, <3>3, SameTasksReflexive
  <2>2. CASE places # {}
    <3> DEFINE i == Min(places)
    <3>1. i \in places
      <4>1. places \in SUBSET Nat
        OBVIOUS
      <4>2. \E m \in places : \A j \in places : m <= j
        <5> HIDE DEF places
        <5> QED BY <2>2, <4>1, Least
      <4> HIDE DEF places
      <4> QED BY <4>2 DEF Min
    <3> HIDE DEF i
    <3>2. i \in 0 .. Len(k.pq) - 1 /\ i \in Nat /\ Pq(k.pq, i) = t /\ t \in Range(k.pq)
      BY <1>2, <1>3, <3>1, PqFacts
    <3>3. CASE raised
      <4>1. r = sift_up(g, k.pq, i)
        BY <1>3, <2>2, <3>3 DEF i
      <4>2. /\ r \in Seq(Tids) /\ SameTasks(r, k.pq)
            /\ SiftsUp(g, k.pq, i) => IsHeap(g, r)
        <5> HIDE DEF r
        <5> QED BY <1>2, <1>5, <3>2, <4>1, TidFacts, SiftUpFacts
      <4>3. ASSUME ok PROVE SiftsUp(g, k.pq, i)
        <5>1. \A u \in Range(k.pq) : ~compare(k, u, k.cur)
          BY <1>2, <1>5, <4>3, RootFirst, PqFacts DEF Ordered
        <5>2. \A u \in Range(k.pq) : k.prio[k.cur] <= k.prio[u]
          <6> SUFFICES ASSUME NEW u \in Range(k.pq) PROVE k.prio[k.cur] <= k.prio[u]
            OBVIOUS
          <6>1. k.prio[k.cur] \in Int /\ k.prio[u] \in Int
            BY <1>2, <1>5 DEF Keyed
          <6> QED BY <5>1, <6>1 DEF compare
        <5>3. \A u \in Range(k.pq) \ {t} : ~compare(g, u, t)
          <6> SUFFICES ASSUME NEW u \in Range(k.pq) \ {t}, compare(g, u, t) PROVE FALSE
            OBVIOUS
          <6>1. k.prio[k.cur] \in Int /\ k.prio[u] \in Int /\ p \in Int
            BY <1>2, <1>5, PrioFacts DEF Keyed
          <6>2. k.prio[u] <= p
            BY <1>4, <4>3
          <6> QED BY <3>3, <5>2, <6>1, <6>2
        <5> QED BY <1>2, <1>4, <1>5, <3>2, <4>3, <5>3, KeyChanges DEF Ordered
      <4> QED BY <4>2, <4>3
    <3>4. CASE ~raised
      <4>1. r = max_heapify(g, k.pq, i)
        BY <1>3, <2>2, <3>4 DEF i
      <4>2. /\ r \in Seq(Tids) /\ SameTasks(r, k.pq)
            /\ SiftsDown(g, k.pq, i) => IsHeap(g, r)
        <5> HIDE DEF r
        <5> QED BY <1>2, <1>5, <3>2, <4>1, TidFacts, HeapifyFacts
      <4>3. ASSUME ok PROVE SiftsDown(g, k.pq, i)
        <5>1. k.prio[t] <= p
          <6>1. k.prio[k.cur] \in Int /\ p \in Int
            BY <1>2, <1>5, PrioFacts DEF Keyed
          <6> QED BY <3>2, <3>4, <4>3, <6>1
        <5>2. \A u \in Range(k.pq) \ {t} : compare(g, t, u) => compare(k, t, u)
          <6> SUFFICES ASSUME NEW u \in Range(k.pq) \ {t}, compare(g, t, u) PROVE compare(k, t, u)
            OBVIOUS
          <6>1. k.prio[t] \in Int /\ k.prio[u] \in Int /\ p \in Int
            BY <1>2, <1>5, PrioFacts DEF Keyed
          <6>2. p < k.prio[u]
            BY <1>4, <4>3
          <6> QED BY <5>1, <6>1, <6>2 DEF compare
        <5> QED BY <1>2, <1>4, <1>5, <3>2, <4>3, <5>2, KeyChanges DEF Ordered
      <4> QED BY <4>2, <4>3
    <3> QED BY <3>3, <3>4
  <2> QED BY <2>1, <2>2
<1> HIDE DEF r
<1>7. /\ h \in Globals /\ h.pq = r
      /\ h.prio = g.prio /\ h.degree = g.degree /\ h.degrees = g.degrees
      /\ h.state = g.state /\ h.priv = g.priv /\ h.cur = g.cur /\ h.active = g.active
  BY <1>3, <1>6 DEF Globals
<1> HIDE DEF h
<1>8. Table(h)
  <2>1. CanRun(h) = CanRun(k)
    BY <1>3, <1>7 DEF CanRun
  <2>2. \A u \in Tids : h.prio[u] = IF u = t THEN p ELSE k.prio[u]
    BY <1>2, <1>3, <1>7, GlobalsFacts
  <2>3. Len(r) = Len(k.pq) /\ Range(r) = Range(k.pq) /\ Once(r)
    BY <1>2, <1>6 DEF SameTasks
  <2> QED BY <1>2, <1>3, <1>7, <2>1, <2>2, <2>3, TidFacts DEF Table
<1>9. Undispatched(h)
  BY <1>2, <1>3, <1>7, <1>8 DEF Undispatched, Dispatched
<1>10. Alike(k, h, Tids)
  BY <1>3, <1>7 DEF Alike
<1>11. ok => Ordered(h)
  <2>1. Range(r) = Range(k.pq)
    BY <1>6 DEF SameTasks
  <2> HIDE DEF ok
  <2>2. ok => IsHeap(h, r)
    BY <1>6, <1>7, SameKeys
  <2> QED BY <1>4, <1>7, <2>1, <2>2 DEF Ordered
<1>12. LET n == k_tsk_run_new(h)
       IN  /\ Dispatched(n) /\ Pq(n.pq, 0) = n.cur
           /\ Alike(h, n, Tids)
           /\ n.prio = h.prio /\ n.degree = h.degree /\ n.pq = h.pq
           /\ Ordered(h) => Ordered(n)
  BY <1>9, RunNewKeeps
<1>13. Alike(k, k_tsk_run_new(h), Tids)
  BY <1>10, <1>12 DEF Alike
<1> HIDE DEF ok
<1>14. ok => Ordered(k_tsk_run_new(h))
  BY <1>11, <1>12
<1>15. /\ h.prio[t] = p
       /\ \A u \in Range(k.pq) \ {t} : h.prio[u] = k.prio[u]
  <2>1. t \in Tids
    OBVIOUS
  <2> QED BY <1>2, <1>3, <1>7, <2>1
<1>16. ok => GoesLast(k, h, t)
  <2>1. ASSUME ok, NEW u \in Range(k.pq) \ {t}, compare(h, t, u) PROVE h.prio[t] < h.prio[u]
    BY <1>4, <1>7, <1>15, <2>1, SameKeys
  <2>2. ASSUME ok, NEW a \in Range(k.pq) \ {t}, NEW b \in Range(k.pq) \ {t}
        PROVE  compare(h, a, b) <=> compare(k, a, b)
    BY <1>4, <1>7, <2>2, SameKeys
  <2> QED BY <1>15, <2>1, <2>2 DEF GoesLast
<1>17. ok => GoesLast(k, k_tsk_run_new(h), t)
  BY <1>12, <1>16, SameKeysGoLast
<1> QED BY <1>1, <1>12, <1>13, <1>14, <1>15, <1>17 DEF ok

-------------------------------------------------------------------------------
(* One round of yield_helper for a task of the priority of the running one. *)
Requeued(h) ==
  LET g == TakeDegree(h, h.cur, h.prio[h.cur]) IN [g EXCEPT !.pq = max_heapify(g, @, 0)]

(* Every queued task of its priority is before t.                          *)
LastOfPrio(k, t) ==
  \A u \in Range(k.pq) \ {t} : k.prio[u] = k.prio[t] => k.degree[u] < k.degree[t]

(* A round of yield_helper puts the running task behind its equals, and    *)
(* the next rounds leave it there.                                         *)
LEMMA RequeuedFacts ==
  ASSUME NEW h \in Globals, h.prio[h.cur] \in Priorities
  PROVE  LET r == Requeued(h)
         IN  /\ r \in Globals
             /\ r.prio = h.prio
             /\ r.state = h.state /\ r.priv = h.priv
             /\ r.cur = h.cur /\ r.active = h.active
             /\ SameTasks(r.pq, h.pq)
             /\ Ordered(h) /\ Once(h.pq) /\ h.cur \in Range(h.pq)
                  /\ (Pq(h.pq, 0) = h.cur \/ LastOfPrio(h, h.cur)) =>
                  /\ Ordered(r)
                  /\ LastOfPrio(r, h.cur)
                  /\ \A a, b \in Range(h.pq) \ {h.cur} : compare(r, a, b) <=> compare(h, a, b)
<1> DEFINE t == h.cur
           p == h.prio[t]
           g == TakeDegree(h, t, p)
           q == max_heapify(g, g.pq, 0)
           r == [g EXCEPT !.pq = q]
           ok == /\ Ordered(h) /\ Once(h.pq) /\ h.cur \in Range(h.pq)
                 /\ (Pq(h.pq, 0) = h.cur \/ LastOfPrio(h, h.cur))
<1>1. t \in Tids /\ p \in Priorities /\ h.prio \in [Tids -> Priorities \cup {PRIO_NULL, 0}]
      /\ h.pq \in Seq(Tids) /\ h.degree \in [Tids -> Nat] /\ h.degrees \in [Priorities -> Nat]
  BY GlobalsFacts
<1>2. Requeued(h) = r
  BY DEF Requeued
<1>3. /\ g \in Globals
      /\ \A u \in Tids : g.prio[u] = IF u = t THEN p ELSE h.prio[u]
      /\ g.state = h.state /\ g.priv = h.priv /\ g.pq = h.pq
      /\ g.cur = h.cur /\ g.active = h.active
  <2> HIDE DEF p, t
  <2>1. Takes(h, g, t, p)
    BY <1>1, TakeDegreeFacts
  <2> HIDE DEF g
  <2>2. \A u \in Tids : g.prio[u] = IF u = t THEN p ELSE h.prio[u]
    BY <1>1, <2>1, TakeDegreeSame
  <2> QED BY <2>1, <2>2 DEF Takes
<1>4. g.prio = h.prio
  <2>1. g.prio \in [Tids -> Priorities \cup {PRIO_NULL, 0}]
    BY <1>3, GlobalsFacts
  <2>2. \A u \in Tids : g.prio[u] = h.prio[u]
    BY <1>3
  <2> HIDE DEF g
  <2> QED BY <1>1, <2>1, <2>2
<1>5. g.degree = [h.degree EXCEPT ![t] = h.degrees[p]]
  <2>1. h.degrees[p] \in Nat /\ h.degrees[p] + 1 \in Nat
    BY <1>1
  <2> HIDE DEF p, t
  <2> QED BY <1>1, <2>1 DEF TakeDegree, Globals
<1>6. ASSUME ok
      PROVE  /\ \A u, v \in Range(h.pq) : u # v /\ g.prio[u] = g.prio[v] => g.degree[u] # g.degree[v]
             /\ \A u \in Range(h.pq) : g.prio[u] \in Priorities => g.degree[u] < g.degrees[g.prio[u]]
             /\ \A a, b \in Range(h.pq) \ {t} : compare(g, a, b) <=> compare(h, a, b)
             /\ \A u \in Range(h.pq) \ {t} : compare(g, t, u) => p < h.prio[u]
             /\ \A u \in Range(h.pq) \ {t} : compare(g, u, t) => h.prio[u] <= p
  <2>1. Ordered(h)
    BY <1>6
  <2> HIDE DEF p, t
  <2> QED BY <1>1, <2>1, TakenKeys
<1>7. Keyed(g, Tids) /\ Keyed(h, Tids)
  BY <1>3, GlobalsKeyed
<1> HIDE DEF g, p
<1>8. /\ q \in Seq(Tids) /\ SameTasks(q, h.pq)
      /\ SiftsDown(g, h.pq, 0) => IsHeap(g, q)
  BY <1>1, <1>3, <1>7, TidFacts, HeapifyFacts
<1> HIDE DEF q
<1>9. /\ r \in Globals /\ r.pq = q
      /\ r.prio = g.prio /\ r.degree = g.degree /\ r.degrees = g.degrees
      /\ r.state = g.state /\ r.priv = g.priv /\ r.cur = g.cur /\ r.active = g.active
  BY <1>3, <1>8 DEF Globals
<1> HIDE DEF r
<1>10. ASSUME ok
       PROVE  /\ Ordered(r) /\ LastOfPrio(r, t)
              /\ \A a, b \in Range(h.pq) \ {t} : compare(r, a, b) <=> compare(h, a, b)
  <2> \A u \in Range(h.pq) : u \in Tids
    <3>1. \A i \in DOMAIN h.pq : h.pq[i] \in Tids
      BY <1>1, LenProperties, ElementOfSeq
    <3> QED BY <3>1 DEF Range
  <2>0. p \in Int /\ \A u \in Range(h.pq) : h.prio[u] \in Int /\ h.degree[u] \in Nat
    BY <1>1, <1>7, PrioFacts DEF Keyed
  <2>1. ASSUME NEW u \in Range(h.pq) \ {t}, h.prio[u] = p PROVE g.degree[u] < g.degree[t]
    <3>1. h.degree[u] < h.degrees[p]
      BY <1>1, <1>10, <2>1 DEF Ordered
    <3> QED BY <1>1, <1>5, <3>1
  <2>2. \A u \in Range(h.pq) \ {t} : compare(g, t, u) => compare(h, t, u)
    <3> SUFFICES ASSUME NEW u \in Range(h.pq) \ {t}, compare(g, t, u) PROVE compare(h, t, u)
      OBVIOUS
    <3>1. p < h.prio[u]
      BY <1>6, <1>10
    <3> QED BY <3>1 DEF compare, p
  <2>3. SiftsDown(g, h.pq, 0)
    <3>1. CASE Pq(h.pq, 0) = h.cur
      <4>1. 0 \in 0 .. Len(h.pq) - 1
        <5>1. Len(h.pq) \in Nat /\ \E i \in 0 .. Len(h.pq) - 1 : Pq(h.pq, i) = h.cur
          BY <1>1, <1>10, PqFacts
        <5> QED BY <5>1
      <4> QED BY <1>1, <1>6, <1>7, <1>10, <2>2, <3>1, <4>1, KeyChanges DEF Ordered
    <3>2. CASE LastOfPrio(h, t)
      <4>1. \A u \in Range(h.pq) \ {t} : compare(g, u, t) => compare(h, u, t)
        <5> SUFFICES ASSUME NEW u \in Range(h.pq) \ {t}, compare(g, u, t) PROVE compare(h, u, t)
          OBVIOUS
        <5>1. h.prio[u] <= p
          BY <1>6, <1>10
        <5>2. h.prio[u] = p => h.degree[u] < h.degree[t]
          BY <3>2 DEF LastOfPrio, p
        <5> QED BY <2>0, <5>1, <5>2 DEF compare, p
      <4>2. ~compare(g, t, t)
        BY <1>1, <1>7, CompareFacts
      <4>3. \A a, b \in Range(h.pq) : compare(g, a, b) => compare(h, a, b)
        BY <1>6, <1>10, <2>2, <4>1, <4>2
      <4>4. IsHeap(g, h.pq)
        BY <1>1, <1>10, <4>3, HeapKeys DEF Ordered
      <4> QED BY <4>4, HeapSiftsDown
    <3> QED BY <1>10, <3>1, <3>2
  <2>4. IsHeap(r, r.pq)
    BY <1>8, <1>9, <2>3, SameKeys
  <2>5. Range(r.pq) = Range(h.pq)
    BY <1>8, <1>9 DEF SameTasks
  <2>6. Ordered(r)
    BY <1>6, <1>9, <1>10, <2>4, <2>5 DEF Ordered
  <2>7. LastOfPrio(r, t)
    BY <1>4, <1>9, <2>1, <2>5 DEF LastOfPrio, p
  <2>8. \A a, b \in Range(h.pq) \ {t} : compare(r, a, b) <=> compare(h, a, b)
    BY <1>6, <1>9, <1>10, SameKeys
  <2> QED BY <2>6, <2>7, <2>8
<1>11. SameTasks(r.pq, h.pq)
  BY <1>8, <1>9
<1> QED BY <1>2, <1>3, <1>4, <1>9, <1>10, <1>11

(* yield_helper, whose loop runs over the queue that it changes: however   *)
(* many rounds find a task of the priority of the running one, the result  *)
(* is that this one stands behind its equals (k_task.c:226-246).           *)
THEOREM YieldFacts ==
  ASSUME NEW k, Dispatched(k), k.prio[k.cur] \in Priorities
  PROVE  LET n == yield_helper(k)
         IN  /\ Dispatched(n) /\ Pq(n.pq, 0) = n.cur
             /\ Alike(k, n, Tids)
             /\ n.prio = k.prio
             /\ Ordered(k) /\ Pq(k.pq, 0) = k.cur =>
                  Ordered(n) /\ GoesLast(k, n, k.cur)
<1> DEFINE A == [k : {h \in Globals : h.prio[h.cur] \in Priorities}, i : Nat]
           step(s) == IF s.i = Len(s.k.pq) THEN s
                      ELSE [k |-> IF s.k.prio[Pq(s.k.pq, s.i)] = s.k.prio[s.k.cur]
                                  THEN Requeued(s.k) ELSE s.k,
                            i |-> s.i + 1]
           F == [s \in A |-> step(s)]
           ok == Ordered(k) /\ Pq(k.pq, 0) = k.cur
           Kept(h) == /\ h \in Globals
                      /\ h.prio = k.prio /\ h.state = k.state /\ h.priv = k.priv
                      /\ h.cur = k.cur /\ h.active = k.active
                      /\ SameTasks(h.pq, k.pq)
           Turn(h, i) == /\ Ordered(h)
                         /\ IF i = 0 THEN Pq(h.pq, 0) = k.cur ELSE LastOfPrio(h, k.cur)
                         /\ \A a, b \in Range(k.pq) \ {k.cur} : compare(h, a, b) <=> compare(k, a, b)
           I == {s \in A : Kept(s.k) /\ s.i <= Len(k.pq) /\ (ok => Turn(s.k, s.i))}
           M == [s \in A |-> IF s.i < Len(s.k.pq) THEN Len(s.k.pq) - s.i ELSE 0]
           s0 == [k |-> k, i |-> 0]
           end == Loop(F, s0)
<1>1. yield_helper(k) = k_tsk_run_new(end.k)
  BY Zenon DEF yield_helper, Requeued
<1>2. /\ Table(k) /\ k \in Globals /\ k.pq \in Seq(Tids) /\ Len(k.pq) \in Nat /\ Len(k.pq) > 0
      /\ Range(k.pq) \in SUBSET Tids /\ Range(k.pq) = CanRun(k) /\ Once(k.pq)
      /\ k.cur \in Tids /\ k.cur \in Range(k.pq)
  BY TableFacts, GlobalsFacts DEF Dispatched, Table, CanRun
<1>3. ASSUME NEW h \in Globals, h.prio[h.cur] \in Priorities
      PROVE  Requeued(h) \in Globals /\ Requeued(h).prio[Requeued(h).cur] \in Priorities
  BY <1>3, RequeuedFacts
<1>4. F \in [A -> A]
  <2> SUFFICES ASSUME NEW s \in A PROVE step(s) \in A
    BY Zenon
  <2>1. s.k \in Globals /\ s.k.prio[s.k.cur] \in Priorities /\ s.i \in Nat /\ s.i + 1 \in Nat
    OBVIOUS
  <2>2. Requeued(s.k) \in Globals /\ Requeued(s.k).prio[Requeued(s.k).cur] \in Priorities
    BY <1>3, <2>1
  <2> QED BY <2>1, <2>2
<1>5. ASSUME NEW h, Kept(h)
      PROVE  /\ Len(h.pq) = Len(k.pq) /\ Range(h.pq) = Range(k.pq) /\ Once(h.pq)
             /\ h.prio[h.cur] \in Priorities
  BY <1>2, <1>5 DEF SameTasks
<1>6. ASSUME NEW h, Kept(h) PROVE Kept(Requeued(h))
  <2>1. h \in Globals /\ h.prio[h.cur] \in Priorities
    BY <1>5, <1>6
  <2>2. LET r == Requeued(h)
        IN  /\ r \in Globals
            /\ r.prio = h.prio /\ r.state = h.state /\ r.priv = h.priv
            /\ r.cur = h.cur /\ r.active = h.active
            /\ SameTasks(r.pq, h.pq)
    BY <2>1, RequeuedFacts
  <2> QED BY <1>6, <2>2, SameTasksTransitive
<1>7. ASSUME NEW h, NEW i \in Nat, Kept(h), ok, Turn(h, i), i # Len(k.pq),
             h.prio[Pq(h.pq, i)] = h.prio[h.cur]
      PROVE  Turn(Requeued(h), i + 1)
  <2>1. h \in Globals /\ h.prio[h.cur] \in Priorities /\ Once(h.pq) /\ Range(h.pq) = Range(k.pq)
        /\ h.cur = k.cur
    BY <1>5, <1>7
  <2>2. Ordered(h) /\ (Pq(h.pq, 0) = h.cur \/ LastOfPrio(h, h.cur))
    BY <1>7, <2>1
  <2>3. LET r == Requeued(h)
        IN  /\ Ordered(r)
            /\ LastOfPrio(r, h.cur)
            /\ \A a, b \in Range(h.pq) \ {h.cur} : compare(r, a, b) <=> compare(h, a, b)
    BY <1>2, <2>1, <2>2, RequeuedFacts
  <2>4. i + 1 # 0
    OBVIOUS
  <2> QED BY <1>7, <2>1, <2>3, <2>4
<1>8. \A s \in I : F[s] \in I
  <2> SUFFICES ASSUME NEW s \in I PROVE step(s) \in I
    OBVIOUS
  <2> DEFINE h == s.k
             i == s.i
  <2>1. s \in A /\ Kept(h) /\ i \in Nat /\ i <= Len(k.pq) /\ (ok => Turn(h, i))
    OBVIOUS
  <2>2. step(s) \in A
    BY <1>4, <2>1
  <2>3. Len(h.pq) = Len(k.pq)
    BY <1>5, <2>1
  <2>4. CASE i = Len(h.pq)
    BY <2>4
  <2>5. CASE i # Len(h.pq) /\ h.prio[Pq(h.pq, i)] = h.prio[h.cur]
    <3>1. step(s) = [k |-> Requeued(h), i |-> i + 1]
      BY <2>5
    <3>2. Kept(Requeued(h)) /\ i + 1 <= Len(k.pq)
      BY <1>2, <1>6, <2>1, <2>3, <2>5
    <3>3. ok => Turn(Requeued(h), i + 1)
      <4> HIDE DEF Kept, Turn, ok
      <4> QED BY <1>7, <2>1, <2>3, <2>5
    <3> HIDE DEF step, Kept, Turn, ok, A
    <3> QED BY <2>2, <3>1, <3>2, <3>3
  <2>6. CASE i # Len(h.pq) /\ h.prio[Pq(h.pq, i)] # h.prio[h.cur]
    <3>1. step(s) = [k |-> h, i |-> i + 1]
      BY <2>6
    <3>2. i + 1 <= Len(k.pq)
      BY <1>2, <2>1, <2>3, <2>6
    <3>3. ok => Turn(h, i + 1)
      <4>1. ok => i # 0
        BY <2>1, <2>6
      <4> QED BY <2>1, <4>1
    <3> HIDE DEF step, Kept, Turn, ok, A
    <3> QED BY <2>1, <2>2, <3>1, <3>2, <3>3
  <2> QED BY <2>4, <2>5, <2>6
<1>9. M \in [A -> Nat]
  <2> SUFFICES ASSUME NEW s \in A
               PROVE  (IF s.i < Len(s.k.pq) THEN Len(s.k.pq) - s.i ELSE 0) \in Nat
    OBVIOUS
  <2>1. s.k \in Globals /\ s.i \in Nat
    OBVIOUS
  <2>2. Len(s.k.pq) \in Nat
    BY <2>1, GlobalsFacts, LenProperties
  <2> QED BY <2>1, <2>2
<1>10. \A s \in I : F[s] # s => M[F[s]] < M[s]
  <2> SUFFICES ASSUME NEW s \in I, F[s] # s PROVE M[F[s]] < M[s]
    OBVIOUS
  <2>1. s \in A /\ F[s] = step(s) /\ F[s] \in I /\ s.i \in Nat /\ s.i <= Len(k.pq)
    BY <1>8
  <2>2. s.i # Len(s.k.pq) /\ F[s].i = s.i + 1
    BY <2>1
  <2>3. Len(s.k.pq) = Len(k.pq) /\ Len(F[s].k.pq) = Len(k.pq)
    BY <1>5, <2>1
  <2>4. F[s] \in A
    BY <2>1
  <2> HIDE DEF F, step, A, I
  <2> QED BY <1>2, <2>1, <2>2, <2>3, <2>4
<1>11. s0 \in I
  <2>1. SameTasks(k.pq, k.pq)
    BY SameTasksReflexive
  <2>2. Kept(k) /\ (ok => Turn(k, 0)) /\ 0 <= Len(k.pq)
    BY <1>2, <2>1
  <2>3. s0 \in A
    BY <1>2
  <2> HIDE DEF A, Kept, Turn, ok
  <2> QED BY <2>2, <2>3
<1>12. end \in I /\ F[end] = end
  <2>1. I \in SUBSET A
    OBVIOUS
  <2> HIDE DEF A, F, M, I, s0
  <2> QED BY <1>4, <1>8, <1>9, <1>10, <1>11, <2>1, LoopInvariant
<1> HIDE DEF end
<1>13. Kept(end.k) /\ (ok => Turn(end.k, end.i)) /\ end.i = Len(k.pq)
  <2>1. end \in A /\ Kept(end.k) /\ (ok => Turn(end.k, end.i)) /\ end.i \in Nat
    BY <1>12
  <2>2. Len(end.k.pq) = Len(k.pq)
    BY <1>5, <2>1
  <2>3. step(end) = end
    BY <1>12, <2>1
  <2>4. end.i = Len(end.k.pq)
    <3> SUFFICES ASSUME end.i # Len(end.k.pq) PROVE FALSE
      OBVIOUS
    <3>1. step(end).i = end.i + 1
      OBVIOUS
    <3> HIDE DEF step
    <3> QED BY <2>1, <2>3, <3>1
  <2> QED BY <2>1, <2>2, <2>4
<1> DEFINE h == end.k
           n == k_tsk_run_new(h)
<1> HIDE DEF h
<1>14. Kept(h) /\ (ok => Turn(h, Len(k.pq)))
  BY <1>13 DEF h
<1>15. Range(h.pq) = Range(k.pq) /\ Len(h.pq) = Len(k.pq) /\ Once(h.pq)
  BY <1>5, <1>14
<1>16. Undispatched(h)
  <2>1. Table(h)
    BY <1>2, <1>14, <1>15 DEF Table, CanRun
  <2>2. h.state = k.state /\ h.cur = k.cur
    BY <1>14
  <2>3. \A t \in Tids : k.state[t] = "RUNNING" <=> t = k.cur
    BY DEF Dispatched
  <2> HIDE DEF Kept
  <2> QED BY <1>2, <2>1, <2>2, <2>3 DEF Undispatched
<1>17. /\ Dispatched(n) /\ Pq(n.pq, 0) = n.cur /\ n.pq = h.pq
       /\ n.prio = h.prio /\ n.degree = h.degree /\ n.pq = h.pq
       /\ Alike(h, n, Tids)
       /\ Ordered(h) => Ordered(n)
  BY <1>16, RunNewKeeps
<1>18. Alike(k, n, Tids)
  BY <1>14, <1>17 DEF Alike
<1>19. ASSUME ok
       PROVE  Ordered(n) /\ GoesLast(k, n, k.cur)
  <2>1. Turn(h, Len(k.pq))
    BY <1>14, <1>19
  <2>2. LastOfPrio(h, k.cur)
    BY <1>2, <2>1
  <2>3. LastOfPrio(n, k.cur)
    BY <1>17, <2>2 DEF LastOfPrio
  <2>4. \A a, b : compare(n, a, b) <=> compare(h, a, b)
    BY <1>17, SameKeys
  <2>5. ASSUME NEW u \in Range(k.pq) \ {k.cur}, compare(n, k.cur, u)
        PROVE  n.prio[k.cur] < n.prio[u]
    <3>1. n.prio[u] = n.prio[k.cur] => n.degree[u] < n.degree[k.cur]
      BY <1>15, <1>17, <2>3 DEF LastOfPrio
    <3>2. n.degree[u] \in Nat /\ n.degree[k.cur] \in Nat
      BY <1>2, <1>17, GlobalsFacts DEF Dispatched, Table
    <3> QED BY <2>5, <3>1, <3>2 DEF compare
  <2> QED BY <1>14, <1>17, <2>1, <2>4, <2>5 DEF GoesLast
<1> QED BY <1>1, <1>14, <1>17, <1>18, <1>19 DEF h, ok

(* k_tsk_yield for the null task, and for the others.                      *)
LEMMA NullYieldFacts ==
  ASSUME NEW k, Dispatched(k), k.cur = TID_NULL
  PROVE  LET n == k_tsk_yield(k)
         IN  /\ Dispatched(n) /\ Pq(n.pq, 0) = n.cur
             /\ Alike(k, n, Tids)
             /\ Ordered(k) => Ordered(n)
<1>1. k.prio[k.cur] = PRIO_NULL
  BY DEF Dispatched, Table
<1>2. k_tsk_yield(k) = k_tsk_run_new(k)
  BY <1>1 DEF k_tsk_yield
<1>3. Undispatched(k)
  BY TidFacts DEF Dispatched, Undispatched
<1> QED BY <1>2, <1>3, RunNewKeeps

LEMMA TaskYieldFacts ==
  ASSUME NEW k, Dispatched(k), k.cur # TID_NULL
  PROVE  k.prio[k.cur] \in Priorities /\ k_tsk_yield(k) = yield_helper(k)
<1>1. k.cur \in Tids /\ k.state[k.cur] = "RUNNING"
  BY GlobalsFacts DEF Dispatched, Table
<1>2. k.prio[k.cur] \in Priorities
  BY <1>1 DEF Dispatched, Table
<1>3. k.prio[k.cur] # PRIO_NULL
  BY <1>2, PrioFacts
<1> QED BY <1>2, <1>3 DEF k_tsk_yield

(* k_tsk_create: the new task is queued behind those of its priority; the  *)
(* first of the queue runs.                                                *)
THEOREM CreateFacts ==
  ASSUME NEW k, Dispatched(k), NEW t \in Tids, k.state[t] = "DORMANT", NEW p \in Priorities
  PROVE  LET h == k_tsk_create(k, t, p)
         IN  /\ Dispatched(h) /\ Pq(h.pq, 0) = h.cur
             /\ Alike(k, h, Tids \ {t}) /\ h.state[t] \in {"READY", "RUNNING"}
             /\ h.prio[t] = p
             /\ Ordered(k) => Ordered(h) /\ GoesLast(k, h, t)
<1> DEFINE c == Created(k, t, p, 0)
           h == k_tsk_run_new(c)
<1>1. k_tsk_create(k, t, p) = h
  BY Zenon DEF k_tsk_create
<1>2. Undispatched(k)
  <2>1. k.cur \in Tids
    BY GlobalsFacts DEF Dispatched, Table
  <2> QED BY <2>1 DEF Dispatched, Undispatched
<1>3. /\ Undispatched(c)
      /\ Alike(k, c, Tids \ {t}) /\ c.state[t] = "READY"
      /\ c.prio[t] = p
      /\ Ordered(k) => Ordered(c) /\ GoesLast(k, c, t)
  BY <1>2, CreatedFacts
<1> HIDE DEF c
<1>4. /\ Dispatched(h) /\ Pq(h.pq, 0) = h.cur
      /\ Alike(c, h, Tids) /\ CanRun(h) = CanRun(c)
      /\ h.prio = c.prio /\ h.degree = c.degree /\ h.pq = c.pq
      /\ Ordered(c) => Ordered(h)
  BY <1>3, RunNewKeeps
<1>5. h.state[t] \in {"READY", "RUNNING"}
  BY <1>3, <1>4 DEF CanRun
<1>6. Alike(k, h, Tids \ {t})
  BY <1>3, <1>4 DEF Alike
<1>7. Ordered(k) => GoesLast(k, h, t)
  BY <1>3, <1>4, SameKeysGoLast
<1> QED BY <1>1, <1>3, <1>4, <1>5, <1>6, <1>7

-------------------------------------------------------------------------------
(* After k_tsk_init the queue is exact and ordered, and the null task is   *)
(* the one that is RUNNING.                                                *)
THEOREM BootedFacts ==
  ASSUME NEW tasks \in Boots
  PROVE  LET k == Booted(tasks)
         IN  /\ Dispatched(k) /\ Ordered(k) /\ Counted(k)
             /\ k.cur = TID_NULL
             /\ \A t \in Tids : k.state[t] # "BLK_MSG"
             /\ \A m \in DOMAIN tasks : k.state[tasks[m].tid] # "DORMANT"
             /\ \A t \in Tids : k.degree[t] <= MAX_TASKS
             /\ \A p \in Priorities : k.degrees[p] <= MAX_TASKS
<1> DEFINE none == [state   |-> [t \in Tids |-> IF t = TID_NULL THEN "RUNNING" ELSE "DORMANT"],
                    prio    |-> [t \in Tids |-> IF t = TID_NULL THEN PRIO_NULL ELSE 0],
                    degree  |-> [t \in Tids |-> 0],
                    priv    |-> [t \in Tids |-> IF t = TID_NULL THEN 1 ELSE 0],
                    pq      |-> <<TID_NULL>>,
                    cur     |-> TID_NULL,
                    active  |-> 1,
                    degrees |-> [p \in Priorities |-> 0]]
           A == [k : Globals, n : 0 .. Len(tasks)]
           step(s) == IF s.n = Len(tasks) THEN s
                      ELSE LET task == tasks[s.n + 1]
                           IN  [k |-> Created(s.k, task.tid, task.prio, task.priv), n |-> s.n + 1]
           F == [s \in A |-> step(s)]
           Begun(h) == /\ Undispatched(h) /\ Ordered(h)
                       /\ h.cur = TID_NULL
                       /\ \A t \in Tids : h.state[t] # "BLK_MSG"
           Left(h, n) == \A m \in n + 1 .. Len(tasks) : h.state[tasks[m].tid] = "DORMANT"
           Made(h, n) == \A m \in 1 .. n : h.state[tasks[m].tid] # "DORMANT"
           I == {s \in A : Begun(s.k) /\ Left(s.k, s.n) /\ Made(s.k, s.n)}
           M == [s \in A |-> Len(tasks) - s.n]
           s0 == [k |-> none, n |-> 0]
           end == Loop(F, s0)
<1>1. Booted(tasks) = Ranked(end.k)
  BY Zenon DEF Booted
<1>2. /\ tasks \in Seq([tid : Tids \ {TID_NULL}, prio : Priorities, priv : {0, 1}])
      /\ Len(tasks) \in Nat /\ DOMAIN tasks = 1 .. Len(tasks)
  BY TaskConstants, LenProperties
<1>3. \A m \in 1 .. Len(tasks) : /\ tasks[m].tid \in Tids \ {TID_NULL}
                                 /\ tasks[m].prio \in Priorities
                                 /\ tasks[m].priv \in {0, 1}
  <2> SUFFICES ASSUME NEW m \in 1 .. Len(tasks)
               PROVE  tasks[m] \in [tid : Tids \ {TID_NULL}, prio : Priorities, priv : {0, 1}]
    OBVIOUS
  <2> QED BY <1>2, ElementOfSeq
<1>4. \A m, n \in 1 .. Len(tasks) : tasks[m].tid = tasks[n].tid => m = n
  BY <1>2, TaskConstants DEF IsInjective
<1>5. ASSUME NEW s \in A, s.n # Len(tasks)
      PROVE  LET task == tasks[s.n + 1]
             IN  /\ s.n \in 0 .. Len(tasks) /\ s.n + 1 \in 1 .. Len(tasks)
                 /\ s.k \in Globals
                 /\ task.tid \in Tids \ {TID_NULL} /\ task.prio \in Priorities
                 /\ task.priv \in {0, 1}
                 /\ step(s) = [k |-> Created(s.k, task.tid, task.prio, task.priv), n |-> s.n + 1]
  <2>1. s.n \in 0 .. Len(tasks) /\ s.n + 1 \in 1 .. Len(tasks) /\ s.k \in Globals
    BY <1>2, <1>5
  <2> QED BY <1>3, <1>5, <2>1
<1>6. F \in [A -> A]
  <2> SUFFICES ASSUME NEW s \in A PROVE step(s) \in A
    BY Zenon
  <2>1. CASE s.n = Len(tasks)
    BY <2>1
  <2>2. CASE s.n # Len(tasks)
    <3> DEFINE task == tasks[s.n + 1]
               h == Created(s.k, task.tid, task.prio, task.priv)
    <3>1. /\ s.n + 1 \in 0 .. Len(tasks)
          /\ s.k \in Globals
          /\ task.tid \in Tids /\ task.prio \in Priorities /\ task.priv \in {0, 1}
          /\ step(s) = [k |-> h, n |-> s.n + 1]
      <4>1. s.n + 1 \in 1 .. Len(tasks)
        BY <1>5, <2>2
      <4> QED BY <1>2, <1>5, <2>2, <4>1
    <3> HIDE DEF task, step
    <3>2. h \in Globals
      BY <3>1, CreatedFields DEF Joins
    <3> QED BY <3>1, <3>2
  <2> QED BY <2>1, <2>2
<1>7. ASSUME NEW g, Begun(g), NEW t \in Tids, g.state[t] = "DORMANT",
              NEW p \in Priorities, NEW mode \in {0, 1}
       PROVE  /\ Begun(Created(g, t, p, mode))
              /\ Alike(g, Created(g, t, p, mode), Tids \ {t})
              /\ Created(g, t, p, mode).state[t] # "DORMANT"
  <2> DEFINE h == Created(g, t, p, mode)
  <2>1. Undispatched(g) /\ Ordered(g) /\ g.cur = TID_NULL
        /\ \A u \in Tids : g.state[u] # "BLK_MSG"
    BY <1>7
  <2>2. /\ Undispatched(h) /\ Ordered(h)
        /\ Alike(g, h, Tids \ {t}) /\ h.state[t] = "READY"
    BY <1>7, <2>1, CreatedFacts
  <2>3. h.cur = TID_NULL
    <3>1. g \in Globals
      BY <2>1 DEF Undispatched, Table
    <3>2. Joins(g, h, t, p)
      BY <3>1, CreatedFields
    <3> QED BY <2>1, <3>2 DEF Joins
  <2> HIDE DEF h
  <2>4. \A u \in Tids : h.state[u] # "BLK_MSG"
    BY <2>1, <2>2 DEF Alike
  <2> QED BY <2>2, <2>3, <2>4 DEF h
<1>8. \A s \in I : F[s] \in I
  <2> SUFFICES ASSUME NEW s \in I PROVE step(s) \in I
    OBVIOUS
  <2>1. /\ s \in A /\ step(s) \in A /\ s.n \in Nat
        /\ Begun(s.k) /\ Left(s.k, s.n) /\ Made(s.k, s.n)
    BY <1>2, <1>6
  <2>2. CASE s.n = Len(tasks)
    BY <2>2
  <2>3. CASE s.n # Len(tasks)
    <3> DEFINE task == tasks[s.n + 1]
               h == Created(s.k, task.tid, task.prio, task.priv)
    <3>1. /\ s.n + 1 \in 1 .. Len(tasks)
          /\ s.k \in Globals
          /\ task.tid \in Tids \ {TID_NULL} /\ task.prio \in Priorities /\ task.priv \in {0, 1}
          /\ step(s) = [k |-> h, n |-> s.n + 1]
      BY <1>5, <2>1, <2>3
    <3>2. s.k.state[task.tid] = "DORMANT"
      <4>1. s.n + 1 \in s.n + 1 .. Len(tasks)
        BY <3>1
      <4> QED BY <2>1, <4>1
    <3>3. \A m \in s.n + 2 .. Len(tasks) : /\ tasks[m].tid \in Tids
                                           /\ tasks[m].tid # task.tid
                                           /\ s.k.state[tasks[m].tid] = "DORMANT"
      <4> TAKE m \in s.n + 2 .. Len(tasks)
      <4>1. m \in 1 .. Len(tasks) /\ m \in s.n + 1 .. Len(tasks) /\ m # s.n + 1
        BY <1>2, <2>1
      <4> QED BY <1>3, <1>4, <2>1, <3>1, <4>1
    <3>4. task.tid \in Tids
      BY <3>1
    <3> HIDE DEF task, step, h
    <3>5. /\ Begun(h)
          /\ Alike(s.k, h, Tids \ {task.tid})
          /\ h.state[task.tid] # "DORMANT"
      <4>1. Begun(s.k)
        BY <2>1
      <4> HIDE DEF Begun
      <4>2. /\ Begun(Created(s.k, task.tid, task.prio, task.priv))
            /\ Alike(s.k, Created(s.k, task.tid, task.prio, task.priv), Tids \ {task.tid})
            /\ Created(s.k, task.tid, task.prio, task.priv).state[task.tid] # "DORMANT"
        <5>1. task.prio \in Priorities /\ task.priv \in {0, 1}
          BY <3>1
        <5> DEFINE t == task.tid
                   p == task.prio
                   mode == task.priv
                   g == s.k
        <5>2. t \in Tids /\ p \in Priorities /\ mode \in {0, 1}
          BY <3>4, <5>1
        <5>3. Begun(g) /\ g.state[t] = "DORMANT"
          BY <3>2, <4>1
        <5> HIDE DEF t, p, mode, g
        <5>4. /\ Begun(Created(g, t, p, mode))
              /\ Alike(g, Created(g, t, p, mode), Tids \ {t})
              /\ Created(g, t, p, mode).state[t] # "DORMANT"
          BY <1>7, <5>2, <5>3
        <5> QED BY <5>4, Zenon DEF t, p, mode, g
      <4> QED BY <4>2 DEF h
    <3>8. Left(h, s.n + 1)
      <4>1. s.n + 1 + 1 = s.n + 2
        BY <2>1
      <4> QED BY <3>3, <3>5, <4>1 DEF Alike
    <3>9. Made(h, s.n + 1)
      <4> SUFFICES ASSUME NEW m \in 1 .. s.n + 1 PROVE h.state[tasks[m].tid] # "DORMANT"
        OBVIOUS
      <4>1. CASE m = s.n + 1
        BY <3>5, <4>1 DEF task
      <4>2. CASE m # s.n + 1
        <5>1. m \in 1 .. s.n /\ m \in 1 .. Len(tasks)
          BY <1>2, <2>1, <3>1, <4>2
        <5>2. tasks[m].tid \in Tids \ {task.tid} /\ s.k.state[tasks[m].tid] # "DORMANT"
          BY <1>3, <1>4, <2>1, <3>1, <4>2, <5>1 DEF task
        <5> QED BY <3>5, <5>2 DEF Alike
      <4> QED BY <4>1, <4>2
    <3> HIDE DEF Begun, Left, Made, A
    <3> QED BY <2>1, <3>1, <3>5, <3>8, <3>9
  <2> QED BY <2>2, <2>3
<1>9. M \in [A -> Nat]
  BY <1>2
<1>10. \A s \in I : F[s] # s => M[F[s]] < M[s]
  <2> SUFFICES ASSUME NEW s \in I, F[s] # s PROVE M[F[s]] < M[s]
    OBVIOUS
  <2>1. s \in A /\ F[s] = step(s) /\ F[s] \in A /\ s.n \in Nat
    BY <1>2, <1>6
  <2>2. F[s].n = s.n + 1
    BY <2>1
  <2> HIDE DEF F, step, A, I
  <2> QED BY <1>2, <2>1, <2>2
<1>11. s0 \in I
  <2>0. TID_NULL \in Tids
    BY TidFacts
  <2>1. none \in Globals
    BY <2>0 DEF Globals, States
  <2>2. /\ none.state = [t \in Tids |-> IF t = TID_NULL THEN "RUNNING" ELSE "DORMANT"]
        /\ none.prio = [t \in Tids |-> IF t = TID_NULL THEN PRIO_NULL ELSE 0]
        /\ none.degree = [t \in Tids |-> 0]
        /\ none.priv = [t \in Tids |-> IF t = TID_NULL THEN 1 ELSE 0]
        /\ none.pq = <<TID_NULL>> /\ none.cur = TID_NULL /\ none.active = 1
        /\ none.degrees = [p \in Priorities |-> 0]
    OBVIOUS
  <2> HIDE DEF none
  <2>3. Len(none.pq) = 1 /\ Range(none.pq) = {TID_NULL} /\ Once(none.pq)
    BY <2>2 DEF Range, Once
  <2>4. CanRun(none) = {TID_NULL}
    BY <2>0, <2>2 DEF CanRun
  <2>5. Undispatched(none)
    BY <2>0, <2>1, <2>2, <2>3, <2>4 DEF Undispatched, Table
  <2>6. none.prio[TID_NULL] \notin Priorities
    BY <2>0, <2>2, PrioFacts
  <2>7. Ordered(none)
    BY <2>3, <2>6 DEF Ordered, IsHeap
  <2>8. Begun(none)
    BY <2>2, <2>5, <2>7
  <2>9. Left(none, 0)
    BY <1>3, <2>2
  <2>10. Made(none, 0)
    OBVIOUS
  <2>11. s0 \in A /\ s0.k = none /\ s0.n = 0
    BY <1>2, <2>1
  <2> HIDE DEF Begun, Left, Made, A, s0
  <2> QED BY <2>8, <2>9, <2>10, <2>11
<1>12. end \in I /\ F[end] = end
  <2>1. I \in SUBSET A
    OBVIOUS
  <2> HIDE DEF A, F, M, I, s0
  <2> QED BY <1>6, <1>8, <1>9, <1>10, <1>11, <2>1, LoopInvariant
<1>16. \A m \in DOMAIN tasks : end.k.state[tasks[m].tid] # "DORMANT"
  <2>1. end \in A /\ step(end) = end /\ Made(end.k, end.n) /\ end.n \in 0 .. Len(tasks)
    BY <1>12
  <2>2. end.n = Len(tasks)
    <3> SUFFICES ASSUME end.n # Len(tasks) PROVE FALSE
      OBVIOUS
    <3>1. step(end).n = end.n + 1
      BY <1>5, <2>1
    <3> HIDE DEF step, end, A
    <3> QED BY <1>2, <2>1, <3>1
  <2> QED BY <1>2, <2>1, <2>2
<1> HIDE DEF end
<1> DEFINE h == end.k
<1>13. Begun(h)
  BY <1>12
<1>14. Dispatched(h)
  BY <1>13, TidFacts DEF Dispatched, Undispatched
<1> HIDE DEF h
<1>15. LET r == Ranked(h)
       IN  /\ Dispatched(r) /\ Ordered(r) /\ Counted(r)
           /\ r.cur = h.cur /\ r.state = h.state
           /\ \A t \in Tids : r.degree[t] <= MAX_TASKS
           /\ \A p \in Priorities : r.degrees[p] <= MAX_TASKS
  BY <1>13, <1>14, RankedFacts, RankedCounted
<1> QED BY <1>1, <1>13, <1>15, <1>16 DEF h

-------------------------------------------------------------------------------
(* Each task takes one place of the queue.                                 *)
LEMMA QueueLength ==
  ASSUME NEW k, Table(k)
  PROVE  /\ Len(k.pq) = Cardinality(Range(k.pq))
         /\ Len(k.pq) \in 1 .. MAX_TASKS
<1>1. /\ k.pq \in Seq(Tids) /\ Len(k.pq) \in Nat /\ Len(k.pq) > 0
      /\ Range(k.pq) \in SUBSET Tids /\ Once(k.pq)
  BY TableFacts DEF Table
<1>2. k.pq \in [1 .. Len(k.pq) -> Range(k.pq)] /\ DOMAIN k.pq = 1 .. Len(k.pq)
  BY <1>1, LenProperties DEF Range
<1>3. k.pq \in Bijection(1 .. Len(k.pq), Range(k.pq))
  BY <1>1, <1>2 DEF Bijection, Injection, Surjection, IsInjective, Once, Range
<1>4. Len(k.pq) = Cardinality(Range(k.pq))
  BY <1>1, <1>3, FS_CountingElements DEF ExistsBijection
<1> QED BY <1>1, <1>4, CountFacts

(* The root of the heap runs before all others.                            *)
LEMMA FirstOfHeap ==
  ASSUME NEW k, Table(k), Ordered(k)
  PROVE  LET r == Pq(k.pq, 0)
         IN  /\ r \in Range(k.pq)
             /\ \A t \in Range(k.pq) \ {r} : compare(k, r, t) /\ ~compare(k, t, r)
<1> DEFINE r == Pq(k.pq, 0)
<1>1. /\ k \in Globals /\ k.pq \in Seq(Tids) /\ r \in Range(k.pq) /\ Range(k.pq) \in SUBSET Tids
      /\ Keyed(k, Tids)
  BY TableFacts, GlobalsKeyed
<1>2. \A t \in Range(k.pq) : ~compare(k, t, r)
  <2>1. \A i \in 0 .. Len(k.pq) - 1 : ~compare(k, Pq(k.pq, i), r)
    BY <1>1, RootFirst DEF Ordered
  <2> QED BY <1>1, <2>1, PqFacts
<1>3. \A t \in Range(k.pq) \ {r} : compare(k, r, t)
  <2> SUFFICES ASSUME NEW t \in Range(k.pq) \ {r} PROVE compare(k, r, t)
    OBVIOUS
  <2>1. /\ k.prio[t] \in Int /\ k.prio[r] \in Int /\ k.degree[t] \in Int /\ k.degree[r] \in Int
    BY <1>1 DEF Keyed
  <2>2. k.prio[t] = k.prio[r] => k.degree[t] # k.degree[r]
    BY <1>1 DEF Ordered
  <2>3. ~compare(k, t, r)
    BY <1>2
  <2> HIDE DEF r
  <2> QED BY <2>1, <2>2, <2>3 DEF compare
<1> QED BY <1>1, <1>2, <1>3
===============================================================================
