------------------------------- MODULE RtxProofs -------------------------------
(***************************************************************************)
(* Proofs about Rtx, for every number of TCBs, every set of priorities,    *)
(* boot-time tasks, calls and contents of messages.  All need that no task *)
(* is created when every TCB is in use, and those about the order of the   *)
(* ready queue that no task is raised behind its caller: the runs          *)
(* rtx_capacity and rtx_raise show what happens otherwise.                 *)
(***************************************************************************)
EXTENDS Rtx, TaskProofs

(* The task table between two steps.                                       *)
TableInv ==
  /\ Dispatched(k)
  /\ \A t \in Tids : k.degree[t] <= MAX_TASKS
  /\ \A p \in Priorities : k.degrees[p] <= MAX_TASKS
  /\ cur # TID_NULL \/ Started => Pq(k.pq, 0) = cur

RestInv ==
  /\ mbx \subseteq Tids \ {TID_NULL}
  /\ box \in [Tids -> Seq(Messages)]
  /\ pc \in [Tids -> {"run", "recv", "irq"}]
  /\ pc[TID_NULL] = "run"
  /\ uart \in Seq(1 .. MaxKeys)
  /\ typed \in 0 .. MaxKeys

(* A task waits iff it is in k_recv_msg with an empty mailbox.             *)
WaitInv ==
  \A t \in Tids :
    /\ k.state[t] = "BLK_MSG" <=> pc[t] = "recv" /\ box[t] = <<>>
    /\ pc[t] = "recv" => t \in mbx /\ k.state[t] # "DORMANT"

RtxInv == TableInv /\ RestInv /\ WaitInv

OrderInv == Ordered(k) /\ Counted(k)

-------------------------------------------------------------------------------
(* What holds after a call holds with ranks in the place of degrees.       *)
LEMMA KernelFacts ==
  ASSUME NEW g, Dispatched(g), Pq(g.pq, 0) = g.cur, k' = Ranked(g)
  PROVE  /\ TableInv' /\ Pq(k'.pq, 0) = k'.cur
         /\ k'.pq = g.pq /\ k'.cur = g.cur /\ k'.prio = g.prio /\ k'.state = g.state
         /\ Ordered(g) => /\ OrderInv'
                          /\ \A a, b \in Range(g.pq) : compare(k', a, b) <=> compare(g, a, b)
<1>1. LET h == Ranked(g)
      IN  /\ Dispatched(h)
          /\ h.pq = g.pq /\ h.cur = g.cur /\ h.prio = g.prio /\ h.state = g.state
          /\ \A t \in Tids : h.degree[t] <= MAX_TASKS
          /\ \A p \in Priorities : h.degrees[p] <= MAX_TASKS
          /\ Ordered(g) => /\ Ordered(h) /\ Counted(h)
                           /\ \A a, b \in Range(g.pq) : compare(h, a, b) <=> compare(g, a, b)
  BY RankedFacts, RankedCounted
<1> QED BY <1>1 DEF TableInv, OrderInv, cur

(* What every step but the boot finds.                                     *)
LEMMA TableInvFacts ==
  ASSUME TableInv
  PROVE  /\ k \in Globals /\ Dispatched(k) /\ cur \in Tids /\ k.state \in [Tids -> States]
         /\ k.state[cur] = "RUNNING"
         /\ \A t \in Tids : k.state[t] = "RUNNING" <=> t = cur
         /\ k.priv[TID_NULL] = 1
         /\ cur # TID_NULL => Pq(k.pq, 0) = k.cur
<1>1. Dispatched(k) /\ (cur # TID_NULL => Pq(k.pq, 0) = k.cur)
  BY DEF TableInv, cur
<1>2. k \in Globals /\ k.priv[TID_NULL] = 1
  BY <1>1 DEF Dispatched, Table
<1> QED BY <1>1, <1>2, GlobalsFacts DEF Dispatched, cur

(* tsk_create takes a free TCB.                                            *)
LEMMA DormantFacts ==
  ASSUME NEW h, Dormant(h) # {}
  PROVE  Min(Dormant(h)) \in Tids /\ h.state[Min(Dormant(h))] = "DORMANT"
<1>1. Dormant(h) \in SUBSET Nat
  BY TidFacts DEF Dormant
<1>2. \E m \in Dormant(h) : \A j \in Dormant(h) : m <= j
  BY <1>1, Least
<1>3. Min(Dormant(h)) \in Dormant(h)
  BY <1>2 DEF Min
<1> QED BY <1>3 DEF Dormant

(* The boot.                                                               *)
LEMMA InitInv == Init => RtxInv /\ OrderInv
<1> SUFFICES ASSUME Init PROVE RtxInv /\ OrderInv
  OBVIOUS
<1>1. PICK tasks \in Boots : k = Booted(tasks)
  BY DEF Init
<1>2. /\ Dispatched(k) /\ Ordered(k) /\ Counted(k)
      /\ k.cur = TID_NULL
      /\ \A t \in Tids : k.state[t] # "BLK_MSG"
      /\ \A t \in Tids : k.degree[t] <= MAX_TASKS
      /\ \A p \in Priorities : k.degrees[p] <= MAX_TASKS
  BY <1>1, BootedFacts
<1>3. ~Started
  BY <1>1 DEF Started
<1>4. TableInv
  BY <1>2, <1>3 DEF TableInv, cur
<1>5. RestInv
  <2>1. <<>> \in Seq(Messages) /\ <<>> \in Seq(1 .. MaxKeys)
    BY EmptySeq
  <2>2. 0 \in 0 .. MaxKeys
    BY RtxConstants
  <2> QED BY <2>1, <2>2, TidFacts DEF Init, RestInv
<1>6. WaitInv
  BY <1>2 DEF WaitInv, Init
<1> QED BY <1>2, <1>4, <1>5, <1>6 DEF RtxInv, OrderInv

-------------------------------------------------------------------------------
(* What each call does to the task table.                                  *)
Dispatches == TableInv' /\ Pq(k'.pq, 0) = k'.cur

LastStep(t, p) ==
  /\ Dispatches
  /\ k'.prio[t] = p
  /\ OrderInv => OrderInv' /\ GoesLast(k, k', t)

(* From k to k' the task t gets priority p, goes last, and the first runs. *)
LEMMA LastStepFacts ==
  ASSUME TableInv, NEW t \in Tids, NEW p, NEW g, k' = Ranked(g),
         Dispatched(g), Pq(g.pq, 0) = g.cur,
         Alike(k, g, Tids \ {t}), g.prio[t] = p,
         Ordered(k) => Ordered(g) /\ GoesLast(k, g, t)
  PROVE  LastStep(t, p) /\ k'.state = g.state
<1>1. /\ TableInv' /\ Pq(k'.pq, 0) = k'.cur
      /\ k'.prio = g.prio /\ k'.state = g.state
      /\ Ordered(g) => OrderInv'
  BY KernelFacts
<1>2. Table(k) /\ Table(g) /\ k \in Globals /\ g \in Globals
  BY TableInvFacts DEF Dispatched, Table
<1>3. Range(k.pq) \ {t} \subseteq Range(g.pq)
  <2>1. Range(k.pq) = CanRun(k) /\ Range(g.pq) = CanRun(g)
    BY <1>2 DEF Table
  <2>2. k.state \in [Tids -> States] /\ g.state \in [Tids -> States]
    BY <1>2, GlobalsFacts
  <2> QED BY <2>1, <2>2 DEF CanRun, Alike, States
<1>4. Ordered(k) => GoesLast(k, k', t)
  BY <1>2, <1>3, RankedGoesLast
<1> QED BY <1>1, <1>4 DEF LastStep, Dispatches, OrderInv

LEMMA CreateStep ==
  ASSUME TableInv, ~Overcommit, NEW t \in Tids, NEW p \in Priorities, TskCreate(t, p)
  PROVE  /\ LastStep(t, p)
         /\ k.state[t] = "DORMANT"
         /\ Alike(k, k', Tids \ {t}) /\ k'.state[t] \in {"READY", "RUNNING"}
<1> DEFINE g == k_tsk_create(k, t, p)
<1>1. k.state[t] = "DORMANT" /\ k' = Ranked(g)
  BY DormantFacts DEF TskCreate, Kernel
<1>2. Dispatched(k)
  BY DEF TableInv
<1>3. /\ Dispatched(g) /\ Pq(g.pq, 0) = g.cur
      /\ Alike(k, g, Tids \ {t}) /\ g.state[t] \in {"READY", "RUNNING"}
      /\ g.prio[t] = p
      /\ Ordered(k) => Ordered(g) /\ GoesLast(k, g, t)
  BY <1>1, <1>2, CreateFacts
<1> HIDE DEF g
<1>4. LastStep(t, p) /\ k'.state = g.state
  BY <1>1, <1>3, LastStepFacts
<1> QED BY <1>1, <1>3, <1>4 DEF Alike

LEMMA SetPrioStep ==
  ASSUME TableInv, NEW t \in Tids, NEW p \in Priorities, TskSetPrio(t, p)
  PROVE  /\ t # TID_NULL
         /\ Dispatches
         /\ Alike(k, k', Tids)
         /\ ~RaiseBehind => LastStep(t, p)
<1> DEFINE g == k_tsk_set_prio(k, t, p)
<1>1. /\ k' = Ranked(g) /\ t # TID_NULL /\ Dispatched(k) /\ Pq(k.pq, 0) = k.cur
      /\ cur \in Tids
  BY TableInvFacts DEF TskSetPrio, Kernel, Is
<1>2. /\ Dispatched(g) /\ Pq(g.pq, 0) = g.cur
      /\ Alike(k, g, Tids)
      /\ g.prio[t] = p
      /\ Ordered(k) /\ Pq(k.pq, 0) = k.cur
           /\ (t \in Range(k.pq) /\ k.prio[k.cur] <= p => k.prio[t] <= p)
         => Ordered(g) /\ GoesLast(k, g, t)
  BY <1>1, SetPrioFacts
<1>3. ~RaiseBehind => (t \in Range(k.pq) /\ k.prio[k.cur] <= p => k.prio[t] <= p)
  <2>1. Keyed(k, Tids) /\ p \in Int
    BY TableInvFacts, GlobalsKeyed, PrioFacts
  <2>2. k.prio[k.cur] \in Int
    BY <1>1, <2>1 DEF Keyed, cur
  <2> QED BY <2>1, <2>2 DEF TskSetPrio, cur
<1> HIDE DEF g
<1>4. Dispatches /\ k'.state = g.state
  BY <1>1, <1>2, KernelFacts DEF Dispatches
<1>5. Alike(k, k', Tids)
  BY <1>2, <1>4 DEF Alike
<1>6. Alike(k, g, Tids \ {t})
  BY <1>2 DEF Alike
<1>7. ~RaiseBehind => LastStep(t, p)
  BY <1>1, <1>2, <1>3, <1>6, LastStepFacts
<1> QED BY <1>1, <1>4, <1>5, <1>7

LEMMA YieldStep ==
  ASSUME TableInv, TskYield
  PROVE  /\ k.prio[cur] \in Priorities
         /\ LastStep(cur, k.prio[cur])
         /\ Alike(k, k', Tids)
<1> DEFINE g == yield_helper(k)
<1>1. /\ Dispatched(k) /\ Pq(k.pq, 0) = k.cur /\ cur \in Tids /\ cur = k.cur /\ cur # TID_NULL
  BY TableInvFacts DEF TskYield, Is, cur
<1>2. k.prio[k.cur] \in Priorities /\ k' = Ranked(g)
  BY <1>1, TaskYieldFacts DEF TskYield, Kernel
<1>3. /\ Dispatched(g) /\ Pq(g.pq, 0) = g.cur
      /\ Alike(k, g, Tids)
      /\ g.prio = k.prio
      /\ Ordered(k) => Ordered(g) /\ GoesLast(k, g, k.cur)
  BY <1>1, <1>2, YieldFacts
<1> HIDE DEF g
<1>4. Alike(k, g, Tids \ {cur})
  BY <1>3 DEF Alike
<1>5. LastStep(cur, k.prio[cur]) /\ k'.state = g.state
  BY <1>1, <1>2, <1>3, <1>4, LastStepFacts
<1>6. Alike(k, k', Tids)
  BY <1>3, <1>5 DEF Alike
<1> QED BY <1>1, <1>2, <1>5, <1>6

LEMMA WakeStep ==
  ASSUME TableInv, NEW t \in Tids, k.state[t] = "BLK_MSG", k' = Ranked(mbx_unblock(k, t))
  PROVE  /\ LastStep(t, k.prio[t]) /\ k.prio[t] \in Priorities
         /\ Alike(k, k', Tids \ {t}) /\ k'.state[t] \in {"READY", "RUNNING"}
<1> DEFINE g == mbx_unblock(k, t)
<1>1. Dispatched(k)
  BY DEF TableInv
<1>2. /\ Dispatched(g) /\ Pq(g.pq, 0) = g.cur
      /\ Alike(k, g, Tids \ {t}) /\ g.state[t] \in {"READY", "RUNNING"}
      /\ g.prio[t] = k.prio[t] /\ k.prio[t] \in Priorities
      /\ Ordered(k) => Ordered(g) /\ GoesLast(k, g, t)
  BY <1>1, WokenFacts
<1>3. k' = Ranked(g)
  OBVIOUS
<1> HIDE DEF g
<1>4. LastStep(t, k.prio[t]) /\ k'.state = g.state
  BY <1>2, <1>3, LastStepFacts
<1> QED BY <1>2, <1>4 DEF Alike

(* From k to k' the running task leaves the queue, nothing else moves.     *)
LeaveStep ==
  /\ Dispatches
  /\ k'.prio = k.prio
  /\ Alike(k, k', Tids \ {cur})
  /\ OrderInv => /\ OrderInv'
                 /\ \A a, b \in Range(k.pq) \ {cur} : compare(k', a, b) <=> compare(k, a, b)

LEMMA LeaveStepFacts ==
  ASSUME TableInv, NEW g, k' = Ranked(g), Dispatched(g), Pq(g.pq, 0) = g.cur,
         Alike(k, g, Tids \ {cur}), g.prio = k.prio, g.degree = k.degree,
         Ordered(k) => Ordered(g)
  PROVE  LeaveStep /\ k'.state = g.state
<1>1. /\ TableInv' /\ Pq(k'.pq, 0) = k'.cur
      /\ k'.prio = g.prio /\ k'.state = g.state
      /\ Ordered(g) => /\ OrderInv'
                       /\ \A a, b \in Range(g.pq) : compare(k', a, b) <=> compare(g, a, b)
  BY KernelFacts
<1>2. Table(k) /\ Table(g) /\ k \in Globals /\ g \in Globals
  BY TableInvFacts DEF Dispatched, Table
<1>3. Range(k.pq) \ {cur} \subseteq Range(g.pq)
  <2>1. Range(k.pq) = CanRun(k) /\ Range(g.pq) = CanRun(g)
    BY <1>2 DEF Table
  <2>2. k.state \in [Tids -> States] /\ g.state \in [Tids -> States]
    BY <1>2, GlobalsFacts
  <2> QED BY <2>1, <2>2 DEF CanRun, Alike, States
<1>4. \A a, b : compare(g, a, b) <=> compare(k, a, b)
  BY SameKeys
<1>5. Alike(k, k', Tids \ {cur})
  BY <1>1 DEF Alike
<1> QED BY <1>1, <1>3, <1>4, <1>5 DEF LeaveStep, Dispatches, OrderInv

LEMMA ExitStep ==
  ASSUME TableInv, TskExit
  PROVE  LeaveStep /\ k'.state[cur] = "DORMANT"
<1> DEFINE g == k_tsk_exit(k)
<1>1. /\ Dispatched(k) /\ Pq(k.pq, 0) = k.cur /\ cur = k.cur /\ cur # TID_NULL
      /\ k' = Ranked(g)
  BY TableInvFacts DEF TskExit, Is, cur, Kernel
<1>2. /\ Dispatched(g) /\ Pq(g.pq, 0) = g.cur
      /\ Alike(k, g, Tids \ {k.cur}) /\ g.state[k.cur] = "DORMANT"
      /\ g.prio = k.prio /\ g.degree = k.degree
      /\ Ordered(k) => Ordered(g)
  BY <1>1, ExitFacts
<1> HIDE DEF g
<1>3. LeaveStep /\ k'.state = g.state
  BY <1>1, <1>2, LeaveStepFacts DEF cur
<1> QED BY <1>1, <1>2, <1>3

LEMMA BlockStep ==
  ASSUME TableInv, RecvBlock
  PROVE  LeaveStep /\ k'.state[cur] = "BLK_MSG"
<1> DEFINE g == Blocked(k)
<1>1. /\ Dispatched(k) /\ Pq(k.pq, 0) = k.cur /\ cur = k.cur /\ cur # TID_NULL
      /\ k' = Ranked(g)
  BY TableInvFacts DEF RecvBlock, Is, cur, Kernel
<1>2. /\ Dispatched(g) /\ Pq(g.pq, 0) = g.cur
      /\ Alike(k, g, Tids \ {k.cur}) /\ g.state[k.cur] = "BLK_MSG"
      /\ g.prio = k.prio /\ g.degree = k.degree
      /\ Ordered(k) => Ordered(g)
  BY <1>1, BlockedFacts
<1> HIDE DEF g
<1>3. LeaveStep /\ k'.state = g.state
  BY <1>1, <1>2, LeaveStepFacts DEF cur
<1> QED BY <1>1, <1>2, <1>3

(* From k to k' the first of the queue gets the processor.                 *)
SameStep ==
  /\ Dispatches
  /\ Range(k'.pq) = Range(k.pq) /\ k'.pq = k.pq /\ k'.prio = k.prio
  /\ Alike(k, k', Tids)
  /\ OrderInv => /\ OrderInv'
                 /\ \A a, b \in Range(k.pq) : compare(k', a, b) <=> compare(k, a, b)

LEMMA SameStepFacts ==
  ASSUME TableInv, k' = Ranked(k_tsk_run_new(k))
  PROVE  SameStep
<1> DEFINE g == k_tsk_run_new(k)
<1>1. Undispatched(k)
  <2>1. Dispatched(k) /\ cur \in Tids /\ k.state[cur] = "RUNNING"
    BY TableInvFacts
  <2> QED BY <2>1 DEF Dispatched, Undispatched, cur
<1>2. /\ Dispatched(g) /\ Pq(g.pq, 0) = g.cur /\ g.pq = k.pq
      /\ g.prio = k.prio /\ g.degree = k.degree
      /\ Alike(k, g, Tids)
      /\ Ordered(k) => Ordered(g)
  BY <1>1, RunNewKeeps
<1>3. k' = Ranked(g)
  OBVIOUS
<1> HIDE DEF g
<1>4. /\ TableInv' /\ Pq(k'.pq, 0) = k'.cur
      /\ k'.prio = g.prio /\ k'.state = g.state /\ k'.pq = g.pq
      /\ Ordered(g) => /\ OrderInv'
                       /\ \A a, b \in Range(g.pq) : compare(k', a, b) <=> compare(g, a, b)
  BY <1>2, <1>3, KernelFacts
<1>5. \A a, b : compare(g, a, b) <=> compare(k, a, b)
  BY <1>2, SameKeys
<1> QED BY <1>2, <1>4, <1>5 DEF SameStep, Dispatches, OrderInv, Alike

LEMMA NullYieldStep ==
  ASSUME TableInv, NullYield
  PROVE  SameStep
<1>1. k.prio[k.cur] = PRIO_NULL
  BY TableInvFacts DEF NullYield, cur, Dispatched, Table
<1>2. k' = Ranked(k_tsk_run_new(k))
  BY <1>1 DEF NullYield, Kernel, k_tsk_yield
<1> QED BY <1>2, SameStepFacts

-------------------------------------------------------------------------------
(* Every step keeps the invariant.                                         *)
LEMMA RestInvFacts ==
  ASSUME RestInv
  PROVE  /\ mbx \subseteq Tids \ {TID_NULL}
         /\ box \in [Tids -> Seq(Messages)]
         /\ pc \in [Tids -> {"run", "recv", "irq"}]
         /\ pc[TID_NULL] = "run"
         /\ uart \in Seq(1 .. MaxKeys)
         /\ typed \in 0 .. MaxKeys
BY DEF RestInv

LEMMA CreateKeeps ==
  ASSUME RtxInv, ~Overcommit, NEW t \in Tids, NEW p \in Priorities, TskCreate(t, p)
  PROVE  RtxInv'
<1>1. TableInv /\ RestInv /\ WaitInv
  BY DEF RtxInv
<1>2. /\ mbx' = mbx \ {t} /\ box' = [box EXCEPT ![t] = <<>>] /\ pc' = [pc EXCEPT ![t] = "run"]
      /\ uart' = uart /\ typed' = typed
  BY DEF TskCreate
<1>3. /\ TableInv'
      /\ Alike(k, k', Tids \ {t}) /\ k'.state[t] \in {"READY", "RUNNING"}
  BY <1>1, CreateStep DEF LastStep, Dispatches
<1>4. RestInv'
  <2>1. <<>> \in Seq(Messages)
    BY EmptySeq
  <2> QED BY <1>1, <1>2, <2>1, TidFacts DEF RestInv
<1>5. WaitInv'
  <2> SUFFICES ASSUME NEW u \in Tids
               PROVE  /\ k'.state[u] = "BLK_MSG" <=> pc'[u] = "recv" /\ box'[u] = <<>>
                      /\ pc'[u] = "recv" => u \in mbx' /\ k'.state[u] # "DORMANT"
    BY DEF WaitInv
  <2>1. CASE u = t
    BY <1>1, <1>2, <1>3, <2>1, RestInvFacts
  <2>2. CASE u # t
    <3>1. pc'[u] = pc[u] /\ box'[u] = box[u] /\ (u \in mbx => u \in mbx')
      BY <1>1, <1>2, <2>2, RestInvFacts
    <3> QED BY <1>1, <1>3, <2>2, <3>1 DEF WaitInv, Alike
  <2> QED BY <2>1, <2>2
<1> QED BY <1>3, <1>4, <1>5 DEF RtxInv

(* A step that leaves mailboxes and program counters alone.                *)
LEMMA TableOnly ==
  ASSUME RtxInv, TableInv', UNCHANGED <<mbx, box, pc, uart, typed>>,
         NEW x \in Tids, Alike(k, k', Tids \ {x}), pc[x] # "recv", k'.state[x] # "BLK_MSG"
  PROVE  RtxInv'
<1>1. RestInv'
  BY DEF RtxInv, RestInv
<1>2. WaitInv'
  BY DEF RtxInv, WaitInv, Alike
<1> QED BY <1>1, <1>2 DEF RtxInv

LEMMA AlikeAll ==
  ASSUME RtxInv, TableInv', UNCHANGED <<mbx, box, pc, uart, typed>>, Alike(k, k', Tids)
  PROVE  RtxInv'
<1>1. RestInv'
  BY DEF RtxInv, RestInv
<1>2. WaitInv'
  BY DEF RtxInv, WaitInv, Alike
<1> QED BY <1>1, <1>2 DEF RtxInv

LEMMA ExitKeeps == ASSUME RtxInv, TskExit PROVE RtxInv'
<1>1. TableInv /\ cur \in Tids /\ pc[cur] = "run"
  BY TableInvFacts DEF RtxInv, TskExit, Is
<1>2. TableInv' /\ Alike(k, k', Tids \ {cur}) /\ k'.state[cur] = "DORMANT"
  BY <1>1, ExitStep DEF LeaveStep, Dispatches
<1> QED BY <1>1, <1>2, TableOnly DEF TskExit

(* k_send_msg: a receiver that waited has the message and is ready.        *)
LEMMA SendKeeps ==
  ASSUME RtxInv, NEW r \in Tids, NEW m \in Messages, Receives(r), k_send_msg(r, m), Pq(k.pq, 0) = k.cur,
         UNCHANGED <<mbx, pc>>, uart' \in Seq(1 .. MaxKeys), typed' = typed
  PROVE  /\ RtxInv'
         /\ \A t \in Tids : box'[t] = IF t = r THEN Append(box[t], m) ELSE box[t]
<1>1. TableInv /\ RestInv /\ WaitInv /\ k.state[r] # "DORMANT" /\ r \in mbx
  BY DEF RtxInv, Receives
<1>2. box' = [box EXCEPT ![r] = Append(@, m)]
  BY DEF k_send_msg
<1>3. /\ box[r] \in Seq(Messages) /\ Append(box[r], m) \in Seq(Messages)
      /\ Append(box[r], m) # <<>>
  <2>1. box[r] \in Seq(Messages)
    BY <1>1, RestInvFacts
  <2> QED BY <2>1, AppendProperties
<1>4. RestInv'
  BY <1>1, <1>2, <1>3 DEF RestInv
<1>5. \A t \in Tids : box'[t] = IF t = r THEN Append(box[t], m) ELSE box[t]
  BY <1>1, <1>2, RestInvFacts
<1>6. /\ TableInv'
      /\ Alike(k, k', Tids \ {r})
      /\ k'.state[r] # "BLK_MSG" /\ k'.state[r] # "DORMANT"
  <2>1. CASE k.state[r] = "BLK_MSG"
    <3>1. k' = Ranked(mbx_unblock(k, r))
      BY <2>1 DEF k_send_msg, Kernel
    <3> QED BY <1>1, <2>1, <3>1, WakeStep DEF LastStep, Dispatches
  <2>2. CASE k.state[r] # "BLK_MSG"
    <3>1. k' = Ranked(k)
      BY <2>2 DEF k_send_msg, Kernel
    <3>2. Dispatched(k)
      BY <1>1 DEF TableInv
    <3>3. TableInv' /\ k'.state = k.state
      BY <3>1, <3>2, KernelFacts
    <3> QED BY <1>1, <2>2, <3>3 DEF Alike
  <2> QED BY <2>1, <2>2
<1>7. WaitInv'
  <2> SUFFICES ASSUME NEW u \in Tids
               PROVE  /\ k'.state[u] = "BLK_MSG" <=> pc'[u] = "recv" /\ box'[u] = <<>>
                      /\ pc'[u] = "recv" => u \in mbx' /\ k'.state[u] # "DORMANT"
    BY DEF WaitInv
  <2>1. CASE u = r
    BY <1>1, <1>3, <1>5, <1>6, <2>1
  <2>2. CASE u # r
    BY <1>1, <1>5, <1>6, <2>2 DEF WaitInv, Alike
  <2> QED BY <2>1, <2>2
<1> QED BY <1>4, <1>5, <1>6, <1>7 DEF RtxInv

LEMMA SendMsgKeeps ==
  ASSUME RtxInv, NEW r \in Tids, NEW c \in Contents, SendMsg(r, c)
  PROVE  RtxInv'
<1>1. TableInv /\ RestInv /\ cur \in Tids /\ cur # TID_NULL /\ Pq(k.pq, 0) = k.cur
  BY TableInvFacts DEF RtxInv, SendMsg, Is
<1>2. From(cur, c) \in Messages
  BY <1>1 DEF Messages
<1>3. /\ Receives(r) /\ k_send_msg(r, From(cur, c)) /\ UNCHANGED <<mbx, pc>>
      /\ uart' \in Seq(1 .. MaxKeys) /\ typed' = typed
  BY <1>1 DEF SendMsg, Accepts, RestInv
<1> QED BY <1>1, <1>2, <1>3, SendKeeps

LEMMA StoreKeyKeeps == ASSUME RtxInv, StoreKey PROVE RtxInv'
<1>1. /\ TableInv /\ RestInv /\ uart \in Seq(1 .. MaxKeys) /\ uart # <<>>
      /\ pc[cur] = "irq" /\ uart' = Tail(uart)
  BY RestInvFacts DEF RtxInv, StoreKey, ReadKey, Rx_Data_Ready, Rx_Read_Data
<1>2. Head(uart) \in 1 .. MaxKeys /\ Tail(uart) \in Seq(1 .. MaxKeys)
  BY <1>1, HeadTailProperties
<1>3. Key(Head(uart)) \in Messages
  BY <1>2 DEF Messages
<1>4. cur # TID_NULL /\ Pq(k.pq, 0) = k.cur
  BY <1>1, TableInvFacts, RestInvFacts
<1>5. TID_KCD \in Tids
  BY TaskConstants
<1>6. /\ Receives(TID_KCD) /\ k_send_msg(TID_KCD, Key(Head(uart)))
      /\ UNCHANGED <<mbx, pc>> /\ typed' = typed /\ uart' \in Seq(1 .. MaxKeys)
  BY <1>1, <1>2 DEF StoreKey, Accepts, ReadKey
<1> QED BY <1>3, <1>4, <1>5, <1>6, SendKeeps

(* Steps that leave the task table alone.                                  *)
LEMMA SameTable ==
  ASSUME TableInv, k' = k
  PROVE  TableInv'
BY DEF TableInv, Started, cur

(* A message is taken from a mailbox by a task that runs.                  *)
LEMMA TakeKeeps ==
  ASSUME RtxInv, cur \in mbx, box[cur] # <<>>, box' = [box EXCEPT ![cur] = Tail(@)],
         pc' \in [Tids -> {"run", "recv", "irq"}],
         pc'[cur] = "run", \A t \in Tids \ {cur} : pc'[t] = pc[t],
         UNCHANGED <<k, mbx, uart, typed>>
  PROVE  RtxInv'
<1>1. TableInv /\ RestInv /\ WaitInv /\ cur \in Tids /\ k.state[cur] = "RUNNING"
  BY TableInvFacts DEF RtxInv
<1>2. box[cur] \in Seq(Messages) /\ Tail(box[cur]) \in Seq(Messages)
  <2>1. box[cur] \in Seq(Messages)
    BY <1>1, RestInvFacts
  <2> QED BY <2>1, HeadTailProperties
<1>3. RestInv'
  BY <1>1, <1>2, TidFacts DEF RestInv
<1>4. WaitInv'
  BY <1>1, RestInvFacts DEF WaitInv
<1> QED BY <1>1, <1>3, <1>4, SameTable DEF RtxInv

LEMMA BlockKeeps == ASSUME RtxInv, RecvBlock PROVE RtxInv'
<1>1. /\ TableInv /\ RestInv /\ WaitInv /\ cur \in Tids
      /\ cur # TID_NULL /\ cur \in mbx /\ box[cur] = <<>>
      /\ pc' = [pc EXCEPT ![cur] = "recv"] /\ UNCHANGED <<mbx, box, uart, typed>>
  BY TableInvFacts DEF RtxInv, RecvBlock, Is
<1>2. TableInv' /\ Alike(k, k', Tids \ {cur}) /\ k'.state[cur] = "BLK_MSG"
  BY <1>1, BlockStep DEF LeaveStep, Dispatches
<1>3. RestInv'
  BY <1>1 DEF RestInv
<1>4. pc'[cur] = "recv" /\ \A t \in Tids : t # cur => pc'[t] = pc[t]
  BY <1>1, RestInvFacts
<1>5. WaitInv'
  BY <1>1, <1>2, <1>4 DEF WaitInv, Alike
<1> QED BY <1>2, <1>3, <1>5 DEF RtxInv

LEMMA KeyPressedKeeps == ASSUME RtxInv, KeyPressed PROVE RtxInv'
<1>1. TableInv /\ RestInv /\ WaitInv /\ typed \in 0 .. MaxKeys /\ uart \in Seq(1 .. MaxKeys)
  BY RestInvFacts DEF RtxInv
<1>2. typed' \in 1 .. MaxKeys /\ UNCHANGED <<k, mbx, box, pc>> /\ uart' = Append(uart, typed')
  BY <1>1, RtxConstants DEF KeyPressed
<1>3. uart' \in Seq(1 .. MaxKeys)
  BY <1>1, <1>2, AppendProperties
<1>4. RestInv'
  BY <1>1, <1>2, <1>3 DEF RestInv
<1>5. WaitInv'
  BY <1>1, <1>2 DEF WaitInv
<1> QED BY <1>1, <1>2, <1>4, <1>5, SameTable DEF RtxInv

LEMMA InterruptKeeps == ASSUME RtxInv, Interrupt PROVE RtxInv'
<1>1. /\ TableInv /\ RestInv /\ WaitInv /\ cur \in Tids /\ k.state[cur] = "RUNNING"
      /\ pc[cur] = "run" /\ pc' = [pc EXCEPT ![cur] = "irq"]
      /\ UNCHANGED <<k, mbx, box, uart, typed>>
  BY TableInvFacts DEF RtxInv, Interrupt, IrqEnabled
<1>2. cur # TID_NULL
  BY <1>1, TableInvFacts DEF Interrupt, IrqEnabled
<1>3. RestInv'
  BY <1>1, <1>2, TidFacts DEF RestInv
<1>4. WaitInv'
  BY <1>1, RestInvFacts DEF WaitInv
<1> QED BY <1>1, <1>3, <1>4, SameTable DEF RtxInv

LEMMA InterruptEndsKeeps == ASSUME RtxInv, InterruptEnds PROVE RtxInv'
<1>1. /\ TableInv /\ RestInv /\ WaitInv /\ cur \in Tids
      /\ pc[cur] = "irq" /\ pc' = [pc EXCEPT ![cur] = "run"]
      /\ k' = Ranked(k_tsk_run_new(k))
      /\ UNCHANGED <<mbx, box, uart, typed>>
  BY TableInvFacts DEF RtxInv, InterruptEnds, Kernel
<1>2. TableInv' /\ Alike(k, k', Tids)
  BY <1>1, SameStepFacts DEF SameStep, Dispatches
<1>3. RestInv'
  BY <1>1 DEF RestInv
<1>4. WaitInv'
  BY <1>1, <1>2, RestInvFacts DEF WaitInv, Alike
<1> QED BY <1>2, <1>3, <1>4 DEF RtxInv

(* The invariant is inductive ...                                          *)
LEMMA InductiveInv == ~Overcommit /\ RtxInv /\ [Next]_vars => RtxInv'
<1> SUFFICES ASSUME ~Overcommit, RtxInv, [Next]_vars PROVE RtxInv'
  OBVIOUS
<1>0. TableInv /\ RestInv /\ cur \in Tids
  BY TableInvFacts DEF RtxInv
<1>1. CASE UNCHANGED vars
  <2>1. UNCHANGED <<k, mbx, box, pc, uart, typed>>
    BY <1>1 DEF vars
  <2>2. Alike(k, k', Tids) /\ TableInv'
    BY <1>0, <2>1, SameTable DEF Alike
  <2> QED BY <2>1, <2>2, AlikeAll
<1>2. ASSUME NEW t \in Tids, NEW p \in Priorities, TskCreate(t, p) PROVE RtxInv'
  BY <1>2, CreateKeeps
<1>3. ASSUME NEW t \in Tids, NEW p \in Priorities, TskSetPrio(t, p) PROVE RtxInv'
  <2>1. TableInv' /\ Alike(k, k', Tids)
    BY <1>0, <1>3, SetPrioStep DEF Dispatches
  <2> QED BY <1>3, <2>1, AlikeAll DEF TskSetPrio
<1>4. CASE TskExit
  BY <1>4, ExitKeeps
<1>5. CASE TskYield
  <2>1. TableInv' /\ Alike(k, k', Tids)
    BY <1>0, <1>5, YieldStep DEF LastStep, Dispatches
  <2> QED BY <1>5, <2>1, AlikeAll DEF TskYield
<1>6. CASE MbxCreate
  <2>1. k' = k /\ mbx' = mbx \cup {cur} /\ UNCHANGED <<box, pc, uart, typed>> /\ cur # TID_NULL
    BY <1>6 DEF MbxCreate, Is
  <2>2. RestInv' /\ WaitInv'
    BY <1>0, <2>1 DEF RtxInv, RestInv, WaitInv
  <2> QED BY <1>0, <2>1, <2>2, SameTable DEF RtxInv
<1>7. ASSUME NEW r \in Tids, NEW c \in Contents, SendMsg(r, c) PROVE RtxInv'
  BY <1>7, SendMsgKeeps
<1>8. CASE RecvMsg
  <2>1. /\ cur \in mbx /\ box[cur] # <<>> /\ box' = [box EXCEPT ![cur] = Tail(@)]
        /\ pc[cur] = "run" /\ UNCHANGED <<k, mbx, pc, uart, typed>>
    BY <1>8 DEF RecvMsg, Is
  <2> QED BY <1>0, <2>1, RestInvFacts, TakeKeeps
<1>9. CASE RecvBlock
  BY <1>9, BlockKeeps
<1>10. CASE RecvGoesOn
  <2>1. /\ cur \in mbx /\ box[cur] # <<>> /\ box' = [box EXCEPT ![cur] = Tail(@)]
        /\ pc' = [pc EXCEPT ![cur] = "run"] /\ UNCHANGED <<k, mbx, uart, typed>>
    BY <1>10 DEF RecvGoesOn
  <2>2. /\ pc' \in [Tids -> {"run", "recv", "irq"}]
        /\ pc'[cur] = "run" /\ \A t \in Tids \ {cur} : pc'[t] = pc[t]
    BY <1>0, <2>1, RestInvFacts
  <2> QED BY <2>1, <2>2, TakeKeeps
<1>11. CASE NullYield
  <2>1. TableInv' /\ Alike(k, k', Tids)
    BY <1>0, <1>11, NullYieldStep DEF SameStep, Dispatches
  <2> QED BY <1>11, <2>1, AlikeAll DEF NullYield
<1>12. CASE KeyPressed
  BY <1>12, KeyPressedKeeps
<1>13. CASE Interrupt
  BY <1>13, InterruptKeeps
<1>14. CASE StoreKey
  BY <1>14, StoreKeyKeeps
<1>15. CASE DropKey
  <2>1. UNCHANGED <<k, mbx, box, pc, typed>> /\ uart # <<>> /\ uart' = Tail(uart)
    BY <1>15 DEF DropKey, ReadKey, Rx_Data_Ready, Rx_Read_Data
  <2>2. uart' \in Seq(1 .. MaxKeys)
    BY <1>0, <2>1, RestInvFacts, HeadTailProperties
  <2>3. RestInv' /\ WaitInv'
    BY <1>0, <2>1, <2>2 DEF RtxInv, RestInv, WaitInv
  <2> QED BY <1>0, <2>1, <2>3, SameTable DEF RtxInv
<1>16. CASE InterruptEnds
  BY <1>16, InterruptEndsKeeps
<1>17. CASE InterruptUnexpected
  <2>1. k' = Ranked(k_tsk_run_new(k))
    BY <1>17 DEF InterruptUnexpected, Kernel
  <2>2. TableInv' /\ Alike(k, k', Tids)
    BY <1>0, <2>1, SameStepFacts DEF SameStep, Dispatches
  <2> QED BY <1>17, <2>2, AlikeAll DEF InterruptUnexpected
<1> QED
  BY <1>1, <1>2, <1>3, <1>4, <1>5, <1>6, <1>7, <1>8, <1>9, <1>10, <1>11, <1>12, <1>13, <1>14,
     <1>15, <1>16, <1>17 DEF Next, SystemCall

(* ... and so is the order of the queue.                                   *)
LEMMA InductiveOrder ==
  ~Overcommit /\ ~RaiseBehind /\ RtxInv /\ OrderInv /\ [Next]_vars => OrderInv'
<1> SUFFICES ASSUME ~Overcommit, ~RaiseBehind, RtxInv, OrderInv, [Next]_vars PROVE OrderInv'
  OBVIOUS
<1>0. TableInv /\ RestInv /\ cur \in Tids
  BY TableInvFacts DEF RtxInv
<1>1. ASSUME k' = k PROVE OrderInv'
  BY <1>1 DEF OrderInv
<1>2. ASSUME NEW t \in Tids, NEW p \in Priorities, TskCreate(t, p) PROVE OrderInv'
  BY <1>0, <1>2, CreateStep DEF LastStep
<1>3. ASSUME NEW t \in Tids, NEW p \in Priorities, TskSetPrio(t, p) PROVE OrderInv'
  BY <1>0, <1>3, SetPrioStep DEF LastStep
<1>4. ASSUME NEW r \in Tids, NEW m, k_send_msg(r, m) PROVE OrderInv'
  <2>1. CASE k.state[r] = "BLK_MSG"
    BY <1>0, <1>4, <2>1, WakeStep DEF k_send_msg, Kernel, LastStep
  <2>2. CASE k.state[r] # "BLK_MSG"
    <3>1. k' = Ranked(k) /\ Dispatched(k)
      BY <1>0, <1>4, <2>2 DEF k_send_msg, Kernel, TableInv
    <3> QED BY <3>1, RankedFacts, RankedCounted DEF OrderInv
  <2> QED BY <2>1, <2>2
<1>5. CASE TskExit
  BY <1>0, <1>5, ExitStep DEF LeaveStep
<1>6. CASE TskYield
  BY <1>0, <1>6, YieldStep DEF LastStep
<1>7. CASE RecvBlock
  BY <1>0, <1>7, BlockStep DEF LeaveStep
<1>8. CASE NullYield
  BY <1>0, <1>8, NullYieldStep DEF SameStep
<1>9. CASE InterruptEnds \/ InterruptUnexpected
  BY <1>0, <1>9, SameStepFacts DEF InterruptEnds, InterruptUnexpected, Kernel, SameStep
<1>10. ASSUME NEW r \in Tids, NEW c \in Contents, SendMsg(r, c) PROVE OrderInv'
  BY <1>4, <1>10 DEF SendMsg
<1>11. CASE StoreKey
  <2>1. TID_KCD \in Tids
    BY TaskConstants
  <2> QED BY <1>4, <1>11, <2>1 DEF StoreKey
<1>12. (UNCHANGED vars) \/ MbxCreate \/ RecvMsg \/ RecvGoesOn \/ KeyPressed \/ Interrupt \/ DropKey
       => k' = k
  BY DEF vars, MbxCreate, RecvMsg, RecvGoesOn, KeyPressed, Interrupt, DropKey
<1> QED
  BY <1>1, <1>2, <1>3, <1>5, <1>6, <1>7, <1>8, <1>9, <1>10, <1>11, <1>12 DEF Next, SystemCall

-------------------------------------------------------------------------------
LEMMA AlwaysInv == ASSUME ~Overcommit PROVE Spec => []RtxInv
<1>1. Init => RtxInv
  BY InitInv
<1>2. RtxInv /\ [Next]_vars => RtxInv'
  BY InductiveInv
<1> QED BY <1>1, <1>2, PTL DEF Spec

LEMMA AlwaysOrdered == ASSUME ~Overcommit, ~RaiseBehind PROVE Spec => [](RtxInv /\ OrderInv)
<1>1. Init => RtxInv /\ OrderInv
  BY InitInv
<1>2. RtxInv /\ OrderInv /\ [Next]_vars => RtxInv' /\ OrderInv'
  BY InductiveInv, InductiveOrder
<1> QED BY <1>1, <1>2, PTL DEF Spec

(* Every variable stays in its range; the queue has 1 to MAX_TASKS entries *)
(* (k_task.c:73-74, pq is not overrun).                                    *)
THEOREM TypesCorrect == ASSUME ~Overcommit PROVE Spec => []TypeOK
<1>1. RtxInv => TypeOK
  <2> SUFFICES ASSUME RtxInv PROVE TypeOK
    OBVIOUS
  <2>1. Table(k) /\ k \in Globals
    BY TableInvFacts DEF RtxInv, Dispatched
  <2>2. Len(k.pq) \in 1 .. MAX_TASKS /\ k.active \in 1 .. MAX_TASKS
    BY <2>1, QueueLength DEF Table
  <2> QED BY <2>1, <2>2 DEF RtxInv, TableInv, RestInv, TypeOK
<1> QED BY <1>1, AlwaysInv, PTL

(* The ready queue holds the tasks that can run, each once, whatever calls *)
(* reorder, replace or remove its entries (k_task.c:198-224, 656-667).     *)
THEOREM QueueIsExact == ASSUME ~Overcommit PROVE Spec => []QueueExact
<1>1. RtxInv => QueueExact
  <2> SUFFICES ASSUME RtxInv PROVE QueueExact
    OBVIOUS
  <2>1. Table(k)
    BY TableInvFacts DEF RtxInv, Dispatched
  <2> QED BY <2>1, QueueLength DEF Table, CanRun, QueueExact, Queued
<1> QED BY <1>1, AlwaysInv, PTL

(* A task waits only while its mailbox is empty (k_msg.c:153-160).         *)
THEOREM NoLostWakeUp == ASSUME ~Overcommit PROVE Spec => []BlockedIsEmpty
<1>1. RtxInv => BlockedIsEmpty
  BY DEF RtxInv, WaitInv, BlockedIsEmpty
<1> QED BY <1>1, AlwaysInv, PTL

(* A task that is switched in again in k_recv_msg finds a message,         *)
(* although it reads through head without a test (k_msg.c:172-183).        *)
THEOREM WokenFinds == ASSUME ~Overcommit PROVE Spec => []WokenHasMessage
<1>1. RtxInv => WokenHasMessage
  BY DEF RtxInv, WaitInv, WokenHasMessage
<1> QED BY <1>1, AlwaysInv, PTL

(* Every call that changes a key repairs the heap.                         *)
THEOREM HeapIsOrdered == ASSUME ~Overcommit, ~RaiseBehind PROVE Spec => []HeapOrdered
<1>1. RtxInv /\ OrderInv => HeapOrdered
  BY DEF OrderInv, Ordered, HeapOrdered
<1> QED BY <1>1, AlwaysOrdered, PTL

(* Strict priority, first come first served (common.h:72): after the boot  *)
(* the running task is the first of those that can run.                    *)
THEOREM RunsFirst == ASSUME ~Overcommit, ~RaiseBehind PROVE Spec => []RunningIsFirst
<1>1. RtxInv /\ OrderInv => RunningIsFirst
  <2> SUFFICES ASSUME RtxInv, OrderInv PROVE RunningIsFirst
    OBVIOUS
  <2>1. Table(k) /\ Ordered(k) /\ (Started => Pq(k.pq, 0) = cur)
    BY DEF RtxInv, TableInv, OrderInv, Dispatched
  <2>2. \A t \in Tids : k.state[t] = "RUNNING" <=> t = cur
    BY TableInvFacts DEF RtxInv
  <2> QED BY <2>1, <2>2, FirstOfHeap DEF RunningIsFirst, Queued
<1> QED BY <1>1, AlwaysOrdered, PTL

LEMMA AppendedOnce == ASSUME NEW m PROVE Len(Append(<<>>, m)) = 1
OBVIOUS

(* A waiting receiver is made ready by a message to it and by nothing      *)
(* else.                                                                   *)
THEOREM OnlyMessagesWake == ASSUME ~Overcommit PROVE Spec => WokenByMessage
<1> DEFINE Woken == \A t \in Tids : k.state[t] = "BLK_MSG" /\ k'.state[t] # "BLK_MSG" =>
                       /\ k'.state[t] \in {"READY", "RUNNING"}
                       /\ Len(box'[t]) = 1
<1>1. RtxInv /\ RtxInv' /\ [Next]_vars => Woken
  <2> SUFFICES ASSUME RtxInv, RtxInv', [Next]_vars,
                      NEW t \in Tids, k.state[t] = "BLK_MSG", k'.state[t] # "BLK_MSG"
               PROVE  k'.state[t] \in {"READY", "RUNNING"} /\ Len(box'[t]) = 1
    OBVIOUS
  <2>1. /\ TableInv /\ RestInv /\ t # cur /\ cur \in Tids
        /\ pc[t] = "recv" /\ box[t] = <<>>
    BY TableInvFacts DEF RtxInv, WaitInv
  <2>2. pc \in [Tids -> {"run", "recv", "irq"}] /\ box \in [Tids -> Seq(Messages)]
    BY <2>1, RestInvFacts
  <2> DEFINE Same == pc'[t] = pc[t] /\ (box'[t] = box[t] \/ \E m : box'[t] = Append(box[t], m))
  <2>3. Same
    <3>1. ASSUME NEW u \in Tids, NEW p \in Priorities, TskCreate(u, p) PROVE Same
      <4>1. u # t
        BY <2>1, <3>1, DormantFacts DEF TskCreate
      <4> QED BY <2>1, <2>2, <3>1, <4>1 DEF TskCreate
    <3>2. ASSUME NEW r \in Tids, NEW m, k_send_msg(r, m), pc' = pc PROVE Same
      BY <2>1, <2>2, <3>2 DEF k_send_msg
    <3>3. ASSUME NEW r \in Tids, NEW c \in Contents, SendMsg(r, c) PROVE Same
      BY <3>2, <3>3 DEF SendMsg
    <3>4. CASE StoreKey
      <4>1. TID_KCD \in Tids
        BY TaskConstants
      <4> QED BY <3>2, <3>4, <4>1 DEF StoreKey, ReadKey
    <3>5. CASE UNCHANGED <<box, pc>>
      BY <3>5
    <3>6. CASE RecvMsg \/ RecvGoesOn \/ RecvBlock \/ Interrupt \/ InterruptEnds
      BY <2>1, <2>2, <3>6 DEF RecvMsg, RecvGoesOn, RecvBlock, Interrupt, InterruptEnds
    <3>7. ASSUME NEW u \in Tids, NEW p \in Priorities, TskSetPrio(u, p) PROVE UNCHANGED <<box, pc>>
      BY <3>7 DEF TskSetPrio
    <3>8. (UNCHANGED vars) \/ TskExit \/ TskYield \/ MbxCreate \/ NullYield \/ KeyPressed \/ DropKey
          \/ InterruptUnexpected => UNCHANGED <<box, pc>>
      BY DEF vars, TskExit, TskYield, MbxCreate, NullYield, KeyPressed, DropKey, ReadKey,
             InterruptUnexpected
    <3> HIDE DEF Same
    <3> QED BY <3>1, <3>3, <3>4, <3>5, <3>6, <3>7, <3>8 DEF Next, SystemCall
  <2>4. box'[t] # <<>> /\ k'.state[t] # "DORMANT" /\ k'.state[t] \in States
    <3>1. k'.state[t] = "BLK_MSG" <=> pc'[t] = "recv" /\ box'[t] = <<>>
      BY DEF RtxInv, WaitInv
    <3>2. pc'[t] = "recv" => k'.state[t] # "DORMANT"
      BY DEF RtxInv, WaitInv
    <3>3. k' \in Globals
      BY DEF RtxInv, TableInv, Dispatched, Table
    <3> QED BY <2>1, <2>3, <3>1, <3>2, <3>3, GlobalsFacts
  <2>5. Len(box'[t]) = 1
    BY <2>1, <2>3, <2>4, AppendedOnce
  <2> QED BY <2>4, <2>5 DEF States
<1>2. RtxInv /\ RtxInv' /\ [Next]_vars => [Woken]_vars
  BY <1>1
<1>3. Spec => [][RtxInv /\ RtxInv' /\ [Next]_vars]_vars
  BY AlwaysInv, PTL DEF Spec
<1> QED BY <1>2, <1>3, AlwaysInv, PTL DEF WokenByMessage

(* The task that goes last takes the processor only by its priority.       *)
LEMMA LastPreempts ==
  ASSUME RtxInv, OrderInv, NEW t \in Tids, NEW p, LastStep(t, p),
         cur # TID_NULL, t # cur, Alike(k, k', Tids \ {t}),
         cur' # cur, k'.state[cur] = "READY"
  PROVE  k'.prio[cur'] < k'.prio[cur]
<1>1. /\ Table(k) /\ Ordered(k) /\ Pq(k.pq, 0) = cur /\ cur \in Tids
      /\ Range(k.pq) = CanRun(k) /\ Range(k.pq) \in SUBSET Tids
      /\ k \in Globals /\ k.state \in [Tids -> States]
  BY TableInvFacts, TableFacts DEF RtxInv, OrderInv, TableInv, Dispatched, Table, cur
<1>2. /\ Table(k') /\ Ordered(k') /\ Pq(k'.pq, 0) = cur' /\ Range(k'.pq) = CanRun(k')
      /\ GoesLast(k, k', t) /\ k' \in Globals
  BY DEF LastStep, Dispatches, TableInv, Dispatched, OrderInv, Table, cur
<1>3. k'.state \in [Tids -> States]
  BY <1>2, GlobalsFacts
<1>4. /\ cur' \in Range(k'.pq)
      /\ \A u \in Range(k'.pq) \ {cur'} : compare(k', cur', u)
  BY <1>2, FirstOfHeap
<1>5. \A u \in Range(k.pq) \ {cur} : ~compare(k, u, cur)
  BY <1>1, FirstOfHeap
<1>6. cur \in Range(k'.pq) /\ cur \in Range(k.pq)
  BY <1>1, <1>2, FirstOfHeap DEF CanRun
<1>7. compare(k', cur', cur)
  BY <1>4, <1>6
<1>8. CASE cur' = t
  BY <1>2, <1>4, <1>6, <1>7, <1>8 DEF GoesLast
<1>9. CASE cur' # t
  <2>1. cur' \in Range(k.pq) \ {t}
    <3>1. cur' \in Tids /\ k'.state[cur'] \in {"READY", "RUNNING"}
      BY <1>2, <1>4 DEF CanRun
    <3>2. k.state[cur'] \in {"READY", "RUNNING"}
      BY <1>1, <1>3, <1>9, <3>1 DEF Alike, States
    <3> QED BY <1>1, <1>9, <3>1, <3>2 DEF CanRun
  <2>2. compare(k, cur', cur)
    BY <1>2, <1>6, <1>7, <2>1 DEF GoesLast
  <2> QED BY <1>5, <2>1, <2>2
<1> QED BY <1>8, <1>9

LEMMA NullPreempted ==
  ASSUME RtxInv, SameStep, cur = TID_NULL, cur' # cur
  PROVE  k'.prio[cur'] < k'.prio[cur]
<1>1. Table(k') /\ Pq(k'.pq, 0) = cur'
  BY DEF SameStep, Dispatches, TableInv, Dispatched, cur
<1>2. cur' \in CanRun(k') /\ k'.prio[TID_NULL] = PRIO_NULL
  BY <1>1, TableFacts DEF Table
<1>3. k'.prio[cur'] \in Priorities
  BY <1>1, <1>2 DEF Table, CanRun
<1> QED BY <1>2, <1>3, PrioFacts

(* A task that can go on loses the processor only to one of a higher       *)
(* priority, unless it yields or sets a priority.                          *)
THEOREM EqualsWait == ASSUME ~Overcommit, ~RaiseBehind PROVE Spec => NoPreemptionByEquals
<1> DEFINE Fair == cur' # cur /\ k'.state[cur] = "READY" =>
                     \/ k'.prio[cur'] < k'.prio[cur]
                     \/ TskYield \/ \E t \in Tids, p \in Priorities : TskSetPrio(t, p)
<1>1. RtxInv /\ OrderInv /\ [Next]_vars => Fair
  <2> SUFFICES ASSUME RtxInv, OrderInv, [Next]_vars,
                      cur' # cur, k'.state[cur] = "READY", ~TskYield,
                      \A t \in Tids, p \in Priorities : ~TskSetPrio(t, p)
               PROVE  k'.prio[cur'] < k'.prio[cur]
    OBVIOUS
  <2>0. TableInv /\ RestInv /\ cur \in Tids /\ k.state[cur] = "RUNNING"
        /\ (cur # TID_NULL => Pq(k.pq, 0) = cur)
    BY TableInvFacts DEF RtxInv, cur
  <2> DEFINE Goal == k'.prio[cur'] < k'.prio[cur]
  <2>1. ASSUME NEW t \in Tids, NEW p \in Priorities, TskCreate(t, p) PROVE Goal
    <3>1. /\ LastStep(t, p) /\ t # cur /\ Alike(k, k', Tids \ {t}) /\ cur # TID_NULL
      BY <2>0, <2>1, CreateStep DEF TskCreate, Is
    <3> QED BY <2>0, <3>1, LastPreempts
  <2>2. ASSUME NEW r \in Tids, NEW m, k_send_msg(r, m), cur # TID_NULL PROVE Goal
    <3>1. CASE k.state[r] = "BLK_MSG"
      <4>1. /\ LastStep(r, k.prio[r]) /\ r # cur /\ Alike(k, k', Tids \ {r})
        BY <2>0, <2>2, <3>1, WakeStep DEF k_send_msg, Kernel
      <4> QED BY <2>0, <2>2, <4>1, LastPreempts
    <3>2. CASE k.state[r] # "BLK_MSG"
      <4>1. k' = Ranked(k) /\ Dispatched(k)
        BY <2>0, <2>2, <3>2 DEF k_send_msg, Kernel, TableInv
      <4> QED BY <4>1, RankedFacts DEF cur
    <3> QED BY <3>1, <3>2
  <2>3. ASSUME NEW r \in Tids, NEW c \in Contents, SendMsg(r, c) PROVE Goal
    BY <2>2, <2>3 DEF SendMsg, Is
  <2>4. CASE StoreKey
    <3>1. TID_KCD \in Tids /\ pc[cur] = "irq"
      BY <2>4, TaskConstants DEF StoreKey, ReadKey
    <3>2. cur # TID_NULL
      BY <2>0, <3>1, RestInvFacts
    <3> QED BY <2>2, <2>4, <3>1, <3>2 DEF StoreKey
  <2>5. CASE NullYield
    BY <2>0, <2>5, NullYieldStep, NullPreempted DEF NullYield
  <2>6. CASE InterruptEnds \/ InterruptUnexpected
    <3>1. cur # TID_NULL
      BY <2>0, <2>6, RestInvFacts, TableInvFacts DEF InterruptEnds, InterruptUnexpected, IrqEnabled
    <3>2. SameStep
      BY <2>0, <2>6, SameStepFacts DEF InterruptEnds, InterruptUnexpected, Kernel
    <3> QED BY <2>0, <3>1, <3>2 DEF SameStep, Dispatches, cur
  <2>7. CASE TskExit
    BY <2>0, <2>7, ExitStep
  <2>8. CASE RecvBlock
    BY <2>0, <2>8, BlockStep
  <2>9. (UNCHANGED vars) \/ MbxCreate \/ RecvMsg \/ RecvGoesOn \/ KeyPressed \/ Interrupt \/ DropKey
        => cur' = cur
    BY DEF vars, MbxCreate, RecvMsg, RecvGoesOn, KeyPressed, Interrupt, DropKey, cur
  <2> QED BY <2>1, <2>3, <2>4, <2>5, <2>6, <2>7, <2>8, <2>9 DEF Next, SystemCall
<1>2. RtxInv /\ OrderInv /\ [Next]_vars => [Fair]_vars
  BY <1>1
<1> QED BY <1>2, AlwaysOrdered, PTL DEF NoPreemptionByEquals, Spec

-------------------------------------------------------------------------------
(* The heap implements the lines of Sched.                                 *)
Prios == Priorities \cup {PRIO_NULL}

LinesOf(h) ==
  [p \in Prios |-> [i \in 1 .. Cardinality(OfPrio(h, p)) |->
                      CHOOSE t \in OfPrio(h, p) : h.degree[t] = i - 1]]

Steady(h) == Table(h) /\ Ordered(h) /\ Counted(h)

(* The refinement mapping of Rtx, as a function of the task table.         *)
LEMMA LinesAre == Lines = LinesOf(k) /\ Lines' = LinesOf(k')
BY Zenon DEF Lines, LinesOf, InLine, Queued, OfPrio, Prios

LEMMA PriosFacts ==
  /\ Prios \in SUBSET Int
  /\ \A p \in Priorities : p \in Prios /\ p < PRIO_NULL
  /\ PRIO_NULL \in Prios
BY PrioFacts DEF Prios, PRIO_NULL

LEMMA QueuedPrios ==
  ASSUME NEW h, Table(h)
  PROVE  /\ \A t \in Range(h.pq) : t \in Tids /\ h.prio[t] \in Prios
         /\ \A t \in Range(h.pq) : h.prio[t] = PRIO_NULL <=> t = TID_NULL
         /\ h.prio \in [Tids -> Priorities \cup {PRIO_NULL, 0}]
<1>1. /\ Range(h.pq) = CanRun(h) /\ h.prio[TID_NULL] = PRIO_NULL
      /\ \A t \in Tids \ {TID_NULL} : h.state[t] # "DORMANT" => h.prio[t] \in Priorities
      /\ h.prio \in [Tids -> Priorities \cup {PRIO_NULL, 0}]
  BY GlobalsFacts DEF Table
<1>2. \A t \in Range(h.pq) : t \in Tids /\ (t # TID_NULL => h.prio[t] \in Priorities)
  BY <1>1 DEF CanRun
<1> QED BY <1>1, <1>2, PrioFacts DEF Prios

(* What the lines of such a table are.                                     *)
LEMMA LineLists ==
  ASSUME NEW h, Steady(h), NEW p \in Prios
  PROVE  Lists(LinesOf(h)[p], OfPrio(h, p), h)
<1> DEFINE Q == OfPrio(h, p)
           n == Cardinality(Q)
           s == [i \in 1 .. n |-> CHOOSE t \in Q : h.degree[t] = i - 1]
<1>0. Table(h) /\ Ordered(h) /\ Counted(h)
  BY DEF Steady
<1>1. LinesOf(h)[p] = s
  BY DEF LinesOf
<1>2. /\ Q \in SUBSET Tids /\ Q \in SUBSET Range(h.pq) /\ n \in Nat
      /\ \A t \in Q : h.prio[t] = p
  <2>1. Q \in SUBSET Tids /\ Q \in SUBSET Range(h.pq) /\ \A t \in Q : h.prio[t] = p
    BY <1>0, TableFacts DEF OfPrio
  <2> QED BY <2>1, CountFacts
<1>3. /\ \A t \in Q : h.degree[t] \in 0 .. n - 1
      /\ \A i \in 0 .. n - 1 : \E t \in Q : h.degree[t] = i
  BY <1>0 DEF Counted, Prios
<1>4. \A t, u \in Q : t # u => h.degree[t] # h.degree[u]
  BY <1>0, <1>2 DEF Ordered
<1> HIDE DEF Q, n
<1>5. \A i \in 1 .. n : s[i] \in Q /\ h.degree[s[i]] = i - 1
  <2> TAKE i \in 1 .. n
  <2>1. i - 1 \in 0 .. n - 1
    BY <1>2
  <2> QED BY <1>3, <2>1
<1>6. s \in Seq(Q) /\ Len(s) = n /\ DOMAIN s = 1 .. n
  <2>1. s \in [1 .. n -> Q]
    BY <1>5
  <2>2. DOMAIN s = 1 .. n
    OBVIOUS
  <2> HIDE DEF s
  <2> QED BY <1>2, <2>1, <2>2, SeqDef, LenProperties
<1> HIDE DEF s
<1>7. Range(s) = Q
  <2>1. Range(s) \subseteq Q
    BY <1>5, <1>6 DEF Range
  <2>2. ASSUME NEW t \in Q PROVE t \in Range(s)
    <3>1. h.degree[t] + 1 \in 1 .. n /\ h.degree[t] \in Int
      BY <1>2, <1>3
    <3>2. s[h.degree[t] + 1] = t
      BY <1>4, <1>5, <3>1
    <3> QED BY <1>6, <3>1, <3>2 DEF Range
  <2> QED BY <2>1, <2>2
<1>8. \A i, j \in 1 .. Len(s) : i < j => compare(h, s[i], s[j])
  <2> TAKE i, j \in 1 .. Len(s)
  <2>1. /\ h.degree[s[i]] = i - 1 /\ h.degree[s[j]] = j - 1
        /\ h.prio[s[i]] = h.prio[s[j]]
    BY <1>2, <1>5, <1>6
  <2> QED BY <1>2, <1>6, <2>1 DEF compare
<1> QED BY <1>1, <1>6, <1>7, <1>8 DEF Lists, Q

(* The lines hold the tasks of each priority that can run.                 *)
LEMMA LinesType ==
  ASSUME NEW h, Steady(h)
  PROVE  /\ LinesOf(h) \in [Prios -> Seq(Tids)]
         /\ \A p \in Prios : /\ Schedule!Standing(LinesOf(h), p) = OfPrio(h, p)
                             /\ LinesOf(h)[p] = <<>> <=> OfPrio(h, p) = {}
         /\ Schedule!Able(LinesOf(h)) = Range(h.pq)
<1>0. Table(h)
  BY DEF Steady
<1>1. \A p \in Prios : LinesOf(h)[p] \in Seq(Tids)
  <2> TAKE p \in Prios
  <2>1. LinesOf(h)[p] \in Seq(OfPrio(h, p)) /\ OfPrio(h, p) \subseteq Tids
    BY <1>0, LineLists, TableFacts DEF Lists, OfPrio
  <2> QED BY <2>1, SeqMonotonic
<1>2. LinesOf(h) \in [Prios -> Seq(Tids)]
  BY <1>1 DEF LinesOf
<1>3. \A p \in Prios : Schedule!Standing(LinesOf(h), p) = OfPrio(h, p)
  <2> TAKE p \in Prios
  <2>1. Range(LinesOf(h)[p]) = OfPrio(h, p)
    BY LineLists DEF Lists
  <2> QED BY <2>1 DEF Schedule!Standing, Range
<1>4. \A p \in Prios : LinesOf(h)[p] = <<>> <=> OfPrio(h, p) = {}
  <2> TAKE p \in Prios
  <2>1. Range(LinesOf(h)[p]) = OfPrio(h, p) /\ LinesOf(h)[p] \in Seq(Tids)
    BY <1>1, LineLists DEF Lists
  <2>2. \A s \in Seq(Tids) : s = <<>> <=> Range(s) = {}
    <3> TAKE s \in Seq(Tids)
    <3>1. DOMAIN s = 1 .. Len(s) /\ Len(s) \in Nat
      BY LenProperties
    <3>2. Range(s) = {} <=> 1 .. Len(s) = {}
      BY <3>1 DEF Range
    <3>3. \A n \in Nat : 1 .. n = {} <=> n = 0
      BY SMT
    <3>4. Range(s) = {} <=> Len(s) = 0
      BY <3>1, <3>2, <3>3
    <3> QED BY <3>4, EmptySeq
  <2> QED BY <2>1, <2>2
<1>5. Schedule!Able(LinesOf(h)) = Range(h.pq)
  <2>1. Schedule!Able(LinesOf(h)) = UNION {Schedule!Standing(LinesOf(h), p) : p \in Prios}
    BY DEF Schedule!Able, Prios
  <2>2. UNION {Schedule!Standing(LinesOf(h), p) : p \in Prios} = UNION {OfPrio(h, p) : p \in Prios}
    BY <1>3
  <2>3. UNION {OfPrio(h, p) : p \in Prios} = Range(h.pq)
    BY <1>0, QueuedPrios DEF OfPrio
  <2> QED BY <2>1, <2>2, <2>3
<1> QED BY <1>2, <1>3, <1>4, <1>5

(* A list of the tasks of a priority is the line of that priority.         *)
LEMMA LineIs ==
  ASSUME NEW h, Steady(h), NEW p \in Prios, NEW s, Lists(s, OfPrio(h, p), h)
  PROVE  LinesOf(h)[p] = s
<1>1. Keyed(h, Tids) /\ OfPrio(h, p) \in SUBSET Tids
  BY GlobalsKeyed, TableFacts DEF Steady, Table, OfPrio
<1>2. Keyed(h, OfPrio(h, p))
  BY <1>1 DEF Keyed
<1> QED BY <1>2, LineLists, ListUnique

(* Taking a task out of the lines.                                         *)
LEMMA LineWithout ==
  ASSUME NEW h, Steady(h), NEW t \in Tids, NEW p \in Prios
  PROVE  Lists(Schedule!Without(LinesOf(h), t)[p], OfPrio(h, p) \ {t}, h)
<1> DEFINE s == LinesOf(h)[p]
<1>1. Lists(s, OfPrio(h, p), h) /\ Schedule!Standing(LinesOf(h), p) = OfPrio(h, p)
  BY LineLists, LinesType
<1>2. Schedule!Without(LinesOf(h), t)[p]
        = IF t \in OfPrio(h, p) THEN RemoveAt(s, Schedule!Place(s, t)) ELSE s
  <2>1. \A l : Schedule!Without(l, t)[p]
          = IF t \in Schedule!Standing(l, p) THEN RemoveAt(l[p], Schedule!Place(l[p], t)) ELSE l[p]
    BY DEF Schedule!Without, Prios, Schedule!RemoveAt, RemoveAt
  <2> QED BY <1>1, <2>1
<1> HIDE DEF s
<1>3. CASE t \in OfPrio(h, p)
  <2> DEFINE i == Schedule!Place(s, t)
  <2>1. s \in Seq(OfPrio(h, p)) /\ Range(s) = OfPrio(h, p)
    BY <1>1 DEF Lists
  <2>2. DOMAIN s = 1 .. Len(s)
    BY <2>1, LenProperties
  <2>3. i \in 1 .. Len(s) /\ s[i] = t
    BY <1>3, <2>1, <2>2 DEF Range, Schedule!Place
  <2> HIDE DEF i
  <2>4. Keyed(h, Tids) /\ OfPrio(h, p) \in SUBSET Tids
    BY GlobalsKeyed, TableFacts DEF Steady, Table, OfPrio
  <2>5. Keyed(h, OfPrio(h, p))
    BY <2>4 DEF Keyed
  <2>6. Lists(SubSeq(s, 1, i - 1) \o SubSeq(s, i + 1, Len(s)), OfPrio(h, p) \ {s[i]}, h)
    BY <1>1, <2>3, <2>5, ListRemove
  <2>7. Schedule!Without(LinesOf(h), t)[p] = SubSeq(s, 1, i - 1) \o SubSeq(s, i + 1, Len(s))
    BY <1>2, <1>3 DEF RemoveAt, i
  <2> QED BY <2>3, <2>6, <2>7
<1>4. CASE t \notin OfPrio(h, p)
  <2>1. OfPrio(h, p) \ {t} = OfPrio(h, p)
    BY <1>4
  <2> QED BY <1>1, <1>2, <1>4, <2>1
<1> QED BY <1>3, <1>4

(* The others stay as they are: nothing moves, or one task goes.           *)
Leaving(h, g, t) ==
  /\ Range(g.pq) = Range(h.pq) \ {t}
  /\ \A u \in Range(g.pq) : g.prio[u] = h.prio[u]
  /\ \A a, b \in Range(g.pq) : compare(g, a, b) <=> compare(h, a, b)

(* One task leaves; nobody moves.                                          *)
LEMMA LinesLeft ==
  ASSUME NEW h, Steady(h), NEW g, Steady(g), NEW t \in Tids, Leaving(h, g, t)
  PROVE  LinesOf(g) = Schedule!Without(LinesOf(h), t)
<1>1. ASSUME NEW p \in Prios
      PROVE  LinesOf(g)[p] = Schedule!Without(LinesOf(h), t)[p]
  <2> DEFINE s == Schedule!Without(LinesOf(h), t)[p]
  <2>1. OfPrio(g, p) = OfPrio(h, p) \ {t} /\ OfPrio(g, p) \subseteq Range(g.pq)
    BY DEF OfPrio, Leaving
  <2>2. Lists(s, OfPrio(g, p), h)
    BY <2>1, LineWithout
  <2>3. \A a, b \in OfPrio(g, p) : compare(h, a, b) => compare(g, a, b)
    BY <2>1 DEF Leaving
  <2> HIDE DEF s
  <2>4. Lists(s, OfPrio(g, p), g)
    BY <2>2, <2>3, ListSame
  <2> QED BY <2>4, LineIs DEF s
<1> QED BY <1>1 DEF LinesOf, Schedule!Without, Prios

LEMMA LinesKept ==
  ASSUME NEW h, Steady(h), NEW g, Steady(g), Range(g.pq) = Range(h.pq),
         \A u \in Range(h.pq) : g.prio[u] = h.prio[u],
         \A a, b \in Range(h.pq) : compare(g, a, b) <=> compare(h, a, b)
  PROVE  LinesOf(g) = LinesOf(h)
<1>1. ASSUME NEW p \in Prios
      PROVE  LinesOf(g)[p] = LinesOf(h)[p]
  <2>1. OfPrio(g, p) = OfPrio(h, p) /\ OfPrio(g, p) \subseteq Range(h.pq)
    BY DEF OfPrio
  <2>2. Lists(LinesOf(h)[p], OfPrio(g, p), h)
    BY <2>1, LineLists
  <2>3. \A a, b \in OfPrio(g, p) : compare(h, a, b) => compare(g, a, b)
    BY <2>1
  <2>4. Lists(LinesOf(h)[p], OfPrio(g, p), g)
    BY <2>2, <2>3, ListSame
  <2> QED BY <2>4, LineIs
<1> QED BY <1>1 DEF LinesOf

(* One task goes to the end of a line.                                     *)
LEMMA LinesMoved ==
  ASSUME NEW h, Steady(h), NEW g, Steady(g), NEW t, GoesLast(h, g, t),
         t \in Range(g.pq), Range(g.pq) \ {t} = Range(h.pq) \ {t}
  PROVE  /\ t \in Tids /\ g.prio[t] \in Prios
         /\ LinesOf(g) = Schedule!AtEnd(Schedule!Without(LinesOf(h), t), t, g.prio[t])
<1> DEFINE w == Schedule!Without(LinesOf(h), t)
           q == g.prio[t]
<1>1. t \in Tids /\ q \in Prios
  BY QueuedPrios DEF Steady
<1>2. w \in [Prios -> {w[p] : p \in Prios}] /\ DOMAIN w = Prios
  BY DEF Schedule!Without, Prios
<1>3. ASSUME NEW p \in Prios
      PROVE  LinesOf(g)[p] = IF p = q THEN Append(w[p], t) ELSE w[p]
  <2> DEFINE Q == OfPrio(h, p) \ {t}
  <2>1. Lists(w[p], Q, h) /\ Q \subseteq Range(h.pq) \ {t}
    BY <1>1, LineWithout DEF OfPrio
  <2>2. \A a, b \in Q : compare(h, a, b) => compare(g, a, b)
    BY <2>1 DEF GoesLast
  <2>3. OfPrio(g, p) = IF p = q THEN Q \cup {t} ELSE Q
    BY DEF OfPrio, GoesLast
  <2>4. \A u \in Q : u # t /\ u \in Range(g.pq) /\ g.prio[u] = p
    BY <2>1 DEF GoesLast, OfPrio
  <2> HIDE DEF Q
  <2>5. Lists(w[p], Q, g)
    BY <2>1, <2>2, ListSame
  <2>6. CASE p = q
    <3>1. \A u \in Q : compare(g, u, t)
      <4> TAKE u \in Q
      <4>1. g.degree[u] # g.degree[t] /\ g.prio[u] = g.prio[t]
        BY <2>4, <2>6 DEF Steady, Ordered
      <4>2. ~compare(g, t, u)
        <5>1. Keyed(g, Tids) /\ t \in Tids
          BY <1>1, GlobalsKeyed DEF Steady, Table
        <5>2. g.prio[t] \in Int
          BY <5>1 DEF Keyed
        <5> QED BY <2>1, <4>1, <5>2 DEF GoesLast
      <4>3. Keyed(g, Tids) /\ t \in Tids /\ u \in Tids
        BY <1>1, <2>4, GlobalsKeyed, TableFacts DEF Steady, Table
      <4> QED BY <4>1, <4>2, <4>3 DEF compare, Keyed
    <3>2. t \notin Q
      BY <2>4
    <3>3. Lists(Append(w[p], t), Q \cup {t}, g)
      BY <2>5, <3>1, <3>2, ListAppend
    <3> QED BY <2>3, <2>6, <3>3, LineIs
  <2>7. CASE p # q
    BY <2>3, <2>5, <2>7, LineIs
  <2> QED BY <2>6, <2>7
<1>4. Schedule!AtEnd(w, t, q) = [p \in Prios |-> IF p = q THEN Append(w[p], t) ELSE w[p]]
  BY <1>1, <1>2 DEF Schedule!AtEnd
<1>5. LinesOf(g) = [p \in Prios |-> LinesOf(g)[p]]
  BY DEF LinesOf
<1> HIDE DEF w, q
<1>6. LinesOf(g) = Schedule!AtEnd(w, t, q)
  BY <1>3, <1>4, <1>5
<1> QED BY <1>1, <1>6 DEF w, q

-------------------------------------------------------------------------------
(* The first of the first line is the root of the heap, and no other task. *)
LEMMA FirstOfLines ==
  ASSUME NEW h, Steady(h)
  PROVE  \A t : Schedule!IsNext(LinesOf(h), t) <=> t = Pq(h.pq, 0)
<1> DEFINE r == Pq(h.pq, 0)
           q == h.prio[r]
           L == LinesOf(h)
<1>1. /\ r \in Range(h.pq)
      /\ \A u \in Range(h.pq) \ {r} : compare(h, r, u) /\ ~compare(h, u, r)
  BY FirstOfHeap DEF Steady
<1>2. /\ q \in Prios /\ q \in Int /\ Prios \in SUBSET Int
      /\ \A u \in Range(h.pq) : h.prio[u] \in Prios
  BY <1>1, QueuedPrios, PriosFacts DEF Steady
<1>3. L[q] # <<>> /\ Head(L[q]) = r
  <2>1. r \in OfPrio(h, q) /\ Lists(L[q], OfPrio(h, q), h)
    BY <1>1, <1>2, LineLists DEF OfPrio
  <2> DEFINE s == L[q]
  <2> HIDE DEF L, r, q
  <2>2. s \in Seq(OfPrio(h, q)) /\ Len(s) \in Nat /\ DOMAIN s = 1 .. Len(s)
    BY <2>1, LenProperties DEF Lists
  <2>3. PICK j \in 1 .. Len(s) : s[j] = r
    BY <2>1, <2>2 DEF Lists, Range
  <2>4. s[1] \in OfPrio(h, q) /\ 1 \in 1 .. Len(s)
    BY <2>2, ElementOfSeq
  <2>5. s[1] = r
    <3>1. CASE j # 1
      <4>1. compare(h, s[1], s[j])
        BY <2>1, <2>2, <2>4, <3>1 DEF Lists
      <4> QED BY <1>1, <2>3, <2>4, <4>1 DEF OfPrio
    <3> QED BY <2>3, <3>1
  <2> QED BY <2>2, <2>4, <2>5
<1>4. \A p \in Prios : p < q => L[p] = <<>>
  <2> SUFFICES ASSUME NEW p \in Prios, p < q, OfPrio(h, p) # {} PROVE FALSE
    BY LinesType
  <2>1. PICK u \in Range(h.pq) : h.prio[u] = p
    BY DEF OfPrio
  <2>2. u # r /\ compare(h, u, r)
    BY <1>2, <2>1 DEF compare
  <2> QED BY <1>1, <2>2
<1> HIDE DEF r, q, L
<1>5. Schedule!IsNext(L, r)
  BY <1>2, <1>3, <1>4 DEF Schedule!IsNext, Prios
<1>6. ASSUME NEW t, Schedule!IsNext(L, t) PROVE t = r
  <2>1. PICK p \in Prios : L[p] # <<>> /\ t = Head(L[p]) /\ \A o \in Prios : o < p => L[o] = <<>>
    BY <1>6 DEF Schedule!IsNext, Prios
  <2>2. p = q
    BY <1>2, <1>3, <1>4, <2>1
  <2> QED BY <1>3, <2>1, <2>2
<1> QED BY <1>5, <1>6 DEF r, L

(* Who is queued, when nobody else starts to wait or to exist.             *)
LEMMA SameOthers ==
  ASSUME NEW h, Table(h), NEW g, Table(g), NEW T \in SUBSET Tids, Alike(h, g, T)
  PROVE  \A u \in T : u \in Range(g.pq) <=> u \in Range(h.pq)
<1>1. Range(h.pq) = CanRun(h) /\ Range(g.pq) = CanRun(g) /\ h \in Globals /\ g \in Globals
  BY DEF Table
<1>2. h.state \in [Tids -> States] /\ g.state \in [Tids -> States]
  BY <1>1, GlobalsFacts
<1> QED BY <1>1, <1>2 DEF CanRun, Alike, States

LEMMA SteadyNow == RtxInv /\ OrderInv => Steady(k)
BY DEF RtxInv, TableInv, OrderInv, Dispatched, Steady

LEMMA SteadyNext == TableInv' /\ OrderInv' => Steady(k')
BY DEF TableInv, OrderInv, Dispatched, Steady

(* The running task is the next, before a step and after it.               *)
LEMMA Readiness ==
  ASSUME RtxInv, OrderInv, cur # TID_NULL
  PROVE  Schedule!Ready
<1>1. Pq(k.pq, 0) = k.cur
  BY TableInvFacts DEF RtxInv
<1>2. Schedule!IsNext(LinesOf(k), k.cur)
  BY <1>1, SteadyNow, FirstOfLines
<1> QED BY <1>2, LinesAre DEF Schedule!Ready

LEMMA Dispatching ==
  ASSUME OrderInv', Dispatches
  PROVE  Schedule!Dispatch
<1>1. Schedule!IsNext(LinesOf(k'), k'.cur)
  BY SteadyNext, FirstOfLines DEF Dispatches
<1> QED BY <1>1, LinesAre DEF Schedule!Dispatch

(* A task that was not queued joins the end of a line.                     *)
LEMMA JoinsLine ==
  ASSUME RtxInv, OrderInv, cur # TID_NULL,
         NEW t \in Tids, NEW p, LastStep(t, p),
         Alike(k, k', Tids \ {t}), k'.state[t] \in {"READY", "RUNNING"},
         k.state[t] \notin {"READY", "RUNNING"}
  PROVE  p \in Prios /\ Schedule!Join(t, p)
<1>1. Steady(k) /\ Steady(k') /\ Dispatches /\ OrderInv' /\ GoesLast(k, k', t) /\ k'.prio[t] = p
  BY SteadyNow, SteadyNext DEF LastStep, Dispatches
<1>2. Table(k) /\ Table(k') /\ Range(k.pq) = CanRun(k) /\ Range(k'.pq) = CanRun(k')
  BY <1>1 DEF Steady, Table
<1>3. t \notin Range(k.pq) /\ t \in Range(k'.pq)
  BY <1>2 DEF CanRun
<1>4. Range(k'.pq) \ {t} = Range(k.pq) \ {t}
  <2>1. Range(k.pq) \in SUBSET Tids /\ Range(k'.pq) \in SUBSET Tids
    BY <1>2, TableFacts
  <2>2. \A u \in Tids \ {t} : u \in Range(k'.pq) <=> u \in Range(k.pq)
    BY <1>2, SameOthers
  <2> QED BY <2>1, <2>2
<1>5. /\ p \in Prios
      /\ LinesOf(k') = Schedule!AtEnd(Schedule!Without(LinesOf(k), t), t, p)
  BY <1>1, <1>3, <1>4, LinesMoved
<1>6. t \notin Schedule!Able(LinesOf(k))
  BY <1>1, <1>3, LinesType
<1>7. Schedule!Without(LinesOf(k), t) = LinesOf(k)
  <2>1. \A q \in Prios : t \notin Schedule!Standing(LinesOf(k), q)
    BY <1>6 DEF Schedule!Able, Prios
  <2>2. LinesOf(k) = [q \in Prios |-> LinesOf(k)[q]]
    BY DEF LinesOf
  <2> HIDE DEF LinesOf
  <2> QED BY <2>1, <2>2 DEF Schedule!Without, Prios
<1> QED BY <1>1, <1>5, <1>6, <1>7, Readiness, Dispatching, LinesAre DEF Schedule!Join

(* A queued task goes to the end of a line.                                *)
LEMMA ChangesLine ==
  ASSUME RtxInv, OrderInv, cur # TID_NULL,
         NEW t \in Tids, t # TID_NULL, t \in Range(k.pq), NEW p, LastStep(t, p),
         Alike(k, k', Tids)
  PROVE  p \in Prios /\ Schedule!Requeue(t, p)
<1>1. Steady(k) /\ Steady(k') /\ Dispatches /\ OrderInv' /\ GoesLast(k, k', t) /\ k'.prio[t] = p
  BY SteadyNow, SteadyNext DEF LastStep, Dispatches
<1>2. Table(k) /\ Table(k')
  BY <1>1 DEF Steady
<1>3. Range(k'.pq) = Range(k.pq)
  <2>1. Range(k.pq) \in SUBSET Tids /\ Range(k'.pq) \in SUBSET Tids
    BY <1>2, TableFacts
  <2>2. \A u \in Tids : u \in Range(k'.pq) <=> u \in Range(k.pq)
    BY <1>2, SameOthers
  <2> QED BY <2>1, <2>2
<1>4. /\ p \in Prios
      /\ LinesOf(k') = Schedule!AtEnd(Schedule!Without(LinesOf(k), t), t, p)
  BY <1>1, <1>3, LinesMoved
<1>5. t \in Schedule!Able(LinesOf(k)) \ {TID_NULL}
  BY <1>1, LinesType
<1> QED BY <1>1, <1>4, <1>5, Readiness, Dispatching, LinesAre DEF Schedule!Requeue

(* The running task leaves its line.                                       *)
LEMMA LeavesLine ==
  ASSUME RtxInv, OrderInv, cur # TID_NULL, LeaveStep, k'.state[cur] \notin {"READY", "RUNNING"}
  PROVE  Schedule!Leave
<1>1. /\ Steady(k) /\ Steady(k') /\ Dispatches /\ OrderInv' /\ cur \in Tids /\ cur = k.cur
      /\ \A a, b \in Range(k.pq) \ {cur} : compare(k', a, b) <=> compare(k, a, b)
      /\ k'.prio = k.prio
  BY SteadyNow, SteadyNext, TableInvFacts DEF LeaveStep, Dispatches, RtxInv, cur
<1>2. Table(k) /\ Table(k') /\ Range(k.pq) = CanRun(k) /\ Range(k'.pq) = CanRun(k')
  BY <1>1 DEF Steady, Table
<1>3. Range(k'.pq) = Range(k.pq) \ {cur}
  <2>1. Range(k.pq) \in SUBSET Tids /\ Range(k'.pq) \in SUBSET Tids
    BY <1>2, TableFacts
  <2>2. \A u \in Tids \ {cur} : u \in Range(k'.pq) <=> u \in Range(k.pq)
    BY <1>1, <1>2, SameOthers DEF LeaveStep
  <2>3. cur \notin Range(k'.pq)
    BY <1>2 DEF CanRun
  <2> QED BY <2>1, <2>2, <2>3
<1>4. Leaving(k, k', cur)
  BY <1>1, <1>3 DEF Leaving
<1>5. LinesOf(k') = Schedule!Without(LinesOf(k), cur)
  BY <1>1, <1>4, LinesLeft
<1> QED BY <1>1, <1>5, Readiness, Dispatching, LinesAre DEF Schedule!Leave

(* Nobody moves: the first of the first line gets the processor.           *)
LEMMA LinesStay ==
  ASSUME RtxInv, OrderInv, SameStep
  PROVE  LinesOf(k') = LinesOf(k) /\ (Schedule!Start \/ UNCHANGED k.cur)
<1>1. /\ Steady(k) /\ Steady(k') /\ Dispatches /\ OrderInv'
      /\ Range(k'.pq) = Range(k.pq) /\ k'.pq = k.pq /\ k'.prio = k.prio
      /\ \A a, b \in Range(k.pq) : compare(k', a, b) <=> compare(k, a, b)
  BY SteadyNow, SteadyNext DEF SameStep, Dispatches
<1>2. LinesOf(k') = LinesOf(k)
  BY <1>1, LinesKept
<1>3. k'.cur = Pq(k.pq, 0)
  BY <1>1 DEF Dispatches
<1>4. CASE k'.cur # k.cur
  <2>1. ~Schedule!IsNext(LinesOf(k), k.cur)
    BY <1>1, <1>3, <1>4, FirstOfLines
  <2> QED BY <1>1, <1>2, <2>1, Dispatching, LinesAre DEF Schedule!Start
<1> QED BY <1>2, <1>4

(* A task that is not queued is given a priority: no line changes.         *)
LEMMA NoLineChanges ==
  ASSUME RtxInv, OrderInv, cur # TID_NULL,
         NEW t \in Tids, t \notin Range(k.pq), NEW p, LastStep(t, p), Alike(k, k', Tids)
  PROVE  LinesOf(k') = LinesOf(k) /\ UNCHANGED k.cur
<1>1. /\ Steady(k) /\ Steady(k') /\ GoesLast(k, k', t)
      /\ Pq(k.pq, 0) = k.cur /\ Pq(k'.pq, 0) = k'.cur
  BY SteadyNow, SteadyNext, TableInvFacts DEF LastStep, Dispatches, RtxInv
<1>2. Table(k) /\ Table(k')
  BY <1>1 DEF Steady
<1>3. Range(k'.pq) = Range(k.pq)
  <2>1. Range(k.pq) \in SUBSET Tids /\ Range(k'.pq) \in SUBSET Tids
    BY <1>2, TableFacts
  <2>2. \A u \in Tids : u \in Range(k'.pq) <=> u \in Range(k.pq)
    BY <1>2, SameOthers
  <2> QED BY <2>1, <2>2
<1>4. /\ \A u \in Range(k.pq) : k'.prio[u] = k.prio[u]
      /\ \A a, b \in Range(k.pq) : compare(k', a, b) <=> compare(k, a, b)
  BY <1>1 DEF GoesLast
<1>5. LinesOf(k') = LinesOf(k)
  BY <1>1, <1>3, <1>4, LinesKept
<1>6. Schedule!IsNext(LinesOf(k), k.cur) /\ Schedule!IsNext(LinesOf(k'), k'.cur)
  BY <1>1, FirstOfLines
<1> QED BY <1>1, <1>5, <1>6, FirstOfLines

(* The boot is a start of Sched, and every step a step of it or a stutter. *)
LEMMA ScheduleInit == Init => Schedule!Init
<1> SUFFICES ASSUME Init PROVE Schedule!Init
  OBVIOUS
<1>1. PICK tasks \in Boots : k = Booted(tasks)
  BY DEF Init
<1>2. k.cur = TID_NULL
  BY <1>1, BootedFacts
<1>3. Steady(k) /\ TID_NULL \in Range(k.pq)
  BY InitInv, SteadyNow DEF Steady, Table
<1>4. LinesOf(k) \in [Prios -> Seq(Tids)] /\ TID_NULL \in Schedule!Able(LinesOf(k))
  BY <1>3, LinesType
<1> QED BY <1>2, <1>4, LinesAre DEF Schedule!Init, Prios

LEMMA ScheduleStep ==
  ASSUME ~Overcommit, ~RaiseBehind, RtxInv, OrderInv, RtxInv', OrderInv', [Next]_vars
  PROVE  [Schedule!Next]_Schedule!svars
<1> USE LinesAre
<1>1. /\ TableInv /\ RestInv /\ cur \in Tids /\ cur = k.cur
      /\ k.state[cur] = "RUNNING" /\ Range(k.pq) = CanRun(k)
  BY TableInvFacts DEF RtxInv, cur, Dispatched, Table
<1>2. (LinesOf(k') = LinesOf(k) /\ UNCHANGED k.cur) => UNCHANGED Schedule!svars
  BY DEF Schedule!svars
<1>3. Schedule!Start => Schedule!Next
  BY DEF Schedule!Next
<1>4. SameStep => [Schedule!Next]_Schedule!svars
  BY <1>2, <1>3, LinesStay
<1>5. k' = k => [Schedule!Next]_Schedule!svars
  BY <1>2
<1>6. Schedule!Leave => Schedule!Next
  BY DEF Schedule!Next
<1>7. ASSUME NEW t \in Tids, NEW p \in Prios, Schedule!Join(t, p) \/ Schedule!Requeue(t, p)
      PROVE  Schedule!Next
  BY <1>7 DEF Schedule!Next, Prios
<1>8. ASSUME NEW t \in Tids, NEW p \in Priorities, TskCreate(t, p)
      PROVE  Schedule!Next
  <2>1. cur # TID_NULL
    BY <1>8 DEF TskCreate, Is
  <2>2. /\ LastStep(t, p) /\ Alike(k, k', Tids \ {t})
        /\ k.state[t] = "DORMANT" /\ k'.state[t] \in {"READY", "RUNNING"}
    BY <1>1, <1>8, CreateStep
  <2> QED BY <1>7, <2>1, <2>2, JoinsLine
<1>9. ASSUME NEW t \in Tids, NEW p \in Priorities, TskSetPrio(t, p)
      PROVE  [Schedule!Next]_Schedule!svars
  <2>1. cur # TID_NULL /\ t # TID_NULL /\ LastStep(t, p) /\ Alike(k, k', Tids)
    BY <1>1, <1>9, SetPrioStep DEF TskSetPrio, Is
  <2>2. CASE t \in Range(k.pq)
    BY <1>7, <2>1, <2>2, ChangesLine
  <2>3. CASE t \notin Range(k.pq)
    BY <1>2, <2>1, <2>3, NoLineChanges
  <2> QED BY <2>2, <2>3
<1>10. CASE TskYield
  <2>1. cur # TID_NULL /\ LastStep(cur, k.prio[cur]) /\ Alike(k, k', Tids)
    BY <1>1, <1>10, YieldStep DEF TskYield, Is
  <2>2. cur \in Range(k.pq)
    BY <1>1 DEF CanRun
  <2> QED BY <1>1, <1>7, <2>1, <2>2, ChangesLine
<1>11. ASSUME NEW r \in Tids, NEW m, k_send_msg(r, m), cur # TID_NULL
       PROVE  [Schedule!Next]_Schedule!svars
  <2>1. CASE k.state[r] = "BLK_MSG"
    <3>1. k' = Ranked(mbx_unblock(k, r))
      BY <1>11, <2>1 DEF k_send_msg, Kernel
    <3>2. /\ LastStep(r, k.prio[r]) /\ Alike(k, k', Tids \ {r})
          /\ k'.state[r] \in {"READY", "RUNNING"}
      BY <1>1, <2>1, <3>1, WakeStep
    <3> QED BY <1>7, <1>11, <2>1, <3>2, JoinsLine
  <2>2. CASE k.state[r] # "BLK_MSG"
    <3>1. k' = Ranked(k)
      BY <1>11, <2>2 DEF k_send_msg, Kernel
    <3>2. Pq(k.pq, 0) = k.cur /\ k_tsk_run_new(k) = k
      BY <1>1, <1>11, TableInvFacts DEF k_tsk_run_new, scheduler
    <3>3. SameStep
      BY <1>1, <3>1, <3>2, SameStepFacts
    <3> QED BY <1>4, <3>3
  <2> QED BY <2>1, <2>2
<1>12. ASSUME NEW r \in Tids, NEW c \in Contents, SendMsg(r, c)
       PROVE  [Schedule!Next]_Schedule!svars
  BY <1>11, <1>12 DEF SendMsg, Is
<1>13. CASE StoreKey
  <2>1. TID_KCD \in Tids /\ pc[cur] = "irq"
    BY <1>13, TaskConstants DEF StoreKey, ReadKey
  <2>2. cur # TID_NULL
    BY <1>1, <2>1, RestInvFacts
  <2> QED BY <1>11, <1>13, <2>1, <2>2 DEF StoreKey
<1>14. CASE NullYield
  BY <1>1, <1>4, <1>14, NullYieldStep
<1>15. CASE InterruptEnds \/ InterruptUnexpected
  BY <1>1, <1>4, <1>15, SameStepFacts DEF InterruptEnds, InterruptUnexpected, Kernel
<1>16. CASE TskExit
  <2>1. cur # TID_NULL /\ LeaveStep /\ k'.state[cur] = "DORMANT"
    BY <1>1, <1>16, ExitStep DEF TskExit, Is
  <2> QED BY <1>6, <2>1, LeavesLine
<1>17. CASE RecvBlock
  <2>1. cur # TID_NULL /\ LeaveStep /\ k'.state[cur] = "BLK_MSG"
    BY <1>1, <1>17, BlockStep DEF RecvBlock, Is
  <2> QED BY <1>6, <2>1, LeavesLine
<1>18. (UNCHANGED vars) \/ MbxCreate \/ RecvMsg \/ RecvGoesOn \/ KeyPressed \/ Interrupt \/ DropKey
       => k' = k
  BY DEF vars, MbxCreate, RecvMsg, RecvGoesOn, KeyPressed, Interrupt, DropKey
<1> QED BY <1>5, <1>8, <1>9, <1>10, <1>12, <1>13, <1>14, <1>15, <1>16, <1>17, <1>18
        DEF Next, SystemCall

(* The heap, its repairs and the switches of the kernel implement Sched: a *)
(* line per priority, and the first of the first line runs.                *)
THEOREM ImplementsSchedule == ASSUME ~Overcommit, ~RaiseBehind PROVE Spec => Scheduled
<1>1. RtxInv /\ OrderInv /\ RtxInv' /\ OrderInv' /\ [Next]_vars => [Schedule!Next]_Schedule!svars
  BY ScheduleStep
<1> QED BY <1>1, ScheduleInit, AlwaysOrdered, PTL DEF Spec, Scheduled, Schedule!Spec
===============================================================================
