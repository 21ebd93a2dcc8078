---------------------------------- MODULE Rtx ----------------------------------
(***************************************************************************)
(* The kernel: tasks, the scheduler, message passing and the keyboard      *)
(* interrupt.  One processor; a system call or a stretch of the interrupt  *)
(* handler runs without interruption until it switches tasks or returns,   *)
(* so only the current task takes steps, but a switch can leave a task in  *)
(* the middle of k_recv_msg or of SER_Interrupt: pc says where it goes on  *)
(* when it is switched in again.                                           *)
(*                                                                         *)
(* A mailbox is the queue that Mailbox is proved to implement (see         *)
(* MessageQueue): it accepts a message unless others are waiting, in which *)
(* case it may refuse, or the message is too large for an empty mailbox.   *)
(* A call that returns an error changes nothing and has no action.         *)
(***************************************************************************)
EXTENDS TaskOps, SequencesExt

CONSTANTS
  Calls,        \* the system calls that each task makes
  Contents,     \* what a message from a task may hold
  Outsized,     \* those of them that are too large for some mailbox
  Overcommit,   \* they may call tsk_create when every TCB is in use
  RaiseBehind,  \* they may raise another task to their own priority or below
  MaxWaiting,   \* bound: messages waiting in one mailbox
  MaxKeys       \* bound: keys typed

TaskCalls == {"create", "exit", "set_prio", "yield"}
MessageCalls == {"mbx", "send", "recv"}
CallNames == TaskCalls \cup MessageCalls

ASSUME RtxConstants ==
  /\ Calls \in [Tids -> SUBSET CallNames]
  /\ Outsized \subseteq Contents
  /\ Overcommit \in BOOLEAN /\ RaiseBehind \in BOOLEAN
  /\ MaxWaiting \in Nat \ {0} /\ MaxKeys \in Nat

VARIABLES
  k,      \* the task table: see TaskOps
  mbx,    \* the tasks that have a mailbox
  box,    \* the messages waiting in the mailbox of each task
  pc,     \* where each task goes on: its own code, k_recv_msg, SER_Interrupt
  uart,   \* keys received by the UART and not yet read
  typed   \* number of keys typed so far

vars == <<k, mbx, box, pc, uart, typed>>

(* A message from a task is its sender and what it holds; a keyboard       *)
(* message, its key.                                                       *)
Key(n) == [key |-> n]
From(t, c) == [from |-> t, holds |-> c]
IsKey(m) == "key" \in DOMAIN m

cur == k.cur
Is(call) == call \in Calls[cur] /\ pc[cur] = "run" /\ cur # TID_NULL

(* k becomes new; a new task starts in its own code.                       *)
Kernel(new) == \E g \in {new} : k' = Ranked(g)

-------------------------------------------------------------------------------
Init ==
  /\ k \in {Booted(tasks) : tasks \in Boots}
  /\ mbx = {}
  /\ box = [t \in Tids |-> <<>>]
  /\ pc = [t \in Tids |-> "run"]
  /\ uart = <<>>
  /\ typed = 0

(* tsk_create.  When no TCB is free, *task keeps what the caller had there.*)
TskCreate(t, p) ==
  /\ Is("create")
  /\ k.active < MAX_TASKS
  /\ IF Dormant(k) # {} THEN t = Min(Dormant(k)) ELSE Overcommit
  /\ Kernel(k_tsk_create(k, t, p))
  /\ mbx' = mbx \ {t}
  /\ box' = [box EXCEPT ![t] = <<>>]
  /\ pc' = [pc EXCEPT ![t] = "run"]
  /\ UNCHANGED <<uart, typed>>

TskExit ==
  /\ Is("exit")
  /\ Kernel(k_tsk_exit(k))
  /\ UNCHANGED <<mbx, box, pc, uart, typed>>

(* A user-mode task cannot change the priority of a kernel-mode task.      *)
TskSetPrio(t, p) ==
  /\ Is("set_prio")
  /\ t # TID_NULL
  /\ k.priv[cur] = 0 => k.priv[t] = 0
  /\ RaiseBehind \/ t \notin Range(k.pq) \/ p < k.prio[cur] \/ k.prio[t] <= p
  /\ Kernel(k_tsk_set_prio(k, t, p))
  /\ UNCHANGED <<mbx, box, pc, uart, typed>>

TskYield ==
  /\ Is("yield")
  /\ Kernel(k_tsk_yield(k))
  /\ UNCHANGED <<mbx, box, pc, uart, typed>>

(* task_null: all it ever does.                                            *)
NullYield ==
  /\ cur = TID_NULL
  /\ pc[cur] = "run"
  /\ Kernel(k_tsk_yield(k))
  /\ UNCHANGED <<mbx, box, pc, uart, typed>>

(* mbx_create, when there is memory.                                       *)
MbxCreate ==
  /\ Is("mbx")
  /\ cur \notin mbx
  /\ mbx' = mbx \cup {cur}
  /\ UNCHANGED <<k, box, pc, uart, typed>>

(* k_send_msg, what SVC callers and the interrupt handler share: when it   *)
(* may accept a message, when it may refuse one, and what it does with one *)
(* that it accepts.  A key fits every mailbox that is empty.               *)
Receives(r) == k.state[r] # "DORMANT" /\ r \in mbx
Accepts(r) == Receives(r) /\ Len(box[r]) < MaxWaiting
TooLarge(m) == ~IsKey(m) /\ m.holds \in Outsized
Refuses(r, m) == ~Receives(r) \/ box[r] # <<>> \/ TooLarge(m)

(* Mutants of k_send_msg: the receiver is not woken; the message is put in *)
(* front of the others.                                                    *)
k_send_msg_silent(r, m) ==
  /\ box' = [box EXCEPT ![r] = Append(@, m)]
  /\ Kernel(k)

k_send_msg_front(r, m) ==
  /\ box' = [box EXCEPT ![r] = <<m>> \o @]
  /\ Kernel(IF k.state[r] = "BLK_MSG" THEN mbx_unblock(k, r) ELSE k)

k_send_msg(r, m) ==
  /\ box' = [box EXCEPT ![r] = Append(@, m)]
  /\ Kernel(IF k.state[r] = "BLK_MSG" THEN mbx_unblock(k, r) ELSE k)

SendMsg(r, c) ==
  /\ Is("send")
  /\ Accepts(r)
  /\ k_send_msg(r, From(cur, c))
  /\ UNCHANGED <<mbx, pc, uart, typed>>

RecvMsg ==
  /\ Is("recv")
  /\ cur \in mbx
  /\ box[cur] # <<>>
  /\ box' = [box EXCEPT ![cur] = Tail(@)]
  /\ UNCHANGED <<k, mbx, pc, uart, typed>>

(* k_recv_msg on an empty mailbox switches to another task and goes on     *)
(* after the switch.                                                       *)
RecvBlock ==
  /\ Is("recv")
  /\ cur \in mbx
  /\ box[cur] = <<>>
  /\ Kernel(Blocked(k))
  /\ pc' = [pc EXCEPT ![cur] = "recv"]
  /\ UNCHANGED <<mbx, box, uart, typed>>

(* It does not test again that there is a message: see WokenHasMessage.    *)
RecvGoesOn ==
  /\ pc[cur] = "recv"
  /\ cur \in mbx
  /\ box[cur] # <<>>
  /\ box' = [box EXCEPT ![cur] = Tail(@)]
  /\ pc' = [pc EXCEPT ![cur] = "run"]
  /\ UNCHANGED <<k, mbx, uart, typed>>

-------------------------------------------------------------------------------
(* The keyboard.  Interrupts are disabled at boot and enabled only while a *)
(* user-mode task runs its own code.  Of the UART's interrupts only that   *)
(* for received data is enabled: this is the type that it reports as long  *)
(* as a character waits.                                                   *)

KeyPressed ==
  /\ typed < MaxKeys
  /\ typed' = typed + 1
  /\ uart' = Append(uart, typed')
  /\ UNCHANGED <<k, mbx, box, pc>>

Rx_Data_Ready == uart # <<>>

Interrupt_Rx == Rx_Data_Ready

IrqEnabled == k.priv[cur] = 0 /\ pc[cur] = "run"

Interrupt ==
  /\ Interrupt_Rx
  /\ IrqEnabled
  /\ pc' = [pc EXCEPT ![cur] = "irq"]
  /\ UNCHANGED <<k, mbx, box, uart, typed>>

(* SER_Interrupt on another type of interrupt: it reads nothing.           *)
InterruptUnexpected ==
  /\ ~Interrupt_Rx
  /\ IrqEnabled
  /\ Kernel(k_tsk_run_new(k))
  /\ UNCHANGED <<mbx, box, pc, uart, typed>>

Rx_Read_Data == uart' = Tail(uart)

(* SER_Interrupt: one round of its loop.  The result of k_send_msg is      *)
(* ignored, and a switch to the KCD task leaves the loop unfinished.       *)
ReadKey ==
  /\ pc[cur] = "irq"
  /\ Rx_Data_Ready
  /\ Rx_Read_Data
  /\ UNCHANGED <<mbx, pc, typed>>

StoreKey ==
  /\ ReadKey
  /\ Accepts(TID_KCD)
  /\ k_send_msg(TID_KCD, Key(Head(uart)))

DropKey ==
  /\ ReadKey
  /\ Refuses(TID_KCD, Key(Head(uart)))
  /\ UNCHANGED <<k, box>>

InterruptEnds ==
  /\ pc[cur] = "irq"
  /\ ~Rx_Data_Ready
  /\ pc' = [pc EXCEPT ![cur] = "run"]
  /\ Kernel(k_tsk_run_new(k))
  /\ UNCHANGED <<mbx, box, uart, typed>>

-------------------------------------------------------------------------------
SystemCall ==
  \/ \E t \in Tids, p \in Priorities : TskCreate(t, p) \/ TskSetPrio(t, p)
  \/ TskExit
  \/ TskYield
  \/ MbxCreate
  \/ \E r \in Tids, c \in Contents : SendMsg(r, c)
  \/ RecvMsg
  \/ RecvBlock

Next ==
  \/ SystemCall \/ RecvGoesOn \/ NullYield
  \/ KeyPressed
  \/ Interrupt \/ StoreKey \/ DropKey \/ InterruptEnds \/ InterruptUnexpected

Spec == Init /\ [][Next]_vars

-------------------------------------------------------------------------------
Queued == Range(k.pq)
Started == k \notin {Booted(tasks) : tasks \in Boots}

Messages == {From(t, c) : t \in Tids, c \in Contents} \cup {Key(n) : n \in 1 .. MaxKeys}

(* Types of the variables; the counts and ranks never leave their ranges.  *)
TypeOK ==
  /\ k \in Globals
  /\ \A t \in Tids : k.degree[t] <= MAX_TASKS
  /\ \A p \in Priorities : k.degrees[p] <= MAX_TASKS
  /\ Len(k.pq) \in 1 .. MAX_TASKS
  /\ k.active \in 1 .. MAX_TASKS
  /\ mbx \subseteq Tids
  /\ box \in [Tids -> Seq(Messages)]
  /\ pc \in [Tids -> {"run", "recv", "irq"}]
  /\ uart \in Seq(1 .. MaxKeys)
  /\ typed \in 0 .. MaxKeys

(* The ready queue holds the tasks that can run, each once: no TCB is lost *)
(* by a call that reorders, replaces or removes entries of pq.             *)
QueueExact ==
  /\ Queued = {t \in Tids : k.state[t] \in {"READY", "RUNNING"}}
  /\ Len(k.pq) = Cardinality(Queued)

(* No queued task stands above one that should run before it: every call   *)
(* that changes a key repairs the heap, whichever way the key moved.       *)
HeapOrdered == IsHeap(k, k.pq)

(* Strict priority, first come first served (common.h:72): after every     *)
(* call the running task is the first of those that can run, and it is the *)
(* only one in state RUNNING.                                              *)
RunningIsFirst ==
  /\ \A t \in Tids : k.state[t] = "RUNNING" <=> t = cur
  /\ Started => \A t \in Queued \ {cur} : compare(k, cur, t)

(* No lost wake-up: a task that waits for a message has an empty mailbox.  *)
BlockedIsEmpty ==
  \A t \in Tids : k.state[t] = "BLK_MSG" => pc[t] = "recv" /\ t \in mbx /\ box[t] = <<>>

(* A receiver that is switched in again finds a message: k_recv_msg reads  *)
(* through head after the switch without looking whether it is NULL.       *)
WokenHasMessage ==
  \A t \in Tids : pc[t] = "recv" /\ k.state[t] \in {"READY", "RUNNING"} =>
     t \in mbx /\ box[t] # <<>>

(* A task is preempted only by one of a higher priority: a task that is    *)
(* created, woken or interrupted takes no turn from its equals.            *)
NoPreemptionByEquals ==
  [][ cur' # cur /\ k'.state[cur] = "READY" =>
        \/ k'.prio[cur'] < k'.prio[cur]
        \/ TskYield \/ \E t \in Tids, p \in Priorities : TskSetPrio(t, p) ]_vars

(* A waiting receiver is only made ready by a message to it.               *)
WokenByMessage ==
  [][ \A t \in Tids : k.state[t] = "BLK_MSG" /\ k'.state[t] # "BLK_MSG" =>
        /\ k'.state[t] \in {"READY", "RUNNING"}
        /\ Len(box'[t]) = 1 ]_vars

(* tsk_create as its comment explains it (k_task.c:580): "if capacity      *)
(* reached maximum, cannot create more task and return err".               *)
NoTaskBeyondCapacity ==
  [][ Dormant(k) = {} => ~\E t \in Tids, p \in Priorities : TskCreate(t, p) ]_vars

(* The heap is a line per priority: see Sched.                             *)
InLine(p) == {t \in Queued : k.prio[t] = p}

Lines ==
  [p \in Priorities \cup {PRIO_NULL} |->
     [i \in 1 .. Cardinality(InLine(p)) |->
        CHOOSE t \in InLine(p) : k.degree[t] = i - 1]]

Schedule == INSTANCE Sched WITH
              Tasks <- Tids,
              Null <- TID_NULL,
              Prios <- Priorities \cup {PRIO_NULL},
              line <- Lines,
              running <- k.cur

Scheduled == Schedule!Spec
===============================================================================
