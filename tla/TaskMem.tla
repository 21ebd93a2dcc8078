-------------------------------- MODULE TaskMem --------------------------------
(***************************************************************************)
(* Tasks and their memory: k_tsk_create takes the user stack of a new task *)
(* from the allocator, k_tsk_exit gives it back; in between every task     *)
(* allocates and releases.  What a task holds when it exits stays held:    *)
(* nothing releases it, unless a later task with the same id does, which   *)
(* the allocator cannot tell from the owner.  Tids are the ids of          *)
(* user-mode tasks; kernel-mode tasks have no user stack, and none of the  *)
(* repository's asks for memory.                                           *)
(***************************************************************************)
EXTENDS KMem

CONSTANT StackSizes   \* stack sizes that tasks are created with

(* k_tsk_create refuses sizes that are not a multiple of eight.            *)
ASSUME TaskMemConstants == StackSizes \subseteq {8 * i : i \in 1 .. HEAP}

VARIABLES
  live,     \* the tasks that are not DORMANT
  u_stack   \* u_stack_hi - u_stack_size of each TCB: what mem_alloc returned
            \* (NULL in a TCB that is DORMANT, where it is not read)

tvars == <<free, held, last, live, u_stack>>

NULL == -1

Payload(b) == b.at + node_size

(* Mutant of StackOf: the address of the block, not of its first byte.     *)
StackOfHeader(t) == {b \in held : b.at = u_stack[t]}

StackOf(t) == {b \in held : Payload(b) = u_stack[t]}
Stacks == UNION {StackOf(t) : t \in live}

TaskInit ==
  /\ Init
  /\ live = {}
  /\ u_stack = [t \in Tids |-> NULL]

(* k_tsk_create and k_tsk_create_new: the owner of the stack is the new    *)
(* task, whoever creates it.  If there is no room the test for it is of    *)
(* another variable, and the task goes into the ready queue all the same.  *)
Create(t, s) ==
  /\ t \notin live
  /\ live' = live \cup {t}
  /\ \/ /\ AllocStack(t, s)
        /\ \E b \in held' \ held : u_stack' = [u_stack EXCEPT ![t] = Payload(b)]
     \/ NoRoom(s) /\ UNCHANGED u_stack

(* k_tsk_exit ignores what k_mem_dealloc returns, also for NULL.           *)
Exit(t) ==
  /\ t \in live
  /\ live' = live \ {t}
  /\ \/ \E b \in StackOf(t) : Dealloc(t, b) \/ Denied(t, b)
     \/ StackOf(t) = {} /\ UNCHANGED <<free, held, last>>
  /\ u_stack' = [u_stack EXCEPT ![t] = NULL]

(* mem_alloc, and mem_dealloc of anything but a stack in use.              *)
Use(t) ==
  /\ t \in live
  /\ \/ \E s \in Sizes : Alloc(t, s) \/ NoRoom(s)
     \/ \E b \in held \ Stacks : Dealloc(t, b) \/ Denied(t, b)
  /\ UNCHANGED <<live, u_stack>>

TaskNext ==
  \E t \in Tids :
    \/ \E s \in StackSizes : Create(t, s)
    \/ Exit(t) \/ Use(t)

TaskSpec == TaskInit /\ [][TaskNext]_tvars

-------------------------------------------------------------------------------
(* A stack belongs to one task and counts as owned by it, so that          *)
(* k_tsk_exit can release it, and lasts as long as the task.               *)
OwnStacks ==
  /\ \A t \in live : u_stack[t] # NULL => \E b \in StackOf(t) : b.owner = t
  /\ \A t, u \in live : t # u => StackOf(t) \cap StackOf(u) = {}

(* A task that exits gives its stack back, whoever created it and whatever *)
(* was allocated and released around it since.                             *)
StackReturned ==
  [][ \A t \in live : t \notin live' =>
        held' = held \ StackOf(t) /\ (u_stack[t] # NULL => StackOf(t) # {}) ]_tvars
===============================================================================
