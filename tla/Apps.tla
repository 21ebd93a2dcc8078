--------------------------------- MODULE Apps ----------------------------------
(***************************************************************************)
(* The programs of the repository's tasks and the table of boot-time tasks *)
(* that ae.c hands to the kernel.  Printing, delays and tsk_get, which     *)
(* changes nothing, are left out.                                          *)
(***************************************************************************)
EXTENDS System

HIGH == 100
LOW == 102
LOWEST == 103

(* Instructions: a call, and the place in the program where it goes on.    *)
Yield(to) == [call |-> "yield", then |-> to]
Create(f, p, to) == [call |-> "create", entry |-> f, prio |-> p, then |-> to]
SetPrio(p, to) == [call |-> "set_prio", prio |-> p, then |-> to]
Mbx(to) == [call |-> "mbx", then |-> to]
Recv(to) == [call |-> "recv", then |-> to]
Register(c, to) == [call |-> "register", char |-> c, then |-> to]
Deal(to) == [call |-> "deal", then |-> to]
Exit == [call |-> "exit"]

(* kcd_task: it creates its mailbox; then it receives, and deals with what *)
(* it received.                                                            *)
kcd_task == <<Mbx(2), Recv(3), Deal(2)>>

(* A boot-time task that only prints and yields, and one that first        *)
(* creates a user-mode task and lowers its priority.                       *)
priv_task1 == <<Yield(1)>>
priv_task2 == <<Create("task1", LOW, 2), SetPrio(LOWEST, 3), Yield(3)>>

(* A user-mode task that creates another and exits, one that prints and    *)
(* yields, and one that registers an identifier and receives its commands. *)
task1 == <<Create("task2", LOW, 2), SetPrio(LOWEST, 3), Exit>>
task2 == <<Yield(1)>>
task3 == <<Mbx(2), Register("a", 3), Recv(3)>>

AppPrograms ==
  [kcd_task |-> kcd_task, priv_task1 |-> priv_task1, priv_task2 |-> priv_task2,
   task1 |-> task1, task2 |-> task2, task3 |-> task3]

-------------------------------------------------------------------------------
Info(f, priv) == [ptask |-> f, prio |-> HIGH, priv |-> priv]

(* The table of ae_set_task_info.                                          *)
ae_task_info ==
  <<Info("priv_task1", 1), Info("priv_task2", 1), Info("kcd_task", 0),
    Info("task3", 0), Info("task2", 0)>>

(* k_tsk_init: the KCD task has an id of its own, the others are numbered  *)
(* in the order of the table.                                              *)
AssignedTid(info, i) ==
  IF info[i].ptask = "kcd_task" THEN TID_KCD
  ELSE Cardinality({j \in 1 .. i : info[j].ptask # "kcd_task"})

Config(info) ==
  [boot  |-> [i \in DOMAIN info |->
                [tid |-> AssignedTid(info, i), prio |-> info[i].prio, priv |-> info[i].priv]],
   entry |-> [t \in Tids |->
                IF \E i \in DOMAIN info : AssignedTid(info, i) = t
                THEN info[CHOOSE i \in DOMAIN info : AssignedTid(info, i) = t].ptask
                ELSE "task2"]]
===============================================================================
