--------------------------------- MODULE MCRtx ---------------------------------
EXTENDS Rtx

(* The KCD task at HIGH in user mode and two application tasks, as in ae.c *)
(* but fewer.                                                              *)
Boot3 == {<< [tid |-> 1, prio |-> 101, priv |-> 1],
             [tid |-> 3, prio |-> 100, priv |-> 0],
             [tid |-> 2, prio |-> 101, priv |-> 0] >>}

(* A fourth one, kernel mode, of the priority of the KCD task.             *)
Boot4 == {<< [tid |-> 1, prio |-> 100, priv |-> 1],
             [tid |-> 2, prio |-> 101, priv |-> 0],
             [tid |-> 4, prio |-> 100, priv |-> 0],
             [tid |-> 3, prio |-> 101, priv |-> 0] >>}

(* Every task makes every call.                                            *)
AllCalls == [t \in Tids |-> CallNames]

(* Tasks that compete for the processor.                                   *)
SchedCalls == [t \in Tids |-> {"create", "exit", "set_prio", "yield"}]
===============================================================================
