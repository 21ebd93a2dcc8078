------------------------------- MODULE MCSystem --------------------------------
EXTENDS Apps

AllCalls == [t \in Tids |-> CallNames]
AllContents == {Reg(c) : c \in Chars} \cup {Cmd(s) : s \in CommandTexts}

(* The mailbox of task3 has 30 bytes, a command up to 72.                  *)
LongCommands == {Cmd(s) : s \in [1 .. LONGEST - 1 -> Chars]}

(* A command and the start of another; a line too long; no '%', an empty   *)
(* line, a line of one character.                                          *)
Typing ==
  {<<"%", "a", CR, "%", "a", CR>>, <<"%", "a", "a", CR>>, <<"a", CR, CR, "%", CR>>}

(* The tasks of ae.c; and no kernel-mode task, where task1 runs, creates   *)
(* task2 and exits, and two tasks register the same identifier.            *)
lab_task_info ==
  <<Info("task1", 0), Info("kcd_task", 0), Info("task3", 0), Info("task3", 0)>>

AeAndLab == {Config(ae_task_info), Config(lab_task_info)}
AeAndLabBoots == {c.boot : c \in AeAndLab}

(* A task that registers and exits, and one that gets its id.              *)
ReusePrograms ==
  [starter  |-> <<Create("leaver", HIGH, 2), Yield(3), Create("newcomer", HIGH, 4), Yield(4)>>,
   leaver   |-> <<Mbx(2), Register("a", 3), Exit>>,
   newcomer |-> <<Mbx(2), Recv(2)>>,
   task2    |-> task2,
   kcd_task |-> kcd_task]

OnlyReuse == {Config(<<Info("starter", 0), Info("kcd_task", 0)>>)}
ReuseBoots == {c.boot : c \in OnlyReuse}
===============================================================================
