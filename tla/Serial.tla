--------------------------------- MODULE Serial --------------------------------
(***************************************************************************)
(* The serial lines of both boards (Serial.c): tasks that print on line 0, *)
(* the interrupt handler, which echoes keys on line 1 and reports other    *)
(* interrupts on line 0, and tasks that read.  Every output function first *)
(* waits, in a loop, for room in the device and then writes; between the   *)
(* two a task in user mode can be interrupted, and the handler can switch  *)
(* tasks.  Which task runs after that, or after a system call, is open.    *)
(*                                                                         *)
(* A character is <<who, string, place>>.  A device holds those to be      *)
(* transmitted; one that is written when it is full is lost.               *)
(***************************************************************************)
EXTENDS Integers, Sequences, FiniteSets

CONSTANTS
  Boards,        \* those of "DE1_SoC_A9" and "VE_A9" that the system is built for
  UserTasks,     \* tasks that run in user mode
  KernelTasks,   \* tasks that run in kernel mode, with interrupts masked
  Readers,       \* tasks of either kind that call SER_GetChar
  LinesRead,     \* the lines that they read on each board
  Depth,         \* characters that the transmit FIFO of each device holds
  MaxStrings,    \* bound: strings that each task prints
  MaxLength,     \* bound: their length
  MaxKeys,       \* bound: keys typed at each device, and reads by SER_GetChar from it
  MaxErrors      \* bound: interrupts of another type

Tasks == UserTasks \cup KernelTasks
Devices == {"JTAG", "UART0"}
DE1 == "DE1_SoC_A9"
VE == "VE_A9"

ASSUME SerialConstants ==
  /\ Boards \subseteq {DE1, VE}
  /\ UserTasks \cap KernelTasks = {} /\ Tasks # {} /\ Readers \subseteq Tasks
  /\ Depth \in [Devices -> Nat \ {0}]
  /\ LinesRead \in [Boards -> SUBSET {0, 1}]
  /\ MaxStrings \in [Tasks -> Nat] /\ MaxLength \in Nat \ {0} /\ MaxErrors \in Nat
  /\ MaxKeys \in [Devices -> Nat]

VARIABLES
  cur,      \* the task that runs, or main
  uart,     \* the board, and whether its UART0 is enabled and has its FIFO
  text,     \* what the string that a task prints has left
  strings,  \* number of strings that a task has begun to print
  free,     \* tasks whose SER_PutChar has found room and has still to write
  irq,      \* where each task is in SER_Interrupt: "out", or a place there
  echo,     \* what its SER_Interrupt has to print
  errors,   \* number of interrupts of another type
  tx,       \* characters in each device, to be transmitted
  rx,       \* keys in each device, to be read
  typed,    \* number of keys typed at each device
  got,      \* history: what SER_GetChar read from each device
  sent,     \* history: what each device transmitted
  lost,     \* history: characters written to a full device
  cut       \* history: characters whose write was delayed by an interrupt

out == <<text, strings, free>>
handler == <<irq, echo, errors>>
input == <<rx, typed, got>>
history == <<sent, lost, cut>>
Board == uart.board

vars == <<cur, uart, out, handler, tx, input, history>>

Key(n) == <<"key", n, 1>>
Error(n) == [i \in 1 .. MaxLength |-> <<"error", n, i>>]
Junk == <<"junk", 0, 1>>   \* what a data register reads when nothing has arrived

-------------------------------------------------------------------------------
(* UART0 is off on VE_A9 until SER_Init, and has no FIFO on either board.  *)
Init ==
  /\ cur = "main"
  /\ \E b \in Boards : uart = [board |-> b, on |-> b = DE1, fifo |-> FALSE]
  /\ text = [t \in Tasks |-> <<>>] /\ strings = [t \in Tasks |-> 0] /\ free = {}
  /\ irq = [t \in Tasks |-> "out"] /\ echo = [t \in Tasks |-> <<>>] /\ errors = 0
  /\ tx = [d \in Devices |-> <<>>] /\ rx = [d \in Devices |-> <<>>]
  /\ typed = [d \in Devices |-> 0] /\ got = [d \in Devices |-> <<>>]
  /\ sent = [d \in Devices |-> <<>>] /\ lost = {} /\ cut = {}

(* SER_Init of DE1: the FIFO gets bit 0 of the interrupt identification,   *)
(* which is set, since no interrupt is enabled yet.  Speed and format have *)
(* no part in what follows.                                                *)
UART0_Init(u) == [u EXCEPT !.fifo = TRUE]

(* SER_Init of VE.                                                         *)
SER_Disable(u) == [u EXCEPT !.on = FALSE]
SER_Enable(u) == [u EXCEPT !.on = TRUE]
VE_Init(u) == SER_Enable([SER_Disable(u) EXCEPT !.fifo = TRUE])

(* In main, before the first task runs.                                    *)
SER_Init ==
  /\ cur = "main"
  /\ uart' = IF Board = VE THEN VE_Init(uart) ELSE UART0_Init(uart)
  /\ cur' \in Tasks
  /\ UNCHANGED <<out, handler, tx, input, history>>

(* The device of line n; VE has one for all lines.                         *)
DE1_Line(n) == IF n = 0 THEN "JTAG" ELSE "UART0"
VE_Line(n) == "UART0"
Device(n) == IF Board = VE THEN VE_Line(n) ELSE DE1_Line(n)

Holds(d) == IF d = "UART0" /\ ~uart.fifo THEN 1 ELSE Depth[d]

(* When the waiting loops end: there is room in the FIFO of the JTAG UART; *)
(* UART0 of DE1 has transmitted everything (0x20 and 0x40 of UARTLSR); the *)
(* FIFO of UART0 of VE is not full (0x20 of UARTFR).  Mutants: the flag is *)
(* tested for the wrong value; one character more is thought to fit.       *)
UART0_FreeInverted == tx["UART0"] # <<>>
JTAG_FreeOneMore == Len(tx["JTAG"]) <= Holds("JTAG")

JTAG_Free == Len(tx["JTAG"]) < Holds("JTAG")
UART0_Free == tx["UART0"] = <<>>
VE_Free == Len(tx["UART0"]) < Holds("UART0")

Free(d) == IF d = "JTAG" THEN JTAG_Free ELSE IF Board = VE THEN VE_Free ELSE UART0_Free

(* A write to the data register.                                           *)
Write(d, x) ==
  IF Len(tx[d]) < Holds(d)
  THEN tx' = [tx EXCEPT ![d] = Append(@, x)] /\ UNCHANGED lost
  ELSE lost' = lost \cup {x} /\ UNCHANGED tx

-------------------------------------------------------------------------------
(* Tasks.                                                                  *)
OwnCode == cur \in Tasks /\ irq[cur] = "out"

(* A task prints n characters, by SER_PutStr or by printf.                 *)
Prints(n) ==
  /\ OwnCode /\ text[cur] = <<>>
  /\ strings[cur] < MaxStrings[cur]
  /\ strings' = [strings EXCEPT ![cur] = @ + 1]
  /\ text' = [text EXCEPT ![cur] = [i \in 1 .. n |-> <<cur, strings'[cur], i>>]]
  /\ UNCHANGED <<cur, uart, free, handler, tx, input, history>>

(* SER_PutChar for the next character: the end of its waiting loop ...     *)
Polled ==
  /\ OwnCode /\ text[cur] # <<>> /\ cur \notin free
  /\ Free(Device(0))
  /\ free' = free \cup {cur}
  /\ UNCHANGED <<cur, uart, text, strings, handler, tx, input, history>>

(* ... and its write, with which SER_PutStr goes on to the next one.       *)
(* Mutant: it does not wait for the next one.                              *)
SER_PutStrPollsOnce ==
  /\ OwnCode /\ cur \in free
  /\ Write(Device(0), Head(text[cur]))
  /\ text' = [text EXCEPT ![cur] = Tail(@)]
  /\ UNCHANGED <<cur, uart, strings, free, handler, input, sent, cut>>

SER_PutStr ==
  /\ OwnCode /\ cur \in free
  /\ Write(Device(0), Head(text[cur]))
  /\ text' = [text EXCEPT ![cur] = Tail(@)]
  /\ free' = free \ {cur}
  /\ UNCHANGED <<cur, uart, strings, handler, input, sent, cut>>

(* A system call, between two strings.                                     *)
Calls ==
  /\ OwnCode /\ text[cur] = <<>>
  /\ cur' \in Tasks
  /\ UNCHANGED <<uart, out, handler, tx, input, history>>


UART0_Waits == FALSE
JTAG_Waits == rx["JTAG"] = <<>>
VE_Waits == rx["UART0"] = <<>>

Waits(d) == IF d = "JTAG" THEN JTAG_Waits ELSE IF Board = VE THEN VE_Waits ELSE UART0_Waits

(* The test and the read are one step: the JTAG UART has both in one       *)
(* register, UART0 of DE1 has no test, and VE has no interrupts.           *)
SER_GetChar(n) ==
  LET d == Device(n)
  IN  /\ OwnCode /\ text[cur] = <<>> /\ cur \in Readers /\ n \in LinesRead[Board]
      /\ Len(got[d]) < MaxKeys[d]
      /\ ~Waits(d)
      /\ got' = [got EXCEPT ![d] = Append(@, IF rx[d] = <<>> THEN Junk ELSE Head(rx[d]))]
      /\ rx' = [rx EXCEPT ![d] = IF @ = <<>> THEN @ ELSE Tail(@)]
      /\ UNCHANGED <<cur, uart, out, handler, tx, typed, history>>

-------------------------------------------------------------------------------
(* The interrupt of UART0.  VE has a skeleton: interrupt_init does nothing *)
(* and no key is reported.                                                 *)
InterruptsOn == Board = DE1
VE_Interrupt_Rx == FALSE
VE_Rx_Data_Ready == FALSE
DE1_Interrupt_Rx == rx["UART0"] # <<>>
DE1_Rx_Data_Ready == rx["UART0"] # <<>>

Interrupt_Rx == IF Board = VE THEN VE_Interrupt_Rx ELSE DE1_Interrupt_Rx
Rx_Data_Ready == IF Board = VE THEN VE_Rx_Data_Ready ELSE DE1_Rx_Data_Ready

(* Interrupts are masked in the handler and in tasks in kernel mode.       *)
(* Mutant: not in those tasks.                                             *)
MaskedInHandler == irq[cur] # "out"

Masked == irq[cur] # "out" \/ cur \in KernelTasks

In(place) == cur \in Tasks /\ irq[cur] = place
GoesTo(place) == irq' = [irq EXCEPT ![cur] = place]

IrqTaken ==
  /\ cur \in Tasks /\ InterruptsOn /\ ~Masked
  /\ cut' = IF cur \in free THEN cut \cup {Head(text[cur])} ELSE cut
  /\ UNCHANGED <<cur, uart, out, tx, input, sent, lost>>

Interrupt == IrqTaken /\ Interrupt_Rx /\ GoesTo("reads") /\ UNCHANGED <<echo, errors>>

InterruptUnexpected ==
  /\ IrqTaken /\ ~Interrupt_Rx
  /\ errors < MaxErrors
  /\ errors' = errors + 1
  /\ echo' = [echo EXCEPT ![cur] = Error(errors')]
  /\ GoesTo("polls")

(* SER_Interrupt: one round of its loop reads a key, echoes it, and sends  *)
(* it to the KCD task.  Mutant: it is echoed when it has been sent.        *)
LoopEchoLast == [reads |-> "sends", writes |-> "reads", sends |-> "polls"]

Loop == [reads |-> "polls", writes |-> "sends", sends |-> "reads"]

Rx_Read_Data ==
  /\ In("reads") /\ Rx_Data_Ready
  /\ echo' = [echo EXCEPT ![cur] = <<Head(rx["UART0"])>>]
  /\ rx' = [rx EXCEPT !["UART0"] = Tail(@)]
  /\ GoesTo(Loop.reads)
  /\ UNCHANGED <<cur, uart, out, errors, tx, typed, got, history>>

(* SER_PutChar(1, c), or SER_PutStr(0, ...) for an error.                  *)
Reports(t) == echo[t] # <<>> /\ Head(echo[t])[1] = "error"
EchoLine == IF Reports(cur) THEN 0 ELSE 1

EchoPolled ==
  /\ In("polls")
  /\ Free(Device(EchoLine))
  /\ GoesTo("writes")
  /\ UNCHANGED <<cur, uart, out, echo, errors, tx, input, history>>

Echoed ==
  /\ In("writes")
  /\ Write(Device(EchoLine), Head(echo[cur]))
  /\ echo' = [echo EXCEPT ![cur] = Tail(@)]
  /\ GoesTo(IF echo'[cur] # <<>> THEN "polls" ELSE IF Reports(cur) THEN "ends" ELSE Loop.writes)
  /\ UNCHANGED <<cur, uart, out, errors, input, sent, cut>>

(* k_send_msg may switch tasks.                                            *)
Sent ==
  /\ In("sends")
  /\ GoesTo(Loop.sends)
  /\ cur' \in Tasks
  /\ UNCHANGED <<uart, out, echo, errors, tx, input, history>>

(* k_tsk_run_new, which may too.                                           *)
InterruptEnds ==
  /\ In("ends") \/ (In("reads") /\ ~Rx_Data_Ready)
  /\ GoesTo("out")
  /\ cur' \in Tasks
  /\ UNCHANGED <<uart, out, echo, errors, tx, input, history>>

-------------------------------------------------------------------------------
(* The devices and who sits at them.                                       *)
Transmits(d) ==
  /\ tx[d] # <<>> /\ (d = "UART0" => uart.on)
  /\ tx' = [tx EXCEPT ![d] = Tail(@)]
  /\ sent' = [sent EXCEPT ![d] = Append(@, Head(tx[d]))]
  /\ UNCHANGED <<cur, uart, out, handler, input, lost, cut>>

Types(d) ==
  /\ typed[d] < MaxKeys[d]
  /\ typed' = [typed EXCEPT ![d] = @ + 1]
  /\ rx' = [rx EXCEPT ![d] = Append(@, Key(typed'[d]))]
  /\ UNCHANGED <<cur, uart, out, handler, tx, got, history>>

Runs ==
  \/ SER_Init
  \/ \E n \in 1 .. MaxLength : Prints(n)
  \/ Polled \/ SER_PutStr \/ Calls
  \/ \E n \in {0, 1} : SER_GetChar(n)
  \/ Interrupt \/ InterruptUnexpected
  \/ Rx_Read_Data \/ EchoPolled \/ Echoed \/ Sent \/ InterruptEnds

(* Who does not find room tests the flag again and again.                  *)
Spins ==
  /\ \/ OwnCode /\ text[cur] # <<>> /\ cur \notin free /\ ~Free(Device(0))
     \/ In("polls") /\ ~Free(Device(EchoLine))
  /\ UNCHANGED vars

Next == Runs \/ Spins \/ \E d \in Devices : Transmits(d) \/ Types(d)

Spec == Init /\ [][Next]_vars

(* The processor does not stop, and UART0 transmits what it holds.  The    *)
(* JTAG UART transmits only as long as a host reads it.                    *)
Fairness == WF_vars(Runs) /\ WF_vars(Transmits("UART0"))

FairSpec == Spec /\ Fairness

-------------------------------------------------------------------------------
Keys == UNION {{Key(n) : n \in 1 .. MaxKeys[d]} : d \in Devices}
Characters ==
  Keys \cup ({"error"} \X (1 .. MaxErrors) \X (1 .. MaxLength))
       \cup UNION {{t} \X (1 .. MaxStrings[t]) \X (1 .. MaxLength) : t \in Tasks}

(* Types of the variables; a task is about to write only in the middle of  *)
(* a string, and no device holds more than its FIFO.                       *)
TypeOK ==
  /\ cur \in Tasks \cup {"main"} /\ uart \in [board : Boards, on : BOOLEAN, fifo : BOOLEAN]
  /\ text \in [Tasks -> Seq(Characters)] /\ \A t \in Tasks : strings[t] \in 0 .. MaxStrings[t]
  /\ \A t \in free : t \in Tasks /\ text[t] # <<>>
  /\ irq \in [Tasks -> {"out", "reads", "polls", "writes", "sends", "ends"}]
  /\ \A t \in Tasks : echo[t] \in Seq(Characters) /\ (irq[t] \in {"polls", "writes"} <=> echo[t] # <<>>)
  /\ errors \in 0 .. MaxErrors
  /\ \A d \in Devices : tx[d] \in Seq(Characters) /\ Len(tx[d]) <= Holds(d)
  /\ \A d \in Devices : rx[d] \in Seq(Keys) /\ typed[d] \in 0 .. MaxKeys[d]
  /\ got \in [Devices -> Seq(Keys \cup {Junk})]
  /\ lost \cup cut \subseteq Characters

(* DE1: each key is echoed once and in the order typed, though the handler *)
(* can be switched out in its loop and entered again by another task: what *)
(* UART0 transmitted and holds, the key that a handler has still to echo,  *)
(* and those not yet read are all that was typed.                          *)
Unechoed ==
  IF \E t \in Tasks : echo[t] # <<>> /\ ~Reports(t)
  THEN echo[CHOOSE t \in Tasks : echo[t] # <<>> /\ ~Reports(t)] ELSE <<>>

EchoedAsTyped ==
  Board = DE1 =>
    sent["UART0"] \o tx["UART0"] \o Unechoed \o rx["UART0"] = [n \in 1 .. typed["UART0"] |-> Key(n)]

(* A character is lost only if an interrupt came between the test of the   *)
(* device and the write: never one that the handler, a task in kernel mode *)
(* or any task of VE writes.  That those of a task in user mode can be     *)
(* lost is what "take care that your 'putc' function is re-entrant!"       *)
(* (printf.h of DE1:86-88) warns of.                                       *)
LostOnlyIfCut == lost \subseteq cut

(* A string that nothing can interrupt comes out in one piece: one of the  *)
(* handler or of a task in kernel mode, and on VE of every task.           *)
Uninterrupted == IF Board = VE THEN Tasks ELSE KernelTasks \cup {"error"}

StringsWhole ==
  LET log == sent[Device(0)] \o tx[Device(0)]
      Same(i, j) == log[i][1] = log[j][1] /\ log[i][2] = log[j][2]
  IN  \A i, j \in DOMAIN log :
        i < j /\ log[i][1] \in Uninterrupted /\ Same(i, j) => \A m \in i .. j : Same(i, m)


(* Who waits for UART0 (the handler, with interrupts masked; on VE a task  *)
(* in SER_PutChar, which nothing else can relieve) does not wait for ever. *)
WaitsForUART0(t) ==
  \/ irq[t] = "polls" /\ Device(IF Reports(t) THEN 0 ELSE 1) = "UART0"
  \/ text[t] # <<>> /\ t \notin free /\ Device(0) = "UART0"

WaitsEnd == \A t \in Tasks : WaitsForUART0(t) ~> ~WaitsForUART0(t)
===============================================================================
