------------------------------- MODULE MCSerial -------------------------------
(***************************************************************************)
(* The instance of Serial that TLC checks.                                 *)
(***************************************************************************)
EXTENDS Serial

(* FIFOs that one string fills.                                            *)
ShortFifos == [d \in Devices |-> IF d = "JTAG" THEN 1 ELSE 2]

(* The keyboard is at UART0.                                               *)
TwoKeys == [d \in Devices |-> IF d = "JTAG" THEN 1 ELSE 2]

(* On DE1_SoC_A9 the handler reads UART0; on VE_A9 tasks do.               *)
PolledLines == [b \in Boards |-> {0}]

(* Each task prints once, the second one in user mode not at all.          *)
Once == [t \in Tasks |-> IF t = "u2" THEN 0 ELSE 1]
===============================================================================
