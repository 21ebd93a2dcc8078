-------------------------------- MODULE Context --------------------------------
(***************************************************************************)
(* Registers, kernel stacks and the interrupt mask: what main, the two     *)
(* handlers, the switch of stacks and the stack made up for a new task do  *)
(* to the context of a task.  Which task runs next is left open: every     *)
(* choice of the scheduler is a behaviour here.                            *)
(*                                                                         *)
(* A word is <<kind, task, version>>: what it is, whose it is, and which   *)
(* of the values it has had.  R1 to R12 always move together and are one   *)
(* word.  A stack is a sequence that grows at its end; a stack pointer is  *)
(* a stack and a depth.  A user-mode task runs in USR mode on a stack of   *)
(* its own and enters the kernel by SVC or IRQ; a kernel-mode task runs in *)
(* SVC mode on its kernel stack and calls kernel functions as functions.   *)
(* An interrupt is taken whenever the I bit of CPSR is clear and the GIC   *)
(* and the UART are configured to send it.                                 *)
(***************************************************************************)
EXTENDS Integers, Sequences, FiniteSets

CONSTANTS
  UserTasks,     \* tasks with priv = 0
  KernelTasks,   \* tasks with priv = 1, all of them created at boot
  NullTask,      \* the kernel-mode task that main becomes
  Versions,      \* values that a task may give its registers
  MaxLive        \* bound: tasks alive at a time

ASSUME ContextConstants ==
  /\ UserTasks \cap KernelTasks = {}
  /\ NullTask \in KernelTasks
  /\ Versions \subseteq Nat \ {0}
  /\ MaxLive \in Nat

Tasks == UserTasks \cup KernelTasks

Word(kind, t, v) == <<kind, t, v>>
Code(label) == <<"code", label, 0>>
Psr(mode, i) == <<"psr", mode, i>>
INIT_CPSR_USER == Psr("usr", 0)
Modes == {"usr", "svc", "sys"}
Devices == {"GIC", "UART0"}

VARIABLES
  cpu,      \* r0, rest (R1-R12), lr and sp of USR mode, pc, mode and I bit
            \* of CPSR, and SP_SVC
  sends,    \* the devices configured to send the UART's interrupt
  cur,      \* gp_current_task
  live,     \* the tasks that are not DORMANT
  kstack,   \* the kernel stack of each task
  msp,      \* TCB.msp: the kernel stack pointer of a task switched out
  left      \* history: what a task is to find in its registers next time

vars == <<cpu, sends, cur, live, kstack, msp, left>>

(* The words below SP_SVC.  What a stack holds above the pointer is never  *)
(* read and is dropped.                                                    *)
stack == SubSeq(kstack[cpu.ksp.of], 1, cpu.ksp.at)
Own(pc) == pc[1] = "pc"
InUser == Own(cpu.pc) /\ cpu.mode = "usr"
InKernel == cpu.pc = Code("kernel")

(* The handlers return through EXIT_IRQ, system calls do not.              *)
InHandler == InKernel /\ stack[Len(stack)] = Code("EXIT_IRQ")
InCall == InKernel /\ ~InHandler

(* s becomes the content of the stack that SP_SVC points into.             *)
Stacked(s) == kstack' = [kstack EXCEPT ![cpu.ksp.of] = s]
At(s) == [cpu.ksp EXCEPT !.at = Len(s)]
Popped(n) == SubSeq(stack, 1, Len(stack) - n)

(* The registers of task t at version v: a new task, at version 0, starts  *)
(* with zeros, at its entry point and at the top of its user stack.        *)
Registers(t, v) ==
  [r0 |-> Word("r0", t, v), rest |-> Word("rest", t, v), lr |-> Word("lr", t, v),
   sp |-> Word("sp", t, v), pc |-> Word("pc", t, v)]

Unused(t) == [of |-> t, at |-> 0]

-------------------------------------------------------------------------------
Init ==
  /\ cpu = [r0 |-> Word("r0", NullTask, 0), rest |-> Word("rest", NullTask, 0),
            lr |-> Code("reset"), sp |-> Code("reset"),
            pc |-> Code("reset"), mode |-> "svc", i |-> 1,
            ksp |-> Unused(NullTask)]
  /\ sends = {}
  /\ cur = NullTask
  /\ live = {}
  /\ kstack = [t \in Tasks |-> <<>>]
  /\ msp = [t \in Tasks |-> Unused(t)]
  /\ left = [t \in Tasks |-> Registers(t, 0)]

(* k_tsk_create_new: for a user-mode task a stack as if it had entered by  *)
(* SVC_Handler, and for both one as if it had been switched out.           *)
UserFrame(t) == <<INIT_CPSR_USER, Word("pc", t, 0), Word("sp", t, 0),
                  Word("rest", t, 0), Word("r0", t, 0)>>

(* Mutant of KernelFrame: every task is started at its entry point.        *)
KernelFrameEntry(t) == <<Word("pc", t, 0), Word("rest", t, 0), Word("r0", t, 0)>>

KernelFrame(t) ==
  <<IF t \in UserTasks THEN Code("SVC_RESTORE") ELSE Word("pc", t, 0),
    Word("rest", t, 0), Word("r0", t, 0)>>

Fabricated(t) == (IF t \in UserTasks THEN UserFrame(t) ELSE <<>>) \o KernelFrame(t)

(* It is done for each task of a set.                                      *)
k_tsk_create_new(tasks) ==
  /\ kstack' = [t \in Tasks |-> IF t \in tasks THEN Fabricated(t) ELSE kstack[t]]
  /\ msp' = [t \in Tasks |-> IF t \in tasks THEN [of |-> t, at |-> Len(Fabricated(t))]
                             ELSE msp[t]]

-------------------------------------------------------------------------------
(* From reset to task_null.  The mask that SER_Init runs under is removed, *)
(* so that k_rtx_init runs without; interrupt_init sets it again for good: *)
(* a switch does not change it, and only user-mode contexts are without.   *)
GoesTo(label) == [cpu EXCEPT !.pc = Code(label)]

(* StackInit sets the stack pointers of five modes, of which only SYS mode *)
(* matters later: its stack pointer is that of USR mode.  __set_SP_MODE    *)
(* changes to each mode with the I bit clear, and back.                    *)
StackInit ==
  /\ cpu.pc = Code("reset")
  /\ cpu' = [GoesTo("set_SP_MODE") EXCEPT !.mode = "sys", !.i = 0]
  /\ UNCHANGED <<sends, cur, live, kstack, msp, left>>

set_SP_MODE ==
  /\ cpu.pc = Code("set_SP_MODE")
  /\ cpu' = [GoesTo("main") EXCEPT !.sp = Code("g_stacks"), !.mode = "svc", !.i = 1]
  /\ UNCHANGED <<sends, cur, live, kstack, msp, left>>

atomic_on(c) == [c EXCEPT !.i = 1]
atomic_off(c) == [c EXCEPT !.i = 0]

main ==
  /\ cpu.pc = Code("main")
  /\ cpu' = atomic_on(GoesTo("SER_Init"))
  /\ UNCHANGED <<sends, cur, live, kstack, msp, left>>

SER_Init ==
  /\ cpu.pc = Code("SER_Init")
  /\ cpu' = atomic_off(GoesTo("k_rtx_init"))
  /\ UNCHANGED <<sends, cur, live, kstack, msp, left>>

k_rtx_init(tasks) ==
  /\ cpu.pc = Code("k_rtx_init")
  /\ cpu' = GoesTo("interrupt_init")
  /\ live' = {NullTask} \cup tasks
  /\ Cardinality(live') <= MaxLive
  /\ k_tsk_create_new(tasks)
  /\ UNCHANGED <<sends, cur, left>>

(* Mutant of disable_interrupt: the I bit is left clear.                   *)
disable_interruptNot == GoesTo("config_GIC")

disable_interrupt == [GoesTo("config_GIC") EXCEPT !.i = 1]

interrupt_init ==
  /\ cpu.pc = Code("interrupt_init")
  /\ cpu' = disable_interrupt
  /\ UNCHANGED <<sends, cur, live, kstack, msp, left>>

config_GIC ==
  /\ cpu.pc = Code("config_GIC")
  /\ sends' = sends \cup {"GIC"}
  /\ cpu' = GoesTo("config_UART0_irq")
  /\ UNCHANGED <<cur, live, kstack, msp, left>>

(* main goes on as the null task.                                          *)
config_UART0_irq ==
  /\ cpu.pc = Code("config_UART0_irq")
  /\ sends' = sends \cup {"UART0"}
  /\ cpu' = [cpu EXCEPT !.pc = Word("pc", NullTask, 0)]
  /\ UNCHANGED <<cur, live, kstack, msp, left>>

Boot ==
  \/ StackInit
  \/ set_SP_MODE
  \/ main
  \/ SER_Init
  \/ \E tasks \in SUBSET (Tasks \ {NullTask}) : k_rtx_init(tasks)
  \/ interrupt_init
  \/ config_GIC
  \/ config_UART0_irq

-------------------------------------------------------------------------------
(* A task runs its own code.  A kernel-mode task does not see the banked   *)
(* registers of USR mode.                                                  *)
Works(v) ==
  LET r == Registers(cur, v)
  IN  /\ Own(cpu.pc)
      /\ cpu' = IF cpu.mode = "usr"
                THEN [cpu EXCEPT !.r0 = r.r0, !.rest = r.rest, !.lr = r.lr,
                                 !.sp = r.sp, !.pc = r.pc]
                ELSE [cpu EXCEPT !.r0 = r.r0, !.rest = r.rest, !.pc = r.pc]
      /\ UNCHANGED <<sends, cur, live, kstack, msp, left>>

(* What a task finds when it runs again, r0 apart.                         *)
Leaves(r0) ==
  left' = [left EXCEPT ![cur] = [r0 |-> r0, rest |-> cpu.rest, lr |-> cpu.lr,
                                 sp |-> cpu.sp, pc |-> cpu.pc]]

Result == Word("result", cur, 0)
CPSR == Psr(cpu.mode, cpu.i)

(* Mutant of SvcSaved: SP_USR is not saved.                                *)
SvcSavedNoSp == <<CPSR, cpu.pc, Code("reset"), cpu.rest, cpu.r0>>

(* SVC_SAVE: SRSFD and STM {R0-R12, SP}^.                                  *)
SvcSaved == <<CPSR, cpu.pc, cpu.sp, cpu.rest, cpu.r0>>

(* A system call: BLX R12 leaves SVC_RESTORE as the return address.        *)
Svc ==
  LET s == stack \o SvcSaved \o <<Code("SVC_RESTORE")>>
  IN  /\ InUser
      /\ Stacked(s)
      /\ cpu' = [cpu EXCEPT !.mode = "svc", !.i = 1, !.pc = Code("kernel"), !.ksp = At(s)]
      /\ Leaves(Result)
      /\ UNCHANGED <<sends, cur, live, msp>>

(* IRQ_Handler up to BL SER_Interrupt; the pad keeps the stack aligned.    *)
IrqSaved ==
  <<CPSR, cpu.pc, Code("LR_SVC"), cpu.rest, cpu.r0, Code("pad"), cpu.sp>>

IrqSent == sends = Devices /\ cpu.i = 0

Irq ==
  LET s == stack \o IrqSaved \o <<Code("EXIT_IRQ")>>
  IN  /\ IrqSent
      /\ Stacked(s)
      /\ cpu' = [cpu EXCEPT !.mode = "svc", !.i = 1, !.pc = Code("kernel"), !.ksp = At(s)]
      /\ Leaves(cpu.r0)
      /\ UNCHANGED <<sends, cur, live, msp>>

(* A kernel-mode task calls a kernel function.                             *)
Call ==
  LET s == Append(stack, cpu.pc)
  IN  /\ Own(cpu.pc) /\ cpu.mode = "svc"
      /\ Stacked(s)
      /\ cpu' = [cpu EXCEPT !.pc = Code("kernel"), !.ksp = At(s)]
      /\ Leaves(Result)
      /\ UNCHANGED <<sends, cur, live, msp>>

-------------------------------------------------------------------------------
(* k_tsk_create: new tasks are user-mode tasks.                            *)
Create(t) ==
  /\ InCall
  /\ t \in UserTasks \ live
  /\ Cardinality(live) < MaxLive
  /\ live' = live \cup {t}
  /\ k_tsk_create_new({t})
  /\ left' = [left EXCEPT ![t] = Registers(t, 0)]
  /\ UNCHANGED <<cpu, sends, cur>>

(* k_tsk_switch from the current task to n: PUSH {R0-R12, LR} on the old   *)
(* stack, and POP {R0-R12, PC} from where the new task's msp points.       *)
Pushed == stack \o <<Code("kernel"), cpu.rest, cpu.r0>>

SwitchedIn(from, p) ==
  LET s == from[p.of]
  IN  /\ cpu' = [cpu EXCEPT !.r0 = s[p.at], !.rest = s[p.at - 1], !.pc = s[p.at - 2],
                            !.ksp = [p EXCEPT !.at = @ - 3]]
      /\ kstack' = [from EXCEPT ![p.of] = SubSeq(@, 1, p.at - 3)]

k_tsk_switch(n) ==
  /\ cur' = n
  /\ msp' = [msp EXCEPT ![cur] = At(Pushed)]
  /\ SwitchedIn([kstack EXCEPT ![cpu.ksp.of] = Pushed], msp[n])

(* k_tsk_run_new, from a system call or from the interrupt handler.        *)
Switch(n) ==
  /\ InKernel
  /\ n \in live \ {cur}
  /\ k_tsk_switch(n)
  /\ UNCHANGED <<sends, live, left>>

(* k_tsk_exit.  What the switch saves of a task that exits is never read   *)
(* and is dropped.                                                         *)
Exit(n) ==
  /\ InCall
  /\ cur # NullTask
  /\ n \in live \ {cur}
  /\ live' = live \ {cur}
  /\ UNCHANGED sends
  /\ cur' = n
  /\ SwitchedIn([kstack EXCEPT ![cur] = <<>>], msp[n])
  /\ msp' = [msp EXCEPT ![cur] = Unused(cur)]
  /\ left' = [left EXCEPT ![cur] = Registers(cur, 0)]

(* The kernel function returns to where its caller's stack says.           *)
Return ==
  /\ InKernel
  /\ cpu' = [cpu EXCEPT !.r0 = Result, !.pc = stack[Len(stack)], !.ksp.at = @ - 1]
  /\ Stacked(Popped(1))
  /\ UNCHANGED <<sends, cur, live, msp, left>>

(* Mutant of SvcReturnValue: the result is not stored in the saved R0.     *)
SvcReturnValueNot(s) == s[Len(s)]

SvcReturnValue(s) == cpu.r0

(* SVC_RESTORE: STR R0, [SP]; LDM {R0-R12, SP}^; RFEFD.                    *)
SVC_RESTORE ==
  LET s == stack
      n == Len(s)
  IN  /\ cpu.pc = Code("SVC_RESTORE")
      /\ cpu' = [cpu EXCEPT !.r0 = SvcReturnValue(s), !.rest = s[n - 1], !.sp = s[n - 2],
                            !.pc = s[n - 3], !.mode = s[n - 4][2], !.i = s[n - 4][3],
                            !.ksp.at = n - 5]
      /\ Stacked(Popped(5))
      /\ UNCHANGED <<sends, cur, live, msp, left>>

(* Mutant of IrqFrame: the pad is not dropped.                             *)
IrqFrameNoPad == 6

IrqFrame == 7

(* EXIT_IRQ: LDM {SP}^; POP {R0-R12, LR}; RFEFD.                           *)
EXIT_IRQ ==
  LET s == stack
      n == Len(s)
      m == n - IrqFrame
  IN  /\ cpu.pc = Code("EXIT_IRQ")
      /\ cpu' = [cpu EXCEPT !.sp = s[n], !.r0 = s[m + 5], !.rest = s[m + 4],
                            !.pc = s[m + 2], !.mode = s[m + 1][2], !.i = s[m + 1][3],
                            !.ksp.at = m]
      /\ Stacked(Popped(IrqFrame))
      /\ UNCHANGED <<sends, cur, live, msp, left>>

-------------------------------------------------------------------------------
Next ==
  \/ Boot
  \/ \E v \in Versions : Works(v)
  \/ Svc \/ Irq \/ Call
  \/ \E t \in Tasks : Create(t) \/ Switch(t) \/ Exit(t)
  \/ Return \/ SVC_RESTORE \/ EXIT_IRQ

Spec == Init /\ [][Next]_vars

-------------------------------------------------------------------------------
(* k_tsk_get, given a buffer, fails for a DORMANT task; of a user-mode     *)
(* task it reads u_sp where SVC_SAVE, or k_tsk_create_new, has put it.     *)
RTX_ERR == -1

k_tsk_get(t) ==
  IF t \in live
  THEN [tid  |-> t,
        priv |-> IF t \in UserTasks THEN 0 ELSE 1,
        u_sp |-> IF t \in UserTasks THEN kstack[t][3] ELSE 0,
        k_sp |-> msp[t]]
  ELSE RTX_ERR

(* The task is suspended in the interrupt handler.                         *)
Interrupted(t) == \E i \in DOMAIN kstack[t] : kstack[t][i] = Code("EXIT_IRQ")

-------------------------------------------------------------------------------
Words ==
  {Word(kind, t, v) : kind \in {"r0", "rest", "lr", "sp", "pc"}, t \in Tasks,
                      v \in Versions \cup {0}}
  \cup {Word("result", t, 0) : t \in Tasks}
  \cup {Code(l) : l \in {"kernel", "SVC_RESTORE", "EXIT_IRQ", "LR_SVC", "pad",
                     "reset", "main", "set_SP_MODE", "g_stacks", "SER_Init", "k_rtx_init", "interrupt_init", "config_GIC",
                     "config_UART0_irq"}}
  \cup {Psr(m, i) : m \in Modes, i \in {0, 1}}

(* The deepest kernel stack: entered by IRQ and switched out.              *)
Deepest == 11

Pointers == [of : Tasks, at : 0 .. Deepest]

(* Types of the variables; no path through the kernel leaves anything on a *)
(* kernel stack, so that none grows beyond one entry and one switch.       *)
TypeOK ==
  /\ cpu \in [r0 : Words, rest : Words, lr : Words, sp : Words, pc : Words,
              mode : Modes, i : {0, 1}, ksp : Pointers]
  /\ sends \subseteq Devices
  /\ cur \in Tasks
  /\ live \in SUBSET Tasks
  /\ kstack \in [Tasks -> Seq(Words)] /\ \A t \in Tasks : Len(kstack[t]) <= Deepest
  /\ msp \in [Tasks -> Pointers]
  /\ left \in [Tasks -> [r0 : Words, rest : Words, lr : Words, sp : Words, pc : Words]]

(* Each task runs in its own mode and on its own kernel stack, which is    *)
(* empty while it runs its own code: the handlers and the made-up stacks   *)
(* balance, also for a task that is interrupted, switched out in the       *)
(* handler and interrupted again.                                          *)
OwnStack ==
  /\ cpu.ksp.of = cur
  /\ \A t \in live : msp[t].of = t
  /\ Own(cpu.pc) => /\ cur \in live
                    /\ cpu.mode = IF cur \in UserTasks THEN "usr" ELSE "svc"
                    /\ cpu.pc[2] = cur
                    /\ cpu.ksp.at = 0

(* A task that runs again finds its registers, its stack pointer and its   *)
(* place in the code as it left them, with the result of its call in R0;   *)
(* a new one starts as k_tsk_create_new laid it out; whatever other tasks  *)
(* did in between.                                                         *)
Resumes == ~Own(cpu.pc) /\ Own(cpu.pc')

ResumesAsLeft ==
  [][ Resumes =>
        /\ cpu'.pc = left[cur'].pc
        /\ cpu'.rest = left[cur'].rest
        /\ cpu'.r0 = left[cur'].r0
        /\ cur' \in UserTasks => cpu'.sp = left[cur'].sp ]_vars

(* An interrupt is taken when a user-mode task runs its own code, and then *)
(* only: IRQ_Handler finds the kernel stack of that task empty, and never  *)
(* comes in between in the kernel, in a kernel-mode task or before the     *)
(* kernel is initialised.  No code sets the mask of a kernel-mode task: it *)
(* has it from main, through any number of switches.                       *)
UserTasksInterrupted == IrqSent <=> InUser

(* What k_tsk_get, called by any task, says of a live one.  u_sp is where  *)
(* it left its user stack, unless it is suspended in the interrupt         *)
(* handler; k_sp is the top of its own kernel stack, unless it is the      *)
(* caller: no step of another task moves either.                           *)
StackPointerReported ==
  InCall => \A t \in live :
    LET info == k_tsk_get(t)
    IN  /\ info.priv = 0 /\ ~Interrupted(t) => info.u_sp = left[t].sp
        /\ t # cur => info.k_sp = [of |-> t, at |-> Len(kstack[t])]

(* "the user/sys mode context saved on the kernel stack" (k_task.c:406):   *)
(* a task that was interrupted finds its link register as it was.          *)
LinkRegisterKept ==
  [][ cpu.pc = Code("EXIT_IRQ") /\ Resumes => cpu'.lr = left[cur].lr ]_vars
===============================================================================
