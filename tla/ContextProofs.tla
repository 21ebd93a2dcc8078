----------------------------- MODULE ContextProofs ----------------------------
(***************************************************************************)
(* Proofs about the context switch, for every set of tasks and every value *)
(* that a task may have in its registers.                                  *)
(***************************************************************************)
EXTENDS Context, SequenceFacts

-------------------------------------------------------------------------------
(* The inductive invariant says what is on the kernel stack of each task:  *)
(* s is a stack and l what the task is to find (left).                     *)
SvcEntry(s, l) ==
  s[1] = INIT_CPSR_USER /\ s[2] = l.pc /\ s[3] = l.sp /\ s[4] = l.rest

IrqEntry(s, l) ==
  /\ s[1] = INIT_CPSR_USER /\ s[2] = l.pc /\ s[4] = l.rest /\ s[5] = l.r0
  /\ s[7] = l.sp

(* Task t is in a kernel function, with n words on its stack: in a system  *)
(* call, in the interrupt handler, or, in a kernel-mode task, in a call.   *)
InFunction(t, l, s, n, rest) ==
  \/ /\ t \in UserTasks /\ n = 6
     /\ SvcEntry(s, l) /\ s[6] = Code("SVC_RESTORE") /\ l.r0 = Word("result", t, 0)
  \/ /\ t \in UserTasks /\ n = 8
     /\ IrqEntry(s, l) /\ s[8] = Code("EXIT_IRQ")
  \/ /\ t \in KernelTasks /\ n = 1
     /\ s[1] = l.pc /\ rest = l.rest /\ l.r0 = Word("result", t, 0)

(* Task t is switched out: in a kernel function or before its first step.  *)
SwitchedOut(t, l, s) ==
  \/ /\ Len(s) > 3 /\ s[Len(s) - 2] = Code("kernel")
     /\ InFunction(t, l, s, Len(s) - 3, s[Len(s) - 1])
  \/ /\ t \in UserTasks /\ Len(s) = 8
     /\ SvcEntry(s, l) /\ s[6] = Code("SVC_RESTORE") /\ s[8] = l.r0
  \/ /\ t \in KernelTasks /\ Len(s) = 3
     /\ s[1] = l.pc /\ s[2] = l.rest /\ s[3] = l.r0

(* Task t has the processor, whose registers are c.                        *)
InOwnCode(t, c) ==
  /\ Own(c.pc) /\ c.pc[2] = t /\ c.ksp.at = 0
  /\ t \in UserTasks => c.mode = "usr" /\ c.i = 0
  /\ t \notin UserTasks => c.mode = "svc" /\ c.i = 1

(* Back in its own code, it finds what it left.                            *)
AsLeft(t, l, c) ==
  /\ c.pc = l.pc /\ c.rest = l.rest /\ c.r0 = l.r0
  /\ t \in UserTasks => c.sp = l.sp

Masked(c) == c.mode = "svc" /\ c.i = 1

InKernelCode(t, c, l, s) ==
  /\ Masked(c)
  /\ \/ c.pc = Code("kernel") /\ InFunction(t, l, s, c.ksp.at, c.rest)
     \/ /\ c.pc = Code("SVC_RESTORE") /\ t \in UserTasks /\ c.ksp.at = 5
        /\ SvcEntry(s, l) /\ c.r0 = l.r0
     \/ /\ c.pc = Code("EXIT_IRQ") /\ t \in UserTasks /\ c.ksp.at = 7
        /\ IrqEntry(s, l)

(* Where the code is before the null task runs; up to k_rtx_init there are *)
(* no tasks.                                                               *)
Early(c) == c.pc \in {Code("reset"), Code("set_SP_MODE"), Code("main"), Code("SER_Init"),
                      Code("k_rtx_init")}
Late(c) == c.pc \in {Code("interrupt_init"), Code("config_GIC"), Code("config_UART0_irq")}

(* The parts of the invariant.                                             *)
Placed ==
  /\ cpu.ksp.of = cur /\ Len(kstack[cur]) = cpu.ksp.at
  /\ \A t \in Tasks : Own(left[t].pc) /\ left[t].pc[2] = t /\ msp[t].of = t
  /\ \A t \in Tasks \ live : kstack[t] = <<>>

Booting ==
  /\ cur = NullTask /\ cpu.ksp.at = 0
  /\ left[cur] = Registers(cur, 0) /\ cpu.r0 = left[cur].r0 /\ cpu.rest = left[cur].rest
  /\ Early(cpu) => /\ sends = {} /\ live = {}
                   /\ \A t \in Tasks : left[t] = Registers(t, 0)
                   /\ cpu.pc \in {Code("main"), Code("SER_Init"), Code("k_rtx_init")}
                        => cpu.mode = "svc"
  /\ Late(cpu) => cur \in live /\ cpu.mode = "svc"
  /\ cpu.pc = Code("interrupt_init") => sends = {}
  /\ cpu.pc = Code("config_GIC") => sends = {} /\ cpu.i = 1
  /\ cpu.pc = Code("config_UART0_irq") => sends = {"GIC"} /\ cpu.i = 1

Running ==
  /\ sends = Devices /\ cur \in live
  /\ InOwnCode(cur, cpu) \/ InKernelCode(cur, cpu, left[cur], kstack[cur])

OthersReady ==
  \A t \in live \ {cur} : SwitchedOut(t, left[t], kstack[t]) /\ msp[t].at = Len(kstack[t])

Inv ==
  /\ TypeOK /\ Placed /\ OthersReady
  /\ \/ (Early(cpu) \/ Late(cpu)) /\ Booting
     \/ ~Early(cpu) /\ ~Late(cpu) /\ Running

-------------------------------------------------------------------------------
(* Words are told apart by their kinds, and the two kinds of tasks by      *)
(* their sets.                                                             *)
LEMMA KindsDiffer ==
  /\ \A l : ~Own(Code(l))
  /\ \A l, m : Code(l) = Code(m) => l = m
  /\ \A p : Own(p) => \A l : p # Code(l)
BY DEF Own, Code

LEMMA TaskSets ==
  /\ NullTask \in Tasks /\ NullTask \in KernelTasks /\ NullTask \notin UserTasks
  /\ \A t \in Tasks : t \in UserTasks \/ t \in KernelTasks
  /\ \A t \in UserTasks : t \in Tasks /\ t \notin KernelTasks
  /\ \A t \in KernelTasks : t \in Tasks /\ t \notin UserTasks
BY ContextConstants DEF Tasks

LEMMA WordsFacts ==
  /\ \A k \in {"r0", "rest", "lr", "sp", "pc"}, t \in Tasks, v \in Versions \cup {0} :
       Word(k, t, v) \in Words
  /\ \A t \in Tasks : Word("result", t, 0) \in Words
  /\ \A l \in {"kernel", "SVC_RESTORE", "EXIT_IRQ", "LR_SVC", "pad", "reset", "main",
               "set_SP_MODE", "g_stacks", "SER_Init", "k_rtx_init", "interrupt_init",
               "config_GIC", "config_UART0_irq"} : Code(l) \in Words
  /\ \A m \in Modes, i \in {0, 1} : Psr(m, i) \in Words
<1>1. ASSUME NEW k \in {"r0", "rest", "lr", "sp", "pc"}, NEW t \in Tasks,
             NEW v \in Versions \cup {0}
      PROVE  Word(k, t, v) \in Words
  BY DEF Words
<1>2. \A t \in Tasks : Word("result", t, 0) \in Words
  BY DEF Words
<1>3. ASSUME NEW l \in {"kernel", "SVC_RESTORE", "EXIT_IRQ", "LR_SVC", "pad", "reset",
                       "main", "set_SP_MODE", "g_stacks", "SER_Init", "k_rtx_init",
                       "interrupt_init", "config_GIC", "config_UART0_irq"}
      PROVE  Code(l) \in Words
  BY DEF Words
<1>4. ASSUME NEW m \in Modes, NEW i \in {0, 1} PROVE Psr(m, i) \in Words
  BY DEF Words
<1> QED BY <1>1, <1>2, <1>3, <1>4

Registered == [r0 : Words, rest : Words, lr : Words, sp : Words, pc : Words]
Processor == [r0 : Words, rest : Words, lr : Words, sp : Words, pc : Words,
              mode : Modes, i : {0, 1}, ksp : Pointers]

(* What a stack and the registers are made of.                             *)
LEMMA Types ==
  ASSUME TypeOK
  PROVE  /\ cur \in Tasks /\ live \subseteq Tasks
         /\ \A t \in Tasks : kstack[t] \in Seq(Words) /\ Len(kstack[t]) \in Nat
         /\ cpu.ksp \in Pointers /\ cpu.ksp.at \in Nat /\ cpu.ksp.of \in Tasks
         /\ \A t \in Tasks : msp[t] \in Pointers /\ msp[t].at \in Nat
         /\ cpu.r0 \in Words /\ cpu.rest \in Words /\ cpu.lr \in Words
         /\ cpu.sp \in Words /\ cpu.pc \in Words /\ cpu.mode \in Modes /\ cpu.i \in {0, 1}
<1>1. /\ cur \in Tasks /\ live \subseteq Tasks
      /\ \A t \in Tasks : kstack[t] \in Seq(Words) /\ msp[t] \in Pointers
      /\ cpu.ksp \in Pointers
      /\ cpu.r0 \in Words /\ cpu.rest \in Words /\ cpu.lr \in Words
      /\ cpu.sp \in Words /\ cpu.pc \in Words /\ cpu.mode \in Modes /\ cpu.i \in {0, 1}
  BY DEF TypeOK
<1>2. \A t \in Tasks : Len(kstack[t]) \in Nat
  BY <1>1, LenProperties
<1>3. \A p \in Pointers : p.at \in Nat /\ p.of \in Tasks
  BY DEF Pointers, Deepest
<1> QED BY <1>1, <1>2, <1>3

LEMMA StackFacts ==
  ASSUME TypeOK, Placed
  PROVE  /\ stack = kstack[cur] /\ stack \in Seq(Words) /\ Len(stack) = cpu.ksp.at
<1>1. /\ cpu.ksp.of = cur /\ Len(kstack[cur]) = cpu.ksp.at
      /\ kstack[cur] \in Seq(Words)
  BY Types DEF Placed
<1>2. SubSeq(kstack[cur], 1, Len(kstack[cur])) = kstack[cur]
  BY <1>1, SubSeqFull
<1>3. stack = kstack[cur]
  BY <1>1, <1>2, Zenon DEF stack
<1> QED BY <1>1, <1>3

LEMMA RegistersFacts ==
  ASSUME NEW t \in Tasks, NEW v \in Versions \cup {0}
  PROVE  /\ Registers(t, v) \in Registered
         /\ Own(Registers(t, v).pc) /\ Registers(t, v).pc[2] = t
<1>1. Registers(t, v) \in Registered
  BY WordsFacts DEF Registers, Registered
<1>2. Registers(t, v).pc = <<"pc", t, v>>
  BY DEF Registers, Word
<1> QED BY <1>1, <1>2 DEF Own

(* How deep a stack is.                                                    *)
LEMMA Depths ==
  ASSUME NEW t, NEW l, NEW s
  PROVE  /\ \A n, rest : InFunction(t, l, s, n, rest) => n \in {1, 6, 8}
         /\ \A c : InOwnCode(t, c) => c.ksp.at = 0
         /\ \A c : InKernelCode(t, c, l, s) => c.ksp.at \in {1, 5, 6, 7, 8}
<1>1. \A n, rest : InFunction(t, l, s, n, rest) => n \in {1, 6, 8}
  BY DEF InFunction
<1> QED BY <1>1 DEF InOwnCode, InKernelCode

LEMMA SwitchedOutDepth ==
  ASSUME NEW t, NEW l, NEW s, Len(s) \in Nat, SwitchedOut(t, l, s)
  PROVE  Len(s) \in {3, 4, 8, 9, 11}
<1>1. InFunction(t, l, s, Len(s) - 3, s[Len(s) - 1]) => Len(s) - 3 \in {1, 6, 8}
  BY Depths
<1> QED BY <1>1 DEF SwitchedOut

(* InFunction is about the first n words only.                             *)
LEMMA SamePrefix ==
  ASSUME NEW t, NEW l, NEW s, NEW r, NEW n \in Nat, NEW rest,
         \A j \in 1 .. n : r[j] = s[j], InFunction(t, l, s, n, rest)
  PROVE  InFunction(t, l, r, n, rest)
<1>1. CASE n = 6
  <2>1. r[1] = s[1] /\ r[2] = s[2] /\ r[3] = s[3] /\ r[4] = s[4] /\ r[6] = s[6]
    BY <1>1
  <2> QED BY <1>1, <2>1 DEF InFunction, SvcEntry
<1>2. CASE n = 8
  <2>1. r[1] = s[1] /\ r[2] = s[2] /\ r[4] = s[4] /\ r[5] = s[5] /\ r[7] = s[7] /\ r[8] = s[8]
    BY <1>2
  <2> QED BY <1>2, <2>1 DEF InFunction, IrqEntry
<1>3. CASE n = 1
  <2>1. r[1] = s[1]
    BY <1>3
  <2> QED BY <1>3, <2>1 DEF InFunction
<1> QED BY <1>1, <1>2, <1>3, Depths

-------------------------------------------------------------------------------
(* A step of the current task that moves words on its own stack only: what *)
(* it leaves must again be one of the positions.                           *)
Phase == ~Early(cpu) /\ ~Late(cpu) /\ Running

LEMMA PositionIsNotBoot ==
  ASSUME NEW t, NEW c, NEW l, NEW s, InOwnCode(t, c) \/ InKernelCode(t, c, l, s)
  PROVE  ~Early(c) /\ ~Late(c)
<1>1. CASE InOwnCode(t, c)
  BY <1>1, KindsDiffer DEF InOwnCode, Early, Late
<1>2. CASE InKernelCode(t, c, l, s)
  <2>1. c.pc \in {Code("kernel"), Code("SVC_RESTORE"), Code("EXIT_IRQ")}
    BY <1>2 DEF InKernelCode
  <2> QED BY <2>1 DEF Early, Late, Code
<1> QED BY <1>1, <1>2

LEMMA CurrentStep ==
  ASSUME TypeOK, Placed, OthersReady, Phase,
         NEW s \in Seq(Words), UNCHANGED <<sends, cur, live, msp>>,
         kstack' = [kstack EXCEPT ![cur] = s],
         cpu' \in Processor, cpu'.ksp.of = cur, cpu'.ksp.at = Len(s),
         left' \in [Tasks -> Registered], \A t \in Tasks \ {cur} : left'[t] = left[t],
         Own(left'[cur].pc), left'[cur].pc[2] = cur,
         InOwnCode(cur, cpu') \/ InKernelCode(cur, cpu', left'[cur], s)
  PROVE  Inv'
<1>1. /\ cur \in Tasks /\ live \subseteq Tasks /\ kstack \in [Tasks -> Seq(Words)]
      /\ kstack'[cur] = s /\ \A t \in Tasks \ {cur} : kstack'[t] = kstack[t]
      /\ cur \in live
  BY DEF TypeOK, Phase, Running
<1>2. Len(s) <= Deepest
  <2> DEFINE n == cpu'.ksp.at
  <2>1. CASE InOwnCode(cur, cpu')
    <3>1. cpu'.ksp.at = 0
      BY <2>1 DEF InOwnCode
    <3> QED BY <3>1 DEF Deepest
  <2>2. CASE InKernelCode(cur, cpu', left'[cur], s)
    <3>1. n \in {1, 5, 6, 7, 8}
      BY <2>2, Depths
    <3> HIDE DEF n
    <3>2. n <= 11
      BY <3>1
    <3> QED BY <3>2 DEF n, Deepest
  <2> QED BY <2>1, <2>2
<1>3. TypeOK'
  <2>1. kstack' \in [Tasks -> Seq(Words)]
    BY <1>1
  <2>2. \A t \in Tasks : Len(kstack'[t]) <= Deepest
    BY <1>1, <1>2 DEF TypeOK
  <2> QED BY <2>1, <2>2 DEF TypeOK, Processor, Registered
<1>4. Placed'
  BY <1>1 DEF Placed
<1>5. OthersReady'
  BY <1>1 DEF OthersReady
<1>6. Running'
  BY <1>1 DEF Phase, Running
<1>7. ~Early(cpu)' /\ ~Late(cpu)'
  <2>1. ~Early(cpu') /\ ~Late(cpu')
    BY PositionIsNotBoot
  <2> QED BY <2>1 DEF Early, Late
<1> QED BY <1>3, <1>4, <1>5, <1>6, <1>7 DEF Inv

-------------------------------------------------------------------------------
(* The steps of a task in its own code, and its ways into the kernel.      *)
LEMMA AtOwnCode ==
  ASSUME Inv, Own(cpu.pc)
  PROVE  /\ TypeOK /\ Placed /\ OthersReady /\ Phase
         /\ InOwnCode(cur, cpu)
         /\ cur \in Tasks /\ stack = kstack[cur] /\ Len(stack) = 0
         /\ stack \in Seq(Words) /\ cpu \in Processor /\ cpu.ksp.of = cur
         /\ left \in [Tasks -> Registered]
         /\ left[cur] \in Registered /\ Own(left[cur].pc) /\ left[cur].pc[2] = cur
<1>1. ~Early(cpu) /\ ~Late(cpu)
  BY KindsDiffer DEF Early, Late
<1>2. TypeOK /\ Placed /\ OthersReady /\ Phase
  BY <1>1 DEF Inv, Phase
<1>3. InOwnCode(cur, cpu)
  BY <1>2, KindsDiffer DEF Phase, Running, InKernelCode
<1>4. stack = kstack[cur] /\ Len(stack) = 0 /\ stack \in Seq(Words)
  BY <1>2, <1>3, StackFacts DEF InOwnCode
<1>5. /\ cur \in Tasks /\ cpu \in Processor /\ left \in [Tasks -> Registered]
      /\ cpu.ksp.of = cur
  BY <1>2 DEF TypeOK, Processor, Registered, Placed
<1>6. left[cur] \in Registered /\ Own(left[cur].pc) /\ left[cur].pc[2] = cur
  BY <1>2, <1>5 DEF Placed
<1> QED BY <1>1, <1>2, <1>3, <1>4, <1>5, <1>6

LEMMA WorksStep ==
  ASSUME Inv, NEW v \in Versions, Works(v)
  PROVE  Inv'
<1>1. Own(cpu.pc)
  BY DEF Works
<1> DEFINE r == Registers(cur, v)
<1>2. r \in Registered /\ Own(r.pc) /\ r.pc[2] = cur
  BY <1>1, AtOwnCode, RegistersFacts
<1> HIDE DEF r
<1>3. /\ cpu'.ksp = cpu.ksp /\ cpu'.mode = cpu.mode /\ cpu'.i = cpu.i
      /\ cpu'.pc = r.pc /\ cpu' \in Processor
  <2>1. CASE cpu.mode = "usr"
    <3>1. cpu' = [cpu EXCEPT !.r0 = r.r0, !.rest = r.rest, !.lr = r.lr,
                             !.sp = r.sp, !.pc = r.pc]
      BY <2>1 DEF Works, r
    <3> QED BY <1>1, <1>2, <3>1, AtOwnCode DEF Processor, Registered
  <2>2. CASE cpu.mode # "usr"
    <3>1. cpu' = [cpu EXCEPT !.r0 = r.r0, !.rest = r.rest, !.pc = r.pc]
      BY <2>2 DEF Works, r
    <3> QED BY <1>1, <1>2, <3>1, AtOwnCode DEF Processor, Registered
  <2> QED BY <2>1, <2>2
<1>4. InOwnCode(cur, cpu')
  BY <1>1, <1>2, <1>3, AtOwnCode DEF InOwnCode
<1>5. UNCHANGED <<sends, cur, live, kstack, msp, left>>
  BY DEF Works
<1>6. kstack' = [kstack EXCEPT ![cur] = kstack[cur]]
  BY <1>1, <1>5, AtOwnCode DEF TypeOK
<1>7. /\ kstack[cur] \in Seq(Words) /\ cpu'.ksp.of = cur /\ cpu'.ksp.at = Len(kstack[cur])
  BY <1>1, <1>3, AtOwnCode DEF InOwnCode
<1>8. left' \in [Tasks -> Registered] /\ left' = left
  BY <1>1, <1>5, AtOwnCode
<1> QED BY <1>1, <1>3, <1>4, <1>5, <1>6, <1>7, <1>8, AtOwnCode, CurrentStep

(* What Leaves records.                                                    *)
LEMMA LeavesFacts ==
  ASSUME Inv, Own(cpu.pc), NEW r0 \in Words, Leaves(r0)
  PROVE  /\ left' \in [Tasks -> Registered]
         /\ \A t \in Tasks \ {cur} : left'[t] = left[t]
         /\ Own(left'[cur].pc) /\ left'[cur].pc[2] = cur
         /\ left'[cur] = [r0 |-> r0, rest |-> cpu.rest, lr |-> cpu.lr,
                          sp |-> cpu.sp, pc |-> cpu.pc]
<1> DEFINE l == [r0 |-> r0, rest |-> cpu.rest, lr |-> cpu.lr, sp |-> cpu.sp, pc |-> cpu.pc]
<1>1. l \in Registered
  BY AtOwnCode DEF Processor, Registered
<1>2. left' = [left EXCEPT ![cur] = l]
  BY DEF Leaves
<1>3. l.pc = cpu.pc /\ Own(cpu.pc) /\ cpu.pc[2] = cur
  BY AtOwnCode DEF InOwnCode
<1> HIDE DEF l
<1>4. left' \in [Tasks -> Registered] /\ left'[cur] = l
      /\ \A t \in Tasks \ {cur} : left'[t] = left[t]
  BY <1>1, <1>2, AtOwnCode
<1> QED BY <1>3, <1>4 DEF l

(* The stack pointer after words were stored, and after they were taken.   *)
LEMMA SpFacts ==
  ASSUME Inv, Own(cpu.pc), NEW s \in Seq(Words), Len(s) \in {1, 6, 8}
  PROVE  At(s).of = cur /\ At(s).at = Len(s) /\ At(s) \in Pointers
<1>1. cpu.ksp \in Pointers /\ cpu.ksp.of = cur
  BY AtOwnCode DEF Processor
<1> DEFINE n == Len(s)
<1>2. At(s) = [cpu.ksp EXCEPT !.at = n]
  BY DEF At
<1> HIDE DEF n
<1>3. n \in 0 .. Deepest
  <2>1. n \in {1, 6, 8}
    BY DEF n
  <2> QED BY <2>1 DEF Deepest
<1>4. At(s).of = cur /\ At(s).at = n /\ At(s) \in Pointers
  BY <1>1, <1>2, <1>3 DEF Pointers
<1> QED BY <1>4 DEF n

(* What an entry into the kernel stores on an empty stack: the registers q *)
(* and a return address w.                                                 *)
IsEntry(u, q, w) ==
  /\ u \in Seq(Words) /\ Len(u) = Len(q) + 1
  /\ \A j \in 1 .. Len(q) : u[j] = q[j]
  /\ u[Len(q) + 1] = w

LEMMA EntryFacts ==
  ASSUME NEW e \in Seq(Words), Len(e) = 0, NEW q \in Seq(Words), NEW w \in Words
  PROVE  IsEntry(e \o q \o <<w>>, q, w)
<1> DEFINE o == <<w>>
           u == q \o o
<1>1. e \o q = q
  BY EmptySeq, ConcatEmptySeq
<1>2. o \in Seq(Words) /\ Len(o) = 1 /\ o[1] = w
  OBVIOUS
<1> HIDE DEF o
<1>3. /\ u \in Seq(Words) /\ Len(u) = Len(q) + Len(o)
      /\ \A j \in 1 .. Len(q) : u[j] = q[j]
      /\ \A j \in 1 .. Len(o) : u[Len(q) + j] = o[j]
  <2>1. o \in Seq(Words) /\ q \in Seq(Words)
    BY <1>2
  <2> QED BY <2>1, ConcatFacts
<1> HIDE DEF u
<1>4. IsEntry(u, q, w)
  BY <1>2, <1>3 DEF IsEntry
<1> QED BY <1>1, <1>4, Zenon DEF u, o

LEMMA SvcStep ==
  ASSUME Inv, Svc
  PROVE  Inv'
<1> DEFINE s == stack \o SvcSaved \o <<Code("SVC_RESTORE")>>
<1>1. Own(cpu.pc) /\ cpu.mode = "usr"
  BY DEF Svc, InUser
<1>2. cur \in UserTasks /\ cpu.i = 0 /\ CPSR = INIT_CPSR_USER
  BY <1>1, AtOwnCode DEF InOwnCode, CPSR, INIT_CPSR_USER
<1>3. /\ SvcSaved \in Seq(Words) /\ Len(SvcSaved) = 5
      /\ SvcSaved[1] = INIT_CPSR_USER /\ SvcSaved[2] = cpu.pc /\ SvcSaved[3] = cpu.sp
      /\ SvcSaved[4] = cpu.rest
  <2>1. /\ INIT_CPSR_USER \in Words
        /\ cpu.pc \in Words /\ cpu.sp \in Words /\ cpu.rest \in Words /\ cpu.r0 \in Words
    BY <1>1, AtOwnCode, WordsFacts DEF Processor, INIT_CPSR_USER, Modes
  <2>2. SvcSaved = <<INIT_CPSR_USER, cpu.pc, cpu.sp, cpu.rest, cpu.r0>>
    BY <1>2 DEF SvcSaved
  <2> QED BY <2>1, <2>2
<1>6. /\ s \in Seq(Words) /\ Len(s) = 6
      /\ s[1] = INIT_CPSR_USER /\ s[2] = cpu.pc /\ s[3] = cpu.sp /\ s[4] = cpu.rest
      /\ s[6] = Code("SVC_RESTORE")
  <2>1. IsEntry(s, SvcSaved, Code("SVC_RESTORE"))
    <3>1. stack \in Seq(Words) /\ Len(stack) = 0 /\ Code("SVC_RESTORE") \in Words
      BY <1>1, AtOwnCode, WordsFacts
    <3>2. SvcSaved \in Seq(Words)
      BY <1>3
    <3> QED BY <3>1, <3>2, EntryFacts, Zenon
  <2> HIDE DEF s
  <2> QED BY <1>3, <2>1 DEF IsEntry
<1>7. /\ kstack' = [kstack EXCEPT ![cur] = s]
      /\ cpu' = [cpu EXCEPT !.mode = "svc", !.i = 1, !.pc = Code("kernel"), !.ksp = At(s)]
      /\ Leaves(Result)
      /\ UNCHANGED <<sends, cur, live, msp>>
  BY <1>1, AtOwnCode DEF Svc, Stacked
<1> HIDE DEF s
<1>8. At(s) \in Pointers /\ At(s).of = cur /\ At(s).at = Len(s)
  <2>1. s \in Seq(Words) /\ Len(s) \in {1, 6, 8}
    BY <1>6
  <2> QED BY <1>1, <2>1, SpFacts, Zenon
<1>9. cpu' \in Processor /\ cpu'.ksp = At(s) /\ cpu'.pc = Code("kernel") /\ Masked(cpu')
  BY <1>1, <1>7, <1>8, AtOwnCode, WordsFacts DEF Processor, Modes, Masked
<1>10. Result \in Words /\ Result = Word("result", cur, 0)
  BY <1>1, AtOwnCode, WordsFacts DEF Result
<1>11. /\ left' \in [Tasks -> Registered] /\ \A t \in Tasks \ {cur} : left'[t] = left[t]
       /\ Own(left'[cur].pc) /\ left'[cur].pc[2] = cur
       /\ left'[cur] = [r0 |-> Result, rest |-> cpu.rest, lr |-> cpu.lr,
                        sp |-> cpu.sp, pc |-> cpu.pc]
  BY <1>1, <1>7, <1>10, LeavesFacts
<1>12. InFunction(cur, left'[cur], s, 6, cpu'.rest)
  BY <1>2, <1>6, <1>10, <1>11 DEF InFunction, SvcEntry
<1>13. InKernelCode(cur, cpu', left'[cur], s)
  BY <1>6, <1>8, <1>9, <1>12 DEF InKernelCode
<1> QED BY <1>1, <1>6, <1>7, <1>8, <1>9, <1>11, <1>13, AtOwnCode, CurrentStep

LEMMA IrqStep ==
  ASSUME Inv, Own(cpu.pc), Irq
  PROVE  Inv'
<1> DEFINE s == stack \o IrqSaved \o <<Code("EXIT_IRQ")>>
<1>2. cur \in UserTasks /\ cpu.i = 0 /\ CPSR = INIT_CPSR_USER
  BY AtOwnCode DEF InOwnCode, CPSR, INIT_CPSR_USER, Irq, IrqSent
<1>3. /\ IrqSaved \in Seq(Words) /\ Len(IrqSaved) = 7
      /\ IrqSaved[1] = INIT_CPSR_USER /\ IrqSaved[2] = cpu.pc /\ IrqSaved[4] = cpu.rest
      /\ IrqSaved[5] = cpu.r0 /\ IrqSaved[7] = cpu.sp
  <2>1. /\ INIT_CPSR_USER \in Words /\ Code("LR_SVC") \in Words /\ Code("pad") \in Words
        /\ cpu.pc \in Words /\ cpu.sp \in Words /\ cpu.rest \in Words /\ cpu.r0 \in Words
    BY AtOwnCode, WordsFacts DEF Processor, INIT_CPSR_USER, Modes
  <2>2. IrqSaved = <<INIT_CPSR_USER, cpu.pc, Code("LR_SVC"), cpu.rest, cpu.r0, Code("pad"),
                     cpu.sp>>
    BY <1>2 DEF IrqSaved
  <2> QED BY <2>1, <2>2
<1>6. /\ s \in Seq(Words) /\ Len(s) = 8
      /\ s[1] = INIT_CPSR_USER /\ s[2] = cpu.pc /\ s[4] = cpu.rest /\ s[5] = cpu.r0
      /\ s[7] = cpu.sp /\ s[8] = Code("EXIT_IRQ")
  <2>1. IsEntry(s, IrqSaved, Code("EXIT_IRQ"))
    <3>1. stack \in Seq(Words) /\ Len(stack) = 0 /\ Code("EXIT_IRQ") \in Words
      BY AtOwnCode, WordsFacts
    <3>2. IrqSaved \in Seq(Words)
      BY <1>3
    <3> QED BY <3>1, <3>2, EntryFacts, Zenon
  <2> HIDE DEF s
  <2> QED BY <1>3, <2>1 DEF IsEntry
<1>7. /\ kstack' = [kstack EXCEPT ![cur] = s]
      /\ cpu' = [cpu EXCEPT !.mode = "svc", !.i = 1, !.pc = Code("kernel"), !.ksp = At(s)]
      /\ Leaves(cpu.r0)
      /\ UNCHANGED <<sends, cur, live, msp>>
  BY AtOwnCode DEF Irq, Stacked
<1> HIDE DEF s
<1>8. At(s) \in Pointers /\ At(s).of = cur /\ At(s).at = Len(s)
  <2>1. s \in Seq(Words) /\ Len(s) \in {1, 6, 8}
    BY <1>6
  <2> QED BY <2>1, SpFacts, Zenon
<1>9. cpu' \in Processor /\ cpu'.ksp = At(s) /\ cpu'.pc = Code("kernel") /\ Masked(cpu')
  BY <1>7, <1>8, AtOwnCode, WordsFacts DEF Processor, Modes, Masked
<1>10. cpu.r0 \in Words
  BY AtOwnCode DEF Processor
<1>11. /\ left' \in [Tasks -> Registered] /\ \A t \in Tasks \ {cur} : left'[t] = left[t]
       /\ Own(left'[cur].pc) /\ left'[cur].pc[2] = cur
       /\ left'[cur] = [r0 |-> cpu.r0, rest |-> cpu.rest, lr |-> cpu.lr,
                        sp |-> cpu.sp, pc |-> cpu.pc]
  BY <1>7, <1>10, LeavesFacts
<1>12. InFunction(cur, left'[cur], s, 8, cpu'.rest)
  BY <1>2, <1>6, <1>11 DEF InFunction, IrqEntry
<1>13. InKernelCode(cur, cpu', left'[cur], s)
  BY <1>6, <1>8, <1>9, <1>12 DEF InKernelCode
<1> QED BY <1>6, <1>7, <1>8, <1>9, <1>11, <1>13, AtOwnCode, CurrentStep

LEMMA CallStep ==
  ASSUME Inv, Call
  PROVE  Inv'
<1> DEFINE s == Append(stack, cpu.pc)
<1>1. Own(cpu.pc) /\ cpu.mode = "svc"
  BY DEF Call
<1>2. cur \in KernelTasks /\ cpu.i = 1
  BY <1>1, AtOwnCode, TaskSets DEF InOwnCode
<1>3. s \in Seq(Words) /\ Len(s) = 1 /\ s[1] = cpu.pc
  <2>1. stack \in Seq(Words) /\ Len(stack) = 0 /\ cpu.pc \in Words
    BY <1>1, AtOwnCode DEF Processor
  <2>2. s \in Seq(Words) /\ Len(s) = 0 + 1 /\ s[0 + 1] = cpu.pc
    BY <2>1, AppendProperties
  <2> QED BY <2>2
<1>7. /\ kstack' = [kstack EXCEPT ![cur] = s]
      /\ cpu' = [cpu EXCEPT !.pc = Code("kernel"), !.ksp = At(s)]
      /\ Leaves(Result)
      /\ UNCHANGED <<sends, cur, live, msp>>
  BY <1>1, AtOwnCode DEF Call, Stacked
<1> HIDE DEF s
<1>8. At(s) \in Pointers /\ At(s).of = cur /\ At(s).at = Len(s)
  <2>1. s \in Seq(Words) /\ Len(s) \in {1, 6, 8}
    BY <1>3
  <2> QED BY <1>1, <2>1, SpFacts, Zenon
<1>9. /\ cpu' \in Processor /\ cpu'.ksp = At(s) /\ cpu'.pc = Code("kernel") /\ Masked(cpu')
      /\ cpu'.rest = cpu.rest
  BY <1>1, <1>2, <1>7, <1>8, AtOwnCode, WordsFacts DEF Processor, Modes, Masked
<1>10. Result \in Words /\ Result = Word("result", cur, 0)
  BY <1>1, AtOwnCode, WordsFacts DEF Result
<1>11. /\ left' \in [Tasks -> Registered] /\ \A t \in Tasks \ {cur} : left'[t] = left[t]
       /\ Own(left'[cur].pc) /\ left'[cur].pc[2] = cur
       /\ left'[cur] = [r0 |-> Result, rest |-> cpu.rest, lr |-> cpu.lr,
                        sp |-> cpu.sp, pc |-> cpu.pc]
  BY <1>1, <1>7, <1>10, LeavesFacts
<1>12. InFunction(cur, left'[cur], s, 1, cpu'.rest)
  BY <1>2, <1>3, <1>9, <1>10, <1>11 DEF InFunction
<1>13. InKernelCode(cur, cpu', left'[cur], s)
  BY <1>3, <1>8, <1>9, <1>12 DEF InKernelCode
<1> QED BY <1>1, <1>3, <1>7, <1>8, <1>9, <1>11, <1>13, AtOwnCode, CurrentStep

-------------------------------------------------------------------------------
(* The steps in the kernel.                                                *)
LEMMA AtKernel ==
  ASSUME Inv, cpu.pc \in {Code("kernel"), Code("SVC_RESTORE"), Code("EXIT_IRQ")}
  PROVE  /\ TypeOK /\ Placed /\ OthersReady /\ Phase
         /\ InKernelCode(cur, cpu, left[cur], stack)
         /\ cur \in Tasks /\ cur \in live
         /\ stack = kstack[cur] /\ stack \in Seq(Words) /\ Len(stack) = cpu.ksp.at
         /\ cpu \in Processor /\ cpu.ksp.of = cur /\ cpu.ksp.at \in Nat
         /\ left \in [Tasks -> Registered]
         /\ left[cur] \in Registered /\ Own(left[cur].pc) /\ left[cur].pc[2] = cur
<1>1. ~Early(cpu) /\ ~Late(cpu) /\ ~Own(cpu.pc)
  BY KindsDiffer DEF Early, Late, Code, Own
<1>2. TypeOK /\ Placed /\ OthersReady /\ Phase
  BY <1>1 DEF Inv, Phase
<1>3. stack = kstack[cur] /\ stack \in Seq(Words) /\ Len(stack) = cpu.ksp.at
  BY <1>2, StackFacts
<1>4. InKernelCode(cur, cpu, left[cur], kstack[cur]) /\ cur \in live
  BY <1>1, <1>2 DEF Phase, Running, InOwnCode
<1>5. /\ cur \in Tasks /\ cpu \in Processor /\ left \in [Tasks -> Registered]
      /\ cpu.ksp.of = cur
  BY <1>2 DEF TypeOK, Processor, Registered, Placed
<1>6. left[cur] \in Registered /\ Own(left[cur].pc) /\ left[cur].pc[2] = cur
  BY <1>2, <1>5 DEF Placed
<1>7. cpu.ksp.at \in Nat
  BY <1>2, Types
<1> QED BY <1>1, <1>2, <1>3, <1>4, <1>5, <1>6, <1>7

(* The words that are left when the last k are taken.                      *)
LEMMA TakenOff ==
  ASSUME NEW s \in Seq(Words), NEW n \in Nat, NEW k \in 0 .. n, Len(s) = n
  PROVE  /\ SubSeq(s, 1, n - k) \in Seq(Words)
         /\ Len(SubSeq(s, 1, n - k)) = n - k
         /\ \A j \in 1 .. n - k : SubSeq(s, 1, n - k)[j] = s[j]
<1>1. n - k \in 0 .. Len(s)
  OBVIOUS
<1> QED BY <1>1, PrefixFacts

(* The last word of each frame, and what becomes of the stack pointer.     *)
LEMMA PointerMoves ==
  ASSUME NEW p \in Pointers, NEW a \in 0 .. p.at
  PROVE  [p EXCEPT !.at = a] \in Pointers
BY DEF Pointers, Deepest

LEMMA ReturnStep ==
  ASSUME Inv, Return
  PROVE  Inv' /\ (Own(cpu'.pc) => AsLeft(cur', left[cur'], cpu'))
<1> DEFINE n == cpu.ksp.at
           r == Popped(1)
           l == left[cur]
<1>1. cpu.pc = Code("kernel")
  BY DEF Return, InKernel
<1>2. InFunction(cur, l, stack, n, cpu.rest) /\ Masked(cpu)
  BY <1>1, AtKernel, KindsDiffer DEF InKernelCode
<1>3. n \in {1, 6, 8} /\ Len(stack) = n
  BY <1>1, <1>2, Depths, AtKernel
<1>4. r = SubSeq(stack, 1, n - 1)
  BY <1>3 DEF Popped
<1> HIDE DEF n, r
<1>5. /\ r \in Seq(Words) /\ Len(r) = n - 1
      /\ \A j \in 1 .. n - 1 : r[j] = stack[j]
  <2>1. n \in Nat /\ 1 \in 0 .. n
    BY <1>3
  <2> QED BY <1>1, <1>3, <1>4, <2>1, AtKernel, TakenOff
<1>6. /\ cpu' = [cpu EXCEPT !.r0 = Result, !.pc = stack[n],
                            !.ksp = [cpu.ksp EXCEPT !.at = n - 1]]
      /\ kstack' = [kstack EXCEPT ![cur] = r]
      /\ UNCHANGED <<sends, cur, live, msp, left>>
  BY <1>1, <1>3, AtKernel DEF Return, Stacked, n, r
<1>7. [cpu.ksp EXCEPT !.at = n - 1] \in Pointers
  <2>1. cpu.ksp \in Pointers /\ n - 1 \in 0 .. cpu.ksp.at
    BY <1>1, <1>3, AtKernel DEF Processor, n
  <2> QED BY <2>1, PointerMoves
<1>8. Result \in Words /\ Result = Word("result", cur, 0) /\ stack[n] \in Words
  <2>1. Result \in Words /\ Result = Word("result", cur, 0)
    BY <1>1, AtKernel, WordsFacts DEF Result
  <2>2. stack \in Seq(Words) /\ n \in 1 .. Len(stack)
    BY <1>1, <1>3, AtKernel
  <2> QED BY <2>1, <2>2, ElementOfSeq
<1>9. /\ cpu' \in Processor /\ cpu'.ksp.of = cur /\ cpu'.ksp.at = n - 1
      /\ cpu'.r0 = Result /\ cpu'.pc = stack[n] /\ cpu'.mode = cpu.mode /\ cpu'.i = cpu.i
      /\ cpu'.rest = cpu.rest
  <2>1. cpu \in Processor /\ cpu.ksp.of = cur
    BY <1>1, AtKernel
  <2>2. cpu.ksp \in [of : Tasks, at : 0 .. Deepest]
    BY <2>1 DEF Processor, Pointers
  <2> QED BY <1>6, <1>7, <1>8, <2>1, <2>2 DEF Processor
<1>10. /\ InOwnCode(cur, cpu') \/ InKernelCode(cur, cpu', l, r)
       /\ Own(cpu'.pc) => AsLeft(cur, l, cpu')
  <2>1. CASE n = 6
    <3>1. /\ cur \in UserTasks /\ SvcEntry(stack, l) /\ stack[6] = Code("SVC_RESTORE")
          /\ l.r0 = Word("result", cur, 0)
      BY <1>2, <2>1 DEF InFunction
    <3>2. r[1] = stack[1] /\ r[2] = stack[2] /\ r[3] = stack[3] /\ r[4] = stack[4]
      BY <1>5, <2>1
    <3> QED BY <1>2, <1>8, <1>9, <2>1, <3>1, <3>2, KindsDiffer
           DEF InKernelCode, SvcEntry, Masked
  <2>2. CASE n = 8
    <3>1. cur \in UserTasks /\ IrqEntry(stack, l) /\ stack[8] = Code("EXIT_IRQ")
      BY <1>2, <2>2 DEF InFunction
    <3>2. r[1] = stack[1] /\ r[2] = stack[2] /\ r[4] = stack[4] /\ r[5] = stack[5]
          /\ r[7] = stack[7]
      BY <1>5, <2>2
    <3> QED BY <1>2, <1>8, <1>9, <2>2, <3>1, <3>2, KindsDiffer
           DEF InKernelCode, IrqEntry, Masked
  <2>3. CASE n = 1
    <3>1. /\ cur \in KernelTasks /\ stack[1] = l.pc /\ cpu.rest = l.rest
          /\ l.r0 = Word("result", cur, 0)
      BY <1>2, <2>3 DEF InFunction
    <3>2. InOwnCode(cur, cpu')
      BY <1>1, <1>2, <1>9, <2>3, <3>1, AtKernel, TaskSets DEF InOwnCode, Masked
    <3>3. AsLeft(cur, l, cpu')
      BY <1>8, <1>9, <2>3, <3>1, TaskSets DEF AsLeft
    <3> QED BY <3>2, <3>3
  <2> QED BY <1>3, <2>1, <2>2, <2>3
<1>11. left' = left /\ cur' = cur /\ \A t \in Tasks \ {cur} : left'[t] = left[t]
  BY <1>6
<1>12. Inv'
  BY <1>1, <1>5, <1>6, <1>9, <1>10, <1>11, AtKernel, CurrentStep
<1> QED BY <1>10, <1>11, <1>12

LEMMA UserPsr == INIT_CPSR_USER[2] = "usr" /\ INIT_CPSR_USER[3] = 0
BY DEF INIT_CPSR_USER, Psr

LEMMA SvcRestoreStep ==
  ASSUME Inv, SVC_RESTORE
  PROVE  Inv' /\ AsLeft(cur', left[cur'], cpu')
<1> DEFINE l == left[cur]
           r == Popped(5)
<1>1. cpu.pc = Code("SVC_RESTORE")
  BY DEF SVC_RESTORE
<1>2. /\ cur \in UserTasks /\ SvcEntry(stack, l) /\ cpu.r0 = l.r0
      /\ cpu.ksp.at = 5 /\ Len(stack) = 5
  BY <1>1, AtKernel, KindsDiffer DEF InKernelCode
<1>3. r \in Seq(Words) /\ Len(r) = 0
  <2>1. stack \in Seq(Words) /\ 0 \in 0 .. Len(stack) /\ r = SubSeq(stack, 1, 0)
    BY <1>1, <1>2, AtKernel DEF Popped
  <2> HIDE DEF r
  <2> QED BY <2>1, PrefixFacts
<1> HIDE DEF r
<1>4. /\ cpu' = [cpu EXCEPT !.r0 = cpu.r0, !.rest = stack[4], !.sp = stack[3],
                            !.pc = stack[2], !.mode = stack[1][2], !.i = stack[1][3],
                            !.ksp = [cpu.ksp EXCEPT !.at = 0]]
      /\ kstack' = [kstack EXCEPT ![cur] = r]
      /\ UNCHANGED <<sends, cur, live, msp, left>>
  <2>1. /\ Len(stack) - 1 = 4 /\ Len(stack) - 2 = 3 /\ Len(stack) - 3 = 2
        /\ Len(stack) - 4 = 1 /\ Len(stack) - 5 = 0
    BY <1>2
  <2>2. cpu' = [cpu EXCEPT !.r0 = cpu.r0, !.rest = stack[Len(stack) - 1],
                           !.sp = stack[Len(stack) - 2], !.pc = stack[Len(stack) - 3],
                           !.mode = stack[Len(stack) - 4][2], !.i = stack[Len(stack) - 4][3],
                           !.ksp.at = Len(stack) - 5]
    BY Zenon DEF SVC_RESTORE, SvcReturnValue
  <2>3. Stacked(r) /\ UNCHANGED <<sends, cur, live, msp, left>>
    BY DEF SVC_RESTORE, r
  <2>4. cpu.ksp.of = cur
    BY <1>1, AtKernel
  <2> QED BY <2>1, <2>2, <2>3, <2>4 DEF Stacked
<1>5. [cpu.ksp EXCEPT !.at = 0] \in Pointers
  <2>1. cpu.ksp \in Pointers /\ 0 \in 0 .. cpu.ksp.at
    BY <1>1, <1>2, AtKernel DEF Processor
  <2> QED BY <2>1, PointerMoves
<1>6. /\ stack[1] = INIT_CPSR_USER /\ stack[2] = l.pc /\ stack[3] = l.sp /\ stack[4] = l.rest
      /\ l.pc \in Words /\ l.sp \in Words /\ l.rest \in Words
      /\ stack[1][2] = "usr" /\ stack[1][3] = 0
  BY <1>1, <1>2, UserPsr, AtKernel DEF SvcEntry, Registered
<1>7. /\ cpu' \in Processor /\ cpu'.ksp.of = cur /\ cpu'.ksp.at = 0
      /\ cpu'.pc = l.pc /\ cpu'.mode = "usr" /\ cpu'.i = 0 /\ AsLeft(cur, l, cpu')
  <2>1. cpu \in Processor /\ cpu.ksp.of = cur /\ cpu.ksp \in [of : Tasks, at : 0 .. Deepest]
    BY <1>1, AtKernel DEF Processor, Pointers
  <2> QED BY <1>2, <1>4, <1>5, <1>6, <2>1 DEF Processor, Modes, AsLeft
<1>8. InOwnCode(cur, cpu')
  BY <1>1, <1>2, <1>7, AtKernel DEF InOwnCode
<1>9. left' = left /\ cur' = cur /\ \A t \in Tasks \ {cur} : left'[t] = left[t]
  BY <1>4
<1>10. Inv'
  BY <1>1, <1>3, <1>4, <1>7, <1>8, <1>9, AtKernel, CurrentStep
<1> QED BY <1>7, <1>9, <1>10

LEMMA ExitIrqStep ==
  ASSUME Inv, EXIT_IRQ
  PROVE  Inv' /\ AsLeft(cur', left[cur'], cpu')
<1> DEFINE l == left[cur]
           r == Popped(IrqFrame)
<1>1. cpu.pc = Code("EXIT_IRQ")
  BY DEF EXIT_IRQ
<1>2. /\ cur \in UserTasks /\ IrqEntry(stack, l)
      /\ cpu.ksp.at = 7 /\ Len(stack) = 7
  BY <1>1, AtKernel, KindsDiffer DEF InKernelCode
<1>3. r \in Seq(Words) /\ Len(r) = 0
  <2>1. stack \in Seq(Words) /\ 0 \in 0 .. Len(stack) /\ r = SubSeq(stack, 1, 0)
    BY <1>1, <1>2, AtKernel DEF Popped, IrqFrame
  <2> HIDE DEF r
  <2> QED BY <2>1, PrefixFacts
<1> HIDE DEF r
<1>4. /\ cpu' = [cpu EXCEPT !.sp = stack[7], !.r0 = stack[5], !.rest = stack[4],
                            !.pc = stack[2], !.mode = stack[1][2], !.i = stack[1][3],
                            !.ksp = [cpu.ksp EXCEPT !.at = 0]]
      /\ kstack' = [kstack EXCEPT ![cur] = r]
      /\ UNCHANGED <<sends, cur, live, msp, left>>
  <2>1. Len(stack) - IrqFrame = 0
    BY <1>2 DEF IrqFrame
  <2>2. cpu' = [cpu EXCEPT !.sp = stack[Len(stack)], !.r0 = stack[0 + 5], !.rest = stack[0 + 4],
                           !.pc = stack[0 + 2], !.mode = stack[0 + 1][2],
                           !.i = stack[0 + 1][3], !.ksp.at = 0]
    BY <2>1, Zenon DEF EXIT_IRQ
  <2>3. Stacked(r) /\ UNCHANGED <<sends, cur, live, msp, left>>
    BY DEF EXIT_IRQ, r
  <2>4. cpu.ksp.of = cur
    BY <1>1, AtKernel
  <2> QED BY <1>2, <2>2, <2>3, <2>4 DEF Stacked
<1>5. [cpu.ksp EXCEPT !.at = 0] \in Pointers
  <2>1. cpu.ksp \in Pointers /\ 0 \in 0 .. cpu.ksp.at
    BY <1>1, <1>2, AtKernel DEF Processor
  <2> QED BY <2>1, PointerMoves
<1>6. /\ stack[1] = INIT_CPSR_USER /\ stack[2] = l.pc /\ stack[4] = l.rest
      /\ stack[5] = l.r0 /\ stack[7] = l.sp
      /\ l.pc \in Words /\ l.sp \in Words /\ l.rest \in Words /\ l.r0 \in Words
      /\ stack[1][2] = "usr" /\ stack[1][3] = 0
  BY <1>1, <1>2, UserPsr, AtKernel DEF IrqEntry, Registered
<1>7. /\ cpu' \in Processor /\ cpu'.ksp.of = cur /\ cpu'.ksp.at = 0
      /\ cpu'.pc = l.pc /\ cpu'.mode = "usr" /\ cpu'.i = 0 /\ AsLeft(cur, l, cpu')
  <2>1. cpu \in Processor /\ cpu.ksp.of = cur /\ cpu.ksp \in [of : Tasks, at : 0 .. Deepest]
    BY <1>1, AtKernel DEF Processor, Pointers
  <2> QED BY <1>2, <1>4, <1>5, <1>6, <2>1 DEF Processor, Modes, AsLeft
<1>8. InOwnCode(cur, cpu')
  BY <1>1, <1>2, <1>7, AtKernel DEF InOwnCode
<1>9. left' = left /\ cur' = cur /\ \A t \in Tasks \ {cur} : left'[t] = left[t]
  BY <1>4
<1>10. Inv'
  BY <1>1, <1>3, <1>4, <1>7, <1>8, <1>9, AtKernel, CurrentStep
<1> QED BY <1>7, <1>9, <1>10

-------------------------------------------------------------------------------
(* A switch.  The three words on top of the stack s of a task t that is    *)
(* switched out put it where it left off, or at its start.                 *)
LEMMA Resumed ==
  ASSUME NEW t \in Tasks, NEW l \in Registered, NEW s \in Seq(Words), NEW r \in Seq(Words),
         NEW c \in Processor, NEW k \in {3, 4, 8, 9, 11}, Len(s) = k,
         SwitchedOut(t, l, s), \A j \in 1 .. k - 3 : r[j] = s[j],
         Masked(c), c.pc = s[k - 2], c.rest = s[k - 1], c.r0 = s[k], c.ksp.at = k - 3,
         Own(l.pc), l.pc[2] = t
  PROVE  /\ InOwnCode(t, c) \/ InKernelCode(t, c, l, r)
         /\ Own(c.pc) => AsLeft(t, l, c)
<1>1. CASE k > 3 /\ s[k - 2] = Code("kernel") /\ InFunction(t, l, s, k - 3, s[k - 1])
  <2>1. k - 3 \in Nat
    BY <1>1
  <2>2. InFunction(t, l, r, k - 3, s[k - 1])
    BY <1>1, <2>1, SamePrefix
  <2> QED BY <1>1, <2>2, KindsDiffer DEF InKernelCode
<1>2. CASE t \in UserTasks /\ k = 8 /\ SvcEntry(s, l) /\ s[6] = Code("SVC_RESTORE")
           /\ s[8] = l.r0
  <2>1. r[1] = s[1] /\ r[2] = s[2] /\ r[3] = s[3] /\ r[4] = s[4]
    BY <1>2
  <2>2. SvcEntry(r, l) /\ c.pc = Code("SVC_RESTORE") /\ c.r0 = l.r0 /\ c.ksp.at = 5
    BY <1>2, <2>1 DEF SvcEntry
  <2> QED BY <1>2, <2>2, KindsDiffer DEF InKernelCode
<1>3. CASE t \in KernelTasks /\ k = 3 /\ s[1] = l.pc /\ s[2] = l.rest /\ s[3] = l.r0
  <2>1. /\ c.pc = l.pc /\ c.rest = l.rest /\ c.r0 = l.r0 /\ c.ksp.at = 0
        /\ t \notin UserTasks
    BY <1>3, TaskSets
  <2> QED BY <2>1 DEF InOwnCode, Masked, AsLeft
<1> QED BY <1>1, <1>2, <1>3 DEF SwitchedOut

(* What the switch to a task that is ready does, when the stack of the     *)
(* current task becomes q.                                                 *)
LEMMA SwitchedInFacts ==
  ASSUME Inv, cpu.pc = Code("kernel"), NEW n \in live \ {cur}, NEW q \in Seq(Words),
         SwitchedIn([kstack EXCEPT ![cur] = q], msp[n])
  PROVE  LET s == kstack[n]
             k == Len(s)
         IN  /\ cpu' = [cpu EXCEPT !.r0 = s[k], !.rest = s[k - 1], !.pc = s[k - 2],
                                   !.ksp = [msp[n] EXCEPT !.at = k - 3]]
             /\ kstack' = [kstack EXCEPT ![cur] = q, ![n] = SubSeq(s, 1, k - 3)]
<1> DEFINE k == Len(kstack[n])
           from == [kstack EXCEPT ![cur] = q]
<1>1. cur \in Tasks /\ n \in Tasks /\ n # cur /\ kstack \in [Tasks -> Seq(Words)]
  BY AtKernel, Types DEF TypeOK
<1>2. msp[n].of = n /\ msp[n].at = k
  BY <1>1, AtKernel DEF Placed, OthersReady
<1>3. from[n] = kstack[n]
  BY <1>1
<1>4. /\ cpu' = [cpu EXCEPT !.r0 = from[n][k], !.rest = from[n][k - 1], !.pc = from[n][k - 2],
                            !.ksp = [msp[n] EXCEPT !.at = @ - 3]]
      /\ kstack' = [from EXCEPT ![n] = SubSeq(@, 1, k - 3)]
  <2> HIDE DEF k, from
  <2> SUFFICES ASSUME SwitchedIn(from, msp[n])
               PROVE  /\ cpu' = [cpu EXCEPT !.r0 = from[n][k], !.rest = from[n][k - 1],
                                            !.pc = from[n][k - 2],
                                            !.ksp = [msp[n] EXCEPT !.at = @ - 3]]
                      /\ kstack' = [from EXCEPT ![n] = SubSeq(@, 1, k - 3)]
    BY DEF from
  <2> QED BY <1>2 DEF SwitchedIn
<1> HIDE DEF k
<1>5. kstack' = [kstack EXCEPT ![cur] = q, ![n] = SubSeq(kstack[n], 1, k - 3)]
  BY <1>1, <1>3, <1>4
<1> QED BY <1>2, <1>3, <1>4, <1>5 DEF k

(* The current task leaves the stack q and the pointer p, or nothing at    *)
(* all when it exits.                                                      *)
LEMMA SwitchInStep ==
  ASSUME Inv, cpu.pc = Code("kernel"), NEW n \in live \ {cur},
         NEW q \in Seq(Words), Len(q) <= Deepest, NEW p \in Pointers, p.of = cur,
         SwitchedIn([kstack EXCEPT ![cur] = q], msp[n]),
         cur' = n, sends' = sends, msp' = [msp EXCEPT ![cur] = p],
         left' \in [Tasks -> Registered], \A t \in Tasks \ {cur} : left'[t] = left[t],
         Own(left'[cur].pc), left'[cur].pc[2] = cur,
         \/ live' = live /\ SwitchedOut(cur, left'[cur], q) /\ p.at = Len(q)
         \/ live' = live \ {cur} /\ q = <<>>
  PROVE  Inv' /\ (Own(cpu'.pc) => AsLeft(cur', left[cur'], cpu'))
<1> DEFINE s == kstack[n]
           k == Len(s)
           r == SubSeq(s, 1, k - 3)
<1>1. /\ TypeOK /\ Placed /\ OthersReady /\ Phase
      /\ cur \in Tasks /\ n \in Tasks /\ n # cur /\ n \in live /\ live \subseteq Tasks
      /\ kstack \in [Tasks -> Seq(Words)] /\ msp \in [Tasks -> Pointers]
      /\ cpu \in Processor /\ left \in [Tasks -> Registered]
  BY AtKernel, Types DEF TypeOK
<1>2. Masked(cpu)
  BY AtKernel DEF InKernelCode
<1>3. SwitchedOut(n, left[n], s)
  BY <1>1 DEF OthersReady
<1>4. s \in Seq(Words) /\ k \in {3, 4, 8, 9, 11}
  <2>1. s \in Seq(Words) /\ Len(s) \in Nat
    BY <1>1, Types
  <2> QED BY <1>3, <2>1, SwitchedOutDepth
<1>5. /\ cpu' = [cpu EXCEPT !.r0 = s[k], !.rest = s[k - 1], !.pc = s[k - 2],
                            !.ksp = [msp[n] EXCEPT !.at = k - 3]]
      /\ kstack' = [kstack EXCEPT ![cur] = q, ![n] = r]
  BY SwitchedInFacts
<1>6. r \in Seq(Words) /\ Len(r) = k - 3 /\ \A j \in 1 .. k - 3 : r[j] = s[j]
  <2> DEFINE d == k
  <2>1. s \in Seq(Words) /\ d \in {3, 4, 8, 9, 11}
    BY <1>4
  <2>2. Len(s) = d /\ r = SubSeq(s, 1, d - 3)
    OBVIOUS
  <2> HIDE DEF d, s, r
  <2>3. d \in Nat /\ 3 \in 0 .. d
    BY <2>1
  <2>4. SubSeq(s, 1, d - 3) \in Seq(Words) /\ Len(SubSeq(s, 1, d - 3)) = d - 3
        /\ \A j \in 1 .. d - 3 : SubSeq(s, 1, d - 3)[j] = s[j]
    BY <2>1, <2>2, <2>3, TakenOff
  <2> QED BY <2>2, <2>4 DEF d
<1>7. s[k] \in Words /\ s[k - 1] \in Words /\ s[k - 2] \in Words
  <2>1. s \in Seq(Words) /\ k \in {3, 4, 8, 9, 11} /\ Len(s) = k
    BY <1>4
  <2> HIDE DEF s, k
  <2>2. k \in 1 .. k /\ k - 1 \in 1 .. k /\ k - 2 \in 1 .. k
    BY <2>1
  <2> QED BY <2>1, <2>2, ElementOfSeq
<1>8. /\ kstack' \in [Tasks -> Seq(Words)] /\ kstack'[cur] = q /\ kstack'[n] = r
      /\ \A t \in Tasks \ {cur, n} : kstack'[t] = kstack[t]
  <2> HIDE DEF s, r
  <2> QED BY <1>1, <1>5, <1>6
<1> HIDE DEF s, k, r
<1>9. [msp[n] EXCEPT !.at = k - 3] \in Pointers /\ msp[n].of = n /\ msp[n] \in Pointers
  <2>1. msp[n] \in Pointers /\ msp[n].at = k /\ msp[n].of = n
    BY <1>1 DEF OthersReady, Placed, s, k
  <2>2. k - 3 \in 0 .. msp[n].at
    BY <1>4, <2>1
  <2> QED BY <2>1, <2>2, PointerMoves
<1>10. /\ cpu' \in Processor /\ cpu'.ksp.of = n /\ cpu'.ksp.at = k - 3
       /\ cpu'.r0 = s[k] /\ cpu'.rest = s[k - 1] /\ cpu'.pc = s[k - 2]
       /\ Masked(cpu')
  <2>1. msp[n] \in [of : Tasks, at : 0 .. Deepest]
    BY <1>9 DEF Pointers
  <2>2. cpu'.ksp = [msp[n] EXCEPT !.at = k - 3] /\ cpu' \in Processor
        /\ cpu'.r0 = s[k] /\ cpu'.rest = s[k - 1] /\ cpu'.pc = s[k - 2]
        /\ cpu'.mode = cpu.mode /\ cpu'.i = cpu.i
    BY <1>1, <1>5, <1>7, <1>9 DEF Processor
  <2> QED BY <1>2, <1>9, <2>1, <2>2 DEF Masked
<1>11. /\ InOwnCode(n, cpu') \/ InKernelCode(n, cpu', left[n], r)
       /\ Own(cpu'.pc) => AsLeft(n, left[n], cpu')
  <2>1. left[n] \in Registered /\ Own(left[n].pc) /\ left[n].pc[2] = n
    BY <1>1 DEF Placed
  <2>2. Len(s) = k
    BY DEF k
  <2> QED BY <1>1, <1>3, <1>4, <1>6, <1>10, <2>1, <2>2, Resumed
<1>12. TypeOK'
  <2>1. \A t \in Tasks : Len(kstack'[t]) <= Deepest
    <3>1. Len(r) <= Deepest
      BY <1>4, <1>6 DEF Deepest
    <3> QED BY <1>1, <1>8, <3>1 DEF TypeOK
  <2>2. msp' \in [Tasks -> Pointers]
    BY <1>1
  <2>3. sends' \subseteq Devices /\ cur' \in Tasks /\ live' \in SUBSET Tasks
    BY <1>1 DEF TypeOK
  <2> QED BY <1>8, <1>10, <2>1, <2>2, <2>3 DEF TypeOK, Processor, Registered
<1>13. Placed'
  <2>1. cpu'.ksp.of = cur' /\ Len(kstack'[cur']) = cpu'.ksp.at
    BY <1>6, <1>8, <1>10
  <2>2. \A t \in Tasks : Own(left'[t].pc) /\ left'[t].pc[2] = t /\ msp'[t].of = t
    BY <1>1 DEF Placed
  <2>3. ASSUME NEW t \in Tasks \ live' PROVE kstack'[t] = <<>>
    <3>1. CASE t = cur
      <4>1. cur \in live
        BY AtKernel
      <4>2. q = <<>>
        BY <3>1, <4>1
      <4> QED BY <1>8, <3>1, <4>2
    <3>2. CASE t # cur
      <4>1. t \notin live /\ t # n
        BY <1>1, <3>2
      <4>2. kstack[t] = <<>>
        BY <1>1, <4>1 DEF Placed
      <4> QED BY <1>8, <3>2, <4>1, <4>2
    <3> QED BY <3>1, <3>2
  <2> QED BY <2>1, <2>2, <2>3 DEF Placed
<1>14. OthersReady'
  <2> SUFFICES ASSUME NEW t \in live' \ {cur'}
               PROVE  SwitchedOut(t, left'[t], kstack'[t]) /\ msp'[t].at = Len(kstack'[t])
    BY DEF OthersReady
  <2>1. CASE t = cur
    BY <1>1, <1>8, <2>1
  <2>2. CASE t # cur
    BY <1>1, <1>8, <2>2 DEF OthersReady
  <2> QED BY <2>1, <2>2
<1>15. Running'
  <2>1. sends' = Devices /\ cur' \in live'
    BY <1>1 DEF Phase, Running
  <2>2. left'[n] = left[n] /\ kstack'[n] = r
    BY <1>1, <1>8
  <2> QED BY <1>11, <2>1, <2>2 DEF Running
<1>16. ~Early(cpu)' /\ ~Late(cpu)'
  <2>1. ~Early(cpu') /\ ~Late(cpu')
    BY <1>11, PositionIsNotBoot
  <2> QED BY <2>1 DEF Early, Late
<1>17. Inv'
  BY <1>12, <1>13, <1>14, <1>15, <1>16 DEF Inv
<1> QED BY <1>11, <1>17

(* What the switch saves of the task that it leaves.                       *)
LEMMA PushedFacts ==
  ASSUME Inv, cpu.pc = Code("kernel")
  PROVE  /\ Pushed \in Seq(Words) /\ Len(Pushed) <= Deepest
         /\ SwitchedOut(cur, left[cur], Pushed)
         /\ At(Pushed) \in Pointers /\ At(Pushed).of = cur /\ At(Pushed).at = Len(Pushed)
<1> DEFINE n == Len(stack)
           o == <<Code("kernel"), cpu.rest, cpu.r0>>
           u == stack \o o
<1>1. /\ stack \in Seq(Words) /\ n = cpu.ksp.at /\ cpu \in Processor /\ cpu.ksp.of = cur
      /\ InFunction(cur, left[cur], stack, n, cpu.rest)
  BY AtKernel, KindsDiffer DEF InKernelCode
<1>2. n \in {1, 6, 8}
  BY <1>1, Depths
<1>3. o \in Seq(Words) /\ Len(o) = 3 /\ o[1] = Code("kernel") /\ o[2] = cpu.rest
      /\ o[3] = cpu.r0
  BY <1>1, WordsFacts DEF Processor
<1> HIDE DEF o
<1>4. /\ u \in Seq(Words) /\ Len(u) = Len(stack) + Len(o)
      /\ \A j \in 1 .. Len(stack) : u[j] = stack[j]
      /\ \A j \in 1 .. Len(o) : u[Len(stack) + j] = o[j]
  <2>1. stack \in Seq(Words) /\ o \in Seq(Words)
    BY <1>1, <1>3
  <2> QED BY <2>1, ConcatFacts
<1> HIDE DEF u, n
<1>5. /\ Len(u) = n + 3 /\ \A j \in 1 .. n : u[j] = stack[j]
      /\ u[n + 1] = Code("kernel") /\ u[n + 2] = cpu.rest
  <2>1. 1 \in 1 .. Len(o) /\ 2 \in 1 .. Len(o)
    BY <1>3
  <2> QED BY <1>3, <1>4, <2>1 DEF n
<1>6. InFunction(cur, left[cur], u, n, cpu.rest)
  <2>1. n \in Nat
    BY <1>2
  <2> QED BY <1>1, <1>5, <2>1, SamePrefix
<1> DEFINE k == Len(u)
<1>7. k \in {4, 9, 11} /\ k - 3 = n /\ k - 2 = n + 1 /\ k - 1 = n + 2
  BY <1>2, <1>5
<1> HIDE DEF k
<1>8. SwitchedOut(cur, left[cur], u)
  <2>1. k > 3 /\ u[k - 2] = Code("kernel") /\ InFunction(cur, left[cur], u, k - 3, u[k - 1])
    BY <1>5, <1>6, <1>7
  <2> QED BY <2>1 DEF SwitchedOut, k
<1>9. At(u) \in Pointers /\ At(u).of = cur /\ At(u).at = k
  <2>1. At(u) = [cpu.ksp EXCEPT !.at = k]
    BY DEF At, k
  <2>2. cpu.ksp \in Pointers /\ k \in 0 .. Deepest
    BY <1>1, <1>7 DEF Processor, Deepest
  <2> QED BY <1>1, <2>1, <2>2 DEF Pointers
<1>10. u = Pushed
  BY Zenon DEF u, o, Pushed
<1>11. k <= Deepest
  BY <1>7 DEF Deepest
<1> QED BY <1>4, <1>8, <1>9, <1>10, <1>11 DEF k

LEMMA SwitchStep ==
  ASSUME Inv, NEW n \in Tasks, Switch(n)
  PROVE  Inv' /\ (Own(cpu'.pc) => AsLeft(cur', left[cur'], cpu'))
<1> DEFINE q == Pushed
           p == At(Pushed)
<1>1. cpu.pc = Code("kernel") /\ n \in live \ {cur}
  BY DEF Switch, InKernel
<1>2. /\ q \in Seq(Words) /\ Len(q) <= Deepest /\ SwitchedOut(cur, left[cur], q)
      /\ p \in Pointers /\ p.of = cur /\ p.at = Len(q)
  BY <1>1, PushedFacts
<1>3. /\ SwitchedIn([kstack EXCEPT ![cpu.ksp.of] = q], msp[n]) /\ cur' = n
      /\ msp' = [msp EXCEPT ![cur] = p] /\ UNCHANGED <<sends, live, left>>
  BY DEF Switch, k_tsk_switch
<1> HIDE DEF q, p
<1>4. cpu.ksp.of = cur /\ left \in [Tasks -> Registered] /\ Own(left[cur].pc)
      /\ left[cur].pc[2] = cur
  BY <1>1, AtKernel
<1>5. SwitchedIn([kstack EXCEPT ![cur] = q], msp[n])
  BY <1>3, <1>4
<1>6. left' = left /\ live' = live /\ sends' = sends
  BY <1>3
<1> QED BY <1>1, <1>2, <1>3, <1>4, <1>5, <1>6, SwitchInStep

LEMMA ExitStep ==
  ASSUME Inv, NEW n \in Tasks, Exit(n)
  PROVE  Inv' /\ (Own(cpu'.pc) => AsLeft(cur', left[cur'], cpu'))
<1> DEFINE q == <<>>
           p == Unused(cur)
           l == Registers(cur, 0)
<1>1. cpu.pc = Code("kernel") /\ n \in live \ {cur}
  BY DEF Exit, InCall, InKernel
<1>2. cur \in Tasks /\ left \in [Tasks -> Registered]
  BY <1>1, AtKernel
<1>3. q \in Seq(Words) /\ Len(q) <= Deepest /\ q = <<>>
  BY DEF Deepest
<1>4. p \in Pointers /\ p.of = cur
  BY <1>2 DEF Unused, Pointers, Deepest
<1>5. l \in Registered /\ Own(l.pc) /\ l.pc[2] = cur
  BY <1>2, RegistersFacts
<1>6. /\ SwitchedIn([kstack EXCEPT ![cur] = q], msp[n]) /\ cur' = n
      /\ msp' = [msp EXCEPT ![cur] = p] /\ sends' = sends /\ live' = live \ {cur}
      /\ left' = [left EXCEPT ![cur] = l]
  BY DEF Exit
<1> HIDE DEF q, p, l
<1>7. /\ left' \in [Tasks -> Registered] /\ left'[cur] = l
      /\ \A t \in Tasks \ {cur} : left'[t] = left[t]
  BY <1>2, <1>5, <1>6
<1> QED BY <1>1, <1>3, <1>4, <1>5, <1>6, <1>7, SwitchInStep

-------------------------------------------------------------------------------
(* A new task.                                                             *)
LEMMA FabricatedFacts ==
  ASSUME NEW t \in Tasks
  PROVE  /\ Fabricated(t) \in Seq(Words) /\ Len(Fabricated(t)) \in {3, 8}
         /\ SwitchedOut(t, Registers(t, 0), Fabricated(t))
         /\ [of |-> t, at |-> Len(Fabricated(t))] \in Pointers
<1> DEFINE l == Registers(t, 0)
           f == Fabricated(t)
           g == KernelFrame(t)
           w == IF t \in UserTasks THEN Code("SVC_RESTORE") ELSE Word("pc", t, 0)
           k == Len(f)
<1>1. /\ l.pc = Word("pc", t, 0) /\ l.rest = Word("rest", t, 0) /\ l.r0 = Word("r0", t, 0)
      /\ l.sp = Word("sp", t, 0)
      /\ l.pc \in Words /\ l.rest \in Words /\ l.r0 \in Words /\ l.sp \in Words
      /\ Code("SVC_RESTORE") \in Words /\ INIT_CPSR_USER \in Words /\ w \in Words
  BY WordsFacts DEF Registers, INIT_CPSR_USER, Modes
<1>2. g = <<w, l.rest, l.r0>>
  BY DEF KernelFrame, Registers
<1> HIDE DEF l, w
<1>3. g \in Seq(Words) /\ Len(g) = 3 /\ g[1] = w /\ g[2] = l.rest /\ g[3] = l.r0
  BY <1>1, <1>2
<1> HIDE DEF g
<1>4. CASE t \in UserTasks
  <2> DEFINE h == UserFrame(t)
  <2>1. h = <<INIT_CPSR_USER, l.pc, l.sp, l.rest, l.r0>>
    BY <1>1 DEF UserFrame
  <2>2. h \in Seq(Words) /\ Len(h) = 5 /\ h[1] = INIT_CPSR_USER /\ h[2] = l.pc
        /\ h[3] = l.sp /\ h[4] = l.rest
    BY <1>1, <2>1
  <2>3. f = h \o g
    BY <1>4 DEF Fabricated, g
  <2> HIDE DEF h
  <2>4. /\ h \o g \in Seq(Words) /\ Len(h \o g) = Len(h) + Len(g)
        /\ \A j \in 1 .. Len(h) : (h \o g)[j] = h[j]
        /\ \A j \in 1 .. Len(g) : (h \o g)[Len(h) + j] = g[j]
    <3>1. h \in Seq(Words) /\ g \in Seq(Words)
      BY <1>3, <2>2
    <3> QED BY <3>1, ConcatFacts
  <2> HIDE DEF f
  <2>5. f \in Seq(Words) /\ Len(f) = 8 /\ \A j \in 1 .. 5 : f[j] = h[j]
    BY <1>3, <2>2, <2>3, <2>4, SMTT(30)
  <2>6. f[6] = g[1] /\ f[8] = g[3]
    <3>1. \A j \in 1 .. 3 : f[5 + j] = g[j]
      BY <1>3, <2>2, <2>3, <2>4
    <3> QED BY <3>1
  <2>7. w = Code("SVC_RESTORE")
    BY <1>4 DEF w
  <2>8. SvcEntry(f, l)
    BY <2>2, <2>5 DEF SvcEntry
  <2> QED BY <1>3, <1>4, <2>5, <2>6, <2>7, <2>8 DEF SwitchedOut, Pointers, Deepest, f, l
<1>5. CASE t \notin UserTasks
  <2>1. f = <<>> \o g
    BY <1>5 DEF Fabricated, g
  <2>2. f = g
    BY <1>3, <2>1, ConcatEmptySeq
  <2>3. t \in KernelTasks /\ w = l.pc
    BY <1>1, <1>5, TaskSets DEF w
  <2> HIDE DEF f
  <2>4. SwitchedOut(t, l, f) /\ f \in Seq(Words) /\ Len(f) = 3
    BY <1>3, <2>2, <2>3 DEF SwitchedOut
  <2> QED BY <2>4 DEF Pointers, Deepest, f, l
<1> QED BY <1>4, <1>5

LEMMA CreateStep ==
  ASSUME Inv, NEW t \in Tasks, Create(t)
  PROVE  Inv'
<1> DEFINE f == Fabricated(t)
           l == Registers(t, 0)
<1>1. cpu.pc = Code("kernel") /\ t \in UserTasks /\ t \notin live
  BY DEF Create, InCall, InKernel
<1>2. /\ TypeOK /\ Placed /\ OthersReady /\ Phase
      /\ cur \in Tasks /\ cur \in live /\ t # cur /\ live \subseteq Tasks
      /\ left \in [Tasks -> Registered]
  BY <1>1, AtKernel, Types
<1>3. /\ f \in Seq(Words) /\ Len(f) \in {3, 8} /\ SwitchedOut(t, l, f)
      /\ [of |-> t, at |-> Len(f)] \in Pointers
  BY FabricatedFacts
<1>4. l \in Registered /\ Own(l.pc) /\ l.pc[2] = t
  BY RegistersFacts
<1>5. /\ kstack' = [x \in Tasks |-> IF x \in {t} THEN f ELSE kstack[x]]
      /\ msp' = [x \in Tasks |-> IF x \in {t} THEN [of |-> x, at |-> Len(Fabricated(x))]
                                 ELSE msp[x]]
      /\ live' = live \cup {t} /\ left' = [left EXCEPT ![t] = l]
      /\ UNCHANGED <<cpu, sends, cur>>
  BY DEF Create, k_tsk_create_new
<1>6. /\ kstack'[t] = f /\ msp'[t] = [of |-> t, at |-> Len(f)]
      /\ \A x \in Tasks \ {t} : kstack'[x] = kstack[x] /\ msp'[x] = msp[x]
  <2> HIDE DEF f
  <2>1. kstack'[t] = f /\ \A x \in Tasks \ {t} : kstack'[x] = kstack[x]
    BY <1>5
  <2>2. msp'[t] = [of |-> t, at |-> Len(Fabricated(t))]
    BY <1>5, Zenon
  <2>3. \A x \in Tasks \ {t} : msp'[x] = msp[x]
    BY <1>5
  <2> QED BY <2>1, <2>2, <2>3 DEF f
<1> HIDE DEF f, l
<1>7. /\ left' \in [Tasks -> Registered] /\ left'[t] = l
      /\ \A x \in Tasks \ {t} : left'[x] = left[x]
  BY <1>2, <1>4, <1>5
<1>8. TypeOK'
  <2>1. kstack' \in [Tasks -> Seq(Words)] /\ msp' \in [Tasks -> Pointers]
    <3>1. \A x \in Tasks : kstack'[x] \in Seq(Words) /\ msp'[x] \in Pointers
      BY <1>2, <1>3, <1>6, Types
    <3> QED BY <1>5, <3>1
  <2>2. \A x \in Tasks : Len(kstack'[x]) <= Deepest
    <3> DEFINE d == Len(f)
    <3>1. d \in {3, 8}
      BY <1>3
    <3> HIDE DEF d
    <3>2. d <= Deepest
      BY <3>1 DEF Deepest
    <3> QED BY <1>2, <1>6, <3>2 DEF TypeOK, d
  <2>3. live' \in SUBSET Tasks
    BY <1>2, <1>5
  <2> QED BY <1>2, <1>5, <1>7, <2>1, <2>2, <2>3 DEF TypeOK, Registered
<1>9. Placed'
  <2>1. cpu'.ksp.of = cur' /\ Len(kstack'[cur']) = cpu'.ksp.at
    BY <1>2, <1>5, <1>6 DEF Placed
  <2>2. \A x \in Tasks : Own(left'[x].pc) /\ left'[x].pc[2] = x /\ msp'[x].of = x
    BY <1>2, <1>4, <1>6, <1>7 DEF Placed
  <2>3. \A x \in Tasks \ live' : kstack'[x] = <<>>
    BY <1>2, <1>5, <1>6 DEF Placed
  <2> QED BY <2>1, <2>2, <2>3 DEF Placed
<1>10. OthersReady'
  <2> SUFFICES ASSUME NEW x \in live' \ {cur'}
               PROVE  SwitchedOut(x, left'[x], kstack'[x]) /\ msp'[x].at = Len(kstack'[x])
    BY DEF OthersReady
  <2>1. CASE x = t
    BY <1>3, <1>6, <1>7, <2>1 DEF l
  <2>2. CASE x # t
    BY <1>2, <1>5, <1>6, <1>7, <2>2 DEF OthersReady
  <2> QED BY <2>1, <2>2
<1>11. Running'
  <2>1. kstack'[cur] = kstack[cur] /\ left'[cur] = left[cur]
    BY <1>2, <1>6, <1>7
  <2> QED BY <1>2, <1>5, <2>1 DEF Phase, Running
<1>12. ~Early(cpu)' /\ ~Late(cpu)'
  BY <1>2, <1>5 DEF Phase, Early, Late
<1> QED BY <1>8, <1>9, <1>10, <1>11, <1>12 DEF Inv

-------------------------------------------------------------------------------
(* The boot.                                                               *)
LEMMA AtBoot ==
  ASSUME Inv, Early(cpu) \/ Late(cpu)
  PROVE  /\ TypeOK /\ Placed /\ OthersReady /\ Booting /\ ~Own(cpu.pc)
         /\ cpu \in Processor /\ sends \subseteq Devices
<1>1. TypeOK /\ Placed /\ OthersReady /\ Booting
  BY DEF Inv
<1>2. ~Own(cpu.pc)
  BY KindsDiffer DEF Early, Late
<1> QED BY <1>1, <1>2 DEF TypeOK, Processor

LEMMA BootStep ==
  ASSUME Inv, Early(cpu) \/ Late(cpu), UNCHANGED <<cur, live, kstack, msp, left>>,
         cpu' \in Processor, cpu'.ksp = cpu.ksp, sends' \subseteq Devices,
         \/ (Early(cpu') \/ Late(cpu')) /\ Booting'
         \/ ~Early(cpu') /\ ~Late(cpu') /\ Running'
  PROVE  Inv'
<1>1. TypeOK'
  BY AtBoot DEF TypeOK, Processor
<1>2. Placed' /\ OthersReady'
  BY AtBoot DEF Placed, OthersReady
<1>3. (Early(cpu') <=> Early(cpu)') /\ (Late(cpu') <=> Late(cpu)')
  BY DEF Early, Late
<1> QED BY <1>1, <1>2, <1>3 DEF Inv

(* Up to k_rtx_init.                                                       *)
LEMMA EarlyStep ==
  ASSUME Inv, StackInit \/ set_SP_MODE \/ main \/ SER_Init
  PROVE  Inv'
<1>1. Early(cpu)
  BY DEF StackInit, set_SP_MODE, main, SER_Init, Early
<1>2. /\ cpu' \in Processor /\ cpu'.ksp = cpu.ksp /\ cpu'.r0 = cpu.r0 /\ cpu'.rest = cpu.rest
      /\ cpu'.pc \in {Code("set_SP_MODE"), Code("main"), Code("SER_Init"), Code("k_rtx_init")}
      /\ cpu'.pc # Code("set_SP_MODE") => cpu'.mode = "svc"
  <2>1. CASE StackInit
    <3>1. cpu' = [cpu EXCEPT !.pc = Code("set_SP_MODE"), !.mode = "sys", !.i = 0]
      BY <1>1, <2>1, AtBoot DEF StackInit, GoesTo, Processor
    <3> QED BY <1>1, <3>1, AtBoot, WordsFacts DEF Processor, Modes
  <2>2. CASE set_SP_MODE
    <3>1. cpu' = [cpu EXCEPT !.pc = Code("main"), !.sp = Code("g_stacks"), !.mode = "svc",
                             !.i = 1]
      BY <1>1, <2>2, AtBoot DEF set_SP_MODE, GoesTo, Processor
    <3> QED BY <1>1, <3>1, AtBoot, WordsFacts DEF Processor, Modes
  <2>3. CASE main
    <3>1. cpu' = [cpu EXCEPT !.pc = Code("SER_Init"), !.i = 1] /\ cpu.mode = "svc"
      BY <1>1, <2>3, AtBoot DEF main, GoesTo, atomic_on, Processor, Booting
    <3> QED BY <1>1, <3>1, AtBoot, WordsFacts DEF Processor
  <2>4. CASE SER_Init
    <3>1. cpu' = [cpu EXCEPT !.pc = Code("k_rtx_init"), !.i = 0] /\ cpu.mode = "svc"
      BY <1>1, <2>4, AtBoot DEF SER_Init, GoesTo, atomic_off, Processor, Booting
    <3> QED BY <1>1, <3>1, AtBoot, WordsFacts DEF Processor
  <2> QED BY <2>1, <2>2, <2>3, <2>4
<1>3. UNCHANGED <<sends, cur, live, kstack, msp, left>>
  BY DEF StackInit, set_SP_MODE, main, SER_Init
<1>4. Early(cpu') /\ ~Late(cpu')
  BY <1>2 DEF Early, Late, Code
<1>5. Booting'
  <2>1. /\ cur = NullTask /\ cpu.ksp.at = 0 /\ sends = {} /\ live = {}
        /\ \A t \in Tasks : left[t] = Registers(t, 0)
        /\ left[cur] = Registers(cur, 0) /\ cpu.r0 = left[cur].r0 /\ cpu.rest = left[cur].rest
    BY <1>1, AtBoot DEF Booting
  <2>2. /\ cpu'.pc # Code("interrupt_init") /\ cpu'.pc # Code("config_GIC")
        /\ cpu'.pc # Code("config_UART0_irq")
    BY <1>2 DEF Code
  <2>3. cpu'.pc \in {Code("main"), Code("SER_Init"), Code("k_rtx_init")} => cpu'.mode = "svc"
    BY <1>2 DEF Code
  <2>4. ~Late(cpu)'
    BY <1>4 DEF Late
  <2> QED BY <1>2, <1>3, <2>1, <2>2, <2>3, <2>4 DEF Booting
<1> QED BY <1>1, <1>2, <1>3, <1>4, <1>5, AtBoot, BootStep

(* From interrupt_init to the null task.                                   *)
LEMMA LateStep ==
  ASSUME Inv, interrupt_init \/ config_GIC \/ config_UART0_irq
  PROVE  Inv' /\ (Own(cpu'.pc) => AsLeft(cur', left[cur'], cpu'))
<1>1. Late(cpu) /\ ~Early(cpu) /\ UNCHANGED <<cur, live, kstack, msp, left>>
  BY DEF interrupt_init, config_GIC, config_UART0_irq, Late, Early, Code
<1>2. /\ cur = NullTask /\ cpu.ksp.at = 0 /\ cur \in live /\ cpu.mode = "svc"
      /\ cpu \in Processor /\ Placed
      /\ left[cur] = Registers(cur, 0) /\ cpu.r0 = left[cur].r0 /\ cpu.rest = left[cur].rest
  BY <1>1, AtBoot DEF Booting
<1>3. CASE interrupt_init
  <2>1. cpu' = [cpu EXCEPT !.pc = Code("config_GIC"), !.i = 1] /\ sends' = {}
    BY <1>1, <1>3, AtBoot DEF interrupt_init, disable_interrupt, GoesTo, Processor, Booting
  <2>2. /\ cpu' \in Processor /\ cpu'.ksp = cpu.ksp /\ cpu'.pc = Code("config_GIC")
        /\ cpu'.mode = "svc" /\ cpu'.i = 1 /\ cpu'.r0 = cpu.r0 /\ cpu'.rest = cpu.rest
    BY <1>2, <2>1, WordsFacts DEF Processor
  <2>3. Late(cpu') /\ ~Early(cpu')
    BY <2>2 DEF Late, Early, Code
  <2>4. Booting'
    BY <1>1, <1>2, <2>1, <2>2 DEF Booting, Early, Code
  <2>5. Inv'
    BY <1>1, <2>1, <2>2, <2>3, <2>4, BootStep
  <2> QED BY <2>2, <2>5, KindsDiffer
<1>4. CASE config_GIC
  <2>1. cpu' = [cpu EXCEPT !.pc = Code("config_UART0_irq")] /\ sends' = {"GIC"} /\ cpu.i = 1
    BY <1>1, <1>4, AtBoot DEF config_GIC, GoesTo, Booting
  <2>2. /\ cpu' \in Processor /\ cpu'.ksp = cpu.ksp /\ cpu'.pc = Code("config_UART0_irq")
        /\ cpu'.mode = "svc" /\ cpu'.i = 1 /\ cpu'.r0 = cpu.r0 /\ cpu'.rest = cpu.rest
    BY <1>2, <2>1, WordsFacts DEF Processor
  <2>3. Late(cpu') /\ ~Early(cpu')
    BY <2>2 DEF Late, Early, Code
  <2>4. Booting'
    BY <1>1, <1>2, <2>1, <2>2 DEF Booting, Early, Code
  <2>5. sends' \subseteq Devices
    BY <2>1 DEF Devices
  <2>6. Inv'
    BY <1>1, <2>2, <2>3, <2>4, <2>5, BootStep
  <2> QED BY <2>2, <2>6, KindsDiffer
<1>5. CASE config_UART0_irq
  <2>1. cpu' = [cpu EXCEPT !.pc = Word("pc", NullTask, 0)] /\ sends' = Devices /\ cpu.i = 1
    BY <1>1, <1>5, AtBoot DEF config_UART0_irq, Booting, Devices
  <2>2. /\ cpu' \in Processor /\ cpu'.ksp = cpu.ksp /\ cpu'.pc = <<"pc", cur, 0>>
        /\ cpu'.mode = "svc" /\ cpu'.i = 1 /\ cpu'.r0 = cpu.r0 /\ cpu'.rest = cpu.rest
    BY <1>2, <2>1, WordsFacts, TaskSets DEF Processor, Word
  <2>3. InOwnCode(cur, cpu')
    <3>1. Own(cpu'.pc) /\ cpu'.pc[2] = cur
      BY <2>2 DEF Own
    <3> QED BY <1>2, <2>2, <3>1, TaskSets DEF InOwnCode
  <2>4. ~Late(cpu') /\ ~Early(cpu')
    BY <2>3, PositionIsNotBoot
  <2>5. Running'
    BY <1>1, <1>2, <2>1, <2>3 DEF Running
  <2>6. Inv'
    BY <1>1, <2>1, <2>2, <2>4, <2>5, BootStep
  <2>7. left[cur].pc = <<"pc", cur, 0>>
    BY <1>2 DEF Registers, Word
  <2>8. AsLeft(cur', left[cur'], cpu')
    BY <1>1, <1>2, <2>2, <2>7, TaskSets DEF AsLeft
  <2> QED BY <2>6, <2>8
<1> QED BY <1>3, <1>4, <1>5

(* k_rtx_init makes up the stacks of the first tasks.                      *)
LEMMA RtxInitStep ==
  ASSUME Inv, NEW tasks \in SUBSET (Tasks \ {NullTask}), k_rtx_init(tasks)
  PROVE  Inv'
<1>1. cpu.pc = Code("k_rtx_init") /\ Early(cpu)
  BY DEF k_rtx_init, Early
<1>2. /\ TypeOK /\ Placed /\ cpu \in Processor /\ cur = NullTask /\ cpu.ksp.at = 0
      /\ sends = {} /\ live = {} /\ cpu.mode = "svc" /\ cur \in Tasks
      /\ \A t \in Tasks : left[t] = Registers(t, 0)
      /\ cpu.r0 = left[cur].r0 /\ cpu.rest = left[cur].rest
  BY <1>1, AtBoot, TaskSets DEF Booting
<1>3. \A t \in Tasks : kstack[t] = <<>>
  BY <1>2 DEF Placed
<1>4. /\ cpu' = [cpu EXCEPT !.pc = Code("interrupt_init")]
      /\ live' = {NullTask} \cup tasks
      /\ kstack' = [t \in Tasks |-> IF t \in tasks THEN Fabricated(t) ELSE kstack[t]]
      /\ msp' = [t \in Tasks |-> IF t \in tasks THEN [of |-> t, at |-> Len(Fabricated(t))]
                                 ELSE msp[t]]
      /\ UNCHANGED <<sends, cur, left>>
  BY DEF k_rtx_init, k_tsk_create_new, GoesTo
<1>5. /\ cpu' \in Processor /\ cpu'.ksp = cpu.ksp /\ cpu'.pc = Code("interrupt_init")
      /\ cpu'.mode = "svc" /\ cpu'.r0 = cpu.r0 /\ cpu'.rest = cpu.rest
  BY <1>2, <1>4, WordsFacts DEF Processor
<1>6. /\ \A t \in tasks : t \in Tasks /\ t # cur
      /\ \A t \in tasks : /\ kstack'[t] = Fabricated(t)
                          /\ msp'[t] = [of |-> t, at |-> Len(Fabricated(t))]
      /\ \A t \in Tasks \ tasks : kstack'[t] = <<>> /\ msp'[t] = msp[t]
  <2>1. \A t \in tasks : t \in Tasks /\ t # cur
    BY <1>2
  <2>2. ASSUME NEW t \in tasks
        PROVE  kstack'[t] = Fabricated(t) /\ msp'[t] = [of |-> t, at |-> Len(Fabricated(t))]
    <3>1. t \in Tasks
      OBVIOUS
    <3> QED BY <1>4, <3>1, Zenon
  <2>3. \A t \in Tasks \ tasks : kstack'[t] = <<>> /\ msp'[t] = msp[t]
    BY <1>3, <1>4
  <2> QED BY <2>1, <2>2, <2>3
<1>7. TypeOK'
  <2>1. ASSUME NEW t \in Tasks
        PROVE  kstack'[t] \in Seq(Words) /\ msp'[t] \in Pointers /\ Len(kstack'[t]) <= Deepest
    <3>1. CASE t \in tasks
      <4> DEFINE f == Fabricated(t)
                 d == Len(f)
      <4>1. f \in Seq(Words) /\ d \in {3, 8} /\ [of |-> t, at |-> d] \in Pointers
        BY FabricatedFacts
      <4>2. kstack'[t] = f /\ msp'[t] = [of |-> t, at |-> d] /\ Len(kstack'[t]) = d
        BY <1>6, <3>1
      <4> HIDE DEF f, d
      <4>3. d <= Deepest
        BY <4>1 DEF Deepest
      <4> QED BY <4>1, <4>2, <4>3
    <3>2. CASE t \notin tasks
      <4>1. kstack'[t] = <<>> /\ msp'[t] = msp[t]
        BY <1>6, <3>2
      <4>2. msp[t] \in Pointers
        BY <1>2, Types
      <4> QED BY <4>1, <4>2 DEF Deepest
    <3> QED BY <3>1, <3>2
  <2>2. kstack' \in [Tasks -> Seq(Words)] /\ msp' \in [Tasks -> Pointers]
    BY <1>4, <2>1
  <2>3. live' \in SUBSET Tasks
    BY <1>4, TaskSets
  <2> QED BY <1>2, <1>4, <1>5, <2>1, <2>2, <2>3 DEF TypeOK, Processor
<1>8. Placed'
  <2>1. cur \notin tasks /\ kstack'[cur] = <<>> /\ Len(kstack'[cur]) = 0
    BY <1>2, <1>6
  <2>2. cpu'.ksp.of = cur' /\ Len(kstack'[cur']) = cpu'.ksp.at
    BY <1>2, <1>4, <1>5, <2>1 DEF Placed
  <2>3. ASSUME NEW t \in Tasks
        PROVE  Own(left'[t].pc) /\ left'[t].pc[2] = t /\ msp'[t].of = t
    <3>1. msp'[t].of = t
      <4>1. CASE t \in tasks
        <5> DEFINE d == Len(Fabricated(t))
        <5>1. msp'[t] = [of |-> t, at |-> d]
          BY <1>6, <4>1
        <5> HIDE DEF d
        <5> QED BY <5>1
      <4>2. CASE t \notin tasks
        BY <1>2, <1>6, <4>2 DEF Placed
      <4> QED BY <4>1, <4>2
    <3> QED BY <1>2, <1>4, <3>1 DEF Placed
  <2>4. \A t \in Tasks \ live' : kstack'[t] = <<>>
    BY <1>4, <1>6
  <2> QED BY <2>2, <2>3, <2>4 DEF Placed
<1>9. OthersReady'
  <2> SUFFICES ASSUME NEW t \in live' \ {cur'}
               PROVE  SwitchedOut(t, left'[t], kstack'[t]) /\ msp'[t].at = Len(kstack'[t])
    BY DEF OthersReady
  <2>1. t \in tasks /\ t \in Tasks
    BY <1>2, <1>4
  <2>2. kstack'[t] = Fabricated(t) /\ msp'[t].at = Len(Fabricated(t))
        /\ left'[t] = Registers(t, 0)
    BY <1>2, <1>4, <1>6, <2>1
  <2> QED BY <2>1, <2>2, FabricatedFacts
<1>10. Late(cpu)' /\ ~Early(cpu)'
  BY <1>5 DEF Late, Early, Code
<1>11. Booting'
  BY <1>2, <1>4, <1>5, <1>10 DEF Booting, Code
<1> QED BY <1>7, <1>8, <1>9, <1>10, <1>11 DEF Inv

LEMMA InitInv == Init => Inv
<1> SUFFICES ASSUME Init PROVE Inv
  OBVIOUS
<1>1. cpu = [r0 |-> Word("r0", NullTask, 0), rest |-> Word("rest", NullTask, 0),
             lr |-> Code("reset"), sp |-> Code("reset"), pc |-> Code("reset"),
             mode |-> "svc", i |-> 1, ksp |-> Unused(NullTask)]
  BY DEF Init
<1>2. \A t \in Tasks : Unused(t) \in Pointers /\ Unused(t).of = t /\ Unused(t).at = 0
  BY DEF Unused, Pointers, Deepest
<1>3. /\ sends = {} /\ cur = NullTask /\ live = {} /\ kstack = [t \in Tasks |-> <<>>]
      /\ msp = [t \in Tasks |-> Unused(t)] /\ left = [t \in Tasks |-> Registers(t, 0)]
  BY DEF Init
<1>4. cpu \in Processor
  BY <1>1, <1>2, WordsFacts, TaskSets DEF Processor, Modes
<1>5. TypeOK
  <2>1. kstack \in [Tasks -> Seq(Words)] /\ \A t \in Tasks : Len(kstack[t]) <= Deepest
    BY <1>3 DEF Deepest
  <2>2. msp \in [Tasks -> Pointers] /\ left \in [Tasks -> Registered]
    BY <1>2, <1>3, RegistersFacts
  <2> QED BY <1>3, <1>4, <2>1, <2>2, TaskSets DEF TypeOK, Processor, Registered
<1>6. Placed
  <2>1. cpu.ksp.of = cur /\ cpu.ksp.at = 0 /\ Len(kstack[cur]) = 0
    BY <1>1, <1>2, <1>3, TaskSets
  <2>2. \A t \in Tasks : Own(left[t].pc) /\ left[t].pc[2] = t /\ msp[t].of = t
    BY <1>2, <1>3, RegistersFacts
  <2>3. \A t \in Tasks \ live : kstack[t] = <<>>
    BY <1>3
  <2> QED BY <2>1, <2>2, <2>3 DEF Placed
<1>7. OthersReady
  BY <1>3 DEF OthersReady
<1>8. cpu.pc = Code("reset") /\ cpu.ksp.at = 0
  BY <1>1, <1>2, TaskSets
<1>9. Early(cpu) /\ ~Late(cpu)
  BY <1>8 DEF Early, Late, Code
<1>10. Booting
  <2>1. /\ left[cur] = Registers(cur, 0) /\ cpu.r0 = left[cur].r0
        /\ cpu.rest = left[cur].rest
    BY <1>1, <1>3, TaskSets DEF Registers
  <2> QED BY <1>3, <1>8, <1>9, <2>1 DEF Booting, Code
<1> QED BY <1>5, <1>6, <1>7, <1>9, <1>10 DEF Inv

(* The interrupt finds a user-mode task in its own code, and every such    *)
(* task can be interrupted.                                                *)
LEMMA WhereInterrupted ==
  ASSUME Inv
  PROVE  UserTasksInterrupted
<1>1. CASE Early(cpu) \/ Late(cpu)
  <2>1. ~Own(cpu.pc) /\ Booting
    BY <1>1, AtBoot
  <2>2. sends = {} \/ sends = {"GIC"}
    BY <1>1, <2>1 DEF Booting, Late
  <2> QED BY <2>1, <2>2 DEF UserTasksInterrupted, IrqSent, InUser, Devices
<1>2. CASE ~Early(cpu) /\ ~Late(cpu)
  <2>1. sends = Devices
    BY <1>2 DEF Inv, Running
  <2>2. CASE InOwnCode(cur, cpu)
    <3>1. cpu.i = 0 <=> cpu.mode = "usr"
      BY <2>2 DEF InOwnCode
    <3> QED BY <2>1, <2>2, <3>1 DEF UserTasksInterrupted, IrqSent, InUser, InOwnCode
  <2>3. CASE InKernelCode(cur, cpu, left[cur], kstack[cur])
    <3>1. cpu.i # 0 /\ cpu.mode # "usr"
      BY <2>3 DEF InKernelCode, Masked
    <3> QED BY <3>1 DEF UserTasksInterrupted, IrqSent, InUser
  <2> QED BY <1>2, <2>2, <2>3 DEF Inv, Running
<1> QED BY <1>1, <1>2

(* Every step keeps the invariant.                                         *)
LEMMA NextInv == Inv /\ [Next]_vars => Inv'
<1> SUFFICES ASSUME Inv, [Next]_vars PROVE Inv'
  OBVIOUS
<1>1. CASE Boot
  BY <1>1, EarlyStep, RtxInitStep, LateStep DEF Boot
<1>2. ASSUME NEW v \in Versions, Works(v) PROVE Inv'
  BY <1>2, WorksStep
<1>3. CASE Svc
  BY <1>3, SvcStep
<1>4. CASE Irq
  <2>1. InUser
    BY <1>4, WhereInterrupted DEF UserTasksInterrupted, Irq
  <2> QED BY <1>4, <2>1, IrqStep DEF InUser
<1>5. CASE Call
  BY <1>5, CallStep
<1>6. ASSUME NEW t \in Tasks, Create(t) PROVE Inv'
  BY <1>6, CreateStep
<1>7. ASSUME NEW t \in Tasks, Switch(t) PROVE Inv'
  BY <1>7, SwitchStep
<1>8. ASSUME NEW t \in Tasks, Exit(t) PROVE Inv'
  BY <1>8, ExitStep
<1>9. CASE Return
  BY <1>9, ReturnStep
<1>10. CASE SVC_RESTORE
  BY <1>10, SvcRestoreStep
<1>11. CASE EXIT_IRQ
  BY <1>11, ExitIrqStep
<1>12. CASE UNCHANGED vars
  BY <1>12 DEF vars, Inv, TypeOK, Placed, OthersReady, Booting, Running, Early, Late
<1> QED BY <1>1, <1>2, <1>3, <1>4, <1>5, <1>6, <1>7, <1>8, <1>9, <1>10, <1>11, <1>12 DEF Next

(* Which steps lead from the kernel into a task's own code.                *)
LEMMA ResumeStep ==
  ASSUME Inv, Next, Resumes
  PROVE  AsLeft(cur', left[cur'], cpu')
<1>1. CASE Boot
  <2>1. CASE StackInit \/ set_SP_MODE \/ main \/ SER_Init \/ interrupt_init \/ config_GIC
    <3>1. Early(cpu) \/ Late(cpu)
      BY <2>1 DEF StackInit, set_SP_MODE, main, SER_Init, interrupt_init, config_GIC,
                  Early, Late
    <3>2. cpu \in Processor
      BY <3>1, AtBoot
    <3>3. \E l \in {"set_SP_MODE", "main", "SER_Init", "k_rtx_init", "config_GIC",
                    "config_UART0_irq"} : cpu'.pc = Code(l)
      BY <2>1, <3>2 DEF StackInit, set_SP_MODE, main, SER_Init, interrupt_init, config_GIC,
                  GoesTo, atomic_on, atomic_off, disable_interrupt, Processor
    <3> QED BY <3>3, KindsDiffer DEF Resumes
  <2>2. ASSUME NEW tasks \in SUBSET (Tasks \ {NullTask}), k_rtx_init(tasks)
        PROVE  FALSE
    <3>1. Early(cpu)
      BY <2>2 DEF k_rtx_init, Early
    <3>2. cpu'.pc = Code("interrupt_init")
      BY <2>2, <3>1, AtBoot DEF k_rtx_init, GoesTo, Processor
    <3> QED BY <3>2, KindsDiffer DEF Resumes
  <2>3. CASE config_UART0_irq
    BY <2>3, LateStep DEF Resumes
  <2> QED BY <1>1, <2>1, <2>2, <2>3 DEF Boot
<1>2. ASSUME NEW v \in Versions, Works(v) PROVE FALSE
  BY <1>2 DEF Works, Resumes
<1>3. CASE Svc \/ Call
  BY <1>3 DEF Svc, Call, InUser, Resumes
<1>4. CASE Irq
  BY <1>4, WhereInterrupted DEF UserTasksInterrupted, Irq, InUser, Resumes
<1>5. ASSUME NEW t \in Tasks, Create(t) PROVE FALSE
  BY <1>5, KindsDiffer DEF Create, Resumes
<1>6. ASSUME NEW t \in Tasks, Switch(t) \/ Exit(t) PROVE AsLeft(cur', left[cur'], cpu')
  BY <1>6, SwitchStep, ExitStep DEF Resumes
<1>7. CASE Return
  BY <1>7, ReturnStep DEF Resumes
<1>8. CASE SVC_RESTORE \/ EXIT_IRQ
  BY <1>8, SvcRestoreStep, ExitIrqStep
<1> QED BY <1>1, <1>2, <1>3, <1>4, <1>5, <1>6, <1>7, <1>8 DEF Next

-------------------------------------------------------------------------------
LEMMA InvCorrect == Spec => []Inv
<1> QED BY InitInv, NextInv, PTL DEF Spec

(* The variables keep their types: no path through the kernel leaves       *)
(* anything on a kernel stack.                                             *)
THEOREM TypesCorrect == Spec => []TypeOK
<1>1. Inv => TypeOK
  BY DEF Inv
<1> QED BY <1>1, InvCorrect, PTL

(* Each task runs in its own mode, on its own kernel stack, which is empty *)
(* while the task runs its own code.                                       *)
THEOREM OwnStackCorrect == Spec => []OwnStack
<1>1. ASSUME Inv PROVE OwnStack
  <2>1. cpu.ksp.of = cur /\ \A t \in live : msp[t].of = t
    BY <1>1, Types DEF Inv, Placed
  <2>2. ASSUME Own(cpu.pc)
        PROVE  /\ cur \in live /\ cpu.mode = IF cur \in UserTasks THEN "usr" ELSE "svc"
               /\ cpu.pc[2] = cur /\ cpu.ksp.at = 0
    BY <1>1, <2>2, AtOwnCode DEF InOwnCode, Phase, Running
  <2> QED BY <2>1, <2>2 DEF OwnStack
<1>2. Inv => OwnStack
  BY <1>1
<1> QED BY <1>2, InvCorrect, PTL

(* Interrupts are taken from user-mode tasks, at any time, and never while *)
(* the kernel or a kernel-mode task runs.                                  *)
THEOREM UserTasksInterruptedCorrect == Spec => []UserTasksInterrupted
<1>1. Inv => UserTasksInterrupted
  BY WhereInterrupted
<1> QED BY <1>1, InvCorrect, PTL

(* What k_tsk_get reports of a live task: its user stack pointer as it was *)
(* left, unless the task is suspended in the interrupt handler, and the    *)
(* top of its kernel stack, unless it is the caller.                       *)
THEOREM StackPointerCorrect == Spec => []StackPointerReported
<1>1. ASSUME Inv, InCall, NEW t \in live \cap UserTasks, ~Interrupted(t)
      PROVE  kstack[t][3] = left[t].sp
  <2>1. cpu.pc = Code("kernel") /\ stack = kstack[cur] /\ TypeOK /\ t \in Tasks
        /\ InFunction(cur, left[cur], stack, cpu.ksp.at, cpu.rest) /\ OthersReady
        /\ Len(stack) = cpu.ksp.at
    BY <1>1, AtKernel, TaskSets, KindsDiffer DEF InCall, InKernel, InKernelCode
  <2> DEFINE s == kstack[t]
             n == Len(s)
  <2>2. s \in Seq(Words) /\ n \in Nat /\ t \notin KernelTasks
    BY <2>1, Types, TaskSets
  <2>3. ~(n >= 8 /\ s[8] = Code("EXIT_IRQ"))
    BY <1>1, <2>2 DEF Interrupted
  <2> HIDE DEF s, n
  <2>4. CASE t = cur
    <3>1. stack = s /\ Len(stack) = n
      BY <2>1, <2>4 DEF s, n
    <3>2. InFunction(t, left[t], s, n, cpu.rest)
      BY <2>1, <2>4, <3>1
    <3>3. SvcEntry(s, left[t])
      BY <2>2, <2>3, <3>2 DEF InFunction
    <3> QED BY <3>3 DEF SvcEntry, s
  <2>5. CASE t # cur
    <3>1. SwitchedOut(t, left[t], s) /\ Len(s) = n
      BY <2>1, <2>5 DEF OthersReady, s, n
    <3>2. SvcEntry(s, left[t])
      <4>1. InFunction(t, left[t], s, n - 3, s[n - 1]) => SvcEntry(s, left[t])
        BY <2>2, <2>3 DEF InFunction
      <4> QED BY <2>2, <3>1, <4>1 DEF SwitchedOut
    <3> QED BY <3>2 DEF SvcEntry, s
  <2> QED BY <2>4, <2>5
<1>2. ASSUME Inv, NEW t \in live, t # cur
      PROVE  msp[t] = [of |-> t, at |-> Len(kstack[t])]
  <2>1. t \in Tasks /\ msp[t] \in Pointers
    BY <1>2, Types DEF Inv
  <2>2. msp[t].of = t /\ msp[t].at = Len(kstack[t])
    BY <1>2, <2>1 DEF Inv, Placed, OthersReady
  <2> QED BY <2>1, <2>2 DEF Pointers
<1>3. ASSUME Inv, InCall, NEW t \in live
      PROVE  /\ k_tsk_get(t).priv = 0 /\ ~Interrupted(t) => k_tsk_get(t).u_sp = left[t].sp
             /\ t # cur => k_tsk_get(t).k_sp = [of |-> t, at |-> Len(kstack[t])]
  <2>1. k_tsk_get(t).priv = 0 => t \in UserTasks
    BY <1>3 DEF k_tsk_get
  <2>2. t \in UserTasks => k_tsk_get(t).u_sp = kstack[t][3]
    BY <1>3 DEF k_tsk_get
  <2>3. k_tsk_get(t).k_sp = msp[t]
    BY <1>3 DEF k_tsk_get
  <2> QED BY <1>1, <1>2, <1>3, <2>1, <2>2, <2>3
<1>4. Inv => StackPointerReported
  BY <1>3 DEF StackPointerReported
<1> QED BY <1>4, InvCorrect, PTL

(* A task that comes back to its own code from a call, an interrupt or a   *)
(* switch, or that starts, finds the registers it left, whatever the other *)
(* tasks did.                                                              *)
THEOREM ResumesAsLeftCorrect == Spec => ResumesAsLeft
<1>1. Inv /\ [Next]_vars
        => [ Resumes => /\ cpu'.pc = left[cur'].pc
                        /\ cpu'.rest = left[cur'].rest
                        /\ cpu'.r0 = left[cur'].r0
                        /\ cur' \in UserTasks => cpu'.sp = left[cur'].sp ]_vars
  BY ResumeStep DEF AsLeft
<1> QED BY <1>1, InvCorrect, PTL DEF Spec, ResumesAsLeft
===============================================================================
