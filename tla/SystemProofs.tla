------------------------------ MODULE SystemProofs ------------------------------
(***************************************************************************)
(* Proofs about System, for all programs, configurations, characters and   *)
(* lengths of lines: what a step can do to the keys and registrations that *)
(* are on their way to the KCD task (Kinds), and what follows for the      *)
(* order of the keys, the line, the table and the commands.                *)
(***************************************************************************)
EXTENDS System, RtxProofs

(* The places of programs, and where the tasks are.                        *)
Places == UNION {DOMAIN Programs[f] : f \in DOMAIN Programs}

ProgramInv ==
  /\ code \in [Tids -> DOMAIN Programs]
  /\ at \in [Tids -> Places]
  /\ \A t \in Tids : at[t] \in DOMAIN Programs[code[t]]
  /\ child \in [Tids -> Tids]

Entries == [val : Chars, tid : Tids]

KcdTypes ==
  /\ message \in Messages \cup {Nothing}
  /\ identifies \in Seq(Entries)
  /\ \A i, j \in DOMAIN identifies : identifies[i].val = identifies[j].val => i = j
  /\ line \in Seq(Chars)

HistoryTypes ==
  /\ tape \in Seq(Chars \cup {CR}) /\ Len(tape) = typed
  /\ lost \in SUBSET (1 .. typed)
  /\ owner \in [Chars -> Tids \cup {NOBODY, Gone}]

(* The KCD task exists, and has a message exactly between receiving and    *)
(* dealing with it.                                                        *)
KcdCall == Programs[code[TID_KCD]][at[TID_KCD]].call

KcdInv ==
  /\ k.state[TID_KCD] # "DORMANT"
  /\ IsKcdProgram(Programs[code[TID_KCD]])
  /\ message # Nothing => KcdCall = "deal" /\ pc[TID_KCD] # "recv"
  /\ pc[TID_KCD] = "recv" => KcdCall = "deal"

(* What is on its way to the KCD task.                                     *)
WayOf(m, b, u) == <<m>> \o b \o [i \in DOMAIN u |-> Key(u[i])]

Way == WayOf(message, box[TID_KCD], uart)

-------------------------------------------------------------------------------
(* What programs and configurations may be.                                *)
LEMMA CallFacts ==
  ASSUME ProgramInv, NEW t \in Tids
  PROVE  LET i == Programs[code[t]][at[t]]
         IN  /\ i.call # "exit" => i.then \in DOMAIN Programs[code[t]]
             /\ i.call = "create" => i.entry \in DOMAIN Programs /\ i.prio \in Priorities
             /\ i.call = "set_prio" => i.prio \in Priorities
             /\ i.call = "register" => i.char \in Chars
BY ProgramConstants DEF ProgramInv, IsInstruction

LEMMA PlaceFacts ==
  ASSUME NEW f \in DOMAIN Programs
  PROVE  1 \in DOMAIN Programs[f] /\ DOMAIN Programs[f] \subseteq Places
BY ProgramConstants DEF Places

LEMMA ContentFacts ==
  /\ \A c \in Chars : Reg(c) \in Contents
  /\ \A text \in Seq(Chars) : Len(text) < LONGEST => Cmd(text) \in Contents
<1>1. \A c \in Chars : Reg(c) \in Contents
  BY SystemConstants
<1>2. ASSUME NEW text \in Seq(Chars), Len(text) < LONGEST PROVE Cmd(text) \in Contents
  <2>1. Len(text) \in 0 .. LONGEST - 1 /\ text \in [1 .. Len(text) -> Chars]
    BY <1>2, SystemConstants, LenProperties
  <2>2. text \in CommandTexts
    BY <2>1 DEF CommandTexts
  <2> QED BY <2>2, SystemConstants
<1> QED BY <1>1, <1>2

(* Messages are told apart by their fields.                                *)
LEMMA MessageFacts ==
  ASSUME NEW m \in Messages \cup {Nothing}
  PROVE  \/ m = Nothing /\ ~IsKey(m) /\ ~IsReg(m)
         \/ \E n \in 1 .. MaxKeys : m = Key(n) /\ m.key = n /\ IsKey(m) /\ ~IsReg(m) /\ m # Nothing
         \/ \E t \in Tids, c \in Chars : m = From(t, Reg(c)) /\ m.from = t /\ m.holds = Reg(c)
                                         /\ m.holds.text[1] = c /\ IsReg(m) /\ ~IsKey(m) /\ m # Nothing
         \/ \E t \in Tids : \E s : m = From(t, Cmd(s)) /\ ~IsReg(m) /\ ~IsKey(m) /\ m # Nothing
<1>1. \A n : Key(n).key = n /\ "key" \in DOMAIN Key(n) /\ "from" \notin DOMAIN Key(n)
  BY DEF Key
<1>2. \A t, h : From(t, h).from = t /\ From(t, h).holds = h /\ "from" \in DOMAIN From(t, h)
                /\ "key" \notin DOMAIN From(t, h)
  BY DEF From
<1>3. "from" \notin DOMAIN Nothing /\ "key" \notin DOMAIN Nothing
  BY DEF Nothing
<1>4. \A c : Reg(c).type = "KCD_REG" /\ Reg(c).text[1] = c
  BY DEF Reg
<1>5. \A s : Cmd(s).type = "KCD_CMD"
  BY DEF Cmd
<1>6. CASE m = Nothing
  BY <1>3, <1>6 DEF IsKey, IsReg
<1>7. ASSUME NEW n \in 1 .. MaxKeys, m = Key(n)
      PROVE  m.key = n /\ IsKey(m) /\ ~IsReg(m) /\ m # Nothing
  BY <1>1, <1>3, <1>7 DEF IsKey, IsReg
<1>8. ASSUME NEW t \in Tids, NEW c \in Chars, m = From(t, Reg(c))
      PROVE  m.from = t /\ m.holds = Reg(c) /\ m.holds.text[1] = c /\ IsReg(m) /\ ~IsKey(m)
             /\ m # Nothing
  BY <1>2, <1>3, <1>4, <1>8 DEF IsKey, IsReg
<1>9. ASSUME NEW t \in Tids, NEW s, m = From(t, Cmd(s))
      PROVE  ~IsReg(m) /\ ~IsKey(m) /\ m # Nothing
  BY <1>2, <1>3, <1>5, <1>9 DEF IsKey, IsReg
<1>10. ASSUME NEW t \in Tids, NEW h \in Contents
       PROVE  (\E c \in Chars : h = Reg(c)) \/ \E s : h = Cmd(s)
  BY SystemConstants
<1>11. m # Nothing => \/ \E n \in 1 .. MaxKeys : m = Key(n)
                      \/ \E t \in Tids, h \in Contents : m = From(t, h)
  BY DEF Messages
<1> QED BY <1>6, <1>7, <1>8, <1>9, <1>10, <1>11

-------------------------------------------------------------------------------
(* A command that is forwarded is a line with its '%' taken off.           *)
LEMMA ForwardFacts ==
  ASSUME KcdTypes, NEW r, Forwards(r)
  PROVE  /\ Cmd(K!Command) \in Contents
         /\ line # <<>> /\ Len(line) <= LONGEST /\ line = <<Percent>> \o K!Command
<1>1. /\ line \in Seq(Chars) /\ line # <<>> /\ ~(Head(line) # Percent \/ Len(line) > LONGEST)
  BY DEF KcdTypes, Forwards, K!Forwarded, K!Invalid
<1>2. /\ Tail(line) \in Seq(Chars) /\ Len(Tail(line)) = Len(line) - 1
      /\ Len(line) \in Nat /\ LONGEST \in Nat
  BY <1>1, HeadTailProperties, LenProperties, SystemConstants
<1>3. Len(line) <= LONGEST /\ Len(Tail(line)) < LONGEST
  BY <1>1, <1>2
<1>4. Cmd(Tail(line)) \in Contents
  BY <1>2, <1>3, ContentFacts
<1>5. line = <<Head(line)>> \o Tail(line)
  BY <1>1, HeadTailProperties
<1> QED BY <1>1, <1>3, <1>4, <1>5 DEF K!Command

Remains ==
  \/ \E t \in Tids, p \in Priorities : TskCreate(t, p) \/ TskSetPrio(t, p)
  \/ \E r \in Tids, c \in Contents : SendMsg(r, c)
  \/ TskYield \/ MbxCreate \/ RecvMsg \/ RecvBlock \/ RecvGoesOn \/ NullYield
  \/ KeyPressed \/ Interrupt \/ StoreKey \/ DropKey \/ InterruptEnds \/ InterruptUnexpected
  \/ UNCHANGED vars

(* Every step of the system is one of the kernel; Remains is one that is   *)
(* not an exit.                                                            *)
LEMMA RemainsIsStep == (Exits \/ Remains => [Next]_vars) /\ (TskExit => [Next]_vars)
BY DEF Remains, Exits, Next, SystemCall

LEMMA SysStepIsStep ==
  ASSUME ProgramInv, KcdTypes, cur \in Tids, [SysNext]_svars
  PROVE  Exits \/ Remains
<1>1. CASE UNCHANGED svars
  BY <1>1 DEF svars, vars, Remains
<1> USE DEF instruction
<1>2. CASE Creates
  <2>1. PICK t \in Tids : TskCreate(t, instruction.prio)
    BY <1>2 DEF Creates
  <2>2. instruction.prio \in Priorities
    BY <1>2, CallFacts DEF Creates, Do
  <2> QED BY <2>1, <2>2 DEF Remains
<1>3. CASE SetsPrio
  <2>1. TskSetPrio(child[cur], instruction.prio)
    BY <1>3 DEF SetsPrio
  <2>2. instruction.prio \in Priorities /\ child[cur] \in Tids
    BY <1>3, CallFacts DEF SetsPrio, Do, ProgramInv
  <2> QED BY <2>1, <2>2 DEF Remains
<1>4. CASE Registers
  <2>1. SendMsg(TID_KCD, Reg(instruction.char)) /\ TID_KCD \in Tids
    BY <1>4, TaskConstants DEF Registers
  <2>2. instruction.char \in Chars
    BY <1>4, CallFacts DEF Registers, Do
  <2>3. Reg(instruction.char) \in Contents
    BY <2>2, ContentFacts
  <2> QED BY <2>1, <2>3 DEF Remains
<1>5. ASSUME NEW r \in Tids, Forwards(r) PROVE Remains
  <2>1. SendMsg(r, Cmd(K!Command)) /\ Cmd(K!Command) \in Contents
    BY <1>5, ForwardFacts DEF Forwards
  <2> QED BY <2>1 DEF Remains
<1>6. CASE Yields \/ CreatesMbx \/ Receives1 \/ GoesOn
  BY <1>6 DEF Yields, CreatesMbx, Receives1, GoesOn, Remains
<1>7. CASE Fails \/ DealsWithReg \/ DealsWithKey \/ DealsWithReturn
  BY <1>7 DEF Fails, DealsWithReg, DealsWithKey, DealsWithReturn, Remains
<1>8. CASE Idles \/ Interrupted \/ Handles \/ \E c \in Chars \cup {CR} : Types(c)
  BY <1>8 DEF Idles, Interrupted, Handles, Types, Remains
<1> QED BY <1>1, <1>2, <1>3, <1>4, <1>5, <1>6, <1>7, <1>8 DEF SysNext, Runs, Call, KcdDeals

(* A task that exists goes on existing, unless it exits.                   *)
LEMMA Survives ==
  ASSUME RtxInv, ~Overcommit, NEW t \in Tids, k.state[t] # "DORMANT",
         Remains \/ (TskExit /\ t # cur)
  PROVE  k'.state[t] # "DORMANT"
<1>0. TableInv /\ RestInv /\ cur \in Tids /\ Dispatched(k)
  BY TableInvFacts DEF RtxInv
<1> DEFINE Goal == k'.state[t] # "DORMANT"
<1>1. CASE UNCHANGED k
  BY <1>1
<1>2. ASSUME NEW u \in Tids, NEW p \in Priorities, TskCreate(u, p) PROVE Goal
  <2>1. Alike(k, k', Tids \ {u}) /\ k'.state[u] \in {"READY", "RUNNING"}
    BY <1>0, <1>2, CreateStep
  <2> QED BY <2>1 DEF Alike
<1>3. ASSUME NEW u \in Tids, NEW p \in Priorities, TskSetPrio(u, p) PROVE Goal
  BY <1>0, <1>3, SetPrioStep DEF Alike
<1>4. CASE TskExit /\ t # cur
  BY <1>0, <1>4, ExitStep DEF LeaveStep, Alike
<1>5. CASE TskYield
  BY <1>0, <1>5, YieldStep DEF Alike
<1>6. ASSUME NEW r \in Tids, NEW m, k_send_msg(r, m) PROVE Goal
  <2>1. CASE k.state[r] = "BLK_MSG"
    <3>1. k' = Ranked(mbx_unblock(k, r))
      BY <1>6, <2>1 DEF k_send_msg, Kernel
    <3>2. Alike(k, k', Tids \ {r}) /\ k'.state[r] \in {"READY", "RUNNING"}
      BY <1>0, <2>1, <3>1, WakeStep
    <3> QED BY <3>2 DEF Alike
  <2>2. CASE k.state[r] # "BLK_MSG"
    <3>1. k' = Ranked(k)
      BY <1>6, <2>2 DEF k_send_msg, Kernel
    <3> QED BY <1>0, <3>1, RankedFacts
  <2> QED BY <2>1, <2>2
<1>7. ASSUME NEW r \in Tids, NEW c \in Contents, SendMsg(r, c) PROVE Goal
  BY <1>6, <1>7 DEF SendMsg
<1>8. CASE RecvBlock
  <2>1. Alike(k, k', Tids \ {cur}) /\ k'.state[cur] = "BLK_MSG"
    BY <1>0, <1>8, BlockStep DEF LeaveStep
  <2> QED BY <2>1 DEF Alike
<1>9. CASE NullYield
  BY <1>0, <1>9, NullYieldStep DEF SameStep, Alike
<1>10. CASE StoreKey
  BY <1>6, <1>10, TaskConstants DEF StoreKey
<1>11. CASE InterruptEnds \/ InterruptUnexpected
  BY <1>0, <1>11, SameStepFacts DEF InterruptEnds, InterruptUnexpected, Kernel, SameStep, Alike
<1>12. (UNCHANGED vars) \/ MbxCreate \/ RecvMsg \/ RecvGoesOn \/ KeyPressed \/ Interrupt \/ DropKey
       => UNCHANGED k
  BY DEF vars, MbxCreate, RecvMsg, RecvGoesOn, KeyPressed, Interrupt, DropKey
<1> QED BY <1>1, <1>2, <1>3, <1>4, <1>5, <1>7, <1>8, <1>9, <1>10, <1>11, <1>12
        DEF Remains

-------------------------------------------------------------------------------
(* Programs: a task stays in its function, at an instruction of it.        *)
LEMMA GoesToNext ==
  ASSUME ProgramInv, cur \in Tids, instruction.call # "exit", Next1, code' = code
  PROVE  /\ at' \in [Tids -> Places]
         /\ \A t \in Tids : at'[t] \in DOMAIN Programs[code'[t]]
<1>1. /\ code \in [Tids -> DOMAIN Programs] /\ at \in [Tids -> Places]
      /\ \A t \in Tids : at[t] \in DOMAIN Programs[code[t]]
  BY DEF ProgramInv
<1>2. instruction.then \in DOMAIN Programs[code[cur]]
  BY CallFacts DEF instruction
<1>3. instruction.then \in Places
  BY <1>1, <1>2, PlaceFacts
<1>4. at' = [at EXCEPT ![cur] = instruction.then]
  BY DEF Next1
<1> HIDE DEF instruction
<1> QED BY <1>1, <1>2, <1>3, <1>4

(* A task stays in its function, at an instruction of it.                  *)
LEMMA ProgramStep ==
  ASSUME ProgramInv, cur \in Tids, [SysNext]_svars
  PROVE  ProgramInv'
<1>0. /\ code \in [Tids -> DOMAIN Programs] /\ at \in [Tids -> Places]
      /\ \A t \in Tids : at[t] \in DOMAIN Programs[code[t]]
      /\ child \in [Tids -> Tids]
  BY DEF ProgramInv
<1>1. CASE UNCHANGED <<program, at>>
  BY <1>1 DEF ProgramInv, program
<1>2. CASE Creates
  <2>1. PICK t \in Tids : /\ code' = [code EXCEPT ![t] = instruction.entry]
                          /\ at' = [at EXCEPT ![cur] = instruction.then, ![t] = 1]
                          /\ child' = [child EXCEPT ![cur] = t]
    BY <1>2 DEF Creates
  <2>2. /\ instruction.entry \in DOMAIN Programs
        /\ instruction.then \in DOMAIN Programs[code[cur]]
    BY <1>2, CallFacts DEF Creates, Do, instruction
  <2>3. /\ instruction.then \in Places /\ 1 \in Places
        /\ 1 \in DOMAIN Programs[instruction.entry]
    BY <1>0, <2>2, PlaceFacts
  <2> HIDE DEF instruction
  <2>4. child' \in [Tids -> Tids] /\ code' \in [Tids -> DOMAIN Programs] /\ at' \in [Tids -> Places]
    BY <1>0, <2>1, <2>2, <2>3
  <2>5. ASSUME NEW u \in Tids PROVE at'[u] \in DOMAIN Programs[code'[u]]
    <3>1. CASE u = t
      BY <1>0, <2>1, <2>3, <3>1
    <3>2. CASE u # t
      BY <1>0, <2>1, <2>2, <3>2
    <3> QED BY <3>1, <3>2
  <2> QED BY <2>4, <2>5 DEF ProgramInv
<1>3. ASSUME Next1, UNCHANGED program, instruction.call # "exit" PROVE ProgramInv'
  BY <1>0, <1>3, GoesToNext DEF ProgramInv, program
<1>4. SetsPrio \/ Yields \/ CreatesMbx \/ Registers \/ Receives1 \/ Fails \/ KcdDeals
      => Next1 /\ UNCHANGED program /\ instruction.call # "exit"
  BY DEF SetsPrio, Yields, CreatesMbx, Registers, Receives1, Fails, CallFails, KcdDeals, DealsWithReg,
         DealsWithKey, DealsWithReturn, Forwards, Deals, Do
<1>5. (UNCHANGED svars) \/ Exits \/ GoesOn \/ Idles \/ Handles \/ Interrupted
      \/ (\E c \in Chars \cup {CR} : Types(c)) => UNCHANGED <<program, at>>
  BY DEF svars, Exits, GoesOn, Idles, Handles, Interrupted, Types
<1> QED BY <1>1, <1>2, <1>3, <1>4, <1>5 DEF SysNext, Runs, Call

-------------------------------------------------------------------------------
(* The KCD task receives and deals with what it received, by turns.        *)
LEMMA KcdCalls ==
  ASSUME ProgramInv, KcdInv
  PROVE  /\ KcdCall \in {"mbx", "recv", "deal"}
         /\ cur = TID_KCD => instruction.call = KcdCall
         /\ cur = TID_KCD /\ Next1 /\ code' = code =>
              /\ KcdCall \in {"mbx", "deal"} => KcdCall' = "recv"
              /\ KcdCall = "recv" => KcdCall' = "deal"
<1>0. TID_KCD \in Tids
  BY TaskConstants
<1>1. at[TID_KCD] \in DOMAIN Programs[code[TID_KCD]] /\ at \in [Tids -> Places]
  BY <1>0 DEF ProgramInv
<1>2. IsKcdProgram(Programs[code[TID_KCD]])
  BY DEF KcdInv
<1> DEFINE p == Programs[code[TID_KCD]]
           i == at[TID_KCD]
<1>3. \/ p[i].call \in {"mbx", "deal"} /\ p[p[i].then].call = "recv"
      \/ p[i].call = "recv" /\ p[p[i].then].call = "deal"
  BY <1>1, <1>2 DEF IsKcdProgram
<1>4. ASSUME cur = TID_KCD, Next1, code' = code PROVE KcdCall' = p[p[i].then].call
  <2>1. at'[TID_KCD] = p[i].then
    BY <1>0, <1>1, <1>4 DEF Next1, instruction
  <2> QED BY <1>4, <2>1 DEF KcdCall
<1>5. KcdCall = p[i].call /\ (cur = TID_KCD => instruction.call = p[i].call)
  BY DEF KcdCall, instruction
<1> HIDE DEF p, i
<1> QED BY <1>3, <1>4, <1>5

(* It never exits, and holds a message only between the two.               *)
LEMMA KcdStep ==
  ASSUME RtxInv, ~Overcommit, ProgramInv, KcdTypes, KcdInv, [SysNext]_svars
  PROVE  KcdInv'
<1> DEFINE me == TID_KCD
<1>0. /\ me \in Tids /\ cur \in Tids /\ TableInv /\ RestInv /\ WaitInv /\ me # TID_NULL
  BY TaskConstants, TableInvFacts DEF RtxInv
<1>1. /\ code \in [Tids -> DOMAIN Programs] /\ at \in [Tids -> Places]
      /\ pc \in [Tids -> {"run", "recv", "irq"}]
  BY <1>0, RestInvFacts DEF ProgramInv
<1>2. Exits => cur # me
  BY KcdCalls DEF Exits, Do
<1>3. k'.state[me] # "DORMANT"
  <2>1. Exits \/ Remains
    BY <1>0, SysStepIsStep
  <2>2. Remains \/ (TskExit /\ me # cur)
    BY <1>2, <2>1 DEF Exits
  <2> QED BY <1>0, <2>2, Survives DEF KcdInv
<1> DEFINE Stays == code'[me] = code[me] /\ at'[me] = at[me]
<1>4. ASSUME Stays, message' = message \/ message' = Nothing,
             pc'[me] = pc[me] \/ pc'[me] # "recv"
      PROVE  KcdInv'
  <2>1. KcdCall' = KcdCall /\ Programs[code'[me]] = Programs[code[me]]
    BY <1>4 DEF KcdCall
  <2> QED BY <1>3, <1>4, <2>1 DEF KcdInv
<1>5. CASE UNCHANGED svars
  BY <1>4, <1>5 DEF svars, vars, program, kcd
<1>6. CASE Creates
  <2>1. cur # me
    BY <1>6, KcdCalls DEF Creates, Do
  <2>2. PICK t \in Tids : /\ TskCreate(t, instruction.prio)
                          /\ code' = [code EXCEPT ![t] = instruction.entry]
                          /\ at' = [at EXCEPT ![cur] = instruction.then, ![t] = 1]
    BY <1>6 DEF Creates
  <2>3. instruction.prio \in Priorities
    BY <1>0, <1>6, CallFacts DEF Creates, Do, instruction
  <2>4. t # me
    BY <1>0, <2>2, <2>3, CreateStep DEF KcdInv
  <2>5. Stays /\ pc'[me] = pc[me] /\ message' = message
    <3> HIDE DEF instruction
    <3> QED BY <1>0, <1>1, <1>6, <2>1, <2>2, <2>4 DEF Creates, TskCreate, kcd
  <2> QED BY <1>4, <2>5
<1>7. CASE Exits \/ Idles \/ Interrupted \/ Handles \/ \E c \in Chars \cup {CR} : Types(c)
  <2>1. /\ UNCHANGED <<program, at, message>>
        /\ (UNCHANGED pc) \/ \E c \in {"run", "irq"} : pc' = [pc EXCEPT ![cur] = c]
    BY <1>7 DEF Exits, TskExit, Idles, NullYield, Interrupted, Interrupt, Handles, StoreKey, DropKey,
                ReadKey, InterruptEnds, InterruptUnexpected, Types, KeyPressed, kcd
  <2>2. pc'[me] = pc[me] \/ pc'[me] # "recv"
    BY <1>0, <1>1, <2>1
  <2> QED BY <1>4, <2>1, <2>2 DEF program
<1>8. CASE GoesOn
  <2>1. /\ pc[cur] = "recv" /\ pc' = [pc EXCEPT ![cur] = "run"] /\ UNCHANGED <<code, at>>
        /\ cur # me => message' = message
    BY <1>8 DEF GoesOn, RecvGoesOn, Buffered, program
  <2>2. CASE cur # me
    BY <1>0, <1>1, <1>4, <2>1, <2>2
  <2>3. CASE cur = me
    <3>1. KcdCall' = KcdCall /\ pc'[me] = "run" /\ KcdCall = "deal"
      BY <1>0, <1>1, <2>1, <2>3 DEF KcdInv, KcdCall
    <3> QED BY <1>3, <2>1, <3>1 DEF KcdInv
  <2> QED BY <2>2, <2>3
<1>9. CASE Next1 /\ code' = code /\ cur # me /\ (message' = message \/ message' = Nothing)
           /\ (UNCHANGED pc \/ pc' = [pc EXCEPT ![cur] = "recv"])
  <2>1. Stays
    BY <1>0, <1>1, <1>9 DEF Next1
  <2>2. pc'[me] = pc[me]
    BY <1>0, <1>1, <1>9
  <2> QED BY <1>4, <1>9, <2>1, <2>2
<1>10. CASE Receives1
  <2>1. /\ Next1 /\ code' = code /\ instruction.call = "recv" /\ pc[cur] = "run"
        /\ \/ UNCHANGED pc /\ (cur # me => message' = message)
           \/ pc' = [pc EXCEPT ![cur] = "recv"] /\ UNCHANGED message
    BY <1>10 DEF Receives1, Do, RecvMsg, RecvBlock, Buffered, program
  <2>2. CASE cur # me
    BY <1>9, <2>1, <2>2
  <2>3. CASE cur = me
    <3>1. KcdCall = "recv" /\ KcdCall' = "deal" /\ message = Nothing
      BY <2>1, <2>3, KcdCalls DEF KcdInv
    <3>2. pc'[me] # "recv" \/ message' = Nothing
      BY <2>1, <2>3, <3>1
    <3> QED BY <1>3, <2>1, <3>1, <3>2 DEF KcdInv
  <2> QED BY <2>2, <2>3
<1>11. CASE SetsPrio \/ Yields \/ CreatesMbx \/ Registers \/ Fails \/ KcdDeals
  <2>1. /\ Next1 /\ code' = code /\ UNCHANGED pc /\ pc[cur] = "run"
        /\ message' = message \/ message' = Nothing
        /\ instruction.call = "deal" => message' = Nothing
        /\ instruction.call = "recv" => message' = message
    BY <1>11 DEF SetsPrio, TskSetPrio, Yields, TskYield, CreatesMbx, MbxCreate, Registers, SendMsg, Fails,
         CallFails, KcdDeals, DealsWithReg, DealsWithKey, DealsWithReturn, Forwards, Deals, Do,
         program, kcd, vars
  <2>2. CASE cur # me
    BY <1>9, <2>1, <2>2
  <2>3. CASE cur = me
    <3>1. /\ KcdCall \in {"mbx", "deal"} => KcdCall' = "recv"
          /\ KcdCall = "recv" => KcdCall' = "deal"
          /\ KcdCall \in {"mbx", "recv", "deal"} /\ instruction.call = KcdCall
      BY <2>1, <2>3, KcdCalls
    <3>2. message' = Nothing
      BY <2>1, <3>1 DEF KcdInv
    <3> QED BY <1>3, <2>1, <2>3, <3>1, <3>2 DEF KcdInv
  <2> QED BY <2>2, <2>3
<1> QED BY <1>5, <1>6, <1>7, <1>8, <1>10, <1>11 DEF SysNext, Runs, Call

-------------------------------------------------------------------------------
(* What a step may do to what is on its way to the KCD task, to what the   *)
(* KCD task knows, and to the history.                                     *)
Mail == box[TID_KCD]

Owners == [Chars -> Tids \cup {NOBODY, Gone}]

Quiet ==
  /\ UNCHANGED <<message, Mail, uart, typed, tape, lost, line, identifies>>
  /\ owner' \in Owners
  /\ \A c \in Chars : owner'[c] \in {owner[c], Gone}

RegSent(c) ==
  /\ Mail' = Append(Mail, From(cur, Reg(c)))
  /\ owner' = [owner EXCEPT ![c] = cur]
  /\ UNCHANGED <<message, uart, typed, tape, lost, line, identifies>>

KeyTyped(c) ==
  /\ typed' = typed + 1
  /\ uart' = Append(uart, typed + 1)
  /\ tape' = Append(tape, c)
  /\ UNCHANGED <<message, Mail, lost, line, identifies, owner>>

KeyStored ==
  /\ uart # <<>> /\ uart' = Tail(uart)
  /\ Mail' = Append(Mail, Key(Head(uart)))
  /\ UNCHANGED <<message, typed, tape, lost, line, identifies, owner>>

KeyLost ==
  /\ uart # <<>> /\ uart' = Tail(uart)
  /\ lost' = lost \cup {Head(uart)}
  /\ UNCHANGED <<message, Mail, typed, tape, line, identifies, owner>>

Taken ==
  /\ message = Nothing /\ Mail # <<>>
  /\ message' = Head(Mail) /\ Mail' = Tail(Mail)
  /\ UNCHANGED <<uart, typed, tape, lost, line, identifies, owner>>

RegDealt(t, c) ==
  /\ message = From(t, Reg(c)) /\ message' = Nothing
  /\ K!Register(t, c)
  /\ UNCHANGED <<Mail, uart, typed, tape, lost, owner>>

KeyDealt(n) ==
  /\ message = Key(n) /\ message' = Nothing
  /\ tape[n] # CR /\ line' = Append(line, tape[n])
  /\ UNCHANGED <<Mail, uart, typed, tape, lost, identifies, owner>>

ReturnDealt(n) ==
  /\ message = Key(n) /\ message' = Nothing
  /\ tape[n] = CR /\ line' = <<>>
  /\ Mail' = Mail \/ \E t \in Tids : \E text : Mail' = Append(Mail, From(t, Cmd(text)))
  /\ UNCHANGED <<uart, typed, tape, lost, identifies, owner>>

Kinds ==
  \/ Quiet \/ KeyStored \/ KeyLost \/ Taken
  \/ \E c \in Chars : RegSent(c)
  \/ \E c \in Chars \cup {CR} : KeyTyped(c)
  \/ \E t \in Tids, c \in Chars : RegDealt(t, c)
  \/ \E n \in 1 .. MaxKeys : KeyDealt(n) \/ ReturnDealt(n)

(* Every step is one of these kinds.                                       *)
LEMMA StepKinds ==
  ASSUME RtxInv, ~Overcommit, ProgramInv, KcdTypes, HistoryTypes, KcdInv, [SysNext]_svars
  PROVE  Kinds
<1> DEFINE me == TID_KCD
<1>0. /\ me \in Tids /\ cur \in Tids /\ TableInv /\ RestInv
      /\ box \in [Tids -> Seq(Messages)] /\ typed \in Nat
  BY TaskConstants, TableInvFacts, RestInvFacts DEF RtxInv
<1>1. owner \in Owners
  BY DEF HistoryTypes, Owners
<1>2. ASSUME Mail' = Mail, UNCHANGED <<kcd, history, uart, typed>> PROVE Quiet
  BY <1>1, <1>2 DEF Quiet, kcd, history
<1>3. (UNCHANGED svars) \/ SetsPrio \/ Yields \/ CreatesMbx \/ Fails \/ Idles \/ Interrupted => Quiet
  <2>1. (UNCHANGED svars) \/ SetsPrio \/ Yields \/ CreatesMbx \/ Fails \/ Idles \/ Interrupted
        => UNCHANGED <<box, kcd, history, uart, typed>>
    BY DEF svars, vars, SetsPrio, TskSetPrio, Yields, TskYield, CreatesMbx, MbxCreate, Fails, Idles, NullYield,
           Interrupted, Interrupt
  <2>2. UNCHANGED box => Mail' = Mail
    BY DEF Mail
  <2> QED BY <1>2, <2>1, <2>2
<1>4. CASE Creates
  <2>1. PICK t \in Tids : TskCreate(t, instruction.prio)
    BY <1>4 DEF Creates
  <2>2. instruction.prio \in Priorities
    BY <1>0, <1>4, CallFacts DEF Creates, Do, instruction
  <2>3. t # me
    BY <1>0, <2>1, <2>2, CreateStep DEF KcdInv
  <2>4. Mail' = Mail /\ UNCHANGED <<uart, typed>>
    BY <1>0, <2>1, <2>3 DEF TskCreate, Mail
  <2>5. Quiet
    BY <1>2, <1>4, <2>4 DEF Creates
  <2> QED BY <2>5 DEF Kinds
<1>5. CASE Exits
  <2>1. /\ UNCHANGED <<box, uart, typed, kcd, tape, lost>>
        /\ owner' = [c \in Chars |-> IF owner[c] = cur THEN Gone ELSE owner[c]]
    BY <1>5 DEF Exits, TskExit
  <2>2. owner' \in Owners /\ \A c \in Chars : owner'[c] \in {owner[c], Gone}
    BY <1>1, <2>1 DEF Owners
  <2>3. Quiet
    BY <2>1, <2>2 DEF Quiet, Mail, kcd
  <2> QED BY <2>3 DEF Kinds
<1>6. CASE Registers
  <2> DEFINE c == instruction.char
  <2>1. c \in Chars
    BY <1>0, <1>6, CallFacts DEF Registers, Do, instruction
  <2>2. /\ box' = [box EXCEPT ![me] = Append(@, From(cur, Reg(c)))]
        /\ owner' = [owner EXCEPT ![c] = cur]
        /\ UNCHANGED <<uart, typed, kcd, tape, lost>>
    BY <1>6 DEF Registers, SendMsg, k_send_msg
  <2> HIDE DEF c
  <2>3. RegSent(c)
    BY <1>0, <2>2 DEF RegSent, Mail, kcd
  <2> QED BY <2>1, <2>3 DEF Kinds
<1>7. ASSUME cur \in mbx, box[cur] # <<>>, box' = [box EXCEPT ![cur] = Tail(@)], Buffered,
             UNCHANGED <<uart, typed, identifies, line, history>>, cur = me => message = Nothing
      PROVE  Quiet \/ Taken
  <2>1. CASE cur = me
    <3>1. Mail # <<>> /\ message' = Head(Mail) /\ Mail' = Tail(Mail)
      BY <1>0, <1>7, <2>1 DEF Mail, Buffered
    <3> QED BY <1>7, <2>1, <3>1 DEF Taken, history
  <2>2. CASE cur # me
    <3>1. Mail' = Mail /\ message' = message
      BY <1>0, <1>7, <2>2 DEF Mail, Buffered
    <3> QED BY <1>1, <1>7, <3>1 DEF Quiet, history
  <2> QED BY <2>1, <2>2
<1>8. CASE Receives1
  <2>1. cur = me => message = Nothing
    BY <1>8, KcdCalls DEF Receives1, Do, KcdInv
  <2>2. CASE RecvMsg /\ Buffered
    <3>1. Quiet \/ Taken
      BY <1>7, <1>8, <2>1, <2>2 DEF Receives1, RecvMsg
    <3> QED BY <3>1 DEF Kinds
  <2>3. CASE RecvBlock /\ UNCHANGED message
    <3>1. Quiet
      BY <1>1, <1>8, <2>3 DEF Receives1, RecvBlock, Quiet, Mail, history
    <3> QED BY <3>1 DEF Kinds
  <2> QED BY <1>8, <2>2, <2>3 DEF Receives1
<1>9. CASE GoesOn
  <2>1. cur = me => message = Nothing
    BY <1>9 DEF GoesOn, RecvGoesOn, KcdInv
  <2>2. Quiet \/ Taken
    BY <1>7, <1>9, <2>1 DEF GoesOn, RecvGoesOn
  <2> QED BY <2>2 DEF Kinds
<1>10. CASE DealsWithReg
  <2>1. /\ IsReg(message) /\ message' = Nothing
        /\ K!Register(message.from, message.holds.text[1])
        /\ UNCHANGED <<box, uart, typed, history>>
    BY <1>10 DEF DealsWithReg, Deals, vars
  <2>2. PICK t \in Tids, c \in Chars :
          message = From(t, Reg(c)) /\ message.from = t /\ message.holds.text[1] = c
    BY <2>1, MessageFacts DEF KcdTypes
  <2>3. K!Register(t, c)
    BY <2>1, <2>2
  <2>4. RegDealt(t, c)
    BY <2>1, <2>2, <2>3 DEF RegDealt, Mail, history
  <2> QED BY <2>4 DEF Kinds
<1>11. ASSUME IsKey(message) PROVE \E n \in 1 .. MaxKeys : message = Key(n) /\ message.key = n
  BY <1>11, MessageFacts DEF KcdTypes
<1>12. CASE DealsWithKey
  <2>1. /\ IsKey(message) /\ tape[message.key] # CR /\ message' = Nothing
        /\ line' = Append(line, tape[message.key])
        /\ UNCHANGED <<box, uart, typed, history, identifies>>
    BY <1>12 DEF DealsWithKey, Typed, Deals, K!KeyIn, vars
  <2>2. PICK n \in 1 .. MaxKeys : message = Key(n) /\ message.key = n
    BY <1>11, <2>1
  <2>3. KeyDealt(n)
    BY <2>1, <2>2 DEF KeyDealt, Mail, history
  <2> QED BY <2>3 DEF Kinds
<1>13. CASE DealsWithReturn
  <2>1. /\ IsKey(message) /\ tape[message.key] = CR /\ message' = Nothing
        /\ line' = <<>>
        /\ UNCHANGED <<box, uart, typed, history, identifies>>
    BY <1>13 DEF DealsWithReturn, Returned, Deals, K!EmptyLine, K!Rejected, K!Forwarded, K!Cleared, vars
  <2>2. PICK n \in 1 .. MaxKeys : message = Key(n) /\ message.key = n
    BY <1>11, <2>1
  <2>3. ReturnDealt(n)
    BY <2>1, <2>2 DEF ReturnDealt, Mail, history
  <2> QED BY <2>3 DEF Kinds
<1>14. ASSUME NEW r \in Tids, Forwards(r) PROVE Kinds
  <2> DEFINE x == From(cur, Cmd(K!Command))
  <2>1. /\ IsKey(message) /\ tape[message.key] = CR /\ message' = Nothing
        /\ line' = <<>>
        /\ box' = [box EXCEPT ![r] = Append(@, x)]
        /\ UNCHANGED <<uart, typed, history, identifies>>
    BY <1>14 DEF Forwards, SendMsg, k_send_msg, Returned, Deals, K!Forwarded, K!Cleared
  <2>2. PICK n \in 1 .. MaxKeys : message = Key(n) /\ message.key = n
    BY <1>11, <2>1
  <2>3. Mail' = Mail \/ \E t \in Tids : \E text : Mail' = Append(Mail, From(t, Cmd(text)))
    <3>1. Mail' = Mail \/ Mail' = Append(Mail, x)
      <4> HIDE DEF x
      <4> QED BY <1>0, <2>1 DEF Mail
    <3> QED BY <1>0, <3>1
  <2>4. ReturnDealt(n)
    <3> HIDE DEF x
    <3> QED BY <2>1, <2>2, <2>3 DEF ReturnDealt, history
  <2> QED BY <2>4 DEF Kinds
<1>15. ASSUME NEW c \in Chars \cup {CR}, Types(c) PROVE Kinds
  <2>1. KeyTyped(c)
    BY <1>0, <1>15 DEF Types, KeyPressed, KeyTyped, Mail, kcd
  <2> QED BY <2>1 DEF Kinds
<1>16. CASE Handles
  <2>1. CASE StoreKey /\ UNCHANGED lost
    <3>1. /\ uart # <<>> /\ uart' = Tail(uart)
          /\ box' = [box EXCEPT ![me] = Append(@, Key(Head(uart)))]
          /\ UNCHANGED <<kcd, typed, tape, lost, owner>>
      BY <1>16, <2>1 DEF Handles, StoreKey, ReadKey, Rx_Data_Ready, Rx_Read_Data, k_send_msg
    <3>2. KeyStored
      BY <1>0, <3>1 DEF KeyStored, Mail, kcd
    <3> QED BY <3>2 DEF Kinds
  <2>2. CASE DropKey /\ lost' = lost \cup {Head(uart)}
    <3>1. KeyLost
      BY <1>16, <2>2 DEF Handles, DropKey, ReadKey, Rx_Data_Ready, Rx_Read_Data, KeyLost, Mail, kcd
    <3> QED BY <3>1 DEF Kinds
  <2>3. CASE (InterruptEnds \/ InterruptUnexpected) /\ UNCHANGED lost
    <3>1. UNCHANGED <<box, kcd, uart, typed, history>>
      BY <1>16, <2>3 DEF Handles, InterruptEnds, InterruptUnexpected, history
    <3>2. Quiet
      BY <1>2, <3>1 DEF Mail
    <3> QED BY <3>2 DEF Kinds
  <2> QED BY <1>16, <2>1, <2>2, <2>3 DEF Handles
<1>17. CASE Quiet
  BY <1>17 DEF Kinds
<1> QED BY <1>3, <1>4, <1>5, <1>6, <1>8, <1>9, <1>10, <1>12, <1>13, <1>14, <1>15, <1>16, <1>17
        DEF SysNext, Runs, Call, KcdDeals

-------------------------------------------------------------------------------
(* Ways, position by position.                                             *)
Heard == Messages \cup {Nothing}

IsWay(w, m, b, u) ==
  /\ w \in Seq(Heard)
  /\ Len(w) = 1 + Len(b) + Len(u)
  /\ \A i \in 1 .. 1 + Len(b) + Len(u) :
       w[i] = IF i = 1 THEN m ELSE IF i <= 1 + Len(b) THEN b[i - 1] ELSE Key(u[i - 1 - Len(b)])

(* A way, position by position.                                            *)
LEMMA WayFacts ==
  ASSUME NEW m \in Heard, NEW b \in Seq(Messages), NEW u \in Seq(1 .. MaxKeys)
  PROVE  IsWay(WayOf(m, b, u), m, b, u)
<1> DEFINE o == <<m>>
           q == [i \in DOMAIN u |-> Key(u[i])]
           p == o \o b
           w == p \o q
<1>1. Len(u) \in Nat /\ DOMAIN u = 1 .. Len(u) /\ Len(b) \in Nat
  BY LenProperties
<1>2. \A n \in 1 .. MaxKeys : Key(n) \in Heard
  BY DEF Messages, Heard
<1>3. q \in Seq(Heard) /\ Len(q) = Len(u) /\ \A i \in 1 .. Len(u) : q[i] = Key(u[i])
  <2>1. q \in [1 .. Len(u) -> Heard]
    <3>1. \A i \in 1 .. Len(u) : u[i] \in 1 .. MaxKeys
      BY ElementOfSeq
    <3> QED BY <1>1, <1>2, <3>1
  <2>2. q \in Seq(Heard) /\ Len(q) = Len(u)
    <3> HIDE DEF q
    <3> QED BY <1>1, <2>1, LenProperties
  <2> QED BY <1>1, <2>2
<1>4. o \in Seq(Heard) /\ Len(o) = 1 /\ o[1] = m
  OBVIOUS
<1>5. b \in Seq(Heard)
  <2>1. \A i \in 1 .. Len(b) : b[i] \in Heard
    BY ElementOfSeq DEF Heard
  <2> QED BY <1>1, <2>1, LenProperties
<1> HIDE DEF o, q
<1>6. /\ p \in Seq(Heard) /\ Len(p) = 1 + Len(b)
      /\ \A j \in 1 .. Len(o) : p[j] = o[j]
      /\ \A j \in 1 .. Len(b) : p[Len(o) + j] = b[j]
  <2>1. o \in Seq(Heard) /\ b \in Seq(Heard)
    BY <1>4, <1>5
  <2>2. Len(p) = Len(o) + Len(b) /\ Len(o) = 1
    BY <1>4, <2>1, ConcatFacts
  <2>3. /\ p \in Seq(Heard)
        /\ \A j \in 1 .. Len(o) : p[j] = o[j]
        /\ \A j \in 1 .. Len(b) : p[Len(o) + j] = b[j]
    BY <2>1, ConcatFacts
  <2> QED BY <2>2, <2>3
<1> HIDE DEF p
<1>7. /\ w \in Seq(Heard) /\ Len(w) = Len(p) + Len(q)
      /\ \A j \in 1 .. Len(p) : w[j] = p[j]
      /\ \A j \in 1 .. Len(q) : w[Len(p) + j] = q[j]
  <2>1. p \in Seq(Heard) /\ q \in Seq(Heard)
    BY <1>3, <1>6
  <2> QED BY <2>1, ConcatFacts
<1> HIDE DEF w
<1>8. ASSUME NEW i \in 1 .. 1 + Len(b) + Len(u)
      PROVE  w[i] = IF i = 1 THEN m ELSE IF i <= 1 + Len(b) THEN b[i - 1] ELSE Key(u[i - 1 - Len(b)])
  <2>1. CASE i = 1
    BY <1>1, <1>4, <1>6, <1>7, <2>1
  <2>2. CASE i # 1 /\ i <= 1 + Len(b)
    <3>1. i - 1 \in 1 .. Len(b) /\ i \in 1 .. Len(p) /\ Len(o) + (i - 1) = i
      BY <1>1, <1>4, <1>6, <2>2
    <3>2. p[Len(o) + (i - 1)] = b[i - 1] /\ w[i] = p[i]
      BY <1>6, <1>7, <3>1
    <3> QED BY <2>2, <3>1, <3>2
  <2>3. CASE i > 1 + Len(b)
    <3>1. i - 1 - Len(b) \in 1 .. Len(q) /\ Len(p) + (i - 1 - Len(b)) = i
      BY <1>1, <1>3, <1>6, <2>3
    <3>2. w[Len(p) + (i - 1 - Len(b))] = q[i - 1 - Len(b)]
      BY <1>7, <3>1
    <3>3. i # 1 /\ ~(i <= 1 + Len(b)) /\ i - 1 - Len(b) \in 1 .. Len(u)
      BY <1>1, <1>3, <2>3, <3>1
    <3> QED BY <1>3, <3>1, <3>2, <3>3
  <2> QED BY <1>1, <2>1, <2>2, <2>3
<1>9. w = WayOf(m, b, u)
  BY DEF w, p, q, o, WayOf
<1> QED BY <1>1, <1>3, <1>6, <1>7, <1>8, <1>9 DEF IsWay

(* A key is on a way, and before another.                                  *)
On(w, n) == \E i \in 1 .. Len(w) : w[i] = Key(n)

Ahead(w, n, m) == \E i, j \in 1 .. Len(w) : i < j /\ w[i] = Key(n) /\ w[j] = Key(m)

(* What becomes of a way: the keys stay, one goes, one is added.           *)
Within(v, w) ==
  /\ \A n \in Nat : On(v, n) => On(w, n)
  /\ \A n, m \in Nat : Ahead(v, n, m) => Ahead(w, n, m)

Keeps(w, v) == Within(v, w) /\ \A n \in Nat : On(w, n) => On(v, n)

Loses(w, v, n) ==
  /\ Within(v, w) /\ On(w, n)
  /\ \A m \in Nat : On(w, m) => On(v, m) \/ m = n
  /\ \A m \in Nat : On(v, m) => Ahead(w, m, n) \/ Ahead(w, n, m)

LosesFirst(w, v, n) == Loses(w, v, n) /\ \A m \in Nat : On(v, m) => Ahead(w, n, m)

Gains(w, v, n) ==
  /\ \A m \in Nat : On(v, m) <=> On(w, m) \/ m = n
  /\ \A l, m \in Nat : Ahead(v, l, m) => Ahead(w, l, m) \/ (On(w, l) /\ m = n)

(* A way of which every key is at a later or earlier place of the other.   *)
Embeds(v, w, f) ==
  /\ \A i \in 1 .. Len(v) : (\E n \in Nat : v[i] = Key(n)) => f[i] \in 1 .. Len(w) /\ v[i] = w[f[i]]
  /\ \A i, j \in 1 .. Len(v) :
       i < j /\ (\E n \in Nat : v[i] = Key(n)) /\ (\E n \in Nat : v[j] = Key(n)) => f[i] < f[j]

LEMMA EmbedsWithin ==
  ASSUME NEW v, NEW w, NEW f, Embeds(v, w, f)
  PROVE  Within(v, w)
<1>1. ASSUME NEW n \in Nat, On(v, n) PROVE On(w, n)
  BY <1>1 DEF On, Embeds
<1>2. ASSUME NEW n \in Nat, NEW m \in Nat, Ahead(v, n, m) PROVE Ahead(w, n, m)
  <2>1. PICK i, j \in 1 .. Len(v) : i < j /\ v[i] = Key(n) /\ v[j] = Key(m)
    BY <1>2 DEF Ahead
  <2>2. /\ f[i] \in 1 .. Len(w) /\ f[j] \in 1 .. Len(w) /\ f[i] < f[j]
        /\ w[f[i]] = Key(n) /\ w[f[j]] = Key(m)
    BY <2>1 DEF Embeds
  <2> QED BY <2>2 DEF Ahead
<1> QED BY <1>1, <1>2 DEF Within

(* A key message is its key, and no other message.                         *)
LEMMA KeyFacts ==
  /\ \A n, m : Key(n) = Key(m) => n = m
  /\ \A n : Key(n) # Nothing
  /\ \A n, t, h : Key(n) # From(t, h)
<1>1. \A n : Key(n).key = n /\ "key" \in DOMAIN Key(n) /\ "key" \notin DOMAIN Nothing
  BY DEF Key, Nothing
<1>2. \A t, h : "key" \notin DOMAIN From(t, h)
  BY DEF From
<1>3. \A n, m : Key(n) = Key(m) => n = m
  BY <1>1
<1>4. \A n : Key(n) # Nothing
  BY <1>1
<1>5. \A n, t, h : Key(n) # From(t, h)
  BY <1>1, <1>2
<1> QED BY <1>3, <1>4, <1>5

(* The way when a message that is no key joins the mailbox ...             *)
LEMMA WayLonger ==
  ASSUME NEW m \in Heard, NEW b \in Seq(Messages), NEW u \in Seq(1 .. MaxKeys), NEW x \in Messages,
         \A n : x # Key(n), NEW w, IsWay(w, m, b, u), NEW v, IsWay(v, m, Append(b, x), u)
  PROVE  Keeps(w, v)
<1> DEFINE l == Len(b)
           k0 == Len(u)
           f == [i \in 1 .. 2 + l + k0 |-> IF i <= 1 + l THEN i ELSE i - 1]
           g == [i \in 1 .. 1 + l + k0 |-> IF i <= 1 + l THEN i ELSE i + 1]
<1>1. /\ l \in Nat /\ k0 \in Nat /\ Len(Append(b, x)) = l + 1
      /\ \A i \in 1 .. l : Append(b, x)[i] = b[i]
      /\ Append(b, x)[l + 1] = x
  BY AppendProperties, LenProperties
<1> DEFINE a == Append(b, x)
<1>2. Len(w) = 1 + l + k0 /\ Len(v) = 2 + l + k0
  BY <1>1 DEF IsWay
<1>3. \A i \in 1 .. 1 + l + k0 :
        w[i] = IF i = 1 THEN m ELSE IF i <= 1 + l THEN b[i - 1] ELSE Key(u[i - 1 - l])
  BY DEF IsWay
<1>4. \A i \in 1 .. 2 + l + k0 :
        v[i] = IF i = 1 THEN m ELSE IF i <= 2 + l THEN a[i - 1] ELSE Key(u[i - 2 - l])
  <2>1. \A i \in 1 .. 1 + (l + 1) + k0 :
          v[i] = IF i = 1 THEN m ELSE IF i <= 1 + (l + 1) THEN a[i - 1] ELSE Key(u[i - 1 - (l + 1)])
    BY <1>1 DEF IsWay
  <2> HIDE DEF l, k0, a
  <2> QED BY <1>1, <2>1
<1>5. v[2 + l] = x
  <2>1. 2 + l \in 1 .. 2 + l + k0 /\ 2 + l # 1 /\ 2 + l - 1 = l + 1
    BY <1>1
  <2> HIDE DEF l, k0
  <2>2. v[2 + l] = a[2 + l - 1]
    BY <1>1, <1>4, <2>1
  <2> QED BY <1>1, <2>1, <2>2
<1>6. \A i \in 1 .. 2 + l + k0 : i <= 1 + l => v[i] = w[i]
  <2> HIDE DEF l, k0, a
  <2>1. \A i \in 1 .. l : a[i] = b[i]
    BY <1>1 DEF a
  <2>2. ASSUME NEW i \in 1 .. 2 + l + k0, i <= 1 + l PROVE v[i] = w[i]
    <3>1. i \in 1 .. 1 + l + k0 /\ i <= 2 + l /\ (i # 1 => i - 1 \in 1 .. l)
      BY <1>1, <2>2
    <3>2. v[i] = IF i = 1 THEN m ELSE a[i - 1]
      BY <1>4, <3>1
    <3>3. w[i] = IF i = 1 THEN m ELSE b[i - 1]
      BY <1>3, <2>2, <3>1
    <3> QED BY <2>1, <3>1, <3>2, <3>3
  <2> QED BY <2>2
<1>7. \A i \in 1 .. 2 + l + k0 : i > 2 + l => v[i] = w[i - 1]
  <2> HIDE DEF l, k0, a
  <2>1. ASSUME NEW i \in 1 .. 2 + l + k0, i > 2 + l PROVE v[i] = w[i - 1]
    <3>1. i - 1 \in 1 .. 1 + l + k0 /\ i - 1 # 1 /\ ~(i - 1 <= 1 + l) /\ i - 1 - 1 - l = i - 2 - l
          /\ i # 1 /\ ~(i <= 2 + l)
      BY <1>1, <2>1
    <3>2. w[i - 1] = Key(u[i - 1 - 1 - l]) /\ v[i] = Key(u[i - 2 - l])
      BY <1>3, <1>4, <3>1
    <3> QED BY <3>1, <3>2
  <2> QED BY <2>1
<1> HIDE DEF l, k0
<1>8. /\ \A i \in 1 .. 2 + l + k0 : f[i] = IF i <= 1 + l THEN i ELSE i - 1
      /\ \A i \in 1 .. 1 + l + k0 : g[i] = IF i <= 1 + l THEN i ELSE i + 1
  OBVIOUS
<1> HIDE DEF f, g
<1>9. Embeds(v, w, f)
  <2>1. ASSUME NEW i \in 1 .. 2 + l + k0, \E n \in Nat : v[i] = Key(n) PROVE i # 2 + l
    BY <1>5, <2>1
  <2>2. ASSUME NEW i \in 1 .. 2 + l + k0, i # 2 + l
        PROVE  f[i] \in 1 .. 1 + l + k0 /\ v[i] = w[f[i]]
    <3>1. CASE i <= 1 + l
      <4>1. f[i] = i
        BY <1>8, <3>1
      <4>2. v[i] = w[i]
        BY <1>6, <3>1
      <4> QED BY <1>1, <3>1, <4>1, <4>2
    <3>2. CASE ~(i <= 1 + l)
      <4>1. f[i] = i - 1
        BY <1>8, <3>2
      <4>2. i > 2 + l
        BY <1>1, <2>2, <3>2
      <4>3. v[i] = w[i - 1]
        BY <1>7, <4>2
      <4> QED BY <1>1, <4>1, <4>2, <4>3
    <3> QED BY <3>1, <3>2
  <2>3. ASSUME NEW i \in 1 .. 2 + l + k0, NEW j \in 1 .. 2 + l + k0,
               i < j, i # 2 + l, j # 2 + l
        PROVE  f[i] < f[j]
    <3>1. /\ f[i] = IF i <= 1 + l THEN i ELSE i - 1
          /\ f[j] = IF j <= 1 + l THEN j ELSE j - 1
      BY <1>8
    <3> QED BY <1>1, <2>3, <3>1
  <2> QED BY <1>2, <2>1, <2>2, <2>3 DEF Embeds
<1>10. Embeds(w, v, g)
  <2>1. ASSUME NEW i \in 1 .. 1 + l + k0 PROVE g[i] \in 1 .. 2 + l + k0 /\ w[i] = v[g[i]]
    <3>1. CASE i <= 1 + l
      <4>1. g[i] = i /\ i \in 1 .. 2 + l + k0
        BY <1>1, <1>8, <3>1
      <4>2. v[i] = w[i]
        BY <1>6, <3>1, <4>1
      <4> QED BY <4>1, <4>2
    <3>2. CASE ~(i <= 1 + l)
      <4>1. g[i] = i + 1
        BY <1>8, <3>2
      <4>2. i + 1 > 2 + l /\ i + 1 \in 1 .. 2 + l + k0 /\ (i + 1) - 1 = i
        BY <1>1, <3>2
      <4>3. v[i + 1] = w[(i + 1) - 1]
        BY <1>7, <4>2
      <4> QED BY <4>1, <4>2, <4>3
    <3> QED BY <3>1, <3>2
  <2>2. ASSUME NEW i \in 1 .. 1 + l + k0, NEW j \in 1 .. 1 + l + k0, i < j
        PROVE  g[i] < g[j]
    <3>1. /\ g[i] = IF i <= 1 + l THEN i ELSE i + 1
          /\ g[j] = IF j <= 1 + l THEN j ELSE j + 1
      BY <1>8
    <3> QED BY <1>1, <2>2, <3>1
  <2> QED BY <1>2, <2>1, <2>2 DEF Embeds
<1> QED BY <1>9, <1>10, EmbedsWithin DEF Keeps, Within

(* ... when the KCD task has dealt with its message ...                    *)
LEMMA WayFreed ==
  ASSUME NEW m \in Heard, NEW b \in Seq(Messages), NEW u \in Seq(1 .. MaxKeys),
         NEW w, IsWay(w, m, b, u), NEW v, IsWay(v, Nothing, b, u)
  PROVE  /\ (\A n : m # Key(n)) => Keeps(w, v)
         /\ \A n \in Nat : m = Key(n) => LosesFirst(w, v, n)
<1> DEFINE f == [i \in 1 .. Len(v) |-> i]
<1>1. /\ Len(w) \in Nat /\ Len(w) >= 1 /\ Len(v) = Len(w) /\ w[1] = m /\ v[1] = Nothing
      /\ \A i \in 1 .. Len(w) : i # 1 => v[i] = w[i]
  <2> DEFINE e == 1 + Len(b) + Len(u)
  <2>1. Len(b) \in Nat /\ Len(u) \in Nat
    BY LenProperties
  <2>2. /\ Len(w) = e /\ Len(v) = e
        /\ \A i \in 1 .. e : w[i] = IF i = 1 THEN m ELSE IF i <= 1 + Len(b) THEN b[i - 1] ELSE Key(u[i - 1 - Len(b)])
        /\ \A i \in 1 .. e : v[i] = IF i = 1 THEN Nothing ELSE IF i <= 1 + Len(b) THEN b[i - 1] ELSE Key(u[i - 1 - Len(b)])
    BY DEF IsWay
  <2>3. e \in Nat /\ 1 \in 1 .. e
    BY <2>1
  <2> HIDE DEF e
  <2> QED BY <2>2, <2>3
<1>2. \A n : v[1] # Key(n)
  BY <1>1, KeyFacts
<1>3. Within(v, w)
  <2>1. Embeds(v, w, f)
    BY <1>1, <1>2 DEF Embeds
  <2> QED BY <2>1, EmbedsWithin
<1>4. ASSUME \A n : m # Key(n) PROVE Keeps(w, v)
  <2>1. ASSUME NEW n \in Nat, On(w, n) PROVE On(v, n)
    BY <1>1, <1>4, <2>1 DEF On
  <2> QED BY <1>3, <2>1 DEF Keeps
<1>5. ASSUME NEW n \in Nat, m = Key(n) PROVE LosesFirst(w, v, n)
  <2>1. On(w, n)
    BY <1>1, <1>5 DEF On
  <2>2. ASSUME NEW a \in Nat, On(w, a), a # n PROVE On(v, a)
    BY <1>1, <1>5, <2>2, KeyFacts DEF On
  <2>3. ASSUME NEW a \in Nat, On(v, a) PROVE Ahead(w, n, a)
    <3>1. PICK i \in 1 .. Len(v) : v[i] = Key(a)
      BY <2>3 DEF On
    <3>2. i # 1
      BY <1>2, <3>1
    <3>3. 1 < i /\ w[i] = Key(a) /\ w[1] = Key(n) /\ i \in 1 .. Len(w) /\ 1 \in 1 .. Len(w)
      BY <1>1, <1>5, <3>1, <3>2
    <3> QED BY <3>3 DEF Ahead
  <2> QED BY <1>3, <2>1, <2>2, <2>3 DEF LosesFirst, Loses
<1> QED BY <1>4, <1>5

LEMMA KeepsAfter ==
  ASSUME NEW w, NEW x, NEW v, NEW n \in Nat, LosesFirst(w, x, n), Keeps(x, v)
  PROVE  LosesFirst(w, v, n)
BY DEF LosesFirst, Loses, Keeps, Within

(* ... when the handler moves a key from the UART to the mailbox ...       *)
LEMMA WayStored ==
  ASSUME NEW m \in Heard, NEW b \in Seq(Messages), NEW u \in Seq(1 .. MaxKeys), u # <<>>,
         NEW w, IsWay(w, m, b, u), NEW v, IsWay(v, m, Append(b, Key(Head(u))), Tail(u))
  PROVE  Keeps(w, v)
<1> DEFINE l == Len(b)
           k0 == Len(u)
           x == Key(Head(u))
           a == Append(b, x)
           d == Tail(u)
<1>1. /\ l \in Nat /\ k0 \in Nat /\ k0 >= 1
      /\ x = Key(u[1]) /\ x \in Messages
      /\ Len(d) = k0 - 1 /\ \A i \in 1 .. k0 - 1 : d[i] = u[i + 1]
  <2>0. Len(u) \in Nat /\ Len(u) # 0
    BY LenProperties, EmptySeq
  <2>1. u[1] \in 1 .. MaxKeys /\ Head(u) = u[1]
    <3>1. 1 \in 1 .. Len(u)
      BY <2>0
    <3>2. u[1] \in 1 .. MaxKeys
      BY <3>1, ElementOfSeq
    <3> QED BY <3>2, HeadTailProperties
  <2>2. x \in Messages
    BY <2>1 DEF Messages
  <2> QED BY <2>1, <2>2, HeadTailProperties, LenProperties, EmptySeq
<1>2. Len(a) = l + 1 /\ (\A i \in 1 .. l : a[i] = b[i]) /\ a[l + 1] = x
  <2> HIDE DEF x
  <2> QED BY <1>1, AppendProperties, LenProperties
<1>3. /\ Len(w) = 1 + l + k0
      /\ \A i \in 1 .. 1 + l + k0 :
           w[i] = IF i = 1 THEN m ELSE IF i <= 1 + l THEN b[i - 1] ELSE Key(u[i - 1 - l])
  BY DEF IsWay
<1>4. /\ Len(v) = 1 + Len(a) + Len(d)
      /\ \A i \in 1 .. 1 + Len(a) + Len(d) :
           v[i] = IF i = 1 THEN m ELSE IF i <= 1 + Len(a) THEN a[i - 1] ELSE Key(d[i - 1 - Len(a)])
  BY DEF IsWay
<1> HIDE DEF l, k0, x, a, d
<1>5. Len(v) = Len(w)
  BY <1>1, <1>2, <1>3, <1>4
<1>6. ASSUME NEW i \in 1 .. Len(w) PROVE v[i] = w[i]
  <2>1. i \in 1 .. 1 + l + k0 /\ i \in 1 .. 1 + Len(a) + Len(d)
    BY <1>3, <1>4, <1>5
  <2>2. CASE i <= 1 + l
    <3>1. i <= 1 + Len(a) /\ (i # 1 => i - 1 \in 1 .. l)
      BY <1>1, <1>2, <2>1, <2>2
    <3> QED BY <1>2, <1>3, <1>4, <2>1, <2>2, <3>1
  <2>3. CASE i = 2 + l
    <3>1. i # 1 /\ i <= 1 + Len(a) /\ ~(i <= 1 + l) /\ i - 1 = l + 1 /\ i - 1 - l = 1
      BY <1>1, <1>2, <2>3
    <3>2. v[i] = a[i - 1] /\ w[i] = Key(u[i - 1 - l])
      BY <1>3, <1>4, <2>1, <3>1
    <3> QED BY <1>1, <1>2, <3>1, <3>2
  <2>4. CASE i > 2 + l
    <3>1. /\ i # 1 /\ ~(i <= 1 + Len(a)) /\ ~(i <= 1 + l)
          /\ i - 1 - Len(a) \in 1 .. k0 - 1 /\ i - 1 - Len(a) + 1 = i - 1 - l
      BY <1>1, <1>2, <2>1, <2>4
    <3>2. v[i] = Key(d[i - 1 - Len(a)]) /\ w[i] = Key(u[i - 1 - l])
      BY <1>3, <1>4, <2>1, <3>1
    <3>3. d[i - 1 - Len(a)] = u[i - 1 - Len(a) + 1]
      BY <1>1, <3>1
    <3> QED BY <3>1, <3>2, <3>3
  <2> QED BY <1>1, <2>1, <2>2, <2>3, <2>4
<1> QED BY <1>5, <1>6 DEF Keeps, Within, On, Ahead

(* ... when the KCD task receives the next message ...                     *)
LEMMA WayTaken ==
  ASSUME NEW b \in Seq(Messages), NEW u \in Seq(1 .. MaxKeys), b # <<>>,
         NEW w, IsWay(w, Nothing, b, u), NEW v, IsWay(v, Head(b), Tail(b), u)
  PROVE  Keeps(w, v)
<1> DEFINE l == Len(b)
           k0 == Len(u)
           a == Tail(b)
           f == [i \in 1 .. l + k0 |-> i + 1]
           g == [i \in 1 .. 1 + l + k0 |-> i - 1]
<1>1. /\ l \in Nat /\ k0 \in Nat /\ l >= 1
      /\ Head(b) = b[1] /\ Len(a) = l - 1 /\ \A i \in 1 .. l - 1 : a[i] = b[i + 1]
  BY HeadTailProperties, LenProperties, EmptySeq
<1>2. /\ Len(w) = 1 + l + k0
      /\ \A i \in 1 .. 1 + l + k0 :
           w[i] = IF i = 1 THEN Nothing ELSE IF i <= 1 + l THEN b[i - 1] ELSE Key(u[i - 1 - l])
  BY DEF IsWay
<1>3. /\ Len(v) = 1 + Len(a) + k0
      /\ \A i \in 1 .. 1 + Len(a) + k0 :
           v[i] = IF i = 1 THEN Head(b) ELSE IF i <= 1 + Len(a) THEN a[i - 1] ELSE Key(u[i - 1 - Len(a)])
  BY DEF IsWay
<1> HIDE DEF l, k0, a
<1>4. Len(v) = l + k0
  BY <1>1, <1>3
<1>5. ASSUME NEW i \in 1 .. Len(v) PROVE i + 1 \in 1 .. Len(w) /\ v[i] = w[i + 1]
  <2>0. i \in 1 .. l + k0 /\ Len(a) = l - 1 /\ 1 + Len(a) + k0 = l + k0
    BY <1>1, <1>4
  <2>1. i + 1 \in 1 .. 1 + l + k0 /\ i \in 1 .. 1 + Len(a) + k0 /\ i + 1 # 1
        /\ (i + 1) - 1 - l = i - 1 - Len(a) /\ (i + 1) - 1 = i
    BY <1>1, <2>0
  <2>2. CASE i = 1
    <3>1. i + 1 <= 1 + l
      BY <1>1, <2>2
    <3> QED BY <1>1, <1>2, <1>3, <2>1, <2>2, <3>1
  <2>3. CASE i # 1 /\ i <= l
    <3>1. i - 1 \in 1 .. l - 1 /\ i <= 1 + Len(a) /\ i + 1 <= 1 + l /\ i - 1 + 1 = i
      BY <1>1, <2>1, <2>3
    <3>2. v[i] = a[i - 1] /\ w[i + 1] = b[(i + 1) - 1]
      BY <1>2, <1>3, <2>1, <2>3, <3>1
    <3> QED BY <1>1, <1>2, <2>1, <3>1, <3>2
  <2>4. CASE i > l
    <3>1. i # 1 /\ ~(i <= 1 + Len(a)) /\ ~(i + 1 <= 1 + l)
      BY <1>1, <2>1, <2>4
    <3>2. v[i] = Key(u[i - 1 - Len(a)])
      BY <1>3, <2>1, <3>1
    <3>3. w[i + 1] = Key(u[(i + 1) - 1 - l])
      BY <1>2, <2>1, <3>1
    <3> QED BY <1>2, <2>1, <3>2, <3>3
  <2> QED BY <1>1, <2>1, <2>2, <2>3, <2>4
<1>6. Embeds(v, w, f)
  BY <1>1, <1>4, <1>5 DEF Embeds
<1>7. Embeds(w, v, g)
  <2>1. \A n : w[1] # Key(n)
    BY <1>1, <1>2, KeyFacts
  <2>2. ASSUME NEW i \in 1 .. Len(w), \E n \in Nat : w[i] = Key(n)
        PROVE  g[i] \in 1 .. Len(v) /\ w[i] = v[g[i]]
    <3>1. i # 1
      BY <2>1, <2>2
    <3>2. i - 1 \in 1 .. Len(v) /\ i - 1 + 1 = i /\ g[i] = i - 1
      BY <1>1, <1>2, <1>4, <3>1
    <3>3. v[i - 1] = w[i - 1 + 1]
      BY <1>5, <3>2
    <3> QED BY <3>2, <3>3
  <2>3. \A i, j \in 1 .. Len(w) : i < j => g[i] < g[j]
    BY <1>1, <1>2
  <2> QED BY <2>2, <2>3 DEF Embeds
<1> QED BY <1>6, <1>7, EmbedsWithin DEF Keeps, Within

(* ... when a key is dropped ...                                           *)
LEMMA WayLost ==
  ASSUME NEW m \in Heard, NEW b \in Seq(Messages), NEW u \in Seq(1 .. MaxKeys), u # <<>>,
         NEW w, IsWay(w, m, b, u), NEW v, IsWay(v, m, b, Tail(u))
  PROVE  Loses(w, v, Head(u))
<1> DEFINE l == Len(b)
           k0 == Len(u)
           d == Tail(u)
           f == [i \in 1 .. l + k0 |-> IF i <= 1 + l THEN i ELSE i + 1]
<1>1. /\ l \in Nat /\ k0 \in Nat /\ k0 >= 1
      /\ Head(u) = u[1]
      /\ Len(d) = k0 - 1 /\ \A i \in 1 .. k0 - 1 : d[i] = u[i + 1]
  BY HeadTailProperties, LenProperties, EmptySeq
<1>2. /\ Len(w) = 1 + l + k0
      /\ \A i \in 1 .. 1 + l + k0 :
           w[i] = IF i = 1 THEN m ELSE IF i <= 1 + l THEN b[i - 1] ELSE Key(u[i - 1 - l])
  BY DEF IsWay
<1>3. /\ Len(v) = 1 + l + Len(d)
      /\ \A i \in 1 .. 1 + l + Len(d) :
           v[i] = IF i = 1 THEN m ELSE IF i <= 1 + l THEN b[i - 1] ELSE Key(d[i - 1 - l])
  BY DEF IsWay
<1> HIDE DEF l, k0, d
<1>4. Len(v) = l + k0 /\ Len(w) = 1 + l + k0
  BY <1>1, <1>2, <1>3
<1>5. \A i \in 1 .. l + k0 : i <= 1 + l => v[i] = w[i]
  BY <1>1, <1>2, <1>3
<1>6. ASSUME NEW i \in 1 .. l + k0, i > 1 + l PROVE v[i] = w[i + 1]
  <2>1. /\ i # 1 /\ ~(i <= 1 + l) /\ i + 1 # 1 /\ ~(i + 1 <= 1 + l)
        /\ i \in 1 .. 1 + l + Len(d) /\ i + 1 \in 1 .. 1 + l + k0
        /\ i - 1 - l \in 1 .. k0 - 1 /\ (i + 1) - 1 - l = i - 1 - l + 1
    BY <1>1, <1>6
  <2>2. v[i] = Key(d[i - 1 - l])
    BY <1>3, <2>1
  <2>3. w[i + 1] = Key(u[(i + 1) - 1 - l])
    BY <1>2, <2>1
  <2>4. d[i - 1 - l] = u[i - 1 - l + 1]
    BY <1>1, <2>1
  <2> QED BY <2>1, <2>2, <2>3, <2>4
<1>7. w[2 + l] = Key(Head(u))
  <2>1. 2 + l \in 1 .. 1 + l + k0 /\ 2 + l # 1 /\ ~(2 + l <= 1 + l) /\ 2 + l - 1 - l = 1
    BY <1>1
  <2> QED BY <1>1, <1>2, <2>1
<1>8. Within(v, w)
  <2>1. Embeds(v, w, f)
    BY <1>1, <1>4, <1>5, <1>6 DEF Embeds
  <2> QED BY <2>1, EmbedsWithin
<1>9. On(w, Head(u))
  <2>1. 2 + l \in 1 .. Len(w)
    BY <1>1, <1>4
  <2> QED BY <1>7, <2>1 DEF On
<1>10. ASSUME NEW n \in Nat, On(w, n) PROVE On(v, n) \/ n = Head(u)
  <2>1. PICK i \in 1 .. Len(w) : w[i] = Key(n)
    BY <1>10 DEF On
  <2>2. CASE i <= 1 + l
    <3>1. i \in 1 .. Len(v) /\ v[i] = Key(n)
      BY <1>1, <1>4, <1>5, <2>1, <2>2
    <3> QED BY <3>1 DEF On
  <2>3. CASE i = 2 + l
    BY <1>7, <2>1, <2>3, KeyFacts
  <2>4. CASE i > 2 + l
    <3>1. i - 1 \in 1 .. Len(v) /\ i - 1 \in 1 .. l + k0 /\ i - 1 > 1 + l /\ i - 1 + 1 = i
      BY <1>1, <1>4, <2>4
    <3>2. v[i - 1] = w[i - 1 + 1]
      BY <1>6, <3>1
    <3> QED BY <2>1, <3>1, <3>2 DEF On
  <2> QED BY <1>1, <1>4, <2>2, <2>3, <2>4
<1>11. ASSUME NEW n \in Nat, On(v, n) PROVE Ahead(w, n, Head(u)) \/ Ahead(w, Head(u), n)
  <2>1. PICK i \in 1 .. Len(v) : v[i] = Key(n)
    BY <1>11 DEF On
  <2>2. CASE i <= 1 + l
    <3>1. i \in 1 .. Len(w) /\ 2 + l \in 1 .. Len(w) /\ i < 2 + l /\ w[i] = Key(n)
      BY <1>1, <1>4, <1>5, <2>1, <2>2
    <3> QED BY <1>7, <3>1 DEF Ahead
  <2>3. CASE i > 1 + l
    <3>1. i + 1 \in 1 .. Len(w) /\ 2 + l \in 1 .. Len(w) /\ 2 + l < i + 1 /\ i \in 1 .. l + k0
      BY <1>1, <1>4, <2>3
    <3>2. w[i + 1] = Key(n)
      BY <1>6, <2>1, <2>3, <3>1
    <3> QED BY <1>7, <3>1, <3>2 DEF Ahead
  <2> QED BY <1>1, <2>2, <2>3
<1> QED BY <1>8, <1>9, <1>10, <1>11 DEF Loses

(* ... and when a key is typed.                                            *)
LEMMA WayTyped ==
  ASSUME NEW m \in Heard, NEW b \in Seq(Messages), NEW u \in Seq(1 .. MaxKeys),
         NEW n \in 1 .. MaxKeys, NEW w, IsWay(w, m, b, u), NEW v, IsWay(v, m, b, Append(u, n))
  PROVE  Gains(w, v, n)
<1> DEFINE l == Len(b)
           k0 == Len(u)
           d == Append(u, n)
<1>1. /\ l \in Nat /\ k0 \in Nat
      /\ Len(d) = k0 + 1 /\ (\A i \in 1 .. k0 : d[i] = u[i]) /\ d[k0 + 1] = n
  BY AppendProperties, LenProperties
<1>2. /\ Len(w) = 1 + l + k0
      /\ \A i \in 1 .. 1 + l + k0 :
           w[i] = IF i = 1 THEN m ELSE IF i <= 1 + l THEN b[i - 1] ELSE Key(u[i - 1 - l])
  BY DEF IsWay
<1>3. /\ Len(v) = 1 + l + Len(d)
      /\ \A i \in 1 .. 1 + l + Len(d) :
           v[i] = IF i = 1 THEN m ELSE IF i <= 1 + l THEN b[i - 1] ELSE Key(d[i - 1 - l])
  BY DEF IsWay
<1> HIDE DEF l, k0, d
<1>4. Len(v) = Len(w) + 1 /\ Len(w) \in Nat
  BY <1>1, <1>2, <1>3
<1>5. ASSUME NEW i \in 1 .. Len(w) PROVE v[i] = w[i]
  <2>1. i \in 1 .. 1 + l + k0 /\ i \in 1 .. 1 + l + Len(d)
    BY <1>1, <1>2
  <2>2. CASE i <= 1 + l
    BY <1>2, <1>3, <2>1, <2>2
  <2>3. CASE i > 1 + l
    <3>1. i # 1 /\ ~(i <= 1 + l) /\ i - 1 - l \in 1 .. k0
      BY <1>1, <2>1, <2>3
    <3>2. v[i] = Key(d[i - 1 - l]) /\ w[i] = Key(u[i - 1 - l])
      BY <1>2, <1>3, <2>1, <3>1
    <3> QED BY <1>1, <3>1, <3>2
  <2> QED BY <1>1, <2>2, <2>3
<1>6. v[Len(w) + 1] = Key(n)
  <2>1. /\ Len(w) + 1 \in 1 .. 1 + l + Len(d) /\ Len(w) + 1 # 1 /\ ~(Len(w) + 1 <= 1 + l)
        /\ (Len(w) + 1) - 1 - l = k0 + 1
    BY <1>1, <1>2
  <2>2. v[Len(w) + 1] = Key(d[(Len(w) + 1) - 1 - l])
    BY <1>3, <2>1
  <2> QED BY <1>1, <2>1, <2>2
<1>7. ASSUME NEW i \in 1 .. Len(v), NEW j \in Nat, v[i] = Key(j)
      PROVE  (i \in 1 .. Len(w) /\ w[i] = Key(j)) \/ (i = Len(w) + 1 /\ j = n)
  <2>1. CASE i = Len(w) + 1
    BY <1>6, <1>7, <2>1, KeyFacts
  <2>2. CASE i # Len(w) + 1
    <3>1. i \in 1 .. Len(w)
      BY <1>4, <2>2
    <3> QED BY <1>5, <1>7, <3>1
  <2> QED BY <2>1, <2>2
<1>8. \A j \in Nat : On(v, j) <=> On(w, j) \/ j = n
  BY <1>4, <1>5, <1>6, <1>7 DEF On
<1>9. ASSUME NEW i \in Nat, NEW j \in Nat, Ahead(v, i, j)
      PROVE  Ahead(w, i, j) \/ (On(w, i) /\ j = n)
  <2>1. PICK a, c \in 1 .. Len(v) : a < c /\ v[a] = Key(i) /\ v[c] = Key(j)
    BY <1>9 DEF Ahead
  <2>2. a \in 1 .. Len(w) /\ w[a] = Key(i)
    <3>1. a # Len(w) + 1
      BY <1>4, <2>1
    <3> QED BY <1>7, <2>1, <3>1
  <2>3. (c \in 1 .. Len(w) /\ w[c] = Key(j)) \/ j = n
    BY <1>7, <2>1
  <2> QED BY <2>1, <2>2, <2>3 DEF On, Ahead
<1> QED BY <1>8, <1>9 DEF Gains

(* Keys on their way are in order, typed, not lost, and later than those   *)
(* dealt with.                                                             *)
Sorted(w) == \A n, m \in Nat : Ahead(w, n, m) => n < m

DealtOf(w, y, l) == {n \in 1 .. y : n \notin l /\ ~On(w, n)}

KeysOk(w, y, l) ==
  /\ Sorted(w)
  /\ \A n \in Nat : On(w, n) => n \in 1 .. y /\ n \notin l /\ \A d \in DealtOf(w, y, l) : d < n

KeysInv == KeysOk(Way, typed, lost)

(* The keys stay in order, and those dealt with are earlier.               *)
LEMMA KeysKept ==
  ASSUME NEW w, NEW v, NEW y \in Nat, NEW l, KeysOk(w, y, l), Keeps(w, v)
  PROVE  KeysOk(v, y, l) /\ DealtOf(v, y, l) = DealtOf(w, y, l)
<1>1. \A n \in Nat : On(v, n) <=> On(w, n)
  BY DEF Keeps, Within
<1>2. DealtOf(v, y, l) = DealtOf(w, y, l)
  BY <1>1 DEF DealtOf
<1>3. Sorted(v)
  BY DEF Keeps, Within, KeysOk, Sorted
<1> QED BY <1>1, <1>2, <1>3 DEF KeysOk

LEMMA KeysLost ==
  ASSUME NEW w, NEW v, NEW y \in Nat, NEW l, NEW n \in Nat, KeysOk(w, y, l), Loses(w, v, n)
  PROVE  KeysOk(v, y, l \cup {n}) /\ DealtOf(v, y, l \cup {n}) = DealtOf(w, y, l)
<1>1. \A m \in Nat : (On(v, m) => On(w, m)) /\ (On(w, m) => On(v, m) \/ m = n)
  BY DEF Loses, Within
<1>2. On(w, n) /\ ~On(v, n)
  <2>1. ~Ahead(w, n, n)
    BY DEF KeysOk, Sorted
  <2> QED BY <2>1 DEF Loses
<1>3. DealtOf(v, y, l \cup {n}) = DealtOf(w, y, l)
  BY <1>1, <1>2 DEF DealtOf
<1>4. Sorted(v)
  BY DEF Loses, Within, KeysOk, Sorted
<1>5. \A m \in Nat : On(v, m) => m # n
  BY <1>2
<1> QED BY <1>1, <1>3, <1>4, <1>5 DEF KeysOk

LEMMA KeysRead ==
  ASSUME NEW w, NEW v, NEW y \in Nat, NEW l, NEW n \in Nat, KeysOk(w, y, l), LosesFirst(w, v, n)
  PROVE  /\ KeysOk(v, y, l) /\ DealtOf(v, y, l) = DealtOf(w, y, l) \cup {n}
         /\ n \in 1 .. y /\ \A d \in DealtOf(w, y, l) : d < n
<1>1. \A m \in Nat : (On(v, m) => On(w, m)) /\ (On(w, m) => On(v, m) \/ m = n)
  BY DEF LosesFirst, Loses, Within
<1>2. \A m \in Nat : On(v, m) => n < m
  BY DEF LosesFirst, KeysOk, Sorted
<1>3. On(w, n) /\ ~On(v, n)
  BY <1>2 DEF LosesFirst, Loses
<1>4. n \in 1 .. y /\ n \notin l /\ \A d \in DealtOf(w, y, l) : d < n
  BY <1>3 DEF KeysOk
<1>5. DealtOf(v, y, l) = DealtOf(w, y, l) \cup {n}
  BY <1>1, <1>3, <1>4 DEF DealtOf
<1>6. Sorted(v)
  BY DEF LosesFirst, Loses, Within, KeysOk, Sorted
<1>7. \A m \in Nat : On(v, m) => m \in 1 .. y /\ m \notin l /\ \A d \in DealtOf(w, y, l) : d < m
  BY <1>1 DEF KeysOk
<1>8. KeysOk(v, y, l)
  BY <1>2, <1>5, <1>6, <1>7 DEF KeysOk
<1> QED BY <1>4, <1>5, <1>8

LEMMA KeysGained ==
  ASSUME NEW w, NEW v, NEW y \in Nat, NEW l \in SUBSET (1 .. y), KeysOk(w, y, l), Gains(w, v, y + 1)
  PROVE  KeysOk(v, y + 1, l) /\ DealtOf(v, y + 1, l) = DealtOf(w, y, l)
<1>1. \A m \in Nat : On(v, m) <=> On(w, m) \/ m = y + 1
  BY DEF Gains
<1>2. DealtOf(v, y + 1, l) = DealtOf(w, y, l)
  BY <1>1 DEF DealtOf
<1>3. Sorted(v)
  BY DEF Gains, KeysOk, Sorted
<1>4. \A m \in Nat : On(w, m) => m \in 1 .. y + 1 /\ m \notin l /\ \A d \in DealtOf(w, y, l) : d < m
  BY DEF KeysOk
<1>5. y + 1 \in 1 .. y + 1 /\ y + 1 \notin l /\ \A d \in DealtOf(w, y, l) : d < y + 1
  BY DEF DealtOf
<1> QED BY <1>1, <1>2, <1>3, <1>4, <1>5 DEF KeysOk

-------------------------------------------------------------------------------
(* The line and the keys dealt with.                                       *)
SinceReturn(tp, D) == {n \in D : \A m \in D : m >= n => tp[m] # CR}

LineMatches(ln, tp, D) ==
  /\ Len(ln) = Cardinality(SinceReturn(tp, D))
  /\ \A n \in SinceReturn(tp, D) : ln[Cardinality({m \in SinceReturn(tp, D) : m <= n})] = tp[n]

(* LineAsTyped, as a relation between the line, the tape and those keys.   *)
LEMMA LineAsDealt == LineAsTyped <=> LineMatches(line, tape, Dealt)
<1>1. OfLine = SinceReturn(tape, Dealt)
  BY DEF SinceReturn, OfLine
<1>2. LineAsTyped <=> LineMatches(line, tape, Dealt)
  BY <1>1, Zenon DEF LineAsTyped, LineMatches
<1> QED BY <1>2

LEMMA LineSame ==
  ASSUME NEW ln, NEW tp, NEW tq, NEW D, \A n \in D : tq[n] = tp[n], LineMatches(ln, tp, D)
  PROVE  LineMatches(ln, tq, D)
<1>1. SinceReturn(tq, D) = SinceReturn(tp, D)
  BY DEF SinceReturn
<1>2. \A n \in SinceReturn(tp, D) : tq[n] = tp[n]
  BY DEF SinceReturn
<1> QED BY <1>1, <1>2 DEF LineMatches

(* A later key that is no return key makes the line longer by its          *)
(* character; a return key ends it.                                        *)
LEMMA LineGrows ==
  ASSUME NEW ln \in Seq(Chars), NEW tp, NEW y \in Nat, NEW D \in SUBSET (1 .. y), NEW n \in Nat,
         \A d \in D : d < n, tp[n] # CR, tp[n] \in Chars, LineMatches(ln, tp, D)
  PROVE  LineMatches(Append(ln, tp[n]), tp, D \cup {n})
<1> DEFINE S == SinceReturn(tp, D)
           T == SinceReturn(tp, D \cup {n})
           Upto(U, m) == {i \in U : i <= m}
<1>0. \A d \in D : d \in Nat /\ ~(d >= n) /\ d <= n
  OBVIOUS
<1>1. T = S \cup {n}
  <2>1. n \in T
    BY <1>0 DEF SinceReturn
  <2>2. \A d \in D : d \in T <=> d \in S
    BY <1>0 DEF SinceReturn
  <2>3. T \subseteq D \cup {n}
    BY DEF SinceReturn
  <2>4. S \subseteq D
    BY DEF SinceReturn
  <2> HIDE DEF S, T
  <2> QED BY <2>1, <2>2, <2>3, <2>4
<1>2. S \in SUBSET (1 .. y) /\ n \notin S /\ \A d \in S : d < n
  <2>1. S \subseteq D
    BY DEF SinceReturn
  <2> HIDE DEF S
  <2> QED BY <2>1
<1>3. Len(ln) = Cardinality(S) /\ \A m \in S : ln[Cardinality(Upto(S, m))] = tp[m]
  BY DEF LineMatches
<1> HIDE DEF S, T
<1>4. IsFiniteSet(S) /\ \A m \in S : IsFiniteSet(Upto(S, m))
  <2>1. IsFiniteSet(1 .. y)
    BY FS_Interval
  <2>2. Upto(S, 0) \subseteq S /\ \A m \in S : Upto(S, m) \subseteq S
    OBVIOUS
  <2> HIDE DEF Upto
  <2> QED BY <1>2, <2>1, <2>2, FS_Subset
<1>5. Cardinality(T) = Cardinality(S) + 1 /\ Cardinality(S) \in Nat
  BY <1>1, <1>2, <1>4, FS_AddElement, FS_CardinalityType
<1>6. /\ Len(Append(ln, tp[n])) = Len(ln) + 1
      /\ \A i \in 1 .. Len(ln) : Append(ln, tp[n])[i] = ln[i]
      /\ Append(ln, tp[n])[Len(ln) + 1] = tp[n]
  BY AppendProperties
<1>7. ASSUME NEW m \in T PROVE Append(ln, tp[n])[Cardinality(Upto(T, m))] = tp[m]
  <2>1. CASE m = n
    <3>1. \A i \in T : i <= n
      BY <1>1, <1>2
    <3>2. Upto(T, m) = T
      BY <2>1, <3>1
    <3> HIDE DEF Upto
    <3> QED BY <1>3, <1>5, <1>6, <2>1, <3>2
  <2>2. CASE m # n
    <3>1. m \in S /\ Upto(T, m) = Upto(S, m)
      BY <1>1, <1>2, <2>2
    <3>2. Upto(S, m) \subseteq S /\ m \in Upto(S, m)
      BY <1>2, <3>1
    <3> HIDE DEF Upto
    <3>3. Cardinality(Upto(S, m)) \in Nat /\ Cardinality(Upto(S, m)) <= Cardinality(S)
      BY <1>4, <3>1, <3>2, FS_Subset, FS_CardinalityType
    <3>4. Cardinality(Upto(S, m)) # 0
      BY <1>4, <3>1, <3>2, FS_EmptySet
    <3>5. Cardinality(Upto(S, m)) \in 1 .. Len(ln)
      BY <1>3, <1>5, <3>3, <3>4
    <3> QED BY <1>3, <1>6, <3>1, <3>5
  <2> QED BY <2>1, <2>2
<1>8. Len(Append(ln, tp[n])) = Cardinality(T)
  BY <1>3, <1>5, <1>6
<1> QED BY <1>7, <1>8 DEF LineMatches, T

LEMMA LineEnds ==
  ASSUME NEW tp, NEW y \in Nat, NEW D \in SUBSET (1 .. y), NEW n \in Nat,
         \A d \in D : d < n, tp[n] = CR
  PROVE  LineMatches(<<>>, tp, D \cup {n})
<1>0. \A d \in D : d \in Nat /\ n >= d
  OBVIOUS
<1>1. SinceReturn(tp, D \cup {n}) = {}
  <2>1. \A d \in D \cup {n} : n >= d
    BY <1>0
  <2> QED BY <2>1 DEF SinceReturn
<1>2. Cardinality({}) = 0 /\ Len(<<>>) = 0
  BY FS_EmptySet
<1> QED BY <1>1, <1>2 DEF LineMatches

-------------------------------------------------------------------------------
(* What the steps do to the way, and so to the keys and the line.          *)
LEMMA WayNow ==
  ASSUME RestInv, KcdTypes
  PROVE  /\ message \in Heard /\ Mail \in Seq(Messages) /\ uart \in Seq(1 .. MaxKeys)
         /\ IsWay(Way, message, Mail, uart)
<1>1. message \in Heard /\ Mail \in Seq(Messages) /\ uart \in Seq(1 .. MaxKeys)
  BY TaskConstants, RestInvFacts DEF KcdTypes, Heard, Mail
<1>2. Way = WayOf(message, Mail, uart)
  BY DEF Way, Mail
<1> QED BY <1>1, <1>2, WayFacts

LEMMA WayNext ==
  ASSUME RestInv', message' \in Heard
  PROVE  /\ Mail' \in Seq(Messages) /\ uart' \in Seq(1 .. MaxKeys)
         /\ IsWay(Way', message', Mail', uart')
<1>1. Mail' \in Seq(Messages) /\ uart' \in Seq(1 .. MaxKeys)
  BY TaskConstants DEF RestInv, Mail
<1>2. Way' = WayOf(message', Mail', uart')
  BY DEF Way, Mail
<1> QED BY <1>1, <1>2, WayFacts

LEMMA MessageStep ==
  ASSUME RestInv, KcdTypes, Kinds
  PROVE  message' \in Heard
<1>1. message \in Heard /\ Nothing \in Heard /\ Mail \in Seq(Messages)
  BY WayNow DEF Heard
<1>2. CASE Taken
  <2>1. Head(Mail) \in Messages
    BY <1>1, <1>2, HeadTailProperties, ElementOfSeq DEF Taken
  <2> QED BY <1>2, <2>1 DEF Taken, Heard
<1>3. message' = message \/ message' = Nothing \/ Taken
  BY DEF Kinds, Quiet, KeyStored, KeyLost, RegSent, KeyTyped, RegDealt, KeyDealt, ReturnDealt
<1> QED BY <1>1, <1>2, <1>3

KeepsWay ==
  \/ Quiet \/ KeyStored \/ Taken \/ \E c \in Chars : RegSent(c)
  \/ \E t \in Tids, c \in Chars : RegDealt(t, c)

LEMMA WayKept ==
  ASSUME RestInv, RestInv', KcdTypes, Kinds, KeepsWay, cur \in Tids
  PROVE  Keeps(Way, Way')
<1>1. /\ message \in Heard /\ Mail \in Seq(Messages) /\ uart \in Seq(1 .. MaxKeys)
      /\ IsWay(Way, message, Mail, uart)
  BY WayNow
<1>2. /\ message' \in Heard
      /\ IsWay(Way', message', Mail', uart')
  BY MessageStep, WayNext
<1> HIDE DEF Way
<1>3. CASE Quiet
  <2>1. Way' = Way
    BY <1>3 DEF Quiet, Way, Mail
  <2> QED BY <2>1 DEF Keeps, Within
<1>4. CASE KeyStored
  <2>1. uart # <<>> /\ IsWay(Way', message, Append(Mail, Key(Head(uart))), Tail(uart))
    BY <1>2, <1>4 DEF KeyStored
  <2> QED BY <1>1, <2>1, WayStored
<1>5. CASE Taken
  <2>1. Mail # <<>> /\ IsWay(Way, Nothing, Mail, uart) /\ IsWay(Way', Head(Mail), Tail(Mail), uart)
    BY <1>1, <1>2, <1>5 DEF Taken
  <2> QED BY <1>1, <2>1, WayTaken
<1>6. ASSUME NEW c \in Chars, RegSent(c) PROVE Keeps(Way, Way')
  <2> DEFINE x == From(cur, Reg(c))
  <2>1. x \in Messages /\ \A n : x # Key(n)
    BY ContentFacts, KeyFacts DEF Messages
  <2>2. IsWay(Way', message, Append(Mail, x), uart)
    BY <1>2, <1>6 DEF RegSent
  <2> HIDE DEF x
  <2> QED BY <1>1, <2>1, <2>2, WayLonger
<1>7. ASSUME NEW t \in Tids, NEW c \in Chars, RegDealt(t, c) PROVE Keeps(Way, Way')
  <2>1. IsWay(Way', Nothing, Mail, uart)
    BY <1>2, <1>7 DEF RegDealt
  <2>2. \A n : message # Key(n)
    BY <1>7, KeyFacts DEF RegDealt
  <2> QED BY <1>1, <2>1, <2>2, WayFreed
<1> QED BY <1>3, <1>4, <1>5, <1>6, <1>7 DEF KeepsWay

LEMMA WayRead ==
  ASSUME RestInv, RestInv', KcdTypes, Kinds, NEW n \in 1 .. MaxKeys, KeyDealt(n) \/ ReturnDealt(n)
  PROVE  LosesFirst(Way, Way', n)
<1>1. /\ message \in Heard /\ Mail \in Seq(Messages) /\ uart \in Seq(1 .. MaxKeys)
      /\ IsWay(Way, message, Mail, uart)
  BY WayNow
<1>2. /\ IsWay(Way', message', Mail', uart') /\ Mail' \in Seq(Messages)
  BY MessageStep, WayNext
<1>3. message = Key(n) /\ message' = Nothing /\ uart' = uart /\ n \in Nat /\ Nothing \in Heard
  BY DEF KeyDealt, ReturnDealt, Heard
<1> DEFINE x == WayOf(Nothing, Mail, uart)
<1>4. IsWay(x, Nothing, Mail, uart)
  BY <1>1, <1>3, WayFacts
<1> HIDE DEF x, Way
<1>5. LosesFirst(Way, x, n)
  BY <1>1, <1>3, <1>4, WayFreed
<1>6. CASE Mail' = Mail
  <2>1. IsWay(Way', Nothing, Mail, uart)
    BY <1>2, <1>3, <1>6
  <2> QED BY <1>1, <1>3, <2>1, WayFreed
<1>7. ASSUME NEW t \in Tids, NEW text, Mail' = Append(Mail, From(t, Cmd(text)))
      PROVE  LosesFirst(Way, Way', n)
  <2> DEFINE y == From(t, Cmd(text))
  <2>1. \A i : y # Key(i)
    BY KeyFacts
  <2>2. IsWay(Way', Nothing, Append(Mail, y), uart) /\ Mail' = Append(Mail, y)
    BY <1>2, <1>3, <1>7
  <2> HIDE DEF y
  <2>3. y \in Messages
    <3>1. Mail' \in Seq(Messages) /\ Len(Mail') = Len(Mail) + 1 /\ Mail'[Len(Mail) + 1] = y
          /\ Len(Mail) \in Nat
      <4>1. Len(Append(Mail, y)) = Len(Mail) + 1 /\ Append(Mail, y)[Len(Mail) + 1] = y
        <5>1. Mail \in Seq(Messages \cup {y}) /\ Len(Mail) \in Nat
          <6>1. \A i \in 1 .. Len(Mail) : Mail[i] \in Messages \cup {y}
            BY <1>1, ElementOfSeq
          <6> QED BY <1>1, <6>1, LenProperties
        <5> QED BY <5>1, AppendProperties
      <4> QED BY <1>1, <1>2, <2>2, <4>1, LenProperties
    <3>2. Len(Mail) + 1 \in 1 .. Len(Mail')
      BY <3>1
    <3>3. Mail'[Len(Mail) + 1] \in Messages
      BY <3>1, <3>2, ElementOfSeq
    <3> QED BY <3>1, <3>3
  <2>4. Keeps(x, Way')
    BY <1>1, <1>3, <1>4, <2>1, <2>2, <2>3, WayLonger
  <2> QED BY <1>3, <1>5, <2>4, KeepsAfter
<1> QED BY <1>6, <1>7 DEF KeyDealt, ReturnDealt

(* OnItsWay says that a key is on the way.                                 *)
LEMMA OnFacts ==
  ASSUME NEW m \in Heard, NEW b \in Seq(Messages), NEW u \in Seq(1 .. MaxKeys),
         NEW w, IsWay(w, m, b, u)
  PROVE  \A n \in Nat : On(w, n) <=> n \in Range(u) \/ Key(n) \in Range(b) \cup {m}
<1> DEFINE l == Len(b)
           k0 == Len(u)
           OnIt(n) == n \in Range(u) \/ Key(n) \in Range(b) \cup {m}
<1>1. /\ l \in Nat /\ k0 \in Nat
      /\ DOMAIN u = 1 .. k0 /\ DOMAIN b = 1 .. l
  BY LenProperties
<1>2. /\ Len(w) = 1 + l + k0
      /\ \A i \in 1 .. 1 + l + k0 :
           w[i] = IF i = 1 THEN m ELSE IF i <= 1 + l THEN b[i - 1] ELSE Key(u[i - 1 - l])
  BY DEF IsWay
<1>3. ASSUME NEW n \in Nat
      PROVE  OnIt(n) <=> \/ \E i \in 1 .. k0 : u[i] = n
                         \/ \E i \in 1 .. l : b[i] = Key(n)
                         \/ m = Key(n)
  <2> HIDE DEF l, k0
  <2> QED BY <1>1 DEF Range
<1> HIDE DEF l, k0, OnIt
<1>4. ASSUME NEW n \in Nat, NEW i \in 1 .. k0, u[i] = n PROVE On(w, n)
  <2> DEFINE j == 1 + l + i
  <2>1. j \in 1 .. 1 + l + k0 /\ j # 1 /\ ~(j <= 1 + l) /\ j - 1 - l = i
    BY <1>1
  <2> HIDE DEF j
  <2>2. w[j] = Key(n)
    BY <1>2, <1>4, <2>1
  <2> QED BY <1>2, <2>1, <2>2 DEF On
<1>5. ASSUME NEW n \in Nat, NEW i \in 1 .. l, b[i] = Key(n) PROVE On(w, n)
  <2> DEFINE j == i + 1
  <2>1. j \in 1 .. 1 + l + k0 /\ j # 1 /\ j <= 1 + l /\ j - 1 = i
    BY <1>1
  <2> HIDE DEF j
  <2>2. w[j] = Key(n)
    BY <1>2, <1>5, <2>1
  <2> QED BY <1>2, <2>1, <2>2 DEF On
<1>6. ASSUME NEW n \in Nat, m = Key(n) PROVE On(w, n)
  <2>1. 1 \in 1 .. 1 + l + k0
    BY <1>1
  <2> QED BY <1>2, <1>6, <2>1 DEF On
<1>7. ASSUME NEW n \in Nat, On(w, n) PROVE OnIt(n)
  <2>1. PICK j \in 1 .. 1 + l + k0 : w[j] = Key(n)
    BY <1>2, <1>7 DEF On
  <2>2. CASE j = 1
    BY <1>2, <1>3, <2>1, <2>2
  <2>3. CASE j # 1 /\ j <= 1 + l
    <3>1. j - 1 \in 1 .. l /\ b[j - 1] = Key(n)
      BY <1>1, <1>2, <2>1, <2>3
    <3> QED BY <1>3, <3>1
  <2>4. CASE j > 1 + l
    <3>1. j - 1 - l \in 1 .. k0 /\ j # 1 /\ ~(j <= 1 + l)
      BY <1>1, <2>4
    <3>2. Key(u[j - 1 - l]) = Key(n)
      BY <1>2, <2>1, <3>1
    <3> QED BY <1>3, <3>1, <3>2, KeyFacts
  <2> QED BY <1>1, <2>2, <2>3, <2>4
<1> QED BY <1>3, <1>4, <1>5, <1>6, <1>7 DEF OnIt

LEMMA DealtNow ==
  ASSUME RestInv, KcdTypes
  PROVE  Dealt = DealtOf(Way, typed, lost)
<1>1. \A n \in Nat : OnItsWay(n) <=> On(Way, n)
  BY WayNow, OnFacts DEF OnItsWay, Mail
<1>2. typed \in Nat
  BY RestInvFacts
<1> QED BY <1>1, <1>2 DEF Dealt, DealtOf

LEMMA DealtNext ==
  ASSUME RestInv', message' \in Heard
  PROVE  Dealt' = DealtOf(Way', typed', lost')
<1>1. \A n \in Nat : OnItsWay(n)' <=> On(Way', n)
  BY WayNext, OnFacts DEF OnItsWay, Mail
<1>2. typed' \in Nat
  BY RtxConstants DEF RestInv
<1> QED BY <1>1, <1>2 DEF Dealt, DealtOf

(* The step of the keys, the line and the history.                         *)
LEMMA TapeFacts ==
  ASSUME HistoryTypes, typed \in Nat
  PROVE  \A n \in 1 .. typed : tape[n] \in Chars \cup {CR}
BY ElementOfSeq DEF HistoryTypes

KeysAndLine ==
  /\ KeysInv /\ LineMatches(line, tape, Dealt) /\ line \in Seq(Chars)
  /\ HistoryTypes

(* Keys, line and history, whatever the step.                              *)
LEMMA KeysStep ==
  ASSUME RestInv, RestInv', KcdTypes, KeysAndLine, Kinds, cur \in Tids
  PROVE  KeysAndLine'
<1> DEFINE w == Way
           v == Way'
<1>1. /\ Dealt = DealtOf(w, typed, lost) /\ Dealt' = DealtOf(v, typed', lost')
      /\ KeysOk(w, typed, lost) /\ typed \in Nat /\ uart \in Seq(1 .. MaxKeys)
  BY DealtNow, MessageStep, DealtNext, RestInvFacts, WayNow DEF KeysAndLine, KeysInv
<1>2. /\ tape \in Seq(Chars \cup {CR}) /\ Len(tape) = typed /\ lost \in SUBSET (1 .. typed)
      /\ owner \in Owners /\ line \in Seq(Chars) /\ LineMatches(line, tape, Dealt)
  BY DEF KeysAndLine, HistoryTypes, Owners
<1>3. Dealt \in SUBSET (1 .. typed)
  BY DEF Dealt
<1> HIDE DEF w, v
<1> DEFINE Goal == KeysAndLine'
<1>4. ASSUME KeysOk(v, typed', lost'), LineMatches(line', tape', Dealt'), line' \in Seq(Chars),
             tape' \in Seq(Chars \cup {CR}), Len(tape') = typed', lost' \in SUBSET (1 .. typed'),
             owner' \in Owners
      PROVE  Goal
  BY <1>4 DEF KeysAndLine, KeysInv, HistoryTypes, Owners, v
<1>5. ASSUME UNCHANGED <<typed, tape, lost, line>>, owner' \in Owners, Keeps(w, v) PROVE Goal
  <2>1. KeysOk(v, typed, lost) /\ Dealt' = Dealt
    BY <1>1, <1>5, KeysKept
  <2> QED BY <1>2, <1>4, <1>5, <2>1
<1>6. CASE KeepsWay
  <2>1. Keeps(w, v)
    BY <1>6, WayKept DEF w, v
  <2>2. UNCHANGED <<typed, tape, lost, line>>
    BY <1>6 DEF KeepsWay, Quiet, KeyStored, Taken, RegSent, RegDealt, K!Register
  <2>3. owner' \in Owners
    BY <1>2, <1>6 DEF KeepsWay, Quiet, KeyStored, Taken, RegSent, RegDealt, Owners
  <2> QED BY <1>5, <2>1, <2>2, <2>3
<1>7. CASE KeyLost
  <2> DEFINE n == Head(uart)
  <2>1. /\ uart # <<>> /\ uart' = Tail(uart) /\ lost' = lost \cup {n}
        /\ UNCHANGED <<message, Mail, typed, tape, line, owner>>
    BY <1>7 DEF KeyLost
  <2>2. n \in Nat
    <3>1. Head(uart) \in 1 .. MaxKeys
      BY <1>1, <2>1, HeadTailProperties
    <3> QED BY <3>1
  <2>3. Loses(w, v, n)
    <3>1. IsWay(w, message, Mail, uart) /\ IsWay(v, message, Mail, Tail(uart))
      BY <2>1, WayNow, MessageStep, WayNext DEF w, v
    <3> QED BY <2>1, <3>1, WayNow, WayLost
  <2> HIDE DEF n
  <2>4. KeysOk(v, typed, lost \cup {n}) /\ Dealt' = Dealt
    BY <1>1, <2>1, <2>2, <2>3, KeysLost
  <2>5. n \in 1 .. typed
    BY <1>1, <2>2, <2>3 DEF Loses, KeysOk
  <2> QED BY <1>2, <1>4, <2>1, <2>4, <2>5
<1>8. ASSUME NEW n \in 1 .. MaxKeys, KeyDealt(n) \/ ReturnDealt(n) PROVE Goal
  <2>1. LosesFirst(w, v, n) /\ n \in Nat
    BY <1>8, WayRead DEF w, v
  <2>2. /\ KeysOk(v, typed, lost) /\ DealtOf(v, typed, lost) = DealtOf(w, typed, lost) \cup {n}
        /\ n \in 1 .. typed /\ \A d \in DealtOf(w, typed, lost) : d < n
    BY <1>1, <2>1, KeysRead
  <2>3. UNCHANGED <<typed, tape, lost, owner>>
    BY <1>8 DEF KeyDealt, ReturnDealt
  <2>4. Dealt' = Dealt \cup {n} /\ \A d \in Dealt : d < n
    BY <1>1, <2>2, <2>3
  <2>5. CASE KeyDealt(n)
    <3>1. tape[n] # CR /\ line' = Append(line, tape[n])
      BY <2>5 DEF KeyDealt
    <3>2. tape[n] \in Chars
      BY <1>1, <2>2, <3>1, TapeFacts DEF KeysAndLine
    <3>3. LineMatches(line', tape, Dealt')
      <4>1. LineMatches(Append(line, tape[n]), tape, Dealt \cup {n})
        BY <1>1, <1>2, <1>3, <2>1, <2>4, <3>1, <3>2, LineGrows
      <4> QED BY <2>4, <3>1, <4>1
    <3>4. line' \in Seq(Chars)
      BY <1>2, <3>1, <3>2, AppendProperties
    <3> QED BY <1>2, <1>4, <2>2, <2>3, <3>3, <3>4
  <2>6. CASE ReturnDealt(n)
    <3>1. tape[n] = CR /\ line' = <<>>
      BY <2>6 DEF ReturnDealt
    <3>2. LineMatches(line', tape, Dealt')
      <4>1. LineMatches(<<>>, tape, Dealt \cup {n})
        BY <1>1, <1>3, <2>1, <2>4, <3>1, LineEnds
      <4> QED BY <2>4, <3>1, <4>1
    <3>3. line' \in Seq(Chars)
      BY <3>1, EmptySeq
    <3> QED BY <1>2, <1>4, <2>2, <2>3, <3>2, <3>3
  <2> QED BY <1>8, <2>5, <2>6
<1>9. ASSUME NEW c \in Chars \cup {CR}, KeyTyped(c) PROVE Goal
  <2>1. /\ typed' = typed + 1 /\ uart' = Append(uart, typed + 1) /\ tape' = Append(tape, c)
        /\ UNCHANGED <<message, Mail, lost, line, owner>>
    BY <1>9 DEF KeyTyped
  <2>2. Gains(w, v, typed + 1)
    <3>1. IsWay(w, message, Mail, uart) /\ IsWay(v, message, Mail, Append(uart, typed + 1))
      BY <2>1, WayNow, MessageStep, WayNext DEF w, v
    <3>2. typed + 1 \in 1 .. MaxKeys
      BY <1>1, <2>1 DEF RestInv
    <3> QED BY <3>1, <3>2, WayNow, WayTyped
  <2>3. KeysOk(v, typed + 1, lost) /\ DealtOf(v, typed + 1, lost) = DealtOf(w, typed, lost)
    BY <1>1, <1>2, <2>2, KeysGained
  <2>4. Dealt' = Dealt
    BY <1>1, <2>1, <2>3
  <2>5. /\ tape' \in Seq(Chars \cup {CR}) /\ Len(tape') = typed + 1
        /\ \A i \in 1 .. typed : tape'[i] = tape[i]
    BY <1>2, <2>1, AppendProperties
  <2>6. LineMatches(line, tape', Dealt)
    BY <1>2, <1>3, <2>5, LineSame
  <2>7. lost' \in SUBSET (1 .. typed')
    BY <1>1, <1>2, <2>1
  <2> QED BY <1>2, <1>4, <2>1, <2>3, <2>4, <2>5, <2>6, <2>7
<1> QED BY <1>6, <1>7, <1>8, <1>9 DEF Kinds, KeepsWay

-------------------------------------------------------------------------------
(* The table.                                                              *)
Receiver(ids, c) ==
  LET entries == {i \in DOMAIN ids : ids[i].val = c}
  IN  IF entries = {} THEN NOBODY ELSE ids[Max(entries)].tid

OneEach(ids) == \A i, j \in DOMAIN ids : ids[i].val = ids[j].val => i = j

(* receiver_tid, as a function of the table.                               *)
LEMMA ReceiverIs ==
  /\ \A c : K!receiver_tid(c) = Receiver(identifies, c)
  /\ \A c : (K!receiver_tid(c))' = Receiver(identifies', c)
BY Zenon DEF K!receiver_tid, K!Max, Receiver, NOBODY, Max

(* A table with one entry per identifier maps each to its entry.           *)
LEMMA ReceiverFacts ==
  ASSUME NEW ids \in Seq(Entries), OneEach(ids)
  PROVE  /\ \A c : (\A i \in 1 .. Len(ids) : ids[i].val # c) => Receiver(ids, c) = NOBODY
         /\ \A i \in 1 .. Len(ids) : Receiver(ids, ids[i].val) = ids[i].tid
<1>1. DOMAIN ids = 1 .. Len(ids)
  BY LenProperties
<1>2. ASSUME NEW c, \A i \in 1 .. Len(ids) : ids[i].val # c PROVE Receiver(ids, c) = NOBODY
  BY <1>1, <1>2 DEF Receiver
<1>3. ASSUME NEW i \in 1 .. Len(ids) PROVE Receiver(ids, ids[i].val) = ids[i].tid
  <2> DEFINE entries == {j \in DOMAIN ids : ids[j].val = ids[i].val}
  <2>1. entries = {i}
    BY <1>1 DEF OneEach
  <2>2. Max(entries) = i
    <3>1. i \in Int /\ i >= i
      OBVIOUS
    <3> HIDE DEF entries
    <3> QED BY <2>1, <3>1 DEF Max
  <2>3. Receiver(ids, ids[i].val) = IF entries = {} THEN NOBODY ELSE ids[Max(entries)].tid
    BY DEF Receiver
  <2> HIDE DEF entries
  <2> QED BY <2>1, <2>2, <2>3
<1> QED BY <1>2, <1>3

Registered(ids, new, t, c) ==
  /\ new \in Seq(Entries) /\ OneEach(new)
  /\ Receiver(new, c) = t
  /\ \A d : d # c => Receiver(new, d) = Receiver(ids, d)

(* A registration changes the entry of its identifier and no other,        *)
(* whether it replaces one or adds one (kcd_task.c:47-67).                 *)
LEMMA RegisterFacts ==
  ASSUME identifies \in Seq(Entries), OneEach(identifies), NEW t \in Tids, NEW c \in Chars,
         K!Register(t, c)
  PROVE  Registered(identifies, identifies', t, c)
<1> DEFINE ids == identifies
           new == identifies'
           n == Len(ids)
<1>1. n \in Nat /\ DOMAIN ids = 1 .. n /\ \A i \in 1 .. n : ids[i] \in Entries
  BY LenProperties, ElementOfSeq
<1>2. [val |-> c, tid |-> t] \in Entries
  BY DEF Entries
<1>3. CASE K!Known(c)
  <2>1. PICK i \in 1 .. n : ids[i].val = c /\ new = [ids EXCEPT ![i].tid = t]
    BY <1>1, <1>3 DEF K!Register, K!Reregister
  <2> HIDE DEF ids, new, n
  <2>2. ids[i] \in Entries /\ ids \in Seq(Entries) /\ OneEach(ids) /\ n = Len(ids)
    BY <1>1 DEF ids, n
  <2>3. new[i].val = c /\ new[i].tid = t /\ DOMAIN new = 1 .. n
    BY <1>1, <2>1, <2>2 DEF Entries
  <2>4. \A j \in 1 .. n : j # i => new[j] = ids[j]
    BY <1>1, <2>1
  <2>5. \A j \in 1 .. n : new[j] \in Entries /\ new[j].val = ids[j].val
    <3>1. new[i] = [ids[i] EXCEPT !.tid = t]
      BY <1>1, <2>1
    <3>2. new[i] \in Entries
      BY <2>2, <3>1 DEF Entries
    <3> QED BY <1>1, <2>1, <2>3, <2>4, <3>2
  <2>6. new \in Seq(Entries) /\ Len(new) = n
    <3>1. new = [j \in 1 .. n |-> new[j]]
      BY <1>1, <2>1
    <3> QED BY <1>1, <2>3, <2>5, <3>1, LenProperties
  <2>7. OneEach(new)
    BY <1>1, <2>2, <2>3, <2>5 DEF OneEach
  <2>8. Receiver(new, c) = t
    BY <2>1, <2>3, <2>6, <2>7, ReceiverFacts
  <2>9. ASSUME NEW d, d # c PROVE Receiver(new, d) = Receiver(ids, d)
    <3>1. CASE \E j \in 1 .. n : ids[j].val = d
      <4>1. PICK j \in 1 .. n : ids[j].val = d
        BY <3>1
      <4>2. j # i /\ new[j] = ids[j]
        BY <2>1, <2>4, <2>9, <4>1
      <4>3. Receiver(new, new[j].val) = new[j].tid /\ Receiver(ids, ids[j].val) = ids[j].tid
        BY <2>2, <2>6, <2>7, ReceiverFacts
      <4> QED BY <4>1, <4>2, <4>3
    <3>2. CASE \A j \in 1 .. n : ids[j].val # d
      <4>1. \A j \in 1 .. n : new[j].val # d
        BY <2>5, <3>2
      <4> QED BY <2>2, <2>6, <2>7, <3>2, <4>1, ReceiverFacts
    <3> QED BY <3>1, <3>2
  <2>10. Registered(ids, new, t, c)
    BY <2>6, <2>7, <2>8, <2>9 DEF Registered
  <2> QED BY <2>10 DEF ids, new
<1>4. CASE ~K!Known(c)
  <2> DEFINE e == [val |-> c, tid |-> t]
  <2>1. (\A j \in 1 .. n : ids[j].val # c) /\ new = Append(ids, e)
    BY <1>1, <1>4 DEF K!Register, K!Known
  <2> HIDE DEF ids, new, n
  <2>2. ids \in Seq(Entries) /\ OneEach(ids) /\ n = Len(ids)
    BY <1>1 DEF ids, n
  <2>3. /\ new \in Seq(Entries) /\ Len(new) = n + 1
        /\ \A j \in 1 .. n : new[j] = ids[j]
        /\ new[n + 1] = e /\ e.val = c /\ e.tid = t
    BY <1>2, <2>1, <2>2, AppendProperties
  <2> HIDE DEF e
  <2>4. OneEach(new)
    <3>1. DOMAIN new = 1 .. n + 1
      BY <2>3, LenProperties
    <3>2. ASSUME NEW i \in 1 .. n + 1, NEW j \in 1 .. n + 1, new[i].val = new[j].val PROVE i = j
      <4>1. CASE i \in 1 .. n /\ j \in 1 .. n
        BY <1>1, <2>2, <2>3, <3>2, <4>1 DEF OneEach
      <4>2. CASE i = n + 1 /\ j \in 1 .. n
        BY <2>1, <2>3, <3>2, <4>2
      <4>3. CASE i \in 1 .. n /\ j = n + 1
        BY <2>1, <2>3, <3>2, <4>3
      <4> QED BY <1>1, <4>1, <4>2, <4>3
    <3> QED BY <3>1, <3>2 DEF OneEach
  <2>5. Receiver(new, c) = t
    <3>1. n + 1 \in 1 .. Len(new)
      BY <1>1, <2>3
    <3>2. Receiver(new, new[n + 1].val) = new[n + 1].tid
      BY <2>3, <2>4, <3>1, ReceiverFacts
    <3> QED BY <2>3, <3>2
  <2>6. ASSUME NEW d, d # c PROVE Receiver(new, d) = Receiver(ids, d)
    <3>1. CASE \E j \in 1 .. n : ids[j].val = d
      <4>1. PICK j \in 1 .. n : ids[j].val = d
        BY <3>1
      <4>2. j \in 1 .. Len(new) /\ new[j] = ids[j]
        BY <1>1, <2>3
      <4>3. Receiver(new, new[j].val) = new[j].tid /\ Receiver(ids, ids[j].val) = ids[j].tid
        BY <2>2, <2>3, <2>4, <4>2, ReceiverFacts
      <4> QED BY <4>1, <4>2, <4>3
    <3>2. CASE \A j \in 1 .. n : ids[j].val # d
      <4>1. \A j \in 1 .. Len(new) : new[j].val # d
        BY <1>1, <2>3, <2>6, <3>2
      <4> QED BY <2>2, <2>3, <2>4, <3>2, <4>1, ReceiverFacts
    <3> QED BY <3>1, <3>2
  <2>7. Registered(ids, new, t, c)
    BY <2>3, <2>4, <2>5, <2>6 DEF Registered
  <2> QED BY <2>7 DEF ids, new
<1> QED BY <1>3, <1>4

(* Registrations on their way: in the buffer m and the mailbox b.  The     *)
(* last one of an identifier is that of its owner; when there is none, it  *)
(* is in the table.                                                        *)
IsRegOf(m, c) == IsReg(m) /\ m.holds = Reg(c)

NoReg(b, c) == \A i \in 1 .. Len(b) : ~IsRegOf(b[i], c)

LastReg(b, i, c) == IsRegOf(b[i], c) /\ \A j \in 1 .. Len(b) : j > i => ~IsRegOf(b[j], c)

RegOk(m, b, o, ids, c) ==
  /\ \A i \in 1 .. Len(b) : LastReg(b, i, c) => o \in {b[i].from, Gone}
  /\ IsRegOf(m, c) /\ NoReg(b, c) => o \in {m.from, Gone}
  /\ ~IsRegOf(m, c) /\ NoReg(b, c) => o \in {Receiver(ids, c), Gone}

RegsInv == \A c \in Chars : RegOk(message, Mail, owner[c], identifies, c)

LEMMA RegFacts ==
  /\ \A t, c, d : IsRegOf(From(t, Reg(c)), d) <=> d = c
  /\ \A t, c : From(t, Reg(c)).from = t
  /\ \A n, c : ~IsRegOf(Key(n), c)
  /\ \A t, text, c : ~IsRegOf(From(t, Cmd(text)), c)
  /\ \A c : ~IsRegOf(Nothing, c)
<1>1. \A t, h : From(t, h).from = t /\ From(t, h).holds = h /\ "from" \in DOMAIN From(t, h)
  BY DEF From
<1>2. \A n : "from" \notin DOMAIN Key(n) /\ "from" \notin DOMAIN Nothing
  BY DEF Key, Nothing
<1>3. \A c, d : Reg(c) = Reg(d) => c = d
  <2>1. \A c : Reg(c).text[1] = c
    BY DEF Reg
  <2> QED BY <2>1
<1>4. \A c : Reg(c).type = "KCD_REG"
  BY DEF Reg
<1>5. \A text : Cmd(text).type = "KCD_CMD"
  BY DEF Cmd
<1>6. \A c, text : Reg(c) # Cmd(text)
  BY <1>4, <1>5
<1>7. \A t, c, d : IsRegOf(From(t, Reg(c)), d) <=> d = c
  BY <1>1, <1>3, <1>4 DEF IsRegOf, IsReg
<1>8. \A n, c : ~IsRegOf(Key(n), c)
  BY <1>2 DEF IsRegOf, IsReg
<1>9. \A t, text, c : ~IsRegOf(From(t, Cmd(text)), c)
  BY <1>1, <1>6 DEF IsRegOf
<1>10. \A c : ~IsRegOf(Nothing, c)
  BY <1>2 DEF IsRegOf, IsReg
<1> QED BY <1>1, <1>7, <1>8, <1>9, <1>10

(* A message joins the mailbox; the KCD task takes one.                    *)
LEMMA RegsLonger ==
  ASSUME NEW b \in Seq(Messages), NEW x, NEW a, a = Append(b, x), a \in Seq(Messages), NEW c
  PROVE  /\ ~IsRegOf(x, c) => \A m, o, ids : RegOk(m, b, o, ids, c) => RegOk(m, a, o, ids, c)
         /\ IsRegOf(x, c) => \A m, ids : RegOk(m, a, x.from, ids, c)
<1> DEFINE n == Len(b)
<1>1. n \in Nat /\ Len(a) = n + 1 /\ (\A i \in 1 .. n : a[i] = b[i]) /\ a[n + 1] = x
  <2>1. b \in Seq(Messages \cup {x}) /\ n \in Nat
    <3>1. \A i \in 1 .. Len(b) : b[i] \in Messages \cup {x}
      BY ElementOfSeq
    <3> QED BY <3>1, LenProperties
  <2> QED BY <2>1, AppendProperties
<1> HIDE DEF n
<1>2. Len(b) = n
  BY DEF n
<1>3. ASSUME ~IsRegOf(x, c), NEW m, NEW o, NEW ids, RegOk(m, b, o, ids, c) PROVE RegOk(m, a, o, ids, c)
  <2>1. NoReg(a, c) <=> NoReg(b, c)
    BY <1>1, <1>2, <1>3 DEF NoReg
  <2>2. ASSUME NEW i \in 1 .. Len(a), LastReg(a, i, c) PROVE o \in {a[i].from, Gone}
    <3>1. i \in 1 .. n /\ LastReg(b, i, c)
      BY <1>1, <1>2, <1>3, <2>2 DEF LastReg
    <3> QED BY <1>1, <1>2, <1>3, <3>1 DEF RegOk
  <2> QED BY <1>3, <2>1, <2>2 DEF RegOk
<1>4. ASSUME IsRegOf(x, c), NEW m, NEW ids PROVE RegOk(m, a, x.from, ids, c)
  <2>1. ~NoReg(a, c)
    BY <1>1, <1>4 DEF NoReg
  <2>2. ASSUME NEW i \in 1 .. Len(a), LastReg(a, i, c) PROVE i = n + 1
    BY <1>1, <1>4, <2>2 DEF LastReg
  <2> QED BY <1>1, <2>1, <2>2 DEF RegOk
<1> QED BY <1>3, <1>4

LEMMA RegsTaken ==
  ASSUME NEW b \in Seq(Messages), b # <<>>, NEW o, NEW ids, NEW c, RegOk(Nothing, b, o, ids, c)
  PROVE  RegOk(Head(b), Tail(b), o, ids, c)
<1> DEFINE n == Len(b)
           a == Tail(b)
           m == Head(b)
<1>1. /\ n \in Nat /\ n >= 1 /\ m = b[1] /\ Len(a) = n - 1 /\ \A i \in 1 .. n - 1 : a[i] = b[i + 1]
  BY HeadTailProperties, LenProperties, EmptySeq
<1> HIDE DEF n, a, m
<1>2. Len(b) = n
  BY DEF n
<1>3. ASSUME NEW i \in 1 .. Len(a), LastReg(a, i, c) PROVE o \in {a[i].from, Gone}
  <2>1. i + 1 \in 1 .. n /\ a[i] = b[i + 1]
    BY <1>1
  <2>2. ASSUME NEW j \in 1 .. n, j > i + 1 PROVE ~IsRegOf(b[j], c)
    <3>1. j - 1 \in 1 .. n - 1 /\ j - 1 > i /\ (j - 1) + 1 = j
      BY <1>1, <2>1, <2>2
    <3>2. a[j - 1] = b[(j - 1) + 1]
      BY <1>1, <3>1
    <3> QED BY <1>1, <1>3, <3>1, <3>2 DEF LastReg
  <2>3. LastReg(b, i + 1, c)
    BY <1>2, <1>3, <2>1, <2>2 DEF LastReg
  <2> QED BY <1>2, <2>1, <2>3 DEF RegOk
<1>4. ASSUME NoReg(a, c) PROVE \A j \in 1 .. n : j > 1 => ~IsRegOf(b[j], c)
  <2>1. ASSUME NEW j \in 1 .. n, j > 1 PROVE ~IsRegOf(b[j], c)
    <3>1. j - 1 \in 1 .. n - 1 /\ (j - 1) + 1 = j
      BY <1>1, <2>1
    <3>2. a[j - 1] = b[(j - 1) + 1]
      BY <1>1, <3>1
    <3> QED BY <1>1, <1>4, <3>1, <3>2 DEF NoReg
  <2> QED BY <2>1
<1>5. ASSUME IsRegOf(m, c), NoReg(a, c) PROVE o \in {m.from, Gone}
  <2>1. 1 \in 1 .. n /\ LastReg(b, 1, c)
    BY <1>1, <1>2, <1>4, <1>5 DEF LastReg
  <2> QED BY <1>1, <1>2, <2>1 DEF RegOk
<1>6. ASSUME ~IsRegOf(m, c), NoReg(a, c) PROVE o \in {Receiver(ids, c), Gone}
  <2>1. NoReg(b, c)
    BY <1>1, <1>2, <1>4, <1>6 DEF NoReg
  <2> QED BY <2>1, RegFacts DEF RegOk
<1>7. RegOk(m, a, o, ids, c)
  BY <1>3, <1>5, <1>6 DEF RegOk
<1> QED BY <1>7 DEF m, a

(* Registrations and table, whatever the step.                             *)
LEMMA RegsStep ==
  ASSUME RestInv, RestInv', KcdTypes, HistoryTypes, RegsInv, Kinds, cur \in Tids
  PROVE  RegsInv'
<1>1. /\ message \in Heard /\ Mail \in Seq(Messages) /\ Mail' \in Seq(Messages)
      /\ owner \in Owners
  BY WayNow, MessageStep, WayNext DEF HistoryTypes, Owners
<1>2. \A c \in Chars : RegOk(message, Mail, owner[c], identifies, c)
  BY DEF RegsInv
<1> DEFINE Goal == RegsInv'
<1>3. ASSUME \A c \in Chars : RegOk(message', Mail', owner'[c], identifies', c) PROVE Goal
  BY <1>3 DEF RegsInv
<1>4. CASE Quiet
  BY <1>2, <1>3, <1>4 DEF Quiet, RegOk
<1>5. CASE KeyLost
  BY <1>2, <1>3, <1>5 DEF KeyLost
<1>6. ASSUME NEW c \in Chars \cup {CR}, KeyTyped(c) PROVE Goal
  BY <1>2, <1>3, <1>6 DEF KeyTyped
<1>7. CASE KeyStored
  <2> DEFINE x == Key(Head(uart))
  <2>1. /\ Mail' = Append(Mail, x) /\ UNCHANGED <<message, identifies, owner>>
        /\ \A c : ~IsRegOf(x, c)
    BY <1>7, RegFacts DEF KeyStored
  <2> HIDE DEF x
  <2>2. \A c \in Chars : RegOk(message, Mail', owner[c], identifies, c)
    BY <1>1, <1>2, <2>1, RegsLonger
  <2> QED BY <1>3, <2>1, <2>2
<1>8. ASSUME NEW c \in Chars, RegSent(c) PROVE Goal
  <2> DEFINE x == From(cur, Reg(c))
  <2>1. /\ Mail' = Append(Mail, x) /\ UNCHANGED <<message, identifies>>
        /\ owner' = [owner EXCEPT ![c] = cur]
        /\ x.from = cur /\ \A d : IsRegOf(x, d) <=> d = c
    BY <1>8, RegFacts DEF RegSent
  <2> HIDE DEF x
  <2>2. ASSUME NEW d \in Chars PROVE RegOk(message, Mail', owner'[d], identifies, d)
    <3>1. CASE d = c
      <4>1. owner'[d] = x.from
        BY <1>1, <2>1, <3>1 DEF Owners
      <4> QED BY <1>1, <2>1, <3>1, <4>1, RegsLonger
    <3>2. CASE d # c
      <4>1. owner'[d] = owner[d]
        BY <1>1, <2>1, <3>2 DEF Owners
      <4> QED BY <1>1, <1>2, <2>1, <3>2, <4>1, RegsLonger
    <3> QED BY <3>1, <3>2
  <2> QED BY <1>3, <2>1, <2>2
<1>9. CASE Taken
  <2>1. /\ message = Nothing /\ Mail # <<>> /\ message' = Head(Mail) /\ Mail' = Tail(Mail)
        /\ UNCHANGED <<identifies, owner>>
    BY <1>9 DEF Taken
  <2>2. \A c \in Chars : RegOk(Head(Mail), Tail(Mail), owner[c], identifies, c)
    BY <1>1, <1>2, <2>1, RegsTaken
  <2> QED BY <1>3, <2>1, <2>2
<1>10. ASSUME NEW t \in Tids, NEW c \in Chars, RegDealt(t, c) PROVE Goal
  <2>1. /\ message = From(t, Reg(c)) /\ message' = Nothing /\ K!Register(t, c)
        /\ UNCHANGED <<Mail, owner>>
    BY <1>10 DEF RegDealt
  <2>2. Registered(identifies, identifies', t, c)
    BY <2>1, RegisterFacts DEF KcdTypes, OneEach
  <2>3. ASSUME NEW d \in Chars PROVE RegOk(Nothing, Mail, owner[d], identifies', d)
    <3>1. RegOk(From(t, Reg(c)), Mail, owner[d], identifies, d)
      BY <1>2, <2>1
    <3>2. /\ ~IsRegOf(Nothing, d) /\ (IsRegOf(From(t, Reg(c)), d) <=> d = c)
          /\ From(t, Reg(c)).from = t
      BY RegFacts
    <3>3. Receiver(identifies', d) = IF d = c THEN t ELSE Receiver(identifies, d)
      BY <2>2 DEF Registered
    <3> QED BY <3>1, <3>2, <3>3 DEF RegOk
  <2> QED BY <1>3, <2>1, <2>3
<1>11. ASSUME NEW n \in 1 .. MaxKeys, KeyDealt(n) \/ ReturnDealt(n) PROVE Goal
  <2>1. /\ message = Key(n) /\ message' = Nothing /\ UNCHANGED <<identifies, owner>>
        /\ Mail' = Mail \/ \E t \in Tids : \E text : Mail' = Append(Mail, From(t, Cmd(text)))
    BY <1>11 DEF KeyDealt, ReturnDealt
  <2>2. \A c \in Chars : RegOk(Nothing, Mail, owner[c], identifies, c)
    BY <1>2, <2>1, RegFacts DEF RegOk
  <2>3. CASE Mail' = Mail
    BY <1>3, <2>1, <2>2, <2>3
  <2>4. ASSUME NEW t \in Tids, NEW text, Mail' = Append(Mail, From(t, Cmd(text))) PROVE Goal
    <3> DEFINE x == From(t, Cmd(text))
    <3>1. Mail' = Append(Mail, x) /\ \A c : ~IsRegOf(x, c)
      BY <2>4, RegFacts
    <3> HIDE DEF x
    <3>2. \A c \in Chars : RegOk(Nothing, Mail', owner[c], identifies, c)
      BY <1>1, <2>2, <3>1, RegsLonger
    <3> QED BY <1>3, <2>1, <3>2
  <2> QED BY <2>1, <2>3, <2>4
<1> QED BY <1>4, <1>5, <1>6, <1>7, <1>8, <1>9, <1>10, <1>11 DEF Kinds

-------------------------------------------------------------------------------
SysInv == RtxInv /\ ProgramInv /\ KcdTypes /\ KcdInv /\ KeysAndLine /\ RegsInv

(* The boot.                                                               *)
LEMMA EmptyWay == \A n : ~On(WayOf(Nothing, <<>>, <<>>), n)
<1>1. IsWay(WayOf(Nothing, <<>>, <<>>), Nothing, <<>>, <<>>)
  <2>1. Nothing \in Heard /\ <<>> \in Seq(Messages) /\ <<>> \in Seq(1 .. MaxKeys)
    BY EmptySeq DEF Heard
  <2> QED BY <2>1, WayFacts
<1> DEFINE w == WayOf(Nothing, <<>>, <<>>)
<1>2. Len(w) = 1 /\ w[1] = Nothing
  <2>1. Len(<<>>) = 0
    BY EmptySeq
  <2> HIDE DEF w
  <2>2. IsWay(w, Nothing, <<>>, <<>>)
    BY <1>1 DEF w
  <2>3. Len(w) = 1 + Len(<<>>) + Len(<<>>) /\ 1 \in 1 .. 1 + Len(<<>>) + Len(<<>>)
    BY <2>1, <2>2 DEF IsWay
  <2> QED BY <2>1, <2>2, <2>3 DEF IsWay
<1> HIDE DEF w
<1>3. \A n : ~On(w, n)
  BY <1>2, KeyFacts DEF On
<1> QED BY <1>3 DEF w

LEMMA SysInitInv == SysInit => SysInv
<1> SUFFICES ASSUME SysInit PROVE SysInv
  OBVIOUS
<1>1. /\ Init
      /\ at = [t \in Tids |-> 1] /\ child = [t \in Tids |-> TID_NULL]
      /\ message = Nothing /\ identifies = <<>> /\ line = <<>>
      /\ tape = <<>> /\ lost = {} /\ owner = [c \in Chars |-> NOBODY]
  BY DEF SysInit, K!Init
<1>2. PICK c \in Configs : k = Booted(c.boot) /\ code = c.entry
  BY DEF SysInit
<1>3. /\ c.boot \in Boots /\ c.entry \in [Tids -> DOMAIN Programs]
      /\ \E i \in DOMAIN c.boot : c.boot[i].tid = TID_KCD
      /\ IsKcdProgram(Programs[c.entry[TID_KCD]])
  BY ConfigConstants
<1>4. RtxInv
  BY <1>1, InitInv
<1>5. TID_KCD \in Tids /\ TID_NULL \in Tids
  BY TaskConstants, TidFacts
<1>6. /\ box = [t \in Tids |-> <<>>] /\ pc = [t \in Tids |-> "run"]
      /\ uart = <<>> /\ typed = 0
  BY <1>1 DEF Init
<1>7. ProgramInv
  <2>1. \A t \in Tids : 1 \in DOMAIN Programs[code[t]] /\ DOMAIN Programs[code[t]] \subseteq Places
    BY <1>2, <1>3, PlaceFacts
  <2>2. 1 \in Places
    BY <1>5, <2>1
  <2> QED BY <1>1, <1>2, <1>3, <1>5, <2>1, <2>2 DEF ProgramInv
<1>8. KcdTypes
  BY <1>1, EmptySeq DEF KcdTypes
<1>9. KcdInv
  <2>1. k.state[TID_KCD] # "DORMANT"
    <3>1. \A m \in DOMAIN c.boot : k.state[c.boot[m].tid] # "DORMANT"
      BY <1>2, <1>3, BootedFacts
    <3> QED BY <1>3, <3>1
  <2>2. pc[TID_KCD] = "run"
    BY <1>5, <1>6
  <2> QED BY <1>1, <1>2, <1>3, <2>1, <2>2 DEF KcdInv
<1>10. KeysAndLine
  <2>1. Way = WayOf(Nothing, <<>>, <<>>)
    BY <1>1, <1>5, <1>6 DEF Way
  <2>2. \A n : ~On(Way, n)
    BY <2>1, EmptyWay
  <2>3. KeysOk(Way, typed, lost)
    <3>1. \A n, m : ~Ahead(Way, n, m)
      BY <2>2 DEF On, Ahead
    <3> QED BY <2>2, <3>1 DEF KeysOk, Sorted
  <2>4. LineMatches(line, tape, Dealt)
    <3>1. Dealt = {}
      BY <1>6 DEF Dealt
    <3>2. SinceReturn(tape, {}) = {}
      BY DEF SinceReturn
    <3>3. Cardinality({}) = 0 /\ Len(<<>>) = 0
      BY FS_EmptySet
    <3> QED BY <1>1, <3>1, <3>2, <3>3 DEF LineMatches
  <2>5. HistoryTypes /\ line \in Seq(Chars)
    BY <1>1, <1>6, EmptySeq DEF HistoryTypes
  <2> QED BY <2>3, <2>4, <2>5 DEF KeysAndLine, KeysInv
<1>11. RegsInv
  <2>1. ASSUME NEW d \in Chars PROVE RegOk(Nothing, <<>>, NOBODY, <<>>, d)
    <3>1. Receiver(<<>>, d) = NOBODY
      BY DEF Receiver
    <3>2. \A i \in 1 .. Len(<<>>) : FALSE
      BY EmptySeq
    <3> QED BY <3>1, <3>2, RegFacts DEF RegOk
  <2>2. Mail = <<>> /\ \A d \in Chars : owner[d] = NOBODY
    BY <1>1, <1>5, <1>6 DEF Mail
  <2> QED BY <1>1, <2>1, <2>2 DEF RegsInv
<1> QED BY <1>4, <1>7, <1>8, <1>9, <1>10, <1>11 DEF SysInv

(* The invariant is inductive, given that of the kernel.                   *)
LEMMA SysInvIsStep ==
  ASSUME SysInv, [SysNext]_svars
  PROVE  [Next]_vars
<1>1. cur \in Tids
  BY TableInvFacts DEF SysInv, RtxInv
<1> QED BY <1>1, SysStepIsStep, RemainsIsStep DEF SysInv

LEMMA SysInvStep ==
  ASSUME ~Overcommit, SysInv, [SysNext]_svars
  PROVE  SysInv'
<1>1. RtxInv'
  BY SysInvIsStep, InductiveInv DEF SysInv
<1>2. cur \in Tids /\ RestInv /\ RestInv' /\ HistoryTypes
  BY <1>1, TableInvFacts DEF SysInv, RtxInv, KeysAndLine
<1>3. ProgramInv' /\ KcdInv'
  BY <1>2, ProgramStep, KcdStep DEF SysInv
<1>4. Kinds
  BY <1>2, StepKinds DEF SysInv
<1>5. KeysAndLine' /\ RegsInv'
  BY <1>2, <1>4, KeysStep, RegsStep DEF SysInv
<1>6. KcdTypes'
  <2>1. message' \in Heard /\ line' \in Seq(Chars)
    BY <1>2, <1>4, <1>5, MessageStep DEF SysInv, KeysAndLine
  <2>2. identifies' \in Seq(Entries) /\ OneEach(identifies')
    <3>1. ASSUME NEW t \in Tids, NEW c \in Chars, RegDealt(t, c)
          PROVE  identifies' \in Seq(Entries) /\ OneEach(identifies')
      <4>1. Registered(identifies, identifies', t, c)
        BY <3>1, RegisterFacts DEF RegDealt, SysInv, KcdTypes, OneEach
      <4> QED BY <4>1 DEF Registered
    <3>2. (\E t \in Tids, c \in Chars : RegDealt(t, c)) \/ identifies' = identifies
      BY <1>4 DEF Kinds, Quiet, RegSent, KeyTyped, KeyStored, KeyLost, Taken, KeyDealt, ReturnDealt
    <3> QED BY <3>1, <3>2 DEF SysInv, KcdTypes, OneEach
  <2> QED BY <2>1, <2>2 DEF KcdTypes, Heard, OneEach
<1> QED BY <1>1, <1>3, <1>5, <1>6 DEF SysInv

LEMMA AlwaysSysInv == ASSUME ~Overcommit PROVE SysSpec => []SysInv
<1>1. SysInit => SysInv
  BY SysInitInv
<1>2. SysInv /\ [SysNext]_svars => SysInv'
  BY SysInvStep
<1> QED BY <1>1, <1>2, PTL DEF SysSpec

-------------------------------------------------------------------------------
(* The programs and the KCD task use the kernel as Rtx allows it: all that *)
(* is proved of Rtx holds of the system.                                   *)
THEOREM ImplementsKernel == ASSUME ~Overcommit PROVE SysSpec => Spec
<1>1. SysInit => Init
  BY DEF SysInit
<1>2. SysInv /\ [SysNext]_svars => [Next]_vars
  BY SysInvIsStep
<1> QED BY <1>1, <1>2, AlwaysSysInv, PTL DEF SysSpec, Spec

(* Every variable stays in its range; programs go on at their              *)
(* instructions; the table has one entry per identifier                    *)
(* (kcd_task.c:47-67).                                                     *)
THEOREM SysTypesCorrect == ASSUME ~Overcommit PROVE SysSpec => []SysTypeOK
<1>1. SysInv /\ TypeOK => SysTypeOK
  BY DEF SysInv, ProgramInv, KcdTypes, KeysAndLine, HistoryTypes, Entries, SysTypeOK
<1> QED BY <1>1, AlwaysSysInv, ImplementsKernel, TypesCorrect, PTL

(* Characters reach the KCD task in the order they were typed, across the  *)
(* UART, the mailbox and its buffer, also when the handler is preempted in *)
(* the middle of its loop (HAL_CA.c:240-262).                              *)
THEOREM KeysStayInOrder == ASSUME ~Overcommit PROVE SysSpec => []KeysInOrder
<1>1. SysInv => KeysInOrder
  <2> SUFFICES ASSUME SysInv, NEW i \in DOMAIN Way, NEW j \in DOMAIN Way,
                      i < j, IsKey(Way[i]), IsKey(Way[j])
               PROVE  Way[i].key < Way[j].key
    BY DEF KeysInOrder, Way, WayOf
  <2>1. Way \in Seq(Heard) /\ Sorted(Way)
    BY WayNow DEF SysInv, RtxInv, KeysAndLine, KeysInv, KeysOk, IsWay
  <2> HIDE DEF Way
  <2>2. DOMAIN Way = 1 .. Len(Way) /\ Way[i] \in Heard /\ Way[j] \in Heard
    BY <2>1, LenProperties, ElementOfSeq
  <2>3. ASSUME NEW m \in Heard, IsKey(m) PROVE m.key \in Nat /\ m = Key(m.key)
    BY <2>3, MessageFacts DEF Heard
  <2>4. /\ Way[i].key \in Nat /\ Way[i] = Key(Way[i].key)
        /\ Way[j].key \in Nat /\ Way[j] = Key(Way[j].key)
    BY <2>2, <2>3
  <2>5. Ahead(Way, Way[i].key, Way[j].key)
    BY <2>2, <2>4 DEF Ahead
  <2> QED BY <2>1, <2>4, <2>5 DEF Sorted
<1> QED BY <1>1, AlwaysSysInv, PTL

(* The line of the KCD task is what was typed since the last return key,   *)
(* but for keys that were dropped and keys on their way                    *)
(* (kcd_task.c:124-137).                                                   *)
THEOREM LineIsAsTyped == ASSUME ~Overcommit PROVE SysSpec => []LineAsTyped
<1>1. SysInv => LineAsTyped
  BY LineAsDealt DEF SysInv, KeysAndLine
<1> QED BY <1>1, AlwaysSysInv, PTL

LEMMA LatestNow == SysInv => TableIsLatest
<1> SUFFICES ASSUME SysInv, NEW c \in Chars, ~Pending(c), owner[c] # Gone
             PROVE  K!receiver_tid(c) = owner[c]
  BY DEF TableIsLatest
<1>1. RegOk(message, Mail, owner[c], identifies, c) /\ Mail \in Seq(Messages)
  BY WayNow DEF SysInv, RtxInv, RegsInv
<1>2. \A m \in Range(Mail) \cup {message} : ~IsRegOf(m, c)
  BY DEF Pending, IsRegOf, Mail
<1>3. NoReg(Mail, c)
  BY <1>1, <1>2, LenProperties DEF NoReg, Range
<1> QED BY <1>1, <1>2, <1>3, ReceiverIs DEF RegOk

(* The table has the task that registered an identifier last, unless it    *)
(* has exited or its registration is on its way (kcd_task.c:47-67).        *)
THEOREM TableHoldsLatest == ASSUME ~Overcommit PROVE SysSpec => []TableIsLatest
BY LatestNow, AlwaysSysInv, PTL

(* Nobody else sends commands.                                             *)
LEMMA OnlyForwarded ==
  ASSUME SysInv, [SysNext]_svars, NEW r \in Tids, Arrives(r)
  PROVE  Forwards(r) /\ Last(box'[r]).holds.text = K!Command
<1>1. box \in [Tids -> Seq(Messages)] /\ cur \in Tids /\ TID_KCD \in Tids
  BY RestInvFacts, TableInvFacts, TaskConstants DEF SysInv, RtxInv
<1>2. Len(box[r]) \in Nat /\ \A t \in Tids : box[t] \in Seq(Messages)
  BY <1>1, LenProperties
<1>3. box'[r] = box[r] => ~Arrives(r)
  <2> DEFINE p == box[r]
  <2>1. ~(Len(p) > Len(p))
    BY <1>2
  <2> HIDE DEF p
  <2>2. box'[r] = p => ~(Len(box'[r]) > Len(p))
    BY <2>1
  <2> QED BY <2>2 DEF p, Arrives
<1>4. ASSUME NEW t \in Tids, NEW m, box' = [box EXCEPT ![t] = Append(@, m)], Arrives(r)
      PROVE  r = t /\ Last(box'[r]) = m
  <2>1. CASE r # t
    <3>1. box'[r] = box[r]
      BY <1>1, <1>4, <2>1
    <3>2. ~Arrives(r)
      BY <1>3, <3>1
    <3> QED BY <1>4, <3>2
  <2>2. CASE r = t
    <3>1. box'[r] = Append(box[r], m)
      BY <1>1, <1>4, <2>2
    <3>2. Last(Append(box[r], m)) = m
      <4>1. box[r] \in Seq(Messages \cup {m})
        <5>1. \A i \in 1 .. Len(box[r]) : box[r][i] \in Messages \cup {m}
          BY <1>2, ElementOfSeq
        <5> QED BY <1>2, <5>1, LenProperties
      <4>2. /\ Len(Append(box[r], m)) = Len(box[r]) + 1
            /\ Append(box[r], m)[Len(box[r]) + 1] = m
        BY <4>1, AppendProperties
      <4> QED BY <4>2 DEF Last
    <3> QED BY <2>2, <3>1, <3>2
  <2> QED BY <2>1, <2>2
<1>5. ASSUME NEW t \in Tids, NEW m, ~IsCmd(m), box' = [box EXCEPT ![t] = Append(@, m)]
      PROVE  ~Arrives(r)
  BY <1>4, <1>5 DEF Arrives
<1>6. ASSUME NEW t \in Tids, box' = [box EXCEPT ![t] = <<>>] PROVE ~Arrives(r)
  <2>1. box'[r] = box[r] \/ box'[r] = <<>>
    BY <1>1, <1>6
  <2> QED BY <1>2, <2>1, EmptySeq DEF Arrives
<1>7. ASSUME NEW t \in Tids, box[t] # <<>>, box' = [box EXCEPT ![t] = Tail(@)] PROVE ~Arrives(r)
  <2>1. box'[r] = box[r] \/ (r = t /\ box'[r] = Tail(box[r]) /\ box[r] # <<>>)
    BY <1>1, <1>7
  <2>2. box[r] # <<>> => Len(Tail(box[r])) = Len(box[r]) - 1
    BY <1>2, HeadTailProperties
  <2>3. Tail(box[r]) \in Seq(Messages) /\ box[r] # <<>> => ~(Len(Tail(box[r])) > Len(box[r]))
    BY <1>2, <2>2
  <2>4. CASE box'[r] = Tail(box[r]) /\ box[r] # <<>>
    BY <1>2, <2>3, <2>4, HeadTailProperties DEF Arrives
  <2> QED BY <1>3, <2>1, <2>4
<1>8. \A t, c, n : ~IsCmd(From(t, Reg(c))) /\ ~IsCmd(Key(n))
  <2>1. \A t, c : From(t, Reg(c)).holds = Reg(c) /\ Reg(c).type = "KCD_REG"
    BY DEF From, Reg
  <2>2. \A n : "from" \notin DOMAIN Key(n)
    BY DEF Key
  <2> QED BY <2>1, <2>2 DEF IsCmd
<1>9. CASE Creates
  BY <1>6, <1>9 DEF Creates, TskCreate
<1>10. CASE Registers
  BY <1>1, <1>5, <1>8, <1>10 DEF Registers, SendMsg, k_send_msg
<1>11. CASE Receives1 \/ GoesOn
  BY <1>1, <1>3, <1>7, <1>11 DEF Receives1, RecvMsg, RecvBlock, GoesOn, RecvGoesOn
<1>12. CASE Handles
  BY <1>1, <1>5, <1>3, <1>8, <1>12 DEF Handles, StoreKey, DropKey, InterruptEnds,
     InterruptUnexpected, k_send_msg
<1>13. ASSUME NEW t \in Tids, Forwards(t)
       PROVE  Forwards(r) /\ Last(box'[r]).holds.text = K!Command
  <2>1. box' = [box EXCEPT ![t] = Append(@, From(cur, Cmd(K!Command)))]
    BY <1>13 DEF Forwards, SendMsg, k_send_msg
  <2>2. r = t /\ Last(box'[r]) = From(cur, Cmd(K!Command))
    BY <1>4, <2>1
  <2> QED BY <1>13, <2>2 DEF From, Cmd
<1>14. (UNCHANGED svars) \/ Exits \/ SetsPrio \/ Yields \/ CreatesMbx \/ Fails \/ DealsWithReg
       \/ DealsWithKey \/ DealsWithReturn \/ Idles \/ Interrupted
       \/ (\E c \in Chars \cup {CR} : Types(c)) => UNCHANGED box
  BY DEF svars, vars, Exits, TskExit, SetsPrio, TskSetPrio, Yields, TskYield, CreatesMbx, MbxCreate, Fails,
         DealsWithReg, DealsWithKey, DealsWithReturn, Idles, NullYield, Interrupted, Interrupt,
         Types, KeyPressed
<1> QED BY <1>3, <1>9, <1>10, <1>11, <1>12, <1>13, <1>14 DEF SysNext, Runs, Call, KcdDeals

(* A command that arrives anywhere is the rest of a line that starts with  *)
(* '%' and is not too long (kcd_task.c:79-112).                            *)
THEOREM CommandsAreTyped == ASSUME ~Overcommit PROVE SysSpec => CommandIsTyped
<1> DEFINE Holds(r) == Arrives(r) =>
                         /\ line # <<>> /\ Len(line) <= LONGEST
                         /\ line = <<Percent>> \o Last(box'[r]).holds.text
<1>1. SysInv /\ [SysNext]_svars => \A r \in Tids : Holds(r)
  BY OnlyForwarded, ForwardFacts DEF SysInv
<1>2. SysInv /\ [SysNext]_svars => [\A r \in Tids : Holds(r)]_svars
  BY <1>1
<1> QED BY <1>2, AlwaysSysInv, PTL DEF SysSpec, CommandIsTyped

(* A command whose identifier has no registration on its way arrives at    *)
(* the task that registered this identifier last, unless that task has     *)
(* exited.                                                                 *)
CommandToOwner ==
  [][ \A r \in Tids :
        Arrives(r) /\ Len(line) > 1 /\ ~Pending(line[2]) => owner[line[2]] \in {r, Gone} ]_svars

(* What is left of CommandToRegistrant (kcd_task.c:72): a command goes to  *)
(* the task that registered its first character, or that task has exited.  *)
THEOREM CommandsReachOwners == ASSUME ~Overcommit PROVE SysSpec => CommandToOwner
<1> DEFINE Holds(r) == Arrives(r) /\ Len(line) > 1 /\ ~Pending(line[2])
                         => owner[line[2]] \in {r, Gone}
<1>1. SysInv /\ [SysNext]_svars => \A r \in Tids : Holds(r)
  <2> SUFFICES ASSUME SysInv, [SysNext]_svars, NEW r \in Tids,
                      Arrives(r), Len(line) > 1, ~Pending(line[2])
               PROVE  owner[line[2]] \in {r, Gone}
    OBVIOUS
  <2>1. line \in Seq(Chars) /\ Len(line) # 1
    BY DEF SysInv, KcdTypes
  <2>2. line[2] \in Chars
    <3>1. 2 \in 1 .. Len(line)
      BY <2>1, LenProperties
    <3> QED BY <2>1, <3>1, ElementOfSeq
  <2>3. r = K!receiver_tid(line[2])
    BY <2>1, OnlyForwarded DEF Forwards, K!Forwarded, K!MsgIdentifiers
  <2> QED BY <2>2, <2>3, LatestNow DEF TableIsLatest
<1>2. SysInv /\ [SysNext]_svars => [\A r \in Tids : Holds(r)]_svars
  BY <1>1
<1> QED BY <1>2, AlwaysSysInv, PTL DEF SysSpec, CommandToOwner

===============================================================================
