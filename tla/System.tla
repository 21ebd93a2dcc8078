-------------------------------- MODULE System ---------------------------------
(***************************************************************************)
(* The system: the kernel (Rtx) with the programs that its tasks run, the  *)
(* KCD task (Kcd) among them, and somebody who types commands.             *)
(*                                                                         *)
(* A program is a sequence of instructions, one per system call, in the    *)
(* order of the code; what lies between the calls, printing and waiting,   *)
(* has no effect here.  A call that returns an error changes nothing but   *)
(* where the program is.  The KCD task keeps the message it received until *)
(* it has dealt with it, with other tasks and interrupts in between.       *)
(***************************************************************************)
EXTENDS Rtx

CONSTANTS
  Programs,   \* the functions tasks run: sequences of instructions
  Configs,    \* choices of [boot, entry]: boot-time tasks and their functions
  Chars,      \* the characters typed and registered, the return key apart
  Percent,    \* '%'
  LONGEST,    \* the longest line that is a command
  Texts       \* what may be typed: sequences of characters and return keys

CR == "return"

(* What messages from tasks hold.  A registration fits the mailbox of the  *)
(* KCD task; a command may be too large for that of its receiver.          *)
Reg(c) == [type |-> "KCD_REG", text |-> <<c>>]
Cmd(text) == [type |-> "KCD_CMD", text |-> text]
CommandTexts == UNION {[1 .. n -> Chars] : n \in 0 .. LONGEST - 1}

ASSUME SystemConstants ==
  /\ Percent \in Chars /\ LONGEST \in Nat
  /\ Contents = {Reg(c) : c \in Chars} \cup {Cmd(text) : text \in CommandTexts}
  /\ \A c \in Chars : Reg(c) \notin Outsized

(* An instruction names the one to go on at, unless the task exits, and    *)
(* what its call needs.                                                    *)
IsInstruction(i, places) ==
  /\ i.call # "exit" => i.then \in places
  /\ i.call = "create" => i.entry \in DOMAIN Programs /\ i.prio \in Priorities
  /\ i.call = "set_prio" => i.prio \in Priorities
  /\ i.call = "register" => i.char \in Chars

ASSUME ProgramConstants ==
  \A f \in DOMAIN Programs :
    /\ 1 \in DOMAIN Programs[f]
    /\ \A i \in DOMAIN Programs[f] : IsInstruction(Programs[f][i], DOMAIN Programs[f])

(* The KCD task is one of the boot-time tasks.  It makes its mailbox; then *)
(* it receives, and deals with what it received, by turns.                 *)
IsKcdProgram(p) ==
  /\ p[1].call = "mbx"
  /\ \A i \in DOMAIN p :
       \/ p[i].call \in {"mbx", "deal"} /\ p[p[i].then].call = "recv"
       \/ p[i].call = "recv" /\ p[p[i].then].call = "deal"

ASSUME ConfigConstants ==
  \A c \in Configs :
    /\ c.boot \in Boots
    /\ c.entry \in [Tids -> DOMAIN Programs]
    /\ \E i \in DOMAIN c.boot : c.boot[i].tid = TID_KCD
    /\ IsKcdProgram(Programs[c.entry[TID_KCD]])

VARIABLES
  code,         \* the function each task runs
  at,           \* the instruction it is at
  child,        \* the task id its last tsk_create returned
  message,      \* what the KCD task received last
  identifies,   \* see Kcd
  line,         \* see Kcd
  tape,         \* history: the characters typed, the n-th is that of Key(n)
  lost,         \* history: keys that could not be stored
  owner         \* history: who sent the last registration of each identifier

program == <<code, child>>
kcd == <<message, identifies, line>>
history == <<tape, lost, owner>>
svars == <<vars, program, at, kcd, history>>

K == INSTANCE Kcd

NOBODY == K!NOBODY
Nothing == [holds |-> "nothing"]
IsReg(m) == "from" \in DOMAIN m /\ m.holds.type = "KCD_REG"
IsCmd(m) == "from" \in DOMAIN m /\ m.holds.type = "KCD_CMD"

-------------------------------------------------------------------------------
SysInit ==
  /\ Init
  /\ \E c \in Configs : k = Booted(c.boot) /\ code = c.entry
  /\ at = [t \in Tids |-> 1]
  /\ child = [t \in Tids |-> TID_NULL]
  /\ message = Nothing
  /\ K!Init
  /\ tape = <<>>
  /\ lost = {}
  /\ owner = [c \in Chars |-> NOBODY]

instruction == Programs[code[cur]][at[cur]]
Do(call) == cur # TID_NULL /\ pc[cur] = "run" /\ instruction.call = call

(* The current task goes on at the instruction after this one.             *)
Next1 == at' = [at EXCEPT ![cur] = instruction.then]

Creates ==
  /\ Do("create")
  /\ \E t \in Tids :
       /\ TskCreate(t, instruction.prio)
       /\ code' = [code EXCEPT ![t] = instruction.entry]
       /\ at' = [at EXCEPT ![cur] = instruction.then, ![t] = 1]
       /\ child' = [child EXCEPT ![cur] = t]
  /\ UNCHANGED <<kcd, history>>

Gone == -2

(* The ids of tasks that exit are used again.                              *)
Exits ==
  /\ Do("exit")
  /\ TskExit
  /\ owner' = [c \in Chars |-> IF owner[c] = cur THEN Gone ELSE owner[c]]
  /\ UNCHANGED <<program, at, kcd, tape, lost>>

SetsPrio ==
  /\ Do("set_prio")
  /\ TskSetPrio(child[cur], instruction.prio)
  /\ Next1
  /\ UNCHANGED <<program, kcd, history>>

Yields ==
  /\ Do("yield")
  /\ TskYield
  /\ Next1
  /\ UNCHANGED <<program, kcd, history>>

CreatesMbx ==
  /\ Do("mbx")
  /\ MbxCreate
  /\ Next1
  /\ UNCHANGED <<program, kcd, history>>

(* A task sends a KCD_REG message to the KCD task.                         *)
Registers ==
  /\ Do("register")
  /\ SendMsg(TID_KCD, Reg(instruction.char))
  /\ owner' = [owner EXCEPT ![instruction.char] = cur]
  /\ Next1
  /\ UNCHANGED <<program, kcd, tape, lost>>

(* The buffer of the receiver; only the KCD task looks into it.            *)
Buffered == message' = IF cur = TID_KCD THEN Head(box[cur]) ELSE message

Receives1 ==
  /\ Do("recv")
  /\ \/ RecvMsg /\ Buffered
     \/ RecvBlock /\ UNCHANGED message
  /\ Next1
  /\ UNCHANGED <<program, identifies, line, history>>

GoesOn ==
  /\ RecvGoesOn
  /\ Buffered
  /\ UNCHANGED <<program, at, identifies, line, history>>

(* A call that returns an error.                                           *)
CallFails ==
  \/ Do("create") /\ k.active >= MAX_TASKS
  \/ Do("mbx") /\ cur \in mbx
  \/ Do("recv") /\ cur \notin mbx
  \/ Do("register") /\ Refuses(TID_KCD, From(cur, Reg(instruction.char)))

Fails ==
  /\ CallFails
  /\ Next1
  /\ UNCHANGED <<vars, program, kcd, history>>

-------------------------------------------------------------------------------
(* kcd_task: one round of its loop after recv_msg.                         *)
Deals ==
  /\ Do("deal")
  /\ message' = Nothing
  /\ Next1
  /\ UNCHANGED <<program, history>>

Typed == IsKey(message) /\ tape[message.key] # CR
Returned == IsKey(message) /\ tape[message.key] = CR

DealsWithReg ==
  /\ IsReg(message)
  /\ K!Register(message.from, message.holds.text[1])
  /\ Deals
  /\ UNCHANGED vars

DealsWithKey ==
  /\ Typed
  /\ K!KeyIn(tape[message.key])
  /\ Deals
  /\ UNCHANGED vars

(* Nothing is sent, or send_msg refuses the command.                       *)
DealsWithReturn ==
  /\ Returned
  /\ \/ K!EmptyLine
     \/ K!Rejected
     \/ \E r \in Tids : K!Forwarded(r) /\ Refuses(r, From(cur, Cmd(K!Command)))
  /\ Deals
  /\ UNCHANGED vars

Forwards(r) ==
  /\ Returned
  /\ K!Forwarded(r)
  /\ SendMsg(r, Cmd(K!Command))
  /\ Deals

KcdDeals == DealsWithReg \/ DealsWithKey \/ DealsWithReturn \/ \E r \in Tids : Forwards(r)

-------------------------------------------------------------------------------
Types(c) ==
  /\ KeyPressed
  /\ \E text \in Texts : IsPrefix(Append(tape, c), text)
  /\ tape' = Append(tape, c)
  /\ UNCHANGED <<program, at, kcd, lost, owner>>

Interrupted == Interrupt /\ UNCHANGED <<program, at, kcd, history>>

Handles ==
  /\ \/ StoreKey /\ UNCHANGED lost
     \/ DropKey /\ lost' = lost \cup {Head(uart)}
     \/ (InterruptEnds \/ InterruptUnexpected) /\ UNCHANGED lost
  /\ UNCHANGED <<program, at, kcd, tape, owner>>

Idles == NullYield /\ UNCHANGED <<program, at, kcd, history>>

Call ==
  Creates \/ Exits \/ SetsPrio \/ Yields \/ CreatesMbx \/ Registers \/ Receives1 \/ GoesOn \/ Fails

(* The current task, in its own code, in the kernel or in the handler.     *)
Runs == Call \/ KcdDeals \/ Idles \/ Handles

SysNext == Runs \/ Interrupted \/ \E c \in Chars \cup {CR} : Types(c)

SysSpec == SysInit /\ [][SysNext]_svars

(* The processor does not stop: a task that can do something does it.  All *)
(* that it can do without effect is to yield to itself.  The interrupt     *)
(* line stays asserted until the key is read, and is taken when user-mode  *)
(* tasks run again and again.                                              *)
Spins ==
  /\ pc[cur] = "run"
  /\ cur = TID_NULL \/ (Do("yield") /\ instruction.then = at[cur])
  /\ k_tsk_yield(k).cur = cur

Fairness ==
  /\ []<>Spins \/ []<><<UNCHANGED typed>>_svars
  /\ SF_svars(Interrupted)

FairSpec == SysSpec /\ Fairness

-------------------------------------------------------------------------------
(* Types of the variables; the table does not grow when an identifier is   *)
(* registered again: 62 entries are enough for the letters and the digits. *)
SysTypeOK ==
  /\ TypeOK
  /\ code \in [Tids -> DOMAIN Programs]
  /\ \A t \in Tids : at[t] \in DOMAIN Programs[code[t]]
  /\ child \in [Tids -> Tids]
  /\ message \in Messages \cup {Nothing}
  /\ identifies \in Seq([val : Chars, tid : Tids])
  /\ \A i, j \in DOMAIN identifies : identifies[i].val = identifies[j].val => i = j
  /\ line \in Seq(Chars)
  /\ tape \in Seq(Chars \cup {CR}) /\ Len(tape) = typed
  /\ lost \in SUBSET (1 .. typed)
  /\ owner \in [Chars -> Tids \cup {NOBODY, Gone}]

(* Characters reach the KCD task in the order they were typed, also when   *)
(* it preempts the interrupt handler in the middle of its loop: the key in *)
(* its buffer, those in its mailbox and those in the UART follow each      *)
(* other.                                                                  *)
KeysInOrder ==
  LET way == <<message>> \o box[TID_KCD] \o [i \in DOMAIN uart |-> Key(uart[i])]
  IN  \A i, j \in DOMAIN way :
        i < j /\ IsKey(way[i]) /\ IsKey(way[j]) => way[i].key < way[j].key

(* The line is what was typed since the last return key that the KCD task  *)
(* dealt with, in that order, but for the keys that were lost, and those   *)
(* still on their way in the UART, in the mailbox or in its buffer.        *)
OnItsWay(n) == n \in Range(uart) \/ Key(n) \in Range(box[TID_KCD]) \cup {message}

Dealt == {n \in 1 .. typed : n \notin lost /\ ~OnItsWay(n)}
OfLine == {n \in Dealt : \A m \in Dealt : m >= n => tape[m] # CR}

LineAsTyped ==
  /\ Len(line) = Cardinality(OfLine)
  /\ \A n \in OfLine : line[Cardinality({m \in OfLine : m <= n})] = tape[n]

(* The table maps each identifier to the task whose registration was       *)
(* accepted last, although a registration replaces the first entry and a   *)
(* command uses the last, unless one is still on its way or that task has  *)
(* exited.                                                                 *)
Pending(c) == \E m \in Range(box[TID_KCD]) \cup {message} : IsReg(m) /\ m.holds = Reg(c)

TableIsLatest ==
  \A c \in Chars : Pending(c) \/ owner[c] = Gone \/ K!receiver_tid(c) = owner[c]

(* A command arrives only when a line was typed that starts with '%' and   *)
(* is not too long, and holds the rest of that line.                       *)
Arrives(r) == Len(box'[r]) > Len(box[r]) /\ IsCmd(Last(box'[r]))

CommandIsTyped ==
  [][ \A r \in Tids : Arrives(r) =>
        /\ line # <<>> /\ Len(line) <= LONGEST
        /\ line = <<Percent>> \o Last(box'[r]).holds.text ]_svars

(* kcd_task.c:72, "create message for the corresponding registered task":  *)
(* a command goes to the task that registered its first character, not to  *)
(* one that has its id since it exited.                                    *)
CommandToRegistrant ==
  [][ \A r \in Tids :
        Arrives(r) /\ Len(line) > 1 /\ ~Pending(line[2]) => owner[line[2]] = r ]_svars

(* A task that can run, and than which none is more urgent, gets the       *)
(* processor in its turn: whoever yields, exits, waits, is woken or        *)
(* created stands behind it.                                               *)
IsUrgent(t) == k.state[t] = "READY" /\ \A u \in Queued : k.prio[t] <= k.prio[u]

TakesTurn == \A t \in Tids \ {TID_NULL} : IsUrgent(t) ~> ~IsUrgent(t)

(* Every key that was typed is read by the KCD task, or dropped if it      *)
(* cannot be stored: it does not stay in the UART or in the mailbox.       *)
Unread == uart # <<>> \/ \E m \in Range(box[TID_KCD]) : IsKey(m)

KeysAreRead == Unread ~> ~Unread

(* A message that waits, a registration or a command, is received: no task *)
(* sleeps on a full mailbox for ever.                                      *)
MailIsRead == \A t \in Tids \ {TID_NULL} : box[t] # <<>> ~> box[t] = <<>>
===============================================================================
