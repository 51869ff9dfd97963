----------------------------- MODULE KmtProofs -----------------------------
(***************************************************************************)
(* Machine-checked proofs about Kmt, for every number of CPUs, slots, tasks *)
(* and semaphores.                                                         *)
(*                                                                         *)
(* Two ideas carry the proofs.  A task is pinned: kmt_context_switch of    *)
(* CPU c only takes ids congruent to c, an id never changes while the task *)
(* lives, and even a dead task keeps it, so whatever a CPU stands on or    *)
(* believes to run belongs to that CPU alone.  And a task that is queued   *)
(* sleeps: it is WAITING, or still inside the critical section in which it *)
(* queued itself, so no CPU picks it and no signal can come in between.    *)
(***************************************************************************)
EXTENDS Kmt, DataLemmas, TLAPS

\* The phases in which a CPU holds trap_lk.
InTrapLock == {"t_save", "t_notify", "t_notified", "t_switch", "t_unlock"}

\* The phases from kmt_context_save to kmt_context_switch.
Scheduling == {"t_notify", "t_notified", "t_switch"}

\* trap_lk is in the hands of the CPU whose phase says so.
TrapLockInv ==
  \A c \in Cpus : trapLock = c <=> phase[c] \in InTrapLock

\* A slot holds a created task, which carries the number of the slot.
TableIsRight ==
  \A i \in Slots : slot[i] # NoTask => id[slot[i]] = i /\ status[slot[i]] # "NEW"

\* The idle tasks stay where kmt->init put them, and never sleep.
IdleInv ==
  \A t \in IdleTasks :
    /\ slot[t] = t /\ ~suicide[t] /\ pc[t] = "run"
    /\ status[t] \in {"READY", "RUNNING"}

\* The idle task of a CPU is RUNNING only while the CPU believes to run it, and
\* not between kmt_context_save and kmt_context_switch.
OwnIdleInv ==
  \A c \in Cpus : status[c] = "RUNNING" => curTask[c] = c /\ phase[c] \notin Scheduling

\* What a CPU stands on is a created task whose id is one of its own.
StackPinned ==
  \A c \in Cpus : stack[c] # Boot =>
    id[stack[c]] % NCpu = c /\ status[stack[c]] # "NEW"

\* What a CPU believes to run sits in its slot, which is one of its own.
CurPinned ==
  \A c \in Cpus : curTask[c] # NoTask =>
    slot[id[curTask[c]]] = curTask[c] /\ id[curTask[c]] % NCpu = c

\* The CPU believes what is true, except between kmt_context_save and iret.
CurIsStack ==
  \A c \in Cpus :
    /\ phase[c] \in {"user", "t_lock", "t_save", "panic"} /\ stack[c] # Boot =>
         curTask[c] = stack[c]
    /\ phase[c] \in {"t_unlock", "t_iret"} => curTask[c] # NoTask

\* Who was never created has no program counter anywhere.
NewIsIdle == \A t \in Tasks : status[t] = "NEW" => pc[t] = "run"

TableInv ==
  /\ TypeOK /\ TrapLockInv /\ TableIsRight /\ IdleInv /\ OwnIdleInv
  /\ StackPinned /\ CurPinned /\ CurIsStack /\ NewIsIdle

-----------------------------------------------------------------------------
(* Semaphores.                                                              *)

\* The labels at which a task holds the lock of the semaphore it named.
HoldPCs == {"w_status", "w_unlock", "w_done", "s_unlock"}

\* A task in a critical section is on its CPU, which holds the lock.
HolderInv ==
  \A t \in Tasks : pc[t] \in HoldPCs =>
    LET c == id[t] % NCpu IN
    stack[c] = t /\ phase[c] \in {"user", "panic"} /\ semLock[sem[t]] = c

NotifierInv ==
  \A c \in Cpus : phase[c] = "t_notified" => semLock[KbdSem] = c

\* A task that is queued is in the loop of sem_wait, and sleeps, or is about
\* to and still holds the lock.
QueuedSleeps ==
  \A s \in Sems : \A i \in 1..Len(que[s]) :
    LET t == que[s][i] IN
    pc[t] \in Looping /\ (pc[t] = "w_status" \/ status[t] = "WAITING")

\* Between the enqueueing and the status the task stays in the queue.
StatusIsQueued == \A t \in Tasks : pc[t] = "w_status" => Queued(t, sem[t])

\* The task a CPU has just switched to is in no queue.
SwitchedToAwake ==
  \A c \in Cpus : \A s \in Sems :
    phase[c] \in {"t_unlock", "t_iret"} => ~Queued(curTask[c], s)

SleepInv ==
  /\ HolderInv /\ NotifierInv /\ QueuedOnce /\ QueuedSleeps /\ StatusIsQueued
  /\ SwitchedToAwake /\ NoSpuriousWakeup

-----------------------------------------------------------------------------
(* Units and wake-ups.                                                      *)

LoopSet == {t \in Tasks : pc[t] \in Looping}

\* Whoever was woken is awake until the next test, and the units of a semaphore
\* somebody sleeps on are no more than those who were woken.
WakeInv ==
  /\ IsFiniteSet(LoopSet)
  /\ \A s \in Sems :
       /\ que[s] # << >> => value[s] <= Cardinality(Woken(s))
       /\ \A t \in Woken(s) : status[t] # "WAITING"

-----------------------------------------------------------------------------
(* The table, the CPUs and the stacks.                                      *)

LEMMA ConstantFacts ==
  /\ IdleTasks \subseteq Tasks /\ IdleTasks \subseteq Slots /\ Cpus \subseteq IdleTasks
  /\ 0 \in IdleTasks /\ 0 \in Slots
  /\ NoTask \notin Tasks /\ Boot \notin Tasks /\ NoCpu \notin Cpus
  /\ \A c \in Cpus : c % NCpu = c
<1>1. \A c \in Cpus : c % NCpu = c BY CpuAssumption, ModSmall DEF Cpus
<1> QED BY <1>1, CpuAssumption, TaskAssumption
        DEF IdleTasks, Slots, Cpus, NoTask, Boot, NoCpu

LEMMA TableInit == Init => TableInv
<1> SUFFICES ASSUME Init PROVE TableInv OBVIOUS
<1> USE ConstantFacts, CpuAssumption, TaskAssumption, SemAssumption DEF Init
<1>1. TypeOK
  <2>1. << >> \in Seq(Tasks) BY EmptySeq
  <2> QED BY <2>1 DEF TypeOK, Slots, Status, Phases, FlowPCs, Events
<1>2. TrapLockInv BY DEF TrapLockInv, InTrapLock
<1>3. TableIsRight BY DEF TableIsRight, Slots, NoTask
<1>4. IdleInv BY DEF IdleInv, IdleTasks
<1>5. OwnIdleInv BY DEF OwnIdleInv
<1>6. StackPinned /\ CurPinned /\ CurIsStack /\ NewIsIdle
  BY DEF StackPinned, CurPinned, CurIsStack, NewIsIdle
<1> QED BY <1>1, <1>2, <1>3, <1>4, <1>5, <1>6 DEF TableInv

\* The task a CPU executes is the one it believes to run, and not a new one.
LEMMA Executes ==
  ASSUME TableInv, NEW c \in Cpus, NEW t \in Tasks, NEW label, RunsAt(c, t, label)
  PROVE  /\ phase[c] = "user" /\ stack[c] = t /\ curTask[c] = t /\ pc[t] = label
         /\ id[t] % NCpu = c /\ slot[id[t]] = t /\ status[t] # "NEW"
         /\ label # "run" => t \notin IdleTasks
<1> USE ConstantFacts DEF RunsAt
<1>1. phase[c] = "user" /\ stack[c] = t /\ pc[t] = label /\ t # Boot /\ t # NoTask OBVIOUS
<1>2. curTask[c] = t BY <1>1 DEF TableInv, CurIsStack
<1>3. status[t] # "NEW" BY <1>1 DEF TableInv, StackPinned
<1>4. id[t] % NCpu = c BY <1>1 DEF TableInv, StackPinned
<1>5. slot[id[t]] = t BY <1>1, <1>2 DEF TableInv, CurPinned
<1>6. label # "run" => t \notin IdleTasks BY <1>1 DEF TableInv, IdleInv
<1> QED BY <1>1, <1>2, <1>3, <1>4, <1>5, <1>6

\* A task that is no idle task moves inside sem_wait and sem_signal.
LEMMA FlowKeepsTable ==
  ASSUME TableInv, NEW c \in Cpus, NEW t \in Tasks, NEW from, RunsAt(c, t, from),
         t \notin IdleTasks, NEW to \in FlowPCs, Goto(t, to),
         UNCHANGED <<slot, id, status, suicide, curTask, stack, event, trapLock>>,
         \/ UNCHANGED phase
         \/ Enter(c, "panic"),
         sem' \in [Tasks -> Sems], value' \in [Sems -> Nat], que' \in [Sems -> Seq(Tasks)],
         semLock' \in [Sems -> Cpus \cup {NoCpu}]
  PROVE  TableInv'
<1> USE DEF TableInv
<1>1. phase[c] = "user" /\ status[t] # "NEW" BY Executes
<1>2. TypeOK' BY DEF TypeOK, Goto, Enter, Phases
<1>p. /\ phase'[c] \in {"user", "panic"}
      /\ \A d \in Cpus : d # c => phase'[d] = phase[d]
  BY <1>1 DEF TypeOK, Enter
<1>3. TrapLockInv' BY <1>1, <1>p DEF TrapLockInv, InTrapLock
<1>o. OwnIdleInv' BY <1>1, <1>p DEF OwnIdleInv, Scheduling
<1>c. CurIsStack' BY <1>1, <1>p DEF CurIsStack
<1>4. TableIsRight' /\ StackPinned' /\ CurPinned'
  BY DEF TableIsRight, StackPinned, CurPinned
<1>5. IdleInv' /\ NewIsIdle'
  BY <1>1, ConstantFacts, ZenonT(30) DEF IdleInv, NewIsIdle, TypeOK, Goto
<1> QED BY <1>2, <1>3, <1>o, <1>c, <1>4, <1>5

\* sem_signal makes a task READY, or nobody.
LEMMA SignalTypes ==
  ASSUME TypeOK, NEW s \in Sems, Signal(s)
  PROVE  /\ value' \in [Sems -> Nat] /\ que' \in [Sems -> Seq(Tasks)]
         /\ status' \in [Tasks -> Status]
         /\ \A t \in Tasks : status'[t] = status[t] \/ status'[t] = "READY"
<1>1. value \in [Sems -> Nat] /\ que \in [Sems -> Seq(Tasks)] /\ status \in [Tasks -> Status]
  BY DEF TypeOK
<1>2. value' \in [Sems -> Nat] BY <1>1 DEF Signal
<1>3. CASE que[s] # << >>
  <2>1. /\ que[s][Len(que[s])] \in Tasks
        /\ SubSeq(que[s], 1, Len(que[s]) - 1) \in Seq(Tasks)
    BY <1>1, <1>3, DropLast
  <2>2. que' = [que EXCEPT ![s] = SubSeq(@, 1, Len(@) - 1)] BY <1>3 DEF Signal
  <2>3. status' = [status EXCEPT ![que[s][Len(que[s])]] = "READY"] BY <1>3 DEF Signal
  <2>4. que' \in [Sems -> Seq(Tasks)] BY <1>1, <2>1, <2>2
  <2>5. status' \in [Tasks -> Status] BY <1>1, <2>1, <2>3 DEF Status
  <2> QED BY <1>1, <1>2, <2>3, <2>4, <2>5
<1>4. CASE que[s] = << >>
  BY <1>1, <1>2, <1>4 DEF Signal
<1> QED BY <1>3, <1>4

\* The idle task of a CPU is READY when kmt_context_switch looks for a task.
LEMMA IdleIsEligible ==
  ASSUME TableInv, NEW c \in Cpus, phase[c] = "t_switch"
  PROVE  c \in Slots /\ Eligible(c, c)
<1> USE ConstantFacts
<1>1. slot[c] = c /\ c # NoTask /\ c \in Slots BY DEF TableInv, IdleInv
<1>2. id[c] % NCpu = c BY <1>1 DEF TableInv, TableIsRight
<1>3. status[c] = "READY"
  BY <1>1 DEF TableInv, IdleInv, OwnIdleInv, Scheduling
<1> QED BY <1>1, <1>2, <1>3 DEF Eligible

\* So it always finds one, of its own.
LEMMA SwitchFinds ==
  ASSUME TableInv, NEW c \in Cpus, Switch(c)
  PROVE  \E ret \in Tasks :
           /\ phase[c] = "t_switch" /\ phase' = [phase EXCEPT ![c] = "t_unlock"]
           /\ curTask' = [curTask EXCEPT ![c] = ret]
           /\ status' = [status EXCEPT ![ret] = "RUNNING"]
           /\ slot[id[ret]] = ret /\ id[ret] % NCpu = c /\ status[ret] = "READY"
           /\ UNCHANGED <<slot, id, suicide, stack, event, flowVars, semVars, lockVars>>
<1> DEFINE from == IF curTask[c] = NoTask THEN slot[0] ELSE curTask[c]
           At(k) == (id[from] + k) % MaxTasks
           found == {k \in 1..(MaxTasks + 1) : Eligible(c, At(k))}
           best == CHOOSE k \in found : \A j \in found : k <= j
           ret == slot[At(best)]
<1>1. from \in Tasks /\ from # NoTask
  <2>1. slot[0] = 0 /\ 0 \in Tasks BY ConstantFacts DEF TableInv, IdleInv
  <2> QED BY <2>1, ConstantFacts DEF TableInv, TypeOK
<1>2. phase[c] = "t_switch" BY DEF Switch
<1>3. id[from] \in 0..(MaxTasks - 1) BY <1>1 DEF TableInv, TypeOK, Slots
<1>4. c \in 0..(MaxTasks - 1) /\ Eligible(c, c) BY <1>2, IdleIsEligible DEF Slots
<1>5. \E k \in 1..(MaxTasks + 1) : At(k) = c
  <2> HIDE DEF from
  <2> QED BY <1>3, <1>4, ScanReaches, TaskAssumption
<1>6. found # {} BY <1>4, <1>5
<1>7. best \in found
  <2>1. found \subseteq Nat BY TaskAssumption
  <2> HIDE DEF found
  <2> QED BY <2>1, <1>6, SmallestExists
<1>8. Eligible(c, At(best)) /\ best \in 1..(MaxTasks + 1) BY <1>7
<1>9. At(best) \in Slots
  <2> HIDE DEF from, best
  <2>1. MaxTasks \in Nat \ {0} /\ id[from] + best \in Nat BY <1>3, <1>8, TaskAssumption
  <2> QED BY <2>1, ModRange DEF Slots
<1>10. /\ ret \in Tasks /\ id[ret] % NCpu = c /\ status[ret] = "READY"
       /\ slot[id[ret]] = ret
  <2>1. ret # NoTask /\ id[ret] % NCpu = c /\ status[ret] = "READY" BY <1>8 DEF Eligible
  <2> HIDE DEF At, best
  <2>2. ret \in Tasks BY <1>9, <2>1 DEF TableInv, TypeOK
  <2>3. id[ret] = At(best) BY <1>9, <2>1 DEF TableInv, TableIsRight
  <2> QED BY <2>1, <2>2, <2>3
<1>11. /\ curTask' = [curTask EXCEPT ![c] = ret] /\ status' = [status EXCEPT ![ret] = "RUNNING"]
       /\ phase' = [phase EXCEPT ![c] = "t_unlock"]
       /\ UNCHANGED <<slot, id, suicide, stack, event, flowVars, semVars, lockVars>>
  BY <1>1, <1>6 DEF Switch, Enter
<1> QED BY <1>2, <1>10, <1>11

LEMMA TableStep == TableInv /\ [Next]_vars => TableInv'
<1> SUFFICES ASSUME TableInv, [Next]_vars PROVE TableInv' OBVIOUS
<1> USE ConstantFacts DEF TableInv
<1>1. CASE UNCHANGED vars
  BY <1>1 DEF vars, taskVars, cpuVars, flowVars, semVars, lockVars, TypeOK, TrapLockInv,
     TableIsRight, IdleInv, OwnIdleInv, StackPinned, CurPinned, CurIsStack, NewIsIdle
<1>t. /\ sem \in [Tasks -> Sems] /\ value \in [Sems -> Nat] /\ que \in [Sems -> Seq(Tasks)]
      /\ semLock \in [Sems -> Cpus \cup {NoCpu}] /\ status \in [Tasks -> Status]
  BY DEF TypeOK
<1>2. ASSUME NEW c \in Cpus, CpuStep(c) PROVE TableInv'
  <2> USE DEF taskVars, cpuVars, flowVars, semVars, lockVars
  <2>1. ASSUME NEW t \in Tasks, NEW s \in Sems, CallWait(c, t, s) \/ CallSignal(c, t, s)
        PROVE TableInv'
    <3>1. RunsAt(c, t, "run") /\ t \notin IdleTasks /\ sem' = [sem EXCEPT ![t] = s]
      BY <2>1 DEF CallWait, CallSignal
    <3>2. PICK to \in FlowPCs : Goto(t, to) BY <2>1 DEF CallWait, CallSignal, FlowPCs
    <3>3. UNCHANGED <<taskVars, cpuVars, semVars, lockVars>>
      BY <2>1 DEF CallWait, CallSignal
    <3>4. sem' \in [Tasks -> Sems] BY <1>t, <3>1
    <3> QED BY <1>t, <3>1, <3>2, <3>3, <3>4, FlowKeepsTable
  <2>2. ASSUME NEW t \in Tasks, WaitTest(c, t) PROVE TableInv'
    <3>1. PICK from \in FlowPCs : RunsAt(c, t, from) /\ from # "run"
      BY <2>2 DEF WaitTest, FlowPCs
    <3>2. curTask[c] = t /\ t \notin IdleTasks BY <3>1, Executes
    <3>3. que' \in [Sems -> Seq(Tasks)]
      <4>1. <<t>> \o que[sem[t]] \in Seq(Tasks) BY AddFirst DEF TypeOK
      <4>2. que' = que \/ que' = [que EXCEPT ![sem[t]] = <<t>> \o @]
        BY <2>2, <3>2 DEF WaitTest
      <4> QED BY <1>t, <4>1, <4>2
    <3>v. value' \in [Sems -> Nat]
      <4>1. \/ value' = value
            \/ value[sem[t]] > 0 /\ value' = [value EXCEPT ![sem[t]] = value[sem[t]] - 1]
        BY <2>2 DEF WaitTest
      <4>2. value[sem[t]] \in Nat BY <1>t
      <4>3. value[sem[t]] > 0 => value[sem[t]] - 1 \in Nat BY <4>2
      <4> QED BY <1>t, <4>1, <4>3
    <3>4. semLock' \in [Sems -> Cpus \cup {NoCpu}] /\ sem' \in [Tasks -> Sems]
      BY <1>t, <2>2 DEF WaitTest
    <3>5. PICK to \in FlowPCs : Goto(t, to) BY <2>2 DEF WaitTest, FlowPCs
    <3>6. UNCHANGED phase \/ Enter(c, "panic") BY <2>2 DEF WaitTest
    <3>7. UNCHANGED <<slot, id, status, suicide, curTask, stack, event, trapLock>>
      BY <2>2 DEF WaitTest
    <3> QED BY <3>1, <3>2, <3>3, <3>v, <3>4, <3>5, <3>6, <3>7, FlowKeepsTable
  <2>3. ASSUME NEW t \in Tasks, WaitStatus(c, t) PROVE TableInv'
    <3>1. curTask[c] = t /\ t \notin IdleTasks /\ status[t] # "NEW"
      BY <2>3, Executes DEF WaitStatus
    <3>2. TypeOK' BY <2>3, <3>1 DEF WaitStatus, TypeOK, Goto, FlowPCs, Status
    <3>3. status' = [status EXCEPT ![t] = "WAITING"] /\ pc' = [pc EXCEPT ![t] = "w_unlock"]
          /\ UNCHANGED <<slot, id, suicide, curTask, stack, phase, trapLock>>
      BY <2>3, <3>1 DEF WaitStatus, Goto
    <3>4. TableIsRight' /\ IdleInv' /\ OwnIdleInv' BY <3>1, <3>3
      DEF TypeOK, TableIsRight, IdleInv, OwnIdleInv
    <3>5. TrapLockInv' /\ CurPinned' /\ CurIsStack' BY <3>3 DEF TrapLockInv, CurPinned, CurIsStack
    <3>6. StackPinned' BY <1>t, <3>1, <3>3 DEF StackPinned
    <3>7. NewIsIdle' BY <1>t, <3>1, <3>3 DEF NewIsIdle, TypeOK
    <3> QED BY <3>2, <3>4, <3>5, <3>6, <3>7
  <2>4. ASSUME NEW t \in Tasks, NEW to \in {"w_yield", "run"},
               NEW from \in {"w_unlock", "w_done", "s_unlock"}, SemUnlock(c, t, from, to)
        PROVE TableInv'
    <3>1. RunsAt(c, t, from) /\ t \notin IdleTasks BY <2>4, Executes DEF SemUnlock
    <3>2. semLock' \in [Sems -> Cpus \cup {NoCpu}] BY <2>4 DEF SemUnlock, TypeOK
    <3>3. to \in FlowPCs /\ Goto(t, to) /\ UNCHANGED <<taskVars, cpuVars, sem, semVars, trapLock>>
      BY <2>4 DEF SemUnlock, FlowPCs
    <3> QED BY <1>t, <3>1, <3>2, <3>3, FlowKeepsTable
  <2>5. ASSUME NEW t \in Tasks, SignalBody(c, t) PROVE TableInv'
    <3>1. sem[t] \in Sems /\ Signal(sem[t]) BY <2>5 DEF SignalBody, TypeOK
    <3>2. t \notin IdleTasks /\ status[t] # "NEW" BY <2>5, Executes DEF SignalBody
    <3>3. TypeOK' BY <2>5, <3>1, SignalTypes DEF SignalBody, Goto, FlowPCs, TypeOK
    <3>4. /\ \A u \in Tasks : status'[u] = status[u] \/ status'[u] = "READY"
          /\ pc' = [pc EXCEPT ![t] = "s_unlock"]
          /\ UNCHANGED <<slot, id, suicide, curTask, stack, phase, trapLock>>
      BY <2>5, <3>1, SignalTypes DEF SignalBody, Goto
    <3>5. TableIsRight' /\ IdleInv' /\ OwnIdleInv' BY <3>2, <3>4
      DEF TypeOK, TableIsRight, IdleInv, OwnIdleInv
    <3>6. TrapLockInv' /\ CurPinned' /\ CurIsStack' BY <3>4 DEF TrapLockInv, CurPinned, CurIsStack
    <3>7. StackPinned' BY <3>4, SignalTypes DEF StackPinned, TypeOK
    <3>8. NewIsIdle' BY <3>2, <3>4 DEF NewIsIdle, TypeOK
    <3> QED BY <3>3, <3>5, <3>6, <3>7, <3>8
  <2>6. ASSUME NEW t \in Tasks, NEW new \in Tasks, Create(c, t, new) PROVE TableInv'
    <3>1. CASE {i \in Slots : slot[i] = NoTask} = {}
      <4>1. phase' = [phase EXCEPT ![c] = "panic"] /\ phase[c] = "user"
            /\ UNCHANGED <<slot, id, status, suicide, curTask, stack, event, pc, sem, value,
                           que, semLock, trapLock>>
        BY <2>6, <3>1 DEF Create, Enter, RunsAt
      <4> QED BY <4>1, SMTT(30) DEF TypeOK, TrapLockInv, TableIsRight, IdleInv, OwnIdleInv, StackPinned,
              CurPinned, CurIsStack, NewIsIdle, Phases, InTrapLock, Scheduling
    <3>2. CASE {i \in Slots : slot[i] = NoTask} # {}
      <4> DEFINE free == {i \in Slots : slot[i] = NoTask}
                 i == CHOOSE i \in free : \A j \in free : i <= j
      <4>1. \E j \in free : \A k \in free : j <= k
        <5>1. free \subseteq Nat BY DEF Slots
        <5>2. PICK n \in Nat : n = MaxTasks BY TaskAssumption
        <5> QED BY <3>2, <5>1, SmallestExists
      <4>2. i \in Slots /\ slot[i] = NoTask BY <4>1
      <4>3. /\ slot' = [slot EXCEPT ![i] = new] /\ id' = [id EXCEPT ![new] = i]
            /\ status' = [status EXCEPT ![new] = "READY"] /\ status[new] = "NEW"
            /\ UNCHANGED <<suicide, curTask, stack, phase, event, pc, sem, value, que,
                           semLock, trapLock>>
        BY <2>6, <3>2 DEF Create
      <4> HIDE DEF i
      <4>4. TypeOK' BY <4>2, <4>3 DEF TypeOK, Status
      <4>5. TableIsRight' BY <4>2, <4>3 DEF TypeOK, TableIsRight
      <4>6. IdleInv' /\ OwnIdleInv' BY <4>2, <4>3 DEF TypeOK, IdleInv, OwnIdleInv
      <4>7. StackPinned' BY <4>2, <4>3 DEF TypeOK, StackPinned
      <4>8. CurPinned' BY <4>2, <4>3 DEF TypeOK, CurPinned, TableIsRight
      <4> QED BY <4>3, <4>4, <4>5, <4>6, <4>7, <4>8
          DEF TypeOK, TrapLockInv, CurIsStack, NewIsIdle
    <3> QED BY <3>1, <3>2
  <2>7. ASSUME NEW t \in Tasks, NEW victim \in Tasks, Teardown(c, t, victim) PROVE TableInv'
    BY <2>7, SMTT(30) DEF Teardown, TypeOK, TrapLockInv, TableIsRight, IdleInv, OwnIdleInv, StackPinned,
       CurPinned, CurIsStack, NewIsIdle
  <2>8. ASSUME NEW ev \in Events, Trap(c, ev) PROVE TableInv'
    <3>1. phase[c] = "user" /\ phase' = [phase EXCEPT ![c] = "t_lock"]
          /\ UNCHANGED <<taskVars, curTask, stack, sem, semVars, lockVars>>
      BY <2>8 DEF Trap, Enter
    <3>2. \/ pc' = pc
          \/ \E t \in Tasks : RunsAt(c, t, "w_yield") /\ pc' = [pc EXCEPT ![t] = "w_relock"]
      BY <2>8 DEF Trap, Goto, RunsAt
    <3>3. /\ pc' \in [Tasks -> FlowPCs] /\ event' \in [Cpus -> Events]
          /\ phase' \in [Cpus -> Phases]
      BY <2>8, <3>1, <3>2, ZenonT(30) DEF Trap, TypeOK, FlowPCs, Events, Phases
    <3>4. \A t \in Tasks : pc'[t] # pc[t] => t \notin IdleTasks /\ status[t] # "NEW"
      BY <3>2, Executes DEF TypeOK
    <3>5. TypeOK' BY <3>1, <3>3 DEF TypeOK
    <3>6. TrapLockInv' BY <3>1 DEF TrapLockInv, InTrapLock, TypeOK
    <3>7. TableIsRight' /\ StackPinned' /\ CurPinned'
      BY <3>1 DEF TableIsRight, StackPinned, CurPinned
    <3>8. IdleInv' /\ NewIsIdle' BY <3>1, <3>4 DEF IdleInv, NewIsIdle
    <3>9. OwnIdleInv' BY <3>1 DEF OwnIdleInv, TypeOK, Scheduling
    <3>10. CurIsStack' BY <3>1 DEF CurIsStack, TypeOK
    <3> QED BY <3>5, <3>6, <3>7, <3>8, <3>9, <3>10
  <2>9. CASE TrapLockStep(c) \/ NotifyUnlock(c) \/ TrapUnlock(c)
    <3>1. \/ /\ phase[c] = "t_lock" /\ trapLock = NoCpu /\ trapLock' = c
             /\ phase' = [phase EXCEPT ![c] = "t_save"]
          \/ /\ phase[c] = "t_notified" /\ trapLock' = trapLock
             /\ phase' = [phase EXCEPT ![c] = "t_switch"]
          \/ /\ phase[c] = "t_unlock" /\ trapLock' = NoCpu
             /\ phase' = [phase EXCEPT ![c] = "t_iret"]
      BY <2>9 DEF TrapLockStep, NotifyUnlock, TrapUnlock, Enter
    <3>2. UNCHANGED <<taskVars, curTask, stack, event, flowVars, semVars>>
      BY <2>9 DEF TrapLockStep, NotifyUnlock, TrapUnlock
    <3>3. semLock' \in [Sems -> Cpus \cup {NoCpu}]
      BY <1>t, <2>9 DEF TrapLockStep, NotifyUnlock, TrapUnlock
    <3>4. phase' \in [Cpus -> Phases] /\ trapLock' \in Cpus \cup {NoCpu}
      BY <3>1 DEF TypeOK, Phases
    <3>5. TypeOK' BY <3>2, <3>3, <3>4 DEF TypeOK
    <3>6. TrapLockInv' BY <3>1 DEF TrapLockInv, InTrapLock, TypeOK
    <3>7. TableIsRight' /\ StackPinned' /\ CurPinned' /\ IdleInv' /\ NewIsIdle'
      BY <3>2 DEF TableIsRight, StackPinned, CurPinned, IdleInv, NewIsIdle
    <3>8. OwnIdleInv' BY <3>1, <3>2 DEF OwnIdleInv, TypeOK, Scheduling
    <3>9. CurIsStack' BY <3>1, <3>2 DEF CurIsStack, TypeOK
    <3> QED BY <3>5, <3>6, <3>7, <3>8, <3>9
  <2>10. CASE Save(c)
    <3> DEFINE t == curTask[c]
    <3>1. /\ phase[c] = "t_save" /\ phase' \in [Cpus -> Phases]
          /\ phase'[c] \in {"t_notify", "t_switch"}
          /\ \A d \in Cpus : d # c => phase'[d] = phase[d]
          /\ UNCHANGED <<id, suicide, stack, event, flowVars, semVars, lockVars>>
      BY <2>10 DEF Save, Enter, TypeOK, Phases
    <3>2. TrapLockInv' BY <3>1 DEF TrapLockInv, InTrapLock
    <3>3. CASE t # NoTask /\ suicide[t]
      <4>1. /\ slot' = [slot EXCEPT ![id[t]] = NoTask]
            /\ curTask' = [curTask EXCEPT ![c] = NoTask] /\ status' = status
        BY <2>10, <3>3 DEF Save
      <4>2. t \in Tasks /\ slot[id[t]] = t /\ id[t] % NCpu = c /\ t \notin IdleTasks
        BY <3>3 DEF TypeOK, CurPinned, IdleInv
      <4> HIDE DEF t
      <4>3. TypeOK' BY <3>1, <4>1, <4>2 DEF TypeOK
      <4>4. TableIsRight' BY <3>1, <4>1, <4>2 DEF TableIsRight, TypeOK
      <4>5. IdleInv' BY <3>1, <4>1, <4>2 DEF IdleInv, TypeOK
      <4>6. OwnIdleInv'
        <5>1. curTask[c] # c BY <4>2 DEF t
        <5>2. \A d \in Cpus : status'[d] = "RUNNING" => d # c
          BY <4>1, <5>1 DEF OwnIdleInv
        <5> QED BY <3>1, <4>1, <5>2 DEF OwnIdleInv, TypeOK
      <4>7. CurPinned'
        <5> SUFFICES ASSUME NEW d \in Cpus, curTask'[d] # NoTask
                     PROVE  slot'[id'[curTask'[d]]] = curTask'[d] /\ id'[curTask'[d]] % NCpu = d
          BY DEF CurPinned
        <5>1. d # c /\ curTask'[d] = curTask[d] BY <4>1 DEF TypeOK
        <5>2. slot[id[curTask[d]]] = curTask[d] /\ id[curTask[d]] % NCpu = d
          BY <5>1 DEF CurPinned
        <5>3. curTask[d] \in Tasks BY <5>1 DEF TypeOK
        <5>4. id[curTask[d]] # id[t] BY <4>2, <5>1, <5>2
        <5>5. slot'[id[curTask[d]]] = slot[id[curTask[d]]] BY <4>1, <5>3, <5>4 DEF TypeOK
        <5> QED BY <3>1, <5>1, <5>2, <5>5
      <4>8. CurIsStack' BY <3>1, <4>1 DEF CurIsStack, TypeOK
      <4>9. StackPinned' /\ NewIsIdle' BY <3>1, <4>1 DEF StackPinned, NewIsIdle
      <4> QED BY <3>2, <4>3, <4>4, <4>5, <4>6, <4>7, <4>8, <4>9
    <3>4. CASE ~(t # NoTask /\ suicide[t])
      <4>1. /\ slot' = slot /\ curTask' = curTask
            /\ status' = IF t # NoTask /\ status[t] = "RUNNING"
                         THEN [status EXCEPT ![t] = "READY"] ELSE status
        BY <2>10, <3>4 DEF Save
      <4>2. t # NoTask => t \in Tasks BY DEF TypeOK
      <4>3. /\ status' \in [Tasks -> Status]
            /\ \A u \in Tasks : status'[u] = status[u] \/ status'[u] = "READY"
            /\ \A u \in Tasks : status'[u] = "NEW" => status[u] = "NEW"
            /\ t # NoTask => status'[t] # "RUNNING"
        BY <1>t, <4>1, <4>2 DEF Status
      <4> HIDE DEF t
      <4>4. TypeOK' BY <3>1, <4>1, <4>3 DEF TypeOK
      <4>5. TableIsRight' BY <3>1, <4>1, <4>3 DEF TableIsRight, TypeOK
      <4>6. IdleInv' BY <3>1, <4>1, <4>3 DEF IdleInv
      <4>7. OwnIdleInv'
        <5> SUFFICES ASSUME NEW d \in Cpus, status'[d] = "RUNNING"
                     PROVE  curTask'[d] = d /\ phase'[d] \notin Scheduling
          BY DEF OwnIdleInv
        <5>1. status[d] = "RUNNING" BY <4>3
        <5>2. curTask[d] = d /\ phase[d] \notin Scheduling BY <5>1 DEF OwnIdleInv
        <5>3. d # c BY <4>3, <5>2 DEF t
        <5> QED BY <3>1, <4>1, <5>2, <5>3
      <4>8. StackPinned' BY <3>1, <4>1, <4>3 DEF StackPinned, TypeOK
      <4>9. CurPinned' BY <3>1, <4>1 DEF CurPinned
      <4>10. CurIsStack' BY <3>1, <4>1 DEF CurIsStack
      <4>11. NewIsIdle' BY <3>1, <4>3 DEF NewIsIdle
      <4> QED BY <3>2, <4>4, <4>5, <4>6, <4>7, <4>8, <4>9, <4>10, <4>11
    <3> QED BY <3>3, <3>4
  <2>11. CASE Notify(c)
    <3>1. KbdSem \in Sems /\ Signal(KbdSem) BY <2>11, SemAssumption DEF Notify
    <3>2. /\ phase[c] = "t_notify" /\ phase' = [phase EXCEPT ![c] = "t_notified"]
          /\ UNCHANGED <<slot, id, suicide, curTask, stack, event, flowVars, trapLock>>
          /\ semLock' = [semLock EXCEPT ![KbdSem] = c]
      BY <2>11 DEF Notify, Enter
    <3>3. /\ value' \in [Sems -> Nat] /\ que' \in [Sems -> Seq(Tasks)]
          /\ status' \in [Tasks -> Status]
          /\ \A u \in Tasks : status'[u] = status[u] \/ status'[u] = "READY"
      BY <3>1, SignalTypes
    <3>4. TypeOK' BY <3>2, <3>3 DEF TypeOK, Phases
    <3>5. TrapLockInv' BY <3>2 DEF TrapLockInv, InTrapLock, TypeOK
    <3>6. TableIsRight' BY <3>2, <3>3 DEF TableIsRight, TypeOK
    <3>7. IdleInv' BY <3>2, <3>3 DEF IdleInv
    <3>8. OwnIdleInv' BY <3>2, <3>3 DEF OwnIdleInv, Scheduling, TypeOK
    <3>9. StackPinned' BY <3>2, <3>3 DEF StackPinned, TypeOK
    <3>10. CurPinned' BY <3>2 DEF CurPinned
    <3>11. CurIsStack' BY <3>2 DEF CurIsStack, TypeOK
    <3>12. NewIsIdle' BY <3>2, <3>3 DEF NewIsIdle
    <3> QED BY <3>4, <3>5, <3>6, <3>7, <3>8, <3>9, <3>10, <3>11, <3>12
  <2>12. CASE Switch(c)
    <3>1. PICK ret \in Tasks :
            /\ phase[c] = "t_switch" /\ phase' = [phase EXCEPT ![c] = "t_unlock"]
            /\ curTask' = [curTask EXCEPT ![c] = ret]
            /\ status' = [status EXCEPT ![ret] = "RUNNING"]
            /\ slot[id[ret]] = ret /\ id[ret] % NCpu = c /\ status[ret] = "READY"
            /\ UNCHANGED <<slot, id, suicide, stack, event, flowVars, semVars, lockVars>>
      BY <2>12, SwitchFinds
    <3>2. TypeOK' BY <3>1 DEF TypeOK, Phases, Status
    <3>3. TrapLockInv' BY <3>1 DEF TrapLockInv, InTrapLock, TypeOK
    <3>4. TableIsRight' BY <3>1 DEF TableIsRight, TypeOK
    <3>5. IdleInv' BY <3>1 DEF IdleInv, TypeOK
    <3>6. OwnIdleInv'
      <4>1. \A d \in Cpus : d # c => d # ret
        BY <3>1 DEF IdleInv, TableIsRight
      <4> QED BY <3>1, <4>1 DEF OwnIdleInv, TypeOK, Scheduling
    <3>7. StackPinned' BY <3>1 DEF StackPinned, TypeOK
    <3>8. CurPinned' BY <3>1 DEF CurPinned, TypeOK
    <3>9. CurIsStack' BY <3>1 DEF CurIsStack, TypeOK
    <3>10. NewIsIdle' BY <3>1 DEF NewIsIdle, TypeOK
    <3> QED BY <3>2, <3>3, <3>4, <3>5, <3>6, <3>7, <3>8, <3>9, <3>10
  <2>13. CASE Iret(c)
    <3>1. /\ phase[c] = "t_iret" /\ phase' = [phase EXCEPT ![c] = "user"]
          /\ stack' = [stack EXCEPT ![c] = curTask[c]]
          /\ event' = [event EXCEPT ![c] = "yield"]
          /\ UNCHANGED <<taskVars, curTask, flowVars, semVars, lockVars>>
      BY <2>13 DEF Iret, Enter
    <3>2. curTask[c] \in Tasks BY <3>1 DEF TypeOK, CurIsStack
    <3>3. TypeOK' BY <3>1, <3>2 DEF TypeOK, Phases, Events
    <3>4. TrapLockInv' BY <3>1 DEF TrapLockInv, InTrapLock, TypeOK
    <3>5. TableIsRight' /\ IdleInv' /\ CurPinned' /\ NewIsIdle'
      BY <3>1 DEF TableIsRight, IdleInv, CurPinned, NewIsIdle
    <3>6. OwnIdleInv' BY <3>1 DEF OwnIdleInv, TypeOK, Scheduling
    <3>7. StackPinned'
      <4>0. id[curTask[c]] % NCpu = c /\ slot[id[curTask[c]]] = curTask[c]
            /\ id[curTask[c]] \in Slots
        BY <3>2 DEF CurPinned, TypeOK
      <4>1. id[curTask[c]] % NCpu = c /\ status[curTask[c]] # "NEW"
        BY <3>2, <4>0 DEF TableIsRight
      <4> QED BY <3>1, <4>1 DEF StackPinned, TypeOK
    <3>8. CurIsStack' BY <3>1 DEF CurIsStack, TypeOK
    <3> QED BY <3>3, <3>4, <3>5, <3>6, <3>7, <3>8
  <2>14. CASE FlowStep(c)
    BY <2>14, <2>2, <2>3, <2>4, <2>5 DEF FlowStep, WaitUnlock, WaitReturn, SignalReturn
  <2>15. CASE CallStep(c) BY <2>15, <2>1, <2>6, <2>7 DEF CallStep
  <2>16. CASE TrapStep(c) BY <2>16, <2>9, <2>10, <2>11, <2>12, <2>13 DEF TrapStep
  <2>17. CASE TrapBegin(c) BY <2>17, <2>8 DEF TrapBegin, Events
  <2> QED BY <1>2, <2>14, <2>15, <2>16, <2>17 DEF CpuStep
<1> QED BY <1>1, <1>2 DEF Next

\* Every variable keeps its type, and a program counter its meaning.
THEOREM KmtTypes == Spec => []TypeOK
<1>1. TableInv => TypeOK BY DEF TableInv
<1> QED BY TableInit, TableStep, <1>1, PTL DEF Spec

LEMMA TableMeansStack == TableInv => StackInv
<1> SUFFICES ASSUME TableInv PROVE StackInv OBVIOUS
<1> USE ConstantFacts DEF TableInv
<1>1. StackSafety BY DEF StackSafety, StackPinned
<1>2. ASSUME NEW c \in Cpus, phase[c] = "user", stack[c] # Boot PROVE curTask[c] = stack[c]
  BY <1>2 DEF CurIsStack
<1>3. ASSUME NEW c \in Cpus, NEW d \in Cpus, c # d, curTask[c] # NoTask
      PROVE  curTask[c] # curTask[d]
  BY <1>3 DEF CurPinned
<1> QED BY <1>1, <1>2, <1>3 DEF StackInv, CurIsMe

\* No two CPUs are ever on the stack of the same task, or believe to run the
\* same task, and outside traps cur is the task that executes: although
\* trap_lk is released while a READY task's stack is still in use.
THEOREM KmtStacks == Spec => []StackInv
BY TableInit, TableStep, TableMeansStack, PTL DEF Spec

LEMMA TableMeansRunning == TableInv => RunningInTable
BY ConstantFacts DEF TableInv, CurIsStack, CurPinned, RunningInTable, TypeOK

\* The task a CPU runs is in the table under its id: create never gives its
\* slot away, teardown or not, before its CPU has left it.
THEOREM KmtRunningInTable == Spec => []RunningInTable
BY TableInit, TableStep, TableMeansRunning, PTL DEF Spec

LEMMA TableMeansEligible == TableInv => AlwaysEligible
BY IdleIsEligible DEF AlwaysEligible

\* kmt_context_switch always finds a READY task of its CPU.
THEOREM KmtAlwaysEligible == Spec => []AlwaysEligible
BY TableInit, TableStep, TableMeansEligible, PTL DEF Spec

-----------------------------------------------------------------------------
(* The queues.                                                              *)

LEMMA SleepInit == Init => SleepInv
BY SemAssumption
   DEF Init, SleepInv, HolderInv, NotifierInv, QueuedOnce, QueuedSleeps, StatusIsQueued,
       SwitchedToAwake, NoSpuriousWakeup, HoldPCs, Queued

\* The CPU an id belongs to.
LEMMA Pinned ==
  ASSUME TypeOK, NEW t \in Tasks
  PROVE  id[t] % NCpu \in Cpus
<1>1. id[t] \in Nat BY TaskAssumption DEF TypeOK, Slots
<1>2. NCpu \in Nat \ {0} BY CpuAssumption
<1> QED BY <1>1, <1>2, ModRange DEF Cpus

LEMMA QueueMember ==
  ASSUME TableInv, SleepInv, NEW s \in Sems, NEW i \in 1..Len(que[s])
  PROVE  /\ que[s] \in Seq(Tasks) /\ Len(que[s]) \in Nat /\ que[s][i] \in Tasks
         /\ pc[que[s][i]] \in Looping /\ sem[que[s][i]] = s /\ Queued(que[s][i], s)
         /\ pc[que[s][i]] = "w_status" \/ status[que[s][i]] = "WAITING"
<1>1. que[s] \in Seq(Tasks) BY DEF TableInv, TypeOK
<1>2. que[s][i] \in Tasks /\ Len(que[s]) \in Nat BY <1>1, ElementOfSeq, LenProperties
<1> QED BY <1>1, <1>2 DEF SleepInv, QueuedOnce, QueuedSleeps, Queued

\* Nobody but a task in the loop of sem_wait is queued, and no task a CPU
\* executes unless it has just queued itself.
LEMMA NotQueued ==
  ASSUME TableInv, SleepInv, NEW t \in Tasks,
         \/ pc[t] \notin Looping
         \/ \E c \in Cpus : RunsAt(c, t, "w_relock")
  PROVE  \A s \in Sems : \A i \in 1..Len(que[s]) : que[s][i] # t
<1> SUFFICES ASSUME NEW s \in Sems, NEW i \in 1..Len(que[s]), que[s][i] = t PROVE FALSE
  OBVIOUS
<1>1. pc[t] \in Looping /\ Queued(t, s) BY QueueMember
<1>2. PICK c \in Cpus : RunsAt(c, t, "w_relock") BY <1>1
<1>3. phase[c] = "user" /\ stack[c] = t /\ stack[c] # Boot /\ pc[t] = "w_relock"
  BY <1>2, ConstantFacts DEF RunsAt
<1> QED BY <1>1, <1>3 DEF SleepInv, NoSpuriousWakeup

\* A step that leaves the queues alone: who is queued goes on sleeping.
LEMMA QueuesStay ==
  ASSUME TableInv, SleepInv, UNCHANGED que,
         \A s \in Sems : \A i \in 1..Len(que[s]) :
           LET u == que[s][i] IN
           /\ sem'[u] = sem[u] /\ pc'[u] \in Looping
           /\ pc'[u] = "w_status" \/ status'[u] = "WAITING",
         \A u \in Tasks : pc'[u] = "w_status" => pc[u] = "w_status" /\ sem'[u] = sem[u]
  PROVE  QueuedOnce' /\ QueuedSleeps' /\ StatusIsQueued'
<1>1. QueuedOnce' BY DEF SleepInv, QueuedOnce
<1>2. QueuedSleeps' BY DEF QueuedSleeps
<1>3. StatusIsQueued' BY DEF SleepInv, StatusIsQueued, Queued
<1> QED BY <1>1, <1>2, <1>3

\* Where a queued task may be while its CPU executes it.
FallingAsleep == {"w_status", "w_unlock", "w_yield"}

\* A step that enqueues nobody and takes no CPU to another task.
LEMMA AwakeStays ==
  ASSUME TableInv, SleepInv,
         \A u \in Tasks, r \in Sems : Queued(u, r)' => Queued(u, r),
         \A d \in Cpus : phase'[d] \in {"t_unlock", "t_iret"} =>
           phase[d] \in {"t_unlock", "t_iret"} /\ curTask'[d] = curTask[d],
         \A d \in Cpus : phase'[d] = "user" => phase[d] = "user" /\ stack'[d] = stack[d],
         \A d \in Cpus : phase'[d] = "user" /\ stack[d] # Boot
                           /\ pc[stack[d]] \in FallingAsleep => pc'[stack[d]] \in FallingAsleep
  PROVE  SwitchedToAwake' /\ NoSpuriousWakeup'
<1>1. SwitchedToAwake'
  <2> SUFFICES ASSUME NEW d \in Cpus, NEW r \in Sems, phase'[d] \in {"t_unlock", "t_iret"}
               PROVE  ~Queued(curTask[d], r)'
    BY DEF SwitchedToAwake
  <2>1. phase[d] \in {"t_unlock", "t_iret"} OBVIOUS
  <2>2. PICK u \in Tasks : u = curTask[d] /\ u = curTask'[d]
    BY <2>1 DEF TableInv, TypeOK, CurIsStack
  <2>3. ~Queued(u, r) BY <2>1, <2>2 DEF SleepInv, SwitchedToAwake
  <2>4. ~Queued(u, r)' BY <2>3
  <2> QED BY <2>2, <2>4 DEF Queued
<1>2. NoSpuriousWakeup'
  <2> SUFFICES ASSUME NEW d \in Cpus, NEW r \in Sems, phase'[d] = "user", stack'[d] # Boot,
                      Queued(stack[d], r)'
               PROVE  pc'[stack'[d]] \in FallingAsleep
    BY DEF NoSpuriousWakeup, FallingAsleep
  <2>1. phase[d] = "user" /\ stack'[d] = stack[d] OBVIOUS
  <2>2. PICK u \in Tasks : u = stack[d] /\ u = stack'[d] BY <2>1 DEF TableInv, TypeOK
  <2>3. Queued(u, r)' BY <2>2 DEF Queued
  <2>4. Queued(u, r) BY <2>3
  <2>5. pc[u] \in FallingAsleep
    BY <2>1, <2>2, <2>4 DEF SleepInv, NoSpuriousWakeup, FallingAsleep
  <2> QED BY <2>1, <2>2, <2>5
<1> QED BY <1>1, <1>2

\* A task that is in no queue moves, and does not enter one.
LEMMA UnqueuedMoves ==
  ASSUME TableInv, SleepInv, NEW c \in Cpus, NEW t \in Tasks, NEW from, RunsAt(c, t, from),
         \A s \in Sems : \A i \in 1..Len(que[s]) : que[s][i] # t,
         NEW to \in FlowPCs \ {"w_status"}, Goto(t, to),
         UNCHANGED <<id, status, curTask, stack, phase, que>>,
         \A u \in Tasks : u # t => sem'[u] = sem[u],
         \A u \in Tasks : u # t /\ pc[u] \in HoldPCs => semLock'[sem[u]] = semLock[sem[u]],
         to \in HoldPCs => semLock'[sem'[t]] = c,
         NotifierInv'
  PROVE  SleepInv'
<1>1. /\ \A u \in Tasks : u # t => pc'[u] = pc[u]
      /\ pc'[t] = to
  BY DEF Goto, TableInv, TypeOK
<1>2. phase[c] = "user" /\ stack[c] = t /\ id[t] % NCpu = c BY Executes
<1>3. QueuedOnce' /\ QueuedSleeps' /\ StatusIsQueued'
  <2>1. \A s \in Sems : \A i \in 1..Len(que[s]) :
          LET u == que[s][i] IN
          /\ sem'[u] = sem[u] /\ pc'[u] \in Looping
          /\ pc'[u] = "w_status" \/ status'[u] = "WAITING"
    BY <1>1, QueueMember
  <2> QED BY <1>1, <2>1, QueuesStay
<1>4. HolderInv' BY <1>1, <1>2 DEF SleepInv, HolderInv
<1>5. SwitchedToAwake' BY DEF SleepInv, SwitchedToAwake, Queued
<1>6. NoSpuriousWakeup'
  <2> SUFFICES ASSUME NEW d \in Cpus, NEW s \in Sems, phase[d] = "user", stack[d] # Boot,
                      Queued(stack[d], s)
               PROVE  pc'[stack[d]] \in {"w_status", "w_unlock", "w_yield"}
    BY DEF NoSpuriousWakeup, Queued
  <2>1. stack[d] # t BY DEF Queued
  <2>2. stack[d] \in Tasks BY DEF TableInv, TypeOK
  <2>3. pc[stack[d]] \in {"w_status", "w_unlock", "w_yield"} BY DEF SleepInv, NoSpuriousWakeup
  <2> QED BY <1>1, <2>1, <2>2, <2>3
<1> QED BY <1>3, <1>4, <1>5, <1>6 DEF SleepInv

\* A signal under the lock: the oldest waiter wakes, the others sleep on.
LEMMA SignalKeeps ==
  ASSUME TableInv, SleepInv, NEW s \in Sems, semLock[s] = NoCpu, Signal(s), UNCHANGED sem,
         \A u \in Tasks : pc[u] \in Looping => pc'[u] = pc[u],
         \A u \in Tasks : pc'[u] = "w_status" => pc[u] = "w_status"
  PROVE  /\ QueuedOnce' /\ QueuedSleeps' /\ StatusIsQueued'
         /\ \A u, r : r \in Sems /\ Queued(u, r)' => Queued(u, r)
<1>1. CASE que[s] = << >>
  <2>1. que' = que /\ status' = status BY <1>1 DEF Signal
  <2>2. \A r \in Sems : \A i \in 1..Len(que[r]) :
          LET u == que[r][i] IN
          /\ sem'[u] = sem[u] /\ pc'[u] \in Looping
          /\ pc'[u] = "w_status" \/ status'[u] = "WAITING"
    BY <2>1, QueueMember
  <2>3. QueuedOnce' /\ QueuedSleeps' /\ StatusIsQueued' BY <2>1, <2>2, QueuesStay
  <2> QED BY <2>1, <2>3 DEF Queued
<1>2. CASE que[s] # << >>
  <2> DEFINE q == que[s]
             w == q[Len(q)]
  <2>1. que \in [Sems -> Seq(Tasks)] /\ status \in [Tasks -> Status]
    BY DEF TableInv, TypeOK
  <2>2. /\ Len(q) \in Nat \ {0} /\ w \in Tasks /\ Len(SubSeq(q, 1, Len(q) - 1)) = Len(q) - 1
        /\ \A i \in 1..(Len(q) - 1) : SubSeq(q, 1, Len(q) - 1)[i] = q[i]
    BY <1>2, <2>1, DropLast
  <2>3. /\ que'[s] = SubSeq(q, 1, Len(q) - 1)
        /\ \A r \in Sems : r # s => que'[r] = que[r]
    BY <1>2, <2>1 DEF Signal
  <2>4. \A u \in Tasks : u # w => status'[u] = status[u]
    BY <1>2, <2>1 DEF Signal
  <2> HIDE DEF q, w
  <2>5. \A r \in Sems : /\ Len(que'[r]) \in Nat /\ Len(que'[r]) <= Len(que[r])
                        /\ \A i \in 1..Len(que'[r]) : que'[r][i] = que[r][i]
    <3>1. \A r \in Sems : Len(que[r]) \in Nat BY <2>1, LenProperties
    <3>2. q = que[s] BY DEF q
    <3> SUFFICES ASSUME NEW r \in Sems
                 PROVE  /\ Len(que'[r]) \in Nat /\ Len(que'[r]) <= Len(que[r])
                        /\ \A i \in 1..Len(que'[r]) : que'[r][i] = que[r][i]
      OBVIOUS
    <3>3. CASE r = s BY <2>2, <2>3, <3>2, <3>3
    <3>4. CASE r # s BY <2>3, <3>1, <3>4
    <3> QED BY <3>3, <3>4
  <2>6. \A r \in Sems : \A i \in 1..Len(que'[r]) : que[r][i] # w
    <3> SUFFICES ASSUME NEW r \in Sems, NEW i \in 1..Len(que'[r]), que[r][i] = w PROVE FALSE
      OBVIOUS
    <3>1. i \in 1..Len(que[r]) /\ Len(q) \in 1..Len(q) /\ Len(que[r]) \in Nat
      BY <2>1, <2>2, <2>5, LenProperties
    <3>2. sem[que[r][i]] = r /\ sem[w] = s BY <3>1, QueueMember DEF q, w
    <3>3. r = s BY <3>2
    <3>4. i = Len(q) BY <3>1, <3>3 DEF SleepInv, QueuedOnce, q, w
    <3> QED BY <2>2, <2>3, <3>3, <3>4
  <2>7. QueuedOnce'
    <3>1. \A r \in Sems : \A i \in 1..Len(que'[r]) : i \in 1..Len(que[r])
      BY <2>1, <2>5, LenProperties
    <3> QED BY <2>5, <3>1 DEF SleepInv, QueuedOnce
  <2>8. QueuedSleeps'
    <3> SUFFICES ASSUME NEW r \in Sems, NEW i \in 1..Len(que'[r])
                 PROVE  LET u == que'[r][i] IN
                        pc'[u] \in Looping /\ (pc'[u] = "w_status" \/ status'[u] = "WAITING")
      BY DEF QueuedSleeps
    <3>1. i \in 1..Len(que[r]) BY <2>1, <2>5, LenProperties
    <3> QED BY <2>4, <2>5, <2>6, <3>1, QueueMember
  <2>9. StatusIsQueued'
    <3> SUFFICES ASSUME NEW u \in Tasks, pc'[u] = "w_status" PROVE Queued(u, sem[u])'
      BY DEF StatusIsQueued
    <3>1. pc[u] = "w_status" OBVIOUS
    <3>2. sem[u] \in Sems BY DEF TableInv, TypeOK
    <3>3. id[u] % NCpu \in Cpus BY Pinned DEF TableInv
    <3>4. semLock[sem[u]] = id[u] % NCpu BY <3>1 DEF SleepInv, HolderInv, HoldPCs
    <3>5. sem[u] # s BY <3>3, <3>4, ConstantFacts
    <3>6. Queued(u, sem[u]) BY <3>1 DEF SleepInv, StatusIsQueued
    <3> QED BY <2>3, <3>2, <3>5, <3>6 DEF Queued
  <2>10. \A u, r : r \in Sems /\ Queued(u, r)' => Queued(u, r)
    <3>1. \A r \in Sems : \A i \in 1..Len(que'[r]) : i \in 1..Len(que[r])
      BY <2>1, <2>5, LenProperties
    <3> QED BY <2>5, <3>1 DEF Queued
  <2> QED BY <2>7, <2>8, <2>9, <2>10
<1> QED BY <1>1, <1>2

\* What sem_wait does when it finds no unit: the task is in the queue, and the
\* queues are otherwise what they were.
LEMMA EnqueueEffect ==
  ASSUME TableInv, SleepInv, NEW c \in Cpus, NEW t \in Tasks, WaitTest(c, t),
         value[sem[t]] <= 0
  PROVE  /\ phase[c] = "user" /\ stack[c] = t /\ curTask[c] = t /\ id[t] % NCpu = c
         /\ \A r \in Sems : \A i \in 1..Len(que[r]) : que[r][i] # t
         /\ semLock[sem[t]] = NoCpu /\ semLock'[sem[t]] = c
         /\ \A r \in Sems : r # sem[t] => semLock'[r] = semLock[r]
         /\ pc'[t] = "w_status" /\ \A u \in Tasks : u # t => pc'[u] = pc[u]
         /\ phase'[c] \in {"user", "panic"} /\ \A d \in Cpus : d # c => phase'[d] = phase[d]
         /\ UNCHANGED <<id, status, curTask, stack, sem, value>>
         /\ \A r \in Sems : r # sem[t] => que'[r] = que[r]
         /\ que'[sem[t]][1] = t
         /\ \A r \in Sems : \A i \in 1..Len(que'[r]) :
              \/ r = sem[t] /\ i = 1 /\ que'[r][i] = t
              \/ r = sem[t] /\ i > 1 /\ i - 1 \in 1..Len(que[r]) /\ que'[r][i] = que[r][i - 1]
              \/ r # sem[t] /\ i \in 1..Len(que[r]) /\ que'[r][i] = que[r][i]
         /\ \A u \in Tasks, r \in Sems : Queued(u, r)' <=> Queued(u, r) \/ (u = t /\ r = sem[t])
<1> DEFINE s == sem[t]
           q == que[s]
<1>1. PICK from \in {"w_lock", "w_relock"} : RunsAt(c, t, from) BY DEF WaitTest
<1>2. /\ phase[c] = "user" /\ stack[c] = t /\ curTask[c] = t /\ id[t] % NCpu = c
      /\ pc[t] = from
  BY <1>1, Executes
<1>3. s \in Sems /\ que \in [Sems -> Seq(Tasks)] /\ value \in [Sems -> Nat]
      /\ \A r \in Sems : Len(que[r]) \in Nat
  BY LenProperties DEF TableInv, TypeOK
<1>4. \A r \in Sems : \A i \in 1..Len(que[r]) : que[r][i] # t
  BY <1>1, <1>2, NotQueued DEF Looping
<1>5. /\ semLock[s] = NoCpu /\ semLock' = [semLock EXCEPT ![s] = c]
      /\ que' = [que EXCEPT ![s] = <<t>> \o q] /\ pc' = [pc EXCEPT ![t] = "w_status"]
      /\ UNCHANGED <<id, status, curTask, stack, sem, value>>
      /\ UNCHANGED phase \/ Enter(c, "panic")
  BY <1>2, <1>3 DEF WaitTest, Goto, taskVars
<1>6. /\ semLock'[s] = c /\ \A r \in Sems : r # s => semLock'[r] = semLock[r]
      /\ pc'[t] = "w_status" /\ \A u \in Tasks : u # t => pc'[u] = pc[u]
      /\ phase'[c] \in {"user", "panic"} /\ \A d \in Cpus : d # c => phase'[d] = phase[d]
  BY <1>2, <1>3, <1>5 DEF TableInv, TypeOK, Enter
<1>7. /\ Len(que'[s]) = Len(q) + 1 /\ que'[s][1] = t
      /\ \A i \in 2..(Len(q) + 1) : que'[s][i] = q[i - 1]
      /\ \A r \in Sems : r # s => que'[r] = que[r]
  BY <1>3, <1>5, AddFirst
<1> HIDE DEF q
<1>8. \A r \in Sems : \A i \in 1..Len(que'[r]) :
        \/ r = s /\ i = 1 /\ que'[r][i] = t
        \/ r = s /\ i > 1 /\ i - 1 \in 1..Len(que[r]) /\ que'[r][i] = que[r][i - 1]
        \/ r # s /\ i \in 1..Len(que[r]) /\ que'[r][i] = que[r][i]
  BY <1>3, <1>7 DEF q
<1>9. \A u \in Tasks, r \in Sems : Queued(u, r)' <=> Queued(u, r) \/ (u = t /\ r = s)
  <2> SUFFICES ASSUME NEW u \in Tasks, NEW r \in Sems
               PROVE  Queued(u, r)' <=> Queued(u, r) \/ (u = t /\ r = s)
    OBVIOUS
  <2>1. Queued(u, r)' => Queued(u, r) \/ (u = t /\ r = s) BY <1>8 DEF Queued
  <2>2. ASSUME Queued(u, r), r = s PROVE Queued(u, r)'
    <3>1. PICK i \in 1..Len(q) : q[i] = u BY <2>2 DEF Queued, q
    <3>2. i + 1 \in 2..(Len(q) + 1) /\ i + 1 \in 1..Len(que'[s]) /\ (i + 1) - 1 = i
      BY <1>3, <1>7, <3>1 DEF q
    <3> QED BY <1>7, <2>2, <3>1, <3>2 DEF Queued
  <2>3. Queued(u, r) /\ r # s => Queued(u, r)' BY <1>7 DEF Queued
  <2>4. u = t /\ r = s => Queued(u, r)'
    <3>1. 1 \in 1..Len(que'[s]) BY <1>3, <1>7 DEF q
    <3> QED BY <1>7, <3>1 DEF Queued
  <2> QED BY <2>1, <2>2, <2>3, <2>4
<1> QED BY <1>2, <1>4, <1>5, <1>6, <1>7, <1>8, <1>9

LEMMA EnqueueStep ==
  ASSUME TableInv, SleepInv, NEW c \in Cpus, NEW t \in Tasks, WaitTest(c, t),
         value[sem[t]] <= 0
  PROVE  SleepInv'
<1> DEFINE s == sem[t]
<1>2. phase[c] = "user" /\ stack[c] = t /\ curTask[c] = t /\ id[t] % NCpu = c
  BY EnqueueEffect
<1>3. s \in Sems /\ \A r \in Sems : Len(que[r]) \in Nat
  BY LenProperties DEF TableInv, TypeOK
<1>4. \A r \in Sems : \A i \in 1..Len(que[r]) : que[r][i] # t BY EnqueueEffect
<1>5. semLock[s] = NoCpu /\ UNCHANGED <<id, status, curTask, stack, sem>> BY EnqueueEffect
<1>6. /\ semLock'[s] = c /\ \A r \in Sems : r # s => semLock'[r] = semLock[r]
      /\ pc'[t] = "w_status" /\ \A u \in Tasks : u # t => pc'[u] = pc[u]
      /\ phase'[c] \in {"user", "panic"} /\ \A d \in Cpus : d # c => phase'[d] = phase[d]
  BY EnqueueEffect
<1>7. que'[s][1] = t BY EnqueueEffect
<1>8. \A r \in Sems : \A i \in 1..Len(que'[r]) :
        \/ r = s /\ i = 1 /\ que'[r][i] = t
        \/ r = s /\ i > 1 /\ i - 1 \in 1..Len(que[r]) /\ que'[r][i] = que[r][i - 1]
        \/ r # s /\ i \in 1..Len(que[r]) /\ que'[r][i] = que[r][i]
  BY EnqueueEffect
<1>11. \A u \in Tasks, r \in Sems : Queued(u, r)' <=> Queued(u, r) \/ (u = t /\ r = s)
  BY EnqueueEffect
<1>9. QueuedOnce'
  <2>1. \A r \in Sems : \A i \in 1..Len(que'[r]) : sem[que'[r][i]] = r
    BY <1>8, QueueMember
  <2>2. ASSUME NEW r \in Sems, NEW i \in 1..Len(que'[r]), NEW j \in 1..Len(que'[r]),
               que'[r][i] = que'[r][j]
        PROVE  i = j
    <3>1. CASE i = 1 /\ r = s
      <4>1. que'[r][j] = t BY <1>7, <2>2, <3>1
      <4>2. ~(j > 1)
        <5>1. j > 1 => que'[r][j] = que[r][j - 1] /\ j - 1 \in 1..Len(que[r])
          BY <1>8, <3>1
        <5> QED BY <1>4, <4>1, <5>1
      <4> QED BY <1>8, <3>1, <4>2
    <3>2. CASE j = 1 /\ r = s
      <4>1. que'[r][i] = t BY <1>7, <2>2, <3>2
      <4>2. ~(i > 1)
        <5>1. i > 1 => que'[r][i] = que[r][i - 1] /\ i - 1 \in 1..Len(que[r])
          BY <1>8, <3>2
        <5> QED BY <1>4, <4>1, <5>1
      <4> QED BY <1>8, <3>2, <4>2
    <3>3. CASE i > 1 /\ j > 1 /\ r = s
      <4>1. i - 1 \in 1..Len(que[r]) /\ j - 1 \in 1..Len(que[r])
            /\ que[r][i - 1] = que[r][j - 1]
        BY <1>8, <2>2, <3>3
      <4>2. i - 1 = j - 1 BY <4>1 DEF SleepInv, QueuedOnce
      <4> QED BY <4>2
    <3>4. CASE r # s BY <1>8, <2>2, <3>4 DEF SleepInv, QueuedOnce
    <3> QED BY <1>8, <3>1, <3>2, <3>3, <3>4
  <2> QED BY <1>5, <2>1, <2>2 DEF QueuedOnce
<1>10. QueuedSleeps'
  <2> SUFFICES ASSUME NEW r \in Sems, NEW i \in 1..Len(que'[r])
               PROVE  LET u == que'[r][i] IN
                      pc'[u] \in Looping /\ (pc'[u] = "w_status" \/ status'[u] = "WAITING")
    BY DEF QueuedSleeps
  <2>1. CASE que'[r][i] = t BY <1>6, <2>1 DEF Looping
  <2>2. ASSUME que'[r][i] # t
        PROVE  LET u == que'[r][i] IN
               pc'[u] \in Looping /\ (pc'[u] = "w_status" \/ status'[u] = "WAITING")
    <3>1. PICK j \in 1..Len(que[r]) : que'[r][i] = que[r][j] BY <1>8, <2>2
    <3>2. /\ que[r][j] \in Tasks /\ pc[que[r][j]] \in Looping
          /\ pc[que[r][j]] = "w_status" \/ status[que[r][j]] = "WAITING"
      BY QueueMember DEF SleepInv, QueuedSleeps
    <3> QED BY <1>5, <1>6, <2>2, <3>1, <3>2
  <2> QED BY <2>1, <2>2
<1>12. StatusIsQueued'
  <2> SUFFICES ASSUME NEW u \in Tasks, pc'[u] = "w_status" PROVE Queued(u, sem[u])'
    BY <1>5 DEF StatusIsQueued
  <2>1. PICK r \in Sems : r = sem[u] BY DEF TableInv, TypeOK
  <2>2. u # t => Queued(u, r) BY <1>6, <2>1 DEF SleepInv, StatusIsQueued
  <2>3. Queued(u, r)' BY <1>11, <2>1, <2>2
  <2>4. sem'[u] = r BY <1>5, <2>1
  <2> QED BY <2>3, <2>4 DEF Queued
<1>13. HolderInv'
  <2> SUFFICES ASSUME NEW u \in Tasks, pc'[u] \in HoldPCs
               PROVE  /\ stack[id[u] % NCpu] = u
                      /\ phase'[id[u] % NCpu] \in {"user", "panic"}
                      /\ semLock'[sem[u]] = id[u] % NCpu
    BY <1>5 DEF HolderInv
  <2>1. CASE u = t BY <1>2, <1>6, <2>1
  <2>2. CASE u # t
    <3>1. /\ stack[id[u] % NCpu] = u /\ phase[id[u] % NCpu] \in {"user", "panic"}
          /\ semLock[sem[u]] = id[u] % NCpu
      BY <1>6, <2>2 DEF SleepInv, HolderInv
    <3>2. sem[u] \in Sems /\ id[u] % NCpu \in Cpus
      BY Pinned DEF TableInv, TypeOK
    <3>3. sem[u] # s BY <1>5, <3>1, <3>2, ConstantFacts
    <3> QED BY <1>6, <3>1, <3>2, <3>3
  <2> QED BY <2>1, <2>2
<1>14. NotifierInv'
  <2> SUFFICES ASSUME NEW d \in Cpus, phase'[d] = "t_notified" PROVE semLock'[KbdSem] = d
    BY DEF NotifierInv
  <2>1. semLock[KbdSem] = d BY <1>6 DEF SleepInv, NotifierInv
  <2>2. KbdSem # s BY <1>5, <2>1, ConstantFacts
  <2> QED BY <1>6, <2>1, <2>2, SemAssumption
<1>15. SwitchedToAwake'
  <2> SUFFICES ASSUME NEW d \in Cpus, NEW r \in Sems, phase'[d] \in {"t_unlock", "t_iret"}
               PROVE  ~Queued(curTask[d], r)'
    BY <1>5 DEF SwitchedToAwake, Queued
  <2>1. d # c /\ phase[d] = phase'[d] BY <1>6
  <2>2. PICK u \in Tasks : u = curTask[d] BY <2>1 DEF TableInv, TypeOK, CurIsStack
  <2>3. ~Queued(u, r) BY <2>1, <2>2 DEF SleepInv, SwitchedToAwake
  <2>4. u # t BY <1>2, <2>1, TableMeansStack, <2>2, ConstantFacts DEF StackInv, CurIsMe
  <2>5. ~Queued(u, r)' BY <1>11, <2>3, <2>4
  <2>6. curTask'[d] = u BY <1>5, <2>2
  <2> QED BY <2>5, <2>6 DEF Queued
<1>16. NoSpuriousWakeup'
  <2> SUFFICES ASSUME NEW d \in Cpus, NEW r \in Sems, phase'[d] = "user", stack[d] # Boot,
                      Queued(stack[d], r)'
               PROVE  pc'[stack[d]] \in {"w_status", "w_unlock", "w_yield"}
    BY <1>5 DEF NoSpuriousWakeup, Queued
  <2>1. PICK u \in Tasks : u = stack[d] /\ u = stack'[d] BY <1>5 DEF TableInv, TypeOK
  <2>2. CASE stack[d] = t BY <1>6, <2>2
  <2>3. CASE stack[d] # t
    <3>1. d # c /\ phase[d] = "user" BY <1>2, <1>6, <2>3
    <3>2. Queued(u, r)' BY <2>1 DEF Queued
    <3>3. Queued(stack[d], r) BY <1>11, <2>1, <2>3, <3>2
    <3> QED BY <1>6, <2>1, <2>3, <3>1, <3>3 DEF SleepInv, NoSpuriousWakeup
  <2> QED BY <2>2, <2>3
<1> QED BY <1>9, <1>10, <1>12, <1>13, <1>14, <1>15, <1>16 DEF SleepInv

LEMMA SleepStep == TableInv /\ SleepInv /\ [Next]_vars => SleepInv'
<1> SUFFICES ASSUME TableInv, SleepInv, [Next]_vars PROVE SleepInv' OBVIOUS
<1> USE ConstantFacts
<1>1. CASE UNCHANGED vars
  BY <1>1 DEF vars, taskVars, cpuVars, flowVars, semVars, lockVars, SleepInv, HolderInv,
     NotifierInv, QueuedOnce, QueuedSleeps, StatusIsQueued, SwitchedToAwake, NoSpuriousWakeup,
     Queued
<1>t. /\ sem \in [Tasks -> Sems] /\ value \in [Sems -> Nat] /\ que \in [Sems -> Seq(Tasks)]
      /\ semLock \in [Sems -> Cpus \cup {NoCpu}] /\ status \in [Tasks -> Status]
      /\ pc \in [Tasks -> FlowPCs] /\ phase \in [Cpus -> Phases]
      /\ curTask \in [Cpus -> Tasks \cup {NoTask}] /\ stack \in [Cpus -> Tasks \cup {Boot}]
  BY DEF TableInv, TypeOK
<1>p. \A u \in Tasks : id[u] % NCpu \in Cpus BY Pinned DEF TableInv
<1>q. \A s \in Sems : \A i \in 1..Len(que[s]) :
        /\ que[s][i] \in Tasks /\ pc[que[s][i]] \in Looping
        /\ pc[que[s][i]] = "w_status" \/ status[que[s][i]] = "WAITING"
  BY QueueMember
<1>2. ASSUME NEW c \in Cpus, CpuStep(c) PROVE SleepInv'
  <2> USE DEF taskVars, cpuVars, flowVars, semVars, lockVars
  <2>1. ASSUME NEW t \in Tasks, NEW s \in Sems, CallWait(c, t, s) \/ CallSignal(c, t, s)
        PROVE SleepInv'
    <3>1. RunsAt(c, t, "run") /\ sem' = [sem EXCEPT ![t] = s]
          /\ UNCHANGED <<taskVars, cpuVars, semVars, lockVars>>
      BY <2>1 DEF CallWait, CallSignal
    <3>2. PICK to \in {"w_lock", "s_lock"} : Goto(t, to)
      BY <2>1 DEF CallWait, CallSignal
    <3>3. \A r \in Sems : \A i \in 1..Len(que[r]) : que[r][i] # t
      BY <3>1, NotQueued DEF RunsAt, Looping
    <3>4. \A u \in Tasks : u # t => sem'[u] = sem[u] BY <1>t, <3>1
    <3>5. NotifierInv' BY <3>1 DEF SleepInv, NotifierInv
    <3>6. to \in FlowPCs \ {"w_status"} /\ to \notin HoldPCs BY DEF FlowPCs, HoldPCs
    <3> QED BY <3>1, <3>2, <3>3, <3>4, <3>5, <3>6, UnqueuedMoves
  <2>2. ASSUME NEW t \in Tasks, WaitTest(c, t) PROVE SleepInv'
    <3>1. CASE value[sem[t]] <= 0 BY <2>2, <3>1, EnqueueStep
    <3>2. CASE ~(value[sem[t]] <= 0)
      <4>1. PICK from \in {"w_lock", "w_relock"} : RunsAt(c, t, from)
        BY <2>2 DEF WaitTest
      <4>2. /\ semLock[sem[t]] = NoCpu /\ semLock' = [semLock EXCEPT ![sem[t]] = c]
            /\ Goto(t, "w_done") /\ UNCHANGED <<taskVars, cpuVars, sem, que, trapLock>>
        BY <2>2, <3>2 DEF WaitTest
      <4>3. \A r \in Sems : \A i \in 1..Len(que[r]) : que[r][i] # t
        BY <4>1, NotQueued DEF RunsAt, Looping
      <4>4. sem[t] \in Sems /\ semLock'[sem[t]] = c
            /\ \A r \in Sems : r # sem[t] => semLock'[r] = semLock[r]
        BY <1>t, <4>2
      <4>5. \A u \in Tasks : pc[u] \in HoldPCs => sem[u] # sem[t]
        BY <1>p, <4>2 DEF SleepInv, HolderInv
      <4>6. \A u \in Tasks : u # t /\ pc[u] \in HoldPCs => semLock'[sem[u]] = semLock[sem[u]]
        BY <1>t, <4>4, <4>5
      <4>7. NotifierInv'
        <5>1. \A d \in Cpus : phase[d] = "t_notified" => KbdSem # sem[t]
          BY <4>2 DEF SleepInv, NotifierInv
        <5> QED BY <4>2, <4>4, <5>1, SemAssumption DEF SleepInv, NotifierInv
      <4>8. "w_done" \in FlowPCs \ {"w_status"} BY DEF FlowPCs
      <4> QED BY <4>1, <4>2, <4>3, <4>4, <4>6, <4>7, <4>8, UnqueuedMoves
    <3> QED BY <3>1, <3>2
  <2>3. ASSUME NEW t \in Tasks, WaitStatus(c, t) PROVE SleepInv'
    <3>1. RunsAt(c, t, "w_status") /\ curTask[c] = t BY <2>3, Executes DEF WaitStatus
    <3>2. /\ pc[t] = "w_status" /\ status'[t] = "WAITING" /\ pc'[t] = "w_unlock"
          /\ \A u \in Tasks : u # t => pc'[u] = pc[u] /\ status'[u] = status[u]
          /\ UNCHANGED <<id, curTask, stack, phase, sem, que, semLock>>
      BY <1>t, <2>3, <3>1 DEF WaitStatus, Goto, RunsAt
    <3>3. QueuedOnce' /\ QueuedSleeps' /\ StatusIsQueued'
      <4>1. \A s \in Sems : \A i \in 1..Len(que[s]) :
              LET u == que[s][i] IN
              /\ sem'[u] = sem[u] /\ pc'[u] \in Looping
              /\ pc'[u] = "w_status" \/ status'[u] = "WAITING"
        BY <1>q, <3>2 DEF Looping
      <4>2. UNCHANGED que
            /\ \A u \in Tasks : pc'[u] = "w_status" => pc[u] = "w_status" /\ sem'[u] = sem[u]
        BY <3>2
      <4> QED BY <4>1, <4>2, QueuesStay
    <3>4. HolderInv' BY <3>2 DEF SleepInv, HolderInv, HoldPCs
    <3>5. NotifierInv' BY <3>2 DEF SleepInv, NotifierInv
    <3>6. SwitchedToAwake' /\ NoSpuriousWakeup'
      <4>1. \A u \in Tasks, r \in Sems : Queued(u, r)' => Queued(u, r) BY <3>2 DEF Queued
      <4>2. \A u \in Tasks : pc[u] \in FallingAsleep => pc'[u] \in FallingAsleep
        BY <3>2 DEF FallingAsleep
      <4> QED BY <1>t, <3>2, <4>1, <4>2, AwakeStays
    <3> QED BY <3>3, <3>4, <3>5, <3>6 DEF SleepInv
  <2>4. ASSUME NEW t \in Tasks, NEW from \in {"w_unlock", "w_done", "s_unlock"},
               SemUnlock(c, t, from, IF from = "w_unlock" THEN "w_yield" ELSE "run")
        PROVE SleepInv'
    <3> DEFINE to == IF from = "w_unlock" THEN "w_yield" ELSE "run"
    <3>1. /\ RunsAt(c, t, from) /\ semLock' = [semLock EXCEPT ![sem[t]] = NoCpu] /\ Goto(t, to)
          /\ UNCHANGED <<taskVars, cpuVars, sem, semVars, trapLock>>
      BY <2>4 DEF SemUnlock
    <3>2. phase[c] = "user" /\ stack[c] = t /\ pc[t] = from /\ semLock[sem[t]] = c
      BY <3>1, Executes DEF SleepInv, HolderInv, HoldPCs
    <3>3. \A u \in Tasks : u # t /\ pc[u] \in HoldPCs => sem[u] # sem[t]
      BY <3>2 DEF SleepInv, HolderInv
    <3>4. \A r \in Sems : r # sem[t] => semLock'[r] = semLock[r] BY <1>t, <3>1
    <3>5. \A u \in Tasks : u # t /\ pc[u] \in HoldPCs => semLock'[sem[u]] = semLock[sem[u]]
      BY <1>t, <3>3, <3>4
    <3>6. NotifierInv'
      <4>1. \A d \in Cpus : phase[d] = "t_notified" => KbdSem # sem[t]
        BY <3>2 DEF SleepInv, NotifierInv
      <4> QED BY <3>1, <3>4, <4>1, SemAssumption DEF SleepInv, NotifierInv
    <3>7. CASE from # "w_unlock"
      <4>1. \A r \in Sems : \A i \in 1..Len(que[r]) : que[r][i] # t
        BY <3>2, <3>7, NotQueued DEF Looping
      <4>2. to \in FlowPCs \ {"w_status"} /\ to \notin HoldPCs
        BY <3>7 DEF FlowPCs, HoldPCs
      <4> HIDE DEF to
      <4> QED BY <3>1, <3>5, <3>6, <4>1, <4>2, UnqueuedMoves
    <3>8. CASE from = "w_unlock"
      <4>1. /\ pc[t] = "w_unlock" /\ pc'[t] = "w_yield"
            /\ \A u \in Tasks : u # t => pc'[u] = pc[u]
        BY <1>t, <3>1, <3>2, <3>8 DEF Goto
      <4>2. QueuedOnce' /\ QueuedSleeps' /\ StatusIsQueued'
        <5>1. \A s \in Sems : \A i \in 1..Len(que[s]) :
                LET u == que[s][i] IN
                /\ sem'[u] = sem[u] /\ pc'[u] \in Looping
                /\ pc'[u] = "w_status" \/ status'[u] = "WAITING"
          BY <1>q, <3>1, <4>1 DEF Looping
        <5>2. UNCHANGED que
              /\ \A u \in Tasks : pc'[u] = "w_status" => pc[u] = "w_status" /\ sem'[u] = sem[u]
          BY <3>1, <4>1
        <5> QED BY <5>1, <5>2, QueuesStay
      <4>3. HolderInv' BY <3>1, <3>5, <4>1 DEF SleepInv, HolderInv, HoldPCs
      <4>4. SwitchedToAwake' /\ NoSpuriousWakeup'
        <5>1. \A u \in Tasks, r \in Sems : Queued(u, r)' => Queued(u, r) BY <3>1 DEF Queued
        <5>2. \A u \in Tasks : pc[u] \in FallingAsleep => pc'[u] \in FallingAsleep
          BY <4>1 DEF FallingAsleep
        <5> QED BY <1>t, <3>1, <5>1, <5>2, AwakeStays
      <4> QED BY <3>6, <4>2, <4>3, <4>4 DEF SleepInv
    <3> QED BY <3>7, <3>8
  <2>5. ASSUME NEW t \in Tasks, SignalBody(c, t) PROVE SleepInv'
    <3>0. PICK s \in Sems : s = sem[t] BY <1>t
    <3>1. /\ RunsAt(c, t, "s_lock") /\ semLock[s] = NoCpu
          /\ semLock' = [semLock EXCEPT ![s] = c] /\ Signal(s) /\ Goto(t, "s_unlock")
          /\ UNCHANGED <<slot, id, suicide, cpuVars, sem, trapLock>>
      BY <2>5, <3>0 DEF SignalBody
    <3>2. phase[c] = "user" /\ stack[c] = t /\ pc[t] = "s_lock" /\ id[t] % NCpu = c
      BY <3>1, Executes
    <3>3. pc'[t] = "s_unlock" /\ (\A u \in Tasks : u # t => pc'[u] = pc[u])
          /\ semLock'[s] = c /\ (\A r \in Sems : r # s => semLock'[r] = semLock[r])
      BY <1>t, <3>1 DEF Goto
    <3>4. /\ QueuedOnce' /\ QueuedSleeps' /\ StatusIsQueued'
          /\ \A u, r : r \in Sems /\ Queued(u, r)' => Queued(u, r)
      <4>1. \A u \in Tasks : pc[u] \in Looping => pc'[u] = pc[u] BY <3>2, <3>3 DEF Looping
      <4>2. \A u \in Tasks : pc'[u] = "w_status" => pc[u] = "w_status" BY <3>3
      <4> QED BY <3>1, <4>1, <4>2, SignalKeeps
    <3>5. HolderInv'
      <4> SUFFICES ASSUME NEW u \in Tasks, pc'[u] \in HoldPCs
                   PROVE  /\ stack[id[u] % NCpu] = u /\ phase[id[u] % NCpu] \in {"user", "panic"}
                          /\ semLock'[sem[u]] = id[u] % NCpu
        BY <3>1 DEF HolderInv
      <4>1. CASE u = t BY <3>0, <3>2, <3>3, <4>1
      <4>2. CASE u # t
        <5>1. /\ stack[id[u] % NCpu] = u /\ phase[id[u] % NCpu] \in {"user", "panic"}
              /\ semLock[sem[u]] = id[u] % NCpu
          BY <3>3, <4>2 DEF SleepInv, HolderInv
        <5>2. sem[u] # s BY <1>p, <3>1, <5>1
        <5> QED BY <1>t, <3>3, <5>1, <5>2
      <4> QED BY <4>1, <4>2
    <3>6. NotifierInv'
      <4>1. \A d \in Cpus : phase[d] = "t_notified" => KbdSem # s
        BY <3>1 DEF SleepInv, NotifierInv
      <4> QED BY <3>1, <3>3, <4>1, SemAssumption DEF SleepInv, NotifierInv
    <3>7. SwitchedToAwake' /\ NoSpuriousWakeup'
      <4>1. \A u \in Tasks : pc[u] \in FallingAsleep => pc'[u] \in FallingAsleep
        BY <3>2, <3>3 DEF FallingAsleep
      <4> QED BY <1>t, <3>1, <3>4, <4>1, AwakeStays
    <3> QED BY <3>4, <3>5, <3>6, <3>7 DEF SleepInv
  <2>6. ASSUME NEW t \in Tasks, NEW new \in Tasks, Create(c, t, new) PROVE SleepInv'
    <3>1. /\ status[new] = "NEW" /\ phase[c] = "user"
          /\ UNCHANGED <<curTask, stack, sem, pc, que, semLock>>
          /\ \A u \in Tasks : u # new => id'[u] = id[u] /\ status'[u] = status[u]
          /\ UNCHANGED phase \/ Enter(c, "panic")
      BY <1>t, <2>6 DEF Create, RunsAt, TableInv, TypeOK
    <3>2. pc[new] = "run" BY <3>1 DEF TableInv, NewIsIdle
    <3>3. \A d \in Cpus : phase'[d] = phase[d] \/ (phase[d] = "user" /\ phase'[d] = "panic")
      BY <1>t, <3>1 DEF Enter
    <3>4. QueuedOnce' /\ QueuedSleeps' /\ StatusIsQueued'
      <4>1. \A s \in Sems : \A i \in 1..Len(que[s]) :
              LET u == que[s][i] IN
              /\ sem'[u] = sem[u] /\ pc'[u] \in Looping
              /\ pc'[u] = "w_status" \/ status'[u] = "WAITING"
        BY <1>q, <3>1, <3>2 DEF Looping
      <4>2. UNCHANGED que
            /\ \A u \in Tasks : pc'[u] = "w_status" => pc[u] = "w_status" /\ sem'[u] = sem[u]
        BY <3>1
      <4> QED BY <4>1, <4>2, QueuesStay
    <3>5. HolderInv' BY <1>p, <3>1, <3>2, <3>3 DEF SleepInv, HolderInv, HoldPCs
    <3>6. NotifierInv' BY <3>1, <3>3 DEF SleepInv, NotifierInv
    <3>7. SwitchedToAwake' /\ NoSpuriousWakeup'
      <4>1. \A u \in Tasks, r \in Sems : Queued(u, r)' => Queued(u, r) BY <3>1 DEF Queued
      <4> QED BY <3>1, <3>3, <4>1, AwakeStays
    <3> QED BY <3>4, <3>5, <3>6, <3>7 DEF SleepInv
  <2>7. ASSUME NEW t \in Tasks, NEW victim \in Tasks, Teardown(c, t, victim) PROVE SleepInv'
    <3>1. UNCHANGED <<id, status, cpuVars, flowVars, semVars, lockVars>>
      BY <2>7 DEF Teardown
    <3> QED BY <3>1 DEF SleepInv, HolderInv, NotifierInv, QueuedOnce, QueuedSleeps,
            StatusIsQueued, SwitchedToAwake, NoSpuriousWakeup, Queued
  <2>8. ASSUME NEW ev \in Events, Trap(c, ev) PROVE SleepInv'
    <3>1. /\ phase[c] = "user" /\ ~Holds(c) /\ phase'[c] = "t_lock"
          /\ \A d \in Cpus : d # c => phase'[d] = phase[d]
          /\ UNCHANGED <<taskVars, curTask, stack, sem, semVars, lockVars>>
      BY <1>t, <2>8 DEF Trap, Enter
    <3>2. \A u \in Tasks :
            pc'[u] = pc[u] \/ (stack[c] = u /\ pc[u] = "w_yield" /\ pc'[u] = "w_relock")
      BY <1>t, <2>8 DEF Trap, Goto, RunsAt
    <3>3. QueuedOnce' /\ QueuedSleeps' /\ StatusIsQueued'
      <4>1. \A s \in Sems : \A i \in 1..Len(que[s]) :
              LET u == que[s][i] IN
              /\ sem'[u] = sem[u] /\ pc'[u] \in Looping
              /\ pc'[u] = "w_status" \/ status'[u] = "WAITING"
        BY <1>q, <3>1, <3>2 DEF Looping
      <4>2. UNCHANGED que
            /\ \A u \in Tasks : pc'[u] = "w_status" => pc[u] = "w_status" /\ sem'[u] = sem[u]
        BY <3>1, <3>2
      <4> QED BY <4>1, <4>2, QueuesStay
    <3>4. HolderInv'
      <4>1. \A u \in Tasks : pc'[u] \in HoldPCs => pc[u] \in HoldPCs /\ id[u] % NCpu # c
        BY <1>t, <3>1, <3>2 DEF SleepInv, HolderInv, HoldPCs, Holds
      <4> QED BY <1>p, <3>1, <4>1 DEF SleepInv, HolderInv
    <3>5. NotifierInv' BY <3>1 DEF SleepInv, NotifierInv
    <3>6. SwitchedToAwake' /\ NoSpuriousWakeup'
      <4>1. \A u \in Tasks, r \in Sems : Queued(u, r)' => Queued(u, r) BY <3>1 DEF Queued
      <4>2. \A d \in Cpus : phase'[d] = "user" /\ stack[d] # Boot => pc'[stack[d]] = pc[stack[d]]
        <5> SUFFICES ASSUME NEW d \in Cpus, phase'[d] = "user", stack[d] # Boot
                     PROVE  pc'[stack[d]] = pc[stack[d]]
          OBVIOUS
        <5>1. d # c /\ stack[d] \in Tasks BY <1>t, <3>1
        <5>2. stack[d] # stack[c] BY <5>1, TableMeansStack DEF StackInv, StackSafety
        <5> QED BY <3>2, <5>1, <5>2
      <4> QED BY <3>1, <4>1, <4>2, AwakeStays
    <3> QED BY <3>3, <3>4, <3>5, <3>6 DEF SleepInv
  <2>9. CASE TrapLockStep(c) \/ TrapUnlock(c) \/ Save(c)
    <3>1. /\ phase[c] \notin {"user", "panic", "t_notified"}
          /\ phase'[c] \notin {"user", "panic", "t_notified"}
          /\ phase'[c] \in {"t_unlock", "t_iret"} =>
               phase[c] \in {"t_unlock", "t_iret"} /\ curTask' = curTask
          /\ \A d \in Cpus : d # c => phase'[d] = phase[d] /\ curTask'[d] = curTask[d]
          /\ UNCHANGED <<id, stack, flowVars, semVars, semLock>>
      BY <1>t, <2>9 DEF TrapLockStep, TrapUnlock, Save, Enter
    <3>2. \A u \in Tasks : status[u] = "WAITING" => status'[u] = "WAITING"
      BY <1>t, <2>9 DEF TrapLockStep, TrapUnlock, Save
    <3>3. QueuedOnce' /\ QueuedSleeps' /\ StatusIsQueued'
      <4>1. \A s \in Sems : \A i \in 1..Len(que[s]) :
              LET u == que[s][i] IN
              /\ sem'[u] = sem[u] /\ pc'[u] \in Looping
              /\ pc'[u] = "w_status" \/ status'[u] = "WAITING"
        BY <1>q, <3>1, <3>2
      <4>2. UNCHANGED que
            /\ \A u \in Tasks : pc'[u] = "w_status" => pc[u] = "w_status" /\ sem'[u] = sem[u]
        BY <3>1
      <4> QED BY <4>1, <4>2, QueuesStay
    <3>4. HolderInv' BY <1>p, <3>1 DEF SleepInv, HolderInv
    <3>5. NotifierInv' BY <3>1 DEF SleepInv, NotifierInv
    <3>6. SwitchedToAwake' /\ NoSpuriousWakeup'
      <4>1. \A u \in Tasks, r \in Sems : Queued(u, r)' => Queued(u, r) BY <3>1 DEF Queued
      <4> QED BY <3>1, <4>1, AwakeStays
    <3> QED BY <3>3, <3>4, <3>5, <3>6 DEF SleepInv
  <2>10. CASE Notify(c)
    <3>1. /\ phase[c] = "t_notify" /\ phase'[c] = "t_notified"
          /\ \A d \in Cpus : d # c => phase'[d] = phase[d]
          /\ KbdSem \in Sems /\ semLock[KbdSem] = NoCpu /\ Signal(KbdSem)
          /\ semLock'[KbdSem] = c /\ \A r \in Sems : r # KbdSem => semLock'[r] = semLock[r]
          /\ UNCHANGED <<id, curTask, stack, flowVars>>
      BY <1>t, <2>10, SemAssumption DEF Notify, Enter
    <3>2. /\ QueuedOnce' /\ QueuedSleeps' /\ StatusIsQueued'
          /\ \A u, r : r \in Sems /\ Queued(u, r)' => Queued(u, r)
      BY <3>1, SignalKeeps
    <3>3. HolderInv'
      <4>1. \A u \in Tasks : pc[u] \in HoldPCs => sem[u] # KbdSem
        BY <1>p, <3>1 DEF SleepInv, HolderInv
      <4> QED BY <1>p, <1>t, <3>1, <4>1, ZenonT(30) DEF SleepInv, HolderInv
    <3>4. NotifierInv' BY <3>1 DEF SleepInv, NotifierInv
    <3>5. SwitchedToAwake' /\ NoSpuriousWakeup' BY <3>1, <3>2, AwakeStays
    <3> QED BY <3>2, <3>3, <3>4, <3>5 DEF SleepInv
  <2>11. CASE NotifyUnlock(c)
    <3>1. /\ phase[c] = "t_notified" /\ phase'[c] = "t_switch"
          /\ \A d \in Cpus : d # c => phase'[d] = phase[d]
          /\ \A r \in Sems : r # KbdSem => semLock'[r] = semLock[r]
          /\ UNCHANGED <<taskVars, curTask, stack, flowVars, semVars>>
      BY <1>t, <2>11 DEF NotifyUnlock, Enter
    <3>2. semLock[KbdSem] = c BY <3>1 DEF SleepInv, NotifierInv
    <3>3. QueuedOnce' /\ QueuedSleeps' /\ StatusIsQueued'
      BY <3>1 DEF SleepInv, QueuedOnce, QueuedSleeps, StatusIsQueued, Queued
    <3>4. HolderInv'
      <4>1. \A u \in Tasks : pc[u] \in HoldPCs => sem[u] # KbdSem
        BY <3>1, <3>2 DEF SleepInv, HolderInv
      <4> QED BY <1>p, <1>t, <3>1, <4>1, ZenonT(30) DEF SleepInv, HolderInv
    <3>5. NotifierInv' BY <3>1, <3>2 DEF SleepInv, NotifierInv
    <3>6. SwitchedToAwake' /\ NoSpuriousWakeup'
      <4>1. \A u \in Tasks, r \in Sems : Queued(u, r)' => Queued(u, r) BY <3>1 DEF Queued
      <4> QED BY <3>1, <4>1, AwakeStays
    <3> QED BY <3>3, <3>4, <3>5, <3>6 DEF SleepInv
  <2>12. CASE Switch(c)
    <3>1. PICK ret \in Tasks :
            /\ phase[c] = "t_switch" /\ phase' = [phase EXCEPT ![c] = "t_unlock"]
            /\ curTask' = [curTask EXCEPT ![c] = ret]
            /\ status' = [status EXCEPT ![ret] = "RUNNING"]
            /\ slot[id[ret]] = ret /\ id[ret] % NCpu = c /\ status[ret] = "READY"
            /\ UNCHANGED <<slot, id, suicide, stack, event, flowVars, semVars, lockVars>>
      BY <2>12, SwitchFinds
    <3>2. \A s \in Sems : \A i \in 1..Len(que[s]) : que[s][i] # ret
      <4>1. pc[ret] # "w_status" BY <3>1 DEF SleepInv, HolderInv, HoldPCs
      <4> QED BY <1>q, <3>1, <4>1
    <3>3. QueuedOnce' /\ QueuedSleeps' /\ StatusIsQueued'
      <4>1. \A s \in Sems : \A i \in 1..Len(que[s]) :
              LET u == que[s][i] IN
              /\ sem'[u] = sem[u] /\ pc'[u] \in Looping
              /\ pc'[u] = "w_status" \/ status'[u] = "WAITING"
        BY <1>t, <1>q, <3>1, <3>2
      <4>2. UNCHANGED que
            /\ \A u \in Tasks : pc'[u] = "w_status" => pc[u] = "w_status" /\ sem'[u] = sem[u]
        BY <3>1
      <4> QED BY <4>1, <4>2, QueuesStay
    <3>4. phase'[c] = "t_unlock" /\ \A d \in Cpus : d # c => phase'[d] = phase[d]
      BY <1>t, <3>1
    <3>5. HolderInv' BY <1>p, <3>1, <3>4 DEF SleepInv, HolderInv
    <3>6. NotifierInv' BY <3>1, <3>4 DEF SleepInv, NotifierInv
    <3>7. SwitchedToAwake'
      <4>1. \A d \in Cpus : d # c => curTask'[d] = curTask[d] BY <1>t, <3>1
      <4>2. curTask'[c] = ret BY <1>t, <3>1
      <4> QED BY <3>1, <3>2, <3>4, <4>1, <4>2 DEF SleepInv, SwitchedToAwake, Queued
    <3>8. NoSpuriousWakeup' BY <3>1, <3>4 DEF SleepInv, NoSpuriousWakeup, Queued
    <3> QED BY <3>3, <3>5, <3>6, <3>7, <3>8 DEF SleepInv
  <2>13. CASE Iret(c)
    <3>1. /\ phase[c] = "t_iret" /\ phase'[c] = "user"
          /\ \A d \in Cpus : d # c => phase'[d] = phase[d] /\ stack'[d] = stack[d]
          /\ stack'[c] = curTask[c]
          /\ UNCHANGED <<taskVars, curTask, flowVars, semVars, lockVars>>
      BY <1>t, <2>13 DEF Iret, Enter
    <3>2. QueuedOnce' /\ QueuedSleeps' /\ StatusIsQueued'
      BY <3>1 DEF SleepInv, QueuedOnce, QueuedSleeps, StatusIsQueued, Queued
    <3>3. HolderInv' BY <1>p, <3>1 DEF SleepInv, HolderInv
    <3>4. NotifierInv' BY <3>1 DEF SleepInv, NotifierInv
    <3>5. SwitchedToAwake' BY <3>1 DEF SleepInv, SwitchedToAwake, Queued
    <3>6. NoSpuriousWakeup'
      <4>1. \A s \in Sems : \A i \in 1..Len(que[s]) : que[s][i] # curTask[c]
        BY <3>1 DEF SleepInv, SwitchedToAwake, Queued
      <4> QED BY <3>1, <4>1 DEF SleepInv, NoSpuriousWakeup, Queued
    <3> QED BY <3>2, <3>3, <3>4, <3>5, <3>6 DEF SleepInv
  <2>14. CASE FlowStep(c)
    <3>1. ASSUME NEW t \in Tasks,
                 SemUnlock(c, t, "w_unlock", "w_yield") \/ SemUnlock(c, t, "w_done", "run")
                   \/ SemUnlock(c, t, "s_unlock", "run")
          PROVE SleepInv'
      BY <2>4, <3>1
    <3> QED BY <2>14, <2>2, <2>3, <2>5, <3>1 DEF FlowStep, WaitUnlock, WaitReturn, SignalReturn
  <2>15. CASE CallStep(c) BY <2>15, <2>1, <2>6, <2>7 DEF CallStep
  <2>16. CASE TrapStep(c) BY <2>16, <2>9, <2>10, <2>11, <2>12, <2>13 DEF TrapStep
  <2>17. CASE TrapBegin(c) BY <2>17, <2>8 DEF TrapBegin, Events
  <2> QED BY <1>2, <2>14, <2>15, <2>16, <2>17 DEF CpuStep
<1> QED BY <1>1, <1>2 DEF Next

\* A task sits in one queue, once, the one it named.
LEMMA KmtSleepInv == Spec => [](TableInv /\ SleepInv)
BY TableInit, TableStep, SleepInit, SleepStep, PTL DEF Spec

\* No task comes back from the _yield of sem_wait while it is still queued.
THEOREM KmtNoSpuriousWakeup == Spec => []NoSpuriousWakeup
<1>1. SleepInv => NoSpuriousWakeup BY DEF SleepInv
<1> QED BY KmtSleepInv, <1>1, PTL

-----------------------------------------------------------------------------
(* The assertions: the length of a queue and the slots of create.           *)

LEMMA NoRepetitionIsShort ==
  ASSUME NEW S, IsFiniteSet(S), NEW q \in Seq(S),
         \A i, j \in 1..Len(q) : q[i] = q[j] => i = j
  PROVE  Len(q) <= Cardinality(S)
<1>1. Len(q) \in Nat /\ q \in [1..Len(q) -> S] BY LenProperties
<1>2. q \in Injection(1..Len(q), S) BY <1>1 DEF Injection, IsInjective
<1>3. Cardinality(1..Len(q)) = Len(q) BY <1>1, FS_Interval, SMTT(30)
<1> QED BY <1>2, <1>3, FS_Injection

LEMMA NoPanicStep ==
  ASSUME IsFiniteSet(Tasks), CanOverfill => Cardinality(Tasks) <= MaxTasks,
         Cardinality(Tasks \ IdleTasks) < MaxInQue - 2,
         TableInv, TableInv', SleepInv, SleepInv', NoPanic, [Next]_vars
  PROVE  NoPanic'
<1> USE ConstantFacts
<1>t. phase \in [Cpus -> Phases] /\ que \in [Sems -> Seq(Tasks)] /\ sem \in [Tasks -> Sems]
      /\ que' \in [Sems -> Seq(Tasks)]
  BY DEF TableInv, TypeOK
<1>1. CASE UNCHANGED vars BY <1>1 DEF vars, cpuVars, NoPanic
<1>2. ASSUME NEW c \in Cpus, CpuStep(c) PROVE NoPanic'
  <2> USE DEF taskVars, cpuVars, flowVars, semVars, lockVars
  <2>1. CASE CallStep(c)
    <3>1. UNCHANGED phase \/ \E t, new \in Tasks : Create(c, t, new)
      BY <2>1 DEF CallStep, CallWait, CallSignal, Teardown
    <3>2. ASSUME NEW t \in Tasks, NEW new \in Tasks, Create(c, t, new) PROVE UNCHANGED phase
      <4>1. {i \in Slots : slot[i] = NoTask} # {} \/ ~CanOverfill
        <5> SUFFICES ASSUME \A i \in Slots : slot[i] # NoTask, CanOverfill PROVE FALSE OBVIOUS
        <5>1. slot \in Injection(Slots, Tasks \ {new})
          <6>1. \A i \in Slots : slot[i] \in Tasks /\ id[slot[i]] = i /\ status[slot[i]] # "NEW"
            BY DEF TableInv, TypeOK, TableIsRight
          <6>2. status[new] = "NEW" BY <3>2 DEF Create
          <6>3. slot \in [Slots -> Tasks \ {new}] BY <6>1, <6>2 DEF TableInv, TypeOK
          <6> QED BY <6>1, <6>3 DEF Injection, IsInjective
        <5>2. IsFiniteSet(Tasks \ {new}) /\ Cardinality(Tasks \ {new}) = Cardinality(Tasks) - 1
              /\ Cardinality(Tasks) \in Nat
          BY FS_RemoveElement, FS_CardinalityType
        <5>3. Cardinality(Slots) = MaxTasks BY FS_Interval, TaskAssumption DEF Slots
        <5>4. Cardinality(Slots) <= Cardinality(Tasks \ {new}) BY <5>1, <5>2, FS_Injection
        <5> QED BY <5>2, <5>3, <5>4, TaskAssumption
      <4> QED BY <3>2, <4>1 DEF Create
    <3> QED BY <3>1, <3>2 DEF NoPanic
  <2>2. CASE FlowStep(c)
    <3>1. UNCHANGED phase \/ \E t \in Tasks : WaitTest(c, t)
      BY <2>2 DEF FlowStep, WaitStatus, WaitUnlock, WaitReturn, SignalBody, SignalReturn, SemUnlock
    <3>2. ASSUME NEW t \in Tasks, WaitTest(c, t) PROVE UNCHANGED phase
      <4> DEFINE s == sem[t]
      <4>1. CASE que'[s] = <<curTask[c]>> \o que[s] /\ curTask[c] \in Tasks
        <5>1. s \in Sems /\ que[s] \in Seq(Tasks) /\ que'[s] \in Seq(Tasks) BY <1>t
        <5>2. Len(que'[s]) = Len(que[s]) + 1 /\ Len(que[s]) \in Nat
          BY <4>1, <5>1, AddFirst, LenProperties
        <5>3. \A i \in 1..Len(que'[s]) : que'[s][i] \in Tasks \ IdleTasks
          <6> SUFFICES ASSUME NEW i \in 1..Len(que'[s]) PROVE que'[s][i] \in Tasks \ IdleTasks
            OBVIOUS
          <6>1. que'[s][i] \in Tasks BY <5>1, ElementOfSeq
          <6>2. pc'[que'[s][i]] # "run" BY <5>1 DEF SleepInv, QueuedSleeps, Looping
          <6> QED BY <6>1, <6>2 DEF TableInv, IdleInv
        <5>4. que'[s] \in Seq(Tasks \ IdleTasks) BY <5>1, <5>2, <5>3, SeqOfMembers
        <5>5. \A i, j \in 1..Len(que'[s]) : que'[s][i] = que'[s][j] => i = j
          BY <5>1 DEF SleepInv, QueuedOnce
        <5>6. IsFiniteSet(Tasks \ IdleTasks) /\ Cardinality(Tasks \ IdleTasks) \in Nat
          BY FS_Difference, FS_CardinalityType
        <5>7. Len(que'[s]) <= Cardinality(Tasks \ IdleTasks)
          BY <5>4, <5>5, <5>6, NoRepetitionIsShort
        <5>8. ~(Len(que[s]) + 1 >= MaxInQue - 2) BY <5>2, <5>6, <5>7, SemAssumption
        <5> QED BY <3>2, <5>8 DEF WaitTest
      <4>2. CASE ~(que'[s] = <<curTask[c]>> \o que[s] /\ curTask[c] \in Tasks)
        <5>1. PICK from : RunsAt(c, t, from) BY <3>2 DEF WaitTest
        <5>2. curTask[c] \in Tasks BY <5>1, Executes
        <5>3. value[s] > 0 \/ que' = [que EXCEPT ![s] = <<curTask[c]>> \o @]
          BY <3>2 DEF WaitTest
        <5>4. s \in Sems BY <1>t
        <5>5. ~(que' = [que EXCEPT ![s] = <<curTask[c]>> \o @]) BY <1>t, <4>2, <5>2, <5>4
        <5> QED BY <3>2, <5>5 DEF WaitTest
      <4> QED BY <4>1, <4>2
    <3> QED BY <3>1, <3>2 DEF NoPanic
  <2>3. CASE TrapBegin(c)
    BY <1>t, <2>3 DEF TrapBegin, Trap, Enter, NoPanic
  <2>4. CASE TrapStep(c)
    <3>1. phase'[c] # "panic" /\ \A d \in Cpus : d # c => phase'[d] = phase[d]
      <4>1. CASE Switch(c) BY <1>t, <4>1, SwitchFinds
      <4>2. CASE ~Switch(c)
        BY <1>t, <2>4, <4>2 DEF TrapStep, TrapLockStep, Save, Notify, NotifyUnlock, TrapUnlock,
           Iret, Enter
      <4> QED BY <4>1, <4>2
    <3> QED BY <3>1 DEF NoPanic
  <2> QED BY <1>2, <2>1, <2>2, <2>3, <2>4 DEF CpuStep
<1> QED BY <1>1, <1>2 DEF Next

\* The queues stay right, and none of the assertions on the way fails: the
\* queue of a semaphore is long enough for all tasks (sem.c), create finds a
\* slot and the scheduler a task (kmt.c), as long as no task is created while
\* Task[] is full, or all tasks together are no more than it has slots, and they
\* are no more than the idle ones and MAX_IN_QUE - 3 others, the dead ones
\* counted: who is torn down may stay in a queue.  MAX_IN_QUE is
\* MAX_NR_TASKS + 5 (common.h:56).
THEOREM KmtQueues ==
  ASSUME IsFiniteSet(Tasks), CanOverfill => Cardinality(Tasks) <= MaxTasks,
         Cardinality(Tasks \ IdleTasks) < MaxInQue - 2
  PROVE  Spec => []QueueInv
<1> DEFINE Inv == TableInv /\ SleepInv
<1>1. Init => NoPanic BY DEF Init, NoPanic
<1>2. Inv /\ Inv' /\ NoPanic /\ [Next]_vars => NoPanic' BY NoPanicStep
<1>3. Inv /\ NoPanic => QueueInv BY DEF QueueInv, SleepInv
<1> QED BY KmtSleepInv, <1>1, <1>2, <1>3, PTL DEF Spec

-----------------------------------------------------------------------------
(* No wake-up is lost.                                                      *)

LEMMA WakeInit == Init => WakeInv
<1> SUFFICES ASSUME Init PROVE WakeInv OBVIOUS
<1>1. LoopSet = {} BY DEF Init, LoopSet, Looping
<1>2. \A s \in Sems : que[s] = << >> /\ Woken(s) = {}
  BY DEF Init, Woken, Looping
<1> QED BY <1>1, <1>2, FS_EmptySet DEF WakeInv

LEMMA WokenFinite ==
  ASSUME WakeInv, NEW s \in Sems
  PROVE  IsFiniteSet(Woken(s)) /\ Cardinality(Woken(s)) \in Nat
<1>1. Woken(s) \in SUBSET LoopSet BY DEF Woken, LoopSet
<1> QED BY <1>1, FS_Subset, FS_CardinalityType DEF WakeInv

\* A step that changes neither the loop nor the queue nor the units of s, and
\* puts nobody to sleep who was woken.
LEMMA WakeStays ==
  ASSUME WakeInv, NEW s \in Sems,
         que'[s] # << >> => que[s] # << >> /\ value'[s] = value[s],
         \A u \in Tasks : Queued(u, s)' <=> Queued(u, s),
         \A u \in Tasks : sem'[u] = s /\ pc'[u] \in Looping <=> sem[u] = s /\ pc[u] \in Looping,
         \A u \in Tasks : status'[u] = "WAITING" => status[u] = "WAITING" \/ u \notin Woken(s)
  PROVE  /\ que'[s] # << >> => value'[s] <= Cardinality(Woken(s)')
         /\ \A t \in Woken(s)' : status'[t] # "WAITING"
<1>1. Woken(s)' = Woken(s) BY DEF Woken
<1>2. \A t \in Woken(s) : t \in Tasks BY DEF Woken
<1>3. \A t \in Woken(s) : status'[t] # "WAITING" BY <1>2 DEF WakeInv
<1> QED BY <1>1, <1>3 DEF WakeInv

LEMMA CalmStep ==
  ASSUME TableInv, SleepInv, WakeInv, UNCHANGED <<value, que>>,
         \A u \in Tasks : pc'[u] \in Looping <=> pc[u] \in Looping,
         \A u \in Tasks : pc[u] \in Looping => sem'[u] = sem[u],
         \A u \in Tasks : status'[u] = "WAITING" => status[u] = "WAITING" \/ pc[u] = "w_status"
  PROVE  WakeInv'
<1>1. LoopSet' = LoopSet BY DEF LoopSet
<1>2. ASSUME NEW s \in Sems
      PROVE  /\ que'[s] # << >> => value'[s] <= Cardinality(Woken(s)')
             /\ \A t \in Woken(s)' : status'[t] # "WAITING"
  <2>1. \A u \in Tasks : Queued(u, s)' <=> Queued(u, s) BY DEF Queued
  <2>2. \A u \in Tasks : pc[u] = "w_status" => u \notin Woken(s)
    BY DEF SleepInv, StatusIsQueued, Woken
  <2> QED BY <2>1, <2>2, WakeStays
<1> QED BY <1>1, <1>2 DEF WakeInv

\* A signal adds a unit, and a task on its way to take it if somebody sleeps.
LEMMA SignalWakes ==
  ASSUME TableInv, SleepInv, WakeInv, NEW s \in Sems, Signal(s), UNCHANGED sem,
         \A u \in Tasks : pc'[u] \in Looping <=> pc[u] \in Looping
  PROVE  WakeInv'
<1>t. que \in [Sems -> Seq(Tasks)] /\ status \in [Tasks -> Status] /\ value \in [Sems -> Nat]
  BY DEF TableInv, TypeOK
<1>1. LoopSet' = LoopSet BY DEF LoopSet
<1>2. \A r \in Sems : r # s => que'[r] = que[r] /\ value'[r] = value[r]
  BY <1>t DEF Signal
<1>3. \A u \in Tasks : status'[u] = "WAITING" => status[u] = "WAITING"
  BY SignalTypes DEF TableInv
<1>4. ASSUME NEW r \in Sems, r # s \/ que[s] = << >>
      PROVE  /\ que'[r] # << >> => value'[r] <= Cardinality(Woken(r)')
             /\ \A t \in Woken(r)' : status'[t] # "WAITING"
  <2>1. que'[r] = que[r] /\ (que'[r] # << >> => value'[r] = value[r])
    BY <1>2, <1>4 DEF Signal
  <2>2. \A u \in Tasks : Queued(u, r)' <=> Queued(u, r) BY <2>1 DEF Queued
  <2> QED BY <1>3, <2>1, <2>2, WakeStays
<1>5. ASSUME que[s] # << >>
      PROVE  /\ value'[s] <= Cardinality(Woken(s)')
             /\ \A t \in Woken(s)' : status'[t] # "WAITING"
  <2> DEFINE q == que[s]
             w == q[Len(q)]
  <2>1. /\ Len(q) \in Nat \ {0} /\ w \in Tasks /\ Len(SubSeq(q, 1, Len(q) - 1)) = Len(q) - 1
        /\ \A i \in 1..(Len(q) - 1) : SubSeq(q, 1, Len(q) - 1)[i] = q[i]
    BY <1>t, <1>5, DropLast
  <2>2. que'[s] = SubSeq(q, 1, Len(q) - 1) /\ status'[w] = "READY" /\ value'[s] = value[s] + 1
    BY <1>t, <1>5, <2>1 DEF Signal
  <2>3. sem[w] = s /\ pc[w] \in Looping /\ Queued(w, s)
    <3>1. Len(q) \in 1..Len(que[s]) BY <2>1
    <3> QED BY <3>1, QueueMember
  <2>4. \A i \in 1..Len(q) : q[i] = w => i = Len(q)
    <3>1. Len(q) \in 1..Len(que[s]) BY <2>1
    <3> QED BY <3>1 DEF SleepInv, QueuedOnce
  <2> HIDE DEF q, w
  <2>5. \A u \in Tasks : Queued(u, s)' <=> Queued(u, s) /\ u # w
    <3> SUFFICES ASSUME NEW u \in Tasks PROVE Queued(u, s)' <=> Queued(u, s) /\ u # w
      OBVIOUS
    <3>1. Len(que'[s]) = Len(q) - 1 /\ \A i \in 1..(Len(q) - 1) : que'[s][i] = q[i]
      BY <2>1, <2>2
    <3>2. q = que[s] /\ w = q[Len(q)] BY DEF q, w
    <3>3. Queued(u, s)' <=> \E i \in 1..(Len(q) - 1) : q[i] = u
      BY <3>1 DEF Queued
    <3>4. Queued(u, s) <=> \E i \in 1..Len(q) : q[i] = u BY <3>2 DEF Queued
    <3>5. \A i \in 1..(Len(q) - 1) : i \in 1..Len(q) /\ i # Len(q) BY <2>1
    <3>6. \A i \in 1..Len(q) : i # Len(q) => i \in 1..(Len(q) - 1) BY <2>1
    <3> QED BY <2>4, <3>2, <3>3, <3>4, <3>5, <3>6
  <2>6. Woken(s)' = Woken(s) \cup {w} BY <2>1, <2>3, <2>5 DEF Woken
  <2>7. w \notin Woken(s) BY <2>3 DEF Woken
  <2>8. Cardinality(Woken(s)') = Cardinality(Woken(s)) + 1
    BY <2>6, <2>7, WokenFinite, FS_AddElement
  <2>9. value[s] <= Cardinality(Woken(s)) /\ value[s] \in Nat /\ Cardinality(Woken(s)) \in Nat
    BY <1>t, <1>5, WokenFinite DEF WakeInv
  <2>10. \A t \in Woken(s) : t \in Tasks /\ status[t] # "WAITING" BY DEF Woken, WakeInv
  <2> QED BY <1>3, <2>2, <2>6, <2>8, <2>9, <2>10
<1>6. ASSUME NEW r \in Sems
      PROVE  /\ que'[r] # << >> => value'[r] <= Cardinality(Woken(r)')
             /\ \A t \in Woken(r)' : status'[t] # "WAITING"
  BY <1>4, <1>5
<1> QED BY <1>1, <1>6 DEF WakeInv

\* The test of the value takes a unit, and a woken task with it if the task had
\* slept, or puts the task in the queue when there is no unit.
LEMMA TestKeepsWake ==
  ASSUME TableInv, SleepInv, WakeInv, NEW c \in Cpus, NEW t \in Tasks, WaitTest(c, t)
  PROVE  WakeInv'
<1>s. PICK s \in Sems : s = sem[t] BY DEF TableInv, TypeOK
<1>t. que \in [Sems -> Seq(Tasks)] /\ value \in [Sems -> Nat] /\ sem \in [Tasks -> Sems]
      /\ pc \in [Tasks -> FlowPCs]
  BY DEF TableInv, TypeOK
<1>0. status' = status /\ sem' = sem BY DEF WaitTest, taskVars
<1>1. ASSUME value[s] <= 0 PROVE WakeInv'
  <2>1. /\ pc'[t] = "w_status" /\ \A u \in Tasks : u # t => pc'[u] = pc[u]
        /\ value' = value /\ \A r \in Sems : r # s => que'[r] = que[r]
        /\ \A u \in Tasks, r \in Sems : Queued(u, r)' <=> Queued(u, r) \/ (u = t /\ r = s)
    BY <1>1, <1>s, EnqueueEffect
  <2>2. IsFiniteSet(LoopSet')
    <3>1. LoopSet' \subseteq LoopSet \cup {t} BY <2>1 DEF LoopSet
    <3>2. IsFiniteSet(LoopSet \cup {t}) BY FS_AddElement DEF WakeInv
    <3> QED BY <3>1, <3>2, FS_Subset
  <2>3. ASSUME NEW r \in Sems, r # s
        PROVE  /\ que'[r] # << >> => value'[r] <= Cardinality(Woken(r)')
               /\ \A u \in Woken(r)' : status'[u] # "WAITING"
    BY <1>0, <1>s, <2>1, <2>3, WakeStays
  <2>4. value'[s] <= Cardinality(Woken(s)')
    <3>1. Woken(s)' \in SUBSET LoopSet' BY DEF Woken, LoopSet
    <3>2. Cardinality(Woken(s)') \in Nat BY <2>2, <3>1, FS_Subset, FS_CardinalityType
    <3> QED BY <1>t, <1>1, <2>1, <3>2
  <2>5. \A u \in Woken(s)' : status'[u] # "WAITING"
    <3> SUFFICES ASSUME NEW u \in Tasks, sem[u] = s, ~Queued(u, s)', pc'[u] \in Looping
                 PROVE  status[u] # "WAITING"
      BY <1>0 DEF Woken
    <3>1. u # t /\ ~Queued(u, s) BY <1>t, <2>1
    <3>2. pc[u] \in Looping BY <2>1, <3>1
    <3> QED BY <1>t, <3>1, <3>2 DEF WakeInv, Woken
  <2>6. \A r \in Sems : /\ que'[r] # << >> => value'[r] <= Cardinality(Woken(r)')
                        /\ \A u \in Woken(r)' : status'[u] # "WAITING"
    BY <2>3, <2>4, <2>5
  <2> QED BY <2>2, <2>6 DEF WakeInv
<1>2. ASSUME ~(value[s] <= 0) PROVE WakeInv'
  <2>1. /\ value' = [value EXCEPT ![s] = @ - 1] /\ pc' = [pc EXCEPT ![t] = "w_done"]
        /\ que' = que
    BY <1>2, <1>s DEF WaitTest, Goto
  <2>2. /\ value'[s] = value[s] - 1 /\ (\A r \in Sems : r # s => value'[r] = value[r])
        /\ pc'[t] \notin Looping /\ (\A u \in Tasks : u # t => pc'[u] = pc[u])
    BY <1>t, <2>1 DEF Looping
  <2>3. IsFiniteSet(LoopSet')
    <3>1. LoopSet' \in SUBSET LoopSet BY <2>2 DEF LoopSet
    <3> QED BY <3>1, FS_Subset DEF WakeInv
  <2>4. \A u \in Tasks, r \in Sems : Queued(u, r)' <=> Queued(u, r) BY <2>1 DEF Queued
  <2>5. ASSUME NEW r \in Sems, r # s
        PROVE  /\ que'[r] # << >> => value'[r] <= Cardinality(Woken(r)')
               /\ \A u \in Woken(r)' : status'[u] # "WAITING"
    BY <1>0, <1>s, <2>1, <2>2, <2>4, <2>5, WakeStays
  <2>6. Woken(s)' = Woken(s) \ {t} BY <1>0, <1>s, <1>t, <2>2, <2>4 DEF Woken
  <2>7. Cardinality(Woken(s)') >= Cardinality(Woken(s)) - 1 /\ Cardinality(Woken(s)') \in Nat
    <3>1. IsFiniteSet(Woken(s)) /\ Cardinality(Woken(s)) \in Nat BY WokenFinite
    <3>2. /\ IsFiniteSet(Woken(s) \ {t})
          /\ Cardinality(Woken(s) \ {t})
             = IF t \in Woken(s) THEN Cardinality(Woken(s)) - 1 ELSE Cardinality(Woken(s))
      BY <3>1, FS_RemoveElement
    <3>3. Cardinality(Woken(s) \ {t}) \in Nat BY <3>2, FS_CardinalityType
    <3> QED BY <2>6, <3>1, <3>2, <3>3
  <2>8. que'[s] # << >> => value'[s] <= Cardinality(Woken(s)')
    BY <1>t, <2>1, <2>2, <2>7, WokenFinite DEF WakeInv
  <2>9. \A u \in Woken(s)' : status'[u] # "WAITING" BY <1>0, <2>6 DEF WakeInv
  <2>10. \A r \in Sems : /\ que'[r] # << >> => value'[r] <= Cardinality(Woken(r)')
                         /\ \A u \in Woken(r)' : status'[u] # "WAITING"
    BY <2>5, <2>8, <2>9
  <2> QED BY <2>3, <2>10 DEF WakeInv
<1> QED BY <1>1, <1>2

LEMMA WakeStep == TableInv /\ SleepInv /\ WakeInv /\ [Next]_vars => WakeInv'
<1> SUFFICES ASSUME TableInv, SleepInv, WakeInv, [Next]_vars PROVE WakeInv' OBVIOUS
<1>t. pc \in [Tasks -> FlowPCs] /\ status \in [Tasks -> Status] /\ sem \in [Tasks -> Sems]
  BY DEF TableInv, TypeOK
<1> USE DEF taskVars, cpuVars, flowVars, semVars, lockVars
<1>1. CASE UNCHANGED vars BY <1>1, CalmStep DEF vars
<1>2. ASSUME NEW c \in Cpus, CpuStep(c) PROVE WakeInv'
  <2>1. ASSUME NEW t \in Tasks, NEW s \in Sems, CallWait(c, t, s) \/ CallSignal(c, t, s)
        PROVE WakeInv'
    <3>1. /\ pc[t] = "run" /\ pc'[t] \in {"w_lock", "s_lock"}
          /\ \A u \in Tasks : u # t => pc'[u] = pc[u] /\ sem'[u] = sem[u]
          /\ UNCHANGED <<taskVars, semVars>>
      BY <1>t, <2>1 DEF CallWait, CallSignal, Goto, RunsAt
    <3> QED BY <3>1, CalmStep DEF Looping
  <2>2. ASSUME NEW t \in Tasks, WaitStatus(c, t) PROVE WakeInv'
    <3>1. curTask[c] = t BY <2>2, Executes DEF WaitStatus
    <3>2. /\ pc[t] = "w_status" /\ pc'[t] = "w_unlock"
          /\ \A u \in Tasks : u # t => pc'[u] = pc[u] /\ status'[u] = status[u]
          /\ UNCHANGED <<sem, semVars>>
      BY <1>t, <2>2, <3>1 DEF WaitStatus, Goto, RunsAt
    <3> QED BY <3>2, CalmStep DEF Looping
  <2>3. ASSUME NEW t \in Tasks, WaitUnlock(c, t) \/ WaitReturn(c, t) \/ SignalReturn(c, t)
        PROVE WakeInv'
    <3>1. /\ pc[t] \in Looping <=> pc'[t] \in Looping
          /\ \A u \in Tasks : u # t => pc'[u] = pc[u]
          /\ UNCHANGED <<taskVars, sem, semVars>>
      BY <1>t, <2>3 DEF WaitUnlock, WaitReturn, SignalReturn, SemUnlock, Goto, RunsAt, Looping
    <3> QED BY <3>1, CalmStep
  <2>4. ASSUME NEW t \in Tasks, SignalBody(c, t) PROVE WakeInv'
    <3>1. /\ Signal(sem[t]) /\ sem[t] \in Sems /\ UNCHANGED sem
          /\ pc[t] = "s_lock" /\ pc'[t] = "s_unlock"
          /\ \A u \in Tasks : u # t => pc'[u] = pc[u]
      BY <1>t, <2>4 DEF SignalBody, Goto, RunsAt
    <3>2. \A u \in Tasks : pc'[u] \in Looping <=> pc[u] \in Looping BY <3>1 DEF Looping
    <3> QED BY <3>1, <3>2, SignalWakes
  <2>5. CASE Notify(c) BY <2>5, SignalWakes, SemAssumption DEF Notify
  <2>6. ASSUME NEW t \in Tasks, NEW other \in Tasks, Create(c, t, other) \/ Teardown(c, t, other)
        PROVE WakeInv'
    <3>1. /\ \A u \in Tasks : status'[u] = "WAITING" => status[u] = "WAITING"
          /\ UNCHANGED <<flowVars, semVars>>
      BY <1>t, <2>6 DEF Create, Teardown
    <3> QED BY <3>1, CalmStep
  <2>7. ASSUME NEW ev, Trap(c, ev) PROVE WakeInv'
    <3>1. /\ \A u \in Tasks : pc'[u] = pc[u] \/ (pc[u] = "w_yield" /\ pc'[u] = "w_relock")
          /\ UNCHANGED <<taskVars, sem, semVars>>
      BY <1>t, <2>7 DEF Trap, Goto, RunsAt
    <3> QED BY <3>1, CalmStep DEF Looping
  <2>8. CASE TrapLockStep(c) \/ Save(c) \/ NotifyUnlock(c) \/ TrapUnlock(c) \/ Iret(c)
    <3>1. /\ \A u \in Tasks : status'[u] = "WAITING" => status[u] = "WAITING"
          /\ UNCHANGED <<flowVars, semVars>>
      BY <1>t, <2>8 DEF TrapLockStep, Save, NotifyUnlock, TrapUnlock, Iret
    <3> QED BY <3>1, CalmStep
  <2>9. CASE Switch(c)
    <3>1. /\ \A u \in Tasks : status'[u] = "WAITING" => status[u] = "WAITING"
          /\ UNCHANGED <<flowVars, semVars>>
      BY <1>t, <2>9, SwitchFinds
    <3> QED BY <3>1, CalmStep
  <2> QED BY <1>2, <2>1, <2>2, <2>3, <2>4, <2>5, <2>6, <2>7, <2>8, <2>9, TestKeepsWake
      DEF CpuStep, FlowStep, CallStep, TrapStep, TrapBegin
<1> QED BY <1>1, <1>2 DEF Next

\* As long as somebody sleeps on a semaphore, each of its units is covered by a
\* task that was woken and has not tested the value yet, and none of those
\* sleeps: the signal that comes between the enqueueing and the yield counts.
THEOREM KmtNoLostWakeup == Spec => []NoLostWakeup
<1>1. WakeInv => NoLostWakeup BY DEF WakeInv, NoLostWakeup
<1> QED BY TableInit, TableStep, SleepInit, SleepStep, WakeInit, WakeStep, <1>1, PTL DEF Spec

=============================================================================
