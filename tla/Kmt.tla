-------------------------------- MODULE Kmt --------------------------------
(***************************************************************************)
(* Kernel threads and semaphores: kernel/src/kmt.c, sem.c, handler.c and   *)
(* the trap path of os.c, on several CPUs.                                 *)
(*                                                                         *)
(* Spin locks are the abstract ones of AbsLock, which Spinlock implements: *)
(* a lock is held by a CPU, and the CPU takes no interrupt while it holds  *)
(* one or handles a trap.  print_lk is left out: it is taken and given     *)
(* back inside the other critical sections and guards no state.            *)
(*                                                                         *)
(* A task's program is unknown: it may compute for ever, wait for or       *)
(* signal any semaphore, yield, create or tear down tasks.  Only the idle  *)
(* tasks are known: while(1).                                              *)
(***************************************************************************)
EXTENDS Integers, Sequences, FiniteSets

CONSTANTS NCpu,        \* _ncpu(): the CPUs are 0 .. NCpu-1
          MaxTasks,    \* MAX_NR_TASKS, the length of Task[]
          MaxInQue,    \* MAX_IN_QUE, the length of sem->que
          Tasks,       \* the task_t objects, named by numbers
          NIdle,       \* how many idle tasks kmt->init creates: objects 0 .. NIdle-1
          NBoot,       \* how many objects exist after os_init: 0 .. NBoot-1
          Sems,        \* the semaphores
          KbdSem,      \* sem_kbdirq, which the keyboard interrupt signals
          SemInit,     \* the value sem_init gives to every semaphore
          MaxValue,    \* bound: nobody signals a semaphore beyond this value
          CanTeardown, \* whether some task calls kmt->teardown (none does in src/)
          CanOverfill  \* whether kmt->create is called with Task[] full: its assertion fails

ASSUME CpuAssumption == NCpu \in Nat \ {0}
ASSUME TaskAssumption ==
  /\ Tasks \subseteq Nat /\ MaxTasks \in Nat \ {0}
  /\ NIdle \in Nat /\ NBoot \in Nat
  /\ NCpu <= NIdle /\ NIdle <= NBoot /\ NBoot <= MaxTasks
  /\ 0..(NBoot - 1) \subseteq Tasks
ASSUME SemAssumption ==
  KbdSem \in Sems /\ SemInit \in Nat /\ MaxValue \in Nat /\ MaxInQue \in Nat

Cpus == 0..(NCpu - 1)
Slots == 0..(MaxTasks - 1)
NoTask == -1        \* NULL in Task[] and cur_task[]
Boot == -2          \* the loop of os_run, which is never saved
NoCpu == -1
IdleTasks == 0..(NIdle - 1)

VARIABLES
  slot,      \* slot[i]: the object Task[i] points to
  id,        \* id[t]: t->id
  status,    \* status[t]: t->status
  suicide,   \* suicide[t]: t->suicide
  curTask,   \* curTask[c]: cur_task[c]
  stack,     \* stack[c]: the task on whose stack CPU c is, also inside a trap
  phase,     \* phase[c]: where CPU c is in the trap path, "user" outside it
  event,     \* event[c]: the event of the trap CPU c handles
  pc,        \* pc[t]: where t is in sem_wait or sem_signal, "run" outside
  sem,       \* sem[t]: the semaphore it called them with
  value,     \* value[s]: s->value
  que,       \* que[s]: s->que, the latest waiter first
  semLock,   \* semLock[s]: the CPU that holds s->lock
  trapLock   \* the CPU that holds trap_lk

taskVars  == <<slot, id, status, suicide>>
cpuVars   == <<curTask, stack, phase, event>>
flowVars  == <<pc, sem>>
semVars   == <<value, que>>
lockVars  == <<semLock, trapLock>>
vars == <<taskVars, cpuVars, flowVars, semVars, lockVars>>

Status == {"READY", "RUNNING", "WAITING", "NEW"}
Phases == {"user", "t_lock", "t_save", "t_notify", "t_notified", "t_switch", "t_unlock",
           "t_iret", "panic"}
FlowPCs == {"run", "w_lock", "w_status", "w_unlock", "w_yield", "w_relock", "w_done",
            "s_lock", "s_unlock"}
Events == {"yield", "timer", "keyboard"}

TypeOK ==
  /\ slot \in [Slots -> Tasks \cup {NoTask}]
  /\ id \in [Tasks -> Slots]
  /\ status \in [Tasks -> Status]
  /\ suicide \in [Tasks -> BOOLEAN]
  /\ curTask \in [Cpus -> Tasks \cup {NoTask}]
  /\ stack \in [Cpus -> Tasks \cup {Boot}]
  /\ phase \in [Cpus -> Phases]
  /\ event \in [Cpus -> Events]
  /\ pc \in [Tasks -> FlowPCs]
  /\ sem \in [Tasks -> Sems]
  /\ value \in [Sems -> Nat]
  /\ que \in [Sems -> Seq(Tasks)]
  /\ semLock \in [Sems -> Cpus \cup {NoCpu}]
  /\ trapLock \in Cpus \cup {NoCpu}

\* After os_init: kmt->init has created the idle tasks first, then come the
\* tasks of the devices and the shells; every CPU is in the loop of os_run.
Init ==
  /\ slot = [i \in Slots |-> IF i < NBoot THEN i ELSE NoTask]
  /\ id = [t \in Tasks |-> IF t < NBoot THEN t ELSE 0]
  /\ status = [t \in Tasks |-> IF t < NBoot THEN "READY" ELSE "NEW"]
  /\ suicide = [t \in Tasks |-> FALSE]
  /\ curTask = [c \in Cpus |-> NoTask]
  /\ stack = [c \in Cpus |-> Boot]
  /\ phase = [c \in Cpus |-> "user"]
  /\ event = [c \in Cpus |-> "yield"]
  /\ pc = [t \in Tasks |-> "run"]
  /\ sem = [t \in Tasks |-> KbdSem]
  /\ value = [s \in Sems |-> SemInit]
  /\ que = [s \in Sems |-> << >>]
  /\ semLock = [s \in Sems |-> NoCpu]
  /\ trapLock = NoCpu

Holds(c) == trapLock = c \/ \E s \in Sems : semLock[s] = c

\* CPU c executes the code of task t, which is at the label.
RunsAt(c, t, label) == phase[c] = "user" /\ stack[c] = t /\ t \in Tasks /\ pc[t] = label

Goto(t, label) == pc' = [pc EXCEPT ![t] = label]
Enter(c, p) == phase' = [phase EXCEPT ![c] = p]

-----------------------------------------------------------------------------
(* sem_wait                                                                 *)

CallWait(c, t, s) ==
  /\ RunsAt(c, t, "run") /\ t \notin IdleTasks
  /\ Goto(t, "w_lock")
  /\ sem' = [sem EXCEPT ![t] = s]
  /\ UNCHANGED <<taskVars, cpuVars, semVars, lockVars>>

\* Mutant: the test lets a task through at zero.
WaitTestOffByOne(c, t) ==
  LET s == sem[t] IN
  /\ RunsAt(c, t, "w_lock") \/ RunsAt(c, t, "w_relock")
  /\ semLock[s] = NoCpu
  /\ semLock' = [semLock EXCEPT ![s] = c]
  /\ \/ /\ value[s] >= 0
        /\ value' = [value EXCEPT ![s] = @ - 1]
        /\ Goto(t, "w_done")
        /\ UNCHANGED <<que, phase>>
     \/ /\ value[s] < 0
        /\ que' = [que EXCEPT ![s] = <<curTask[c]>> \o @]
        /\ Goto(t, "w_status")
        /\ UNCHANGED <<value, phase>>
  /\ UNCHANGED <<taskVars, curTask, stack, event, sem, trapLock>>

\* Mutant: the lock is given back before cur->status = TASK_WAITING.
WaitTestUnlocksEarly(c, t) ==
  LET s == sem[t] IN
  /\ RunsAt(c, t, "w_lock") \/ RunsAt(c, t, "w_relock")
  /\ semLock[s] = NoCpu
  /\ \/ /\ value[s] > 0
        /\ value' = [value EXCEPT ![s] = @ - 1]
        /\ Goto(t, "w_done")
        /\ UNCHANGED que
     \/ /\ value[s] <= 0
        /\ que' = [que EXCEPT ![s] = <<curTask[c]>> \o @]
        /\ Goto(t, "w_status")
        /\ UNCHANGED value
  /\ UNCHANGED <<taskVars, cpuVars, sem, lockVars>>

\* With the lock in hand, first or after a wake-up: the test of the while loop.
\* A waiter enters cur, the task its CPU believes to run, at the front.
WaitTest(c, t) ==
  LET s == sem[t] IN
  /\ RunsAt(c, t, "w_lock") \/ RunsAt(c, t, "w_relock")
  /\ semLock[s] = NoCpu
  /\ semLock' = [semLock EXCEPT ![s] = c]
  /\ \/ /\ value[s] > 0
        /\ value' = [value EXCEPT ![s] = @ - 1]
        /\ Goto(t, "w_done")
        /\ UNCHANGED <<que, phase>>
     \/ /\ value[s] <= 0
        /\ que' = [que EXCEPT ![s] = <<curTask[c]>> \o @]
        /\ Goto(t, "w_status")
        /\ IF Len(que[s]) + 1 >= MaxInQue - 2 THEN Enter(c, "panic") ELSE UNCHANGED phase
        /\ UNCHANGED value
  /\ UNCHANGED <<taskVars, curTask, stack, event, sem, trapLock>>

WaitStatus(c, t) ==
  /\ RunsAt(c, t, "w_status")
  /\ status' = [status EXCEPT ![curTask[c]] = "WAITING"]
  /\ Goto(t, "w_unlock")
  /\ UNCHANGED <<slot, id, suicide, cpuVars, sem, semVars, lockVars>>

\* The end of a critical section of a semaphore.
SemUnlock(c, t, from, to) ==
  /\ RunsAt(c, t, from)
  /\ semLock' = [semLock EXCEPT ![sem[t]] = NoCpu]
  /\ Goto(t, to)
  /\ UNCHANGED <<taskVars, cpuVars, sem, semVars, trapLock>>

WaitUnlock(c, t) == SemUnlock(c, t, "w_unlock", "w_yield")
WaitReturn(c, t) == SemUnlock(c, t, "w_done", "run")

-----------------------------------------------------------------------------
(* sem_signal                                                               *)

\* Mutant: the task that is woken stays in the queue.
SignalKeepsEntry(s) ==
  /\ value' = [value EXCEPT ![s] = @ + 1]
  /\ status' = IF que[s] # << >> THEN [status EXCEPT ![que[s][Len(que[s])]] = "READY"] ELSE status
  /\ UNCHANGED que

\* Mutant: the task leaves the queue and stays asleep.
SignalForgetsReady(s) ==
  /\ value' = [value EXCEPT ![s] = @ + 1]
  /\ que' = [que EXCEPT ![s] = IF @ # << >> THEN SubSeq(@, 1, Len(@) - 1) ELSE @]
  /\ UNCHANGED status

\* What sem_signal does under the lock: the oldest waiter leaves the queue.
Signal(s) ==
  /\ value' = [value EXCEPT ![s] = @ + 1]
  /\ IF que[s] # << >>
     THEN /\ que' = [que EXCEPT ![s] = SubSeq(@, 1, Len(@) - 1)]
          /\ status' = [status EXCEPT ![que[s][Len(que[s])]] = "READY"]
     ELSE UNCHANGED <<que, status>>

CallSignal(c, t, s) ==
  /\ RunsAt(c, t, "run") /\ t \notin IdleTasks
  /\ value[s] < MaxValue
  /\ Goto(t, "s_lock")
  /\ sem' = [sem EXCEPT ![t] = s]
  /\ UNCHANGED <<taskVars, cpuVars, semVars, lockVars>>

SignalBody(c, t) ==
  /\ RunsAt(c, t, "s_lock")
  /\ semLock[sem[t]] = NoCpu
  /\ semLock' = [semLock EXCEPT ![sem[t]] = c]
  /\ Signal(sem[t])
  /\ Goto(t, "s_unlock")
  /\ UNCHANGED <<slot, id, suicide, cpuVars, sem, trapLock>>

SignalReturn(c, t) == SemUnlock(c, t, "s_unlock", "run")

-----------------------------------------------------------------------------
(* create and teardown, each one critical section of trap_lk                *)

\* Mutant: the slot of a task that is only marked for death is reused at once.
CreateReusesEarly(c, t, new) ==
  /\ RunsAt(c, t, "run") /\ t \notin IdleTasks
  /\ status[new] = "NEW"
  /\ trapLock = NoCpu
  /\ \E i \in Slots :
       /\ slot[i] # NoTask => suicide[slot[i]]
       /\ slot' = [slot EXCEPT ![i] = new]
       /\ id' = [id EXCEPT ![new] = i]
  /\ status' = [status EXCEPT ![new] = "READY"]
  /\ UNCHANGED <<suicide, cpuVars, flowVars, semVars, lockVars>>

\* The first free slot, or a panic.
Create(c, t, new) ==
  /\ RunsAt(c, t, "run") /\ t \notin IdleTasks
  /\ status[new] = "NEW"
  /\ trapLock = NoCpu
  /\ LET free == {i \in Slots : slot[i] = NoTask} IN
     IF free = {}
     THEN CanOverfill /\ Enter(c, "panic") /\ UNCHANGED <<slot, id, status>>
     ELSE LET i == CHOOSE i \in free : \A j \in free : i <= j IN
          /\ slot' = [slot EXCEPT ![i] = new]
          /\ id' = [id EXCEPT ![new] = i]
          /\ status' = [status EXCEPT ![new] = "READY"]
          /\ UNCHANGED phase
  /\ UNCHANGED <<suicide, curTask, stack, event, flowVars, semVars, lockVars>>

Teardown(c, t, victim) ==
  /\ CanTeardown
  /\ RunsAt(c, t, "run") /\ t \notin IdleTasks
  /\ victim \notin IdleTasks /\ slot[id[victim]] = victim /\ ~suicide[victim]
  /\ trapLock = NoCpu
  /\ suicide' = [suicide EXCEPT ![victim] = TRUE]
  /\ UNCHANGED <<slot, id, status, cpuVars, flowVars, semVars, lockVars>>

-----------------------------------------------------------------------------
(* Traps: os_trap calls kmt_context_save, the handler of the event, and     *)
(* kmt_context_switch under trap_lk, on the stack of the interrupted task.  *)

\* Interrupts need IF set.  _yield is called by sem_wait and by os_run.
Trap(c, ev) ==
  /\ phase[c] = "user" /\ ~Holds(c)
  /\ event' = [event EXCEPT ![c] = ev]
  /\ Enter(c, "t_lock")
  /\ \/ /\ ev \in {"timer", "keyboard"}
        /\ UNCHANGED pc
     \/ /\ ev = "yield"
        /\ \/ /\ stack[c] = Boot
              /\ UNCHANGED pc
           \/ /\ RunsAt(c, stack[c], "w_yield")
              /\ Goto(stack[c], "w_relock")
  /\ UNCHANGED <<taskVars, curTask, stack, sem, semVars, lockVars>>

TrapLockStep(c) ==
  /\ phase[c] = "t_lock"
  /\ trapLock = NoCpu
  /\ trapLock' = c
  /\ Enter(c, "t_save")
  /\ UNCHANGED <<taskVars, curTask, stack, event, flowVars, semVars, semLock>>

\* Mutant: the status of the interrupted task stays RUNNING.
SaveKeepsRunning(c) ==
  /\ phase[c] = "t_save"
  /\ Enter(c, IF event[c] = "keyboard" THEN "t_notify" ELSE "t_switch")
  /\ UNCHANGED <<taskVars, curTask, stack, event, flowVars, semVars, lockVars>>

\* kmt_context_save
Save(c) ==
  LET t == curTask[c] IN
  /\ phase[c] = "t_save"
  /\ IF t # NoTask /\ suicide[t]
     THEN /\ slot' = [slot EXCEPT ![id[t]] = NoTask]
          /\ curTask' = [curTask EXCEPT ![c] = NoTask]
          /\ UNCHANGED status
     ELSE /\ status' = IF t # NoTask /\ status[t] = "RUNNING"
                       THEN [status EXCEPT ![t] = "READY"] ELSE status
          /\ UNCHANGED <<slot, curTask>>
  /\ Enter(c, IF event[c] = "keyboard" THEN "t_notify" ELSE "t_switch")
  /\ UNCHANGED <<id, suicide, stack, event, flowVars, semVars, lockVars>>

\* input_notify, the handler of the keyboard: sem_signal(&sem_kbdirq).
Notify(c) ==
  /\ phase[c] = "t_notify"
  /\ semLock[KbdSem] = NoCpu
  /\ semLock' = [semLock EXCEPT ![KbdSem] = c]
  /\ Signal(KbdSem)
  /\ Enter(c, "t_notified")
  /\ UNCHANGED <<slot, id, suicide, curTask, stack, event, flowVars, trapLock>>

NotifyUnlock(c) ==
  /\ phase[c] = "t_notified"
  /\ semLock' = [semLock EXCEPT ![KbdSem] = NoCpu]
  /\ Enter(c, "t_switch")
  /\ UNCHANGED <<taskVars, curTask, stack, event, flowVars, semVars, trapLock>>

\* Mutant: any CPU takes any ready task.
EligibleAnyCpu(c, i) == slot[i] # NoTask /\ status[slot[i]] = "READY"

\* Mutant: the status of the task is not looked at.
EligibleAnyStatus(c, i) == slot[i] # NoTask /\ id[slot[i]] % NCpu = c

\* The slots CPU c may take a task from: it serves the ids congruent to it.
Eligible(c, i) ==
  /\ slot[i] # NoTask
  /\ id[slot[i]] % NCpu = c
  /\ status[slot[i]] = "READY"

\* Mutant: the scan starts at Task[0] every time.
SwitchFromZero(c) ==
  LET found == {i \in Slots : Eligible(c, i)} IN
  /\ phase[c] = "t_switch" /\ found # {}
  /\ LET ret == slot[CHOOSE i \in found : \A j \in found : i <= j] IN
     /\ curTask' = [curTask EXCEPT ![c] = ret]
     /\ status' = [status EXCEPT ![ret] = "RUNNING"]
  /\ Enter(c, "t_unlock")
  /\ UNCHANGED <<slot, id, suicide, stack, event, flowVars, semVars, lockVars>>

\* kmt_context_switch: the scan starts behind the slot of the current task (of
\* Task[0] when there is none) and goes once around; if nothing is eligible the
\* current task goes on, whatever its status.
Switch(c) ==
  LET from == IF curTask[c] = NoTask THEN slot[0] ELSE curTask[c]
      At(k) == (id[from] + k) % MaxTasks
      found == {k \in 1..(MaxTasks + 1) : Eligible(c, At(k))}
      ret == IF found = {} THEN from
             ELSE slot[At(CHOOSE k \in found : \A j \in found : k <= j)]
  IN
  /\ phase[c] = "t_switch"
  /\ IF from = NoTask
     THEN Enter(c, "panic") /\ UNCHANGED <<curTask, status>>
     ELSE /\ curTask' = [curTask EXCEPT ![c] = ret]
          /\ status' = [status EXCEPT ![ret] = "RUNNING"]
          /\ Enter(c, "t_unlock")
  /\ UNCHANGED <<slot, id, suicide, stack, event, flowVars, semVars, lockVars>>

TrapUnlock(c) ==
  /\ phase[c] = "t_unlock"
  /\ trapLock' = NoCpu
  /\ Enter(c, "t_iret")
  /\ UNCHANGED <<taskVars, curTask, stack, event, flowVars, semVars, semLock>>

\* Only now does the CPU leave the old stack.
Iret(c) ==
  /\ phase[c] = "t_iret"
  /\ stack' = [stack EXCEPT ![c] = curTask[c]]
  /\ event' = [event EXCEPT ![c] = "yield"]
  /\ Enter(c, "user")
  /\ UNCHANGED <<taskVars, curTask, flowVars, semVars, lockVars>>

-----------------------------------------------------------------------------

\* A task inside sem_wait or sem_signal goes on.
FlowStep(c) == \E t \in Tasks :
  \/ WaitTest(c, t) \/ WaitStatus(c, t) \/ WaitUnlock(c, t) \/ WaitReturn(c, t)
  \/ SignalBody(c, t) \/ SignalReturn(c, t)

\* A task calls the kernel.
CallStep(c) == \E t \in Tasks :
  \/ \E s \in Sems : CallWait(c, t, s) \/ CallSignal(c, t, s)
  \/ \E other \in Tasks : Create(c, t, other) \/ Teardown(c, t, other)

TrapStep(c) ==
  \/ TrapLockStep(c) \/ Save(c) \/ Notify(c) \/ NotifyUnlock(c)
  \/ Switch(c) \/ TrapUnlock(c) \/ Iret(c)

TrapBegin(c) ==
  \/ Trap(c, "timer") \/ Trap(c, "yield")
  \/ value[KbdSem] < MaxValue /\ Trap(c, "keyboard")

CpuStep(c) == FlowStep(c) \/ CallStep(c) \/ TrapBegin(c) \/ TrapStep(c)

Next == \E c \in Cpus : CpuStep(c)

Spec == Init /\ [][Next]_vars

\* What the hardware guarantees.  A trap handler goes on; a CPU that spins on a
\* lock which is free again and again gets it; so does a task on its way
\* through sem_wait or sem_signal, each time its CPU runs it; the timer keeps
\* ticking, and a tick that finds IF clear stays pending.
FlowGoesOn(t) ==
  \E c \in Cpus :
    \/ WaitTest(c, t) \/ WaitStatus(c, t) \/ WaitUnlock(c, t) \/ WaitReturn(c, t)
    \/ SignalBody(c, t) \/ SignalReturn(c, t)
    \/ RunsAt(c, t, "w_yield") /\ Trap(c, "yield")

Fairness ==
  /\ \A c \in Cpus : SF_vars(TrapStep(c)) /\ SF_vars(Trap(c, "timer"))
  /\ \A t \in Tasks \ IdleTasks : SF_vars(FlowGoesOn(t))

FairSpec == Spec /\ Fairness

-----------------------------------------------------------------------------
(* Properties                                                               *)

\* One stack, one CPU: no two CPUs ever execute on the stack of the same task,
\* although a trap makes the task READY, and releases trap_lk, while its CPU
\* still stands on that stack (os_trap, up to the iret).
StackSafety ==
  \A c, d \in Cpus : c # d /\ stack[c] # Boot => stack[c] # stack[d]

\* Outside traps cur_task[_cpu()] is the task that runs, so that sem_wait
\* queues itself, and the task is on one CPU's books only.
CurIsMe ==
  \A c \in Cpus :
    /\ phase[c] = "user" /\ stack[c] # Boot => curTask[c] = stack[c]
    /\ \A d \in Cpus : c # d /\ curTask[c] # NoTask => curTask[c] # curTask[d]

\* Tasks, stacks and cur_task fit together, on every CPU.
StackInv == StackSafety /\ CurIsMe

Queued(t, s) == \E i \in 1..Len(que[s]) : que[s][i] = t

\* A task waits in one queue, once, for the semaphore it named.
QueuedOnce ==
  \A s \in Sems : \A i, j \in 1..Len(que[s]) :
    /\ sem[que[s][i]] = s
    /\ que[s][i] = que[s][j] => i = j

\* No assert(0) or NULL dereference of the modelled code.
NoPanic == \A c \in Cpus : phase[c] # "panic"

\* The queues of the semaphores stay right, and short: their assertion holds.
QueueInv == QueuedOnce /\ NoPanic

\* No task comes back from the _yield of sem_wait while it is still queued:
\* the scheduler always finds something better than a sleeping task.
NoSpuriousWakeup ==
  \A c \in Cpus : \A s \in Sems :
    phase[c] = "user" /\ stack[c] # Boot /\ Queued(stack[c], s) =>
      pc[stack[c]] \in {"w_status", "w_unlock", "w_yield"}

\* Between the enqueueing in sem_wait and the next test of the value.
Looping == {"w_status", "w_unlock", "w_yield", "w_relock"}

\* The waiters a signal has taken out of the queue of s and that have not
\* tested the value again.
Woken(s) ==
  {t \in Tasks : sem[t] = s /\ ~Queued(t, s) /\ pc[t] \in Looping}

\* No wake-up is lost: as long as somebody sleeps on a semaphore, each of its
\* units is covered by a task on its way to take it, and no such task sleeps.
\* (A task that is torn down while it is woken takes its unit with it.)
NoLostWakeup ==
  (\A t \in Tasks : ~suicide[t]) => \A s \in Sems :
    /\ que[s] # << >> => value[s] <= Cardinality(Woken(s))
    /\ \A t \in Woken(s) : status[t] # "WAITING"

\* kmt_context_switch always finds a task to run ("something to schedule" is
\* what the idle tasks are for): it never falls back on the one it came from.
AlwaysEligible ==
  \A c \in Cpus : phase[c] = "t_switch" => \E i \in Slots : Eligible(c, i)

\* The task a CPU runs is the one Task[] has under its id: a slot is never
\* reused while its task is still on a CPU (create and teardown).
RunningInTable ==
  \A c \in Cpus : phase[c] = "user" /\ stack[c] # Boot => slot[id[stack[c]]] = stack[c]

\* Round robin: a ready task gets its CPU, however often others are woken.
ReadyRuns == \A t \in Tasks : status[t] = "READY" ~> status[t] = "RUNNING"

\* A unit that is there while some task is in the loop of sem_wait, asleep or
\* on its way back from it, is taken by somebody, or the loop empties.
Waiters(s) == {t \in Tasks : sem[t] = s /\ pc[t] \in Looping}

UnitsAreTaken ==
  \A s \in Sems : value[s] > 0 /\ Waiters(s) # {} ~> value[s] = 0 \/ Waiters(s) = {}
=============================================================================
