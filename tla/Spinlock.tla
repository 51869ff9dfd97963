------------------------------ MODULE Spinlock ------------------------------
(***************************************************************************)
(* The spin lock of kernel/src/lock.c, one shared-memory access per step,  *)
(* together with what makes it delicate: every CPU runs several flows of   *)
(* control (the boot flow, the tasks pinned to it, the trap handler), an   *)
(* interrupt may strike between any two instructions while the CPU's IF    *)
(* flag is set, and pushcli/popcli keep ONE nesting count and ONE saved    *)
(* flag per CPU for all of them.                                           *)
(*                                                                         *)
(* The callers of the lock are the rest of the kernel.  They take locks in *)
(* a fixed order (trap_lk, a semaphore's lock or vfs_lk, alloc_lk,         *)
(* print_lk), which the numbers in Locks stand for, give them back in the  *)
(* opposite order, and never yield while they hold one.                    *)
(***************************************************************************)
EXTENDS Integers

CONSTANTS Cpus,      \* the CPU numbers
          Locks,     \* the locks, numbered in the order they are nested
          TrapLock,  \* trap_lk, which os_trap takes first
          Tasks      \* the task flows that live on each CPU

ASSUME CpusAssumption == Cpus \subseteq Nat
ASSUME LocksAssumption == Locks \subseteq Nat /\ TrapLock \in Locks
ASSUME TasksAssumption == Tasks # {} /\ "boot" \notin Tasks /\ "trap" \notin Tasks

NoCpu == -1
Flows == Tasks \cup {"boot", "trap"}

VARIABLES
  locked,    \* locked[l]: lk->locked
  owner,     \* owner[l]: lk->cpu
  irqOn,     \* irqOn[c]: the IF flag of CPU c (0 or 1)
  ncli,      \* ncli[c]: depth of pushcli on CPU c
  intena,    \* intena[c]: IF before the outermost pushcli of CPU c
  flow,      \* flow[c]: the flow CPU c is executing
  pc,        \* pc[c][f]: where flow f of CPU c is
  arg,       \* arg[c][f]: the lock passed to spin_lock or spin_unlock
  eflags,    \* eflags[c][f]: the local of pushcli, read before cli()
  seen,      \* seen[c]: lk->locked as holding() read it
  held       \* held[c][f]: the locks f took by _atomic_xchg, not yet released

lockVars == <<locked, owner>>
cpuVars  == <<irqOn, ncli, intena>>
vars == <<locked, owner, irqOn, ncli, intena, flow, pc, arg, eflags, seen, held>>

PCs == {"code",                                       \* outside lock.c
        "get_efl", "cli", "l_locked", "l_cpu", "l_xchg", "l_set",  \* spin_lock
        "u_locked", "u_cpu", "u_clear", "u_xchg", "popcli",        \* spin_unlock
        "panic"}                                      \* an assert(0) fired

TypeOK ==
  /\ locked \in [Locks -> {0, 1}]
  /\ owner \in [Locks -> Cpus \cup {NoCpu}]
  /\ irqOn \in [Cpus -> {0, 1}]
  /\ ncli \in [Cpus -> Nat]
  /\ intena \in [Cpus -> {0, 1}]
  /\ flow \in [Cpus -> Flows]
  /\ pc \in [Cpus -> [Flows -> PCs]]
  /\ arg \in [Cpus -> [Flows -> Locks]]
  /\ eflags \in [Cpus -> [Flows -> {0, 1}]]
  /\ seen \in [Cpus -> {0, 1}]
  /\ held \in [Cpus -> [Flows -> SUBSET Locks]]

\* After spin_init of every lock, each CPU still in os_init or os_run before
\* _intr_write(1): interrupts are off although no pushcli was done.
Init ==
  /\ locked = [l \in Locks |-> 0]
  /\ owner = [l \in Locks |-> NoCpu]
  /\ irqOn = [c \in Cpus |-> 0]
  /\ ncli = [c \in Cpus |-> 0]
  /\ intena = [c \in Cpus |-> 0]
  /\ flow = [c \in Cpus |-> "boot"]
  /\ pc = [c \in Cpus |-> [f \in Flows |-> "code"]]
  /\ arg = [c \in Cpus |-> [f \in Flows |-> TrapLock]]
  /\ eflags = [c \in Cpus |-> [f \in Flows |-> 0]]
  /\ seen = [c \in Cpus |-> 0]
  /\ held = [c \in Cpus |-> [f \in Flows |-> {}]]

At(c, label) == pc[c][flow[c]] = label
Goto(c, label) == pc' = [pc EXCEPT ![c][flow[c]] = label]
Lk(c) == arg[c][flow[c]]
Held(c) == held[c][flow[c]]

\* The parameter of a call that returns is dead.
Return(c) == /\ Goto(c, "code")
             /\ arg' = [arg EXCEPT ![c][flow[c]] = TrapLock]

-----------------------------------------------------------------------------
(* pushcli and popcli after the interrupt flag was read and cleared: from   *)
(* there on only this CPU touches its counters.                             *)

\* Mutant: the count is set instead of incremented.
PushcliNoNesting(c, efl) ==
  /\ irqOn' = [irqOn EXCEPT ![c] = 0]
  /\ intena' = IF ncli[c] = 0 THEN [intena EXCEPT ![c] = efl] ELSE intena
  /\ ncli' = [ncli EXCEPT ![c] = 1]

\* Mutant: the flag is saved at every level, not only at the outermost one.
PushcliSavesAlways(c, efl) ==
  /\ irqOn' = [irqOn EXCEPT ![c] = 0]
  /\ intena' = [intena EXCEPT ![c] = efl]
  /\ ncli' = [ncli EXCEPT ![c] = @ + 1]

Pushcli(c, efl) ==
  /\ irqOn' = [irqOn EXCEPT ![c] = 0]
  /\ intena' = IF ncli[c] = 0 THEN [intena EXCEPT ![c] = efl] ELSE intena
  /\ ncli' = [ncli EXCEPT ![c] = @ + 1]

\* popcli asserts that interrupts are off and that the count stays >= 0.
PopcliAllowed(c) == irqOn[c] = 0 /\ ncli[c] - 1 >= 0

\* Mutant: sti() without the test that the outermost level is left.
PopcliEager(c) ==
  /\ ncli' = [ncli EXCEPT ![c] = @ - 1]
  /\ irqOn' = [irqOn EXCEPT ![c] = IF intena[c] = 1 THEN 1 ELSE @]
  /\ UNCHANGED intena

Popcli(c) ==
  /\ ncli' = [ncli EXCEPT ![c] = @ - 1]
  /\ irqOn' = [irqOn EXCEPT ![c] = IF ncli[c] - 1 = 0 /\ intena[c] = 1 THEN 1 ELSE @]
  /\ UNCHANGED intena

\* The first read of holding(), behind its own pushcli.
ReadLocked(c, next) ==
  /\ Pushcli(c, irqOn[c])
  /\ seen' = [seen EXCEPT ![c] = locked[Lk(c)]]
  /\ Goto(c, next)
  /\ UNCHANGED <<lockVars, flow, arg, eflags, held>>

\* The second read of holding(), its popcli, and the caller's assertion:
\* "expected" is the answer the caller goes on with.
ReadCpu(c, expected, next) ==
  /\ Popcli(c)
  /\ LET r == seen[c] = 1 /\ owner[Lk(c)] = c
     IN  Goto(c, IF PopcliAllowed(c) /\ (r <=> expected) THEN next ELSE "panic")
  /\ seen' = [seen EXCEPT ![c] = 0]
  /\ UNCHANGED <<lockVars, flow, arg, eflags, held>>

-----------------------------------------------------------------------------
(* spin_lock                                                                *)

\* Mutant: a caller that takes locks in any order.
CallSpinLockAnyOrder(c, l) ==
  /\ At(c, "code")
  /\ l \notin Held(c)
  /\ flow[c] = "trap" => Held(c) # {}
  /\ arg' = [arg EXCEPT ![c][flow[c]] = l]
  /\ Goto(c, "get_efl")
  /\ UNCHANGED <<lockVars, cpuVars, flow, eflags, seen, held>>

\* A caller calls spin_lock on a lock later in the order than all it holds.
CallSpinLock(c, l) ==
  /\ At(c, "code")
  /\ \A h \in Held(c) : h < l
  /\ flow[c] = "trap" => Held(c) # {}
  /\ arg' = [arg EXCEPT ![c][flow[c]] = l]
  /\ Goto(c, "get_efl")
  /\ UNCHANGED <<lockVars, cpuVars, flow, eflags, seen, held>>

GetEfl(c) ==
  /\ At(c, "get_efl")
  /\ eflags' = [eflags EXCEPT ![c][flow[c]] = irqOn[c]]
  /\ Goto(c, "cli")
  /\ UNCHANGED <<lockVars, cpuVars, flow, arg, seen, held>>

Cli(c) ==
  /\ At(c, "cli")
  /\ Pushcli(c, eflags[c][flow[c]])
  /\ eflags' = [eflags EXCEPT ![c][flow[c]] = 0]
  /\ Goto(c, "l_locked")
  /\ UNCHANGED <<lockVars, flow, arg, seen, held>>

LockHolding(c) ==
  \/ At(c, "l_locked") /\ ReadLocked(c, "l_cpu")
  \/ At(c, "l_cpu") /\ ReadCpu(c, FALSE, "l_xchg")

\* Mutant: the old value that xchg returns is not tested.
XchgAcquireBlind(c) ==
  /\ At(c, "l_xchg")
  /\ locked' = [locked EXCEPT ![Lk(c)] = 1]
  /\ held' = [held EXCEPT ![c][flow[c]] = @ \cup {Lk(c)}]
  /\ Goto(c, "l_set")
  /\ UNCHANGED <<owner, cpuVars, flow, arg, eflags, seen>>

\* One round of while(_atomic_xchg(&lk->locked, 1)).
XchgAcquire(c) ==
  /\ At(c, "l_xchg")
  /\ locked' = [locked EXCEPT ![Lk(c)] = 1]
  /\ IF locked[Lk(c)] = 0
     THEN /\ held' = [held EXCEPT ![c][flow[c]] = @ \cup {Lk(c)}]
          /\ Goto(c, "l_set")
     ELSE UNCHANGED <<held, pc>>
  /\ UNCHANGED <<owner, cpuVars, flow, arg, eflags, seen>>

SetOwner(c) ==
  /\ At(c, "l_set")
  /\ owner' = [owner EXCEPT ![Lk(c)] = c]
  /\ Return(c)
  /\ UNCHANGED <<locked, cpuVars, flow, eflags, seen, held>>

-----------------------------------------------------------------------------
(* spin_unlock                                                              *)

CallSpinUnlock(c, l) ==
  /\ At(c, "code")
  /\ l \in Held(c)
  /\ \A h \in Held(c) : h <= l
  /\ arg' = [arg EXCEPT ![c][flow[c]] = l]
  /\ Goto(c, "u_locked")
  /\ UNCHANGED <<lockVars, cpuVars, flow, eflags, seen, held>>

UnlockHolding(c) ==
  \/ At(c, "u_locked") /\ ReadLocked(c, "u_cpu")
  \/ At(c, "u_cpu") /\ ReadCpu(c, TRUE, "u_clear")

\* Mutant: spin_unlock forgets lk->cpu = -1.
ClearOwnerForgotten(c) ==
  /\ At(c, "u_clear")
  /\ Goto(c, "u_xchg")
  /\ UNCHANGED <<lockVars, cpuVars, flow, arg, eflags, seen, held>>

ClearOwner(c) ==
  /\ At(c, "u_clear")
  /\ owner' = [owner EXCEPT ![Lk(c)] = NoCpu]
  /\ Goto(c, "u_xchg")
  /\ UNCHANGED <<locked, cpuVars, flow, arg, eflags, seen, held>>

\* Mutant: leaving an inner critical section opens the outer locks as well.
XchgReleaseAll(c) ==
  /\ At(c, "u_xchg")
  /\ locked' = [l \in Locks |-> IF l \in Held(c) THEN 0 ELSE locked[l]]
  /\ held' = [held EXCEPT ![c][flow[c]] = @ \ {Lk(c)}]
  /\ Goto(c, "popcli")
  /\ UNCHANGED <<owner, cpuVars, flow, arg, eflags, seen>>

XchgRelease(c) ==
  /\ At(c, "u_xchg")
  /\ locked' = [locked EXCEPT ![Lk(c)] = 0]
  /\ held' = [held EXCEPT ![c][flow[c]] = @ \ {Lk(c)}]
  /\ Goto(c, "popcli")
  /\ UNCHANGED <<owner, cpuVars, flow, arg, eflags, seen>>

UnlockPopcli(c) ==
  /\ At(c, "popcli")
  /\ Popcli(c)
  /\ IF PopcliAllowed(c) THEN Return(c) ELSE Goto(c, "panic") /\ UNCHANGED arg
  /\ UNCHANGED <<lockVars, flow, eflags, seen, held>>

-----------------------------------------------------------------------------
(* The flows of a CPU                                                       *)

\* os_run turns interrupts on once, outside every critical section.
IntrWrite(c) ==
  /\ flow[c] = "boot" /\ At(c, "code") /\ Held(c) = {}
  /\ irqOn' = [irqOn EXCEPT ![c] = 1]
  /\ UNCHANGED <<lockVars, ncli, intena, flow, pc, arg, eflags, seen, held>>

\* An interrupt, or a _yield of a flow that holds nothing: the hardware clears
\* IF and os_trap starts with spin_lock(&trap_lk).
Trap(c) ==
  /\ irqOn[c] = 1
  /\ pc[c][flow[c]] # "panic"
  /\ irqOn' = [irqOn EXCEPT ![c] = 0]
  /\ flow' = [flow EXCEPT ![c] = "trap"]
  /\ pc' = [pc EXCEPT ![c]["trap"] = "get_efl"]
  /\ arg' = [arg EXCEPT ![c]["trap"] = TrapLock]
  /\ UNCHANGED <<lockVars, ncli, intena, eflags, seen, held>>

\* os_trap has released trap_lk: iret resumes the flow that
\* kmt_context_switch chose.  Every saved context has IF set.
Iret(c) ==
  /\ flow[c] = "trap" /\ At(c, "code") /\ Held(c) = {}
  /\ \E t \in Tasks : flow' = [flow EXCEPT ![c] = t]
  /\ irqOn' = [irqOn EXCEPT ![c] = 1]
  /\ UNCHANGED <<lockVars, ncli, intena, pc, arg, eflags, seen, held>>

\* The steps of lock.c itself, in the flow CPU c is executing.
LockStep(c) ==
  \/ GetEfl(c) \/ Cli(c) \/ LockHolding(c) \/ XchgAcquire(c) \/ SetOwner(c)
  \/ UnlockHolding(c) \/ ClearOwner(c) \/ XchgRelease(c) \/ UnlockPopcli(c)

CpuStep(c) ==
  \/ LockStep(c)
  \/ \E l \in Locks : CallSpinLock(c, l) \/ CallSpinUnlock(c, l)
  \/ IntrWrite(c) \/ Trap(c) \/ Iret(c)

Next == \E c \in Cpus : CpuStep(c)

Spec == Init /\ [][Next]_vars

\* A CPU keeps executing lock.c, and a critical section ends: it may use inner
\* locks, but only so often (strong fairness: the inner ones must not keep the
\* outer one for ever).  Nothing obliges a caller to take a lock or the timer
\* to tick.
Fairness == \A c \in Cpus :
  /\ WF_vars(LockStep(c))
  /\ \A l \in Locks : SF_vars(CallSpinUnlock(c, l))

FairSpec == Spec /\ Fairness

-----------------------------------------------------------------------------
(* Properties                                                               *)

\* The flow of CPU c is between a successful _atomic_xchg(&lk->locked, 1) and
\* the matching _atomic_xchg(&lk->locked, 0).
InCritical(c, f, l) == l \in held[c][f]

\* Mutual exclusion (spin_lock/spin_unlock): no two flows, of two CPUs or of
\* one, are inside the critical section of the same lock.
MutualExclusion ==
  \A c, d \in Cpus : \A f, g \in Flows : \A l \in Locks :
    InCritical(c, f, l) /\ InCritical(d, g, l) => c = d /\ f = g

\* None of the assert(0) of lock.c fires: popcli never runs with interrupts on
\* or too often, spin_lock never finds the lock held by its own CPU, and
\* spin_unlock always recognises its own CPU as the holder.
NoPanic == \A c \in Cpus : \A f \in Flows : pc[c][f] # "panic"

\* A flow that is not running holds no lock and is not inside pushcli: nobody
\* is switched out with a spin lock in its hands, although the saved flag and
\* the count are shared by all the flows of the CPU.
NoPreemptionInside ==
  \A c \in Cpus : \A f \in Flows :
    f # flow[c] => held[c][f] = {} /\ pc[c][f] \in {"code", "get_efl", "cli"}

\* The interrupt flag is what the running flow had before its outermost
\* spin_lock: off as long as any lock is held, never on inside a trap handler,
\* and on again once a task has left its last critical section.
InterruptFlag ==
  \A c \in Cpus :
    /\ ncli[c] > 0 => irqOn[c] = 0
    /\ flow[c] = "trap" => irqOn[c] = 0
    /\ flow[c] \in Tasks /\ At(c, "code") /\ Held(c) = {} => irqOn[c] = 1

\* The CPU inside the critical section of each lock.
Holder ==
  [l \in Locks |-> IF \E c \in Cpus : \E f \in Flows : InCritical(c, f, l)
                   THEN CHOOSE c \in Cpus : \E f \in Flows : InCritical(c, f, l)
                   ELSE NoCpu]

\* lock.c implements the abstract lock: a lock changes hands only through a
\* release, and only its holder releases it.
AL == INSTANCE AbsLock WITH holder <- Holder
ImplementsAbsLock == AL!AbsSpec

\* As long as CPUs spin on a lock, somebody gets it again and again: the
\* nested critical sections never wait for each other in a circle.
Spinning(l) == \E c \in Cpus : At(c, "l_xchg") /\ Lk(c) = l
SomebodyEnters == \A l \in Locks :
  []<>(~Spinning(l)) \/ []<>(\E c \in Cpus : At(c, "l_set") /\ Lk(c) = l)
=============================================================================
