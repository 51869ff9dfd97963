--------------------------- MODULE SpinlockProofs ---------------------------
(***************************************************************************)
(* Machine-checked proofs about Spinlock, for every number of CPUs, locks  *)
(* and tasks.                                                              *)
(*                                                                         *)
(* Mutual exclusion rests on shared memory alone, whatever the interrupt   *)
(* flags do: a lock word of 0 means that nobody is inside, and only a flow *)
(* that is inside ever writes 0 into it.                                   *)
(***************************************************************************)
EXTENDS Spinlock, FiniteSetTheorems, TLAPS

\* The part of the type invariant mutual exclusion needs.
FlowTypes ==
  /\ locked \in [Locks -> {0, 1}]
  /\ flow \in [Cpus -> Flows]
  /\ pc \in [Cpus -> [Flows -> PCs]]
  /\ arg \in [Cpus -> [Flows -> Locks]]
  /\ held \in [Cpus -> [Flows -> SUBSET Locks]]

\* A lock word of 0: nobody is between the two exchanges of that lock.
ZeroMeansFree ==
  \A l \in Locks : locked[l] = 0 => \A c \in Cpus : \A f \in Flows : l \notin held[c][f]

\* Inside spin_unlock, up to the exchange, the flow holds the lock it names.
ReleasesItsOwn ==
  \A c \in Cpus : \A f \in Flows :
    pc[c][f] \in {"u_locked", "u_cpu", "u_clear", "u_xchg"} => arg[c][f] \in held[c][f]

ExclusionInv == FlowTypes /\ MutualExclusion /\ ZeroMeansFree /\ ReleasesItsOwn

LEMMA ExclusionInit == Init => ExclusionInv
<1>1. "boot" \in Flows /\ "trap" \in Flows BY DEF Flows
<1>2. "code" \in PCs BY DEF PCs
<1> QED BY <1>1, <1>2, LocksAssumption
        DEF Init, ExclusionInv, FlowTypes, MutualExclusion, InCritical, ZeroMeansFree,
            ReleasesItsOwn

InUnlock == {"u_locked", "u_cpu", "u_clear", "u_xchg"}

\* A step that touches neither a lock word nor a critical section keeps the
\* invariant, as long as it enters spin_unlock only with the lock in its hands.
LEMMA QuietStep ==
  ASSUME ExclusionInv, NEW c \in Cpus, NEW label \in PCs,
         UNCHANGED <<locked, flow, arg, held>>, Goto(c, label),
         label \in InUnlock => Lk(c) \in Held(c)
  PROVE  ExclusionInv'
<1> USE DEF ExclusionInv
<1>1. FlowTypes' BY DEF FlowTypes, Goto
<1>2. MutualExclusion' /\ ZeroMeansFree'
  BY DEF MutualExclusion, InCritical, ZeroMeansFree
<1>3. ReleasesItsOwn' BY DEF ReleasesItsOwn, FlowTypes, Goto, Lk, Held, InUnlock
<1> QED BY <1>1, <1>2, <1>3

LEMMA ExclusionStep == ExclusionInv /\ [Next]_vars => ExclusionInv'
<1> SUFFICES ASSUME ExclusionInv, [Next]_vars PROVE ExclusionInv'
  OBVIOUS
<1> USE DEF ExclusionInv, FlowTypes, MutualExclusion, InCritical, ZeroMeansFree, ReleasesItsOwn
<1>0. "boot" \in Flows /\ "trap" \in Flows /\ Tasks \subseteq Flows /\ TrapLock \in Locks
  BY LocksAssumption DEF Flows
<1> USE <1>0
<1>1. CASE UNCHANGED vars
  BY <1>1 DEF vars
<1>2. ASSUME NEW c \in Cpus, CpuStep(c) PROVE ExclusionInv'
  <2> DEFINE f == flow[c]
  <2>0. f \in Flows /\ Lk(c) \in Locks /\ Held(c) \subseteq Locks
    BY DEF Lk, Held
  <2> USE DEF At, Goto, Lk, Held, Return, lockVars, cpuVars, PCs
  <2>1. CASE \E l \in Locks : CallSpinLock(c, l)
    BY <2>1, <2>0 DEF CallSpinLock
  <2>2. CASE GetEfl(c)
    BY <2>2, <2>0 DEF GetEfl
  <2>3. CASE Cli(c)
    BY <2>3, <2>0 DEF Cli, Pushcli
  <2>4. CASE LockHolding(c)
    <3>1. \E label \in {"l_cpu", "l_xchg", "panic"} : Goto(c, label)
      BY <2>4 DEF LockHolding, ReadLocked, ReadCpu
    <3>2. UNCHANGED <<locked, flow, arg, held>>
      BY <2>4 DEF LockHolding, ReadLocked, ReadCpu
    <3> QED BY <3>1, <3>2, QuietStep DEF InUnlock
  <2>5. CASE XchgAcquire(c)
    <3>1. CASE locked[Lk(c)] = 0
      <4>1. /\ locked' = [locked EXCEPT ![Lk(c)] = 1]
            /\ held' = [held EXCEPT ![c][f] = @ \cup {Lk(c)}]
            /\ pc' = [pc EXCEPT ![c][f] = "l_set"]
            /\ UNCHANGED <<flow, arg>>
        BY <2>5, <3>1 DEF XchgAcquire
      <4>2. FlowTypes' BY <4>1, <2>0
      <4>3. \A d \in Cpus : \A g \in Flows : Lk(c) \notin held[d][g]
        BY <3>1, <2>0
      <4>4. MutualExclusion'
        <5> SUFFICES ASSUME NEW d \in Cpus, NEW e \in Cpus, NEW g \in Flows, NEW h \in Flows,
                            NEW l \in Locks, l \in held'[d][g], l \in held'[e][h]
                     PROVE  d = e /\ g = h
          OBVIOUS
        <5>1. CASE l = Lk(c) BY <4>1, <4>3, <5>1, <2>0
        <5>2. CASE l # Lk(c) BY <4>1, <5>2, <2>0
        <5> QED BY <5>1, <5>2
      <4>5. ZeroMeansFree' BY <4>1, <2>0
      <4>6. ReleasesItsOwn' BY <4>1, <2>0
      <4> QED BY <4>2, <4>4, <4>5, <4>6
    <3>2. CASE locked[Lk(c)] # 0
      BY <2>5, <2>0, <3>2 DEF XchgAcquire
    <3> QED BY <3>1, <3>2
  <2>6. CASE SetOwner(c)
    BY <2>6, <2>0 DEF SetOwner
  <2>7. CASE \E l \in Locks : CallSpinUnlock(c, l)
    BY <2>7, <2>0 DEF CallSpinUnlock
  <2>8. CASE UnlockHolding(c)
    <3>1. \E label \in {"u_cpu", "u_clear", "panic"} : Goto(c, label)
      BY <2>8 DEF UnlockHolding, ReadLocked, ReadCpu
    <3>2. UNCHANGED <<locked, flow, arg, held>>
      BY <2>8 DEF UnlockHolding, ReadLocked, ReadCpu
    <3>3. Lk(c) \in Held(c)
      BY <2>8, <2>0 DEF UnlockHolding
    <3> QED BY <3>1, <3>2, <3>3, QuietStep DEF InUnlock
  <2>9. CASE ClearOwner(c)
    BY <2>9, <2>0 DEF ClearOwner
  <2>10. CASE XchgRelease(c)
    <3>1. /\ locked' = [locked EXCEPT ![Lk(c)] = 0]
          /\ held' = [held EXCEPT ![c][f] = @ \ {Lk(c)}]
          /\ pc' = [pc EXCEPT ![c][f] = "popcli"]
          /\ UNCHANGED <<flow, arg>>
          /\ Lk(c) \in held[c][f]
      BY <2>10, <2>0 DEF XchgRelease
    <3>2. FlowTypes' BY <3>1, <2>0
    <3>3. MutualExclusion' BY <3>1, <2>0
    <3>4. ZeroMeansFree' BY <3>1, <2>0
    <3>5. ReleasesItsOwn' BY <3>1, <2>0
    <3> QED BY <3>2, <3>3, <3>4, <3>5
  <2>11. CASE UnlockPopcli(c)
    <3>1. CASE PopcliAllowed(c)
      <4>1. /\ pc' = [pc EXCEPT ![c][f] = "code"]
            /\ arg' = [arg EXCEPT ![c][f] = TrapLock]
            /\ UNCHANGED <<locked, flow, held>>
        BY <2>11, <3>1 DEF UnlockPopcli
      <4> QED BY <4>1, <2>0
    <3>2. CASE ~PopcliAllowed(c)
      <4>1. Goto(c, "panic") /\ UNCHANGED <<locked, flow, arg, held>>
        BY <2>11, <3>2 DEF UnlockPopcli
      <4> QED BY <4>1, QuietStep DEF InUnlock
    <3> QED BY <3>1, <3>2
  <2>12. CASE IntrWrite(c)
    BY <2>12, <2>0 DEF IntrWrite
  <2>13. CASE Trap(c)
    BY <2>13, <2>0 DEF Trap
  <2>14. CASE Iret(c)
    BY <2>14, <2>0 DEF Iret
  <2> QED
    BY <1>2, <2>1, <2>2, <2>3, <2>4, <2>5, <2>6, <2>7, <2>8, <2>9, <2>10, <2>11, <2>12,
       <2>13, <2>14 DEF CpuStep, LockStep
<1> QED BY <1>1, <1>2 DEF Next

\* No two flows are ever inside the critical section of the same lock.
THEOREM SpinlockExcludes == Spec => []MutualExclusion
<1>1. ExclusionInv => MutualExclusion BY DEF ExclusionInv
<1> QED BY ExclusionInit, ExclusionStep, <1>1, PTL DEF Spec

-----------------------------------------------------------------------------
(* lock.c implements the abstract lock.                                     *)

LEMMA HolderOf ==
  ASSUME ExclusionInv, NEW c \in Cpus, NEW f \in Flows, NEW l \in Locks, l \in held[c][f]
  PROVE  Holder[l] = c
<1>1. \E d \in Cpus : \E g \in Flows : InCritical(d, g, l)
  BY DEF InCritical
<1>2. \A d \in Cpus : (\E g \in Flows : InCritical(d, g, l)) => d = c
  BY DEF ExclusionInv, MutualExclusion, InCritical
<1> QED BY <1>1, <1>2 DEF Holder

LEMMA HolderOfNone ==
  ASSUME NEW l \in Locks, \A c \in Cpus : \A f \in Flows : l \notin held[c][f]
  PROVE  Holder[l] = NoCpu
BY DEF Holder, InCritical

LEMMA AbstractStep ==
  ExclusionInv /\ ExclusionInv' /\ [Next]_vars => [AL!AbsNext]_Holder
<1> SUFFICES ASSUME ExclusionInv, ExclusionInv', [Next]_vars, UNCHANGED held => Holder' = Holder
             PROVE  [AL!AbsNext]_Holder
  BY DEF Holder, InCritical
<1> USE DEF At, Goto, Lk, Held, Return, lockVars, cpuVars
<1>1. CASE UNCHANGED vars
  BY <1>1 DEF vars
<1>2. ASSUME NEW c \in Cpus, CpuStep(c), held' # held PROVE AL!AbsNext
  <2>f. PICK f \in Flows : f = flow[c] BY DEF ExclusionInv, FlowTypes
  <2>k. PICK k \in Locks : k = Lk(c) BY <2>f DEF ExclusionInv, FlowTypes
  <2>0. f = flow[c] /\ k = arg[c][f] BY <2>f, <2>k
  <2>1. XchgAcquire(c) \/ XchgRelease(c)
    BY <1>2 DEF CpuStep, LockStep, CallSpinLock, GetEfl, Cli, LockHolding, ReadLocked, ReadCpu,
       SetOwner, CallSpinUnlock, UnlockHolding, ClearOwner, UnlockPopcli, IntrWrite, Trap, Iret
  <2>2. \A l \in Locks : l # k => \A d \in Cpus : \A g \in Flows :
            l \in held'[d][g] <=> l \in held[d][g]
    <3>1. CASE XchgAcquire(c)
      <4>1. held' = [held EXCEPT ![c][f] = @ \cup {k}]
        BY <1>2, <2>0, <3>1 DEF XchgAcquire
      <4> QED BY <4>1 DEF ExclusionInv, FlowTypes
    <3>2. CASE XchgRelease(c)
      <4>1. held' = [held EXCEPT ![c][f] = @ \ {k}]
        BY <2>0, <3>2 DEF XchgRelease
      <4> QED BY <4>1 DEF ExclusionInv, FlowTypes
    <3> QED BY <2>1, <3>1, <3>2
  <2>3. \A l \in Locks : l # k => Holder'[l] = Holder[l]
    BY <2>2 DEF Holder, InCritical
  <2>h. Holder = [l \in Locks |-> Holder[l]] /\ Holder' = [l \in Locks |-> Holder'[l]]
    BY DEF Holder
  <2>4. CASE XchgAcquire(c)
    <3>1. locked[k] = 0 /\ k \in held'[c][f]
      BY <1>2, <2>4, <2>0 DEF XchgAcquire, ExclusionInv, FlowTypes
    <3>2. Holder[k] = NoCpu
      BY <3>1, <2>0, HolderOfNone DEF ExclusionInv, ZeroMeansFree
    <3>3. Holder'[k] = c
      <4>1. \E d \in Cpus : \E g \in Flows : InCritical(d, g, k)'
        BY <3>1, <2>0 DEF InCritical
      <4>2. \A d \in Cpus : (\E g \in Flows : InCritical(d, g, k)') => d = c
        BY <3>1, <2>0 DEF ExclusionInv, MutualExclusion, InCritical
      <4> QED BY <4>1, <4>2, <2>0 DEF Holder
    <3>4. Holder' = [Holder EXCEPT ![k] = c]
      BY <2>3, <3>3, <2>h
    <3>5. AL!Acquire(c, k)
      BY <3>2, <3>4 DEF AL!Acquire, AL!NoCpu, NoCpu
    <3> QED BY <3>5, <2>0 DEF AL!AbsNext
  <2>5. CASE XchgRelease(c)
    <3>1. k \in held[c][f] /\ k \notin held'[c][f]
      BY <2>5, <2>0 DEF XchgRelease, ExclusionInv, FlowTypes, ReleasesItsOwn
    <3>2. Holder[k] = c
      BY <3>1, <2>0, HolderOf
    <3>3. \A d \in Cpus : \A g \in Flows : k \notin held'[d][g]
      BY <2>5, <3>1, <2>0 DEF XchgRelease, ExclusionInv, FlowTypes, MutualExclusion, InCritical
    <3>4. Holder'[k] = NoCpu
      BY <3>3, <2>0 DEF Holder, InCritical
    <3>5. Holder' = [Holder EXCEPT ![k] = NoCpu]
      BY <2>3, <3>4, <2>h
    <3>6. AL!Release(c, k)
      BY <3>2, <3>5 DEF AL!Release, AL!NoCpu, NoCpu
    <3> QED BY <3>6, <2>0 DEF AL!AbsNext
  <2> QED BY <2>1, <2>4, <2>5
<1> QED BY <1>1, <1>2 DEF Next

\* The exchange on the lock word, whatever else spin_lock and spin_unlock do
\* around it, is one acquisition or one release of the abstract lock.
THEOREM SpinlockImplementsAbsLock == Spec => ImplementsAbsLock
<1>1. Init => AL!AbsInit
  BY DEF Init, AL!AbsInit, Holder, InCritical, NoCpu, AL!NoCpu
<1> QED BY <1>1, ExclusionInit, ExclusionStep, AbstractStep, PTL
        DEF Spec, ImplementsAbsLock, AL!AbsSpec

-----------------------------------------------------------------------------
(* The interrupt flag and the assertions of lock.c.                         *)
(*                                                                          *)
(* The count ncli[c] is the number of locks in the hands of the running     *)
(* flow, plus the pushcli calls whose lock is not taken yet, is already     *)
(* given back, or that holding() made for itself.  Everything below is      *)
(* local to one CPU but for lk->cpu, where mutual exclusion is used.        *)

Extra(label) ==
  CASE label \in {"l_locked", "l_xchg", "u_cpu", "popcli"} -> 1
    [] label = "l_cpu" -> 2
    [] OTHER -> 0

CountInv(c) ==
  /\ IsFiniteSet(Held(c))
  /\ ncli[c] = Cardinality(Held(c)) + Extra(pc[c][flow[c]])

\* What is saved and what is on, by the kind of flow the CPU runs.
FlagInv(c) ==
  /\ ncli[c] > 0 => irqOn[c] = 0
  /\ flow[c] = "trap" => irqOn[c] = 0 /\ (ncli[c] > 0 => intena[c] = 0)
                         /\ (At(c, "cli") => eflags[c]["trap"] = 0)
  /\ flow[c] \in Tasks => IF ncli[c] > 0 THEN intena[c] = 1 ELSE irqOn[c] = 1
  /\ \A t \in Tasks : pc[c][t] = "cli" /\ held[c][t] = {} => eflags[c][t] = 1

\* Which lock a flow may be asking for, by where it is.
ArgInv(c) ==
  /\ pc[c][flow[c]] \in {"get_efl", "cli", "l_locked", "l_cpu", "l_xchg"} =>
       Lk(c) \notin Held(c)
  /\ At(c, "l_set") => Lk(c) \in Held(c)

\* The flows the CPU is not running are outside pushcli and hold nothing.
SleepInv(c) ==
  /\ pc[c][flow[c]] # "panic"
  /\ \A f \in Flows :
       f # flow[c] => held[c][f] = {} /\ pc[c][f] \in {"code", "get_efl", "cli"}

\* lk->cpu names a CPU exactly while that CPU is inside, except between the
\* exchange and the assignment next to it.
OwnerInv(c) ==
  /\ \A l \in Locks :
       /\ owner[l] = c => l \in Held(c)
       /\ l \in Held(c) /\ owner[l] # c => Lk(c) = l /\ (At(c, "l_set") \/ At(c, "u_xchg"))
  /\ At(c, "u_xchg") => owner[Lk(c)] # c
  /\ At(c, "u_cpu") => seen[c] = 1

LocalInv(c) == CountInv(c) /\ FlagInv(c) /\ ArgInv(c) /\ SleepInv(c)

IrqInv == ExclusionInv /\ TypeOK /\ \A c \in Cpus : LocalInv(c) /\ OwnerInv(c)

LEMMA ExtraValues ==
  /\ Extra("l_locked") = 1 /\ Extra("l_xchg") = 1 /\ Extra("u_cpu") = 1
  /\ Extra("popcli") = 1 /\ Extra("l_cpu") = 2
  /\ \A label \in {"code", "get_efl", "cli", "l_set", "u_locked", "u_clear", "u_xchg"} :
       Extra(label) = 0
BY DEF Extra

\* What the running flow of a CPU knows, wherever it is.
LEMMA RunningFlow ==
  ASSUME IrqInv, NEW c \in Cpus
  PROVE  /\ Cardinality(Held(c)) \in Nat
         /\ Cardinality(Held(c)) = 0 <=> Held(c) = {}
         /\ pc[c][flow[c]] \in {"u_locked", "u_cpu", "u_clear", "u_xchg"} => Lk(c) \in Held(c)
         /\ flow[c] \in Flows /\ Lk(c) \in Locks /\ Held(c) \subseteq Locks
<1>1. IsFiniteSet(Held(c)) BY DEF IrqInv, LocalInv, CountInv
<1> QED BY <1>1, FS_CardinalityType, FS_EmptySet
        DEF IrqInv, ExclusionInv, FlowTypes, ReleasesItsOwn, Held, Lk

LEMMA IrqInit == Init => IrqInv
<1> SUFFICES ASSUME Init PROVE IrqInv OBVIOUS
<1>0. "boot" \in Flows /\ "trap" \in Flows /\ "code" \in PCs BY DEF Flows, PCs
<1>1. TypeOK BY <1>0, LocksAssumption DEF Init, TypeOK
<1>2. ASSUME NEW c \in Cpus PROVE LocalInv(c) /\ OwnerInv(c)
  <2>1. flow[c] = "boot" /\ pc[c] = [f \in Flows |-> "code"] /\ held[c] = [f \in Flows |-> {}]
    BY DEF Init
  <2>2. CountInv(c)
    BY <1>0, <2>1, FS_EmptySet, ExtraValues DEF CountInv, Init, Held
  <2>3. FlagInv(c)
    BY <1>0, <2>1, TasksAssumption DEF FlagInv, Init, At, Flows
  <2>4. ArgInv(c) /\ SleepInv(c)
    BY <1>0, <2>1 DEF ArgInv, SleepInv, Held, At, Lk
  <2>5. OwnerInv(c)
    BY <1>0, <2>1, CpusAssumption DEF OwnerInv, Init, Held, At, NoCpu
  <2> QED BY <2>2, <2>3, <2>4, <2>5 DEF LocalInv
<1> QED BY <1>1, <1>2, ExclusionInit DEF IrqInv

\* A step of one CPU leaves the flows and the counters of the others alone.
LEMMA OtherCpus ==
  ASSUME IrqInv, NEW c \in Cpus, CpuStep(c), NEW d \in Cpus, d # c
  PROVE  /\ irqOn'[d] = irqOn[d] /\ ncli'[d] = ncli[d] /\ intena'[d] = intena[d]
         /\ flow'[d] = flow[d] /\ pc'[d] = pc[d] /\ arg'[d] = arg[d]
         /\ eflags'[d] = eflags[d] /\ seen'[d] = seen[d] /\ held'[d] = held[d]
<1> USE DEF IrqInv, TypeOK, Goto, Return, lockVars, cpuVars, Pushcli, Popcli, ReadLocked, ReadCpu
<1>1. CASE LockStep(c)
  <2>1. CASE GetEfl(c) BY <2>1 DEF GetEfl
  <2>2. CASE Cli(c) BY <2>2 DEF Cli
  <2>3. CASE LockHolding(c) BY <2>3 DEF LockHolding
  <2>4. CASE XchgAcquire(c) BY <2>4 DEF XchgAcquire
  <2>5. CASE SetOwner(c) BY <2>5 DEF SetOwner
  <2>6. CASE UnlockHolding(c) BY <2>6 DEF UnlockHolding
  <2>7. CASE ClearOwner(c) BY <2>7 DEF ClearOwner
  <2>8. CASE XchgRelease(c) BY <2>8 DEF XchgRelease
  <2>9. CASE UnlockPopcli(c) BY <2>9 DEF UnlockPopcli
  <2> QED BY <1>1, <2>1, <2>2, <2>3, <2>4, <2>5, <2>6, <2>7, <2>8, <2>9 DEF LockStep
<1>2. CASE \E l \in Locks : CallSpinLock(c, l) \/ CallSpinUnlock(c, l)
  BY <1>2 DEF CallSpinLock, CallSpinUnlock
<1>3. CASE IntrWrite(c) \/ Trap(c) \/ Iret(c)
  BY <1>3 DEF IntrWrite, Trap, Iret
<1> QED BY <1>1, <1>2, <1>3 DEF CpuStep

LEMMA LocalOfOthers ==
  ASSUME IrqInv, NEW c \in Cpus, CpuStep(c), NEW d \in Cpus, d # c
  PROVE  LocalInv(d)'
<1>1. LocalInv(d) BY DEF IrqInv
<1> QED BY <1>1, OtherCpus DEF LocalInv, CountInv, FlagInv, ArgInv, SleepInv, At, Held, Lk

\* The same for the CPU that takes the step, action by action.
LEMMA LocalOfStepper ==
  ASSUME IrqInv, NEW c \in Cpus, CpuStep(c)
  PROVE  LocalInv(c)'
<1>f. PICK f \in Flows : f = flow[c] BY RunningFlow
<1>k. PICK k \in Locks : k = arg[c][f] BY RunningFlow, <1>f DEF Lk
<1>n. PICK n \in Nat : n = Cardinality(held[c][f]) BY RunningFlow, <1>f DEF Held
<1>1. /\ TypeOK
      /\ f = flow[c] /\ k = arg[c][f] /\ n = Cardinality(held[c][f])
      /\ n = 0 <=> held[c][f] = {}
      /\ pc[c][f] \in {"u_locked", "u_cpu", "u_clear", "u_xchg"} => k \in held[c][f]
      /\ IsFiniteSet(held[c][f]) /\ ncli[c] = n + Extra(pc[c][f])
      /\ FlagInv(c) /\ ArgInv(c) /\ SleepInv(c)
  BY <1>f, <1>k, <1>n, RunningFlow DEF IrqInv, LocalInv, CountInv, Held, Lk
<1>2. "boot" \in Flows /\ "trap" \in Flows /\ Tasks \subseteq Flows /\ TrapLock \in Locks
      /\ "boot" \notin Tasks /\ "trap" \notin Tasks
  BY LocksAssumption, TasksAssumption DEF Flows
<1> USE DEF TypeOK, At, Goto, Return, lockVars, cpuVars, Held, Lk
<1>3. ASSUME NEW l \in Locks, CallSpinLock(c, l) PROVE LocalInv(c)'
  <2>1. l \notin held[c][f]
    BY <1>1, <1>3, LocksAssumption DEF CallSpinLock
  <2>2. /\ pc' = [pc EXCEPT ![c][f] = "get_efl"] /\ arg' = [arg EXCEPT ![c][f] = l]
        /\ pc[c][f] = "code"
        /\ UNCHANGED <<cpuVars, flow, eflags, held>>
    BY <1>1, <1>3 DEF CallSpinLock
  <2>3. CountInv(c)' BY <1>1, <2>2, ExtraValues DEF CountInv
  <2>4. FlagInv(c)' BY <1>1, <1>2, <2>2 DEF FlagInv
  <2>5. ArgInv(c)' /\ SleepInv(c)' BY <1>1, <2>1, <2>2 DEF ArgInv, SleepInv
  <2> QED BY <2>3, <2>4, <2>5 DEF LocalInv
<1>4. CASE GetEfl(c)
  <2>2. /\ pc' = [pc EXCEPT ![c][f] = "cli"] /\ eflags' = [eflags EXCEPT ![c][f] = irqOn[c]]
        /\ pc[c][f] = "get_efl"
        /\ UNCHANGED <<cpuVars, flow, arg, held>>
    BY <1>1, <1>4 DEF GetEfl
  <2>3. CountInv(c)' BY <1>1, <2>2, ExtraValues DEF CountInv
  <2>4. ncli[c] = n BY <1>1, <2>2, ExtraValues
  <2>5. FlagInv(c)' BY <1>1, <1>2, <2>2, <2>4 DEF FlagInv
  <2>6. ArgInv(c)' /\ SleepInv(c)' BY <1>1, <2>2 DEF ArgInv, SleepInv
  <2> QED BY <2>3, <2>5, <2>6 DEF LocalInv
<1>5. CASE Cli(c)
  <2>2. /\ pc' = [pc EXCEPT ![c][f] = "l_locked"] /\ eflags' = [eflags EXCEPT ![c][f] = 0]
        /\ pc[c][f] = "cli"
        /\ Pushcli(c, eflags[c][f])
        /\ UNCHANGED <<flow, arg, held>>
    BY <1>1, <1>5 DEF Cli
  <2>3. ncli[c] = n /\ ncli'[c] = n + 1 /\ irqOn'[c] = 0
        /\ intena'[c] = IF n = 0 THEN eflags[c][f] ELSE intena[c]
    BY <1>1, <2>2, ExtraValues DEF Pushcli
  <2>4. CountInv(c)' BY <1>1, <2>2, <2>3, ExtraValues DEF CountInv
  <2>5. FlagInv(c)' BY <1>1, <1>2, <2>2, <2>3 DEF FlagInv
  <2>6. ArgInv(c)' /\ SleepInv(c)' BY <1>1, <2>2 DEF ArgInv, SleepInv
  <2> QED BY <2>4, <2>5, <2>6 DEF LocalInv
\* The two reads of holding(), with its pushcli and popcli.
<1>6. ASSUME NEW next \in {"l_cpu", "u_cpu"}, ReadLocked(c, next),
             (pc[c][f] = "l_locked" /\ next = "l_cpu") \/ (pc[c][f] = "u_locked" /\ next = "u_cpu")
      PROVE  LocalInv(c)'
  <2>1. ncli[c] > 0 /\ irqOn[c] = 0 /\ Extra(next) = Extra(pc[c][f]) + 1
    BY <1>1, <1>6, ExtraValues DEF FlagInv
  <2>2. /\ pc' = [pc EXCEPT ![c][f] = next]
        /\ ncli' = [ncli EXCEPT ![c] = @ + 1] /\ intena'[c] = intena[c] /\ irqOn'[c] = 0
        /\ UNCHANGED <<flow, arg, eflags, held>>
    BY <1>1, <1>6, <2>1 DEF ReadLocked, Pushcli
  <2>4. CountInv(c)' BY <1>1, <1>6, <2>1, <2>2, ExtraValues DEF CountInv
  <2>5. FlagInv(c)' BY <1>1, <1>2, <1>6, <2>1, <2>2 DEF FlagInv
  <2>6. ArgInv(c)' /\ SleepInv(c)' BY <1>1, <1>6, <2>2 DEF ArgInv, SleepInv
  <2> QED BY <2>4, <2>5, <2>6 DEF LocalInv
<1>7. ASSUME NEW next \in {"l_xchg", "u_clear"}, Popcli(c),
             (pc[c][f] = "l_cpu" /\ next = "l_xchg") \/ (pc[c][f] = "u_cpu" /\ next = "u_clear"),
             Goto(c, next), UNCHANGED <<flow, arg, eflags, held>>
      PROVE  LocalInv(c)'
  <2>1. ncli[c] > 1 /\ Extra(next) = Extra(pc[c][f]) - 1
    <3>1. CASE pc[c][f] = "l_cpu" /\ next = "l_xchg"
      BY <1>1, <3>1, ExtraValues
    <3>2. CASE pc[c][f] = "u_cpu" /\ next = "u_clear"
      <4>1. n > 0 BY <1>1, <3>2
      <4> QED BY <1>1, <3>2, <4>1, ExtraValues
    <3> QED BY <1>7, <3>1, <3>2
  <2>2. /\ pc' = [pc EXCEPT ![c][f] = next]
        /\ ncli' = [ncli EXCEPT ![c] = @ - 1] /\ intena'[c] = intena[c] /\ irqOn'[c] = irqOn[c]
        /\ ncli'[c] > 0 /\ irqOn[c] = 0
    BY <1>1, <1>7, <2>1 DEF Popcli, FlagInv
  <2>4. CountInv(c)' BY <1>1, <1>7, <2>1, <2>2, ExtraValues DEF CountInv
  <2>5. FlagInv(c)' BY <1>1, <1>2, <1>7, <2>1, <2>2 DEF FlagInv
  <2>6. ArgInv(c)' /\ SleepInv(c)' BY <1>1, <1>7, <2>2 DEF ArgInv, SleepInv
  <2> QED BY <2>4, <2>5, <2>6 DEF LocalInv
<1>8. CASE LockHolding(c)
  <2>1. CASE pc[c][f] = "l_locked"
    <3>1. ReadLocked(c, "l_cpu") BY <1>1, <1>8, <2>1 DEF LockHolding
    <3> QED BY <1>6, <2>1, <3>1
  <2>2. CASE pc[c][f] = "l_cpu"
    <3>1. ReadCpu(c, FALSE, "l_xchg") BY <1>1, <1>8, <2>2 DEF LockHolding
    <3>2. owner[k] # c BY <1>1, <2>2 DEF IrqInv, OwnerInv, ArgInv
    <3>3. PopcliAllowed(c) BY <1>1, <2>2, ExtraValues DEF PopcliAllowed, FlagInv
    <3>4. Popcli(c) /\ Goto(c, "l_xchg") /\ UNCHANGED <<flow, arg, eflags, held>>
      BY <1>1, <3>1, <3>2, <3>3 DEF ReadCpu
    <3> QED BY <1>7, <2>2, <3>4
  <2> QED BY <1>1, <1>8, <2>1, <2>2 DEF LockHolding
<1>9. CASE UnlockHolding(c)
  <2>1. CASE pc[c][f] = "u_locked"
    <3>1. ReadLocked(c, "u_cpu") BY <1>1, <1>9, <2>1 DEF UnlockHolding
    <3> QED BY <1>6, <2>1, <3>1
  <2>2. CASE pc[c][f] = "u_cpu"
    <3>1. ReadCpu(c, TRUE, "u_clear") BY <1>1, <1>9, <2>2 DEF UnlockHolding
    <3>2. owner[k] = c /\ seen[c] = 1 BY <1>1, <2>2 DEF IrqInv, OwnerInv
    <3>3. PopcliAllowed(c) BY <1>1, <2>2, ExtraValues DEF PopcliAllowed, FlagInv
    <3>4. Popcli(c) /\ Goto(c, "u_clear") /\ UNCHANGED <<flow, arg, eflags, held>>
      BY <1>1, <3>1, <3>2, <3>3 DEF ReadCpu
    <3> QED BY <1>7, <2>2, <3>4
  <2> QED BY <1>1, <1>9, <2>1, <2>2 DEF UnlockHolding
<1>10. CASE XchgAcquire(c)
  <2>1. CASE locked[k] = 0
    <3>1. /\ held' = [held EXCEPT ![c][f] = @ \cup {k}] /\ pc' = [pc EXCEPT ![c][f] = "l_set"]
          /\ pc[c][f] = "l_xchg"
          /\ UNCHANGED <<cpuVars, flow, arg, eflags>>
      BY <1>1, <1>10, <2>1 DEF XchgAcquire
    <3>2. k \notin held[c][f] BY <1>1, <3>1 DEF ArgInv
    <3>3. held'[c][f] = held[c][f] \cup {k} BY <1>1, <3>1
    <3>4. IsFiniteSet(held'[c][f]) /\ Cardinality(held'[c][f]) = n + 1
      <4>1. IsFiniteSet(held[c][f]) BY <1>1
      <4>2. IsFiniteSet(held[c][f] \cup {k})
            /\ Cardinality(held[c][f] \cup {k}) = Cardinality(held[c][f]) + 1
        BY <3>2, <4>1, FS_AddElement
      <4> QED BY <1>1, <3>3, <4>2
    <3>5. CountInv(c)' BY <1>1, <3>1, <3>4, ExtraValues DEF CountInv
    <3>6. FlagInv(c)' BY <1>1, <1>2, <3>1 DEF FlagInv
    <3>7. ArgInv(c)' /\ SleepInv(c)' BY <1>1, <3>1, <3>3 DEF ArgInv, SleepInv
    <3> QED BY <3>5, <3>6, <3>7 DEF LocalInv
  <2>2. CASE locked[k] # 0
    <3>1. UNCHANGED <<cpuVars, flow, pc, arg, eflags, held>>
      BY <1>1, <1>10, <2>2 DEF XchgAcquire
    <3> QED BY <1>1, <3>1 DEF LocalInv, CountInv, FlagInv, ArgInv, SleepInv
  <2> QED BY <2>1, <2>2
<1>11. CASE SetOwner(c)
  <2>2. /\ pc' = [pc EXCEPT ![c][f] = "code"] /\ arg' = [arg EXCEPT ![c][f] = TrapLock]
        /\ pc[c][f] = "l_set"
        /\ UNCHANGED <<cpuVars, flow, eflags, held>>
    BY <1>1, <1>11 DEF SetOwner
  <2>3. CountInv(c)' BY <1>1, <2>2, ExtraValues DEF CountInv
  <2>4. FlagInv(c)' BY <1>1, <1>2, <2>2 DEF FlagInv
  <2>5. ArgInv(c)' /\ SleepInv(c)' BY <1>1, <2>2 DEF ArgInv, SleepInv
  <2> QED BY <2>3, <2>4, <2>5 DEF LocalInv
<1>12. ASSUME NEW l \in Locks, CallSpinUnlock(c, l) PROVE LocalInv(c)'
  <2>2. /\ pc' = [pc EXCEPT ![c][f] = "u_locked"] /\ arg' = [arg EXCEPT ![c][f] = l]
        /\ pc[c][f] = "code"
        /\ UNCHANGED <<cpuVars, flow, eflags, held>>
    BY <1>1, <1>12 DEF CallSpinUnlock
  <2>3. CountInv(c)' BY <1>1, <2>2, ExtraValues DEF CountInv
  <2>4. FlagInv(c)' BY <1>1, <1>2, <2>2 DEF FlagInv
  <2>5. ArgInv(c)' /\ SleepInv(c)' BY <1>1, <2>2 DEF ArgInv, SleepInv
  <2> QED BY <2>3, <2>4, <2>5 DEF LocalInv
<1>13. CASE ClearOwner(c)
  <2>2. /\ pc' = [pc EXCEPT ![c][f] = "u_xchg"]
        /\ pc[c][f] = "u_clear"
        /\ UNCHANGED <<cpuVars, flow, arg, eflags, held>>
    BY <1>1, <1>13 DEF ClearOwner
  <2>3. CountInv(c)' BY <1>1, <2>2, ExtraValues DEF CountInv
  <2>4. FlagInv(c)' BY <1>1, <1>2, <2>2 DEF FlagInv
  <2>5. ArgInv(c)' /\ SleepInv(c)' BY <1>1, <2>2 DEF ArgInv, SleepInv
  <2> QED BY <2>3, <2>4, <2>5 DEF LocalInv
<1>14. CASE XchgRelease(c)
  <2>1. /\ held' = [held EXCEPT ![c][f] = @ \ {k}] /\ pc' = [pc EXCEPT ![c][f] = "popcli"]
        /\ pc[c][f] = "u_xchg"
        /\ UNCHANGED <<cpuVars, flow, arg, eflags>>
    BY <1>1, <1>14 DEF XchgRelease
  <2>2. k \in held[c][f] BY <1>1, <2>1
  <2>3. held'[c][f] = held[c][f] \ {k} BY <1>1, <2>1
  <2>4. IsFiniteSet(held'[c][f]) /\ Cardinality(held'[c][f]) = n - 1
    <3>1. IsFiniteSet(held[c][f]) BY <1>1
    <3>2. IsFiniteSet(held[c][f] \ {k})
          /\ Cardinality(held[c][f] \ {k}) = Cardinality(held[c][f]) - 1
      BY <2>2, <3>1, FS_RemoveElement
    <3> QED BY <1>1, <2>3, <3>2
  <2>5. CountInv(c)' BY <1>1, <2>1, <2>4, ExtraValues DEF CountInv
  <2>6. FlagInv(c)' BY <1>1, <1>2, <2>1 DEF FlagInv
  <2>7. ArgInv(c)' /\ SleepInv(c)' BY <1>1, <2>1 DEF ArgInv, SleepInv
  <2> QED BY <2>5, <2>6, <2>7 DEF LocalInv
<1>15. CASE UnlockPopcli(c)
  <2>1. ncli[c] = n + 1 /\ pc[c][f] = "popcli"
    BY <1>1, <1>15, ExtraValues DEF UnlockPopcli
  <2>2. PopcliAllowed(c) BY <1>1, <2>1 DEF PopcliAllowed, FlagInv
  <2>3. /\ pc' = [pc EXCEPT ![c][f] = "code"] /\ arg' = [arg EXCEPT ![c][f] = TrapLock]
        /\ Popcli(c) /\ UNCHANGED <<flow, eflags, held>>
    BY <1>1, <1>15, <2>2 DEF UnlockPopcli
  <2>4. /\ ncli'[c] = n /\ intena'[c] = intena[c]
        /\ irqOn'[c] = IF n = 0 /\ intena[c] = 1 THEN 1 ELSE 0
    BY <1>1, <2>1, <2>3 DEF Popcli, FlagInv
  <2>5. CountInv(c)' BY <1>1, <2>3, <2>4, ExtraValues DEF CountInv
  <2>6. FlagInv(c)' BY <1>1, <1>2, <2>1, <2>3, <2>4 DEF FlagInv
  <2>7. ArgInv(c)' /\ SleepInv(c)' BY <1>1, <2>3 DEF ArgInv, SleepInv
  <2> QED BY <2>5, <2>6, <2>7 DEF LocalInv
<1>16. CASE IntrWrite(c)
  <2>1. /\ f = "boot" /\ pc[c][f] = "code" /\ n = 0 /\ irqOn'[c] = 1
        /\ UNCHANGED <<ncli, intena, flow, pc, arg, eflags, held>>
    BY <1>1, <1>16 DEF IntrWrite
  <2>2. ncli[c] = 0 BY <1>1, <2>1, ExtraValues
  <2>3. CountInv(c)' /\ ArgInv(c)' /\ SleepInv(c)'
    BY <1>1, <2>1 DEF CountInv, ArgInv, SleepInv
  <2>4. FlagInv(c)'
    <3>1. ncli'[c] = 0 /\ irqOn'[c] = 1 /\ flow'[c] = "boot"
      BY <1>1, <2>1, <2>2
    <3>2. \A t \in Tasks : pc'[c][t] = "cli" /\ held'[c][t] = {} => eflags'[c][t] = 1
      BY <1>1, <2>1 DEF FlagInv
    <3> QED BY <1>2, <3>1, <3>2 DEF FlagInv
  <2> QED BY <2>3, <2>4 DEF LocalInv
<1>17. CASE Trap(c)
  <2>1. irqOn[c] = 1 /\ ncli[c] = 0 /\ f # "trap"
    BY <1>1, <1>17 DEF Trap, FlagInv
  <2>2. n = 0 /\ Extra(pc[c][f]) = 0
    <3>1. Extra(pc[c][f]) \in Nat BY DEF Extra
    <3> QED BY <1>1, <2>1, <3>1
  <2>3. pc[c][f] \in {"code", "get_efl", "cli"}
    BY <1>1, <2>2, ExtraValues DEF ArgInv, SleepInv, PCs
  <2>4. /\ irqOn'[c] = 0 /\ flow' = [flow EXCEPT ![c] = "trap"]
        /\ pc' = [pc EXCEPT ![c]["trap"] = "get_efl"]
        /\ arg' = [arg EXCEPT ![c]["trap"] = TrapLock]
        /\ UNCHANGED <<ncli, intena, eflags, held>>
    BY <1>1, <1>17 DEF Trap
  <2>5. held[c]["trap"] = {} /\ held[c][f] = {}
    BY <1>1, <1>2, <2>1, <2>2 DEF SleepInv
  <2>6. CountInv(c)'
    <3>1. flow'[c] = "trap" /\ pc'[c]["trap"] = "get_efl" /\ held'[c]["trap"] = {} /\ ncli'[c] = 0
      BY <1>1, <1>2, <2>1, <2>4, <2>5
    <3> QED BY <3>1, FS_EmptySet, ExtraValues DEF CountInv
  <2>7. FlagInv(c)' BY <1>1, <1>2, <2>1, <2>4 DEF FlagInv
  <2>8. ArgInv(c)' /\ SleepInv(c)'
    BY <1>1, <1>2, <2>3, <2>4, <2>5 DEF ArgInv, SleepInv
  <2> QED BY <2>6, <2>7, <2>8 DEF LocalInv
<1>18. CASE Iret(c)
  <2>1. PICK t \in Tasks : flow' = [flow EXCEPT ![c] = t]
    BY <1>18 DEF Iret
  <2>2. /\ f = "trap" /\ held[c][f] = {} /\ pc[c][f] = "code" /\ irqOn'[c] = 1
        /\ UNCHANGED <<ncli, intena, pc, arg, eflags, held>>
    BY <1>1, <1>18 DEF Iret
  <2>3. ncli[c] = 0 BY <1>1, <2>2, ExtraValues
  <2>4. held[c][t] = {} /\ pc[c][t] \in {"code", "get_efl", "cli"} /\ flow'[c] = t
    BY <1>1, <1>2, <2>1, <2>2 DEF SleepInv
  <2>5. CountInv(c)' BY <2>2, <2>3, <2>4, FS_EmptySet, ExtraValues, SMTT(30) DEF CountInv
  <2>6. FlagInv(c)' BY <1>1, <1>2, <2>2, <2>3, <2>4 DEF FlagInv
  <2>7. ArgInv(c)' /\ SleepInv(c)'
    BY <1>1, <1>2, <2>2, <2>4 DEF ArgInv, SleepInv
  <2> QED BY <2>5, <2>6, <2>7 DEF LocalInv
<1> QED
  BY <1>3, <1>4, <1>5, <1>8, <1>9, <1>10, <1>11, <1>12, <1>13, <1>14, <1>15, <1>16, <1>17, <1>18
  DEF CpuStep, LockStep

LEMMA OwnerOfOthers ==
  ASSUME IrqInv, NEW c \in Cpus, CpuStep(c), NEW d \in Cpus, d # c
  PROVE  OwnerInv(d)'
<1>1. OwnerInv(d) /\ d # NoCpu BY CpusAssumption DEF IrqInv, NoCpu
<1>2. \A l \in Locks : \/ owner'[l] = owner[l]
                       \/ l \in Held(c) /\ owner'[l] # d
  <2> USE DEF IrqInv, LocalInv, TypeOK, At, lockVars, cpuVars, ReadLocked, ReadCpu
  <2>1. CASE SetOwner(c)
    <3>1. Lk(c) \in Held(c) BY <2>1 DEF SetOwner, ArgInv
    <3>2. owner' = [owner EXCEPT ![Lk(c)] = c] BY <2>1 DEF SetOwner
    <3> QED BY <3>1, <3>2
  <2>2. CASE ClearOwner(c)
    <3>1. Lk(c) \in Held(c) BY <2>2, RunningFlow DEF ClearOwner
    <3>2. owner' = [owner EXCEPT ![Lk(c)] = NoCpu] BY <2>2 DEF ClearOwner
    <3> QED BY <1>1, <3>1, <3>2
  <2>3. CASE ~SetOwner(c) /\ ~ClearOwner(c)
    <3>1. owner' = owner
      BY <2>3 DEF CpuStep, LockStep, CallSpinLock, CallSpinUnlock, GetEfl, Cli, LockHolding,
         XchgAcquire, UnlockHolding, XchgRelease, UnlockPopcli, IntrWrite, Trap, Iret
    <3> QED BY <3>1
  <2> QED BY <2>1, <2>2, <2>3
<1>3. \A l \in Locks : l \in Held(c) => l \notin Held(d)
  BY DEF IrqInv, ExclusionInv, FlowTypes, MutualExclusion, InCritical, Held
<1>4. Held(d)' = Held(d) /\ Lk(d)' = Lk(d) /\ pc'[d][flow'[d]] = pc[d][flow[d]] /\ seen'[d] = seen[d]
  BY OtherCpus DEF Held, Lk
<1>5. Lk(d) \in Locks BY RunningFlow
<1>6. \A l \in Locks : /\ owner'[l] = d => l \in Held(d)'
                       /\ l \in Held(d)' /\ owner'[l] # d =>
                            Lk(d)' = l /\ (At(d, "l_set")' \/ At(d, "u_xchg")')
  BY <1>1, <1>2, <1>3, <1>4 DEF OwnerInv, At
<1>7. At(d, "u_xchg")' => owner'[Lk(d)'] # d
  BY <1>1, <1>2, <1>4, <1>5 DEF OwnerInv, At
<1> QED BY <1>1, <1>4, <1>6, <1>7 DEF OwnerInv, At

LEMMA OwnerOfStepper ==
  ASSUME IrqInv, NEW c \in Cpus, CpuStep(c)
  PROVE  OwnerInv(c)'
<1>f. PICK f \in Flows : f = flow[c] BY RunningFlow
<1>k. PICK k \in Locks : k = arg[c][f] BY RunningFlow, <1>f DEF Lk
<1>1. /\ TypeOK
      /\ f = flow[c] /\ k = arg[c][f]
      /\ pc[c][f] \in {"u_locked", "u_cpu", "u_clear", "u_xchg"} => k \in held[c][f]
      /\ OwnerInv(c) /\ ArgInv(c) /\ SleepInv(c) /\ c # NoCpu
  BY <1>f, <1>k, RunningFlow, CpusAssumption DEF IrqInv, LocalInv, Held, Lk, NoCpu
<1>2. "boot" \in Flows /\ "trap" \in Flows /\ Tasks \subseteq Flows
      /\ "boot" \notin Tasks /\ "trap" \notin Tasks
  BY TasksAssumption DEF Flows
<1> USE DEF TypeOK, At, Goto, Return, lockVars, cpuVars, Held, Lk
\* Steps that move the running flow but touch neither owner nor held.
<1>3. ASSUME NEW label \in PCs, Goto(c, label), UNCHANGED <<owner, flow, held>>,
             pc[c][f] \notin {"l_set", "u_xchg"}, label # "u_xchg",
             label = "u_cpu" => seen'[c] = 1
      PROVE  OwnerInv(c)'
  BY <1>1, <1>3 DEF OwnerInv
<1>4. ASSUME NEW l \in Locks, CallSpinLock(c, l) \/ CallSpinUnlock(c, l) PROVE OwnerInv(c)'
  BY <1>1, <1>3, <1>4 DEF CallSpinLock, CallSpinUnlock, PCs
<1>5. CASE GetEfl(c) BY <1>1, <1>3, <1>5 DEF GetEfl, PCs
<1>6. CASE Cli(c) BY <1>1, <1>3, <1>6 DEF Cli, PCs
<1>7. CASE LockHolding(c)
  <2>1. CASE pc[c][f] = "l_locked"
    BY <1>1, <1>3, <1>7, <2>1 DEF LockHolding, ReadLocked, PCs
  <2>2. CASE pc[c][f] = "l_cpu"
    <3>1. \E label \in {"l_xchg", "panic"} : Goto(c, label)
      BY <1>1, <1>7, <2>2 DEF LockHolding, ReadCpu
    <3>2. UNCHANGED <<owner, flow, held>>
      BY <1>1, <1>7, <2>2 DEF LockHolding, ReadCpu
    <3> QED BY <1>1, <1>3, <2>2, <3>1, <3>2 DEF PCs
  <2> QED BY <1>1, <1>7, <2>1, <2>2 DEF LockHolding
<1>8. CASE UnlockHolding(c)
  <2>1. CASE pc[c][f] = "u_locked"
    <3>1. locked[k] = 1
      BY <1>1, <2>1 DEF IrqInv, ExclusionInv, ZeroMeansFree
    <3>2. seen'[c] = 1 /\ Goto(c, "u_cpu") /\ UNCHANGED <<owner, flow, held>>
      BY <1>1, <1>8, <2>1, <3>1 DEF UnlockHolding, ReadLocked
    <3> QED BY <1>1, <1>3, <2>1, <3>2 DEF PCs
  <2>2. CASE pc[c][f] = "u_cpu"
    <3>1. \E label \in {"u_clear", "panic"} : Goto(c, label)
      BY <1>1, <1>8, <2>2 DEF UnlockHolding, ReadCpu
    <3>2. UNCHANGED <<owner, flow, held>>
      BY <1>1, <1>8, <2>2 DEF UnlockHolding, ReadCpu
    <3> QED BY <1>1, <1>3, <2>2, <3>1, <3>2 DEF PCs
  <2> QED BY <1>1, <1>8, <2>1, <2>2 DEF UnlockHolding
<1>9. CASE XchgAcquire(c)
  <2>1. CASE locked[k] = 0
    BY <1>1, <1>9, <2>1 DEF XchgAcquire, OwnerInv
  <2>2. CASE locked[k] # 0
    BY <1>1, <1>9, <2>2 DEF XchgAcquire, OwnerInv
  <2> QED BY <2>1, <2>2
<1>10. CASE SetOwner(c)
  <2>1. /\ owner' = [owner EXCEPT ![k] = c] /\ pc' = [pc EXCEPT ![c][f] = "code"]
        /\ pc[c][f] = "l_set" /\ k \in held[c][f]
        /\ UNCHANGED <<flow, held>>
    BY <1>1, <1>10 DEF SetOwner, ArgInv
  <2> QED BY <1>1, <2>1 DEF OwnerInv
<1>11. CASE ClearOwner(c)
  <2>1. /\ owner' = [owner EXCEPT ![k] = NoCpu] /\ pc' = [pc EXCEPT ![c][f] = "u_xchg"]
        /\ pc[c][f] = "u_clear" /\ UNCHANGED <<flow, held, arg>>
    BY <1>1, <1>11 DEF ClearOwner
  <2> QED BY <1>1, <2>1 DEF OwnerInv
<1>12. CASE XchgRelease(c)
  <2>1. /\ held' = [held EXCEPT ![c][f] = @ \ {k}] /\ pc' = [pc EXCEPT ![c][f] = "popcli"]
        /\ pc[c][f] = "u_xchg" /\ UNCHANGED <<flow, owner, arg>>
    BY <1>1, <1>12 DEF XchgRelease
  <2> QED BY <1>1, <2>1 DEF OwnerInv
<1>13. CASE UnlockPopcli(c)
  <2>1. \E label \in {"code", "panic"} : Goto(c, label)
    BY <1>1, <1>13 DEF UnlockPopcli
  <2>2. pc[c][f] = "popcli" /\ UNCHANGED <<owner, flow, held>>
    BY <1>1, <1>13 DEF UnlockPopcli
  <2> QED BY <1>1, <1>3, <2>1, <2>2 DEF PCs
<1>14. CASE IntrWrite(c)
  BY <1>1, <1>14 DEF IntrWrite, OwnerInv
\* A change of flow happens while neither flow holds a lock.
<1>15. ASSUME NEW t \in Flows, flow' = [flow EXCEPT ![c] = t], UNCHANGED <<owner, held>>,
              held[c][f] = {}, held[c][t] = {}, pc'[c][t] \notin {"u_cpu", "u_xchg"}
       PROVE  OwnerInv(c)'
  BY <1>1, <1>15 DEF OwnerInv
<1>16. CASE Trap(c)
  <2>1. held[c][f] = {} /\ f # "trap"
    <3>1. LocalInv(c) /\ IsFiniteSet(held[c][f]) BY <1>1 DEF IrqInv, LocalInv, CountInv
    <3>2. irqOn[c] = 1 BY <1>16 DEF Trap
    <3>3. ncli[c] = 0 /\ f # "trap" BY <1>1, <3>1, <3>2 DEF LocalInv, FlagInv
    <3>4. Extra(pc[c][f]) \in Nat BY DEF Extra
    <3>5. Cardinality(held[c][f]) = 0
      BY <1>1, <3>1, <3>3, <3>4, RunningFlow DEF LocalInv, CountInv
    <3> QED BY <3>1, <3>3, <3>5, FS_EmptySet
  <2>2. held[c]["trap"] = {} BY <1>1, <1>2, <2>1 DEF SleepInv
  <2>3. flow' = [flow EXCEPT ![c] = "trap"] /\ pc'[c]["trap"] = "get_efl"
        /\ UNCHANGED <<owner, held>>
    BY <1>1, <1>2, <1>16 DEF Trap
  <2> QED BY <1>2, <1>15, <2>1, <2>2, <2>3
<1>17. CASE Iret(c)
  <2>1. PICK t \in Tasks : flow' = [flow EXCEPT ![c] = t]
    BY <1>17 DEF Iret
  <2>2. held[c][f] = {} /\ f = "trap" /\ UNCHANGED <<owner, held, pc>>
    BY <1>1, <1>17 DEF Iret
  <2>3. held[c][t] = {} /\ pc[c][t] \notin {"u_cpu", "u_xchg"} /\ t \in Flows
    BY <1>1, <1>2, <2>2 DEF SleepInv
  <2> QED BY <1>15, <2>1, <2>2, <2>3
<1> QED
  BY <1>4, <1>5, <1>6, <1>7, <1>8, <1>9, <1>10, <1>11, <1>12, <1>13, <1>14, <1>16, <1>17
  DEF CpuStep, LockStep

\* Writing one local of one flow keeps the type of the function of all locals.
LEMMA LocalType ==
  ASSUME NEW S, NEW g \in [Cpus -> [Flows -> S]], NEW c \in Cpus, NEW f \in Flows, NEW v \in S
  PROVE  [g EXCEPT ![c][f] = v] \in [Cpus -> [Flows -> S]]
OBVIOUS

LEMMA TypeStep ==
  ASSUME IrqInv, NEW c \in Cpus, CpuStep(c)
  PROVE  TypeOK'
<1>0. "boot" \in Flows /\ "trap" \in Flows /\ Tasks \subseteq Flows /\ TrapLock \in Locks
  BY LocksAssumption DEF Flows
<1>f. PICK f \in Flows : f = flow[c] BY RunningFlow
<1>k. PICK k \in Locks : k = arg[c][f] BY RunningFlow, <1>f DEF Lk
<1>1. TypeOK /\ f = flow[c] /\ k = arg[c][f] /\ k = Lk(c) /\ held[c][f] \subseteq Locks
  BY <1>f, <1>k DEF IrqInv, TypeOK, Lk
<1> DEFINE ShapeOK == /\ locked \in [Locks -> {0, 1}] /\ owner \in [Locks -> Cpus \cup {NoCpu}]
                      /\ flow \in [Cpus -> Flows] /\ held \in [Cpus -> [Flows -> SUBSET Locks]]
                      /\ eflags \in [Cpus -> [Flows -> {0, 1}]] /\ seen \in [Cpus -> {0, 1}]
           CountOK == /\ irqOn \in [Cpus -> {0, 1}] /\ intena \in [Cpus -> {0, 1}]
                      /\ ncli \in [Cpus -> Nat]
           PlaceOK == pc \in [Cpus -> [Flows -> PCs]] /\ arg \in [Cpus -> [Flows -> Locks]]
<1>2. ShapeOK /\ CountOK /\ PlaceOK BY <1>1 DEF TypeOK
<1>3. ASSUME ShapeOK', CountOK', PlaceOK' PROVE TypeOK'
  BY <1>3 DEF TypeOK
<1> USE DEF Goto, Return, lockVars, cpuVars
<1>4. ASSUME NEW efl \in {0, 1}, Pushcli(c, efl) PROVE CountOK'
  BY <1>2, <1>4 DEF Pushcli
<1>5. ASSUME Popcli(c), pc[c][flow[c]] \in {"l_cpu", "u_cpu", "popcli"} PROVE CountOK'
  <2>1. ncli[c] - 1 \in Nat
    BY <1>1, <1>5, RunningFlow, ExtraValues DEF IrqInv, LocalInv, CountInv
  <2> QED BY <1>2, <1>5, <2>1 DEF Popcli
<1>6. ASSUME NEW label \in PCs, pc' = [pc EXCEPT ![c][flow[c]] = label],
             \/ UNCHANGED arg
             \/ \E l \in Locks : arg' = [arg EXCEPT ![c][flow[c]] = l]
      PROVE  PlaceOK'
  <2>1. pc' \in [Cpus -> [Flows -> PCs]] BY <1>1, <1>2, <1>6, LocalType
  <2>2. CASE UNCHANGED arg BY <1>2, <2>1, <2>2
  <2>3. CASE \E l \in Locks : arg' = [arg EXCEPT ![c][flow[c]] = l]
    <3>1. arg' \in [Cpus -> [Flows -> Locks]] BY <1>1, <1>2, <2>3, LocalType
    <3> QED BY <2>1, <3>1
  <2> QED BY <1>6, <2>2, <2>3
<1>7. ASSUME NEW l \in Locks, CallSpinLock(c, l) \/ CallSpinUnlock(c, l) PROVE TypeOK'
  <2>1. PlaceOK' BY <1>6, <1>7 DEF CallSpinLock, CallSpinUnlock, PCs
  <2> QED BY <1>2, <1>3, <1>7, <2>1 DEF CallSpinLock, CallSpinUnlock
<1>8. CASE GetEfl(c)
  <2>1. PlaceOK' BY <1>6, <1>8 DEF GetEfl, PCs
  <2>2. eflags' \in [Cpus -> [Flows -> {0, 1}]]
    <3>1. irqOn[c] \in {0, 1} BY <1>2
    <3> QED BY <1>1, <1>2, <1>8, <3>1, LocalType DEF GetEfl
  <2> QED BY <1>2, <1>3, <1>8, <2>1, <2>2 DEF GetEfl
<1>9. CASE Cli(c)
  <2>1. PlaceOK' BY <1>6, <1>9 DEF Cli, PCs
  <2>2. eflags' \in [Cpus -> [Flows -> {0, 1}]]
    BY <1>1, <1>2, <1>9, LocalType DEF Cli
  <2>3. CountOK'
    <3>1. eflags[c][flow[c]] \in {0, 1} BY <1>1, <1>2
    <3> QED BY <1>4, <1>9, <3>1 DEF Cli
  <2> QED BY <1>2, <1>3, <1>9, <2>1, <2>2, <2>3 DEF Cli
<1>10. ASSUME NEW label \in PCs, ReadLocked(c, label) PROVE TypeOK'
  <2>1. PlaceOK' BY <1>6, <1>10 DEF ReadLocked
  <2>2. CountOK'
    <3>1. irqOn[c] \in {0, 1} BY <1>2
    <3> QED BY <1>4, <1>10, <3>1 DEF ReadLocked
  <2>3. ShapeOK' BY <1>1, <1>2, <1>10 DEF ReadLocked
  <2> QED BY <1>3, <2>1, <2>2, <2>3
<1>11. ASSUME NEW label \in PCs, NEW b \in BOOLEAN, ReadCpu(c, b, label),
              pc[c][flow[c]] \in {"l_cpu", "u_cpu"}
       PROVE  TypeOK'
  <2>1. PlaceOK'
    <3>1. \E x \in PCs : pc' = [pc EXCEPT ![c][flow[c]] = x] BY <1>11 DEF ReadCpu, PCs
    <3> QED BY <1>6, <1>11, <3>1 DEF ReadCpu
  <2>2. CountOK' BY <1>5, <1>11 DEF ReadCpu
  <2>3. ShapeOK' BY <1>2, <1>11 DEF ReadCpu
  <2> QED BY <1>3, <2>1, <2>2, <2>3
<1>12. CASE LockHolding(c)
  BY <1>10, <1>11, <1>12 DEF LockHolding, At, PCs
<1>13. CASE UnlockHolding(c)
  BY <1>10, <1>11, <1>13 DEF UnlockHolding, At, PCs
<1>14. CASE XchgAcquire(c)
  <2>1. CASE locked[Lk(c)] = 0
    <3>1. PlaceOK' BY <1>6, <1>14, <2>1 DEF XchgAcquire, PCs
    <3>2. held' = [held EXCEPT ![c][f] = held[c][f] \cup {k}]
      BY <1>1, <1>14, <2>1 DEF XchgAcquire
    <3>3. held' \in [Cpus -> [Flows -> SUBSET Locks]]
      BY <1>1, <1>2, <3>2, LocalType
    <3> QED BY <1>1, <1>2, <1>3, <1>14, <3>1, <3>3 DEF XchgAcquire
  <2>2. CASE locked[Lk(c)] # 0
    BY <1>1, <1>2, <1>3, <1>14, <2>2 DEF XchgAcquire
  <2> QED BY <2>1, <2>2
<1>15. CASE SetOwner(c)
  <2>1. PlaceOK' BY <1>0, <1>6, <1>15 DEF SetOwner, PCs
  <2> QED BY <1>1, <1>2, <1>3, <1>15, <2>1 DEF SetOwner
<1>16. CASE ClearOwner(c)
  <2>1. PlaceOK' BY <1>6, <1>16 DEF ClearOwner, PCs
  <2> QED BY <1>1, <1>2, <1>3, <1>16, <2>1 DEF ClearOwner
<1>17. CASE XchgRelease(c)
  <2>1. PlaceOK' BY <1>6, <1>17 DEF XchgRelease, PCs
  <2>2. held' = [held EXCEPT ![c][f] = held[c][f] \ {k}]
    BY <1>1, <1>17 DEF XchgRelease
  <2>3. held' \in [Cpus -> [Flows -> SUBSET Locks]]
    BY <1>1, <1>2, <2>2, LocalType
  <2> QED BY <1>1, <1>2, <1>3, <1>17, <2>1, <2>3 DEF XchgRelease
<1>18. CASE UnlockPopcli(c)
  <2>1. PlaceOK'
    <3>1. CASE PopcliAllowed(c) BY <1>0, <1>6, <1>18, <3>1 DEF UnlockPopcli, PCs
    <3>2. CASE ~PopcliAllowed(c) BY <1>6, <1>18, <3>2 DEF UnlockPopcli, PCs
    <3> QED BY <3>1, <3>2
  <2>2. CountOK' BY <1>5, <1>18 DEF UnlockPopcli, At
  <2> QED BY <1>2, <1>3, <1>18, <2>1, <2>2 DEF UnlockPopcli
<1>19. CASE IntrWrite(c)
  BY <1>2, <1>3, <1>19 DEF IntrWrite
<1>20. CASE Trap(c)
  <2>1. PlaceOK' BY <1>0, <1>2, <1>20, LocalType DEF Trap, PCs
  <2> QED BY <1>0, <1>2, <1>3, <1>20, <2>1 DEF Trap
<1>21. CASE Iret(c)
  BY <1>0, <1>2, <1>3, <1>21 DEF Iret
<1> QED
  BY <1>7, <1>8, <1>9, <1>12, <1>13, <1>14, <1>15, <1>16, <1>17, <1>18, <1>19, <1>20, <1>21
  DEF CpuStep, LockStep

LEMMA IrqStep == IrqInv /\ [Next]_vars => IrqInv'
<1> SUFFICES ASSUME IrqInv, [Next]_vars PROVE IrqInv'
  OBVIOUS
<1>1. ExclusionInv' BY ExclusionStep DEF IrqInv
<1>2. CASE UNCHANGED vars
  <2>1. UNCHANGED <<locked, owner, irqOn, ncli, intena, flow, pc, arg, eflags, seen, held>>
    BY <1>2 DEF vars
  <2>2. TypeOK' BY <2>1 DEF IrqInv, TypeOK
  <2>3. ASSUME NEW c \in Cpus PROVE LocalInv(c)' /\ OwnerInv(c)'
    BY <2>1 DEF IrqInv, LocalInv, CountInv, FlagInv, ArgInv, SleepInv, OwnerInv, At, Held, Lk
  <2> QED BY <1>1, <2>2, <2>3 DEF IrqInv
<1>3. ASSUME NEW c \in Cpus, CpuStep(c) PROVE IrqInv'
  <2>1. TypeOK' BY <1>3, TypeStep
  <2>2. ASSUME NEW d \in Cpus PROVE LocalInv(d)' /\ OwnerInv(d)'
    BY <1>3, <2>2, LocalOfOthers, LocalOfStepper, OwnerOfOthers, OwnerOfStepper
  <2> QED BY <1>1, <2>1, <2>2 DEF IrqInv
<1> QED BY <1>2, <1>3 DEF Next

THEOREM SpinlockInvariant == Spec => []IrqInv
BY IrqInit, IrqStep, PTL DEF Spec

\* The types of the lock words, the nesting counts (never negative) and the
\* program counters.
THEOREM SpinlockTypes == Spec => []TypeOK
<1>1. IrqInv => TypeOK BY DEF IrqInv
<1> QED BY SpinlockInvariant, <1>1, PTL

\* None of the assert(0) of lock.c ever fires, for any number of CPUs and for
\* any nesting of locks taken in a fixed order.
THEOREM SpinlockNeverPanics == Spec => []NoPanic
<1>1. IrqInv => NoPanic BY DEF IrqInv, LocalInv, SleepInv, NoPanic
<1> QED BY SpinlockInvariant, <1>1, PTL

\* No flow is switched out while it holds a spin lock or is inside pushcli.
THEOREM SpinlockNoPreemption == Spec => []NoPreemptionInside
<1>1. IrqInv => NoPreemptionInside
  BY DEF IrqInv, LocalInv, SleepInv, NoPreemptionInside
<1> QED BY SpinlockInvariant, <1>1, PTL

\* Interrupts are off inside critical sections and trap handlers, and on again
\* when a task has left its last critical section.
THEOREM SpinlockRestoresInterrupts == Spec => []InterruptFlag
<1>1. ASSUME IrqInv, NEW c \in Cpus, flow[c] \in Tasks, At(c, "code"), Held(c) = {}
      PROVE  irqOn[c] = 1
  <2>1. ncli[c] = 0
    BY <1>1, FS_EmptySet, ExtraValues DEF IrqInv, LocalInv, CountInv, At
  <2> QED BY <1>1, <2>1 DEF IrqInv, LocalInv, FlagInv
<1>2. IrqInv => InterruptFlag
  BY <1>1 DEF IrqInv, LocalInv, FlagInv, InterruptFlag
<1> QED BY SpinlockInvariant, <1>2, PTL
=============================================================================
