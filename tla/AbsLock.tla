------------------------------ MODULE AbsLock ------------------------------
(***************************************************************************)
(* What the spin locks of kernel/src/lock.c promise to the rest of the     *)
(* kernel: each lock has at most one holder at a time, a lock is given     *)
(* only to a CPU while nobody holds it, and only its holder gives it back. *)
(***************************************************************************)
EXTENDS Integers

CONSTANTS Cpus,    \* the CPU numbers _cpu() returns
          Locks    \* the spinlock_t objects

NoCpu == -1        \* the value of lk->cpu while the lock is free

VARIABLE holder    \* holder[l]: the CPU in the critical section of l

AbsInit == holder = [l \in Locks |-> NoCpu]

Acquire(c, l) == /\ holder[l] = NoCpu
                 /\ holder' = [holder EXCEPT ![l] = c]

Release(c, l) == /\ holder[l] = c
                 /\ holder' = [holder EXCEPT ![l] = NoCpu]

AbsNext == \E c \in Cpus, l \in Locks : Acquire(c, l) \/ Release(c, l)

AbsSpec == AbsInit /\ [][AbsNext]_holder
=============================================================================
