----------------------------- MODULE MCSpinlock -----------------------------
(* Instances of Spinlock.  LiveSpec starts where CPU 0 is in its boot flow   *)
(* and every other CPU has left it by a first trap and runs a task (reachable *)
(* states of Spec): boot phases on all CPUs at once only multiply the states. *)
EXTENDS Spinlock

LiveInit ==
  /\ locked = [l \in Locks |-> 0]
  /\ owner = [l \in Locks |-> NoCpu]
  /\ irqOn = [c \in Cpus |-> IF c = 0 THEN 0 ELSE 1]
  /\ ncli = [c \in Cpus |-> 0]
  /\ intena = [c \in Cpus |-> 0]
  /\ flow \in {f \in [Cpus -> Tasks \cup {"boot"}] : \A c \in Cpus : f[c] = "boot" <=> c = 0}
  /\ pc = [c \in Cpus |-> [f \in Flows |-> "code"]]
  /\ arg = [c \in Cpus |-> [f \in Flows |-> TrapLock]]
  /\ eflags = [c \in Cpus |-> [f \in Flows |-> 0]]
  /\ seen = [c \in Cpus |-> 0]
  /\ held = [c \in Cpus |-> [f \in Flows |-> {}]]

LiveSpec == LiveInit /\ [][Next]_vars /\ Fairness
=============================================================================
