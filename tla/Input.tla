------------------------------- MODULE Input -------------------------------
(***************************************************************************)
(* input.c: the keyboard's interrupt wakes input_task, which turns codes   *)
(* into events in a ring that it shares with the reader of the device.     *)
(* Semaphores are counters here (module Kmt has what is behind them), and  *)
(* what the spin lock of the ring protects is one step.                    *)
(***************************************************************************)
EXTENDS Integers, Sequences

CONSTANTS NEvents,   \* NEVENTS
          Chars,     \* the keys of keymap
          MaxKeys,   \* bound on the codes the keyboard sends
          Codes      \* Codes[n]: what the n-th of them may be

Modifiers == {"LCTRL", "RCTRL", "LALT", "RALT", "LSHIFT", "RSHIFT"}
Code == [key : Chars \cup Modifiers, down : BOOLEAN]   \* a key, and whether it went down
Nul == "nul"

ASSUME InputAssumption ==
  /\ NEvents \in Nat \ {0, 1} /\ MaxKeys \in Nat
  /\ Codes \in [1..MaxKeys -> SUBSET Code]

NoEvent == [ctrl |-> 0, alt |-> 0, data |-> "none"]

VARIABLES
  keys,       \* the codes in the keyboard
  typed,      \* how many there were
  irqs,       \* interrupts that were not handled yet
  sem_kbdirq, event_sem,
  held,       \* the modifiers that are down: ctrl_down, alt_down and shift_down
  ring,       \* [events, front, rear]
  input,      \* input_task: [at, event]
  mode        \* "run" or "panic"
inputVars == <<keys, typed, irqs, sem_kbdirq, event_sem, held, ring, input, mode>>

InputInit ==
  /\ keys = <<>> /\ typed = 0 /\ irqs = 0
  /\ sem_kbdirq = 0 /\ event_sem = 0 /\ held = {}
  /\ ring = [events |-> [i \in 0..(NEvents - 1) |-> NoEvent], front |-> 0, rear |-> 0]
  /\ input = [at |-> "poll", event |-> NoEvent]
  /\ mode = "run"

Waiting == (ring.rear - ring.front) % NEvents

\* A key goes down or up, and the keyboard raises an interrupt.
Type ==
  /\ mode = "run" /\ typed < MaxKeys
  /\ \E code \in Codes[typed + 1] : keys' = Append(keys, code)
  /\ typed' = typed + 1 /\ irqs' = irqs + 1
  /\ UNCHANGED <<sem_kbdirq, event_sem, held, ring, input, mode>>

\* input_notify
Notify ==
  /\ mode = "run" /\ irqs > 0
  /\ irqs' = irqs - 1 /\ sem_kbdirq' = sem_kbdirq + 1
  /\ UNCHANGED <<keys, typed, event_sem, held, ring, input, mode>>

Down(modifiers) == held \cap modifiers # {}

\* keymap_shift: which letter shift and caps lock choose is left out, but that
\* keymap_shift has nothing for Return is not.
Shifted(key) == IF key = "LF" THEN Nul ELSE key

\* input_keydown: shift is for keys without ctrl and alt.
EventOf(key) ==
  LET ctrl == Down({"LCTRL", "RCTRL"})
      alt  == Down({"LALT", "RALT"}) IN
  [ctrl |-> IF ctrl THEN 1 ELSE 0, alt |-> IF alt THEN 1 ELSE 0,
   data |-> IF ~ctrl /\ ~alt /\ Down({"LSHIFT", "RSHIFT"}) THEN Shifted(key) ELSE key]

\* read_key and input_keydown: only what keymap has becomes an event.
Keydown ==
  /\ mode = "run" /\ input.at = "poll" /\ keys # <<>>
  /\ LET code == Head(keys) IN
     /\ held' = IF code.key \in Chars THEN held
                ELSE IF code.down THEN held \cup {code.key} ELSE held \ {code.key}
     /\ input' = IF code.key \in Chars /\ code.down
                 THEN [at |-> "push", event |-> EventOf(code.key)] ELSE input
  /\ keys' = Tail(keys)
  /\ UNCHANGED <<typed, irqs, sem_kbdirq, event_sem, ring, mode>>

\* read_key returned 0.
Idle ==
  /\ mode = "run" /\ input.at = "poll" /\ keys = <<>>
  /\ input' = [input EXCEPT !.at = "wait"]
  /\ UNCHANGED <<keys, typed, irqs, sem_kbdirq, event_sem, held, ring, mode>>

WaitKbdirq ==
  /\ mode = "run" /\ input.at = "wait" /\ sem_kbdirq > 0
  /\ sem_kbdirq' = sem_kbdirq - 1
  /\ input' = [input EXCEPT !.at = "poll"]
  /\ UNCHANGED <<keys, typed, irqs, event_sem, held, ring, mode>>

\* Mutant: a full ring goes unnoticed.
PushNoCheck ==
  /\ mode = "run" /\ input.at = "push"
  /\ ring' = [ring EXCEPT !.events[ring.rear] = input.event, !.rear = (@ + 1) % NEvents]
  /\ input' = [input EXCEPT !.at = "signal"]
  /\ UNCHANGED <<keys, typed, irqs, sem_kbdirq, event_sem, held, mode>>

\* push_event: the ring may not fill up.
Push ==
  /\ mode = "run" /\ input.at = "push"
  /\ ring' = [ring EXCEPT !.events[ring.rear] = input.event, !.rear = (@ + 1) % NEvents]
  /\ input' = [input EXCEPT !.at = "signal"]
  /\ mode' = IF ring'.rear = ring'.front THEN "panic" ELSE "run"
  /\ UNCHANGED <<keys, typed, irqs, sem_kbdirq, event_sem, held>>

SignalEvent ==
  /\ mode = "run" /\ input.at = "signal"
  /\ event_sem' = event_sem + 1
  /\ input' = [at |-> "poll", event |-> NoEvent]
  /\ UNCHANGED <<keys, typed, irqs, sem_kbdirq, held, ring, mode>>

\* Both halves of pop_event, for the task that reads the device.
WaitEvent ==
  /\ mode = "run" /\ event_sem > 0
  /\ event_sem' = event_sem - 1
  /\ UNCHANGED <<keys, typed, irqs, sem_kbdirq, held, ring, input, mode>>

Popped == ring.events[ring.front]
Pop ==
  /\ mode = "run"
  /\ IF ring.rear = ring.front THEN mode' = "panic" /\ UNCHANGED ring
     ELSE ring' = [ring EXCEPT !.front = (@ + 1) % NEvents] /\ UNCHANGED mode
  /\ UNCHANGED <<keys, typed, irqs, sem_kbdirq, event_sem, held, input>>

InputTask == Keydown \/ Idle \/ WaitKbdirq \/ Push \/ SignalEvent
=============================================================================
