------------------------------- MODULE Libco -------------------------------
(***************************************************************************)
(* libco/co.c: coroutines on a static table of MAX_CO slots.  Exactly one  *)
(* coroutine runs; control moves only in co_yield, co_wait and at the end  *)
(* of a coroutine's function.  rand() is a choice among the slots that the *)
(* loops around it accept; if they accept none the program spins for ever. *)
(*                                                                         *)
(* A handle, the struct co * of co_start, is a slot and the number of the  *)
(* coroutine that got it: slots are reused, the program means a coroutine. *)
(* strayed says what the program has done so far that the tests do not do. *)
(***************************************************************************)
EXTENDS Integers, FiniteSets

CONSTANTS MaxCo,       \* MAX_CO
          MaxStarts,   \* bound on the calls of co_start
          Strayings    \* what programs may do that the tests do not do

ASSUME MaxCoAssumption ==
  /\ MaxCo \in Nat /\ MaxCo > 2 /\ MaxStarts \in Nat
  /\ Strayings \subseteq {"nest", "reuse", "yield"}

Slots == 1..(MaxCo - 1)
Main == 1
NoHandle == <<0, 0>>
Handles == Slots \X (1..MaxStarts + 1)

VARIABLES
  occupied, death,   \* of each slot
  wait, waitBy,      \* of each slot: the slot it waits for, the slot that waits for it; 0 is none
  cur,               \* the running coroutine
  no,                \* no: one more than the coroutines there are
  mode,              \* "run", "spin" in a loop around rand(), or "panic"
  who,               \* who[s]: the number of the coroutine that got slot s last
  starts,            \* how many there were
  inWait,            \* inWait[s]: the handle the coroutine in slot s waits for in co_wait
  waited,            \* the handles co_wait was called with
  finished,          \* the handles whose function has returned
  strayed            \* history: has a coroutine other than main waited ("nest"), was co_start
                     \* called while a finished coroutine was not waited for ("reuse"), or
                     \* co_yield by a coroutine that has waited ("yield")?

slotVars == <<occupied, death, wait, waitBy>>
progVars == <<who, starts, inWait, waited, finished, strayed>>
vars == <<slotVars, cur, no, mode, progVars>>

TypeOK ==
  /\ occupied \in [Slots -> BOOLEAN] /\ death \in [Slots -> BOOLEAN]
  /\ wait \in [Slots -> Slots \cup {0}] /\ waitBy \in [Slots -> Slots \cup {0}]
  /\ cur \in Slots /\ no \in 1..MaxCo /\ mode \in {"run", "spin", "panic"}
  /\ who \in [Slots -> 0..(MaxStarts + 1)] /\ starts \in 1..(MaxStarts + 1)
  /\ inWait \in [Slots -> Handles \cup {NoHandle}]
  /\ waited \subseteq Handles /\ finished \subseteq Handles /\ strayed \subseteq Strayings

\* co_init: main gets slot 1.
Init ==
  /\ occupied = [s \in Slots |-> s = Main] /\ death = [s \in Slots |-> FALSE]
  /\ wait = [s \in Slots |-> 0] /\ waitBy = [s \in Slots |-> 0]
  /\ cur = Main /\ no = 2 /\ mode = "run"
  /\ who = [s \in Slots |-> IF s = Main THEN 1 ELSE 0] /\ starts = 1
  /\ inWait = [s \in Slots |-> NoHandle]
  /\ waited = {} /\ finished = {} /\ strayed = {}

Started == {h \in Handles : h[2] <= starts /\ h[2] > 1 /\ (who[h[1]] = h[2] \/ h \in finished)}

\* A context that is resumed behind the end of my_func ends the program
\* (uc_link is NULL).
Running == mode = "run" /\ ~death[cur]

\* The coroutine in slot s runs: if it was in co_wait, co_wait returns.
Resume(s) ==
  /\ cur' = s
  /\ inWait' = [inWait EXCEPT ![s] = NoHandle]

\* What the loops around rand() accept, after a step that changed the slots.
Runnable == {r \in Slots : occupied[r] /\ ~death[r] /\ wait[r] = 0}

StraysIf(condition, how) ==
  IF condition THEN how \in Strayings /\ strayed' = strayed \cup {how} ELSE UNCHANGED strayed

\* Slot k becomes that of a new coroutine.
TakeSlot(k) ==
  /\ occupied' = [occupied EXCEPT ![k] = TRUE]
  /\ death' = [death EXCEPT ![k] = FALSE]
  /\ wait' = [wait EXCEPT ![k] = 0] /\ waitBy' = [waitBy EXCEPT ![k] = 0]
  /\ who' = [who EXCEPT ![k] = starts + 1] /\ starts' = starts + 1

CallStart ==
  /\ Running /\ starts <= MaxStarts
  /\ StraysIf(~(finished \subseteq waited), "reuse")
  /\ UNCHANGED <<cur, inWait, waited, finished>>

FirstFree == CHOOSE k \in Slots : ~occupied[k] /\ \A j \in Slots : j < k => occupied[j]

\* Mutant: co_start does not count.
StartForgetsToCount ==
  CallStart /\ (\E k \in Slots : ~occupied[k]) /\ TakeSlot(FirstFree) /\ UNCHANGED <<no, mode>>

\* Mutant: the slot is chosen by the count, as if none below it were free.
StartAtCount ==
  CallStart /\ no + 1 < MaxCo /\ no' = no + 1 /\ TakeSlot(no) /\ UNCHANGED mode

\* co_start: the first slot that is not occupied, under assert(no < MAX_CO).
Start ==
  /\ CallStart
  /\ no' = no + 1
  /\ IF no + 1 >= MaxCo THEN mode' = "panic" /\ UNCHANGED <<slotVars, who, starts>>
     ELSE TakeSlot(FirstFree) /\ UNCHANGED mode

\* Mutant: co_yield may choose a coroutine that waits.
YieldToAny(r) ==
  /\ Running
  /\ StraysIf(wait[cur] # 0, "yield")
  /\ occupied[r] /\ ~death[r]
  /\ Resume(r)
  /\ UNCHANGED <<mode, slotVars, no, who, starts, waited, finished>>

\* co_yield: any slot the loop accepts, also its own.
Yield(r) ==
  /\ Running
  /\ StraysIf(wait[cur] # 0, "yield")
  /\ \/ r \in Runnable /\ Resume(r) /\ UNCHANGED mode
     \/ Runnable = {} /\ mode' = "spin" /\ UNCHANGED <<cur, inWait>>
  /\ UNCHANGED <<slotVars, no, who, starts, waited, finished>>

\* co_wait(thd), for a handle nobody waited for yet (co.c:138), be it even the
\* caller's own: back at once if thd is dead, else the caller is marked and thd is
\* resumed, wherever it is, also from a co_wait.  Nothing ever takes the mark of
\* the caller away again.
Wait(h) ==
  LET thd == h[1] IN
  /\ Running
  /\ StraysIf(cur # Main, "nest")
  /\ h \in Started \ waited
  /\ waited' = waited \cup {h}
  /\ \/ death[thd] /\ UNCHANGED <<wait, waitBy, cur, inWait>>
     \/ /\ ~death[thd]
        /\ wait' = [wait EXCEPT ![cur] = thd]
        /\ waitBy' = [waitBy EXCEPT ![thd] = cur]
        /\ cur' = thd
        /\ inWait' = [inWait EXCEPT ![cur] = h, ![thd] = NoHandle]
  /\ UNCHANGED <<occupied, death, no, mode, who, starts, finished>>

Ends ==
  /\ Running /\ cur # Main
  /\ death' = [death EXCEPT ![cur] = TRUE]
  /\ occupied' = [occupied EXCEPT ![cur] = FALSE]
  /\ no' = no - 1
  /\ finished' = finished \cup {<<cur, who[cur]>>}
  /\ UNCHANGED <<wait, waitBy, who, starts, waited, strayed>>
GoesOnWith(r) ==
  LET left == Runnable \ {cur} IN
  \/ r \in left /\ Resume(r) /\ UNCHANGED mode
  \/ left = {} /\ mode' = "spin" /\ UNCHANGED <<cur, inWait>>

\* Mutant: the end of a function always goes on with a random coroutine.
FinishForgetsWaiter(r) == Ends /\ GoesOnWith(r)

\* my_func: at its end the coroutine that waits for this one goes on, or a random
\* one.
Finish(r) ==
  /\ Ends
  /\ IF waitBy[cur] # 0 THEN Resume(waitBy[cur]) /\ UNCHANGED mode ELSE GoesOnWith(r)

Next == Start \/ (\E h \in Handles : Wait(h)) \/ \E r \in Slots : Yield(r) \/ Finish(r)

Spec == Init /\ [][Next]_vars

\* rand() chooses each slot again and again, and every function returns if it
\* is run often enough.
Fairness == \A s \in Slots :
  /\ SF_vars(Yield(s))
  /\ SF_vars(\E r \in Slots : cur = s /\ Finish(r))

FairSpec == Spec /\ Fairness

-----------------------------------------------------------------------------
(* Properties                                                               *)

\* "no" counts the occupied slots, so that the assertion of co_start stops the
\* program before the search for a free slot runs off the table.
CountMatches == mode # "panic" => no = 1 + Cardinality({s \in Slots : occupied[s]})

\* The table of slots and its count.
TableInv == TypeOK /\ CountMatches

\* co.c:136: the caller of co_wait(thd) does not go on until thd has finished:
\* the coroutine of every handle co_wait was called with has finished, or the
\* call has not returned.
WaitEndsWithItsCoroutine ==
  \A h \in waited : h \in finished \/ \E s \in Slots : inWait[s] = h
\* It holds as long as only main waits: a coroutine that waits is resumed by
\* whoever waits for it, and its own co_wait returns.
WaitsOfMainEndRight == "nest" \notin strayed => WaitEndsWithItsCoroutine

\* co.c:137: a slot is not given away before co_wait is through with it.  It holds
\* as long as no coroutine is started while a finished one was not waited for:
\* nobody ever waits for another coroutine than the one he named.
WaitsForItsOwn ==
  "reuse" \notin strayed => \A s \in Slots : inWait[s] # NoHandle => who[inWait[s][1]] = inWait[s][2]

\* co.c:93: when control is given up there is a coroutine that can run; the
\* loops around rand() end.  It holds as long as nobody yields after a co_wait,
\* which leaves its mark for ever.
NeverSpins == strayed \subseteq {"nest"} => mode # "spin"

\* Every co_wait returns, in programs that do what the tests do, if the table is
\* large enough.
WaitReturns ==
  \A s \in Slots : inWait[s] # NoHandle ~> inWait[s] = NoHandle \/ strayed # {} \/ mode = "panic"
=============================================================================
