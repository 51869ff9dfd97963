---------------------------- MODULE LibcoProofs ----------------------------
(***************************************************************************)
(* Machine-checked proofs about Libco, for every size of the table and     *)
(* every number of calls of co_start.                                      *)
(*                                                                         *)
(* The table is right whatever programs do.  What co_wait and the loops    *)
(* around rand() promise holds for disciplined programs only, and each     *)
(* promise has an inductive invariant of its own, under the same condition *)
(* on strayed.                                                             *)
(***************************************************************************)
EXTENDS Libco, DataLemmas

Occupied == {s \in Slots : occupied[s]}

\* A slot that was never used is free; one that was holds a coroutine that is
\* either alive or finished.
SlotsInv ==
  /\ \A s \in Slots :
       /\ who[s] = 0 => ~occupied[s] /\ ~death[s]
       /\ who[s] # 0 => occupied[s] = ~death[s]
       /\ death[s] => <<s, who[s]>> \in finished
       /\ waitBy[s] # 0 => who[waitBy[s]] # 0
       /\ who[s] <= starts
  /\ \A h \in finished : who[h[1]] # 0 /\ h[1] # Main
  /\ who[Main] = 1 /\ occupied[Main]
  /\ who[cur] # 0

\* Who is in co_wait is alive, named his coroutine in the call, and does not run.
WaitersInv ==
  /\ \A s \in Slots : inWait[s] # NoHandle => inWait[s] \in waited /\ occupied[s]
  /\ inWait[cur] = NoHandle

CoInv ==
  /\ TableInv
  /\ mode = "run" => no < MaxCo
  /\ SlotsInv
  /\ WaitersInv

\* Without reuse: a finished coroutine that was not waited for keeps its slot, and
\* a coroutine that somebody waits for is alive, and knows who does.
OwnInv ==
  "reuse" \notin strayed =>
    /\ \A h \in finished \ waited : death[h[1]] /\ who[h[1]] = h[2]
    /\ \A s \in Slots : inWait[s] # NoHandle =>
         LET h == inWait[s] IN
         occupied[h[1]] /\ who[h[1]] = h[2] /\ waitBy[h[1]] = s

\* Who is waited for goes on at once, also if it was in a co_wait itself, so that
\* waits never form a circle, whatever programs do: of those in co_wait, some wait
\* for others than them.
ChainsEnd ==
  \A S \in SUBSET Slots :
    S # {} /\ (\A s \in S : inWait[s] # NoHandle) => \E s \in S : inWait[s][1] \notin S

\* Without yields after a co_wait: the mark of co_wait is on those only who are
\* in it, or run.
MarkInv ==
  strayed \subseteq {"nest"} =>
    /\ mode # "spin"
    /\ \A s \in Slots \ {cur} : occupied[s] /\ wait[s] # 0 => inWait[s] # NoHandle

\* As long as only main waits, it waits for one coroutine at a time, and nobody
\* else resumes it.
MainInv ==
  "nest" \notin strayed =>
    /\ WaitEndsWithItsCoroutine
    /\ \A s \in Slots \ {Main} : inWait[s] = NoHandle
    /\ \A s \in Slots : waitBy[s] \in {0, Main}
    /\ \A s \in Slots : occupied[s] /\ waitBy[s] = Main =>
         inWait[Main] # NoHandle /\ inWait[Main][1] = s
    /\ inWait[Main] # NoHandle =>
         LET h == inWait[Main] IN
         /\ wait[Main] # 0
         /\ occupied[h[1]] /\ waitBy[h[1]] = Main
         /\ who[h[1]] = h[2] \/ h \in finished

-----------------------------------------------------------------------------
(* The actions.                                                             *)

LEMMA SlotFacts ==
  /\ MaxCo \in Nat /\ MaxCo > 2 /\ MaxStarts \in Nat /\ Main \in Slots
  /\ 0 \notin Slots /\ NoHandle \notin Handles
  /\ \A h \in Handles : h[1] \in Slots /\ h[2] \in 1..(MaxStarts + 1) /\ h = <<h[1], h[2]>>
BY MaxCoAssumption DEF Slots, Main, NoHandle, Handles

\* A handle is a pair of a slot and a number.
LEMMA HandlesEqual ==
  ASSUME NEW h \in Handles, NEW g \in Handles, h[1] = g[1], h[2] = g[2]
  PROVE  h = g
BY SlotFacts

\* Who runs is alive, and not in co_wait.
LEMMA RunningAlive ==
  ASSUME CoInv, Running
  PROVE  /\ mode = "run" /\ no < MaxCo /\ cur \in Slots /\ occupied[cur] /\ ~death[cur]
         /\ who[cur] # 0 /\ inWait[cur] = NoHandle
<1>1. mode = "run" /\ ~death[cur] BY DEF Running
<1>2. cur \in Slots BY DEF CoInv, TableInv, TypeOK
<1>3. who[cur] # 0 /\ occupied[cur] BY <1>1, <1>2 DEF CoInv, SlotsInv
<1> QED BY <1>1, <1>2, <1>3 DEF CoInv, WaitersInv

LEMMA SlotsFinite == IsFiniteSet(Slots) /\ Cardinality(Slots) = MaxCo - 1
<1>1. MaxCo - 1 \in Int /\ 1 \in Int /\ ~(1 > MaxCo - 1) /\ MaxCo - 1 - 1 + 1 = MaxCo - 1
  BY SlotFacts
<1> QED BY <1>1, FS_Interval DEF Slots

LEMMA OccupiedFinite == IsFiniteSet(Occupied) /\ Cardinality(Occupied) \in Nat
<1>1. IsFiniteSet(Slots) BY SlotsFinite
<1>2. Occupied \in SUBSET Slots BY DEF Occupied
<1> QED BY <1>1, <1>2, FS_Subset, FS_CardinalityType

\* The assertion of co_start leaves a free slot to be found.
LEMMA FreeSlot ==
  ASSUME CoInv, no < MaxCo, mode = "run"
  PROVE  FirstFree \in Slots /\ ~occupied[FirstFree]
<1> DEFINE Free == {k \in Slots : ~occupied[k]}
<1>1. no = 1 + Cardinality(Occupied) /\ no \in Nat
  BY SlotFacts DEF CoInv, TableInv, TypeOK, CountMatches, Occupied
<1>2. IsFiniteSet(Slots) /\ Cardinality(Slots) = MaxCo - 1
  BY SlotsFinite
<1>3. Cardinality(Occupied) # Cardinality(Slots) BY <1>1, <1>2, SlotFacts, OccupiedFinite
<1>4. Occupied # Slots BY <1>3
<1>5. Free \in SUBSET Nat /\ Free # {}
  <2>1. Slots \in SUBSET Nat BY SlotFacts DEF Slots
  <2>2. PICK k \in Slots : k \notin Occupied BY <1>4 DEF Occupied
  <2> QED BY <2>1, <2>2 DEF Occupied
<1>6. PICK k \in Free : \A j \in Free : k <= j BY <1>5, SmallestExists
<1>7. k \in Slots /\ ~occupied[k] /\ \A j \in Slots : j < k => occupied[j]
  <2> SUFFICES ASSUME NEW j \in Slots, j < k, ~occupied[j] PROVE FALSE BY <1>6
  <2>1. j \in Free /\ k \in Nat /\ j \in Nat BY <1>5
  <2> QED BY <1>6, <2>1
<1> QED BY <1>7 DEF FirstFree

\* How the history of what programs do grows.
LEMMA Strayed ==
  ASSUME NEW STATE condition, NEW how, StraysIf(condition, how)
  PROVE  /\ strayed' = strayed \/ (strayed' = strayed \cup {how} /\ how \in Strayings)
         /\ strayed' = strayed => ~condition \/ how \in strayed
<1>1. CASE condition
  <2>1. how \in Strayings /\ strayed' = strayed \cup {how} BY <1>1 DEF StraysIf
  <2>2. how \in strayed' BY <2>1
  <2> QED BY <2>1, <2>2
<1>2. CASE ~condition
  <2>1. strayed' = strayed BY <1>2, Zenon DEF StraysIf
  <2> QED BY <1>2, <2>1
<1> QED BY <1>1, <1>2

\* co_start panics, or takes a free slot.
LEMMA StartEffect ==
  ASSUME CoInv, Start
  PROVE  /\ mode = "run" /\ starts <= MaxStarts /\ UNCHANGED <<cur, inWait, waited, finished>>
         /\ \/ /\ mode' = "panic" /\ no' = no + 1 /\ no < MaxCo
               /\ UNCHANGED <<slotVars, who, starts>>
            \/ /\ mode' = "run" /\ no' = no + 1 /\ no + 1 < MaxCo
               /\ \E k \in Slots : ~occupied[k] /\ TakeSlot(k)
         /\ strayed' = strayed \/ (strayed' = strayed \cup {"reuse"} /\ "reuse" \in Strayings)
         /\ strayed' = strayed => finished \subseteq waited \/ "reuse" \in strayed
<1>1. Running /\ starts <= MaxStarts /\ StraysIf(~(finished \subseteq waited), "reuse")
      /\ UNCHANGED <<cur, inWait, waited, finished>> /\ no' = no + 1
  BY DEF Start, CallStart
<1>2. mode = "run" /\ no < MaxCo BY <1>1, RunningAlive
<1>3. FirstFree \in Slots /\ ~occupied[FirstFree] BY <1>2, FreeSlot
<1>4. \/ mode' = "panic" /\ UNCHANGED <<slotVars, who, starts>>
      \/ mode' = "run" /\ ~(no + 1 >= MaxCo) /\ TakeSlot(FirstFree)
  BY <1>2 DEF Start
<1>5. no \in Nat /\ MaxCo \in Nat BY SlotFacts DEF CoInv, TableInv, TypeOK
<1>6. \/ mode' = "panic" /\ UNCHANGED <<slotVars, who, starts>>
      \/ mode' = "run" /\ no + 1 < MaxCo /\ TakeSlot(FirstFree)
  BY <1>4, <1>5
<1>7. /\ strayed' = strayed \/ (strayed' = strayed \cup {"reuse"} /\ "reuse" \in Strayings)
      /\ strayed' = strayed => finished \subseteq waited \/ "reuse" \in strayed
  BY <1>1, Strayed
<1> QED BY <1>1, <1>2, <1>3, <1>6, <1>7

\* What TakeSlot does to each slot.
LEMMA TakeSlotEffect ==
  ASSUME TypeOK, NEW k \in Slots, TakeSlot(k)
  PROVE  /\ occupied'[k] /\ ~death'[k] /\ wait'[k] = 0 /\ waitBy'[k] = 0 /\ who'[k] = starts + 1
         /\ starts' = starts + 1
         /\ \A s \in Slots \ {k} :
              /\ occupied'[s] = occupied[s] /\ death'[s] = death[s]
              /\ wait'[s] = wait[s] /\ waitBy'[s] = waitBy[s] /\ who'[s] = who[s]
BY DEF TypeOK, TakeSlot

\* co_wait comes back at once, or marks the caller and resumes the other one.
LEMMA WaitEffect ==
  ASSUME CoInv, NEW h \in Handles, Wait(h)
  PROVE  /\ Running /\ h[1] \in Slots /\ h \notin waited /\ h[2] > 1 /\ waited' = waited \cup {h}
         /\ who[h[1]] # 0 /\ (h \in finished \/ who[h[1]] = h[2])
         /\ UNCHANGED <<occupied, death, no, mode, who, starts, finished>>
         /\ \/ death[h[1]] /\ UNCHANGED <<wait, waitBy, cur, inWait>>
            \/ /\ ~death[h[1]] /\ occupied[h[1]]
               /\ wait' = [wait EXCEPT ![cur] = h[1]]
               /\ waitBy' = [waitBy EXCEPT ![h[1]] = cur]
               /\ cur' = h[1]
               /\ inWait' = [inWait EXCEPT ![cur] = h, ![h[1]] = NoHandle]
         /\ strayed' = strayed \/ (strayed' = strayed \cup {"nest"} /\ "nest" \in Strayings)
         /\ strayed' = strayed => cur = Main \/ "nest" \in strayed
<1>1. h[1] \in Slots /\ h[2] \in Nat BY SlotFacts
<1>2. h \in Started BY DEF Wait
<1>3. h[2] > 1 /\ (h \in finished \/ who[h[1]] = h[2]) BY <1>2 DEF Started
<1>4. who[h[1]] # 0 BY <1>1, <1>3 DEF CoInv, SlotsInv
<1>5. ~death[h[1]] => occupied[h[1]] BY <1>1, <1>4 DEF CoInv, SlotsInv
<1>6. /\ strayed' = strayed \/ (strayed' = strayed \cup {"nest"} /\ "nest" \in Strayings)
      /\ strayed' = strayed => cur = Main \/ "nest" \in strayed
  <2>1. StraysIf(cur # Main, "nest") BY DEF Wait
  <2> QED BY <2>1, Strayed
<1> QED BY <1>1, <1>3, <1>4, <1>5, <1>6 DEF Wait

\* co_yield resumes a slot that can run, or spins.
LEMMA YieldEffect ==
  ASSUME CoInv, NEW r \in Slots, Yield(r)
  PROVE  /\ Running /\ UNCHANGED <<slotVars, no, who, starts, waited, finished>>
         /\ \/ r \in Runnable /\ Resume(r) /\ UNCHANGED mode
            \/ Runnable = {} /\ mode' = "spin" /\ UNCHANGED <<cur, inWait>>
         /\ strayed' = strayed \/ (strayed' = strayed \cup {"yield"} /\ "yield" \in Strayings)
         /\ strayed' = strayed => wait[cur] = 0 \/ "yield" \in strayed
<1>1. StraysIf(wait[cur] # 0, "yield") BY DEF Yield
<1>2. /\ strayed' = strayed \/ (strayed' = strayed \cup {"yield"} /\ "yield" \in Strayings)
      /\ strayed' = strayed => wait[cur] = 0 \/ "yield" \in strayed
  BY <1>1, Strayed
<1> QED BY <1>2 DEF Yield

\* The end of a function resumes the one who waits for it, or any other that can
\* run, or spins.
LEMMA FinishEffect ==
  ASSUME CoInv, NEW r \in Slots, Finish(r)
  PROVE  /\ Running /\ cur \in Slots /\ cur # Main /\ <<cur, who[cur]>> \in Handles
         /\ death' = [death EXCEPT ![cur] = TRUE] /\ occupied' = [occupied EXCEPT ![cur] = FALSE]
         /\ no' = no - 1 /\ finished' = finished \cup {<<cur, who[cur]>>}
         /\ UNCHANGED <<wait, waitBy, who, starts, waited, strayed>>
         /\ \/ waitBy[cur] # 0 /\ Resume(waitBy[cur]) /\ UNCHANGED mode
            \/ waitBy[cur] = 0 /\ r \in Runnable \ {cur} /\ Resume(r) /\ UNCHANGED mode
            \/ waitBy[cur] = 0 /\ Runnable \ {cur} = {} /\ mode' = "spin" /\ UNCHANGED <<cur, inWait>>
<1>1. Running BY DEF Finish, Ends
<1>2. cur \in Slots /\ who[cur] # 0 BY <1>1, RunningAlive
<1>3. who[cur] \in 1..(MaxStarts + 1) BY <1>2, SlotFacts DEF CoInv, TableInv, TypeOK
<1>4. <<cur, who[cur]>> \in Handles BY <1>2, <1>3 DEF Handles
<1> QED BY <1>1, <1>2, <1>4 DEF Finish, Ends, GoesOnWith

-----------------------------------------------------------------------------
(* The table.                                                               *)

LEMMA CoInit == Init => CoInv
<1> SUFFICES ASSUME Init PROVE CoInv OBVIOUS
<1> USE SlotFacts DEF Init
<1>1. TypeOK BY DEF TypeOK, Main
<1>2. CountMatches
  <2>1. {s \in Slots : occupied[s]} = {Main} OBVIOUS
  <2>2. Cardinality({s \in Slots : occupied[s]}) = 1 BY <2>1, FS_Singleton
  <2> QED BY <2>2 DEF CountMatches
<1>3. SlotsInv
  <2>1. \A s \in Slots : /\ occupied[s] <=> s = Main
                         /\ death[s] = FALSE /\ waitBy[s] = 0
                         /\ s = Main => who[s] = 1
                         /\ s # Main => who[s] = 0
    OBVIOUS
  <2>2. \A s \in Slots : (who[s] # 0 => occupied[s] = ~death[s]) /\ who[s] <= starts
    BY <2>1
  <2> QED BY <2>1, <2>2 DEF SlotsInv
<1>4. WaitersInv BY DEF WaitersInv
<1> QED BY <1>1, <1>2, <1>3, <1>4 DEF CoInv, TableInv

LEMMA CoStart == ASSUME CoInv, Start PROVE CoInv'
<1>1. /\ mode = "run" /\ starts <= MaxStarts /\ UNCHANGED <<cur, inWait, waited, finished>>
      /\ \/ /\ mode' = "panic" /\ no' = no + 1 /\ no < MaxCo
            /\ UNCHANGED <<slotVars, who, starts>>
         \/ /\ mode' = "run" /\ no' = no + 1 /\ no + 1 < MaxCo
            /\ \E k \in Slots : ~occupied[k] /\ TakeSlot(k)
      /\ strayed' \subseteq Strayings
  BY StartEffect DEF CoInv, TableInv, TypeOK
<1>t. TypeOK /\ SlotsInv /\ WaitersInv /\ no \in Nat /\ MaxCo \in Nat
  BY SlotFacts DEF CoInv, TableInv, TypeOK
<1>2. CASE mode' = "panic" /\ no' = no + 1 /\ no < MaxCo /\ UNCHANGED <<slotVars, who, starts>>
  <2>1. TypeOK' BY <1>1, <1>t, <1>2 DEF TypeOK, slotVars
  <2>2. SlotsInv' /\ WaitersInv' BY <1>1, <1>t, <1>2 DEF SlotsInv, WaitersInv, slotVars
  <2> QED BY <1>2, <2>1, <2>2 DEF CoInv, TableInv, CountMatches
<1>3. ASSUME mode' = "run", no' = no + 1, no + 1 < MaxCo, NEW k \in Slots, ~occupied[k], TakeSlot(k)
      PROVE  CoInv'
  <2>1. /\ occupied'[k] /\ ~death'[k] /\ wait'[k] = 0 /\ waitBy'[k] = 0 /\ who'[k] = starts + 1
        /\ starts' = starts + 1
        /\ \A s \in Slots \ {k} :
             /\ occupied'[s] = occupied[s] /\ death'[s] = death[s]
             /\ wait'[s] = wait[s] /\ waitBy'[s] = waitBy[s] /\ who'[s] = who[s]
    BY <1>t, <1>3, TakeSlotEffect
  <2>2. TypeOK'
    <3>1. occupied' \in [Slots -> BOOLEAN] /\ death' \in [Slots -> BOOLEAN]
      BY <1>t, <1>3 DEF TypeOK, TakeSlot
    <3>2. wait' \in [Slots -> Slots \cup {0}] /\ waitBy' \in [Slots -> Slots \cup {0}]
      BY <1>t, <1>3 DEF TypeOK, TakeSlot
    <3>3. starts' \in 1..(MaxStarts + 1) BY <1>1, <1>t, <2>1, SlotFacts DEF TypeOK
    <3>4. who' = [who EXCEPT ![k] = starts'] /\ starts' \in 0..(MaxStarts + 1)
      BY <1>3, <2>1, <3>3, SlotFacts DEF TakeSlot
    <3>5. who' \in [Slots -> 0..(MaxStarts + 1)] BY <1>t, <3>4 DEF TypeOK
    <3>6. no' \in 1..MaxCo BY <1>t, <1>3 DEF TypeOK
    <3> QED BY <1>1, <1>t, <1>3, <3>1, <3>2, <3>3, <3>5, <3>6 DEF TypeOK
  <2>3. CountMatches'
    <3>1. Occupied' = Occupied \cup {k} /\ k \notin Occupied BY <1>3, <2>1 DEF Occupied
    <3>2. Cardinality(Occupied') = Cardinality(Occupied) + 1
      BY <3>1, OccupiedFinite, FS_AddElement
    <3>3. no = 1 + Cardinality(Occupied) BY <1>1 DEF CoInv, TableInv, CountMatches, Occupied
    <3> QED BY <1>3, <3>2, <3>3, OccupiedFinite DEF CountMatches, Occupied
  <2>4. SlotsInv'
    <3>1. k # Main BY <1>t, <1>3 DEF SlotsInv
    <3>2. starts \in Nat /\ starts >= 1 BY <1>t DEF TypeOK
    <3>3. \A s \in Slots : who[s] # 0 => who'[s] # 0
      BY <2>1, <3>2
    <3>4. \A s \in Slots : waitBy'[s] # 0 => who'[waitBy'[s]] # 0
      <4>1. \A s \in Slots : waitBy[s] \in Slots \cup {0} BY <1>t DEF TypeOK
      <4>2. SUFFICES ASSUME NEW s \in Slots, waitBy'[s] # 0 PROVE who'[waitBy'[s]] # 0
        OBVIOUS
      <4>3. s # k /\ waitBy'[s] = waitBy[s] BY <2>1, <4>2
      <4>4. waitBy[s] \in Slots /\ who[waitBy[s]] # 0 BY <1>t, <4>1, <4>2, <4>3 DEF SlotsInv
      <4> QED BY <3>3, <4>3, <4>4
    <3>5. \A h \in finished' : who'[h[1]] # 0 /\ h[1] # Main
      <4>1. \A h \in finished : h[1] \in Slots BY <1>t, SlotFacts DEF TypeOK
      <4> QED BY <1>1, <1>t, <3>3, <4>1 DEF SlotsInv
    <3>6. \A s \in Slots :
            /\ who'[s] = 0 => ~occupied'[s] /\ ~death'[s]
            /\ who'[s] # 0 => occupied'[s] = ~death'[s]
            /\ death'[s] => <<s, who'[s]>> \in finished'
            /\ who'[s] <= starts'
      <4>1. \A s \in Slots \ {k} : who[s] <= starts'
        <5>1. \A s \in Slots : who[s] \in 0..(MaxStarts + 1) BY <1>t DEF TypeOK
        <5>2. \A s \in Slots : who[s] \in Int BY <5>1, SlotFacts
        <5>3. \A s \in Slots : who[s] <= starts BY <1>t DEF SlotsInv
        <5> QED BY <2>1, <3>2, <5>2, <5>3
      <4>2. occupied' \in [Slots -> BOOLEAN] /\ death' \in [Slots -> BOOLEAN] BY <2>2 DEF TypeOK
      <4> QED BY <1>1, <1>t, <2>1, <3>2, <4>1, <4>2 DEF SlotsInv
    <3>7. who'[Main] = 1 /\ occupied'[Main] /\ who'[cur'] # 0
      <4>1. cur \in Slots BY <1>t DEF TypeOK
      <4> QED BY <1>1, <1>t, <2>1, <3>1, <3>3, <4>1, SlotFacts DEF SlotsInv
    <3> QED BY <3>4, <3>5, <3>6, <3>7 DEF SlotsInv
  <2>5. WaitersInv' BY <1>1, <1>t, <2>1 DEF WaitersInv
  <2> QED BY <1>3, <2>2, <2>3, <2>4, <2>5 DEF CoInv, TableInv
<1> QED BY <1>1, <1>2, <1>3

LEMMA CoWait == ASSUME CoInv, NEW h \in Handles, Wait(h) PROVE CoInv'
<1>1. /\ Running /\ h[1] \in Slots /\ h \notin waited /\ h[2] > 1 /\ waited' = waited \cup {h}
      /\ who[h[1]] # 0
      /\ UNCHANGED <<occupied, death, no, mode, who, starts, finished>>
      /\ \/ death[h[1]] /\ UNCHANGED <<wait, waitBy, cur, inWait>>
         \/ /\ ~death[h[1]] /\ occupied[h[1]]
            /\ wait' = [wait EXCEPT ![cur] = h[1]]
            /\ waitBy' = [waitBy EXCEPT ![h[1]] = cur]
            /\ cur' = h[1]
            /\ inWait' = [inWait EXCEPT ![cur] = h, ![h[1]] = NoHandle]
      /\ strayed' \subseteq Strayings
  BY WaitEffect DEF CoInv, TableInv, TypeOK
<1>t. TypeOK /\ SlotsInv /\ WaitersInv BY DEF CoInv, TableInv
<1>r. cur \in Slots /\ who[cur] # 0 /\ occupied[cur] BY <1>1, RunningAlive
<1>2. TypeOK' BY <1>1, <1>t, <1>r DEF TypeOK
<1>3. CountMatches' BY <1>1 DEF CountMatches, CoInv, TableInv
<1>4. SlotsInv'
  <2>1. cur' \in Slots /\ who'[cur'] # 0 BY <1>1, <1>r
  <2>2. \A s \in Slots : waitBy'[s] # 0 => who'[waitBy'[s]] # 0
    <3>1. \A s \in Slots : waitBy'[s] = waitBy[s] \/ waitBy'[s] = cur
      BY <1>1, <1>t DEF TypeOK
    <3> QED BY <1>1, <1>t, <1>r, <3>1, ZenonT(30) DEF SlotsInv
  <2> QED BY <1>1, <1>t, <2>1, <2>2 DEF SlotsInv
<1>5. WaitersInv'
  <2>1. inWait'[cur'] = NoHandle BY <1>1, <1>t DEF WaitersInv, TypeOK
  <2>2. \A s \in Slots : inWait'[s] # NoHandle => inWait'[s] \in waited' /\ occupied'[s]
    BY <1>1, <1>t, <1>r DEF WaitersInv, TypeOK
  <2> QED BY <2>1, <2>2 DEF WaitersInv
<1> QED BY <1>1, <1>2, <1>3, <1>4, <1>5 DEF CoInv, TableInv

\* What a coroutine that is resumed brings with it.
LEMMA Resumed ==
  ASSUME CoInv, NEW r \in Slots, who[r] # 0, Resume(r), waited' = waited
  PROVE  /\ cur' = r /\ inWait' \in [Slots -> Handles \cup {NoHandle}] /\ inWait'[r] = NoHandle
         /\ \A s \in Slots \ {r} : inWait'[s] = inWait[s]
BY DEF CoInv, TableInv, TypeOK, Resume

LEMMA CoYield == ASSUME CoInv, NEW r \in Slots, Yield(r) PROVE CoInv'
<1>1. /\ Running /\ UNCHANGED <<slotVars, no, who, starts, waited, finished>>
      /\ \/ r \in Runnable /\ Resume(r) /\ UNCHANGED mode
         \/ Runnable = {} /\ mode' = "spin" /\ UNCHANGED <<cur, inWait>>
      /\ strayed' \subseteq Strayings
  BY YieldEffect DEF CoInv, TableInv, TypeOK
<1>t. TypeOK /\ SlotsInv /\ WaitersInv BY DEF CoInv, TableInv
<1>2. /\ who'[cur'] # 0 /\ cur' \in Slots /\ inWait'[cur'] = NoHandle
      /\ inWait' \in [Slots -> Handles \cup {NoHandle}]
      /\ \A s \in Slots : inWait'[s] # NoHandle => inWait'[s] = inWait[s]
  <2>1. ASSUME r \in Runnable, Resume(r) PROVE who[r] # 0
    BY <1>t, <2>1 DEF SlotsInv, Runnable
  <2>2. CASE r \in Runnable /\ Resume(r) BY <1>1, <2>1, <2>2, Resumed
  <2>3. CASE UNCHANGED <<cur, inWait>>
    BY <1>1, <1>t, <2>3 DEF SlotsInv, WaitersInv, TypeOK
  <2> QED BY <1>1, <2>2, <2>3
<1>3. mode' \in {"run", "spin", "panic"} /\ (mode' = "run" => mode = "run")
      /\ (mode' # "panic" => mode # "panic")
  BY <1>1, <1>t DEF TypeOK, Running
<1>4. TypeOK' BY <1>1, <1>t, <1>2, <1>3 DEF TypeOK, slotVars
<1>5. CountMatches' BY <1>1, <1>3 DEF CountMatches, CoInv, TableInv, slotVars
<1>6. SlotsInv' BY <1>1, <1>t, <1>2 DEF SlotsInv, slotVars
<1>7. WaitersInv' BY <1>1, <1>t, <1>2 DEF WaitersInv, slotVars
<1> QED BY <1>1, <1>3, <1>4, <1>5, <1>6, <1>7 DEF CoInv, TableInv

LEMMA CoFinish == ASSUME CoInv, NEW r \in Slots, Finish(r) PROVE CoInv'
<1>1. /\ Running /\ cur \in Slots /\ cur # Main /\ <<cur, who[cur]>> \in Handles
      /\ death' = [death EXCEPT ![cur] = TRUE] /\ occupied' = [occupied EXCEPT ![cur] = FALSE]
      /\ no' = no - 1 /\ finished' = finished \cup {<<cur, who[cur]>>}
      /\ UNCHANGED <<wait, waitBy, who, starts, waited, strayed>>
      /\ \/ waitBy[cur] # 0 /\ Resume(waitBy[cur]) /\ UNCHANGED mode
         \/ waitBy[cur] = 0 /\ r \in Runnable \ {cur} /\ Resume(r) /\ UNCHANGED mode
         \/ waitBy[cur] = 0 /\ Runnable \ {cur} = {} /\ mode' = "spin" /\ UNCHANGED <<cur, inWait>>
  BY FinishEffect
<1>t. TypeOK /\ SlotsInv /\ WaitersInv /\ CountMatches BY DEF CoInv, TableInv
<1>r. mode = "run" /\ no < MaxCo /\ who[cur] # 0 /\ occupied[cur] /\ inWait[cur] = NoHandle
  BY <1>1, RunningAlive
<1>2. /\ who[cur'] # 0 /\ cur' \in Slots /\ inWait'[cur'] = NoHandle
      /\ inWait' \in [Slots -> Handles \cup {NoHandle}]
      /\ \A s \in Slots : inWait'[s] # NoHandle => inWait'[s] = inWait[s]
  <2>1. ASSUME waitBy[cur] # 0 PROVE waitBy[cur] \in Slots /\ who[waitBy[cur]] # 0
    BY <1>1, <1>t, <2>1 DEF SlotsInv, TypeOK
  <2>2. ASSUME r \in Runnable PROVE who[r] # 0 BY <1>t, <2>2 DEF SlotsInv, Runnable
  <2>3. CASE waitBy[cur] # 0 /\ Resume(waitBy[cur]) BY <1>1, <2>1, <2>3, Resumed
  <2>4. CASE r \in Runnable \ {cur} /\ Resume(r) BY <1>1, <2>2, <2>4, Resumed
  <2>5. CASE UNCHANGED <<cur, inWait>>
    BY <1>1, <1>t, <2>5 DEF SlotsInv, WaitersInv, TypeOK
  <2> QED BY <1>1, <2>3, <2>4, <2>5
<1>3. mode' \in {"run", "spin"} BY <1>1, <1>r
<1>4. CountMatches' /\ no' \in 1..MaxCo /\ no' < MaxCo
  <2>1. Occupied' = Occupied \ {cur} /\ cur \in Occupied
    BY <1>1, <1>t, <1>r DEF Occupied, TypeOK
  <2>2. Cardinality(Occupied') = Cardinality(Occupied) - 1 /\ IsFiniteSet(Occupied')
    BY <2>1, OccupiedFinite, FS_RemoveElement
  <2>3. Cardinality(Occupied') \in Nat BY <2>2, FS_CardinalityType
  <2>4. no = 1 + Cardinality(Occupied) /\ no \in Nat
    BY <1>t, <1>r, SlotFacts DEF CountMatches, TypeOK, Occupied
  <2>5. no' = 1 + Cardinality(Occupied') BY <1>1, <2>2, <2>3, <2>4, OccupiedFinite
  <2> QED BY <1>1, <1>r, <2>3, <2>4, <2>5, SlotFacts DEF CountMatches, Occupied
<1>5. TypeOK' BY <1>1, <1>t, <1>2, <1>3, <1>4 DEF TypeOK
<1>6. SlotsInv'
  <2>1. \A s \in Slots :
          /\ who'[s] = 0 => ~occupied'[s] /\ ~death'[s]
          /\ who'[s] # 0 => occupied'[s] = ~death'[s]
          /\ death'[s] => <<s, who'[s]>> \in finished'
    BY <1>1, <1>t, <1>r, ZenonT(30) DEF SlotsInv, TypeOK
  <2>2. \A s \in Slots : (waitBy'[s] # 0 => who'[waitBy'[s]] # 0) /\ who'[s] <= starts'
    BY <1>1, <1>t DEF SlotsInv
  <2>3. \A h \in finished' : who'[h[1]] # 0 /\ h[1] # Main BY <1>1, <1>t, <1>r DEF SlotsInv
  <2>4. who'[Main] = 1 /\ occupied'[Main]
    BY <1>1, <1>t, SlotFacts DEF SlotsInv, TypeOK
  <2>5. who'[cur'] # 0 BY <1>1, <1>2
  <2> QED BY <2>1, <2>2, <2>3, <2>4, <2>5 DEF SlotsInv
<1>7. WaitersInv'
  <2>1. \A s \in Slots : inWait'[s] # NoHandle => s # cur BY <1>2, <1>r
  <2> QED BY <1>1, <1>t, <1>2, <2>1 DEF WaitersInv, TypeOK
<1> QED BY <1>4, <1>5, <1>6, <1>7 DEF CoInv, TableInv

LEMMA CoStep == CoInv /\ [Next]_vars => CoInv'
<1> SUFFICES ASSUME CoInv, [Next]_vars PROVE CoInv' OBVIOUS
<1>1. CASE UNCHANGED vars
  BY <1>1 DEF CoInv, TableInv, TypeOK, CountMatches, SlotsInv, WaitersInv, vars, slotVars, progVars
<1>2. CASE Start BY <1>2, CoStart
<1>3. ASSUME NEW h \in Handles, Wait(h) PROVE CoInv' BY <1>3, CoWait
<1>4. ASSUME NEW r \in Slots, Yield(r) PROVE CoInv' BY <1>4, CoYield
<1>5. ASSUME NEW r \in Slots, Finish(r) PROVE CoInv' BY <1>5, CoFinish
<1> QED BY <1>1, <1>2, <1>3, <1>4, <1>5 DEF Next

LEMMA CoInvariant == Spec => []CoInv
BY CoInit, CoStep, PTL DEF Spec

\* The table and its count are right, whatever programs do: the count is that
\* of the occupied slots, the assertion of co_start stops the program before the
\* search for a free slot runs off the table.
THEOREM LibcoTable == Spec => []TableInv
<1>1. CoInv => TableInv BY DEF CoInv
<1> QED BY <1>1, CoInvariant, PTL

-----------------------------------------------------------------------------
(* Who waits.                                                               *)

\* A step makes nobody wait but the running coroutine, and then for one that does not.
LEMMA ChainsStep == CoInv /\ ChainsEnd /\ [Next]_vars => ChainsEnd'
<1> SUFFICES ASSUME CoInv, ChainsEnd, [Next]_vars,
                    NEW S \in SUBSET Slots, S # {}, \A s \in S : inWait'[s] # NoHandle
             PROVE  \E s \in S : inWait'[s][1] \notin S
  BY DEF ChainsEnd
<1>t. inWait \in [Slots -> Handles \cup {NoHandle}] /\ cur \in Slots BY DEF CoInv, TableInv, TypeOK
<1>1. ASSUME \A s \in S : inWait'[s] = inWait[s] PROVE \E s \in S : inWait'[s][1] \notin S
  <2>1. PICK s \in S : inWait[s][1] \notin S BY <1>1 DEF ChainsEnd
  <2> QED BY <1>1, <2>1
<1>2. CASE UNCHANGED vars BY <1>1, <1>2 DEF vars, progVars
<1>3. CASE Start
  <2>1. inWait' = inWait BY <1>3, StartEffect
  <2> QED BY <1>1, <2>1
<1>4. ASSUME NEW h \in Handles, Wait(h) PROVE \E s \in S : inWait'[s][1] \notin S
  <2>1. h[1] \in Slots /\ (inWait' = inWait \/ inWait' = [inWait EXCEPT ![cur] = h, ![h[1]] = NoHandle])
    BY <1>4, WaitEffect
  <2>2. CASE inWait' = inWait BY <1>1, <2>2
  <2>3. CASE inWait' = [inWait EXCEPT ![cur] = h, ![h[1]] = NoHandle]
    <3>1. inWait'[h[1]] = NoHandle /\ (\A s \in Slots \ {cur, h[1]} : inWait'[s] = inWait[s])
          /\ (cur # h[1] => inWait'[cur] = h)
      BY <1>t, <2>1, <2>3
    <3>2. h[1] \notin S BY <3>1
    <3>3. CASE cur \in S BY <3>1, <3>2, <3>3
    <3>4. CASE cur \notin S
      <4>1. \A s \in S : inWait'[s] = inWait[s] BY <3>1, <3>2, <3>4
      <4> QED BY <1>1, <4>1
    <3> QED BY <3>3, <3>4
  <2> QED BY <2>1, <2>2, <2>3
<1>5. ASSUME NEW r \in Slots, Yield(r) \/ Finish(r) PROVE \E s \in S : inWait'[s][1] \notin S
  <2>1. UNCHANGED inWait \/ \E q : Resume(q) BY <1>5, YieldEffect, FinishEffect, Zenon
  <2>2. \A s \in S : inWait'[s] = inWait[s]
    <3>1. ASSUME NEW q, Resume(q), NEW s \in S PROVE inWait'[s] = inWait[s]
      <4>1. inWait' = [inWait EXCEPT ![q] = NoHandle] /\ inWait'[s] # NoHandle BY <3>1 DEF Resume
      <4> QED BY <1>t, <4>1
    <3> QED BY <2>1, <3>1
  <2> QED BY <1>1, <2>2
<1> QED BY <1>2, <1>3, <1>4, <1>5 DEF Next

LEMMA ChainsInvariant == Spec => []ChainsEnd
<1>1. Init => ChainsEnd BY DEF Init, ChainsEnd
<1> QED BY <1>1, ChainsStep, CoInvariant, PTL DEF Spec

\* What the steps of a running coroutine do not do to those in co_wait: it is not
\* one of them, and a slot that is taken is not one of theirs.
LEMMA OwnStep == CoInv /\ OwnInv /\ [Next]_vars => OwnInv'
<1> SUFFICES ASSUME CoInv, OwnInv, [Next]_vars PROVE OwnInv' OBVIOUS
<1>t. /\ occupied \in [Slots -> BOOLEAN] /\ death \in [Slots -> BOOLEAN]
      /\ waitBy \in [Slots -> Slots \cup {0}] /\ who \in [Slots -> 0..(MaxStarts + 1)]
      /\ inWait \in [Slots -> Handles \cup {NoHandle}] /\ cur \in Slots
      /\ waited \subseteq Handles /\ finished \subseteq Handles
  BY DEF CoInv, TableInv, TypeOK
<1>h. \A h \in Handles : h[1] \in Slots /\ h[2] \in Nat BY SlotFacts
<1>i. SlotsInv /\ WaitersInv BY DEF CoInv
<1>1. CASE UNCHANGED vars BY <1>1 DEF OwnInv, vars, slotVars, progVars
<1>2. CASE Start
  <2>1. /\ UNCHANGED <<cur, inWait, waited, finished>>
        /\ \/ UNCHANGED <<slotVars, who, starts>>
           \/ \E k \in Slots : ~occupied[k] /\ TakeSlot(k)
        /\ strayed' = strayed \/ (strayed' = strayed \cup {"reuse"} /\ "reuse" \in Strayings)
        /\ strayed' = strayed => finished \subseteq waited \/ "reuse" \in strayed
    BY <1>2, StartEffect
  <2> SUFFICES ASSUME "reuse" \notin strayed'
               PROVE  /\ \A h \in finished' \ waited' : death'[h[1]] /\ who'[h[1]] = h[2]
                      /\ \A s \in Slots : inWait'[s] # NoHandle =>
                           LET h == inWait'[s] IN
                           occupied'[h[1]] /\ who'[h[1]] = h[2] /\ waitBy'[h[1]] = s
    BY DEF OwnInv
  <2>2. "reuse" \notin strayed /\ finished \subseteq waited BY <2>1
  <2>3. CASE UNCHANGED <<slotVars, who, starts>> BY <2>1, <2>2, <2>3 DEF OwnInv, slotVars
  <2>4. ASSUME NEW k \in Slots, ~occupied[k], TakeSlot(k), NEW s \in Slots, inWait'[s] # NoHandle
        PROVE  LET h == inWait'[s] IN
               occupied'[h[1]] /\ who'[h[1]] = h[2] /\ waitBy'[h[1]] = s
    <3>1. PICK h \in Handles : h = inWait[s] BY <1>t, <2>1, <2>4
    <3>2. h = inWait'[s] /\ occupied[h[1]] /\ who[h[1]] = h[2] /\ waitBy[h[1]] = s
      BY <2>1, <2>2, <2>4, <3>1 DEF OwnInv
    <3>3. occupied[s] BY <1>i, <2>1, <2>4 DEF WaitersInv
    <3>4. h[1] # k /\ s # k BY <2>4, <3>2, <3>3
    <3>5. TypeOK BY DEF CoInv, TableInv
    <3>6. /\ occupied'[h[1]] = occupied[h[1]] /\ who'[h[1]] = who[h[1]]
          /\ waitBy'[h[1]] = waitBy[h[1]] /\ who'[s] = who[s]
      BY <1>h, <2>4, <3>4, <3>5, TakeSlotEffect
    <3> QED BY <3>2, <3>6
  <2> QED BY <2>1, <2>2, <2>3, <2>4
<1>3. ASSUME NEW h \in Handles, Wait(h) PROVE OwnInv'
  <2>1. /\ Running /\ h[1] \in Slots /\ h \notin waited /\ h[2] > 1 /\ waited' = waited \cup {h}
        /\ who[h[1]] # 0 /\ (h \in finished \/ who[h[1]] = h[2])
        /\ UNCHANGED <<occupied, death, no, mode, who, starts, finished>>
        /\ \/ death[h[1]] /\ UNCHANGED <<wait, waitBy, cur, inWait>>
           \/ /\ ~death[h[1]] /\ occupied[h[1]]
              /\ wait' = [wait EXCEPT ![cur] = h[1]]
              /\ waitBy' = [waitBy EXCEPT ![h[1]] = cur]
              /\ cur' = h[1]
              /\ inWait' = [inWait EXCEPT ![cur] = h, ![h[1]] = NoHandle]
        /\ strayed' = strayed \/ (strayed' = strayed \cup {"nest"} /\ "nest" \in Strayings)
    BY <1>3, WaitEffect
  <2> SUFFICES ASSUME "reuse" \notin strayed'
               PROVE  /\ \A g \in finished' \ waited' : death'[g[1]] /\ who'[g[1]] = g[2]
                      /\ \A s \in Slots : inWait'[s] # NoHandle =>
                           LET g == inWait'[s] IN
                           occupied'[g[1]] /\ who'[g[1]] = g[2] /\ waitBy'[g[1]] = s
    BY DEF OwnInv
  <2>2. "reuse" \notin strayed BY <2>1
  <2>3. \A g \in finished' \ waited' : death'[g[1]] /\ who'[g[1]] = g[2] BY <2>1, <2>2 DEF OwnInv
  <2>4. CASE death[h[1]] /\ UNCHANGED <<wait, waitBy, cur, inWait>>
    BY <2>1, <2>2, <2>3, <2>4 DEF OwnInv
  <2>5. ASSUME ~death[h[1]], occupied[h[1]],
               waitBy' = [waitBy EXCEPT ![h[1]] = cur],
               inWait' = [inWait EXCEPT ![cur] = h, ![h[1]] = NoHandle],
               NEW s \in Slots, inWait'[s] # NoHandle
        PROVE  LET g == inWait'[s] IN
               occupied'[g[1]] /\ who'[g[1]] = g[2] /\ waitBy'[g[1]] = s
    <3>1. who[h[1]] = h[2] BY <2>1, <2>2, <2>5 DEF OwnInv
    <3>3. CASE s = cur
      <4>1. inWait'[s] = h BY <1>t, <2>5, <3>3
      <4>2. waitBy'[h[1]] = cur BY <1>t, <2>1, <2>5
      <4> QED BY <2>1, <2>5, <3>1, <3>3, <4>1, <4>2
    <3>4. CASE s # cur
      <4>1. s # h[1] /\ inWait'[s] = inWait[s] BY <1>t, <2>5, <3>4
      <4>2. PICK g \in Handles : g = inWait[s] BY <1>t, <2>5, <4>1
      <4>3. occupied[g[1]] /\ who[g[1]] = g[2] /\ waitBy[g[1]] = s /\ g \in waited
        BY <1>i, <2>2, <2>5, <4>1, <4>2 DEF OwnInv, WaitersInv
      <4>4. g[1] # h[1] BY <2>1, <3>1, <4>3, HandlesEqual
      <4>5. waitBy'[g[1]] = waitBy[g[1]] BY <1>h, <1>t, <2>5, <4>4
      <4> QED BY <2>1, <4>1, <4>2, <4>3, <4>5
    <3> QED BY <3>3, <3>4
  <2> QED BY <2>1, <2>3, <2>4, <2>5
<1>4. ASSUME NEW r \in Slots, Yield(r) PROVE OwnInv'
  <2>1. /\ Running /\ UNCHANGED <<slotVars, no, who, starts, waited, finished>>
        /\ \/ r \in Runnable /\ Resume(r) /\ UNCHANGED mode
           \/ Runnable = {} /\ mode' = "spin" /\ UNCHANGED <<cur, inWait>>
        /\ strayed' = strayed \/ (strayed' = strayed \cup {"yield"} /\ "yield" \in Strayings)
    BY <1>4, YieldEffect
  <2>2. "reuse" \notin strayed' => "reuse" \notin strayed BY <2>1
  <2>3. \A s \in Slots : inWait'[s] # NoHandle => inWait'[s] = inWait[s]
    BY <1>t, <2>1 DEF Resume
  <2> QED BY <2>1, <2>2, <2>3 DEF OwnInv, slotVars
<1>5. ASSUME NEW r \in Slots, Finish(r) PROVE OwnInv'
  <2>1. /\ Running /\ cur \in Slots /\ cur # Main /\ <<cur, who[cur]>> \in Handles
        /\ death' = [death EXCEPT ![cur] = TRUE] /\ occupied' = [occupied EXCEPT ![cur] = FALSE]
        /\ no' = no - 1 /\ finished' = finished \cup {<<cur, who[cur]>>}
        /\ UNCHANGED <<wait, waitBy, who, starts, waited, strayed>>
        /\ \/ waitBy[cur] # 0 /\ Resume(waitBy[cur]) /\ UNCHANGED mode
           \/ waitBy[cur] = 0 /\ r \in Runnable \ {cur} /\ Resume(r) /\ UNCHANGED mode
           \/ waitBy[cur] = 0 /\ Runnable \ {cur} = {} /\ mode' = "spin" /\ UNCHANGED <<cur, inWait>>
    BY <1>5, FinishEffect
  <2> SUFFICES ASSUME "reuse" \notin strayed
               PROVE  /\ \A h \in finished' \ waited : death'[h[1]] /\ who[h[1]] = h[2]
                      /\ \A s \in Slots : inWait'[s] # NoHandle =>
                           LET h == inWait'[s] IN
                           occupied'[h[1]] /\ who[h[1]] = h[2] /\ waitBy[h[1]] = s
    BY <2>1 DEF OwnInv
  <2>2. \A h \in finished' \ waited : death'[h[1]] /\ who[h[1]] = h[2]
    BY <1>h, <1>t, <2>1 DEF OwnInv
  <2>3. ASSUME NEW s \in Slots, inWait'[s] # NoHandle
        PROVE  LET h == inWait'[s] IN
               occupied'[h[1]] /\ who[h[1]] = h[2] /\ waitBy[h[1]] = s
    <3>1. inWait'[s] = inWait[s] BY <1>t, <2>1, <2>3 DEF Resume
    <3>2. PICK h \in Handles : h = inWait[s] BY <1>t, <2>3, <3>1
    <3>3. occupied[h[1]] /\ who[h[1]] = h[2] /\ waitBy[h[1]] = s
      BY <2>3, <3>1, <3>2 DEF OwnInv
    <3>4. h[1] # cur
      <4>1. SUFFICES ASSUME h[1] = cur PROVE FALSE OBVIOUS
      <4>2. waitBy[cur] = s /\ s # 0 BY <3>3, <4>1, SlotFacts
      <4>3. Resume(s) BY <2>1, <4>2
      <4>4. inWait'[s] = NoHandle BY <1>t, <4>3 DEF Resume
      <4> QED BY <2>3, <4>4
    <3>5. occupied'[h[1]] = occupied[h[1]] BY <1>h, <1>t, <2>1, <3>4
    <3> QED BY <3>1, <3>2, <3>3, <3>5
  <2> QED BY <2>2, <2>3
<1> QED BY <1>1, <1>2, <1>3, <1>4, <1>5 DEF Next

LEMMA OwnInit == Init => OwnInv
BY DEF Init, OwnInv

LEMMA OwnInvariant == Spec => []OwnInv
BY OwnInit, OwnStep, CoInvariant, PTL DEF Spec

\* co.c:137: nobody waits for another coroutine than the one he named, in
\* programs that start none while a finished one was not waited for.
THEOREM LibcoWaitsForItsOwn == Spec => []WaitsForItsOwn
<1>1. OwnInv => WaitsForItsOwn BY DEF OwnInv, WaitsForItsOwn
<1> QED BY <1>1, OwnInvariant, PTL

-----------------------------------------------------------------------------
(* The loops around rand().                                                 *)

\* Who finishes without being waited for leaves somebody who can run.  Otherwise
\* everybody else who is alive would be in co_wait, and some would wait for others
\* than them: for the one who finishes, who knows of nobody who waits for it.
LEMMA SomebodyRuns ==
  ASSUME CoInv, OwnInv, ChainsEnd, MarkInv, strayed \subseteq {"nest"}, Running, cur # Main,
         waitBy[cur] = 0
  PROVE  Runnable \ {cur} # {}
<1> SUFFICES ASSUME Runnable \ {cur} = {} PROVE FALSE OBVIOUS
<1>t. inWait \in [Slots -> Handles \cup {NoHandle}] /\ cur \in Slots BY DEF CoInv, TableInv, TypeOK
<1>0. "reuse" \notin strayed OBVIOUS
<1>1. \A s \in Slots \ {cur} : occupied[s] => inWait[s] # NoHandle
  <2> SUFFICES ASSUME NEW s \in Slots \ {cur}, occupied[s] PROVE inWait[s] # NoHandle
    OBVIOUS
  <2>1. ~death[s] BY DEF CoInv, SlotsInv
  <2>2. wait[s] # 0 BY <2>1 DEF Runnable
  <2> QED BY <2>1, <2>2 DEF MarkInv
<1>2. PICK S : S = Occupied \ {cur} OBVIOUS
<1>3. S \in SUBSET Slots /\ (\A s \in S : occupied[s] /\ inWait[s] # NoHandle) BY <1>1, <1>2 DEF Occupied
<1>4. S # {}
  <2>1. Main \in Occupied \ {cur} BY SlotFacts DEF Occupied, CoInv, SlotsInv
  <2> QED BY <1>2, <2>1
<1>5. PICK s \in S : inWait[s][1] \notin S BY <1>3, <1>4 DEF ChainsEnd
<1>6. PICK h \in Handles : h = inWait[s] /\ inWait[s] # NoHandle BY <1>t, <1>3, <1>5
<1>7. occupied[h[1]] /\ waitBy[h[1]] = s /\ h[1] \in Slots /\ s # 0
  BY <1>0, <1>3, <1>5, <1>6, SlotFacts DEF OwnInv
<1>8. h[1] # cur BY <1>7
<1>9. h[1] \in S BY <1>2, <1>7, <1>8 DEF Occupied
<1> QED BY <1>5, <1>6, <1>9

LEMMA MarkStep == CoInv /\ OwnInv /\ ChainsEnd /\ MarkInv /\ [Next]_vars => MarkInv'
<1> SUFFICES ASSUME CoInv, OwnInv, ChainsEnd, MarkInv, [Next]_vars, strayed' \subseteq {"nest"}
             PROVE  /\ mode' # "spin"
                    /\ \A s \in Slots \ {cur'} : occupied'[s] /\ wait'[s] # 0 => inWait'[s] # NoHandle
  BY DEF MarkInv
<1>t. /\ occupied \in [Slots -> BOOLEAN] /\ death \in [Slots -> BOOLEAN]
      /\ wait \in [Slots -> Slots \cup {0}] /\ waitBy \in [Slots -> Slots \cup {0}]
      /\ inWait \in [Slots -> Handles \cup {NoHandle}] /\ cur \in Slots
  BY DEF CoInv, TableInv, TypeOK
<1>1. CASE UNCHANGED vars BY <1>1 DEF MarkInv, vars, slotVars, progVars
<1>2. CASE Start
  <2>1. /\ UNCHANGED <<cur, inWait>> /\ mode' \in {"run", "panic"}
        /\ \/ UNCHANGED <<slotVars, who, starts>>
           \/ \E k \in Slots : ~occupied[k] /\ TakeSlot(k)
        /\ strayed' = strayed \/ (strayed' = strayed \cup {"reuse"} /\ "reuse" \in Strayings)
    BY <1>2, StartEffect
  <2>2. strayed \subseteq {"nest"} BY <2>1
  <2>3. CASE UNCHANGED <<slotVars, who, starts>> BY <2>1, <2>2, <2>3 DEF MarkInv, slotVars
  <2>4. ASSUME NEW k \in Slots, TakeSlot(k), NEW s \in Slots \ {cur}, occupied'[s], wait'[s] # 0
        PROVE  inWait[s] # NoHandle
    BY <1>t, <2>2, <2>4 DEF TakeSlot, MarkInv
  <2> QED BY <2>1, <2>3, <2>4
<1>3. ASSUME NEW h \in Handles, Wait(h)
      PROVE  /\ mode' # "spin"
             /\ \A s \in Slots \ {cur'} : occupied'[s] /\ wait'[s] # 0 => inWait'[s] # NoHandle
  <2>1. /\ h[1] \in Slots /\ occupied' = occupied /\ mode' = mode
        /\ \/ UNCHANGED <<wait, waitBy, cur, inWait>>
           \/ /\ wait' = [wait EXCEPT ![cur] = h[1]]
              /\ cur' = h[1]
              /\ inWait' = [inWait EXCEPT ![cur] = h, ![h[1]] = NoHandle]
        /\ strayed' = strayed \/ (strayed' = strayed \cup {"nest"} /\ "nest" \in Strayings)
    BY <1>3, WaitEffect
  <2>2. strayed \subseteq {"nest"} /\ h # NoHandle BY <2>1, SlotFacts
  <2>3. mode' # "spin" BY <2>1, <2>2 DEF MarkInv
  <2>4. ASSUME NEW s \in Slots \ {cur'}, occupied'[s], wait'[s] # 0 PROVE inWait'[s] # NoHandle
    <3>1. CASE UNCHANGED <<wait, waitBy, cur, inWait>> BY <2>1, <2>2, <2>4, <3>1 DEF MarkInv
    <3>2. CASE /\ wait' = [wait EXCEPT ![cur] = h[1]]
               /\ cur' = h[1]
               /\ inWait' = [inWait EXCEPT ![cur] = h, ![h[1]] = NoHandle]
      <4>1. CASE s = cur BY <1>t, <2>2, <2>4, <3>2, <4>1
      <4>2. CASE s # cur
        <5>1. wait[s] # 0 /\ occupied[s] /\ inWait'[s] = inWait[s]
          BY <1>t, <2>1, <2>4, <3>2, <4>2
        <5> QED BY <2>2, <4>2, <5>1 DEF MarkInv
      <4> QED BY <4>1, <4>2
    <3> QED BY <2>1, <3>1, <3>2
  <2> QED BY <2>3, <2>4
<1>4. ASSUME NEW r \in Slots, Yield(r)
      PROVE  /\ mode' # "spin"
             /\ \A s \in Slots \ {cur'} : occupied'[s] /\ wait'[s] # 0 => inWait'[s] # NoHandle
  <2>1. /\ Running /\ UNCHANGED <<slotVars, no, who, starts, waited, finished>>
        /\ \/ r \in Runnable /\ Resume(r) /\ UNCHANGED mode
           \/ Runnable = {} /\ mode' = "spin" /\ UNCHANGED <<cur, inWait>>
        /\ strayed' = strayed \/ (strayed' = strayed \cup {"yield"} /\ "yield" \in Strayings)
        /\ strayed' = strayed => wait[cur] = 0 \/ "yield" \in strayed
    BY <1>4, YieldEffect
  <2>2. strayed' = strayed BY <2>1
  <2>3. strayed \subseteq {"nest"} BY <2>2
  <2>4. wait[cur] = 0 BY <2>1, <2>2, <2>3
  <2>5. cur \in Runnable BY <2>1, <2>4, RunningAlive DEF Runnable
  <2>6. Resume(r) /\ mode' = mode BY <2>1, <2>5
  <2>7. cur' = r /\ \A s \in Slots \ {r} : inWait'[s] = inWait[s] BY <1>t, <2>6 DEF Resume
  <2> QED BY <2>1, <2>3, <2>4, <2>6, <2>7 DEF MarkInv, slotVars
<1>5. ASSUME NEW r \in Slots, Finish(r)
      PROVE  /\ mode' # "spin"
             /\ \A s \in Slots \ {cur'} : occupied'[s] /\ wait'[s] # 0 => inWait'[s] # NoHandle
  <2>1. /\ Running /\ cur # Main
        /\ occupied' = [occupied EXCEPT ![cur] = FALSE]
        /\ UNCHANGED <<wait, waitBy, strayed>>
        /\ \/ waitBy[cur] # 0 /\ Resume(waitBy[cur]) /\ UNCHANGED mode
           \/ waitBy[cur] = 0 /\ r \in Runnable \ {cur} /\ Resume(r) /\ UNCHANGED mode
           \/ waitBy[cur] = 0 /\ Runnable \ {cur} = {} /\ mode' = "spin" /\ UNCHANGED <<cur, inWait>>
    BY <1>5, FinishEffect
  <2>2. strayed \subseteq {"nest"} BY <2>1
  <2>3. waitBy[cur] = 0 => Runnable \ {cur} # {} BY <2>1, <2>2, SomebodyRuns
  <2>4. mode' = mode /\ (Resume(waitBy[cur]) \/ Resume(r)) BY <2>1, <2>3
  <2>5. \A s \in Slots \ {cur'} : inWait'[s] = inWait[s] BY <1>t, <2>4 DEF Resume
  <2>6. \A s \in Slots : occupied'[s] => s # cur /\ occupied[s] BY <1>t, <2>1
  <2> QED BY <2>1, <2>2, <2>4, <2>5, <2>6 DEF MarkInv
<1> QED BY <1>1, <1>2, <1>3, <1>4, <1>5 DEF Next

LEMMA MarkInit == Init => MarkInv
BY DEF Init, MarkInv

\* co.c:93: as long as nobody yields after a co_wait and no slot of a finished
\* coroutine that was not waited for is given away, the loops around rand() find
\* a coroutine that can run.
THEOREM LibcoNeverSpins == Spec => []NeverSpins
<1>1. MarkInv => NeverSpins BY DEF MarkInv, NeverSpins
<1> QED BY <1>1, MarkInit, MarkStep, CoInvariant, OwnInvariant, ChainsInvariant, PTL DEF Spec

-----------------------------------------------------------------------------
(* The waits of main.                                                       *)

LEMMA MainInit == Init => MainInv
<1> SUFFICES ASSUME Init PROVE MainInv OBVIOUS
<1> QED BY SlotFacts DEF Init, MainInv, WaitEndsWithItsCoroutine, Main

\* Who waits can only be main, and only the coroutine it waits for resumes it.
LEMMA MainStep == CoInv /\ MainInv /\ [Next]_vars => MainInv'
<1> SUFFICES ASSUME CoInv, MainInv, [Next]_vars, "nest" \notin strayed' PROVE MainInv' BY DEF MainInv
<1>t. /\ occupied \in [Slots -> BOOLEAN] /\ death \in [Slots -> BOOLEAN]
      /\ wait \in [Slots -> Slots \cup {0}] /\ waitBy \in [Slots -> Slots \cup {0}]
      /\ inWait \in [Slots -> Handles \cup {NoHandle}] /\ cur \in Slots
      /\ waited \subseteq Handles /\ finished \subseteq Handles
  BY DEF CoInv, TableInv, TypeOK
<1>h. (\A h \in Handles : h[1] \in Slots /\ h[2] \in Nat /\ h # NoHandle) /\ Main \in Slots /\ Main # 0
  BY SlotFacts
<1>i. SlotsInv /\ WaitersInv BY DEF CoInv
<1>1. CASE UNCHANGED vars
  BY <1>1 DEF MainInv, WaitEndsWithItsCoroutine, vars, slotVars, progVars
<1>2. CASE Start
  <2>1. /\ UNCHANGED <<cur, inWait, waited, finished>>
        /\ \/ UNCHANGED <<slotVars, who, starts>>
           \/ \E k \in Slots : ~occupied[k] /\ TakeSlot(k)
        /\ strayed' = strayed \/ (strayed' = strayed \cup {"reuse"} /\ "reuse" \in Strayings)
    BY <1>2, StartEffect
  <2>2. "nest" \notin strayed BY <2>1
  <2>3. CASE UNCHANGED <<slotVars, who, starts>>
    BY <2>1, <2>2, <2>3 DEF MainInv, WaitEndsWithItsCoroutine, slotVars
  <2>4. ASSUME NEW k \in Slots, ~occupied[k], TakeSlot(k) PROVE MainInv'
    <3>1. TypeOK BY DEF CoInv, TableInv
    <3>2. /\ waitBy'[k] = 0
          /\ \A s \in Slots \ {k} :
               /\ occupied'[s] = occupied[s] /\ wait'[s] = wait[s]
               /\ waitBy'[s] = waitBy[s] /\ who'[s] = who[s]
      BY <2>4, <3>1, TakeSlotEffect
    <3>3. k # Main BY <1>i, <2>4 DEF SlotsInv
    <3>4. WaitEndsWithItsCoroutine' BY <2>1, <2>2 DEF MainInv, WaitEndsWithItsCoroutine
    <3>5. \A s \in Slots \ {Main} : inWait'[s] = NoHandle BY <2>1, <2>2 DEF MainInv
    <3>6. \A s \in Slots : waitBy'[s] \in {0, Main} BY <2>2, <3>2 DEF MainInv
    <3>7. \A s \in Slots : occupied'[s] /\ waitBy'[s] = Main =>
            inWait'[Main] # NoHandle /\ inWait'[Main][1] = s
      BY <1>h, <2>1, <2>2, <3>2 DEF MainInv
    <3>8. ASSUME inWait'[Main] # NoHandle
          PROVE  LET h == inWait'[Main] IN
                 /\ wait'[Main] # 0
                 /\ occupied'[h[1]] /\ waitBy'[h[1]] = Main
                 /\ who'[h[1]] = h[2] \/ h \in finished'
      <4>1. PICK h \in Handles : h = inWait[Main] BY <1>h, <1>t, <2>1, <3>8
      <4>2. /\ wait[Main] # 0
            /\ occupied[h[1]] /\ waitBy[h[1]] = Main
            /\ who[h[1]] = h[2] \/ h \in finished
        BY <2>1, <2>2, <3>8, <4>1 DEF MainInv
      <4>3. h[1] # k /\ h[1] \in Slots BY <1>h, <2>4, <4>2
      <4> QED BY <1>h, <2>1, <3>2, <3>3, <4>1, <4>2, <4>3
    <3> QED BY <3>4, <3>5, <3>6, <3>7, <3>8 DEF MainInv
  <2> QED BY <2>1, <2>3, <2>4
<1>3. ASSUME NEW h \in Handles, Wait(h) PROVE MainInv'
  <2>1. /\ Running /\ h[1] \in Slots /\ h \notin waited /\ waited' = waited \cup {h}
        /\ who[h[1]] # 0 /\ (h \in finished \/ who[h[1]] = h[2]) /\ h[2] > 1
        /\ UNCHANGED <<occupied, death, no, mode, who, starts, finished>>
        /\ \/ death[h[1]] /\ UNCHANGED <<wait, waitBy, cur, inWait>>
           \/ /\ ~death[h[1]] /\ occupied[h[1]]
              /\ wait' = [wait EXCEPT ![cur] = h[1]]
              /\ waitBy' = [waitBy EXCEPT ![h[1]] = cur]
              /\ cur' = h[1]
              /\ inWait' = [inWait EXCEPT ![cur] = h, ![h[1]] = NoHandle]
        /\ strayed' = strayed \/ (strayed' = strayed \cup {"nest"} /\ "nest" \in Strayings)
        /\ strayed' = strayed => cur = Main \/ "nest" \in strayed
    BY <1>3, WaitEffect
  <2>2. "nest" \notin strayed /\ cur = Main BY <2>1
  <2>3. CASE death[h[1]] /\ UNCHANGED <<wait, waitBy, cur, inWait>>
    <3>1. h \in finished
      <4>1. <<h[1], who[h[1]]>> \in finished BY <1>i, <2>1, <2>3 DEF SlotsInv
      <4>2. h = <<h[1], h[2]>> BY SlotFacts
      <4> QED BY <2>1, <4>1, <4>2
    <3>2. WaitEndsWithItsCoroutine'
      BY <2>1, <2>2, <2>3, <3>1 DEF MainInv, WaitEndsWithItsCoroutine
    <3> QED BY <2>1, <2>2, <2>3, <3>2 DEF MainInv
  <2>4. ASSUME ~death[h[1]], occupied[h[1]],
               wait' = [wait EXCEPT ![cur] = h[1]],
               waitBy' = [waitBy EXCEPT ![h[1]] = cur],
               cur' = h[1],
               inWait' = [inWait EXCEPT ![cur] = h, ![h[1]] = NoHandle]
        PROVE  MainInv'
    <3>1. h[1] # Main
      <4>1. h \in finished => h[1] # Main BY <1>i DEF SlotsInv
      <4>2. who[h[1]] = h[2] => h[1] # cur BY <1>h, <1>i, <2>1, <2>2 DEF SlotsInv
      <4> QED BY <2>1, <2>2, <4>1, <4>2
    <3>2. /\ inWait'[Main] = h /\ wait'[Main] = h[1]
          /\ waitBy'[h[1]] = Main /\ (\A s \in Slots \ {h[1]} : waitBy'[s] = waitBy[s])
          /\ \A s \in Slots \ {Main} : inWait'[s] = inWait[s] \/ inWait'[s] = NoHandle
      BY <1>h, <1>t, <2>1, <2>2, <2>4, <3>1
    <3>3. inWait[Main] = NoHandle BY <1>i, <2>2 DEF WaitersInv
    <3>4. \A s \in Slots : ~(occupied[s] /\ waitBy[s] = Main) BY <2>2, <3>3 DEF MainInv
    <3>5. WaitEndsWithItsCoroutine'
      <4>1. \A g \in waited : g \in finished
        <5>1. \A s \in Slots : inWait[s] = NoHandle BY <2>2, <3>3 DEF MainInv
        <5> QED BY <1>h, <1>t, <2>2, <5>1 DEF MainInv, WaitEndsWithItsCoroutine
      <4> QED BY <1>h, <2>1, <3>2, <4>1 DEF WaitEndsWithItsCoroutine
    <3>6. \A s \in Slots \ {Main} : inWait'[s] = NoHandle BY <2>2, <3>2 DEF MainInv
    <3>7. \A s \in Slots : waitBy'[s] \in {0, Main} BY <2>2, <3>2 DEF MainInv
    <3>8. \A s \in Slots : occupied'[s] /\ waitBy'[s] = Main =>
            inWait'[Main] # NoHandle /\ inWait'[Main][1] = s
      BY <1>h, <2>1, <3>2, <3>4
    <3>9. LET g == inWait'[Main] IN
          /\ wait'[Main] # 0
          /\ occupied'[g[1]] /\ waitBy'[g[1]] = Main
          /\ who'[g[1]] = g[2] \/ g \in finished'
      <4>1. wait'[Main] # 0 BY <2>1, <3>2, SlotFacts
      <4>2. occupied'[h[1]] /\ waitBy'[h[1]] = Main BY <2>1, <2>4, <3>2
      <4>3. who'[h[1]] = h[2] \/ h \in finished' BY <2>1
      <4> QED BY <3>2, <4>1, <4>2, <4>3
    <3> QED BY <3>5, <3>6, <3>7, <3>8, <3>9 DEF MainInv
  <2> QED BY <2>1, <2>3, <2>4
<1>4. ASSUME NEW r \in Slots, Yield(r) PROVE MainInv'
  <2>1. /\ Running /\ UNCHANGED <<slotVars, no, who, starts, waited, finished>>
        /\ \/ r \in Runnable /\ Resume(r) /\ UNCHANGED mode
           \/ Runnable = {} /\ mode' = "spin" /\ UNCHANGED <<cur, inWait>>
        /\ strayed' = strayed \/ (strayed' = strayed \cup {"yield"} /\ "yield" \in Strayings)
    BY <1>4, YieldEffect
  <2>2. "nest" \notin strayed BY <2>1
  <2>3. inWait' = inWait
    <3>1. ASSUME r \in Runnable, Resume(r) PROVE inWait' = inWait
      <4>1. wait[r] = 0 BY <3>1 DEF Runnable
      <4>2. inWait[r] = NoHandle BY <2>2, <4>1 DEF MainInv
      <4> QED BY <1>t, <3>1, <4>2 DEF Resume
    <3> QED BY <2>1, <3>1
  <2> QED BY <2>1, <2>2, <2>3 DEF MainInv, WaitEndsWithItsCoroutine, slotVars
<1>5. ASSUME NEW r \in Slots, Finish(r) PROVE MainInv'
  <2>1. /\ Running /\ cur \in Slots /\ cur # Main /\ <<cur, who[cur]>> \in Handles
        /\ occupied' = [occupied EXCEPT ![cur] = FALSE]
        /\ finished' = finished \cup {<<cur, who[cur]>>}
        /\ UNCHANGED <<wait, waitBy, who, starts, waited, strayed>>
        /\ \/ waitBy[cur] # 0 /\ Resume(waitBy[cur]) /\ UNCHANGED mode
           \/ waitBy[cur] = 0 /\ r \in Runnable \ {cur} /\ Resume(r) /\ UNCHANGED mode
           \/ waitBy[cur] = 0 /\ Runnable \ {cur} = {} /\ mode' = "spin" /\ UNCHANGED <<cur, inWait>>
    BY <1>5, FinishEffect
  <2>2. "nest" \notin strayed BY <2>1
  <2>3. occupied[cur] /\ inWait[cur] = NoHandle BY <2>1, RunningAlive
  <2>4. /\ ~occupied'[cur] /\ \A s \in Slots \ {cur} : occupied'[s] = occupied[s]
    BY <1>t, <2>1
  <2>5. CASE waitBy[cur] # 0
    <3>1. waitBy[cur] = Main /\ Resume(Main) BY <2>1, <2>2, <2>5 DEF MainInv
    <3>2. inWait'[Main] = NoHandle /\ \A s \in Slots \ {Main} : inWait'[s] = inWait[s]
      BY <1>h, <1>t, <3>1 DEF Resume
    <3>3. inWait[Main] # NoHandle /\ inWait[Main][1] = cur BY <2>1, <2>2, <2>3, <3>1 DEF MainInv
    <3>4. PICK h \in Handles : h = inWait[Main] BY <1>h, <1>t, <3>3
    <3>5. h \in finished'
      <4>1. who[cur] = h[2] \/ h \in finished BY <2>2, <3>3, <3>4 DEF MainInv
      <4>2. h = <<cur, h[2]>> BY <3>3, <3>4, SlotFacts
      <4> QED BY <2>1, <4>1, <4>2
    <3>6. WaitEndsWithItsCoroutine'
      <4> SUFFICES ASSUME NEW g \in waited, g \notin finished'
                   PROVE  \E s \in Slots : inWait'[s] = g
        BY <2>1 DEF WaitEndsWithItsCoroutine
      <4>1. PICK s \in Slots : inWait[s] = g
        BY <2>1, <2>2 DEF MainInv, WaitEndsWithItsCoroutine
      <4>2. s # Main BY <3>4, <3>5, <4>1
      <4> QED BY <3>2, <4>1, <4>2
    <3>7. \A s \in Slots \ {Main} : inWait'[s] = NoHandle BY <2>2, <3>2 DEF MainInv
    <3>8. \A s \in Slots : ~(occupied'[s] /\ waitBy'[s] = Main)
      BY <2>1, <2>2, <2>4, <3>3 DEF MainInv
    <3> QED BY <2>1, <2>2, <3>2, <3>6, <3>7, <3>8 DEF MainInv
  <2>6. CASE waitBy[cur] = 0
    <3>1. inWait' = inWait
      <4>1. ASSUME r \in Runnable, Resume(r) PROVE inWait' = inWait
        <5>1. wait[r] = 0 BY <4>1 DEF Runnable
        <5>2. inWait[r] = NoHandle BY <2>2, <5>1 DEF MainInv
        <5> QED BY <1>t, <4>1, <5>2 DEF Resume
      <4> QED BY <2>1, <2>6, <4>1
    <3>2. WaitEndsWithItsCoroutine' BY <2>1, <2>2, <3>1 DEF MainInv, WaitEndsWithItsCoroutine
    <3>3. \A s \in Slots : occupied'[s] /\ waitBy'[s] = Main =>
            inWait'[Main] # NoHandle /\ inWait'[Main][1] = s
      BY <2>1, <2>2, <2>4, <3>1 DEF MainInv
    <3>4. ASSUME inWait'[Main] # NoHandle
          PROVE  LET h == inWait'[Main] IN
                 /\ wait'[Main] # 0
                 /\ occupied'[h[1]] /\ waitBy'[h[1]] = Main
                 /\ who'[h[1]] = h[2] \/ h \in finished'
      <4>1. PICK h \in Handles : h = inWait[Main] BY <1>h, <1>t, <3>1, <3>4
      <4>2. /\ wait[Main] # 0
            /\ occupied[h[1]] /\ waitBy[h[1]] = Main
            /\ who[h[1]] = h[2] \/ h \in finished
        BY <2>2, <3>1, <3>4, <4>1 DEF MainInv
      <4>3. h[1] # cur /\ h[1] \in Slots BY <1>h, <2>6, <4>2
      <4> QED BY <2>1, <2>4, <3>1, <4>1, <4>2, <4>3
    <3> QED BY <2>1, <2>2, <3>1, <3>2, <3>3, <3>4 DEF MainInv
  <2> QED BY <2>5, <2>6
<1> QED BY <1>1, <1>2, <1>3, <1>4, <1>5 DEF Next

\* co.c:136: as long as only main waits, its co_wait does not return before the
\* coroutine it named has finished.
THEOREM LibcoWaitsOfMain == Spec => []WaitsOfMainEndRight
<1>1. MainInv => WaitsOfMainEndRight BY DEF MainInv, WaitsOfMainEndRight
<1> QED BY <1>1, MainInit, MainStep, CoInvariant, PTL DEF Spec
=============================================================================
