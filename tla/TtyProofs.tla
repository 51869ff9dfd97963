----------------------------- MODULE TtyProofs -----------------------------
(***************************************************************************)
(* Machine-checked proofs about Tty (and Input, which it extends), for     *)
(* every size of the ring, the screen and the queues, and every number of  *)
(* terminals and shells.                                                   *)
(***************************************************************************)
EXTENDS Tty, DataLemmas

\* What an event carries, and what is written: an echo, a prompt, or nothing.
Data == (Chars \cup {"none", "LF"}) \ {Nul}
Alphabet == Data \cup {Nul}
Texts == {<<>>, Prompt} \cup {<<c>> : c \in Alphabet \cup {"BS"}}

Event == [ctrl : {0, 1}, alt : {0, 1}, data : Alphabet]
Ring == [events : [0..(NEvents - 1) -> Event], front : 0..(NEvents - 1), rear : 0..(NEvents - 1)]

InputTyped ==
  /\ keys \in Seq(Code) /\ typed \in 0..MaxKeys
  /\ irqs \in Nat /\ sem_kbdirq \in Nat /\ event_sem \in Nat
  /\ ring \in Ring
  /\ input \in [at : {"poll", "push", "wait", "signal"}, event : Event]
  /\ mode \in {"run", "panic"}

ShellPlaces == {"write", "draw", "wait cooked", "read"}
TaskPlaces == {"idle", "pop", "cook", "write", "draw"}

\* A shell works for its terminal; what tty_task cooks is one character; rows
\* count the progress of tty_render.
JobsTyped ==
  /\ job \in [Tasks -> [at : Places, tty : Ttys, text : Texts, row : Rows]]
  /\ \A t \in Shells : job[t].tty = t /\ job[t].at \in ShellPlaces
  /\ job[Task].at \in TaskPlaces
  /\ job[Task].at = "cook" => job[Task].text \in {<<c>> : c \in Alphabet}
  /\ \A p \in Tasks : job[p].at # "draw" => job[p].row = 0

Queue == [buf : [0..(CookBuf - 1) -> Alphabet], front : 0..(CookBuf - 1), rear : 0..(CookBuf - 1)]

TtysTyped ==
  /\ current \in Ttys
  /\ lock \in [Ttys -> 0..1] /\ cooked \in [Ttys -> Nat] /\ breaks \in [Ttys -> Nat]
  /\ queue \in [Ttys -> Queue]
  /\ cursor \in [Ttys -> 0..(Size - 1)] /\ stale \in [Ttys -> SUBSET Rows] /\ screen \in [Rows -> Ttys]
  /\ lines \in [Ttys -> Seq(Seq(Data))] /\ partial \in [Ttys -> Seq(Data)]

\* The end of a queue is marked.
EndsMarked == \A t \in Ttys : queue[t].buf[queue[t].rear] = Nul

TtyInv == InputTyped /\ JobsTyped /\ TtysTyped /\ EndsMarked

If(condition) == IF condition THEN 1 ELSE 0

\* The reads that are still to come and the pieces that will be left.
Due(t) == cooked[t] + breaks[t]

\* Every code of the keyboard is one interrupt, and at most one event and one piece.
KeysBound ==
  /\ irqs + sem_kbdirq <= typed
  /\ \A t \in Ttys :
       Len(keys) + If(input.at \in {"push", "signal"}) + event_sem
         + If(job[Task].at \in {"pop", "cook"}) + Due(t) <= typed

\* Some task is about to draw all of terminal t.
Pending(t) ==
  \E p \in Tasks : job[p].tty = t /\ (job[p].at = "write" \/ (job[p].at = "draw" /\ job[p].row = 0))

\* p is in the middle of drawing terminal t.
Drawing(p, t) == job[p].tty = t /\ job[p].at = "draw" /\ job[p].row > 0

Shown(r) == screen[r] = current /\ r \notin stale[current]

\* One task at a time draws a terminal.  Of the terminal that is selected, the
\* rows are shown that were drawn, or it will be drawn again.
ScreenInv ==
  /\ \A t \in Ttys : lock[t] = 1 => \A p \in Tasks : ~Drawing(p, t)
  /\ \A t \in Ttys : \A p, u \in Tasks : Drawing(p, t) /\ Drawing(u, t) => p = u
  /\ \/ Pending(current)
     \/ \E p \in Tasks : Drawing(p, current) /\ \A r \in 0..(job[p].row - 1) : Shown(r)
     \/ (\A p \in Tasks : ~Drawing(p, current)) /\ \A r \in Rows : Shown(r)

-----------------------------------------------------------------------------
(* The types.                                                               *)

LEMMA Sizes ==
  /\ NEvents \in Nat /\ NEvents > 1 /\ CookBuf \in Nat /\ CookBuf > 1 /\ MaxKeys \in Nat
  /\ Lines \in Nat \ {0} /\ Columns \in Nat \ {0} /\ Size \in Nat \ {0} /\ Columns <= Size
  /\ 0 \in Rows /\ First \in Ttys /\ Shells \subseteq Ttys
  /\ Task \in Tasks /\ Task \notin Shells /\ Task \notin Ttys
<1>1. Lines \in Nat \ {0} /\ Columns \in Nat \ {0} BY TtyAssumption
<1>2. 1 * Columns <= Lines * Columns /\ Lines * Columns \in Nat
  BY <1>1, MultiplesInOrder
<1> QED BY <1>1, <1>2, InputAssumption, TtyAssumption, NameAssumption DEF Size, Rows, Tasks

\* The next cursor is on the screen, or at its end.
LEMMA MovedTyped ==
  ASSUME NEW c \in 0..(Size - 1), NEW ch
  PROVE  Moved(c, ch) \in 0..Size
<1> DEFINE q == c \div Columns
<1>1. c \in Nat /\ c < Lines * Columns /\ Lines \in Nat /\ Columns \in Nat \ {0} /\ Size = Lines * Columns
  BY Sizes DEF Size
<1>2. q \in Nat /\ c % Columns \in Nat /\ c - (c % Columns) \in Nat /\ c = q * Columns + (c % Columns)
  BY <1>1, DivMod
<1>3. q * Columns \in Nat BY <1>1, <1>2, MultiplesInOrder
<1>4. q * Columns < Lines * Columns BY <1>1, <1>2, <1>3, Sizes DEF Size
<1>5. q + 1 <= Lines /\ q + 1 \in Nat BY <1>1, <1>2, <1>4, LessByFactor
<1>6. (q + 1) * Columns <= Size /\ (q + 1) * Columns = q * Columns + Columns
  BY <1>1, <1>2, <1>5, MultiplesInOrder
<1>7. LineStart(c) = q * Columns BY <1>1, <1>2, <1>3 DEF LineStart
<1> HIDE DEF q
<1>8. LineStart(c) \in 0..Size /\ LineStart(c) + Columns \in 0..Size
  BY <1>1, <1>3, <1>6, <1>7, Sizes
<1>9. c \in 0..Size /\ c + 1 \in 0..Size /\ (c > 0 => c - 1 \in 0..Size) BY Sizes
<1> QED BY <1>8, <1>9 DEF Moved

LEMMA RowTyped == ASSUME NEW c \in 0..(Size - 1) PROVE RowOf(c) \in Rows
<1> DEFINE q == c \div Columns
<1>1. c \in Nat /\ c < Lines * Columns /\ Lines \in Nat /\ Columns \in Nat \ {0} /\ Lines * Columns \in Nat
  BY Sizes DEF Size
<1>2. q \in Nat /\ c % Columns \in Nat /\ c - (c % Columns) \in Nat /\ c = q * Columns + (c % Columns)
  BY <1>1, DivMod
<1>3. q * Columns \in Nat BY <1>1, <1>2, MultiplesInOrder
<1>4. q * Columns < Lines * Columns BY <1>1, <1>2, <1>3
<1>5. q < Lines BY <1>1, <1>2, <1>4, LessByFactor
<1> HIDE DEF q
<1>6. q \in Rows BY <1>1, <1>2, <1>5 DEF Rows
<1> QED BY <1>6 DEF RowOf, q

Spot == [cursor : 0..(Size - 1), rows : SUBSET Rows]

LEMMA PutcTyped == ASSUME NEW at \in Spot, NEW ch PROVE Putc(at, ch) \in Spot
<1> DEFINE to == Moved(at.cursor, ch)
<1>1. at.cursor \in 0..(Size - 1) /\ at.rows \in SUBSET Rows BY DEF Spot
<1>2. to \in 0..Size BY <1>1, MovedTyped
<1>3. RowOf(at.cursor) \in Rows BY <1>1, RowTyped
<1> HIDE DEF to
<1>4. CASE to = Size
  <2>1. to - Columns \in 0..(Size - 1) BY <1>4, Sizes
  <2>2. [cursor |-> to - Columns, rows |-> Rows] \in Spot BY <2>1 DEF Spot
  <2> QED BY <1>4, <2>2 DEF Putc, to
<1>5. CASE to # Size
  <2>1. to \in 0..(Size - 1) BY <1>2, <1>5, Sizes
  <2>2. RowOf(to) \in Rows BY <2>1, RowTyped
  <2>3. [cursor |-> to, rows |-> at.rows \cup {RowOf(at.cursor), RowOf(to)}] \in Spot
    BY <1>1, <1>3, <2>1, <2>2 DEF Spot
  <2> QED BY <1>5, <2>3 DEF Putc, to
<1> QED BY <1>4, <1>5

\* tty_write leaves the cursor on the screen, however much it writes and scrolls.
LEMMA WrittenTyped ==
  ASSUME NEW base \in Spot, NEW N \in Nat, NEW text, DOMAIN text = 1..N
  PROVE  FoldLeft(Putc, base, text) \in Spot
<1> DEFINE Step(y, k) == Putc(y, text[k])
           G == [p \in Spot \X (1..N) |-> Step(p[1], p[2])]
           Fold(f) == [s \in SUBSET (1..N) |->
                         IF s = {} THEN base ELSE Step(f[s \ {Max(s)}], Max(s))]
           it == CHOOSE f : f = Fold(f)
<1>1. FoldLeft(Putc, base, text) = it[1..N] BY DEF FoldLeft, MapThenFoldSet
<1>2. \A y \in Spot : \A k \in 1..N : Step(y, k) \in Spot BY PutcTyped
<1> HIDE DEF Step
<1>3. G \in [Spot \X (1..N) -> Spot] BY <1>2
<1>4. \A y \in Spot : \A k \in 1..N : G[<<y, k>>] = Step(y, k) OBVIOUS
<1> HIDE DEF G, Fold, it
<1>5. PICK f \in [SUBSET (1..N) -> Spot] : IsFold(f, N, base, G) BY <1>3, FoldExists
<1>6. f = Fold(f)
  <2>1. \A s \in SUBSET (1..N) : s # {} => Max(s) \in 1..N /\ f[s \ {Max(s)}] \in Spot
    BY MaxInInterval
  <2>2. \A s \in SUBSET (1..N) :
          f[s] = IF s = {} THEN base ELSE Step(f[s \ {Max(s)}], Max(s))
    BY <1>4, <1>5, <2>1 DEF IsFold
  <2> QED BY <2>2 DEF Fold
<1>7. it = Fold(it) BY <1>6 DEF it
<1>8. it[{}] \in Spot
  <2>1. {} \in SUBSET (1..N) OBVIOUS
  <2>2. it[{}] = base BY <1>7, <2>1 DEF Fold
  <2> QED BY <2>2
<1>9. ASSUME NEW k \in 1..N, it[1..(k - 1)] \in Spot PROVE it[1..k] \in Spot
  <2>0. k \in Nat \ {0} OBVIOUS
  <2>1. 1..k # {} /\ Max(1..k) = k /\ (1..k) \ {Max(1..k)} = 1..(k - 1)
    BY <2>0, LastOfInterval
  <2>2. 1..k \in SUBSET (1..N) OBVIOUS
  <2>3. it[1..k] = Step(it[1..(k - 1)], k) BY <1>7, <2>1, <2>2 DEF Fold
  <2> QED BY <1>2, <1>9, <2>3
<1>10. \A k \in 0..N : it[1..k] \in Spot BY <1>8, <1>9, FoldMembers
<1> QED BY <1>1, <1>10

\* Everything that is written is a sequence.
LEMMA TextDomain ==
  ASSUME NEW text \in Texts
  PROVE  \E N \in Nat : DOMAIN text = 1..N
<1>1. \E N \in Nat : DOMAIN Prompt = 1..N
  <2>1. Prompt \in Seq(STRING) BY TtyAssumption
  <2>2. Len(Prompt) \in Nat /\ DOMAIN Prompt = 1..Len(Prompt) BY <2>1, LenProperties
  <2> QED BY <2>2
<1>2. DOMAIN <<>> = 1..0 /\ 0 \in Nat OBVIOUS
<1>3. \A c : DOMAIN <<c>> = 1..1 OBVIOUS
<1>4. 1 \in Nat OBVIOUS
<1> QED BY <1>1, <1>2, <1>3, <1>4 DEF Texts

LEMMA TypeInit == Init => TtyInv
<1> SUFFICES ASSUME Init PROVE TtyInv OBVIOUS
<1> USE Sizes DEF Init, InputInit
<1>1. NoEvent \in Event BY DEF NoEvent, Event, Data, Alphabet, Nul
<1>2. InputTyped
  <2>1. <<>> \in Seq(Code) OBVIOUS
  <2>2. ring \in Ring BY <1>1 DEF Ring
  <2>3. input \in [at : {"poll", "push", "wait", "signal"}, event : Event] BY <1>1
  <2> QED BY <2>1, <2>2, <2>3 DEF InputTyped
<1>3. JobsTyped
  <2>1. <<>> \in Texts /\ Prompt \in Texts BY DEF Texts
  <2>2. \A p \in Tasks : job[p] = IF p = Task THEN Job("draw", First, <<>>) ELSE Job("write", p, Prompt)
    OBVIOUS
  <2>3. \A t \in Ttys : /\ Job("draw", t, <<>>) \in [at : Places, tty : Ttys, text : Texts, row : Rows]
                        /\ Job("write", t, Prompt) \in [at : Places, tty : Ttys, text : Texts, row : Rows]
    BY <2>1 DEF Job, Places
  <2>4. \A p \in Tasks : p # Task => p \in Shells /\ p \in Ttys BY DEF Tasks
  <2>5. job \in [Tasks -> [at : Places, tty : Ttys, text : Texts, row : Rows]] BY <2>3, <2>4
  <2>6. job[Task].at = "draw" /\ job[Task].row = 0 BY <2>2 DEF Job
  <2>7. \A t \in Shells : t \in Tasks /\ job[t].tty = t /\ job[t].at = "write" /\ job[t].row = 0
    BY <2>2 DEF Job, Tasks
  <2>8. \A p \in Tasks : job[p].row = 0 BY <2>4, <2>6, <2>7
  <2> QED BY <2>5, <2>6, <2>7, <2>8 DEF JobsTyped, ShellPlaces, TaskPlaces
<1>4. TtysTyped
  <2>1. <<>> \in Seq(Seq(Data)) /\ <<>> \in Seq(Data) OBVIOUS
  <2>2. [buf |-> [i \in 0..(CookBuf - 1) |-> Nul], front |-> 0, rear |-> 0] \in Queue BY DEF Queue, Alphabet
  <2>3. queue \in [Ttys -> Queue] BY <2>2
  <2>4. lock \in [Ttys -> 0..1] /\ cooked \in [Ttys -> Nat] /\ breaks \in [Ttys -> Nat] OBVIOUS
  <2>5. cursor \in [Ttys -> 0..(Size - 1)] /\ stale \in [Ttys -> SUBSET Rows] /\ screen \in [Rows -> Ttys]
    OBVIOUS
  <2>6. current \in Ttys /\ lines \in [Ttys -> Seq(Seq(Data))] /\ partial \in [Ttys -> Seq(Data)] BY <2>1
  <2> QED BY <2>3, <2>4, <2>5, <2>6 DEF TtysTyped
<1>5. EndsMarked BY DEF EndsMarked
<1> QED BY <1>2, <1>3, <1>4, <1>5 DEF TtyInv

\* What a push to the ring and a pop from it do.
LEMMA PushEffect ==
  ASSUME TtyInv, Push
  PROVE  /\ ring' \in Ring /\ ring'.front = ring.front /\ ring'.rear = (ring.rear + 1) % NEvents
         /\ input'.at = "signal" /\ input' \in [at : {"poll", "push", "wait", "signal"}, event : Event]
         /\ mode = "run" /\ mode' \in {"run", "panic"}
         /\ mode' = "run" <=> ring'.rear # ring'.front
<1> USE Sizes
<1>1. /\ ring.events \in [0..(NEvents - 1) -> Event] /\ ring.front \in 0..(NEvents - 1)
      /\ ring.rear \in 0..(NEvents - 1) /\ ring \in Ring
      /\ input \in [at : {"poll", "push", "wait", "signal"}, event : Event] /\ input.event \in Event
  BY DEF TtyInv, InputTyped, Ring
<1>0. NEvents \in Nat \ {0} /\ ring.rear + 1 \in Nat BY <1>1
<1>2. (ring.rear + 1) % NEvents \in 0..(NEvents - 1) BY <1>0, ModRange
<1>3. ring' = [ring EXCEPT !.events[ring.rear] = input.event, !.rear = (@ + 1) % NEvents] BY DEF Push
<1>4. ring' = [events |-> [ring.events EXCEPT ![ring.rear] = input.event],
               front |-> ring.front, rear |-> (ring.rear + 1) % NEvents]
  BY <1>1, <1>3 DEF Ring
<1>5. [ring.events EXCEPT ![ring.rear] = input.event] \in [0..(NEvents - 1) -> Event] BY <1>1
<1>6. ring' \in Ring BY <1>1, <1>2, <1>4, <1>5 DEF Ring
<1>7. input'.at = "signal" /\ input' \in [at : {"poll", "push", "wait", "signal"}, event : Event]
  BY <1>1 DEF Push
<1> QED BY <1>4, <1>6, <1>7 DEF Push

LEMMA PopEffect ==
  ASSUME TtyInv, Pop
  PROVE  /\ ring' \in Ring /\ ring'.rear = ring.rear /\ Popped \in Event
         /\ mode = "run"
         /\ \/ ring.rear = ring.front /\ mode' = "panic" /\ ring' = ring
            \/ ring.rear # ring.front /\ mode' = "run" /\ ring'.front = (ring.front + 1) % NEvents
<1> USE Sizes
<1>1. /\ ring.events \in [0..(NEvents - 1) -> Event] /\ ring.front \in 0..(NEvents - 1)
      /\ ring.rear \in 0..(NEvents - 1) /\ ring \in Ring
  BY DEF TtyInv, InputTyped, Ring
<1>0. NEvents \in Nat \ {0} /\ ring.front + 1 \in Nat BY <1>1
<1>2. (ring.front + 1) % NEvents \in 0..(NEvents - 1) BY <1>0, ModRange
<1>3. Popped \in Event BY <1>1 DEF Popped
<1>4. CASE ring.rear = ring.front BY <1>1, <1>3, <1>4 DEF Pop
<1>5. CASE ring.rear # ring.front
  <2>1. ring' = [ring EXCEPT !.front = (@ + 1) % NEvents] /\ mode' = mode /\ mode = "run"
    BY <1>5 DEF Pop
  <2>2. ring'.front = (ring.front + 1) % NEvents /\ ring'.rear = ring.rear /\ ring' \in Ring
    BY <1>1, <1>2, <2>1 DEF Ring
  <2> QED BY <1>3, <1>5, <2>1, <2>2
<1> QED BY <1>4, <1>5

\* The keyboard and input_task.
LEMMA InputTypeStep ==
  ASSUME TtyInv, Hardware \/ Input_task
  PROVE  TtyInv'
<1>1. UNCHANGED ttyVars BY DEF Hardware, Input_task
<1>2. JobsTyped' BY <1>1 DEF TtyInv, JobsTyped, ttyVars
<1>3. TtysTyped' BY <1>1 DEF TtyInv, TtysTyped, ttyVars
<1>4. EndsMarked' BY <1>1 DEF TtyInv, EndsMarked, ttyVars
<1>5. /\ keys \in Seq(Code) /\ typed \in 0..MaxKeys
      /\ irqs \in Nat /\ sem_kbdirq \in Nat /\ event_sem \in Nat
      /\ ring \in Ring /\ input \in [at : {"poll", "push", "wait", "signal"}, event : Event]
      /\ mode \in {"run", "panic"}
  BY DEF TtyInv, InputTyped
<1>6. ASSUME Type PROVE InputTyped'
  <2>0. typed + 1 \in 1..MaxKeys BY <1>5, <1>6, Sizes DEF Type
  <2>1. Codes[typed + 1] \subseteq Code BY <2>0, InputAssumption
  <2>2. keys' \in Seq(Code) /\ typed + 1 \in 0..MaxKeys BY <1>5, <1>6, <2>0, <2>1 DEF Type
  <2> QED BY <1>5, <1>6, <2>2 DEF InputTyped, Type
<1>7. ASSUME Notify PROVE InputTyped' BY <1>5, <1>7, Sizes DEF InputTyped, Notify
<1>8. ASSUME Keydown PROVE InputTyped'
  <2>1. Tail(keys) \in Seq(Code) /\ Head(keys) \in Code BY <1>5, <1>8 DEF Keydown
  <2>2. ASSUME Head(keys).key \in Chars PROVE EventOf(Head(keys).key) \in Event
    BY <2>2 DEF EventOf, Shifted, Event, Data, Alphabet
  <2>3. input' \in [at : {"poll", "push", "wait", "signal"}, event : Event]
    BY <1>5, <1>8, <2>2 DEF Keydown
  <2>4. keys' \in Seq(Code) BY <1>8, <2>1 DEF Keydown
  <2>5. UNCHANGED <<typed, irqs, sem_kbdirq, event_sem, ring, mode>> BY <1>8 DEF Keydown
  <2> QED BY <1>5, <2>3, <2>4, <2>5, Sizes DEF InputTyped
<1>9. ASSUME Idle PROVE InputTyped' BY <1>5, <1>9, Sizes DEF InputTyped, Idle
<1>10. ASSUME WaitKbdirq PROVE InputTyped' BY <1>5, <1>10, Sizes DEF InputTyped, WaitKbdirq
<1>11. ASSUME Push PROVE InputTyped'
  <2>1. ring' \in Ring /\ input' \in [at : {"poll", "push", "wait", "signal"}, event : Event]
        /\ mode' \in {"run", "panic"}
    BY <1>11, PushEffect
  <2>2. UNCHANGED <<keys, typed, irqs, sem_kbdirq, event_sem>> BY <1>11 DEF Push
  <2> QED BY <1>5, <2>1, <2>2, Sizes DEF InputTyped
<1>12. ASSUME SignalEvent PROVE InputTyped'
  <2>1. NoEvent \in Event BY DEF NoEvent, Event, Data, Alphabet, Nul
  <2> QED BY <1>5, <1>12, <2>1, Sizes DEF InputTyped, SignalEvent
<1> QED
  BY <1>2, <1>3, <1>4, <1>6, <1>7, <1>8, <1>9, <1>10, <1>11, <1>12
  DEF TtyInv, Hardware, Input_task, InputTask

\* What a task goes on with.
LEMMA JobTyped ==
  ASSUME JobsTyped, NEW p \in Tasks,
         NEW at \in Places, NEW tty \in Ttys, NEW text \in Texts,
         p \in Shells => tty = p /\ at \in ShellPlaces,
         p = Task => at \in TaskPlaces,
         at = "cook" => text \in {<<c>> : c \in Alphabet},
         job' = [job EXCEPT ![p] = Job(at, tty, text)]
  PROVE  JobsTyped'
<1>1. job \in [Tasks -> [at : Places, tty : Ttys, text : Texts, row : Rows]] BY DEF JobsTyped
<1>2. Job(at, tty, text) \in [at : Places, tty : Ttys, text : Texts, row : Rows] BY Sizes DEF Job
<1>3. job' \in [Tasks -> [at : Places, tty : Ttys, text : Texts, row : Rows]] BY <1>1, <1>2
<1>4. \A u \in Tasks : job'[u] = IF u = p THEN Job(at, tty, text) ELSE job[u] BY <1>1
<1>5. Task \in Tasks /\ Task \notin Shells /\ Shells \subseteq Tasks BY Sizes DEF Tasks
<1>6. \A t \in Shells : job'[t].tty = t /\ job'[t].at \in ShellPlaces
  BY <1>4, <1>5 DEF JobsTyped, Job
<1>7. job'[Task].at \in TaskPlaces /\ (job'[Task].at = "cook" => job'[Task].text \in {<<c>> : c \in Alphabet})
  BY <1>4, <1>5 DEF JobsTyped, Job
<1>8. \A u \in Tasks : job'[u].at # "draw" => job'[u].row = 0 BY <1>4 DEF JobsTyped, Job
<1> QED BY <1>3, <1>6, <1>7, <1>8 DEF JobsTyped

LEMMA GoesTyped ==
  ASSUME JobsTyped, NEW p \in Tasks, NEW at \in Places, at \notin {"cook", "draw"},
         p \in Shells => at \in ShellPlaces, p = Task => at \in TaskPlaces,
         job[p].at # "draw", Goes(p, at)
  PROVE  JobsTyped'
<1>1. job \in [Tasks -> [at : Places, tty : Ttys, text : Texts, row : Rows]] BY DEF JobsTyped
<1>3. job' \in [Tasks -> [at : Places, tty : Ttys, text : Texts, row : Rows]] BY <1>1 DEF Goes
<1>4. \A u \in Tasks : /\ u # p => job'[u] = job[u]
                       /\ job'[u].tty = job[u].tty /\ job'[u].row = job[u].row
                       /\ job'[p].at = at
  BY <1>1 DEF Goes
<1>5. Task \in Tasks /\ Task \notin Shells /\ Shells \subseteq Tasks BY Sizes DEF Tasks
<1>6. \A t \in Shells : job'[t].tty = t /\ job'[t].at \in ShellPlaces
  BY <1>4, <1>5 DEF JobsTyped
<1>7. job'[Task].at \in TaskPlaces /\ (job'[Task].at = "cook" => job'[Task].text \in {<<c>> : c \in Alphabet})
  BY <1>4, <1>5 DEF JobsTyped
<1>8. \A u \in Tasks : job'[u].at # "draw" => job'[u].row = 0 BY <1>4 DEF JobsTyped
<1> QED BY <1>3, <1>6, <1>7, <1>8 DEF JobsTyped

\* The steps that only look at the keyboard's side leave it as it is.
LEMMA InputKept ==
  ASSUME InputTyped, UNCHANGED <<keys, typed, irqs, sem_kbdirq, event_sem, held, ring, input>>,
         mode' \in {"run", "panic"}
  PROVE  InputTyped'
BY DEF InputTyped

LEMMA TakeEventTypes == ASSUME TtyInv, TakeEvent PROVE TtyInv'
<1>1. InputTyped' BY DEF TakeEvent, WaitEvent, TtyInv, InputTyped
<1>2. JobsTyped'
  <2>1. Task \in Tasks /\ Task \notin Shells /\ job[Task].at # "draw" BY Sizes DEF TakeEvent, At
  <2>2. JobsTyped /\ Goes(Task, "pop") /\ "pop" \in Places /\ "pop" \in TaskPlaces
    BY DEF TakeEvent, TtyInv, Places, TaskPlaces
  <2> QED BY <2>1, <2>2, GoesTyped
<1>3. TtysTyped' BY DEF TakeEvent, TtyInv, TtysTyped
<1>4. EndsMarked' BY DEF TakeEvent, TtyInv, EndsMarked
<1> QED BY <1>1, <1>2, <1>3, <1>4 DEF TtyInv

LEMMA HandleTypes == ASSUME TtyInv, Handle PROVE TtyInv'
<1>1. Pop BY DEF Handle
<1>2. ring' \in Ring /\ Popped \in Event /\ mode' \in {"run", "panic"} BY <1>1, PopEffect DEF TtyInv, InputTyped
<1>3. InputTyped' BY <1>1, <1>2 DEF Pop, TtyInv, InputTyped
<1> DEFINE to == IF Popped.alt = 1 /\ Popped.data \in DOMAIN Switch THEN Switch[Popped.data] ELSE current
<1>4. to \in Ttys BY TtyAssumption DEF TtyInv, TtysTyped
<1>5. /\ current' = to
      /\ job' = [job EXCEPT ![Task] =
                   IF to # current THEN Job("write", to, <<>>)
                   ELSE IF Popped.ctrl = 0 /\ Popped.alt = 0 THEN Job("cook", current, <<Popped.data>>)
                   ELSE Job("idle", current, <<>>)]
      /\ UNCHANGED <<lock, cooked, queue, cursor, stale, screen, lines, partial, breaks>>
  BY DEF Handle
<1> HIDE DEF to
<1>6. JobsTyped'
  <2>1. Task \in Tasks /\ Task \notin Shells /\ JobsTyped /\ current \in Ttys
    BY Sizes DEF TtyInv, TtysTyped
  <2>2. <<>> \in Texts /\ <<Popped.data>> \in Texts /\ <<Popped.data>> \in {<<c>> : c \in Alphabet}
    BY <1>2 DEF Texts, Event
  <2>3. {"write", "cook", "idle"} \subseteq Places /\ {"write", "cook", "idle"} \subseteq TaskPlaces
    BY DEF Places, TaskPlaces
  <2>4. CASE to # current
    <3>1. job' = [job EXCEPT ![Task] = Job("write", to, <<>>)] BY <1>5, <2>4
    <3> QED BY <1>4, <2>1, <2>2, <2>3, <3>1, JobTyped
  <2>5. CASE to = current /\ Popped.ctrl = 0 /\ Popped.alt = 0
    <3>1. job' = [job EXCEPT ![Task] = Job("cook", current, <<Popped.data>>)] BY <1>5, <2>5
    <3> QED BY <1>4, <2>1, <2>2, <2>3, <3>1, JobTyped
  <2>6. CASE to = current /\ ~(Popped.ctrl = 0 /\ Popped.alt = 0)
    <3>1. job' = [job EXCEPT ![Task] = Job("idle", current, <<>>)] BY <1>5, <2>6
    <3> QED BY <1>4, <2>1, <2>2, <2>3, <3>1, JobTyped
  <2> QED BY <2>4, <2>5, <2>6
<1>7. TtysTyped' BY <1>4, <1>5 DEF TtyInv, TtysTyped
<1>8. EndsMarked' BY <1>5 DEF TtyInv, EndsMarked
<1> QED BY <1>3, <1>6, <1>7, <1>8 DEF TtyInv

\* tty_enqueue and tty_pop_back keep the form of a queue, and its mark.
LEMMA EnqueueTyped ==
  ASSUME NEW q \in Queue, NEW ch \in Alphabet
  PROVE  /\ Enqueue(q, ch) \in Queue /\ Enqueue(q, ch).buf[Enqueue(q, ch).rear] = Nul
         /\ After(q.rear) \in 0..(CookBuf - 1) /\ After(q.rear) # q.rear
<1>1. CookBuf \in Nat \ {0} /\ CookBuf > 1 /\ q.rear \in 0..(CookBuf - 1) /\ q.rear + 1 \in Nat
  BY Sizes DEF Queue
<1>2. After(q.rear) \in 0..(CookBuf - 1) BY <1>1, ModRange DEF After
<1>3. After(q.rear) # q.rear
  <2>1. CASE q.rear + 1 < CookBuf
    <3>1. q.rear + 1 \in 0..(CookBuf - 1) BY <1>1, <2>1
    <3>2. After(q.rear) = q.rear + 1 BY <1>1, <3>1, ModSmall DEF After
    <3> QED BY <1>1, <3>2
  <2>2. CASE q.rear + 1 = CookBuf
    <3>1. 0 \in 0..(CookBuf - 1) BY <1>1
    <3>2. (0 + CookBuf) % CookBuf = 0 BY <1>1, <3>1, ModWrap
    <3>3. After(q.rear) = 0 BY <1>1, <2>2, <3>2 DEF After
    <3> QED BY <1>1, <2>2, <3>3
  <2> QED BY <1>1, <2>1, <2>2
<1>4. [q.buf EXCEPT ![q.rear] = ch, ![After(q.rear)] = Nul] \in [0..(CookBuf - 1) -> Alphabet]
  BY <1>1, <1>2 DEF Queue, Alphabet
<1>5. [q.buf EXCEPT ![q.rear] = ch, ![After(q.rear)] = Nul][After(q.rear)] = Nul
  BY <1>2, <1>3 DEF Queue
<1> QED BY <1>1, <1>2, <1>3, <1>4, <1>5 DEF Enqueue, Queue

LEMMA BeforeTyped == ASSUME NEW i \in 0..(CookBuf - 1) PROVE Before(i) \in 0..(CookBuf - 1)
<1>1. CookBuf \in Nat \ {0} /\ i + CookBuf - 1 \in Nat BY Sizes
<1> QED BY <1>1, ModRange DEF Before

LEMMA PopBackTyped ==
  ASSUME NEW q \in Queue, q.buf[q.rear] = Nul
  PROVE  PopBack(q) \in Queue /\ PopBack(q).buf[PopBack(q).rear] = Nul
<1>1. q.rear \in 0..(CookBuf - 1) BY DEF Queue
<1>2. Before(q.rear) \in 0..(CookBuf - 1) BY <1>1, BeforeTyped
<1>3. CASE q.buf[Before(q.rear)] = Nul BY <1>3 DEF PopBack
<1>4. CASE q.buf[Before(q.rear)] # Nul
  <2> DEFINE r == [buf |-> [q.buf EXCEPT ![Before(q.rear)] = Nul], front |-> q.front, rear |-> Before(q.rear)]
  <2>1. PopBack(q) = r BY <1>4 DEF PopBack, Queue
  <2>2. r.buf \in [0..(CookBuf - 1) -> Alphabet] /\ r.buf[r.rear] = Nul BY <1>2 DEF Queue, Alphabet
  <2>3. r \in Queue BY <1>2, <2>2 DEF Queue
  <2> QED BY <2>1, <2>2, <2>3
<1> QED BY <1>3, <1>4

\* What tty_task has cooked, and its terminal.
LEMMA CookedTypes ==
  ASSUME TtyInv, NEW t \in Ttys, NEW q \in Queue, q.buf[q.rear] = Nul, NEW echo \in Texts,
         Cooked(t, q, echo), mode' \in {"run", "panic"},
         cooked' \in [Ttys -> Nat], breaks' \in [Ttys -> Nat],
         lines' \in [Ttys -> Seq(Seq(Data))], partial' \in [Ttys -> Seq(Data)]
  PROVE  TtyInv'
<1>1. InputTyped' BY InputKept DEF Cooked, TtyInv
<1>2. JobsTyped'
  <2>1. Task \in Tasks /\ Task \notin Shells /\ JobsTyped /\ <<>> \in Texts
    BY Sizes DEF TtyInv, Texts
  <2>2. {"write", "idle"} \subseteq Places /\ {"write", "idle"} \subseteq TaskPlaces
    BY DEF Places, TaskPlaces
  <2>3. CASE echo = <<>>
    <3>1. job' = [job EXCEPT ![Task] = Job("idle", t, <<>>)] BY <2>3 DEF Cooked
    <3> QED BY <2>1, <2>2, <3>1, JobTyped
  <2>4. CASE echo # <<>>
    <3>1. job' = [job EXCEPT ![Task] = Job("write", t, echo)] BY <2>4 DEF Cooked
    <3> QED BY <2>1, <2>2, <3>1, JobTyped
  <2> QED BY <2>3, <2>4
<1>3. TtysTyped' BY DEF Cooked, TtyInv, TtysTyped
<1>4. EndsMarked' BY DEF Cooked, TtyInv, TtysTyped, EndsMarked
<1> QED BY <1>1, <1>2, <1>3, <1>4 DEF TtyInv

\* What is cooked, and where.
LEMMA CookFacts ==
  ASSUME TtyInv, Holding(Task, "cook")
  PROVE  /\ job[Task].tty \in Ttys /\ queue[job[Task].tty] \in Queue
         /\ queue[job[Task].tty].buf[queue[job[Task].tty].rear] = Nul
         /\ Head(job[Task].text) \in Alphabet /\ job[Task].text \in Texts
         /\ job[Task].text = <<Head(job[Task].text)>>
<1>1. job[Task].at = "cook" /\ Task \in Tasks BY Sizes DEF Holding, At
<1>2. job[Task].tty \in Ttys /\ job[Task].text \in Texts /\ job[Task].text \in {<<c>> : c \in Alphabet}
  BY <1>1 DEF TtyInv, JobsTyped
<1>3. PICK c \in Alphabet : job[Task].text = <<c>> BY <1>2
<1> QED BY <1>2, <1>3 DEF TtyInv, TtysTyped, EndsMarked

LEMMA EndedTypes ==
  ASSUME TtyInv, NEW t \in Ttys, NEW piece \in Seq(Data), Ended(t, piece)
  PROVE  lines' \in [Ttys -> Seq(Seq(Data))] /\ partial' \in [Ttys -> Seq(Data)]
<1>1. partial \in [Ttys -> Seq(Data)] /\ lines \in [Ttys -> Seq(Seq(Data))] BY DEF TtyInv, TtysTyped
<1>2. Append(lines[t], piece) \in Seq(Seq(Data)) BY <1>1
<1> QED BY <1>1, <1>2 DEF Ended

LEMMA CookCharTypes == ASSUME TtyInv, CookChar PROVE TtyInv'
<1>0. PICK t \in Ttys, ch \in Alphabet : t = job[Task].tty /\ ch = Head(job[Task].text)
  BY CookFacts DEF CookChar
<1>1. /\ Cooked(t, Enqueue(queue[t], ch), <<ch>>)
      /\ mode' = IF Overflows(queue[t]) THEN "panic" ELSE mode
      /\ IF ch = Nul THEN Ended(t, partial[t]) /\ breaks' = [breaks EXCEPT ![t] = @ + 1]
         ELSE partial' = [partial EXCEPT ![t] = Append(@, ch)] /\ UNCHANGED <<lines, breaks>>
      /\ cooked' = cooked
  BY <1>0 DEF CookChar
<1>2. queue[t] \in Queue /\ <<ch>> \in Texts BY CookFacts, <1>0 DEF CookChar, Texts
<1>3. /\ cooked \in [Ttys -> Nat] /\ breaks \in [Ttys -> Nat]
      /\ lines \in [Ttys -> Seq(Seq(Data))] /\ partial \in [Ttys -> Seq(Data)] /\ partial[t] \in Seq(Data)
  BY DEF TtyInv, TtysTyped
<1>4. /\ lines' \in [Ttys -> Seq(Seq(Data))] /\ partial' \in [Ttys -> Seq(Data)]
      /\ breaks' \in [Ttys -> Nat] /\ cooked' \in [Ttys -> Nat]
  <2>1. CASE ch = Nul
    <3>1. Ended(t, partial[t]) /\ breaks' = [breaks EXCEPT ![t] = @ + 1] BY <1>1, <2>1
    <3>2. lines' \in [Ttys -> Seq(Seq(Data))] /\ partial' \in [Ttys -> Seq(Data)] BY <1>3, <3>1, EndedTypes
    <3>3. breaks' \in [Ttys -> Nat] BY <1>3, <3>1
    <3> QED BY <1>1, <1>3, <3>2, <3>3
  <2>2. CASE ch # Nul
    <3>1. Append(partial[t], ch) \in Seq(Data) BY <1>3, <2>2 DEF Alphabet
    <3> QED BY <1>1, <1>3, <2>2, <3>1
  <2> QED BY <2>1, <2>2
<1>5. mode' \in {"run", "panic"} BY <1>1 DEF TtyInv, InputTyped
<1>6. Enqueue(queue[t], ch) \in Queue /\ Enqueue(queue[t], ch).buf[Enqueue(queue[t], ch).rear] = Nul
  BY <1>2, EnqueueTyped
<1> QED BY <1>1, <1>2, <1>4, <1>5, <1>6, CookedTypes

LEMMA CookBackspaceTypes == ASSUME TtyInv, CookBackspace PROVE TtyInv'
<1>0. PICK t \in Ttys : t = job[Task].tty BY CookFacts DEF CookBackspace
<1>1. /\ Cooked(t, PopBack(queue[t]), IF PopBack(queue[t]) = queue[t] THEN <<>> ELSE <<"BS">>)
      /\ partial' = [partial EXCEPT ![t] = IF @ = <<>> THEN @ ELSE Front(@)]
      /\ UNCHANGED <<mode, cooked, lines, breaks>>
  BY <1>0 DEF CookBackspace
<1>2. queue[t] \in Queue /\ queue[t].buf[queue[t].rear] = Nul BY CookFacts, <1>0 DEF CookBackspace
<1>3. cooked' \in [Ttys -> Nat] /\ breaks' \in [Ttys -> Nat] /\ lines' \in [Ttys -> Seq(Seq(Data))]
  BY <1>1 DEF TtyInv, TtysTyped
<1>4. partial' \in [Ttys -> Seq(Data)]
  <2>1. partial \in [Ttys -> Seq(Data)] BY DEF TtyInv, TtysTyped
  <2>2. partial[t] # <<>> => Front(partial[t]) \in Seq(Data)
    <3>1. partial[t] # <<>> => SubSeq(partial[t], 1, Len(partial[t]) - 1) \in Seq(Data) BY <2>1, DropLast
    <3> QED BY <3>1 DEF Front
  <2> QED BY <1>1, <2>1, <2>2
<1>5. mode' \in {"run", "panic"} BY <1>1 DEF TtyInv, InputTyped
<1>6. PopBack(queue[t]) \in Queue /\ PopBack(queue[t]).buf[PopBack(queue[t]).rear] = Nul
  BY <1>2, PopBackTyped
<1>7. (IF PopBack(queue[t]) = queue[t] THEN <<>> ELSE <<"BS">>) \in Texts BY DEF Texts
<1> QED BY <1>1, <1>3, <1>4, <1>5, <1>6, <1>7, CookedTypes

LEMMA CookNewlineTypes == ASSUME TtyInv, CookNewline PROVE TtyInv'
<1>0. PICK t \in Ttys : t = job[Task].tty BY CookFacts DEF CookNewline
<1> DEFINE q == Enqueue(queue[t], "LF")
<1>1. /\ Cooked(t, Enqueue(q, Nul), <<"LF">>)
      /\ mode' = IF Overflows(queue[t]) \/ Overflows(q) THEN "panic" ELSE mode
      /\ cooked' = [cooked EXCEPT ![t] = @ + 1]
      /\ Ended(t, Append(partial[t], "LF")) /\ breaks' = breaks
  BY <1>0 DEF CookNewline
<1>2. queue[t] \in Queue /\ "LF" \in Data /\ <<"LF">> \in Texts
  BY CookFacts, <1>0 DEF CookNewline, Data, Alphabet, Nul, Texts
<1>3. q \in Queue BY <1>2, EnqueueTyped DEF Alphabet
<1> HIDE DEF q
<1>4. Enqueue(q, Nul) \in Queue /\ Enqueue(q, Nul).buf[Enqueue(q, Nul).rear] = Nul BY <1>3, EnqueueTyped DEF Alphabet
<1>5. cooked' \in [Ttys -> Nat] /\ breaks' \in [Ttys -> Nat] BY <1>1 DEF TtyInv, TtysTyped
<1>6. lines' \in [Ttys -> Seq(Seq(Data))] /\ partial' \in [Ttys -> Seq(Data)]
  <2>1. partial[t] \in Seq(Data) BY DEF TtyInv, TtysTyped
  <2>2. Append(partial[t], "LF") \in Seq(Data) BY <1>2, <2>1
  <2> QED BY <1>1, <2>2, EndedTypes
<1>7. mode' \in {"run", "panic"} BY <1>1 DEF TtyInv, InputTyped
<1> QED BY <1>1, <1>2, <1>4, <1>5, <1>6, <1>7, CookedTypes

LEMMA WriteTypes == ASSUME TtyInv, NEW p \in Tasks, Write(p) PROVE TtyInv'
<1>0. job[p].tty \in Ttys /\ job[p].text \in Texts BY DEF TtyInv, JobsTyped
<1>1. PICK t \in Ttys : t = job[p].tty BY <1>0
<1> DEFINE base == [cursor |-> cursor[t], rows |-> stale[t]]
<1>2. base \in Spot BY DEF TtyInv, TtysTyped, Spot
<1>3. FoldLeft(Putc, base, job[p].text) \in Spot
  <2>1. PICK N \in Nat : DOMAIN job[p].text = 1..N BY <1>0, TextDomain
  <2> HIDE DEF base
  <2> QED BY <1>2, <2>1, WrittenTyped
<1>4. PICK done \in Spot : done = FoldLeft(Putc, base, job[p].text) BY <1>3
<1>5. /\ cursor' = [cursor EXCEPT ![t] = done.cursor] /\ stale' = [stale EXCEPT ![t] = done.rows]
      /\ job' = [job EXCEPT ![p] = Job("draw", t, <<>>)]
      /\ UNCHANGED <<inputVars, current, lock, cooked, queue, screen, lines, partial, breaks>>
  BY <1>1, <1>4 DEF Write
<1>6. InputTyped' BY <1>5 DEF TtyInv, InputTyped, inputVars
<1>7. JobsTyped'
  <2>1. p \in Shells => t = p BY <1>1 DEF TtyInv, JobsTyped
  <2>2. "draw" \in Places /\ "draw" \in ShellPlaces /\ "draw" \in TaskPlaces /\ <<>> \in Texts
    BY DEF Places, ShellPlaces, TaskPlaces, Texts
  <2> QED BY <1>5, <2>1, <2>2, JobTyped DEF TtyInv
<1>8. TtysTyped' BY <1>5 DEF TtyInv, TtysTyped, Spot
<1>9. EndsMarked' BY <1>5 DEF TtyInv, EndsMarked
<1> QED BY <1>6, <1>7, <1>8, <1>9 DEF TtyInv

\* A step of tty_render.
LEMMA DrawEffect ==
  ASSUME TtyInv, NEW p \in Tasks, Draw(p)
  PROVE  /\ job[p].at = "draw" /\ job[p].row \in Rows /\ job[p].tty \in Ttys
         /\ job' \in [Tasks -> [at : Places, tty : Ttys, text : Texts, row : Rows]]
         /\ \A u \in Tasks : u # p => job'[u] = job[u]
         /\ job'[p].tty = job[p].tty /\ job'[p].text = job[p].text
         /\ \/ job[p].row = Lines - 1 /\ job'[p].at = Drawn(p) /\ job'[p].row = 0
            \/ job[p].row < Lines - 1 /\ job'[p].at = "draw" /\ job'[p].row = job[p].row + 1
<1>1. /\ job \in [Tasks -> [at : Places, tty : Ttys, text : Texts, row : Rows]]
      /\ job[p].row \in Rows /\ job[p].tty \in Ttys
  BY DEF TtyInv, JobsTyped
<1>2. Drawn(p) \in Places BY DEF Drawn, Places
<1>3. job' = [job EXCEPT ![p].at = IF job[p].row = Lines - 1 THEN Drawn(p) ELSE @, ![p].row = (@ + 1) % Lines]
      /\ job[p].at = "draw"
  BY DEF Draw, At
<1>4. CASE job[p].row = Lines - 1
  <2>1. 0 \in 0..(Lines - 1) /\ Lines \in Nat \ {0} BY Sizes
  <2>2. (job[p].row + 1) % Lines = 0
    <3>1. (0 + Lines) % Lines = 0 BY <2>1, ModWrap
    <3>2. job[p].row + 1 = 0 + Lines BY <1>4, <2>1
    <3> QED BY <3>1, <3>2
  <2>3. DOMAIN job' = Tasks /\ job' = [u \in Tasks |-> job'[u]] /\ \A u \in Tasks : u # p => job'[u] = job[u]
    BY <1>1, <1>3
  <2>4. job'[p] = [at |-> Drawn(p), tty |-> job[p].tty, text |-> job[p].text, row |-> 0]
    BY <1>1, <1>3, <1>4, <2>2
  <2>5. job' \in [Tasks -> [at : Places, tty : Ttys, text : Texts, row : Rows]]
    BY <1>1, <1>2, <2>3, <2>4, Sizes
  <2> QED BY <1>1, <1>3, <1>4, <2>3, <2>4, <2>5
<1>5. CASE job[p].row # Lines - 1
  <2>1. job[p].row + 1 \in 0..(Lines - 1) /\ Lines \in Nat \ {0} /\ job[p].row < Lines - 1
    BY <1>1, <1>5, Sizes DEF Rows
  <2>2. (job[p].row + 1) % Lines = job[p].row + 1 BY <2>1, ModSmall
  <2>3. DOMAIN job' = Tasks /\ job' = [u \in Tasks |-> job'[u]] /\ \A u \in Tasks : u # p => job'[u] = job[u]
    BY <1>1, <1>3
  <2>4. job'[p] = [at |-> "draw", tty |-> job[p].tty, text |-> job[p].text, row |-> job[p].row + 1]
    BY <1>1, <1>3, <1>5, <2>2
  <2>5. job' \in [Tasks -> [at : Places, tty : Ttys, text : Texts, row : Rows]]
    <3>0. job[p].row + 1 \in Rows /\ "draw" \in Places /\ job[p].text \in Texts
      BY <1>1, <2>1 DEF Places, Rows
    <3>1. job'[p] \in [at : Places, tty : Ttys, text : Texts, row : Rows] BY <1>1, <2>4, <3>0
    <3>2. \A u \in Tasks : job'[u] \in [at : Places, tty : Ttys, text : Texts, row : Rows]
      BY <1>1, <2>3, <3>1
    <3> QED BY <2>3, <3>2
  <2> QED BY <1>1, <1>3, <2>1, <2>3, <2>4, <2>5
<1> QED BY <1>4, <1>5

LEMMA DrawTypes == ASSUME TtyInv, NEW p \in Tasks, Draw(p) PROVE TtyInv'
<1>1. UNCHANGED <<inputVars, current, cooked, queue, cursor, lines, partial, breaks>>
      /\ lock' = [lock EXCEPT ![job[p].tty] = IF job[p].row = Lines - 1 THEN 1 ELSE 0]
      /\ \/ screen' = [screen EXCEPT ![job[p].row] = job[p].tty]
            /\ stale' = [stale EXCEPT ![job[p].tty] = @ \ {job[p].row}]
         \/ UNCHANGED <<screen, stale>>
  BY DEF Draw
<1>2. InputTyped' BY <1>1 DEF TtyInv, InputTyped, inputVars
<1>3. JobsTyped'
  <2>1. \A t \in Shells : t \in Tasks /\ t # Task /\ Drawn(t) \in ShellPlaces
    BY Sizes DEF Drawn, Tasks, ShellPlaces
  <2>2. Task \in Tasks /\ Drawn(Task) \in TaskPlaces /\ Drawn(Task) # "cook" /\ "draw" # "cook"
    BY Sizes DEF Drawn, TaskPlaces
  <2>3. "draw" \in ShellPlaces /\ "draw" \in TaskPlaces BY DEF ShellPlaces, TaskPlaces
  <2>4. \A t \in Shells : job'[t].tty = t /\ job'[t].at \in ShellPlaces
    BY <2>1, <2>3, DrawEffect DEF TtyInv, JobsTyped
  <2>5. job'[Task].at \in TaskPlaces /\ (job'[Task].at = "cook" => job'[Task].text \in {<<c>> : c \in Alphabet})
    BY <2>2, <2>3, DrawEffect DEF TtyInv, JobsTyped
  <2>6. \A u \in Tasks : job'[u].at # "draw" => job'[u].row = 0
    BY DrawEffect DEF TtyInv, JobsTyped
  <2> QED BY <2>4, <2>5, <2>6, DrawEffect DEF JobsTyped
<1>4. TtysTyped'
  <2>1. job[p].row \in Rows /\ job[p].tty \in Ttys BY DrawEffect
  <2>2. lock' \in [Ttys -> 0..1] BY <1>1, <2>1 DEF TtyInv, TtysTyped
  <2>3. screen' \in [Rows -> Ttys] BY <1>1, <2>1 DEF TtyInv, TtysTyped
  <2>4. stale' \in [Ttys -> SUBSET Rows]
    <3>1. stale \in [Ttys -> SUBSET Rows] BY DEF TtyInv, TtysTyped
    <3>2. stale[job[p].tty] \ {job[p].row} \in SUBSET Rows BY <2>1, <3>1
    <3> QED BY <1>1, <3>1, <3>2
  <2> QED BY <1>1, <2>2, <2>3, <2>4 DEF TtyInv, TtysTyped
<1>5. EndsMarked' BY <1>1 DEF TtyInv, EndsMarked
<1> QED BY <1>2, <1>3, <1>4, <1>5 DEF TtyInv

LEMMA WaitCookedTypes == ASSUME TtyInv, NEW t \in Shells, WaitCooked(t) PROVE TtyInv'
<1>1. t \in Tasks /\ t # Task /\ t \in Ttys BY Sizes DEF Tasks
<1>2. /\ At(t, "wait cooked") /\ cooked[t] > 0 /\ cooked' = [cooked EXCEPT ![t] = @ - 1] /\ Goes(t, "read")
      /\ UNCHANGED <<inputVars, current, lock, queue, cursor, stale, screen, lines, partial, breaks>>
  BY DEF WaitCooked
<1>3. InputTyped' BY <1>2 DEF TtyInv, InputTyped, inputVars
<1>4. JobsTyped'
  <2>1. "read" \in Places /\ "read" \in ShellPlaces /\ job[t].at # "draw" /\ JobsTyped
    BY <1>2 DEF Places, ShellPlaces, At, TtyInv
  <2> QED BY <1>1, <1>2, <2>1, GoesTyped
<1>5. TtysTyped'
  <2>1. cooked \in [Ttys -> Nat] BY DEF TtyInv, TtysTyped
  <2>2. cooked[t] - 1 \in Nat
    <3>1. cooked[t] > 0 BY <1>2
    <3>2. cooked[t] \in Nat BY <1>1, <2>1
    <3> QED BY <3>1, <3>2
  <2>3. cooked' \in [Ttys -> Nat] BY <1>2, <2>1, <2>2
  <2> QED BY <1>2, <2>3 DEF TtyInv, TtysTyped
<1>6. EndsMarked' BY <1>2 DEF TtyInv, EndsMarked
<1> QED BY <1>3, <1>4, <1>5, <1>6 DEF TtyInv

\* The places behind front, and how far a mark is.
LEMMA AtDistance ==
  ASSUME NEW q \in Queue, NEW i \in 0..(CookBuf - 1)
  PROVE  /\ (i - q.front) % CookBuf \in 0..(CookBuf - 1)
         /\ (q.front + ((i - q.front) % CookBuf)) % CookBuf = i
<1>1. CookBuf \in Nat \ {0} /\ q.front \in 0..(CookBuf - 1) BY Sizes DEF Queue
<1> QED BY <1>1, ModDistance, ModDistanceSum

\* How many characters tty_read takes: up to the first mark.
Nuls(q) == {n \in 0..(CookBuf - 1) : q.buf[(q.front + n) % CookBuf] = Nul}
LineLength(q) == CHOOSE n \in Nuls(q) : \A m \in Nuls(q) : n <= m

LEMMA LineEnds ==
  ASSUME NEW q \in Queue, q.buf[q.rear] = Nul
  PROVE  /\ LineLength(q) \in Nuls(q) /\ \A m \in Nuls(q) : LineLength(q) <= m
         /\ Nuls(q) \subseteq 0..(CookBuf - 1)
         /\ (q.front + LineLength(q) + 1) % CookBuf \in 0..(CookBuf - 1)
<1>1. q.rear \in 0..(CookBuf - 1) /\ CookBuf \in Nat \ {0} /\ q.front \in 0..(CookBuf - 1)
  BY Sizes DEF Queue
<1>2. (q.rear - q.front) % CookBuf \in Nuls(q) BY <1>1, AtDistance DEF Nuls
<1>3. Nuls(q) \in SUBSET Nat /\ Nuls(q) # {} /\ Nuls(q) \subseteq 0..(CookBuf - 1) BY <1>1, <1>2 DEF Nuls
<1>4. \E n \in Nuls(q) : \A m \in Nuls(q) : n <= m BY <1>3, SmallestExists
<1>5. LineLength(q) \in Nuls(q) /\ \A m \in Nuls(q) : LineLength(q) <= m BY <1>4 DEF LineLength
<1>6. q.front + LineLength(q) + 1 \in Nat BY <1>1, <1>3, <1>5
<1> QED BY <1>1, <1>3, <1>5, <1>6, ModRange

LEMMA ReadEffect ==
  ASSUME TtyInv, NEW t \in Shells, Read(t)
  PROVE  /\ queue' = [queue EXCEPT ![t].front = (queue[t].front + LineLength(queue[t]) + 1) % CookBuf]
         /\ queue[t] \in Queue /\ queue[t].buf[queue[t].rear] = Nul /\ t \in Ttys
BY Sizes DEF Read, LineLength, Nuls, TtyInv, TtysTyped, EndsMarked

\* Where tty_read finds nothing, lines is empty.
LEMMA ReadTypes == ASSUME TtyInv, NEW t \in Shells, Read(t), lines[t] # <<>> PROVE TtyInv'
<1>1. t \in Tasks /\ t # Task /\ t \in Ttys BY Sizes DEF Tasks
<1>2. /\ Holding(t, "read") /\ job' = [job EXCEPT ![t] = Job("write", t, Prompt)]
      /\ lines' = [lines EXCEPT ![t] = Tail(@)]
      /\ UNCHANGED <<inputVars, current, lock, cooked, cursor, stale, screen, partial, breaks>>
  BY DEF Read
<1>3. PICK n \in 0..(CookBuf - 1) : n = (queue[t].front + LineLength(queue[t]) + 1) % CookBuf
  BY ReadEffect, LineEnds
<1>4. queue' = [queue EXCEPT ![t].front = n] BY <1>3, ReadEffect
<1>5. InputTyped' BY <1>2 DEF TtyInv, InputTyped, inputVars
<1>6. JobsTyped'
  <2>1. "write" \in Places /\ "write" \in ShellPlaces /\ JobsTyped /\ Prompt \in Texts
    BY DEF Places, ShellPlaces, TtyInv, Texts
  <2> QED BY <1>1, <1>2, <2>1, JobTyped
<1>7. TtysTyped'
  <2>1. queue' \in [Ttys -> Queue] BY <1>1, <1>4 DEF TtyInv, TtysTyped, Queue
  <2>2. lines \in [Ttys -> Seq(Seq(Data))] BY DEF TtyInv, TtysTyped
  <2>3. Tail(lines[t]) \in Seq(Seq(Data)) BY <1>1, <2>2
  <2>4. lines' \in [Ttys -> Seq(Seq(Data))] BY <1>2, <2>2, <2>3
  <2> QED BY <1>2, <2>1, <2>4 DEF TtyInv, TtysTyped
<1>8. EndsMarked'
  <2>1. \A u \in Ttys : queue'[u].buf = queue[u].buf /\ queue'[u].rear = queue[u].rear
    BY <1>1, <1>4 DEF TtyInv, TtysTyped, Queue
  <2> QED BY <2>1 DEF TtyInv, EndsMarked
<1> QED BY <1>5, <1>6, <1>7, <1>8 DEF TtyInv

-----------------------------------------------------------------------------
(* Events, pieces and the codes of the keyboard are counted.                *)

\* Every piece of a queue has a read on its way, or is due.
PiecesDue ==
  mode = "run" => \A t \in Ttys : Due(t) + If(t \in Shells /\ job[t].at = "read") = Len(lines[t])

CountInv == EventsAreCounted /\ PiecesDue /\ KeysBound

LEMMA WaitingIs ==
  ASSUME TtyInv
  PROVE  Waiting = (IF ring.rear >= ring.front THEN ring.rear - ring.front
                    ELSE ring.rear - ring.front + NEvents)
         /\ Waiting \in 0..(NEvents - 1)
<1>1. NEvents \in Nat \ {0} /\ ring.rear \in 0..(NEvents - 1) /\ ring.front \in 0..(NEvents - 1)
  BY Sizes DEF TtyInv, InputTyped, Ring
<1> QED BY <1>1, ModDistance DEF Waiting

LEMMA PushWaiting ==
  ASSUME TtyInv, TtyInv', Push
  PROVE  mode' = "run" => Waiting' = Waiting + 1
<1>0. /\ NEvents \in Nat \ {0} /\ ring.rear \in 0..(NEvents - 1) /\ ring.front \in 0..(NEvents - 1)
      /\ ring'.rear \in 0..(NEvents - 1) /\ ring'.front = ring.front
      /\ ring'.rear = (ring.rear + 1) % NEvents /\ (mode' = "run" <=> ring'.rear # ring'.front)
  BY Sizes, PushEffect DEF TtyInv, InputTyped, Ring
<1>1. Waiting = (IF ring.rear >= ring.front THEN ring.rear - ring.front
                 ELSE ring.rear - ring.front + NEvents)
  BY WaitingIs
<1>2. Waiting' = (IF ring'.rear >= ring'.front THEN ring'.rear - ring'.front
                  ELSE ring'.rear - ring'.front + NEvents)
  BY <1>0, ModDistance DEF Waiting
<1>3. ring'.rear = IF ring.rear + 1 = NEvents THEN 0 ELSE ring.rear + 1 BY <1>0, ModNext
<1> QED BY <1>0, <1>1, <1>2, <1>3

LEMMA PopWaiting ==
  ASSUME TtyInv, TtyInv', Pop
  PROVE  mode' = "run" => Waiting' = Waiting - 1
<1>0. /\ NEvents \in Nat \ {0} /\ ring.rear \in 0..(NEvents - 1) /\ ring.front \in 0..(NEvents - 1)
      /\ ring'.front \in 0..(NEvents - 1) /\ ring'.rear = ring.rear
      /\ mode' = "run" => ring'.front = (ring.front + 1) % NEvents /\ ring.rear # ring.front
  BY Sizes, PopEffect DEF TtyInv, InputTyped, Ring
<1>1. Waiting = (IF ring.rear >= ring.front THEN ring.rear - ring.front
                 ELSE ring.rear - ring.front + NEvents)
  BY WaitingIs
<1>2. Waiting' = (IF ring'.rear >= ring'.front THEN ring'.rear - ring'.front
                  ELSE ring'.rear - ring'.front + NEvents)
  BY <1>0, ModDistance DEF Waiting
<1>3. mode' = "run" => ring'.front = IF ring.front + 1 = NEvents THEN 0 ELSE ring.front + 1 BY <1>0, ModNext
<1> QED BY <1>0, <1>1, <1>2, <1>3

LEMMA CountInit == Init => CountInv
<1> SUFFICES ASSUME Init PROVE CountInv OBVIOUS
<1>1. TtyInv BY TypeInit
<1>2. Waiting = 0
  <2>1. ring.rear = 0 /\ ring.front = 0 BY DEF Init, InputInit
  <2> QED BY <1>1, <2>1, WaitingIs
<1>3. job[Task].at = "draw" /\ \A t \in Shells : t \in Tasks /\ t # Task /\ job[t].at = "write"
  BY Sizes DEF Init, Job, Tasks
<1>4. EventsAreCounted BY <1>2, <1>3 DEF Init, InputInit, EventsAreCounted
<1>7. \A t \in Ttys : Due(t) = 0 /\ lines[t] = <<>> BY DEF Init, Due
<1>8. Len(keys) = 0 /\ typed = 0 /\ irqs = 0 /\ sem_kbdirq = 0 /\ event_sem = 0 /\ input.at = "poll"
  BY DEF Init, InputInit
<1>9. \A t \in Ttys : Len(lines[t]) = 0 BY <1>7
<1>5. PiecesDue BY <1>3, <1>7, <1>9 DEF PiecesDue, If
<1>6. KeysBound
  <2>1. If(input.at \in {"push", "signal"}) = 0 /\ If(job[Task].at \in {"pop", "cook"}) = 0
    BY <1>3, <1>8 DEF If
  <2> QED BY <1>7, <1>8, <2>1 DEF KeysBound
<1> QED BY <1>4, <1>5, <1>6 DEF CountInv

\* The terms of the counts are numbers.
LEMMA CountTypes ==
  ASSUME TtyInv
  PROVE  /\ Len(keys) \in Nat /\ irqs \in Nat /\ sem_kbdirq \in Nat /\ event_sem \in Nat /\ typed \in Nat
         /\ Waiting \in Nat
         /\ \A t \in Ttys : Due(t) \in Nat /\ Len(lines[t]) \in Nat /\ lines[t] \in Seq(Seq(Data))
<1>1. keys \in Seq(Code) /\ irqs \in Nat /\ sem_kbdirq \in Nat /\ event_sem \in Nat /\ typed \in Nat
  BY Sizes DEF TtyInv, InputTyped
<1>2. Waiting \in Nat BY WaitingIs
<1>3. ASSUME NEW t \in Ttys PROVE Due(t) \in Nat /\ lines[t] \in Seq(Seq(Data))
  BY DEF TtyInv, TtysTyped, Due
<1> HIDE DEF Waiting
<1> QED BY <1>1, <1>2, <1>3

LEMMA CountInput ==
  ASSUME TtyInv, CountInv, TtyInv', Hardware \/ Input_task
  PROVE  CountInv'
<1>0. /\ Len(keys) \in Nat /\ irqs \in Nat /\ sem_kbdirq \in Nat /\ event_sem \in Nat /\ typed \in Nat
      /\ Waiting \in Nat /\ \A t \in Ttys : Due(t) \in Nat
      /\ keys \in Seq(Code) /\ input \in [at : {"poll", "push", "wait", "signal"}, event : Event]
  BY CountTypes DEF TtyInv, InputTyped
<1>1. job' = job /\ lines' = lines /\ \A t \in Ttys : Due(t)' = Due(t) BY DEF Hardware, Input_task, ttyVars, Due
<1>2. mode' = "run" => mode = "run"
  BY DEF Hardware, Input_task, InputTask, Type, Notify, Keydown, Idle, WaitKbdirq, Push, SignalEvent
<1>3. PiecesDue' BY <1>1, <1>2 DEF CountInv, PiecesDue
<1>4. SUFFICES EventsAreCounted' /\ KeysBound' BY <1>3 DEF CountInv
<1>5. /\ mode = "run" => event_sem + If(job[Task].at = "pop") + If(input.at = "signal") = Waiting
      /\ irqs + sem_kbdirq <= typed
      /\ \A t \in Ttys :
           Len(keys) + If(input.at \in {"push", "signal"}) + event_sem
             + If(job[Task].at \in {"pop", "cook"}) + Due(t) <= typed
  BY DEF CountInv, EventsAreCounted, KeysBound, If
<1>6. SUFFICES
        /\ mode' = "run" => event_sem' + If(job[Task].at = "pop") + If(input'.at = "signal") = Waiting'
        /\ irqs' + sem_kbdirq' <= typed'
        /\ \A t \in Ttys :
             Len(keys') + If(input'.at \in {"push", "signal"}) + event_sem'
               + If(job[Task].at \in {"pop", "cook"}) + Due(t) <= typed'
  BY <1>1 DEF CountInv, EventsAreCounted, KeysBound, If
<1>7. PICK a \in Nat, b \in Nat : a = If(job[Task].at = "pop") /\ b = If(job[Task].at \in {"pop", "cook"})
  BY DEF If
<1> DEFINE sent == If(input.at = "signal")
           pushed == If(input.at \in {"push", "signal"})
<1>14. /\ mode = "run" => event_sem + a + sent = Waiting
       /\ irqs + sem_kbdirq <= typed
       /\ \A t \in Ttys : Len(keys) + pushed + event_sem + b + Due(t) <= typed
  BY <1>5, <1>7
<1>15. SUFFICES
        /\ mode' = "run" => event_sem' + a + sent' = Waiting'
        /\ irqs' + sem_kbdirq' <= typed'
        /\ \A t \in Ttys : Len(keys') + pushed' + event_sem' + b + Due(t) <= typed'
  BY <1>6, <1>7
<1>16. sent \in Nat /\ pushed \in Nat BY DEF If
<1>8. CASE Type
  <2>1. Len(keys') = Len(keys) + 1
    <3>1. PICK code : keys' = Append(keys, code) BY <1>8 DEF Type
    <3>2. Len(Append(keys, code)) = Len(keys) + 1 BY <1>0
    <3> QED BY <3>1, <3>2
  <2>2. typed' = typed + 1 /\ irqs' = irqs + 1 /\ sem_kbdirq' = sem_kbdirq /\ event_sem' = event_sem
        /\ input' = input /\ ring' = ring /\ mode' = mode
    BY <1>8 DEF Type
  <2>3. sent' = sent /\ pushed' = pushed /\ Waiting' = Waiting BY <2>2 DEF Waiting
  <2> HIDE DEF sent, pushed
  <2> QED BY <1>0, <1>14, <1>16, <2>1, <2>2, <2>3
<1>9. CASE Notify
  <2>1. keys' = keys /\ typed' = typed /\ irqs' = irqs - 1 /\ sem_kbdirq' = sem_kbdirq + 1
        /\ event_sem' = event_sem /\ input' = input /\ ring' = ring /\ mode' = mode
    BY <1>9 DEF Notify
  <2>3. sent' = sent /\ pushed' = pushed /\ Waiting' = Waiting BY <2>1 DEF Waiting
  <2> HIDE DEF sent, pushed
  <2> QED BY <1>0, <1>14, <1>16, <2>1, <2>3
<1>10. CASE Keydown
  <2>1. Len(keys') = Len(keys) - 1 BY <1>0, <1>10 DEF Keydown
  <2>2. /\ typed' = typed /\ irqs' = irqs /\ sem_kbdirq' = sem_kbdirq /\ event_sem' = event_sem
        /\ ring' = ring /\ mode' = mode /\ input.at = "poll" /\ input'.at \in {"poll", "push"}
    BY <1>10 DEF Keydown
  <2>3. sent' = 0 /\ sent = 0 /\ pushed = 0 /\ pushed' \in {0, 1} /\ Waiting' = Waiting
    BY <2>2 DEF Waiting, If
  <2> HIDE DEF sent, pushed
  <2> QED BY <1>0, <1>14, <1>16, <2>1, <2>2, <2>3
<1>11. CASE Idle \/ WaitKbdirq
  <2>1. /\ typed' = typed /\ irqs' = irqs /\ sem_kbdirq' <= sem_kbdirq /\ event_sem' = event_sem
        /\ keys' = keys /\ ring' = ring /\ mode' = mode
        /\ input.at \in {"poll", "wait"} /\ input'.at \in {"poll", "wait"} /\ sem_kbdirq' \in Nat
    BY <1>0, <1>11 DEF Idle, WaitKbdirq
  <2>3. sent' = 0 /\ sent = 0 /\ pushed = 0 /\ pushed' = 0 /\ Waiting' = Waiting
    BY <2>1 DEF Waiting, If
  <2> HIDE DEF sent, pushed
  <2>4. mode' = "run" => event_sem' + a + sent' = Waiting' BY <1>0, <1>14, <2>1, <2>3
  <2>5. irqs' + sem_kbdirq' <= typed'
    <3>1. irqs \in Nat /\ sem_kbdirq \in Nat /\ typed \in Nat /\ irqs + sem_kbdirq <= typed
      BY <1>0, <1>14
    <3>2. sem_kbdirq' \in Nat /\ sem_kbdirq' <= sem_kbdirq /\ irqs' = irqs /\ typed' = typed BY <2>1
    <3>3. sem_kbdirq' = sem_kbdirq \/ sem_kbdirq' = sem_kbdirq - 1 BY <1>11 DEF Idle, WaitKbdirq
    <3>4. irqs + (sem_kbdirq - 1) <= typed BY <3>1
    <3> QED BY <3>1, <3>2, <3>3, <3>4
  <2>6. \A t \in Ttys : Len(keys') + pushed' + event_sem' + b + Due(t) <= typed'
    BY <1>0, <1>14, <2>1, <2>3
  <2> QED BY <2>4, <2>5, <2>6
<1>12. CASE Push
  <2>1. mode' = "run" => Waiting' = Waiting + 1 BY <1>12, PushWaiting
  <2>2. /\ typed' = typed /\ irqs' = irqs /\ sem_kbdirq' = sem_kbdirq /\ event_sem' = event_sem
        /\ keys' = keys /\ mode = "run"
        /\ input.at = "push" /\ input'.at = "signal"
    BY <1>12, PushEffect DEF Push
  <2>3. sent' = 1 /\ sent = 0 /\ pushed = 1 /\ pushed' = 1 BY <2>2 DEF If
  <2> HIDE DEF sent, pushed
  <2> QED BY <1>0, <1>14, <1>16, <2>1, <2>2, <2>3
<1>13. CASE SignalEvent
  <2>1. /\ typed' = typed /\ irqs' = irqs /\ sem_kbdirq' = sem_kbdirq /\ event_sem' = event_sem + 1
        /\ keys' = keys /\ mode' = mode /\ ring' = ring
        /\ input.at = "signal" /\ input'.at = "poll"
    BY <1>13 DEF SignalEvent
  <2>3. sent' = 0 /\ sent = 1 /\ pushed = 1 /\ pushed' = 0 /\ Waiting' = Waiting
    BY <2>1 DEF Waiting, If
  <2> HIDE DEF sent, pushed
  <2> QED BY <1>0, <1>14, <1>16, <2>1, <2>3
<1> QED BY <1>8, <1>9, <1>10, <1>11, <1>12, <1>13 DEF Hardware, Input_task, InputTask

\* Steps of tty_task and of the shells that leave the keyboard's side alone.
LEMMA CountTasks ==
  ASSUME TtyInv, CountInv, TtyInv', mode = "run",
         UNCHANGED <<keys, typed, irqs, sem_kbdirq, event_sem, held, ring, input>>,
         job'[Task].at = "pop" <=> job[Task].at = "pop",
         \A t \in Ttys : Due(t)' + If(job'[Task].at \in {"pop", "cook"})
                         <= Due(t) + If(job[Task].at \in {"pop", "cook"}),
         \A t \in Ttys : Due(t)' + If(t \in Shells /\ job'[t].at = "read") + Len(lines[t])
                         = Due(t) + If(t \in Shells /\ job[t].at = "read") + Len(lines'[t])
  PROVE  CountInv'
<1>0. /\ Len(keys) \in Nat /\ irqs \in Nat /\ sem_kbdirq \in Nat /\ event_sem \in Nat /\ typed \in Nat
      /\ Waiting \in Nat /\ (\A t \in Ttys : Due(t) \in Nat /\ Len(lines[t]) \in Nat)
  BY CountTypes
<1>1. \A t \in Ttys : Due(t)' \in Nat /\ Len(lines'[t]) \in Nat
  <2> TAKE t \in Ttys
  <2>1. cooked'[t] \in Nat /\ breaks'[t] \in Nat /\ lines'[t] \in Seq(Seq(Data)) BY DEF TtyInv, TtysTyped
  <2>2. Due(t)' = cooked'[t] + breaks'[t] BY DEF Due
  <2> QED BY <2>1, <2>2
<1>3. EventsAreCounted' BY DEF CountInv, EventsAreCounted, Waiting
<1>4. PiecesDue'
  <2>1. \A t \in Ttys : Due(t) + If(t \in Shells /\ job[t].at = "read") = Len(lines[t])
    BY DEF CountInv, PiecesDue, If
  <2>2. \A t \in Ttys : Due(t)' + If(t \in Shells /\ job'[t].at = "read") = Len(lines'[t])
    BY <1>0, <1>1, <2>1 DEF If
  <2> QED BY <2>2 DEF PiecesDue, If
<1>5. KeysBound'
  <2>1. PICK a \in Nat, b \in Nat, c \in Nat :
          /\ a = If(input.at \in {"push", "signal"})
          /\ b = If(job[Task].at \in {"pop", "cook"}) /\ c = If(job'[Task].at \in {"pop", "cook"})
    BY DEF If
  <2>2. irqs + sem_kbdirq <= typed /\ \A t \in Ttys : Len(keys) + a + event_sem + b + Due(t) <= typed
    BY <2>1 DEF CountInv, KeysBound
  <2>3. ASSUME NEW t \in Ttys PROVE Len(keys) + a + event_sem + c + Due(t)' <= typed
    <3>1. Len(keys) \in Nat /\ event_sem \in Nat /\ typed \in Nat /\ Due(t) \in Nat /\ Due(t)' \in Nat
      BY <1>0, <1>1
    <3>2. Due(t)' + c <= Due(t) + b /\ Len(keys) + a + event_sem + b + Due(t) <= typed
      BY <2>1, <2>2
    <3> QED BY <3>1, <3>2
  <2> QED BY <2>1, <2>2, <2>3 DEF KeysBound
<1> QED BY <1>3, <1>4, <1>5 DEF CountInv

LEMMA CountTakeEvent == ASSUME TtyInv, CountInv, TtyInv', TakeEvent PROVE CountInv'
<1>0. /\ Len(keys) \in Nat /\ event_sem \in Nat /\ typed \in Nat /\ Waiting \in Nat
      /\ \A t \in Ttys : Due(t) \in Nat
  BY CountTypes
<1>1. /\ mode = "run" /\ event_sem > 0 /\ event_sem' = event_sem - 1 /\ job[Task].at = "idle"
      /\ UNCHANGED <<keys, typed, irqs, sem_kbdirq, ring, input, mode, cooked, lines, breaks>>
      /\ job' = [job EXCEPT ![Task].at = "pop"]
  BY DEF TakeEvent, WaitEvent, At, Goes
<1>9. \A t \in Ttys : Due(t)' = Due(t) BY <1>1 DEF Due
<1>2. Task \in Tasks /\ \A t \in Shells : t \in Tasks /\ t # Task BY Sizes DEF Tasks
<1>3. job'[Task].at = "pop" /\ \A t \in Shells : job'[t] = job[t] BY <1>1, <1>2 DEF TtyInv, JobsTyped
<1>4. EventsAreCounted'
  <2>1. event_sem + (IF input.at = "signal" THEN 1 ELSE 0) = Waiting
    BY <1>0, <1>1 DEF CountInv, EventsAreCounted
  <2>2. Waiting' = Waiting BY <1>1 DEF Waiting
  <2>3. event_sem' + 1 + (IF input.at = "signal" THEN 1 ELSE 0) = Waiting BY <1>0, <1>1, <2>1
  <2> QED BY <1>1, <1>3, <2>2, <2>3 DEF EventsAreCounted
<1>5. PiecesDue' BY <1>1, <1>9, <1>3 DEF CountInv, PiecesDue, If
<1>6. KeysBound'
  <2>1. PICK a \in Nat : a = If(input.at \in {"push", "signal"}) BY DEF If
  <2>2. If(job[Task].at \in {"pop", "cook"}) = 0 /\ If(job'[Task].at \in {"pop", "cook"}) = 1
    BY <1>1, <1>3 DEF If
  <2>3. irqs + sem_kbdirq <= typed /\ \A t \in Ttys : Len(keys) + a + event_sem + 0 + Due(t) <= typed
    BY <2>1, <2>2 DEF CountInv, KeysBound
  <2>4. ASSUME NEW t \in Ttys PROVE Len(keys) + a + event_sem' + 1 + Due(t) <= typed
    <3>1. Len(keys) \in Nat /\ event_sem \in Nat /\ typed \in Nat /\ Due(t) \in Nat BY <1>0
    <3>2. event_sem' = event_sem - 1 /\ Len(keys) + a + event_sem + 0 + Due(t) <= typed BY <1>1, <2>3
    <3> QED BY <3>1, <3>2
  <2> QED BY <1>1, <1>9, <2>1, <2>2, <2>3, <2>4 DEF KeysBound
<1> QED BY <1>4, <1>5, <1>6 DEF CountInv

LEMMA CountHandle == ASSUME TtyInv, CountInv, TtyInv', Handle PROVE CountInv'
<1>0. /\ Len(keys) \in Nat /\ event_sem \in Nat /\ typed \in Nat /\ Waiting \in Nat
      /\ \A t \in Ttys : Due(t) \in Nat
  BY CountTypes
<1>1. /\ mode = "run" /\ Pop /\ job[Task].at = "pop"
      /\ UNCHANGED <<keys, typed, irqs, sem_kbdirq, event_sem, input, cooked, lines, breaks>>
  BY DEF Handle, At, Pop
<1>9. \A t \in Ttys : Due(t)' = Due(t) BY <1>1 DEF Due
<1>2. Task \in Tasks /\ \A t \in Shells : t \in Tasks /\ t # Task BY Sizes DEF Tasks
<1>3. \E j \in {Job("write", t, <<>>) : t \in Ttys} \cup {Job("cook", current, <<Popped.data>>), Job("idle", current, <<>>)} :
        job' = [job EXCEPT ![Task] = j]
  BY TtyAssumption DEF Handle, TtyInv, TtysTyped
<1>4. job'[Task].at \in {"write", "cook", "idle"} /\ \A t \in Shells : job'[t] = job[t]
  BY <1>2, <1>3 DEF TtyInv, JobsTyped, Job
<1>5. EventsAreCounted'
  <2>1. event_sem + 1 + (IF input.at = "signal" THEN 1 ELSE 0) = Waiting
    BY <1>0, <1>1 DEF CountInv, EventsAreCounted
  <2>2. mode' = "run" => Waiting' = Waiting - 1 BY <1>1, PopWaiting
  <2>3. event_sem + (IF input.at = "signal" THEN 1 ELSE 0) = Waiting - 1 BY <1>0, <2>1
  <2>4. mode' = "run" => event_sem + 0 + (IF input.at = "signal" THEN 1 ELSE 0) = Waiting'
    BY <1>0, <2>2, <2>3
  <2> QED BY <1>1, <1>4, <2>4 DEF EventsAreCounted
<1>6. PiecesDue' BY <1>1, <1>9, <1>4 DEF CountInv, PiecesDue, If
<1>7. KeysBound'
  <2>1. PICK a \in Nat, c \in {0, 1} :
          a = If(input.at \in {"push", "signal"}) /\ c = If(job'[Task].at \in {"pop", "cook"})
    BY DEF If
  <2>2. If(job[Task].at \in {"pop", "cook"}) = 1 BY <1>1 DEF If
  <2>3. irqs + sem_kbdirq <= typed /\ \A t \in Ttys : Len(keys) + a + event_sem + 1 + Due(t) <= typed
    BY <2>1, <2>2 DEF CountInv, KeysBound
  <2>4. ASSUME NEW t \in Ttys PROVE Len(keys) + a + event_sem + c + Due(t) <= typed
    <3>1. Len(keys) \in Nat /\ event_sem \in Nat /\ typed \in Nat /\ Due(t) \in Nat BY <1>0
    <3>2. Len(keys) + a + event_sem + 1 + Due(t) <= typed BY <2>3
    <3>3. c <= 1 /\ c \in Nat /\ a \in Nat OBVIOUS
    <3> QED BY <3>1, <3>2, <3>3, SMTT(30)
  <2> QED BY <1>1, <1>9, <2>1, <2>3, <2>4 DEF KeysBound
<1> QED BY <1>5, <1>6, <1>7 DEF CountInv

LEMMA CookedJobs ==
  ASSUME TtyInv, NEW t, NEW q, NEW echo, Holding(Task, "cook"), Cooked(t, q, echo)
  PROVE  /\ mode = "run" /\ job[Task].at = "cook" /\ job'[Task].at \in {"idle", "write"}
         /\ \A u \in Shells : job'[u] = job[u]
         /\ UNCHANGED <<keys, typed, irqs, sem_kbdirq, event_sem, held, ring, input>>
<1>1. Task \in Tasks /\ \A u \in Shells : u \in Tasks /\ u # Task BY Sizes DEF Tasks
<1>2. \E j \in {Job("write", t, echo), Job("idle", t, <<>>)} : job' = [job EXCEPT ![Task] = j]
  BY DEF Cooked
<1>3. job'[Task].at \in {"idle", "write"} /\ \A u \in Shells : job'[u] = job[u]
  BY <1>1, <1>2 DEF TtyInv, JobsTyped, Job
<1> QED BY <1>3 DEF Holding, At, Cooked

LEMMA CountCook ==
  ASSUME TtyInv, CountInv, TtyInv', CookChar \/ CookBackspace \/ CookNewline
  PROVE  CountInv'
<1>1. Holding(Task, "cook") BY DEF CookChar, CookBackspace, CookNewline
<1>2. \E t, q, echo : Cooked(t, q, echo) BY DEF CookChar, CookBackspace, CookNewline
<1>3. /\ mode = "run" /\ job[Task].at = "cook" /\ job'[Task].at \in {"idle", "write"}
      /\ \A u \in Shells : job'[u] = job[u]
      /\ UNCHANGED <<keys, typed, irqs, sem_kbdirq, event_sem, held, ring, input>>
  BY <1>1, <1>2, CookedJobs
<1>4. If(job[Task].at \in {"pop", "cook"}) = 1 /\ If(job'[Task].at \in {"pop", "cook"}) = 0
  BY <1>3 DEF If
<1>5. \A t \in Ttys : If(t \in Shells /\ job'[t].at = "read") = If(t \in Shells /\ job[t].at = "read")
  BY <1>3 DEF If
<1>6. \A t \in Ttys : Due(t) \in Nat /\ Len(lines[t]) \in Nat /\ lines[t] \in Seq(Seq(Data)) BY CountTypes
<1>7. ASSUME UNCHANGED <<cooked, breaks, lines>> PROVE CountInv'
  <2>1. lines' = lines /\ \A t \in Ttys : Due(t)' = Due(t) BY <1>7 DEF Due
  <2>2. \A t \in Ttys : Due(t)' + 0 <= Due(t) + 1 BY <1>6, <2>1
  <2>3. \A t \in Ttys : Due(t)' + If(t \in Shells /\ job'[t].at = "read") + Len(lines[t])
                         = Due(t) + If(t \in Shells /\ job[t].at = "read") + Len(lines'[t])
    BY <1>5, <2>1
  <2> QED BY <1>3, <1>4, <2>2, <2>3, CountTasks
<1>8. ASSUME NEW t \in Ttys, NEW piece, Ended(t, piece),
             \/ cooked' = [cooked EXCEPT ![t] = @ + 1] /\ breaks' = breaks
             \/ breaks' = [breaks EXCEPT ![t] = @ + 1] /\ cooked' = cooked
      PROVE  CountInv'
  <2>0. cooked \in [Ttys -> Nat] /\ breaks \in [Ttys -> Nat] /\ lines \in [Ttys -> Seq(Seq(Data))]
    BY DEF TtyInv, TtysTyped
  <2>1. \A u \in Ttys : Due(u)' = IF u = t THEN Due(u) + 1 ELSE Due(u)
    <3> TAKE u \in Ttys
    <3>1. cooked[u] \in Nat /\ breaks[u] \in Nat BY <2>0
    <3>2. \/ cooked'[u] = (IF u = t THEN cooked[u] + 1 ELSE cooked[u]) /\ breaks'[u] = breaks[u]
          \/ breaks'[u] = (IF u = t THEN breaks[u] + 1 ELSE breaks[u]) /\ cooked'[u] = cooked[u]
      BY <1>8, <2>0
    <3>3. Due(u) = cooked[u] + breaks[u] /\ Due(u)' = cooked'[u] + breaks'[u] BY DEF Due
    <3> QED BY <3>1, <3>2, <3>3
  <2>2. \A u \in Ttys : lines'[u] = IF u = t THEN Append(lines[u], piece) ELSE lines[u]
    BY <1>8, <2>0 DEF Ended
  <2>3. \A u \in Ttys : /\ u # t => Due(u)' = Due(u) /\ lines'[u] = lines[u]
                        /\ u = t => Due(u)' = Due(u) + 1 /\ lines'[u] = Append(lines[u], piece)
    BY <2>1, <2>2
  <2>4. \A u \in Ttys : u = t => Len(lines'[u]) = Len(lines[u]) + 1 BY <1>6, <2>3
  <2>5. \A u \in Ttys : Due(u)' + 0 <= Due(u) + 1 BY <1>6, <2>3
  <2>6. \A u \in Ttys : Due(u)' + If(u \in Shells /\ job'[u].at = "read") + Len(lines[u])
                         = Due(u) + If(u \in Shells /\ job[u].at = "read") + Len(lines'[u])
    <3> TAKE u \in Ttys
    <3>1. PICK a \in Nat : a = If(u \in Shells /\ job'[u].at = "read")
                           /\ a = If(u \in Shells /\ job[u].at = "read")
      BY <1>5 DEF If
    <3>2. Due(u) \in Nat /\ Len(lines[u]) \in Nat BY <1>6
    <3>3. CASE u = t
      <4>1. Due(u)' = Due(u) + 1 /\ Len(lines'[u]) = Len(lines[u]) + 1 BY <2>3, <2>4, <3>3
      <4>2. Due(u)' + a + Len(lines[u]) = Due(u) + a + Len(lines'[u]) BY <3>2, <4>1, SMTT(30)
      <4> QED BY <3>1, <4>2
    <3>4. CASE u # t
      <4>1. Due(u)' = Due(u) /\ lines'[u] = lines[u] BY <2>3, <3>4
      <4> QED BY <3>1, <4>1
    <3> QED BY <3>3, <3>4
  <2> QED BY <1>3, <1>4, <2>5, <2>6, CountTasks
<1>9. CASE CookChar
  <2>1. job[Task].tty \in Ttys BY <1>1, CookFacts
  <2>2. PICK t \in Ttys : t = job[Task].tty BY <2>1
  <2>3. /\ \/ Ended(t, partial[t]) /\ breaks' = [breaks EXCEPT ![t] = @ + 1]
           \/ UNCHANGED <<lines, breaks>>
        /\ cooked' = cooked
    BY <1>9, <2>2 DEF CookChar
  <2> QED BY <1>7, <1>8, <2>3
<1>10. CASE CookBackspace BY <1>7, <1>10 DEF CookBackspace
<1>11. CASE CookNewline
  <2>1. job[Task].tty \in Ttys BY <1>1, CookFacts
  <2>2. PICK t \in Ttys : t = job[Task].tty BY <2>1
  <2>3. cooked' = [cooked EXCEPT ![t] = @ + 1] /\ Ended(t, Append(partial[t], "LF")) /\ breaks' = breaks
    BY <1>11, <2>2 DEF CookNewline
  <2> QED BY <1>8, <2>3
<1> QED BY <1>9, <1>10, <1>11

\* A step of p that takes it from a place where it does not read to another one.
LEMMA CountMove ==
  ASSUME TtyInv, CountInv, TtyInv', NEW p \in Tasks, mode = "run", UNCHANGED <<inputVars, cooked, lines, breaks>>,
         \A u \in Tasks : u # p => job'[u] = job[u],
         job[p].at \notin {"read", "pop", "cook"}, job'[p].at \notin {"read", "pop", "cook"}
  PROVE  CountInv'
<1>1. Task \in Tasks /\ \A u \in Shells : u \in Tasks /\ u # Task BY Sizes DEF Tasks
<1>2. UNCHANGED <<keys, typed, irqs, sem_kbdirq, event_sem, held, ring, input>> BY DEF inputVars
<1>3. job'[Task].at = "pop" <=> job[Task].at = "pop" BY <1>1
<1>4. If(job'[Task].at \in {"pop", "cook"}) = If(job[Task].at \in {"pop", "cook"}) BY <1>1 DEF If
<1>5. \A t \in Ttys : If(t \in Shells /\ job'[t].at = "read") = If(t \in Shells /\ job[t].at = "read")
  BY <1>1 DEF If
<1>6. \A t \in Ttys : Due(t) \in Nat /\ Len(lines[t]) \in Nat BY CountTypes
<1>9. \A t \in Ttys : Due(t)' = Due(t) BY DEF Due
<1>7. \A t \in Ttys : Due(t)' + If(job'[Task].at \in {"pop", "cook"})
                         <= Due(t) + If(job[Task].at \in {"pop", "cook"})
  <2>1. PICK b \in Nat : b = If(job'[Task].at \in {"pop", "cook"}) /\ b = If(job[Task].at \in {"pop", "cook"})
    BY <1>4 DEF If
  <2>2. \A t \in Ttys : Due(t)' + b <= Due(t) + b BY <1>6, <1>9
  <2> QED BY <2>1, <2>2
<1>8. \A t \in Ttys : Due(t)' + If(t \in Shells /\ job'[t].at = "read") + Len(lines[t])
                         = Due(t) + If(t \in Shells /\ job[t].at = "read") + Len(lines'[t])
  BY <1>5, <1>9
<1> QED BY <1>2, <1>3, <1>7, <1>8, CountTasks

LEMMA CountWrite == ASSUME TtyInv, CountInv, TtyInv', NEW p \in Tasks, Write(p) PROVE CountInv'
<1>1. mode = "run" /\ job[p].at = "write" /\ UNCHANGED <<inputVars, cooked, lines, breaks>>
  BY DEF Write, Holding, At
<1>2. PICK t : job' = [job EXCEPT ![p] = Job("draw", t, <<>>)] BY DEF Write
<1>3. job'[p].at = "draw" /\ \A u \in Tasks : u # p => job'[u] = job[u]
  BY <1>2 DEF TtyInv, JobsTyped, Job
<1> QED BY <1>1, <1>3, CountMove

LEMMA CountDraw == ASSUME TtyInv, CountInv, TtyInv', NEW p \in Tasks, Draw(p) PROVE CountInv'
<1>1. mode = "run" /\ job[p].at = "draw" /\ UNCHANGED <<inputVars, cooked, lines, breaks>> BY DEF Draw, At
<1>2. job'[p].at \notin {"read", "pop", "cook"} /\ \A u \in Tasks : u # p => job'[u] = job[u]
  BY DrawEffect DEF Drawn
<1> QED BY <1>1, <1>2, CountMove

LEMMA CountWaitCooked == ASSUME TtyInv, CountInv, TtyInv', NEW t \in Shells, WaitCooked(t) PROVE CountInv'
<1>1. Task \in Tasks /\ t \in Tasks /\ t # Task /\ t \in Ttys /\ \A u \in Shells : u \in Tasks
  BY Sizes DEF Tasks
<1>2. /\ mode = "run" /\ job[t].at = "wait cooked" /\ cooked[t] > 0
      /\ cooked' = [cooked EXCEPT ![t] = @ - 1] /\ job' = [job EXCEPT ![t].at = "read"]
      /\ UNCHANGED <<inputVars, lines, breaks>>
  BY DEF WaitCooked, At, Goes
<1>3. job'[t].at = "read" /\ \A u \in Tasks : u # t => job'[u] = job[u]
  BY <1>1, <1>2, ZenonT(30) DEF TtyInv, JobsTyped
<1>4. \A u \in Ttys : Due(u) \in Nat /\ Len(lines[u]) \in Nat BY CountTypes
<1>5. \A u \in Ttys : Due(u)' = IF u = t THEN Due(u) - 1 ELSE Due(u)
  <2> TAKE u \in Ttys
  <2>1. cooked[u] \in Nat /\ breaks[u] \in Nat BY DEF TtyInv, TtysTyped
  <2>2. cooked'[u] = IF u = t THEN cooked[u] - 1 ELSE cooked[u] BY <1>1, <1>2 DEF TtyInv, TtysTyped
  <2>3. breaks'[u] = breaks[u] BY <1>2
  <2>4. Due(u) = cooked[u] + breaks[u] /\ Due(u)' = cooked'[u] + breaks'[u] BY DEF Due
  <2> QED BY <2>1, <2>2, <2>3, <2>4
<1>6. job'[Task] = job[Task] BY <1>1, <1>3
<1>7. \A u \in Ttys : Due(u)' + If(job'[Task].at \in {"pop", "cook"})
                         <= Due(u) + If(job[Task].at \in {"pop", "cook"})
  <2>1. PICK b \in Nat : b = If(job'[Task].at \in {"pop", "cook"}) /\ b = If(job[Task].at \in {"pop", "cook"})
    BY <1>6 DEF If
  <2>2. \A u \in Ttys : Due(u)' + b <= Due(u) + b BY <1>4, <1>5
  <2> QED BY <2>1, <2>2
<1>8. \A u \in Ttys : Due(u)' + If(u \in Shells /\ job'[u].at = "read") + Len(lines[u])
                         = Due(u) + If(u \in Shells /\ job[u].at = "read") + Len(lines'[u])
  <2> TAKE u \in Ttys
  <2>1. CASE u = t
    <3>1. If(u \in Shells /\ job'[u].at = "read") = 1 /\ If(u \in Shells /\ job[u].at = "read") = 0
      BY <1>2, <1>3, <2>1 DEF If
    <3>2. Due(u)' + 1 + Len(lines[u]) = Due(u) + 0 + Len(lines[u]) BY <1>4, <1>5, <2>1
    <3> QED BY <1>2, <3>1, <3>2
  <2>2. CASE u # t
    <3>1. If(u \in Shells /\ job'[u].at = "read") = If(u \in Shells /\ job[u].at = "read")
      BY <1>1, <1>3, <2>2 DEF If
    <3> QED BY <1>2, <1>5, <2>2, <3>1
  <2> QED BY <2>1, <2>2
<1>9. UNCHANGED <<keys, typed, irqs, sem_kbdirq, event_sem, held, ring, input>> BY <1>2 DEF inputVars
<1> QED BY <1>2, <1>6, <1>7, <1>8, <1>9, CountTasks

\* tty_read is only called for a line.
LEMMA ReaderHasLine ==
  ASSUME TtyInv, CountInv, NEW t \in Shells, Read(t)
  PROVE  Len(lines[t]) > 0 /\ lines[t] # <<>>
<1>1. t \in Ttys /\ mode = "run" /\ job[t].at = "read" BY Sizes DEF Read, Holding, At
<1>2. Due(t) \in Nat /\ Len(lines[t]) \in Nat BY <1>1, CountTypes
<1>3. Due(t) + 1 = Len(lines[t]) BY <1>1 DEF CountInv, PiecesDue, If
<1> QED BY <1>2, <1>3

LEMMA CountRead == ASSUME TtyInv, CountInv, TtyInv', NEW t \in Shells, Read(t) PROVE CountInv'
<1>1. Task \in Tasks /\ t \in Tasks /\ t # Task /\ t \in Ttys /\ \A u \in Shells : u \in Tasks
  BY Sizes DEF Tasks
<1>2. /\ mode = "run" /\ job[t].at = "read" /\ job' = [job EXCEPT ![t] = Job("write", t, Prompt)]
      /\ lines' = [lines EXCEPT ![t] = Tail(@)] /\ UNCHANGED <<inputVars, cooked, breaks>>
  BY DEF Read, Holding, At
<1>3. job'[t].at = "write" /\ \A u \in Tasks : u # t => job'[u] = job[u]
  BY <1>1, <1>2 DEF TtyInv, JobsTyped, Job
<1>4. \A u \in Ttys : Due(u) \in Nat /\ Len(lines[u]) \in Nat /\ lines[u] \in Seq(Seq(Data)) BY CountTypes
<1>5. \A u \in Ttys : lines'[u] = IF u = t THEN Tail(lines[u]) ELSE lines[u]
  BY <1>1, <1>2 DEF TtyInv, TtysTyped
<1>6. job'[Task] = job[Task] BY <1>1, <1>3
<1>10. \A u \in Ttys : Due(u)' = Due(u) BY <1>2 DEF Due
<1>7. \A u \in Ttys : Due(u)' + If(job'[Task].at \in {"pop", "cook"})
                         <= Due(u) + If(job[Task].at \in {"pop", "cook"})
  <2>1. PICK b \in Nat : b = If(job'[Task].at \in {"pop", "cook"}) /\ b = If(job[Task].at \in {"pop", "cook"})
    BY <1>6 DEF If
  <2>2. \A u \in Ttys : Due(u)' + b <= Due(u) + b BY <1>4, <1>10
  <2> QED BY <2>1, <2>2
<1>8. \A u \in Ttys : Due(u)' + If(u \in Shells /\ job'[u].at = "read") + Len(lines[u])
                         = Due(u) + If(u \in Shells /\ job[u].at = "read") + Len(lines'[u])
  <2> TAKE u \in Ttys
  <2>1. CASE u = t
    <3>1. If(u \in Shells /\ job'[u].at = "read") = 0 /\ If(u \in Shells /\ job[u].at = "read") = 1
      BY <1>2, <1>3, <2>1 DEF If
    <3>4. lines[u] # <<>> /\ lines[u] \in Seq(Seq(Data)) BY <1>4, <2>1, ReaderHasLine
    <3>5. Len(Tail(lines[u])) = Len(lines[u]) - 1 BY <3>4, HeadTailProperties
    <3>2. Len(lines'[u]) = Len(lines[u]) - 1 BY <1>5, <2>1, <3>5
    <3>6. Due(u)' = Due(u) /\ Due(u) \in Nat /\ Len(lines[u]) \in Nat BY <1>4, <1>10
    <3>3. Due(u)' + 0 + Len(lines[u]) = Due(u) + 1 + Len(lines'[u]) BY <3>2, <3>6
    <3> QED BY <3>1, <3>3
  <2>2. CASE u # t
    <3>1. If(u \in Shells /\ job'[u].at = "read") = If(u \in Shells /\ job[u].at = "read")
      BY <1>1, <1>3, <2>2 DEF If
    <3> QED BY <1>5, <1>10, <2>2, <3>1
  <2> QED BY <2>1, <2>2
<1>9. UNCHANGED <<keys, typed, irqs, sem_kbdirq, event_sem, held, ring, input>> BY <1>2 DEF inputVars
<1> QED BY <1>2, <1>6, <1>7, <1>8, <1>9, CountTasks

LEMMA TaskKinds == Task \in Tasks /\ \A p \in Tasks : p = Task \/ p \in Shells
BY DEF Tasks

LEMMA InvStep == TtyInv /\ CountInv /\ [Next]_vars => TtyInv' /\ CountInv'
<1> SUFFICES ASSUME TtyInv, CountInv, [Next]_vars PROVE TtyInv' /\ CountInv' OBVIOUS
<1>1. CASE Hardware \/ Input_task BY <1>1, InputTypeStep, CountInput
<1>2. CASE TakeEvent BY <1>2, TakeEventTypes, CountTakeEvent
<1>3. CASE Handle BY <1>3, HandleTypes, CountHandle
<1>4. CASE CookChar BY <1>4, CookCharTypes, CountCook
<1>5. CASE CookBackspace BY <1>5, CookBackspaceTypes, CountCook
<1>6. CASE CookNewline BY <1>6, CookNewlineTypes, CountCook
<1>7. ASSUME NEW p \in Tasks, Write(p) PROVE TtyInv' /\ CountInv' BY <1>7, WriteTypes, CountWrite
<1>8. ASSUME NEW p \in Tasks, Draw(p) PROVE TtyInv' /\ CountInv' BY <1>8, DrawTypes, CountDraw
<1>9. ASSUME NEW t \in Shells, WaitCooked(t) PROVE TtyInv' /\ CountInv'
  BY <1>9, WaitCookedTypes, CountWaitCooked
<1>10. ASSUME NEW t \in Shells, Read(t) PROVE TtyInv' /\ CountInv'
  BY <1>10, ReaderHasLine, ReadTypes, CountRead
<1>11. CASE UNCHANGED vars
  <2>1. TtyInv' BY <1>11 DEF TtyInv, InputTyped, JobsTyped, TtysTyped, EndsMarked, vars, inputVars, ttyVars
  <2>2. CountInv'
    BY <1>11 DEF CountInv, EventsAreCounted, PiecesDue, Due, KeysBound, Waiting, vars, inputVars, ttyVars
  <2> QED BY <2>1, <2>2
<1> QED
  BY <1>1, <1>2, <1>3, <1>4, <1>5, <1>6, <1>7, <1>8, <1>9, <1>10, <1>11, TaskKinds
  DEF Next, Tty_task, Shell, Tasks

LEMMA Invariant == Spec => [](TtyInv /\ CountInv)
<1>1. Init => TtyInv /\ CountInv BY TypeInit, CountInit
<1>2. (TtyInv /\ CountInv) /\ [Next]_vars => (TtyInv /\ CountInv)' BY InvStep
<1> QED BY <1>1, <1>2, PTL DEF Spec

\* Whatever is typed and however the tasks interleave, every counter, index and
\* cursor of input.c and tty.c stays within its bounds: the scrolling keeps the
\* cursor on the screen, and no semaphore counts more than was typed.
THEOREM TtyTypes == Spec => []TypeOK
<1>1. TtyInv /\ CountInv => TypeOK
  <2> SUFFICES ASSUME TtyInv, CountInv PROVE TypeOK OBVIOUS
  <2>1. keys \in Seq(Code) /\ mode \in {"run", "panic"} BY DEF TtyInv, InputTyped
  <2>2. Waiting < NEvents BY WaitingIs, Sizes
  <2>3. /\ Len(keys) \in Nat /\ irqs \in Nat /\ sem_kbdirq \in Nat /\ event_sem \in Nat /\ typed \in 0..MaxKeys
        /\ \A t \in Ttys : cooked[t] \in Nat /\ breaks[t] \in Nat /\ Due(t) = cooked[t] + breaks[t]
    BY CountTypes DEF TtyInv, InputTyped, TtysTyped, Due
  <2>4. PICK a \in Nat, b \in Nat :
          a = If(input.at \in {"push", "signal"}) /\ b = If(job[Task].at \in {"pop", "cook"})
    BY DEF If
  <2>5. irqs + sem_kbdirq <= typed /\ \A t \in Ttys : Len(keys) + a + event_sem + b + Due(t) <= typed
    BY <2>4 DEF CountInv, KeysBound
  <2>6. sem_kbdirq \in 0..MaxKeys /\ irqs \in 0..MaxKeys BY <2>3, <2>5, Sizes
  <2>7. \A t \in Ttys : event_sem \in 0..MaxKeys /\ cooked[t] \in 0..MaxKeys /\ breaks[t] \in 0..MaxKeys
    <3> TAKE t \in Ttys
    <3>1. Len(keys) \in Nat /\ event_sem \in Nat /\ typed \in 0..MaxKeys /\ cooked[t] \in Nat /\ breaks[t] \in Nat BY <2>3
    <3>2. Len(keys) + a + event_sem + b + (cooked[t] + breaks[t]) <= typed BY <2>3, <2>5
    <3> QED BY <3>1, <3>2, Sizes
  <2>8. event_sem \in 0..MaxKeys BY <2>7, Sizes
  <2>9. cooked \in [Ttys -> 0..MaxKeys] /\ breaks \in [Ttys -> 0..MaxKeys] BY <2>7 DEF TtyInv, TtysTyped
  <2>10. \A p \in Tasks : job[p].at \in Places /\ job[p].tty \in Ttys BY DEF TtyInv, JobsTyped
  <2>11. \A t \in Ttys : {queue[t].front, queue[t].rear} \subseteq 0..(CookBuf - 1)
    BY DEF TtyInv, TtysTyped, Queue
  <2>12. /\ lock \in [Ttys -> 0..1] /\ cursor \in [Ttys -> 0..(Size - 1)]
         /\ stale \in [Ttys -> SUBSET Rows] /\ screen \in [Rows -> Ttys]
    BY DEF TtyInv, TtysTyped
  <2> QED BY <2>1, <2>2, <2>6, <2>8, <2>9, <2>10, <2>11, <2>12 DEF TypeOK
<1> QED BY <1>1, Invariant, PTL

\* input_read never meets the panic "input queue empty": event_sem counts the
\* events of the ring, the one that was taken and the one to be signalled apart.
THEOREM TtyEventsAreCounted == Spec => []EventsAreCounted
<1>1. CountInv => EventsAreCounted BY DEF CountInv
<1> QED BY <1>1, Invariant, PTL

-----------------------------------------------------------------------------
(* What the screen shows.                                                   *)

OneDraws ==
  /\ \A t \in Ttys : lock[t] = 1 => \A p \in Tasks : ~Drawing(p, t)
  /\ \A t \in Ttys : \A p, u \in Tasks : Drawing(p, t) /\ Drawing(u, t) => p = u

Selected ==
  \/ Pending(current)
  \/ \E p \in Tasks : Drawing(p, current) /\ \A r \in 0..(job[p].row - 1) : Shown(r)
  \/ (\A p \in Tasks : ~Drawing(p, current)) /\ \A r \in Rows : Shown(r)

LEMMA ScreenParts == ScreenInv <=> OneDraws /\ Selected
BY DEF ScreenInv, OneDraws, Selected

LEMMA ScreenInit == Init => ScreenInv
<1> SUFFICES ASSUME Init PROVE ScreenInv OBVIOUS
<1>1. Task \in Tasks /\ job[Task] = Job("draw", First, <<>>) /\ current = First BY Sizes DEF Init
<1>2. \A p \in Tasks : job[p].row = 0 BY DEF Init, Job
<1>3. Pending(current) BY <1>1 DEF Pending, Job
<1>4. \A p \in Tasks, t \in Ttys : ~Drawing(p, t) BY <1>2 DEF Drawing
<1>5. \A p \in Tasks : job[p].tty \in Ttys BY TypeInit DEF TtyInv, JobsTyped
<1> QED BY <1>3, <1>4, <1>5 DEF ScreenInv

\* A step of p that neither begins nor ends a drawing.
LEMMA ScreenMove ==
  ASSUME ScreenInv, NEW p \in Tasks, UNCHANGED <<current, lock, stale, screen>>,
         \A u \in Tasks : u # p => job'[u] = job[u],
         job[p].at \notin {"write", "draw"}, job'[p].at # "draw"
  PROVE  ScreenInv'
<1>1. \A u \in Tasks : \A t : Drawing(u, t)' <=> Drawing(u, t) BY DEF Drawing
<1>2. OneDraws'
  <2>1. \A t \in Ttys : lock'[t] = 1 => \A u \in Tasks : ~Drawing(u, t)'
    BY <1>1 DEF ScreenInv
  <2>2. \A t \in Ttys : \A u, v \in Tasks : Drawing(u, t)' /\ Drawing(v, t)' => u = v
    BY <1>1 DEF ScreenInv
  <2> QED BY <2>1, <2>2 DEF OneDraws
<1>3. Pending(current) => Pending(current)' BY DEF Pending
<1>4. \A r : Shown(r)' <=> Shown(r) BY DEF Shown
<1>5. \A u \in Tasks : Drawing(u, current) => job'[u] = job[u] BY DEF Drawing
<1>6. Selected'
  <2>1. CASE Pending(current) BY <1>3, <2>1 DEF Selected
  <2>2. ASSUME NEW u \in Tasks, Drawing(u, current), \A r \in 0..(job[u].row - 1) : Shown(r)
        PROVE  Selected'
    BY <1>1, <1>4, <1>5, <2>2 DEF Selected, Drawing, Shown
  <2>3. CASE (\A u \in Tasks : ~Drawing(u, current)) /\ \A r \in Rows : Shown(r)
    BY <1>1, <1>4, <2>3 DEF Selected, Drawing, Shown
  <2> QED BY <2>1, <2>2, <2>3 DEF ScreenInv
<1> QED BY <1>2, <1>6, ScreenParts DEF ScreenInv, OneDraws, Selected

LEMMA ScreenHandle == ASSUME TtyInv, ScreenInv, Handle PROVE ScreenInv'
<1>1. Task \in Tasks /\ job[Task].at = "pop" /\ UNCHANGED <<lock, stale, screen>>
  BY Sizes DEF Handle, At
<1>2. PICK to \in Ttys :
        /\ current' = to
        /\ job' = [job EXCEPT ![Task] =
                     IF to # current THEN Job("write", to, <<>>)
                     ELSE IF Popped.ctrl = 0 /\ Popped.alt = 0 THEN Job("cook", current, <<Popped.data>>)
                     ELSE Job("idle", current, <<>>)]
  BY TtyAssumption DEF Handle, TtyInv, TtysTyped
<1>3. \A u \in Tasks : u # Task => job'[u] = job[u] BY <1>2 DEF TtyInv, JobsTyped
<1>4. job'[Task].at \in {"write", "cook", "idle"} BY <1>1, <1>2 DEF TtyInv, JobsTyped, Job
<1>5. CASE to = current BY <1>1, <1>2, <1>3, <1>4, <1>5, ScreenMove
<1>6. CASE to # current
  <2>1. job'[Task] = Job("write", to, <<>>) BY <1>1, <1>2, <1>6 DEF TtyInv, JobsTyped
  <2>2. Pending(current)' BY <1>1, <1>2, <2>1 DEF Pending, Job
  <2>3. \A u \in Tasks : \A t : Drawing(u, t)' <=> Drawing(u, t) BY <1>1, <1>3, <1>4 DEF Drawing
  <2>4. \A t \in Ttys : lock'[t] = 1 => \A u \in Tasks : ~Drawing(u, t)'
    BY <1>1, <2>3 DEF ScreenInv
  <2>5. \A t \in Ttys : \A u, v \in Tasks : Drawing(u, t)' /\ Drawing(v, t)' => u = v
    BY <2>3 DEF ScreenInv
  <2> QED BY <2>2, <2>4, <2>5 DEF ScreenInv
<1> QED BY <1>5, <1>6

LEMMA ScreenWrite == ASSUME TtyInv, ScreenInv, NEW p \in Tasks, Write(p) PROVE ScreenInv'
<1>1. PICK t, rows :
        /\ t \in Ttys /\ t = job[p].tty /\ job[p].at = "write" /\ lock[t] = 1
        /\ stale' = [stale EXCEPT ![t] = rows] /\ job' = [job EXCEPT ![p] = Job("draw", t, <<>>)]
        /\ UNCHANGED <<current, lock, screen>>
  BY DEF Write, Holding, At, TtyInv, JobsTyped
<1>2. job'[p] = Job("draw", t, <<>>) /\ \A u \in Tasks : u # p => job'[u] = job[u]
  BY <1>1 DEF TtyInv, JobsTyped
<1>3. job'[p].at = "draw" /\ job'[p].row = 0 /\ job'[p].tty = t BY <1>2 DEF Job
<1>4. \A u \in Tasks : \A v : Drawing(u, v)' <=> Drawing(u, v) BY <1>1, <1>2, <1>3 DEF Drawing
<1>5. \A v \in Ttys : lock'[v] = 1 => \A u \in Tasks : ~Drawing(u, v)' BY <1>1, <1>4 DEF ScreenInv
<1>6. \A x \in Ttys : \A u, v \in Tasks : Drawing(u, x)' /\ Drawing(v, x)' => u = v
  BY <1>4 DEF ScreenInv
<1>7. Selected'
  <2>1. CASE t = current
    <3>1. Pending(current)' BY <1>1, <1>3, <2>1 DEF Pending
    <3> QED BY <3>1 DEF Selected
  <2>2. CASE t # current
    <3>1. \A r : Shown(r)' <=> Shown(r) BY <1>1, <2>2 DEF Shown, TtyInv, TtysTyped
    <3>2. CASE Pending(current)
      <4>1. Pending(current)' BY <1>1, <1>2, <2>2, <3>2 DEF Pending
      <4> QED BY <4>1 DEF Selected
    <3>3. ASSUME NEW u \in Tasks, Drawing(u, current), \A r \in 0..(job[u].row - 1) : Shown(r)
          PROVE  Selected'
      <4>1. u # p BY <1>1, <3>3 DEF Drawing
      <4>2. job'[u] = job[u] /\ current' = current BY <1>1, <1>2, <4>1
      <4>3. Drawing(u, current)' BY <3>3, <4>2 DEF Drawing
      <4>4. \A r \in 0..(job'[u].row - 1) : Shown(r)' BY <3>1, <3>3, <4>2
      <4> QED BY <4>3, <4>4 DEF Selected
    <3>4. CASE (\A u \in Tasks : ~Drawing(u, current)) /\ \A r \in Rows : Shown(r)
      <4>1. \A u \in Tasks : ~Drawing(u, current)' BY <1>1, <1>4, <3>4 DEF Drawing
      <4>2. \A r \in Rows : Shown(r)' BY <3>1, <3>4
      <4> QED BY <4>1, <4>2 DEF Selected
    <3> QED BY <3>2, <3>3, <3>4 DEF ScreenInv
  <2> QED BY <2>1, <2>2
<1> QED BY <1>5, <1>6, <1>7 DEF ScreenInv, Selected

LEMMA ScreenDraw == ASSUME TtyInv, ScreenInv, NEW p \in Tasks, Draw(p) PROVE ScreenInv'
<1>1. PICK t \in Ttys, r \in Rows : t = job[p].tty /\ r = job[p].row BY DrawEffect
<1>2. /\ job[p].at = "draw" /\ lock[t] = (IF r = 0 THEN 1 ELSE 0) /\ current' = current
      /\ lock' = [lock EXCEPT ![t] = IF r = Lines - 1 THEN 1 ELSE 0]
      /\ IF t = current
         THEN screen' = [screen EXCEPT ![r] = t] /\ stale' = [stale EXCEPT ![t] = @ \ {r}]
         ELSE UNCHANGED <<screen, stale>>
  BY <1>1 DEF Draw, At
<1>3. \A u \in Tasks : u # p => job'[u] = job[u] BY DrawEffect
<1>4. /\ job'[p].tty = t
      /\ \/ r = Lines - 1 /\ job'[p].at = Drawn(p) /\ job'[p].row = 0
         \/ r < Lines - 1 /\ job'[p].at = "draw" /\ job'[p].row = r + 1
  BY <1>1, DrawEffect
<1>5. Drawn(p) # "draw" BY DEF Drawn
<1>6. /\ lock'[t] = (IF r = Lines - 1 THEN 1 ELSE 0)
      /\ \A v \in Ttys : v # t => lock'[v] = lock[v]
  BY <1>2 DEF TtyInv, TtysTyped
<1>7. r \in Nat /\ r <= Lines - 1 /\ Lines \in Nat BY <1>1, Sizes DEF Rows
\* Nobody else draws the terminal.
<1>8. \A u \in Tasks : u # p => ~Drawing(u, t)
  <2>1. CASE r = 0
    <3>1. lock[t] = 1 BY <1>2, <2>1
    <3> QED BY <3>1 DEF ScreenInv
  <2>2. CASE r > 0
    <3>1. Drawing(p, job[p].tty) BY <1>1, <1>2, <2>2 DEF Drawing
    <3> QED BY <1>1, <3>1 DEF ScreenInv
  <2> QED BY <1>7, <2>1, <2>2
<1>9. \A u \in Tasks : u # p => \A v : Drawing(u, v)' <=> Drawing(u, v) BY <1>3 DEF Drawing
<1>10. \A v : Drawing(p, v)' <=> v = t /\ r < Lines - 1 BY <1>4, <1>5, <1>7 DEF Drawing
<1>11. \A v \in Ttys : lock'[v] = 1 => \A u \in Tasks : ~Drawing(u, v)'
  <2> SUFFICES ASSUME NEW v \in Ttys, lock'[v] = 1, NEW u \in Tasks PROVE ~Drawing(u, v)' OBVIOUS
  <2>1. CASE v = t
    <3>1. r = Lines - 1 BY <1>6, <2>1
    <3> QED BY <1>7, <1>8, <1>9, <1>10, <2>1, <3>1
  <2>2. CASE v # t
    <3>1. lock[v] = 1 BY <1>6, <2>2
    <3>2. ~Drawing(u, v) BY <3>1 DEF ScreenInv
    <3> QED BY <1>9, <1>10, <2>2, <3>2
  <2> QED BY <2>1, <2>2
<1>12. \A x \in Ttys : \A u, v \in Tasks : Drawing(u, x)' /\ Drawing(v, x)' => u = v
  <2> SUFFICES ASSUME NEW x \in Ttys, NEW u \in Tasks, NEW v \in Tasks, Drawing(u, x)', Drawing(v, x)'
               PROVE  u = v
    OBVIOUS
  <2>1. CASE x = t BY <1>8, <1>9, <2>1
  <2>2. CASE x # t
    <3>1. u # p /\ v # p BY <1>10, <2>2
    <3>2. Drawing(u, x) /\ Drawing(v, x) BY <1>9, <3>1
    <3> QED BY <3>2 DEF ScreenInv
  <2> QED BY <2>1, <2>2
<1>13. Selected'
  <2>1. CASE t # current
    <3>1. \A x : Shown(x)' <=> Shown(x) BY <1>2, <2>1 DEF Shown
    <3>2. CASE Pending(current)
      <4>1. Pending(current)' BY <1>1, <1>2, <1>3, <2>1, <3>2 DEF Pending
      <4> QED BY <4>1 DEF Selected
    <3>3. ASSUME NEW u \in Tasks, Drawing(u, current), \A x \in 0..(job[u].row - 1) : Shown(x)
          PROVE  Selected'
      <4>1. u # p BY <1>1, <2>1, <3>3 DEF Drawing
      <4>2. job'[u] = job[u] /\ current' = current BY <1>2, <1>3, <4>1
      <4>3. Drawing(u, current)' BY <3>3, <4>2 DEF Drawing
      <4>4. \A x \in 0..(job'[u].row - 1) : Shown(x)' BY <3>1, <3>3, <4>2
      <4> QED BY <4>3, <4>4 DEF Selected
    <3>4. CASE (\A u \in Tasks : ~Drawing(u, current)) /\ \A x \in Rows : Shown(x)
      <4>1. \A u \in Tasks : ~Drawing(u, current)'
        <5>1. PICK c : c = current /\ c = current' BY <1>2
        <5>2. \A u \in Tasks : ~Drawing(u, c)' BY <1>9, <1>10, <2>1, <3>4, <5>1
        <5> QED BY <5>1, <5>2 DEF Drawing
      <4>2. \A x \in Rows : Shown(x)' BY <3>1, <3>4
      <4> QED BY <4>1, <4>2 DEF Selected
    <3> QED BY <3>2, <3>3, <3>4 DEF ScreenInv
  <2>2. CASE t = current
    <3>1. screen'[r] = current /\ \A x \in Rows : x # r => screen'[x] = screen[x]
      BY <1>2, <2>2 DEF TtyInv, TtysTyped
    <3>2. stale'[current] = stale[current] \ {r} BY <1>2, <2>2 DEF TtyInv, TtysTyped
    <3>3. Shown(r)' /\ \A x \in Rows : Shown(x) => Shown(x)' BY <1>2, <3>1, <3>2 DEF Shown
    <3>4. CASE \E q \in Tasks : q # p /\ job[q].tty = current
                                /\ (job[q].at = "write" \/ (job[q].at = "draw" /\ job[q].row = 0))
      <4>1. Pending(current)' BY <1>2, <1>3, <3>4 DEF Pending
      <4> QED BY <4>1 DEF Selected
    <3>5. CASE ~\E q \in Tasks : q # p /\ job[q].tty = current
                                /\ (job[q].at = "write" \/ (job[q].at = "draw" /\ job[q].row = 0))
      <4>1. \A x \in 0..(r - 1) : Shown(x)
        <5>1. CASE r = 0 BY <5>1
        <5>2. CASE r > 0
          <6>1. ~Pending(current) BY <1>1, <1>2, <3>5, <5>2 DEF Pending
          <6>2. Drawing(p, current) BY <1>1, <1>2, <2>2, <5>2 DEF Drawing
          <6>3. PICK u \in Tasks : Drawing(u, current) /\ \A x \in 0..(job[u].row - 1) : Shown(x)
            BY <6>1, <6>2 DEF ScreenInv
          <6>4. u = p BY <1>8, <2>2, <6>3
          <6> QED BY <1>1, <6>3, <6>4
        <5> QED BY <1>7, <5>1, <5>2
      <4>2. \A x \in 0..r : Shown(x)'
        <5>1. \A x \in 0..r : x \in Rows /\ (x = r \/ x \in 0..(r - 1)) BY <1>7 DEF Rows
        <5> QED BY <3>3, <4>1, <5>1
      <4>3. CASE r = Lines - 1
        <5>1. \A x \in Rows : Shown(x)' BY <4>2, <4>3 DEF Rows
        <5>2. \A u \in Tasks : ~Drawing(u, current)'
          <6>1. \A u \in Tasks : ~Drawing(u, t)' BY <1>7, <1>8, <1>9, <1>10, <4>3
          <6> QED BY <1>2, <2>2, <6>1 DEF Drawing
        <5> QED BY <5>1, <5>2 DEF Selected
      <4>4. CASE r < Lines - 1
        <5>1. job'[p].row = r + 1 /\ Drawing(p, current)'
          <6>1. Drawing(p, t)' BY <1>10, <4>4
          <6> QED BY <1>2, <1>4, <1>7, <2>2, <4>4, <6>1 DEF Drawing
        <5>2. \A x \in 0..(job'[p].row - 1) : Shown(x)' BY <1>7, <4>2, <5>1
        <5> QED BY <5>1, <5>2 DEF Selected
      <4> QED BY <1>7, <4>3, <4>4
    <3> QED BY <3>4, <3>5
  <2> QED BY <2>1, <2>2
<1> QED BY <1>11, <1>12, <1>13 DEF ScreenInv, Selected

LEMMA ScreenCook ==
  ASSUME TtyInv, ScreenInv, CookChar \/ CookBackspace \/ CookNewline
  PROVE  ScreenInv'
<1>1. Holding(Task, "cook") BY DEF CookChar, CookBackspace, CookNewline
<1>2. \E t, q, echo : Cooked(t, q, echo) BY DEF CookChar, CookBackspace, CookNewline
<1>3. job[Task].at = "cook" /\ job'[Task].at \in {"idle", "write"} BY <1>1, <1>2, CookedJobs
<1>4. Task \in Tasks BY Sizes
<1>5. UNCHANGED <<current, lock, stale, screen>> /\ \A u \in Tasks : u # Task => job'[u] = job[u]
  BY <1>2 DEF Cooked, TtyInv, JobsTyped
<1> QED BY <1>3, <1>4, <1>5, ScreenMove

LEMMA ScreenStep == TtyInv /\ ScreenInv /\ [Next]_vars => ScreenInv'
<1> SUFFICES ASSUME TtyInv, ScreenInv, [Next]_vars PROVE ScreenInv' OBVIOUS
<1>0. Task \in Tasks /\ \A t \in Shells : t \in Tasks BY Sizes DEF Tasks
<1>1. ASSUME UNCHANGED ttyVars PROVE ScreenInv'
  BY <1>1 DEF ScreenInv, Pending, Drawing, Shown, ttyVars
<1>2. CASE TakeEvent
  <2>1. job[Task].at = "idle" /\ job' = [job EXCEPT ![Task].at = "pop"]
        /\ UNCHANGED <<current, lock, stale, screen>>
    BY <1>2 DEF TakeEvent, At, Goes
  <2>2. job'[Task].at = "pop" /\ \A u \in Tasks : u # Task => job'[u] = job[u]
    BY <1>0, <2>1 DEF TtyInv, JobsTyped
  <2> QED BY <1>0, <2>1, <2>2, ScreenMove
<1>3. CASE Handle BY <1>3, ScreenHandle
<1>4. CASE CookChar \/ CookBackspace \/ CookNewline BY <1>4, ScreenCook
<1>5. ASSUME NEW p \in Tasks, Write(p) PROVE ScreenInv' BY <1>5, ScreenWrite
<1>6. ASSUME NEW p \in Tasks, Draw(p) PROVE ScreenInv' BY <1>6, ScreenDraw
<1>7. ASSUME NEW t \in Shells, WaitCooked(t) PROVE ScreenInv'
  <2>1. job[t].at = "wait cooked" /\ job' = [job EXCEPT ![t].at = "read"]
        /\ UNCHANGED <<current, lock, stale, screen>>
    BY <1>7 DEF WaitCooked, At, Goes
  <2>2. job'[t].at = "read" /\ \A u \in Tasks : u # t => job'[u] = job[u]
    BY <1>0, <2>1 DEF TtyInv, JobsTyped
  <2> QED BY <1>0, <2>1, <2>2, ScreenMove
<1>8. ASSUME NEW t \in Shells, Read(t) PROVE ScreenInv'
  <2>1. job[t].at = "read" /\ job' = [job EXCEPT ![t] = Job("write", t, Prompt)]
        /\ UNCHANGED <<current, lock, stale, screen>>
    BY <1>8 DEF Read, Holding, At
  <2>2. job'[t].at = "write" /\ \A u \in Tasks : u # t => job'[u] = job[u]
    BY <1>0, <2>1 DEF TtyInv, JobsTyped, Job
  <2> QED BY <1>0, <2>1, <2>2, ScreenMove
<1> QED
  BY <1>0, <1>1, <1>2, <1>3, <1>4, <1>5, <1>6, <1>7, <1>8
  DEF Next, Hardware, Input_task, Tty_task, Shell, vars

\* Whoever writes or switches while somebody else draws: once nobody is about to
\* draw, the frame buffer shows the selected terminal, every row of it as it is.
THEOREM TtyScreenIsRight == Spec => []ScreenIsRight
<1>1. TtyInv /\ ScreenInv => ScreenIsRight
  <2> SUFFICES ASSUME TtyInv, ScreenInv, \A p \in Tasks : job[p].at \notin {"write", "draw"}
               PROVE  stale[current] = {} /\ \A r \in Rows : screen[r] = current
    BY DEF ScreenIsRight
  <2>1. \A r \in Rows : Shown(r) BY DEF ScreenInv, Pending, Drawing
  <2>2. stale[current] \subseteq Rows BY DEF TtyInv, TtysTyped
  <2> QED BY <2>1, <2>2 DEF Shown
<1>2. Spec => []ScreenInv
  <2>1. Init => ScreenInv BY ScreenInit
  <2>2. TtyInv /\ ScreenInv /\ [Next]_vars => ScreenInv' BY ScreenStep
  <2> QED BY <2>1, <2>2, Invariant, PTL DEF Spec
<1> QED BY <1>1, <1>2, Invariant, PTL

-----------------------------------------------------------------------------
(* What the queues hold.                                                    *)

Held(q) == (q.rear - q.front) % CookBuf

LEMMA ContentIs ==
  ASSUME NEW q \in Queue
  PROVE  /\ Held(q) \in 0..(CookBuf - 1) /\ (q.front + Held(q)) % CookBuf = q.rear
         /\ Content(q) \in Seq(Alphabet) /\ Len(Content(q)) = Held(q)
         /\ \A k \in 0..(Held(q) - 1) : Content(q)[k + 1] = q.buf[(q.front + k) % CookBuf]
<1>1. CookBuf \in Nat \ {0} /\ q.front \in 0..(CookBuf - 1) /\ q.rear \in 0..(CookBuf - 1)
      /\ q.buf \in [0..(CookBuf - 1) -> Alphabet]
  BY Sizes DEF Queue, Alphabet
<1>2. Held(q) \in 0..(CookBuf - 1) /\ (q.front + Held(q)) % CookBuf = q.rear
  BY <1>1, ModDistance, ModDistanceSum DEF Held
<1>3. PICK n \in Nat : n = Held(q) BY <1>2
<1>4. \A i \in 1..n : (q.front + i - 1) % CookBuf \in 0..(CookBuf - 1)
  <2> TAKE i \in 1..n
  <2>1. q.front + i - 1 \in Nat BY <1>1, <1>3
  <2> QED BY <1>1, <2>1, ModRange
<1>5. Content(q) = [i \in 1..n |-> q.buf[(q.front + i - 1) % CookBuf]] BY <1>3 DEF Content, Held
<1>6. Content(q) \in [1..n -> Alphabet] BY <1>1, <1>4, <1>5
<1>7. Content(q) \in Seq(Alphabet) /\ Len(Content(q)) = n BY <1>6
<1>8. \A k \in 0..(n - 1) : Content(q)[k + 1] = q.buf[(q.front + k) % CookBuf]
  <2> TAKE k \in 0..(n - 1)
  <2>1. k + 1 \in 1..n /\ q.front + (k + 1) - 1 = q.front + k BY <1>1
  <2> QED BY <1>5, <2>1
<1> QED BY <1>2, <1>3, <1>7, <1>8

\* tty_enqueue puts a character behind the others, as long as there is room, and
\* the mark before the first one stays.
LEMMA EnqueueContent ==
  ASSUME NEW q \in Queue, NEW ch \in Alphabet, ~Overflows(q)
  PROVE  /\ Content(Enqueue(q, ch)) = Append(Content(q), ch)
         /\ Enqueue(q, ch).front = q.front
         /\ q.buf[Before(q.front)] = Nul => Enqueue(q, ch).buf[Before(q.front)] = Nul
<1> DEFINE e == Enqueue(q, ch)
<1>0. /\ CookBuf \in Nat \ {0} /\ CookBuf > 1 /\ q.front \in 0..(CookBuf - 1) /\ q.rear \in 0..(CookBuf - 1)
      /\ q.buf \in [0..(CookBuf - 1) -> Alphabet]
  BY Sizes DEF Queue, Alphabet
<1>1. e \in Queue /\ After(q.rear) \in 0..(CookBuf - 1) /\ After(q.rear) # q.rear BY EnqueueTyped
<1>2. /\ e.front = q.front /\ e.rear = After(q.rear)
      /\ e.buf = [q.buf EXCEPT ![q.rear] = ch, ![After(q.rear)] = Nul]
  BY DEF Enqueue
<1>3. \A i \in 0..(CookBuf - 1) : e.buf[i] = IF i = After(q.rear) THEN Nul ELSE IF i = q.rear THEN ch ELSE q.buf[i]
  BY <1>0, <1>1, <1>2
<1> HIDE DEF e
<1>4. PICK n \in 0..(CookBuf - 1) : n = Held(q) /\ (q.front + n) % CookBuf = q.rear BY ContentIs
<1>5. After(q.rear) = IF q.rear + 1 = CookBuf THEN 0 ELSE q.rear + 1 BY <1>0, ModNext DEF After
<1>6. After(q.rear) # q.front BY DEF Overflows
<1>7. n = IF q.rear >= q.front THEN q.rear - q.front ELSE q.rear - q.front + CookBuf
  BY <1>0, <1>4, ModDistance DEF Held
<1>8. Held(e) = n + 1 /\ n + 1 <= CookBuf - 1
  <2>1. Held(e) = IF e.rear >= e.front THEN e.rear - e.front ELSE e.rear - e.front + CookBuf
    <3>1. e.rear \in 0..(CookBuf - 1) /\ e.front \in 0..(CookBuf - 1) BY <1>0, <1>1, <1>2
    <3> QED BY <1>0, <3>1, ModDistance DEF Held
  <2>2. CASE q.rear + 1 = CookBuf BY <1>0, <1>2, <1>5, <1>6, <1>7, <2>1, <2>2
  <2>3. CASE q.rear + 1 # CookBuf
    <3>1. e.rear = q.rear + 1 /\ q.rear + 1 # q.front /\ e.front = q.front BY <1>2, <1>5, <1>6, <2>3
    <3>2. Held(e) = IF q.rear + 1 >= q.front THEN q.rear + 1 - q.front ELSE q.rear + 1 - q.front + CookBuf
      <4>1. q.rear + 1 \in 0..(CookBuf - 1) BY <1>0, <2>3
      <4>2. Held(e) = ((q.rear + 1) - q.front) % CookBuf BY <3>1 DEF Held
      <4>3. PICK b \in 0..(CookBuf - 1) : b = q.rear + 1 BY <4>1
      <4>4. (b - q.front) % CookBuf = IF b >= q.front THEN b - q.front ELSE b - q.front + CookBuf
        BY <1>0, ModDistance
      <4>5. q.rear \in Nat /\ q.front \in Nat /\ CookBuf \in Nat BY <1>0
      <4>6. Held(e) = IF b >= q.front THEN b - q.front ELSE b - q.front + CookBuf BY <4>2, <4>3, <4>4
      <4> QED BY <4>3, <4>5, <4>6
    <3>3. CASE q.rear >= q.front BY <1>0, <1>7, <2>3, <3>2, <3>3
    <3>4. CASE q.rear < q.front
      <4>1. n = q.rear - q.front + CookBuf BY <1>0, <1>7, <3>4
      <4>2. q.rear + 1 < q.front BY <1>0, <3>1, <3>4
      <4>3. Held(e) = q.rear + 1 - q.front + CookBuf BY <1>0, <3>2, <4>2
      <4> QED BY <1>0, <4>1, <4>2, <4>3, SMTT(30)
    <3> QED BY <1>0, <3>3, <3>4
  <2> QED BY <2>2, <2>3
<1>9. (q.front + (n + 1)) % CookBuf = After(q.rear) BY <1>1, <1>2, <1>8, ContentIs
<1>10. \A k \in 0..(n - 1) : e.buf[(q.front + k) % CookBuf] = q.buf[(q.front + k) % CookBuf]
  <2> TAKE k \in 0..(n - 1)
  <2>1. k \in 0..(CookBuf - 1) /\ n + 1 \in 0..(CookBuf - 1) /\ k # n /\ k # n + 1 BY <1>0, <1>4, <1>8
  <2>2. (q.front + k) % CookBuf # q.rear BY <1>0, <1>4, <2>1, ModSumInjective
  <2>3. (q.front + k) % CookBuf # After(q.rear) BY <1>0, <1>9, <2>1, ModSumInjective
  <2>4. k \in 0..CookBuf BY <1>0, <2>1
  <2>5. (q.front + k) % CookBuf \in 0..(CookBuf - 1) BY <1>0, <2>4, ModSum
  <2> QED BY <1>3, <2>2, <2>3, <2>5
<1>11. e.buf[(q.front + n) % CookBuf] = ch BY <1>0, <1>1, <1>3, <1>4
<1>12. Content(e) = Append(Content(q), ch)
  <2>1. /\ Content(q) \in Seq(Alphabet) /\ Len(Content(q)) = n
        /\ \A k \in 0..(n - 1) : Content(q)[k + 1] = q.buf[(q.front + k) % CookBuf]
    BY <1>4, ContentIs
  <2>2. /\ Content(e) \in Seq(Alphabet) /\ Len(Content(e)) = n + 1
        /\ \A k \in 0..n : Content(e)[k + 1] = e.buf[(q.front + k) % CookBuf]
    <3>1. n + 1 - 1 = n BY <1>4
    <3>2. /\ Content(e) \in Seq(Alphabet) /\ Len(Content(e)) = n + 1
      BY <1>1, <1>8, ContentIs
    <3>3. \A k \in 0..(Held(e) - 1) : Content(e)[k + 1] = e.buf[(e.front + k) % CookBuf]
      BY <1>1, ContentIs
    <3>4. 0..(Held(e) - 1) = 0..n /\ e.front = q.front BY <1>2, <1>8, <3>1
    <3> QED BY <3>2, <3>3, <3>4
  <2>3. /\ Append(Content(q), ch) \in Seq(Alphabet) /\ Len(Append(Content(q), ch)) = n + 1
        /\ \A i \in 1..n : Append(Content(q), ch)[i] = Content(q)[i]
        /\ Append(Content(q), ch)[n + 1] = ch
    BY <2>1, AppendProperties DEF Alphabet
  <2>4. \A i \in 1..(n + 1) : Content(e)[i] = Append(Content(q), ch)[i]
    <3> TAKE i \in 1..(n + 1)
    <3>1. PICK k \in 0..n : k + 1 = i
      <4>1. i - 1 \in 0..n /\ (i - 1) + 1 = i BY <1>4
      <4> QED BY <4>1
    <3>2. CASE k = n BY <1>11, <2>2, <2>3, <3>1, <3>2
    <3>3. CASE k # n
      <4>1. k \in 0..(n - 1) /\ i \in 1..n BY <1>4, <3>1, <3>3
      <4> QED BY <1>10, <2>1, <2>2, <2>3, <3>1, <4>1
    <3> QED BY <3>2, <3>3
  <2> QED BY <2>2, <2>3, <2>4, SeqEqual
<1>13. ASSUME q.buf[Before(q.front)] = Nul PROVE e.buf[Before(q.front)] = Nul
  <2>1. Before(q.front) \in 0..(CookBuf - 1) /\ Before(q.front) = IF q.front = 0 THEN CookBuf - 1 ELSE q.front - 1
    BY <1>0, ModBefore DEF Before
  <2>2. Before(q.front) # q.rear BY <1>0, <1>5, <1>6, <2>1
  <2> QED BY <1>3, <1>13, <2>1, <2>2
<1> QED BY <1>2, <1>12, <1>13 DEF e

\* tty_pop_back takes the last character, of the line that is not ended.
LEMMA PopBackContent ==
  ASSUME NEW q \in Queue, q.buf[Before(q.front)] = Nul
  PROVE  /\ PopBack(q).front = q.front /\ PopBack(q).buf[Before(q.front)] = Nul
         /\ \/ Held(q) = 0 /\ PopBack(q) = q
            \/ Held(q) > 0 /\ Content(q)[Held(q)] = Nul /\ PopBack(q) = q
            \/ Held(q) > 0 /\ Content(q)[Held(q)] # Nul
               /\ Content(PopBack(q)) = SubSeq(Content(q), 1, Held(q) - 1)
<1> DEFINE e == PopBack(q)
           b == Before(q.rear)
<1>0. /\ CookBuf \in Nat \ {0} /\ CookBuf > 1 /\ q.front \in 0..(CookBuf - 1) /\ q.rear \in 0..(CookBuf - 1)
      /\ q.buf \in [0..(CookBuf - 1) -> Alphabet]
  BY Sizes DEF Queue, Alphabet
<1>1. PICK n \in 0..(CookBuf - 1) : n = Held(q) /\ (q.front + n) % CookBuf = q.rear BY ContentIs
<1>2. b \in 0..(CookBuf - 1) /\ b = IF q.rear = 0 THEN CookBuf - 1 ELSE q.rear - 1
  BY <1>0, ModBefore DEF Before
<1>3. n = IF q.rear >= q.front THEN q.rear - q.front ELSE q.rear - q.front + CookBuf
  BY <1>0, <1>1, ModDistance DEF Held
<1>4. CASE n = 0
  <2>1. q.rear = q.front BY <1>0, <1>3, <1>4
  <2>2. e = q BY <2>1 DEF PopBack
  <2> QED BY <1>1, <1>4, <2>2
<1>5. CASE n > 0
  <2> HIDE DEF e, b
  <2>1. n - 1 \in 0..(CookBuf - 1) /\ (q.front + (n - 1)) % CookBuf = b
    <3>1. n - 1 \in 0..(CookBuf - 1) /\ n - 1 \in 0..CookBuf BY <1>0, <1>5
    <3>2. (q.front + (n - 1)) % CookBuf = IF q.front + (n - 1) < CookBuf THEN q.front + (n - 1)
                                          ELSE q.front + (n - 1) - CookBuf
      BY <1>0, <3>1, ModSum
    <3>3. CASE q.rear >= q.front /\ q.rear = 0 BY <1>0, <1>3, <1>5, <3>3
    <3>4. CASE q.rear >= q.front /\ q.rear # 0
      <4>1. q.front + (n - 1) = q.rear - 1 BY <1>0, <1>3, <3>4
      <4> QED BY <1>0, <1>2, <3>1, <3>2, <3>4, <4>1
    <3>5. CASE q.rear < q.front
      <4>1. q.front + (n - 1) = q.rear - 1 + CookBuf BY <1>0, <1>3, <3>5
      <4>2. q.rear = 0 => (q.front + (n - 1)) % CookBuf = CookBuf - 1 BY <1>0, <3>2, <4>1
      <4>3. q.rear # 0 => (q.front + (n - 1)) % CookBuf = q.rear - 1
        <5> SUFFICES ASSUME q.rear # 0 PROVE (q.front + (n - 1)) % CookBuf = q.rear - 1 OBVIOUS
        <5>1. PICK s \in Int : s = q.front + (n - 1) BY <1>0
        <5>2. s % CookBuf = IF s < CookBuf THEN s ELSE s - CookBuf BY <1>0, <3>2, <5>1
        <5>3. s = q.rear - 1 + CookBuf BY <4>1, <5>1
        <5>4. q.rear \in Nat /\ CookBuf \in Nat BY <1>0
        <5>5. ~(s < CookBuf) /\ s - CookBuf = q.rear - 1 BY <5>3, <5>4
        <5> QED BY <5>1, <5>2, <5>5
      <4> QED BY <1>2, <3>1, <4>2, <4>3
    <3> QED BY <1>0, <3>3, <3>4, <3>5
  <2>2. Content(q)[n] = q.buf[b]
    <3>1. n - 1 \in 0..(n - 1) /\ (n - 1) + 1 = n BY <1>5
    <3> QED BY <1>1, <2>1, <3>1, ContentIs
  <2>3. CASE q.buf[b] = Nul
    <3>1. e = q BY <2>3 DEF e, b, PopBack
    <3> QED BY <1>1, <1>5, <2>2, <2>3, <3>1 DEF e
  <2>4. CASE q.buf[b] # Nul
    <3>1. e = [buf |-> [q.buf EXCEPT ![b] = Nul], front |-> q.front, rear |-> b]
      BY <2>4 DEF e, b, PopBack, Queue
    <3>2. e \in Queue BY <1>0, <1>2, <3>1 DEF Queue, Alphabet
    <3>3. Held(e) = n - 1 BY <1>0, <2>1, <3>1, ModSumDistance DEF Held
    <3>4. \A k \in 0..(n - 2) : e.buf[(q.front + k) % CookBuf] = q.buf[(q.front + k) % CookBuf]
      <4> TAKE k \in 0..(n - 2)
      <4>1. k \in 0..(CookBuf - 1) /\ k \in 0..CookBuf /\ k # n - 1 BY <1>0
      <4>2. (q.front + k) % CookBuf # b BY <1>0, <2>1, <4>1, ModSumInjective
      <4>3. (q.front + k) % CookBuf \in 0..(CookBuf - 1) BY <1>0, <4>1, ModSum
      <4> QED BY <1>0, <3>1, <4>2, <4>3
    <3>5. /\ Content(q) \in Seq(Alphabet) /\ Len(Content(q)) = n
          /\ \A k \in 0..(n - 1) : Content(q)[k + 1] = q.buf[(q.front + k) % CookBuf]
      BY <1>1, ContentIs
    <3>6. /\ Content(e) \in Seq(Alphabet) /\ Len(Content(e)) = n - 1
          /\ \A k \in 0..(n - 2) : Content(e)[k + 1] = e.buf[(q.front + k) % CookBuf]
      <4>1. n - 1 - 1 = n - 2 /\ e.front = q.front BY <1>1, <3>1
      <4> QED BY <3>2, <3>3, <4>1, ContentIs
    <3>7. Content(q) # <<>> BY <1>5, <3>5
    <3>8. /\ SubSeq(Content(q), 1, n - 1) \in Seq(Alphabet) /\ Len(SubSeq(Content(q), 1, n - 1)) = n - 1
          /\ \A i \in 1..(n - 1) : SubSeq(Content(q), 1, n - 1)[i] = Content(q)[i]
      BY <3>5, <3>7, DropLast
    <3>9. \A i \in 1..(n - 1) : Content(e)[i] = SubSeq(Content(q), 1, n - 1)[i]
      <4> TAKE i \in 1..(n - 1)
      <4>1. PICK k \in 0..(n - 2) : k + 1 = i
        <5>1. i - 1 \in 0..(n - 2) /\ (i - 1) + 1 = i BY <1>1
        <5> QED BY <5>1
      <4>2. k \in 0..(n - 1) BY <1>1, <4>1
      <4> QED BY <3>4, <3>5, <3>6, <3>8, <4>1, <4>2
    <3>10. Content(e) = SubSeq(Content(q), 1, n - 1) BY <3>6, <3>8, <3>9, SeqEqual
    <3>11. e.front = q.front /\ e.buf[Before(q.front)] = Nul
      <4>1. Before(q.front) \in 0..(CookBuf - 1) BY <1>0, BeforeTyped
      <4> QED BY <1>0, <1>2, <3>1, <4>1
    <3> QED BY <1>1, <1>5, <2>2, <2>4, <3>10, <3>11 DEF e
  <2> QED BY <2>3, <2>4
<1> QED BY <1>1, <1>4, <1>5

\* The pieces that were entered, one behind the other.
Joined(ls) == FoldLeft(LAMBDA acc, line : acc \o line \o <<Nul>>, <<>>, ls)

LEMMA ConcatTyped ==
  ASSUME NEW y \in Seq(Alphabet), NEW line \in Seq(Data)
  PROVE  y \o line \o <<Nul>> \in Seq(Alphabet) /\ line \o <<Nul>> \in Seq(Alphabet)
         /\ line \in Seq(Alphabet) /\ y \o line \o <<Nul>> = y \o (line \o <<Nul>>)
<1>1. line \in Seq(Alphabet) BY SeqMonotonic DEF Alphabet
<1>2. <<Nul>> \in Seq(Alphabet) BY DEF Alphabet
<1>3. y \o line \in Seq(Alphabet) /\ line \o <<Nul>> \in Seq(Alphabet) BY <1>1, <1>2, ConcatProperties
<1>4. y \o line \o <<Nul>> \in Seq(Alphabet) BY <1>2, <1>3, ConcatProperties
<1>5. (y \o line) \o <<Nul>> = y \o (line \o <<Nul>>) BY <1>1, <1>2, ConcatAssociative
<1> QED BY <1>1, <1>3, <1>4, <1>5

\* e is the growing sequence of the first lines.
Grows(e, ls) ==
  /\ e[0] = <<>>
  /\ \A k \in 0..Len(ls) : e[k] \in Seq(Alphabet)
  /\ \A k \in 1..Len(ls) : e[k] = e[k - 1] \o (ls[k] \o <<Nul>>)

LEMMA JoinedGrows ==
  ASSUME NEW ls \in Seq(Seq(Data))
  PROVE  \E e : Grows(e, ls) /\ Joined(ls) = e[Len(ls)]
<1> DEFINE N == Len(ls)
           T == Seq(Alphabet)
           Step(y, k) == y \o ls[k] \o <<Nul>>
           G == [p \in T \X (1..N) |-> Step(p[1], p[2])]
           Fold(f) == [s \in SUBSET (1..N) |->
                         IF s = {} THEN <<>> ELSE Step(f[s \ {Max(s)}], Max(s))]
           it == CHOOSE f : f = Fold(f)
<1>0. N \in Nat /\ DOMAIN ls = 1..N /\ \A k \in 1..N : ls[k] \in Seq(Data) BY LenProperties
<1>1. Joined(ls) = it[1..N] BY <1>0 DEF Joined, FoldLeft, MapThenFoldSet
<1>2. \A y \in T : \A k \in 1..N : Step(y, k) \in T /\ Step(y, k) = y \o (ls[k] \o <<Nul>>)
  BY <1>0, ConcatTyped
<1>3. <<>> \in T OBVIOUS
<1> HIDE DEF Step, N, T
<1>4. G \in [T \X (1..N) -> T] BY <1>2
<1>5. \A y \in T : \A k \in 1..N : G[<<y, k>>] = Step(y, k) OBVIOUS
<1> HIDE DEF G, Fold, it
<1>6. PICK f \in [SUBSET (1..N) -> T] : IsFold(f, N, <<>>, G) BY <1>0, <1>3, <1>4, FoldExists
<1>7. f = Fold(f)
  <2>1. \A s \in SUBSET (1..N) : s # {} => Max(s) \in 1..N /\ f[s \ {Max(s)}] \in T
    BY <1>0, MaxInInterval
  <2>2. \A s \in SUBSET (1..N) :
          f[s] = IF s = {} THEN <<>> ELSE Step(f[s \ {Max(s)}], Max(s))
    BY <1>5, <1>6, <2>1 DEF IsFold
  <2> QED BY <2>2 DEF Fold
<1>8. it = Fold(it) BY <1>7 DEF it
<1>9. it[{}] = <<>>
  <2>1. {} \in SUBSET (1..N) OBVIOUS
  <2> QED BY <1>8, <2>1 DEF Fold
<1>10. ASSUME NEW k \in 1..N PROVE it[1..k] = Step(it[1..(k - 1)], k)
  <2>0. k \in Nat \ {0} BY <1>0
  <2>1. 1..k # {} /\ Max(1..k) = k /\ (1..k) \ {Max(1..k)} = 1..(k - 1)
    BY <2>0, LastOfInterval
  <2>2. 1..k \in SUBSET (1..N) BY <1>0
  <2> QED BY <1>8, <2>1, <2>2 DEF Fold
<1>11. \A k \in 0..N : it[1..k] \in T
  <2>1. \A k \in 1..N : it[1..(k - 1)] \in T => it[1..k] \in T BY <1>2, <1>10
  <2>2. it[{}] \in T BY <1>3, <1>9
  <2> QED BY <1>0, <2>1, <2>2, FoldMembers
<1> DEFINE e == [k \in 0..N |-> it[1..k]]
<1>12. \A k \in 0..N : e[k] = it[1..k] OBVIOUS
<1> HIDE DEF e
<1>13. e[0] = <<>>
  <2>1. 0 \in 0..N /\ 1..0 = {} BY <1>0
  <2> QED BY <1>9, <1>12, <2>1
<1>14. \A k \in 1..N : e[k] = e[k - 1] \o (ls[k] \o <<Nul>>)
  <2> TAKE k \in 1..N
  <2>1. k \in 0..N /\ k - 1 \in 0..N BY <1>0
  <2>2. it[1..(k - 1)] \in T BY <1>11, <2>1
  <2>3. it[1..k] = it[1..(k - 1)] \o (ls[k] \o <<Nul>>) BY <1>2, <1>10, <2>2
  <2> QED BY <1>12, <2>1, <2>3
<1>15. Joined(ls) = e[N] BY <1>0, <1>1, <1>12
<1>16. Grows(e, ls) BY <1>11, <1>12, <1>13, <1>14 DEF Grows, N, T
<1> QED BY <1>15, <1>16 DEF N

\* Two sequences that grow alike, one of them behind x.
AreCells(w, from, to) == \A k \in from..to : w[k] \in Seq(Alphabet)
GrowsBy(e, w, to) == \A k \in 1..to : e[k] = e[k - 1] \o w[k]

LEMMA GrowAlike ==
  ASSUME NEW N \in Nat, NEW w, AreCells(w, 1, N), NEW x \in Seq(Alphabet),
         NEW e, AreCells(e, 0, N), GrowsBy(e, w, N), NEW d, GrowsBy(d, w, N), d[0] = x \o e[0]
  PROVE  d[N] = x \o e[N]
<1> USE DEF AreCells, GrowsBy
<1> DEFINE Bad == {k \in 0..N : d[k] # x \o e[k]}
<1>1. SUFFICES Bad = {}
  <2>1. N \in 0..N OBVIOUS
  <2> QED BY <1>1, <2>1
<1>2. SUFFICES ASSUME Bad # {} PROVE FALSE OBVIOUS
<1>3. Bad \in SUBSET Nat OBVIOUS
<1>4. PICK m \in Bad : \A n \in Bad : m <= n
  <2> HIDE DEF Bad
  <2> QED BY <1>2, <1>3, SmallestExists
<1>5. m \in 0..N /\ d[m] # x \o e[m] OBVIOUS
<1>6. m # 0 BY <1>5
<1>7. m \in 1..N /\ m - 1 \in 0..N /\ m - 1 \notin Bad
  <2>1. m \in 1..N /\ m - 1 \in 0..N /\ ~(m <= m - 1) BY <1>5, <1>6
  <2> HIDE DEF Bad
  <2> QED BY <1>4, <2>1
<1>8. d[m - 1] = x \o e[m - 1] BY <1>7
<1>9. PICK y \in Seq(Alphabet), z \in Seq(Alphabet) : y = e[m - 1] /\ z = w[m] BY <1>7
<1>10. (x \o y) \o z = x \o (y \o z)
  <2> HIDE DEF Bad
  <2>1. x \in Seq(Alphabet) /\ y \in Seq(Alphabet) /\ z \in Seq(Alphabet) OBVIOUS
  <2> QED BY <2>1, ConcatAssociative
<1>11. d[m] = d[m - 1] \o w[m] /\ e[m] = e[m - 1] \o w[m] BY <1>7
<1> QED BY <1>5, <1>8, <1>9, <1>10, <1>11

LEMMA JoinedTyped == ASSUME NEW ls \in Seq(Seq(Data)) PROVE Joined(ls) \in Seq(Alphabet)
<1>1. PICK e : Grows(e, ls) /\ Joined(ls) = e[Len(ls)] BY JoinedGrows
<1>2. Len(ls) \in 0..Len(ls) OBVIOUS
<1> QED BY <1>1, <1>2 DEF Grows

LEMMA JoinedNothing == Joined(<<>>) = <<>>
<1>1. <<>> \in Seq(Seq(Data)) OBVIOUS
<1>2. PICK e : Grows(e, <<>>) /\ Joined(<<>>) = e[Len(<<>>)] BY <1>1, JoinedGrows
<1>3. Len(<<>>) = 0 OBVIOUS
<1> QED BY <1>2, <1>3 DEF Grows

\* A piece is entered behind the others.
LEMMA JoinedAppend ==
  ASSUME NEW ls \in Seq(Seq(Data)), NEW line \in Seq(Data)
  PROVE  Joined(Append(ls, line)) = Joined(ls) \o (line \o <<Nul>>)
<1>1. /\ Append(ls, line) \in Seq(Seq(Data)) /\ Len(Append(ls, line)) = Len(ls) + 1
      /\ \A i \in 1..Len(ls) : Append(ls, line)[i] = ls[i]
      /\ Append(ls, line)[Len(ls) + 1] = line
  BY AppendProperties
<1>2. PICK N \in Nat : N = Len(ls) BY LenProperties
<1>3. PICK e : Grows(e, ls) /\ Joined(ls) = e[N] BY <1>2, JoinedGrows
<1>4. PICK d : Grows(d, Append(ls, line)) /\ Joined(Append(ls, line)) = d[N + 1] BY <1>1, <1>2, JoinedGrows
<1> DEFINE w == [k \in 1..N |-> ls[k] \o <<Nul>>]
<1>5. \A k \in 1..N : w[k] = ls[k] \o <<Nul>> /\ w[k] \in Seq(Alphabet)
  <2>1. \A k \in 1..N : ls[k] \in Seq(Data) BY <1>2, ElementOfSeq
  <2>2. <<>> \in Seq(Alphabet) OBVIOUS
  <2> QED BY <2>1, <2>2, ConcatTyped
<1> HIDE DEF w
<1>6. /\ e[0] = <<>> /\ (\A k \in 0..N : e[k] \in Seq(Alphabet))
      /\ \A k \in 1..N : e[k] = e[k - 1] \o w[k]
  BY <1>2, <1>3, <1>5 DEF Grows
<1>7. /\ d[0] = <<>> /\ (\A k \in 1..N : d[k] = d[k - 1] \o w[k])
      /\ d[N + 1] = d[N] \o (line \o <<Nul>>)
  <2>1. d[0] = <<>> /\ \A k \in 1..(N + 1) : d[k] = d[k - 1] \o (Append(ls, line)[k] \o <<Nul>>)
    BY <1>1, <1>2, <1>4 DEF Grows
  <2>2. \A k \in 1..N : d[k] = d[k - 1] \o w[k]
    <3> TAKE k \in 1..N
    <3>1. k \in 1..(N + 1) BY <1>2
    <3> QED BY <1>1, <1>2, <1>5, <2>1, <3>1
  <2>3. N + 1 \in 1..(N + 1) /\ (N + 1) - 1 = N BY <1>2
  <2> QED BY <1>1, <1>2, <2>1, <2>2, <2>3
<1>8. PICK x \in Seq(Alphabet) : x = <<>> BY EmptySeq
<1>9. d[0] = x \o e[0] BY <1>6, <1>7, <1>8, ConcatEmptySeq
<1>10. d[N] = <<>> \o e[N]
  <2>1. AreCells(w, 1, N) BY <1>5 DEF AreCells
  <2>2. AreCells(e, 0, N) /\ GrowsBy(e, w, N) BY <1>6 DEF AreCells, GrowsBy
  <2>3. GrowsBy(d, w, N) BY <1>7 DEF GrowsBy
  <2>4. x \in Seq(Alphabet) /\ N \in Nat BY <1>8
  <2>5. d[N] = x \o e[N] BY <1>9, <2>1, <2>2, <2>3, <2>4, GrowAlike
  <2> QED BY <1>8, <2>5
<1>11. N \in 0..N BY <1>2
<1>12. <<>> \o e[N] = e[N] BY <1>6, <1>11, ConcatEmptySeq
<1> QED BY <1>3, <1>4, <1>7, <1>10, <1>12

\* The oldest piece is in front of the others.
LEMMA JoinedHead ==
  ASSUME NEW ls \in Seq(Seq(Data)), ls # <<>>
  PROVE  Joined(ls) = (Head(ls) \o <<Nul>>) \o Joined(Tail(ls))
<1>1. /\ Head(ls) \in Seq(Data) /\ Tail(ls) \in Seq(Seq(Data)) /\ Len(Tail(ls)) = Len(ls) - 1
      /\ \A i \in 1..Len(Tail(ls)) : Tail(ls)[i] = ls[i + 1]
  BY HeadTailProperties
<1>2. PICK N \in Nat : N = Len(Tail(ls)) /\ Len(ls) = N + 1
  <2>1. Len(ls) \in Nat /\ Len(Tail(ls)) \in Nat BY <1>1, LenProperties
  <2>2. Len(ls) = Len(Tail(ls)) + 1 BY <1>1, <2>1
  <2> QED BY <2>1, <2>2
<1>3. PICK e : Grows(e, Tail(ls)) /\ Joined(Tail(ls)) = e[N] BY <1>1, <1>2, JoinedGrows
<1>4. PICK c : Grows(c, ls) /\ Joined(ls) = c[N + 1] BY <1>2, JoinedGrows
<1> DEFINE w == [k \in 1..N |-> Tail(ls)[k] \o <<Nul>>]
           d == [k \in 0..N |-> c[k + 1]]
<1>5. \A k \in 1..N : w[k] = Tail(ls)[k] \o <<Nul>> /\ w[k] \in Seq(Alphabet)
  <2>1. \A k \in 1..N : Tail(ls)[k] \in Seq(Data) BY <1>1, <1>2, ElementOfSeq
  <2>2. <<>> \in Seq(Alphabet) OBVIOUS
  <2> QED BY <2>1, <2>2, ConcatTyped
<1>6. \A k \in 0..N : d[k] = c[k + 1] OBVIOUS
<1> HIDE DEF w, d
<1>7. /\ e[0] = <<>> /\ (\A k \in 0..N : e[k] \in Seq(Alphabet))
      /\ \A k \in 1..N : e[k] = e[k - 1] \o w[k]
  BY <1>2, <1>3, <1>5 DEF Grows
<1>8. c[0] = <<>> /\ \A k \in 1..(N + 1) : c[k] = c[k - 1] \o (ls[k] \o <<Nul>>)
  BY <1>2, <1>4 DEF Grows
<1>9. \A k \in 1..N : d[k] = d[k - 1] \o w[k]
  <2> TAKE k \in 1..N
  <2>1. k \in 0..N /\ k - 1 \in 0..N /\ k + 1 \in 1..(N + 1) /\ (k - 1) + 1 = k /\ (k + 1) - 1 = k BY <1>2
  <2>2. d[k] = c[k + 1] /\ d[k - 1] = c[k] BY <1>6, <2>1
  <2>3. c[k + 1] = c[k] \o (ls[k + 1] \o <<Nul>>) BY <1>8, <2>1
  <2>4. w[k] = ls[k + 1] \o <<Nul>> BY <1>1, <1>2, <1>5
  <2> QED BY <2>2, <2>3, <2>4
<1>10. PICK x \in Seq(Alphabet) : x = Head(ls) \o <<Nul>>
  <2>1. <<>> \in Seq(Alphabet) OBVIOUS
  <2> QED BY <1>1, <2>1, ConcatTyped
<1>11. d[0] = x \o e[0]
  <2>1. 0 \in 0..N /\ 1 \in 1..(N + 1) BY <1>2
  <2>2. d[0] = c[1] BY <1>6, <2>1
  <2>6. 1 - 1 = 0 OBVIOUS
  <2>3. c[1] = c[0] \o (ls[1] \o <<Nul>>)
    <3>1. c[1] = c[1 - 1] \o (ls[1] \o <<Nul>>) BY <1>8, <2>1, Zenon
    <3> QED BY <2>6, <3>1, Zenon
  <2>4. ls[1] = Head(ls) OBVIOUS
  <2>5. <<>> \o x = x /\ x \o <<>> = x BY ConcatEmptySeq
  <2> QED BY <1>7, <1>8, <1>10, <2>2, <2>3, <2>4, <2>5
<1>12. d[N] = x \o e[N]
  <2>1. AreCells(w, 1, N) BY <1>5 DEF AreCells
  <2>2. AreCells(e, 0, N) /\ GrowsBy(e, w, N) BY <1>7 DEF AreCells, GrowsBy
  <2>3. GrowsBy(d, w, N) BY <1>9 DEF GrowsBy
  <2>4. x \in Seq(Alphabet) /\ N \in Nat BY <1>10
  <2> QED BY <1>11, <2>1, <2>2, <2>3, <2>4, GrowAlike
<1>13. N \in 0..N BY <1>2
<1> QED BY <1>3, <1>4, <1>6, <1>10, <1>12, <1>13

\* Whatever was entered ends with a mark.
LEMMA JoinedLast ==
  ASSUME NEW ls \in Seq(Seq(Data)), Joined(ls) # <<>>
  PROVE  Len(Joined(ls)) > 0 /\ Joined(ls)[Len(Joined(ls))] = Nul
<1>1. PICK N \in Nat : N = Len(ls) BY LenProperties
<1>2. PICK e : Grows(e, ls) /\ Joined(ls) = e[N] BY <1>1, JoinedGrows
<1>3. N # 0 BY <1>1, <1>2 DEF Grows
<1>4. N \in 1..N /\ N - 1 \in 0..N BY <1>1, <1>3
<1>5. PICK y \in Seq(Alphabet), line \in Seq(Data) : Joined(ls) = y \o (line \o <<Nul>>)
  <2>1. ls[N] \in Seq(Data) BY <1>1, <1>4, ElementOfSeq
  <2> QED BY <1>1, <1>2, <1>4, <2>1 DEF Grows
<1>6. PICK z \in Seq(Alphabet) : z = y \o line /\ Joined(ls) = z \o <<Nul>>
  <2>1. line \in Seq(Alphabet) /\ y \o line \o <<Nul>> = y \o (line \o <<Nul>>) BY ConcatTyped
  <2>2. y \o line \in Seq(Alphabet) BY <2>1, ConcatProperties
  <2> QED BY <1>5, <2>1, <2>2
<1>7. <<Nul>> \in Seq(Alphabet) /\ Len(<<Nul>>) = 1 /\ <<Nul>>[1] = Nul BY DEF Alphabet
<1>8. PICK n \in Nat : n = Len(z) BY LenProperties
<1>9. /\ Len(z \o <<Nul>>) = n + 1
      /\ \A i \in 1..(n + 1) : (z \o <<Nul>>)[i] = IF i <= n THEN z[i] ELSE <<Nul>>[i - n]
  BY <1>7, <1>8, ConcatProperties
<1>10. n + 1 \in 1..(n + 1) /\ ~(n + 1 <= n) /\ (n + 1) - n = 1 /\ n + 1 > 0 BY <1>8
<1> QED BY <1>6, <1>7, <1>9, <1>10

\* A read of tty_read returns the oldest piece, whole, and leaves the others.
ReadOf(q) == [q EXCEPT !.front = (q.front + LineLength(q) + 1) % CookBuf]

StartsWith(q, line, rest) == Content(q) = (line \o <<Nul>>) \o rest

LEMMA ReadContent ==
  ASSUME NEW q \in Queue, q.buf[q.rear] = Nul, NEW line \in Seq(Data), NEW rest \in Seq(Alphabet),
         StartsWith(q, line, rest),
         NEW e \in Queue, e = ReadOf(q)
  PROVE  /\ Content(e) = rest /\ e.buf[Before(e.front)] = Nul
         /\ LineLength(q) = Len(line) /\ Held(q) = Len(line) + 1 + Held(e)
<1>0. CookBuf \in Nat \ {0} /\ CookBuf > 1 /\ q.front \in 0..(CookBuf - 1) /\ q.rear \in 0..(CookBuf - 1)
  BY Sizes DEF Queue
<1>1. PICK L \in 0..(CookBuf - 1) : L = Held(q) /\ (q.front + L) % CookBuf = q.rear BY ContentIs
<1>2. /\ Len(Content(q)) = L
      /\ \A k \in 0..(L - 1) : Content(q)[k + 1] = q.buf[(q.front + k) % CookBuf]
  BY <1>1, ContentIs
<1>3. PICK n \in Nat, r \in Nat : n = Len(line) /\ r = Len(rest) BY LenProperties
\* What stands where.
<1>4. L = n + 1 + r /\ Content(q)[n + 1] = Nul
      /\ (\A i \in 1..n : Content(q)[i] = line[i])
      /\ \A i \in 1..r : Content(q)[n + 1 + i] = rest[i]
  <2>1. line \in Seq(Alphabet) BY SeqMonotonic DEF Alphabet
  <2>2. <<Nul>> \in Seq(Alphabet) /\ Len(<<Nul>>) = 1 /\ <<Nul>>[1] = Nul BY DEF Alphabet
  <2>3. PICK z \in Seq(Alphabet) : z = line \o <<Nul>> BY <2>1, <2>2, ConcatProperties
  <2>4. /\ Len(z) = n + 1
        /\ \A i \in 1..(n + 1) : z[i] = IF i <= n THEN line[i] ELSE <<Nul>>[i - n]
    BY <1>3, <2>1, <2>2, <2>3, ConcatProperties
  <2>5. /\ Len(z \o rest) = n + 1 + r
        /\ \A i \in 1..(n + 1 + r) : (z \o rest)[i] = IF i <= n + 1 THEN z[i] ELSE rest[i - (n + 1)]
    <3>1. /\ Len(z \o rest) = Len(z) + Len(rest)
          /\ \A i \in 1..(Len(z) + Len(rest)) : (z \o rest)[i] = IF i <= Len(z) THEN z[i] ELSE rest[i - Len(z)]
      BY <2>3, ConcatProperties
    <3>2. Len(z) = n + 1 /\ Len(rest) = r BY <1>3, <2>4
    <3> QED BY <3>1, <3>2
  <2>6. Content(q) = z \o rest BY <2>3 DEF StartsWith
  <2>7. L = n + 1 + r BY <1>2, <2>5, <2>6
  <2>8. Content(q)[n + 1] = Nul
    <3>1. n + 1 \in 1..(n + 1 + r) /\ n + 1 \in 1..(n + 1) /\ ~(n + 1 <= n) /\ (n + 1) - n = 1 BY <1>3
    <3> QED BY <2>2, <2>4, <2>5, <2>6, <3>1
  <2>9. \A i \in 1..n : Content(q)[i] = line[i]
    <3> TAKE i \in 1..n
    <3>1. i \in 1..(n + 1 + r) /\ i \in 1..(n + 1) /\ i <= n /\ i <= n + 1 BY <1>3
    <3> QED BY <2>4, <2>5, <2>6, <3>1
  <2>10. \A i \in 1..r : Content(q)[n + 1 + i] = rest[i]
    <3> TAKE i \in 1..r
    <3>1. n + 1 + i \in 1..(n + 1 + r) /\ ~(n + 1 + i <= n + 1) /\ (n + 1 + i) - (n + 1) = i BY <1>3
    <3> QED BY <2>5, <2>6, <3>1
  <2> QED BY <2>7, <2>8, <2>9, <2>10
<1>5. n \in 0..(L - 1) /\ n \in 0..(CookBuf - 1) BY <1>0, <1>1, <1>3, <1>4, SMTT(30)
<1>6. q.buf[(q.front + n) % CookBuf] = Nul BY <1>2, <1>4, <1>5
<1>7. \A k \in 0..(n - 1) : q.buf[(q.front + k) % CookBuf] # Nul
  <2> TAKE k \in 0..(n - 1)
  <2>1. k \in 0..(L - 1) /\ k + 1 \in 1..n BY <1>3, <1>5
  <2>2. line[k + 1] \in Data BY <1>3, <2>1, ElementOfSeq
  <2>3. Nul \notin Data BY DEF Data
  <2> QED BY <1>2, <1>4, <2>1, <2>2, <2>3
\* So that is how far tty_read reads.
<1>8. LineLength(q) = n
  <2>1. n \in Nuls(q) BY <1>5, <1>6 DEF Nuls
  <2>2. LineLength(q) \in Nuls(q) /\ LineLength(q) <= n /\ LineLength(q) \in 0..(CookBuf - 1)
    BY <2>1, LineEnds
  <2>3. LineLength(q) \notin 0..(n - 1) BY <1>7, <2>2 DEF Nuls
  <2> QED BY <1>3, <2>2, <2>3
<1>9. PICK j \in 0..(CookBuf - 1) : j = n + 1 /\ j + r = L
  <2>1. n + 1 \in 0..(CookBuf - 1) /\ (n + 1) + r = L BY <1>0, <1>1, <1>3, <1>4
  <2> QED BY <2>1
<1>10. e.front = (q.front + j) % CookBuf /\ e.rear = q.rear /\ e.buf = q.buf
  <2>0. q.front \in Nat BY <1>0
  <2>2. j = n + 1 BY <1>9
  <2>1. q.front + n + 1 = q.front + j BY <2>0, <2>2
  <2> QED BY <1>8, <2>1 DEF Queue, ReadOf
<1>11. e.front \in 0..(CookBuf - 1) BY DEF Queue
<1>12. \A k \in 0..r : (e.front + k) % CookBuf = (q.front + (j + k)) % CookBuf
  <2> TAKE k \in 0..r
  <2>1. k \in 0..(CookBuf - 1) /\ j + k <= CookBuf BY <1>0, <1>1, <1>3, <1>9, SMTT(30)
  <2> QED BY <1>0, <1>10, <2>1, ModShift, SMTT(30)
<1>13. Held(e) = r
  <2>1. r \in 0..r /\ r \in 0..(CookBuf - 1) BY <1>0, <1>1, <1>3, <1>9
  <2>2. (e.front + r) % CookBuf = q.rear BY <1>1, <1>9, <1>12, <2>1
  <2>3. (((e.front + r) % CookBuf) - e.front) % CookBuf = r BY <1>0, <1>11, <2>1, ModSumDistance
  <2>4. Held(e) = (q.rear - e.front) % CookBuf BY <1>10 DEF Held
  <2> QED BY <2>2, <2>3, <2>4
<1>14. Content(e) = rest
  <2>1. /\ Content(e) \in Seq(Alphabet) /\ Len(Content(e)) = r
        /\ \A k \in 0..(r - 1) : Content(e)[k + 1] = e.buf[(e.front + k) % CookBuf]
    BY <1>13, ContentIs
  <2>2. \A i \in 1..Len(Content(e)) : Content(e)[i] = rest[i]
    <3> SUFFICES ASSUME NEW i \in 1..r PROVE Content(e)[i] = rest[i] BY <2>1
    <3>1. PICK k \in 0..(r - 1) : k + 1 = i
      <4>1. i - 1 \in 0..(r - 1) /\ (i - 1) + 1 = i BY <1>3
      <4> QED BY <4>1
    <3>2. k \in 0..r /\ j + k \in 0..(L - 1) /\ (j + k) + 1 = n + 1 + i BY <1>1, <1>3, <1>9, <3>1, SMTT(30)
    <3>3. Content(e)[i] = q.buf[(q.front + (j + k)) % CookBuf] BY <1>10, <1>12, <2>1, <3>1, <3>2
    <3>4. Content(q)[(j + k) + 1] = q.buf[(q.front + (j + k)) % CookBuf] BY <1>2, <3>2
    <3> QED BY <1>4, <3>2, <3>3, <3>4
  <2> QED BY <1>3, <2>1, <2>2, SeqEqual
<1>15. e.buf[Before(e.front)] = Nul
  <2>1. PICK p \in 0..(CookBuf - 1) : p = (q.front + n) % CookBuf
    <3>1. n \in 0..CookBuf BY <1>0, <1>5
    <3> QED BY <1>0, <3>1, ModSum
  <2>2. 1 \in 0..(CookBuf - 1) /\ n + 1 <= CookBuf BY <1>0, <1>1, <1>3, <1>4
  <2>3. e.front = (p + 1) % CookBuf
    <3>1. (((q.front + n) % CookBuf) + 1) % CookBuf = (q.front + (n + 1)) % CookBuf
      BY <1>0, <1>5, <2>2, ModShift, ZenonT(30)
    <3> QED BY <1>9, <1>10, <2>1, <3>1
  <2>4. e.front = IF p + 1 = CookBuf THEN 0 ELSE p + 1 BY <1>0, <2>3, ModNext
  <2>5. Before(e.front) = IF e.front = 0 THEN CookBuf - 1 ELSE e.front - 1
    BY <1>0, <1>11, ModBefore DEF Before
  <2>6. Before(e.front) = p BY <1>0, <2>4, <2>5
  <2> QED BY <1>6, <1>10, <2>1, <2>6
<1> QED BY <1>1, <1>3, <1>4, <1>8, <1>13, <1>14, <1>15

-----------------------------------------------------------------------------
(* The steps that touch the queues.                                         *)

\* Where the ends of a queue stand: a place with a '\0', and how far it is.
LEMMA EndsAre ==
  ASSUME NEW q \in Queue
  PROVE  /\ Ends(q) \in SUBSET (0..(CookBuf - 1)) /\ IsFiniteSet(Ends(q))
         /\ q.rear \notin Ends(q)
<1>1. Ends(q) \in SUBSET (0..(CookBuf - 1)) BY DEF Ends
<1>2. 0 \in Int /\ CookBuf - 1 \in Int BY Sizes
<1>3. IsFiniteSet(0..(CookBuf - 1)) BY <1>2, FS_Interval
<1>4. (q.rear - q.front) % CookBuf \in 0..(CookBuf - 1)
  BY Sizes, ModDistance DEF Queue
<1>5. q.rear \notin Ends(q) BY <1>4 DEF Ends
<1> QED BY <1>1, <1>3, <1>5, FS_Subset

\* tty_enqueue adds an end where it puts a '\0', and no other.
LEMMA EnqueueEnds ==
  ASSUME NEW q \in Queue, NEW ch \in Alphabet, ~Overflows(q)
  PROVE  Ends(Enqueue(q, ch)) = IF ch = Nul THEN Ends(q) \cup {q.rear} ELSE Ends(q)
<1>0. /\ CookBuf \in Nat \ {0} /\ CookBuf > 1 /\ q.front \in 0..(CookBuf - 1) /\ q.rear \in 0..(CookBuf - 1)
      /\ q.buf \in [0..(CookBuf - 1) -> Alphabet]
  BY Sizes DEF Queue, Alphabet
<1>1. PICK e \in Queue : e = Enqueue(q, ch) BY EnqueueTyped
<1>2. /\ e.front = q.front /\ e.rear = After(q.rear)
      /\ e.buf = [q.buf EXCEPT ![q.rear] = ch, ![After(q.rear)] = Nul]
  BY <1>1 DEF Enqueue
<1>3. After(q.rear) \in 0..(CookBuf - 1) /\ After(q.rear) # q.rear BY EnqueueTyped
<1>4. \A i \in 0..(CookBuf - 1) : e.buf[i] = IF i = After(q.rear) THEN Nul ELSE IF i = q.rear THEN ch ELSE q.buf[i]
  BY <1>0, <1>2, <1>3
<1>5. PICK n \in 0..(CookBuf - 1) : n = Held(q) /\ Held(e) = n + 1
  <2>1. Held(q) \in 0..(CookBuf - 1) /\ Content(q) \in Seq(Alphabet) /\ Len(Content(q)) = Held(q) BY ContentIs
  <2>2. Content(e) = Append(Content(q), ch) BY <1>1, EnqueueContent
  <2>3. Len(Append(Content(q), ch)) = Len(Content(q)) + 1 BY <2>1, AppendProperties
  <2>4. Held(e) = Len(Content(e)) BY ContentIs
  <2> QED BY <2>1, <2>2, <2>3, <2>4
<1>6. ASSUME NEW i \in 0..(CookBuf - 1)
      PROVE  i \in Ends(e) <=> (i \in Ends(q) \/ (ch = Nul /\ i = q.rear))
  <2>1. PICK d \in 0..(CookBuf - 1) : d = (i - q.front) % CookBuf /\ (q.front + d) % CookBuf = i BY AtDistance
  <2>2. i \in Ends(q) <=> d < n /\ q.buf[i] = Nul BY <1>5, <2>1 DEF Ends, Held
  <2>3. i \in Ends(e) <=> d < n + 1 /\ e.buf[i] = Nul BY <1>2, <1>5, <2>1 DEF Ends, Held
  <2>4. i = q.rear => d = n BY <1>5, <2>1 DEF Held
  <2>5. d = n => i = q.rear BY <1>5, <2>1, ContentIs
  <2>6. i = After(q.rear) => d = n + 1 BY <1>2, <1>5, <2>1 DEF Held
  <2>7. i # q.rear => (d < n + 1 <=> d < n) BY <2>5
  <2> QED BY <1>3, <1>4, <1>5, <2>2, <2>3, <2>4, <2>6, <2>7
<1>7. Ends(e) = Ends(q) \cup (IF ch = Nul THEN {q.rear} ELSE {})
  <2>1. Ends(e) \in SUBSET (0..(CookBuf - 1)) /\ Ends(q) \in SUBSET (0..(CookBuf - 1)) BY EndsAre
  <2> QED BY <1>0, <1>6, <2>1
<1> QED BY <1>1, <1>7

\* tty_pop_back takes no end.
LEMMA PopBackEnds ==
  ASSUME NEW q \in Queue, q.buf[q.rear] = Nul, q.buf[Before(q.front)] = Nul
  PROVE  Ends(PopBack(q)) = Ends(q)
<1>0. /\ CookBuf \in Nat \ {0} /\ q.front \in 0..(CookBuf - 1) /\ q.rear \in 0..(CookBuf - 1)
      /\ q.buf \in [0..(CookBuf - 1) -> Alphabet]
  BY Sizes DEF Queue, Alphabet
<1>1. PICK b \in 0..(CookBuf - 1) : b = Before(q.rear) BY <1>0, BeforeTyped
<1>2. CASE q.buf[b] = Nul BY <1>1, <1>2 DEF PopBack
<1>3. CASE q.buf[b] # Nul
  <2>1. PICK e \in Queue : e = PopBack(q) BY PopBackTyped
  <2>2. e = [q EXCEPT !.rear = b, !.buf[b] = Nul] BY <1>1, <1>3, <2>1 DEF PopBack
  <2>3. e.front = q.front /\ e.rear = b /\ e.buf = [q.buf EXCEPT ![b] = Nul] BY <2>2 DEF Queue
  <2>4. \A i \in 0..(CookBuf - 1) : e.buf[i] = IF i = b THEN Nul ELSE q.buf[i] BY <1>0, <2>3
  <2>5. e # q BY <1>0, <1>3, <2>4
  <2>6. PICK n \in 0..(CookBuf - 1) : n = Held(q) BY ContentIs
  <2>7. n > 0 /\ Content(e) = SubSeq(Content(q), 1, n - 1) BY <2>1, <2>5, <2>6, PopBackContent
  <2>8. Held(e) = n - 1
    <3>1. Content(q) \in Seq(Alphabet) /\ Len(Content(q)) = n BY <2>6, ContentIs
    <3>2. Content(q) # <<>> BY <2>7, <3>1
    <3>3. Len(SubSeq(Content(q), 1, n - 1)) = n - 1
      <4>1. 1 \in 1..(n + 1) /\ n - 1 \in (1 - 1)..n BY <2>7
      <4>2. PICK c \in Seq(Alphabet) : c = Content(q) /\ Len(c) = n BY <3>1
      <4>3. Len(SubSeq(c, 1, n - 1)) = IF 1 <= n - 1 THEN (n - 1) - 1 + 1 ELSE 0 BY <4>1, <4>2, SubSeqProperties
      <4>4. (n - 1) - 1 + 1 = n - 1 /\ (~(1 <= n - 1) => n - 1 = 0) BY <2>7
      <4> QED BY <4>2, <4>3, <4>4
    <3>4. Len(Content(e)) = Held(e) BY ContentIs
    <3> QED BY <2>7, <3>3, <3>4
  <2>9. ASSUME NEW i \in 0..(CookBuf - 1) PROVE i \in Ends(e) <=> i \in Ends(q)
    <3>1. PICK d \in 0..(CookBuf - 1) : d = (i - q.front) % CookBuf /\ (q.front + d) % CookBuf = i BY AtDistance
    <3>2. i \in Ends(q) <=> d < n /\ q.buf[i] = Nul BY <2>6, <3>1 DEF Ends, Held
    <3>3. i \in Ends(e) <=> d < n - 1 /\ e.buf[i] = Nul BY <2>3, <2>8, <3>1 DEF Ends, Held
    <3>4. i = b => d = n - 1 BY <2>3, <2>8, <3>1 DEF Held
    <3>5. d = n - 1 => i = b
      <4>1. (e.front + Held(e)) % CookBuf = e.rear BY ContentIs
      <4> QED BY <2>3, <2>8, <3>1, <4>1
    <3>6. i # b => (d < n - 1 <=> d < n) BY <3>5
    <3> QED BY <1>3, <2>4, <3>2, <3>3, <3>4, <3>6
  <2>10. Ends(e) \in SUBSET (0..(CookBuf - 1)) /\ Ends(q) \in SUBSET (0..(CookBuf - 1)) BY EndsAre
  <2> QED BY <2>1, <2>9, <2>10
<1> QED BY <1>2, <1>3

\* tty_read takes the first end.
LEMMA ReadEnds ==
  ASSUME NEW q \in Queue, q.buf[q.rear] = Nul, NEW line \in Seq(Data), NEW rest \in Seq(Alphabet),
         StartsWith(q, line, rest), NEW e \in Queue, e = ReadOf(q)
  PROVE  \E i \in Ends(q) : Ends(e) = Ends(q) \ {i}
<1>0. /\ CookBuf \in Nat \ {0} /\ q.front \in 0..(CookBuf - 1) /\ q.rear \in 0..(CookBuf - 1)
  BY Sizes DEF Queue
<1>1. PICK L \in 0..(CookBuf - 1), r \in 0..(CookBuf - 1) : L = Held(q) /\ r = Held(e) BY ContentIs
<1>2. PICK n \in Nat : n = Len(line) BY LenProperties
<1>3. LineLength(q) = n /\ L = n + 1 + r BY <1>1, <1>2, ReadContent
<1>14. n < L /\ L <= CookBuf - 1 /\ L \in Nat /\ r \in Nat BY <1>0, <1>1, <1>2, <1>3
<1>4. n \in 0..(CookBuf - 1) /\ n + 1 \in 0..(CookBuf - 1) /\ n < L BY <1>0, <1>2, <1>14
<1>5. n \in Nuls(q) /\ \A m \in Nuls(q) : n <= m BY <1>3, LineEnds
<1>6. PICK p \in 0..(CookBuf - 1) : p = (q.front + n) % CookBuf
  <2>1. n \in 0..CookBuf BY <1>0, <1>4
  <2> QED BY <1>0, <2>1, ModSum
<1>7. (p - q.front) % CookBuf = n /\ q.buf[p] = Nul BY <1>0, <1>4, <1>5, <1>6, ModSumDistance DEF Nuls
<1>8. p \in Ends(q) BY <1>1, <1>4, <1>7 DEF Ends, Held
<1>9. PICK j \in 0..(CookBuf - 1) : j = n + 1 /\ j + r = L BY <1>3, <1>4
<1>10. e.front = (q.front + j) % CookBuf /\ e.rear = q.rear /\ e.buf = q.buf /\ e.front \in 0..(CookBuf - 1)
  <2>0. q.front \in Nat BY <1>0
  <2>2. j = n + 1 BY <1>9
  <2>1. q.front + n + 1 = q.front + j BY <2>0, <2>2
  <2> QED BY <1>3, <2>1 DEF Queue, ReadOf
\* A place of what is left is n + 1 closer.
<1>11. \A k \in 0..(CookBuf - 1) : j + k <= CookBuf => (e.front + k) % CookBuf = (q.front + (j + k)) % CookBuf
  BY <1>0, <1>10, ModShift, SMTT(30)
<1>12. ASSUME NEW i \in Ends(e) PROVE i \in Ends(q) /\ i # p
  <2>1. i \in 0..(CookBuf - 1) BY DEF Ends
  <2>2. PICK k \in 0..(CookBuf - 1) : k = (i - e.front) % CookBuf /\ (e.front + k) % CookBuf = i BY <2>1, AtDistance
  <2>3. k < r /\ e.buf[i] = Nul BY <1>1, <2>2 DEF Ends, Held
  <2>4. PICK d \in 0..(CookBuf - 1) : d = j + k /\ d < L /\ d # n /\ j + k <= CookBuf
    <3>1. j + k \in 0..(CookBuf - 1) /\ j + k < L /\ j + k # n /\ j + k <= CookBuf BY <1>0, <1>2, <1>9, <1>14, <2>3
    <3> QED BY <3>1
  <2>5. (q.front + d) % CookBuf = i BY <1>11, <2>2, <2>4
  <2>6. (i - q.front) % CookBuf = d BY <1>0, <2>5, ModSumDistance
  <2>7. i \in Ends(q) BY <1>1, <1>10, <2>1, <2>3, <2>4, <2>6 DEF Ends, Held
  <2> QED BY <1>7, <2>4, <2>6, <2>7
<1>13. ASSUME NEW i \in Ends(q), i # p PROVE i \in Ends(e)
  <2>1. i \in 0..(CookBuf - 1) /\ q.buf[i] = Nul BY DEF Ends
  <2>2. PICK d \in 0..(CookBuf - 1) : d = (i - q.front) % CookBuf /\ (q.front + d) % CookBuf = i BY <2>1, AtDistance
  <2>3. d < L BY <1>1, <2>2 DEF Ends, Held
  <2>4. n <= d /\ d # n BY <1>5, <1>6, <1>13, <2>1, <2>2 DEF Nuls
  <2>5. PICK k \in 0..(CookBuf - 1) : d = j + k /\ k < r
    <3>1. d - j \in 0..(CookBuf - 1) /\ d = j + (d - j) /\ d - j < r BY <1>0, <1>2, <1>9, <1>14, <2>3, <2>4
    <3> QED BY <3>1
  <2>8. j + k <= CookBuf BY <1>0, <2>5
  <2>6. (e.front + k) % CookBuf = i BY <1>11, <2>2, <2>5, <2>8
  <2>7. (i - e.front) % CookBuf = k BY <1>0, <1>10, <2>6, ModSumDistance
  <2> QED BY <1>1, <1>10, <2>1, <2>5, <2>7 DEF Ends, Held
<1> QED BY <1>8, <1>12, <1>13

\* A queue holds what is left of its history, with an end for each piece, and starts
\* behind a mark.
Counted(q, ls) == Cardinality(Ends(q)) = Len(ls)
Holds(q, ls, p) == Content(q) = Joined(ls) \o p /\ q.buf[Before(q.front)] = Nul /\ Counted(q, ls)

QueuesInv == mode = "run" => \A t \in Ttys : Holds(queue[t], lines[t], partial[t])

\* The queues of a step that touches one of them: t becomes q, its history ls and p.
LEMMA QueueStep ==
  ASSUME TtyInv, QueuesInv, mode = "run", NEW t \in Ttys,
         NEW q, queue' = [queue EXCEPT ![t] = q], NEW ls, lines' = [lines EXCEPT ![t] = ls],
         NEW p, partial' = [partial EXCEPT ![t] = p], Holds(q, ls, p)
  PROVE  QueuesInv'
<1>1. queue \in [Ttys -> Queue] /\ lines \in [Ttys -> Seq(Seq(Data))] /\ partial \in [Ttys -> Seq(Data)]
  BY DEF TtyInv, TtysTyped
<1>2. \A u \in Ttys : /\ queue'[u] = IF u = t THEN q ELSE queue[u]
                      /\ lines'[u] = IF u = t THEN ls ELSE lines[u]
                      /\ partial'[u] = IF u = t THEN p ELSE partial[u]
  BY <1>1
<1>3. \A u \in Ttys : Holds(queue'[u], lines'[u], partial'[u])
  <2> TAKE u \in Ttys
  <2>1. CASE u = t
    <3>1. queue'[u] = q /\ lines'[u] = ls /\ partial'[u] = p BY <1>2, <2>1
    <3> QED BY <3>1
  <2>2. CASE u # t
    <3>1. queue'[u] = queue[u] /\ lines'[u] = lines[u] /\ partial'[u] = partial[u] BY <1>2, <2>2
    <3> QED BY <3>1 DEF QueuesInv
  <2> QED BY <2>1, <2>2
<1> QED BY <1>3 DEF QueuesInv

\* A step that touches none of them.
LEMMA QueuesKept ==
  ASSUME QueuesInv, UNCHANGED <<queue, lines, partial>>, mode' = "run" => mode = "run"
  PROVE  QueuesInv'
BY DEF QueuesInv

\* What the invariants say of one terminal.
LEMMA QueueFacts ==
  ASSUME TtyInv, QueuesInv, mode = "run", NEW t \in Ttys
  PROVE  /\ queue[t] \in Queue /\ queue[t].buf[queue[t].rear] = Nul
         /\ lines[t] \in Seq(Seq(Data)) /\ partial[t] \in Seq(Data) /\ partial[t] \in Seq(Alphabet)
         /\ Joined(lines[t]) \in Seq(Alphabet)
         /\ Holds(queue[t], lines[t], partial[t])
<1>1. queue[t] \in Queue /\ lines[t] \in Seq(Seq(Data)) /\ partial[t] \in Seq(Data)
      /\ queue[t].buf[queue[t].rear] = Nul
  BY DEF TtyInv, TtysTyped, EndsMarked
<1>2. partial[t] \in Seq(Alphabet) BY <1>1, SeqMonotonic DEF Alphabet
<1>3. Joined(lines[t]) \in Seq(Alphabet) BY <1>1, JoinedTyped
<1>4. Holds(queue[t], lines[t], partial[t]) BY DEF QueuesInv
<1> QED BY <1>1, <1>2, <1>3, <1>4

LEMMA QueuesInit == Init => QueuesInv
<1> SUFFICES ASSUME Init, NEW t \in Ttys PROVE Holds(queue[t], lines[t], partial[t]) BY DEF QueuesInv
<1>1. lines[t] = <<>> /\ partial[t] = <<>> BY DEF Init
<1>2. PICK q : q = queue[t] OBVIOUS
<1>3. q = [buf |-> [i \in 0..(CookBuf - 1) |-> Nul], front |-> 0, rear |-> 0] BY <1>2 DEF Init
<1>4. 0 \in 0..(CookBuf - 1) /\ CookBuf \in Nat \ {0} BY Sizes
<1>5. q \in Queue BY <1>3, <1>4 DEF Queue, Alphabet
<1>6. Held(q) = 0 BY <1>3, <1>4, ModSmall DEF Held
<1>7. Content(q) = <<>>
  <2>1. Content(q) \in Seq(Alphabet) /\ Len(Content(q)) = 0 BY <1>5, <1>6, ContentIs
  <2> QED BY <2>1, EmptySeq
<1>8. q.buf[Before(q.front)] = Nul
  <2>1. Before(0) \in 0..(CookBuf - 1) BY <1>4, BeforeTyped
  <2> QED BY <1>3, <2>1
<1>9. Joined(<<>>) \o <<>> = <<>>
  <2>1. <<>> \in Seq(Alphabet) OBVIOUS
  <2> QED BY <2>1, JoinedNothing, ConcatEmptySeq
<1>10. Counted(q, <<>>)
  <2>1. (q.rear - q.front) % CookBuf = 0 BY <1>6 DEF Held
  <2>2. \A i \in 0..(CookBuf - 1) : (i - q.front) % CookBuf \in Nat BY <1>5, AtDistance
  <2>3. Ends(q) = {} BY <2>1, <2>2 DEF Ends
  <2> QED BY <2>3, FS_EmptySet DEF Counted
<1> QED BY <1>1, <1>2, <1>7, <1>8, <1>9, <1>10 DEF Holds

\* cook of a character.
LEMMA EnqueueHolds ==
  ASSUME NEW q \in Queue, NEW ch \in Data, ~Overflows(q),
         NEW ls \in Seq(Seq(Data)), NEW p \in Seq(Data), Holds(q, ls, p)
  PROVE  Holds(Enqueue(q, ch), ls, Append(p, ch))
<1>0. ch \in Alphabet BY DEF Alphabet
<1>1. Content(Enqueue(q, ch)) = Append(Content(q), ch) /\ Enqueue(q, ch).front = q.front
      /\ Enqueue(q, ch).buf[Before(q.front)] = Nul
  BY <1>0, EnqueueContent DEF Holds
<1>2. PICK s \in Seq(Alphabet) : s = Joined(ls) BY JoinedTyped
<1>3. p \in Seq(Alphabet) /\ <<ch>> \in Seq(Alphabet) BY SeqMonotonic DEF Alphabet
<1>4. Append(s \o p, ch) = s \o Append(p, ch)
  <2>1. (s \o p) \o <<ch>> = s \o (p \o <<ch>>) BY <1>3, ConcatAssociative
  <2>2. s \o p \in Seq(Alphabet) /\ ch \in Alphabet BY <1>3, ConcatProperties DEF Alphabet
  <2>3. Append(s \o p, ch) = (s \o p) \o <<ch>> BY <2>2, AppendIsConcat
  <2>4. Append(p, ch) = p \o <<ch>> BY <1>3, <2>2, AppendIsConcat
  <2> QED BY <2>1, <2>3, <2>4
<1>5. Counted(Enqueue(q, ch), ls)
  <2>1. ch \in Alphabet /\ ch # Nul BY DEF Data, Alphabet
  <2>2. Ends(Enqueue(q, ch)) = Ends(q) BY <2>1, EnqueueEnds
  <2> QED BY <2>2 DEF Holds, Counted
<1> QED BY <1>1, <1>2, <1>4, <1>5 DEF Holds

\* A '\0' ends what was typed.
LEMMA BreakHolds ==
  ASSUME NEW e \in Queue, ~Overflows(e),
         NEW ls \in Seq(Seq(Data)), NEW line \in Seq(Data), Holds(e, ls, line)
  PROVE  Holds(Enqueue(e, Nul), Append(ls, line), <<>>)
<1>0. PICK nul \in Alphabet : nul = Nul BY DEF Alphabet
<1>1. Content(Enqueue(e, Nul)) = Append(Content(e), Nul) /\ Enqueue(e, Nul).front = e.front
      /\ Enqueue(e, Nul).buf[Before(e.front)] = Nul
  BY <1>0, EnqueueContent DEF Holds
<1>2. PICK s \in Seq(Alphabet), z \in Seq(Alphabet) : s = Joined(ls) /\ z = Joined(Append(ls, line))
  <2>1. Append(ls, line) \in Seq(Seq(Data)) OBVIOUS
  <2> QED BY <2>1, JoinedTyped
<1>3. z = s \o (line \o <<Nul>>) BY <1>2, JoinedAppend
<1>4. Append(s \o line, Nul) = z
  <2>1. line \in Seq(Alphabet) /\ <<Nul>> \in Seq(Alphabet) /\ Nul \in Alphabet BY SeqMonotonic DEF Alphabet
  <2>2. (s \o line) \o <<Nul>> = s \o (line \o <<Nul>>) BY <2>1, ConcatAssociative
  <2>3. s \o line \in Seq(Alphabet) BY <2>1, ConcatProperties
  <2>4. Append(s \o line, Nul) = (s \o line) \o <<Nul>> BY <2>1, <2>3, AppendIsConcat
  <2> QED BY <1>3, <2>2, <2>4
<1>5. z \o <<>> = z BY ConcatEmptySeq
<1>6. Counted(Enqueue(e, Nul), Append(ls, line))
  <2>1. Ends(Enqueue(e, Nul)) = Ends(e) \cup {e.rear} BY <1>0, EnqueueEnds
  <2>2. Cardinality(Ends(e) \cup {e.rear}) = Cardinality(Ends(e)) + 1 BY EndsAre, FS_AddElement
  <2>3. Len(Append(ls, line)) = Len(ls) + 1 OBVIOUS
  <2> QED BY <2>1, <2>2, <2>3 DEF Holds, Counted
<1> QED BY <1>1, <1>2, <1>4, <1>5, <1>6 DEF Holds

LEMMA CookCharQueues == ASSUME TtyInv, QueuesInv, CookChar PROVE QueuesInv'
<1>0. PICK t \in Ttys, ch \in Alphabet : t = job[Task].tty /\ ch = Head(job[Task].text)
  BY CookFacts DEF CookChar
<1>1. /\ queue' = [queue EXCEPT ![t] = Enqueue(queue[t], ch)] /\ mode = "run"
      /\ mode' = IF Overflows(queue[t]) THEN "panic" ELSE mode
      /\ IF ch = Nul THEN Ended(t, partial[t])
         ELSE partial' = [partial EXCEPT ![t] = Append(@, ch)] /\ lines' = lines
  BY <1>0 DEF CookChar, Cooked, Holding, At
<1>2. CASE Overflows(queue[t]) BY <1>1, <1>2 DEF QueuesInv
<1>3. CASE ~Overflows(queue[t])
  <2>1. PICK q \in Queue, ls \in Seq(Seq(Data)), p \in Seq(Data) :
          q = queue[t] /\ ls = lines[t] /\ p = partial[t] /\ Holds(q, ls, p)
    BY <1>1, QueueFacts
  <2>2. queue' = [queue EXCEPT ![t] = Enqueue(q, ch)] BY <1>1, <2>1
  <2>3. CASE ch = Nul
    <3>1. Holds(Enqueue(q, ch), Append(ls, p), <<>>) BY <1>3, <2>1, <2>3, BreakHolds
    <3>2. lines' = [lines EXCEPT ![t] = Append(ls, p)] /\ partial' = [partial EXCEPT ![t] = <<>>]
      BY <1>1, <2>1, <2>3 DEF Ended, TtyInv, TtysTyped
    <3> QED BY <1>1, <2>2, <3>1, <3>2, QueueStep
  <2>4. CASE ch # Nul
    <3>1. ch \in Data BY <2>4 DEF Alphabet
    <3>2. Holds(Enqueue(q, ch), ls, Append(p, ch)) BY <1>3, <2>1, <3>1, EnqueueHolds
    <3>3. lines' = [lines EXCEPT ![t] = ls] /\ partial' = [partial EXCEPT ![t] = Append(p, ch)]
      BY <1>1, <2>1, <2>4 DEF TtyInv, TtysTyped
    <3> QED BY <1>1, <2>2, <3>2, <3>3, QueueStep
  <2> QED BY <2>3, <2>4
<1> QED BY <1>2, <1>3

\* What tty_pop_back leaves.
LEMMA PopBackLeaves ==
  ASSUME NEW q \in Queue, NEW ls \in Seq(Seq(Data)), NEW p \in Seq(Data), Holds(q, ls, p)
  PROVE  Content(PopBack(q)) = Joined(ls) \o (IF p = <<>> THEN p ELSE Front(p))
         /\ PopBack(q).buf[Before(PopBack(q).front)] = Nul
<1>1. PICK s \in Seq(Alphabet) : s = Joined(ls) BY JoinedTyped
<1>2. p \in Seq(Alphabet) BY SeqMonotonic DEF Alphabet
<1>3. PICK n \in Nat, m \in Nat : n = Len(s) /\ m = Len(p) BY LenProperties
<1>4. Content(q) = s \o p /\ q.buf[Before(q.front)] = Nul BY <1>1 DEF Holds
<1>5. Len(s \o p) = n + m
      /\ \A i \in 1..(n + m) : (s \o p)[i] = IF i <= n THEN s[i] ELSE p[i - n]
  BY <1>2, <1>3, ConcatProperties
<1>6. PICK L \in Nat : L = Held(q) /\ L = n + m
  <2>1. Held(q) = n + m BY <1>4, <1>5, ContentIs
  <2> QED BY <1>3, <2>1
<1>7. /\ PopBack(q).front = q.front /\ PopBack(q).buf[Before(q.front)] = Nul
      /\ \/ L = 0 /\ PopBack(q) = q
         \/ L > 0 /\ (s \o p)[L] = Nul /\ PopBack(q) = q
         \/ L > 0 /\ (s \o p)[L] # Nul /\ Content(PopBack(q)) = SubSeq(s \o p, 1, L - 1)
  BY <1>4, <1>6, PopBackContent
<1>8. CASE p = <<>>
  <2>1. m = 0 /\ L = n BY <1>3, <1>6, <1>8
  <2>2. L > 0 => (s \o p)[L] = Nul
    <3> SUFFICES ASSUME L > 0 PROVE (s \o p)[L] = Nul OBVIOUS
    <3>1. L \in 1..(n + m) /\ L <= n BY <2>1
    <3>2. s # <<>> BY <1>3, <2>1
    <3>3. s[n] = Nul BY <1>1, <1>3, <3>2, JoinedLast
    <3> QED BY <1>5, <2>1, <3>1, <3>3
  <2>3. PopBack(q) = q BY <1>7, <2>2
  <2> QED BY <1>1, <1>4, <1>8, <2>3
<1>9. CASE p # <<>>
  <2>1. m > 0 /\ m \in 1..m BY <1>3, <1>9, EmptySeq
  <2>2. p[m] \in Data BY <1>3, <2>1, ElementOfSeq
  <2>3. Nul \notin Data BY DEF Data
  <2>4. L > 0 /\ L \in 1..(n + m) /\ ~(L <= n) /\ L - n = m BY <1>6, <2>1
  <2>5. (s \o p)[L] # Nul BY <1>5, <2>2, <2>3, <2>4
  <2>10. L # 0 BY <2>4
  <2>6. Content(PopBack(q)) = SubSeq(s \o p, 1, L - 1) BY <1>7, <2>5, <2>10, Zenon
  <2>7. PICK f \in Seq(Data) : f = Front(p) /\ f = SubSeq(p, 1, m - 1)
    <3>1. SubSeq(p, 1, Len(p) - 1) \in Seq(Data) BY <1>9, DropLast
    <3> QED BY <1>3, <3>1 DEF Front
  <2>8. SubSeq(s \o p, 1, L - 1) = s \o f
    <3>1. s \o p \in Seq(Alphabet) BY <1>2, ConcatProperties
    <3>2. /\ f \in Seq(Alphabet) /\ Len(f) = m - 1 /\ \A i \in 1..(m - 1) : f[i] = p[i]
      <4>1. f \in Seq(Alphabet) BY SeqMonotonic DEF Alphabet
      <4>2. Len(f) = m - 1 /\ \A i \in 1..(m - 1) : f[i] = p[i]
        <5>1. 1 \in 1..(Len(p) + 1) /\ m - 1 \in (1 - 1)..Len(p) BY <1>3, <2>1
        <5>2. /\ Len(SubSeq(p, 1, m - 1)) = IF 1 <= m - 1 THEN (m - 1) - 1 + 1 ELSE 0
              /\ \A i \in 1..((m - 1) - 1 + 1) : SubSeq(p, 1, m - 1)[i] = p[1 + i - 1]
          BY <1>2, <5>1, SubSeqProperties
        <5>3. (m - 1) - 1 + 1 = m - 1 /\ (~(1 <= m - 1) => m - 1 = 0) /\ \A i \in 1..(m - 1) : 1 + i - 1 = i
          BY <2>1
        <5> QED BY <2>7, <5>2, <5>3
      <4> QED BY <4>1, <4>2
    <3>3. /\ Len(s \o f) = n + (m - 1)
          /\ \A i \in 1..(n + (m - 1)) : (s \o f)[i] = IF i <= n THEN s[i] ELSE f[i - n]
      <4>1. /\ Len(s \o f) = Len(s) + Len(f)
            /\ \A i \in 1..(Len(s) + Len(f)) : (s \o f)[i] = IF i <= Len(s) THEN s[i] ELSE f[i - Len(s)]
        BY <3>2, ConcatProperties
      <4> QED BY <1>3, <3>2, <4>1
    <3>4. PICK x \in Seq(Alphabet) : x = s \o p /\ Len(x) = n + m BY <1>5, <3>1
    <3>5. /\ SubSeq(x, 1, L - 1) \in Seq(Alphabet) /\ Len(SubSeq(x, 1, L - 1)) = L - 1
          /\ \A i \in 1..(L - 1) : SubSeq(x, 1, L - 1)[i] = x[i]
      <4>1. 1 \in 1..(Len(x) + 1) /\ L - 1 \in (1 - 1)..Len(x) BY <1>6, <2>4, <3>4
      <4>2. /\ SubSeq(x, 1, L - 1) \in Seq(Alphabet)
            /\ Len(SubSeq(x, 1, L - 1)) = IF 1 <= L - 1 THEN (L - 1) - 1 + 1 ELSE 0
            /\ \A i \in 1..((L - 1) - 1 + 1) : SubSeq(x, 1, L - 1)[i] = x[1 + i - 1]
        BY <4>1, SubSeqProperties
      <4>3. (L - 1) - 1 + 1 = L - 1 /\ (~(1 <= L - 1) => L - 1 = 0) /\ \A i \in 1..(L - 1) : 1 + i - 1 = i
        BY <2>4
      <4> QED BY <4>2, <4>3
    <3>6. s \o f \in Seq(Alphabet) BY <3>2, ConcatProperties
    <3>7. L - 1 = n + (m - 1) BY <1>6, <2>1
    <3>8. \A i \in 1..(L - 1) : SubSeq(x, 1, L - 1)[i] = (s \o f)[i]
      <4> TAKE i \in 1..(L - 1)
      <4>1. i \in 1..(n + m) /\ i \in 1..(n + (m - 1)) /\ (~(i <= n) => i - n \in 1..(m - 1))
        BY <1>6, <2>1
      <4>2. SubSeq(x, 1, L - 1)[i] = IF i <= n THEN s[i] ELSE p[i - n] BY <1>5, <3>4, <3>5, <4>1
      <4>3. (s \o f)[i] = IF i <= n THEN s[i] ELSE f[i - n] BY <3>3, <4>1
      <4>4. ~(i <= n) => f[i - n] = p[i - n] BY <3>2, <4>1
      <4> QED BY <4>2, <4>3, <4>4
    <3>9. SubSeq(x, 1, L - 1) = s \o f BY <3>3, <3>5, <3>6, <3>7, <3>8, SeqEqual
    <3> QED BY <3>4, <3>9
  <2> QED BY <1>1, <1>7, <1>9, <2>6, <2>7, <2>8
<1> QED BY <1>8, <1>9

LEMMA PopBackHolds ==
  ASSUME NEW q \in Queue, q.buf[q.rear] = Nul,
         NEW ls \in Seq(Seq(Data)), NEW p \in Seq(Data), Holds(q, ls, p)
  PROVE  Holds(PopBack(q), ls, IF p = <<>> THEN p ELSE Front(p))
<1>1. q.buf[Before(q.front)] = Nul /\ Counted(q, ls) BY DEF Holds
<1>2. Counted(PopBack(q), ls) BY <1>1, PopBackEnds DEF Counted
<1> QED BY <1>2, PopBackLeaves DEF Holds

LEMMA CookBackspaceQueues == ASSUME TtyInv, QueuesInv, CookBackspace PROVE QueuesInv'
<1>0. PICK t \in Ttys : t = job[Task].tty BY CookFacts DEF CookBackspace
<1>1. /\ queue' = [queue EXCEPT ![t] = PopBack(queue[t])] /\ mode = "run"
      /\ partial' = [partial EXCEPT ![t] = IF @ = <<>> THEN @ ELSE Front(@)] /\ lines' = lines
  BY <1>0 DEF CookBackspace, Cooked, Holding, At
<1>2. PICK q \in Queue, ls \in Seq(Seq(Data)), p \in Seq(Data) :
        q = queue[t] /\ ls = lines[t] /\ p = partial[t] /\ Holds(q, ls, p) /\ q.buf[q.rear] = Nul
  BY <1>1, QueueFacts
<1>3. Holds(PopBack(q), ls, IF p = <<>> THEN p ELSE Front(p)) BY <1>2, PopBackHolds
<1>4. /\ queue' = [queue EXCEPT ![t] = PopBack(q)] /\ lines' = [lines EXCEPT ![t] = ls]
      /\ partial' = [partial EXCEPT ![t] = IF p = <<>> THEN p ELSE Front(p)]
  BY <1>1, <1>2 DEF TtyInv, TtysTyped
<1> QED BY <1>1, <1>3, <1>4, QueueStep

\* cook of a newline: the line that was typed, with its two last characters, is
\* one of those that were entered.
LEMMA NewlineHolds ==
  ASSUME NEW q \in Queue, NEW ls \in Seq(Seq(Data)), NEW p \in Seq(Data), Holds(q, ls, p),
         ~Overflows(q), ~Overflows(Enqueue(q, "LF"))
  PROVE  Holds(Enqueue(Enqueue(q, "LF"), Nul), Append(ls, Append(p, "LF")), <<>>)
<1>1. "LF" \in Data /\ "LF" \in Alphabet BY DEF Data, Alphabet, Nul
<1>2. PICK e \in Queue, line \in Seq(Data) : e = Enqueue(q, "LF") /\ line = Append(p, "LF")
  <2>1. Append(p, "LF") \in Seq(Data) BY <1>1
  <2> QED BY <1>1, <2>1, EnqueueTyped
<1>3. Holds(e, ls, line) BY <1>1, <1>2, EnqueueHolds
<1>4. Holds(Enqueue(e, Nul), Append(ls, line), <<>>) BY <1>2, <1>3, BreakHolds
<1> QED BY <1>2, <1>4

LEMMA CookNewlineQueues == ASSUME TtyInv, QueuesInv, CookNewline PROVE QueuesInv'
<1>0. PICK t \in Ttys : t = job[Task].tty BY CookFacts DEF CookNewline
<1>1. /\ queue' = [queue EXCEPT ![t] = Enqueue(Enqueue(queue[t], "LF"), Nul)] /\ mode = "run"
      /\ mode' = IF Overflows(queue[t]) \/ Overflows(Enqueue(queue[t], "LF")) THEN "panic" ELSE mode
      /\ lines' = [lines EXCEPT ![t] = Append(@, Append(partial[t], "LF"))]
      /\ partial' = [partial EXCEPT ![t] = <<>>]
  BY <1>0 DEF CookNewline, Cooked, Ended, Holding, At
<1>2. CASE Overflows(queue[t]) \/ Overflows(Enqueue(queue[t], "LF")) BY <1>1, <1>2 DEF QueuesInv
<1>3. CASE ~Overflows(queue[t]) /\ ~Overflows(Enqueue(queue[t], "LF"))
  <2>1. PICK q \in Queue, ls \in Seq(Seq(Data)), p \in Seq(Data) :
          q = queue[t] /\ ls = lines[t] /\ p = partial[t] /\ Holds(q, ls, p)
    BY <1>1, QueueFacts
  <2>2. Holds(Enqueue(Enqueue(q, "LF"), Nul), Append(ls, Append(p, "LF")), <<>>)
    BY <1>3, <2>1, NewlineHolds
  <2>3. /\ queue' = [queue EXCEPT ![t] = Enqueue(Enqueue(q, "LF"), Nul)]
        /\ lines' = [lines EXCEPT ![t] = Append(ls, Append(p, "LF"))]
        /\ partial' = [partial EXCEPT ![t] = <<>>]
    BY <1>1, <2>1 DEF TtyInv, TtysTyped
  <2> QED BY <1>1, <2>2, <2>3, QueueStep
<1> QED BY <1>2, <1>3

LEMMA Regrouped == \A x, y, r \in Seq(Alphabet) : (x \o y) \o r = x \o (y \o r)
<1> TAKE x \in Seq(Alphabet), y \in Seq(Alphabet), r \in Seq(Alphabet)
<1> QED BY ConcatAssociative

\* tty_read takes the oldest piece.
LEMMA ReadHolds ==
  ASSUME NEW q \in Queue, q.buf[q.rear] = Nul, NEW ls \in Seq(Seq(Data)), ls # <<>>,
         NEW p \in Seq(Data), Holds(q, ls, p), ReadOf(q) \in Queue
  PROVE  Holds(ReadOf(q), Tail(ls), p)
<1>1. PICK line \in Seq(Data), tail \in Seq(Seq(Data)) : line = Head(ls) /\ tail = Tail(ls)
  BY HeadTailProperties
<1>2. PICK s \in Seq(Alphabet), z \in Seq(Alphabet) : s = Joined(ls) /\ z = Joined(tail) BY JoinedTyped
<1>3. s = (line \o <<Nul>>) \o z BY <1>1, <1>2, JoinedHead
<1>4. p \in Seq(Alphabet) BY SeqMonotonic DEF Alphabet
<1>5. PICK rest \in Seq(Alphabet) : rest = z \o p BY <1>4, ConcatProperties
<1>6. StartsWith(q, line, rest)
  <2>1. PICK w \in Seq(Alphabet) : w = line \o <<Nul>> BY <1>2, ConcatTyped
  <2>2. (w \o z) \o p = w \o (z \o p) BY <1>4, Regrouped, ZenonT(30)
  <2>3. Content(q) = s \o p BY <1>2 DEF Holds
  <2>4. s = w \o z BY <1>3, <2>1
  <2>5. Content(q) = w \o rest BY <1>5, <2>2, <2>3, <2>4
  <2> QED BY <2>1, <2>5 DEF StartsWith
<1>7. Content(ReadOf(q)) = rest /\ ReadOf(q).buf[Before(ReadOf(q).front)] = Nul
  BY <1>6, ReadContent
<1>8. Counted(ReadOf(q), Tail(ls))
  <2>1. PICK i \in Ends(q) : Ends(ReadOf(q)) = Ends(q) \ {i} BY <1>6, ReadEnds
  <2>2. Cardinality(Ends(q) \ {i}) = Cardinality(Ends(q)) - 1 BY EndsAre, FS_RemoveElement
  <2>3. Len(Tail(ls)) = Len(ls) - 1 OBVIOUS
  <2> QED BY <2>1, <2>2, <2>3 DEF Holds, Counted
<1> QED BY <1>1, <1>2, <1>5, <1>7, <1>8 DEF Holds

LEMMA ReadQueues == ASSUME TtyInv, CountInv, TtyInv', QueuesInv, NEW t \in Shells, Read(t) PROVE QueuesInv'
<1>1. t \in Ttys /\ mode = "run" /\ lines' = [lines EXCEPT ![t] = Tail(@)] /\ partial' = partial
  BY Sizes DEF Read, Holding, At
<1>2. lines[t] # <<>> BY ReaderHasLine
<1>3. PICK q \in Queue, ls \in Seq(Seq(Data)), p \in Seq(Data) :
        q = queue[t] /\ ls = lines[t] /\ p = partial[t] /\ Holds(q, ls, p) /\ q.buf[q.rear] = Nul
  BY <1>1, QueueFacts
<1>4. queue' = [queue EXCEPT ![t] = ReadOf(q)]
  <2>1. queue' = [queue EXCEPT ![t].front = (queue[t].front + LineLength(queue[t]) + 1) % CookBuf]
    BY ReadEffect
  <2> QED BY <1>3, <2>1 DEF ReadOf
<1>5. ReadOf(q) \in Queue
  <2>1. queue'[t] \in Queue BY <1>1 DEF TtyInv, TtysTyped
  <2> QED BY <1>1, <1>4, <2>1 DEF TtyInv, TtysTyped
<1>6. Holds(ReadOf(q), Tail(ls), p) BY <1>2, <1>3, <1>5, ReadHolds
<1>7. lines' = [lines EXCEPT ![t] = Tail(ls)] /\ partial' = [partial EXCEPT ![t] = p]
  BY <1>1, <1>3 DEF TtyInv, TtysTyped
<1> QED BY <1>1, <1>4, <1>6, <1>7, QueueStep

LEMMA QueuesStep == TtyInv /\ CountInv /\ QueuesInv /\ TtyInv' /\ [Next]_vars => QueuesInv'
<1> SUFFICES ASSUME TtyInv, CountInv, QueuesInv, TtyInv', [Next]_vars PROVE QueuesInv' OBVIOUS
<1>1. CASE Hardware \/ Input_task
  <2>1. UNCHANGED <<queue, lines, partial>> BY <1>1 DEF Hardware, Input_task, ttyVars
  <2>2. mode' = "run" => mode = "run"
    <3>1. mode = "run" BY <1>1 DEF Hardware, Input_task, InputTask, Type, Notify, Keydown, Idle, WaitKbdirq, Push, SignalEvent
    <3> QED BY <3>1
  <2> QED BY <2>1, <2>2, QueuesKept
<1>2. CASE TakeEvent BY <1>2, QueuesKept DEF TakeEvent, At
<1>3. CASE Handle BY <1>3, QueuesKept DEF Handle, At
<1>4. CASE CookChar BY <1>4, CookCharQueues
<1>5. CASE CookBackspace BY <1>5, CookBackspaceQueues
<1>6. CASE CookNewline BY <1>6, CookNewlineQueues
<1>7. ASSUME NEW p \in Tasks, Write(p) PROVE QueuesInv' BY <1>7, QueuesKept DEF Write, Holding, At
<1>8. ASSUME NEW p \in Tasks, Draw(p) PROVE QueuesInv' BY <1>8, QueuesKept DEF Draw, At
<1>9. ASSUME NEW t \in Shells, WaitCooked(t) PROVE QueuesInv' BY <1>9, QueuesKept DEF WaitCooked, At
<1>10. ASSUME NEW t \in Shells, Read(t) PROVE QueuesInv' BY <1>10, ReadQueues
<1>11. CASE UNCHANGED vars BY <1>11, QueuesKept DEF vars, inputVars, ttyVars
<1> QED
  BY <1>1, <1>2, <1>3, <1>4, <1>5, <1>6, <1>7, <1>8, <1>9, <1>10, <1>11, TaskKinds
  DEF Next, Tty_task, Shell, Tasks

\* What a task finds in the queues, of any number of codes and terminals.
LEMMA Queues == Spec => []QueuesInv
<1>1. Init => QueuesInv BY QueuesInit
<1>2. TtyInv /\ CountInv /\ QueuesInv /\ TtyInv' /\ [Next]_vars => QueuesInv' BY QueuesStep
<1> QED BY <1>1, <1>2, Invariant, PTL DEF Spec

\* As long as no queue overflows, the ring of a terminal holds exactly what was
\* typed on it and not read, piece by piece: tty_read returns the oldest piece,
\* whole, which is a line unless a Shift+Return cut it off, and a backspace never
\* takes back what was ended, for every size of the buffer, every table of keys
\* and wherever a piece wraps around its end.
THEOREM TtyQueues == Spec => []QueueInv
<1>1. TtyInv /\ QueuesInv => QueueIsTyped
  <2> SUFFICES ASSUME TtyInv, QueuesInv, mode = "run", NEW t \in Ttys
               PROVE  Content(queue[t]) = Entered(t)
    BY DEF QueueIsTyped
  <2>1. Holds(queue[t], lines[t], partial[t]) BY DEF QueuesInv
  <2> QED BY <2>1 DEF Holds, Entered, Joined
<1>2. TypeOK /\ QueueIsTyped => QueueInv BY DEF QueueInv
<1> QED BY <1>1, <1>2, Invariant, Queues, TtyTypes, PTL

\* The semaphore cooked and the '\0' in the queue, which different steps change,
\* agree: the reads that were let in and those to come are as many as the ends they
\* stop at, but for one end of every Shift+Return, which tty_task put there without
\* a signal and which no read will ever be let in for.
THEOREM TtyCookedCountsLines == Spec => []CookedCountsLines
<1>1. TtyInv /\ CountInv /\ QueuesInv => CookedCountsLines
  <2> SUFFICES ASSUME TtyInv, PiecesDue, QueuesInv, mode = "run", NEW t \in Ttys
               PROVE  cooked[t] + (IF t \in Shells /\ job[t].at = "read" THEN 1 ELSE 0) + breaks[t]
                        = Cardinality(Ends(queue[t]))
    BY DEF CountInv, CookedCountsLines
  <2>1. Cardinality(Ends(queue[t])) = Len(lines[t]) BY DEF QueuesInv, Holds, Counted
  <2>2. Due(t) + If(t \in Shells /\ job[t].at = "read") = Len(lines[t]) BY DEF PiecesDue
  <2>3. cooked[t] \in Nat /\ breaks[t] \in Nat BY DEF TtyInv, TtysTyped
  <2>4. PICK n \in {0, 1} : n = If(t \in Shells /\ job[t].at = "read")
    BY DEF If
  <2>5. cooked[t] + breaks[t] + n = Len(lines[t]) BY <2>2, <2>4 DEF Due
  <2>6. cooked[t] + n + breaks[t] = Len(lines[t]) BY <2>3, <2>5
  <2> QED BY <2>1, <2>4, <2>6 DEF If
<1> QED BY <1>1, Invariant, Queues, PTL
=============================================================================
