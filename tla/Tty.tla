-------------------------------- MODULE Tty --------------------------------
(***************************************************************************)
(* tty.c and the part of video.c it draws with: tty_task takes the events  *)
(* of the keyboard to the terminal that is shown, cooks lines and echoes;  *)
(* a shell on each terminal writes its prompt and reads lines.  A queue of *)
(* characters, a cursor and the screen of a terminal belong to whoever     *)
(* holds tty->lock.                                                        *)
(*                                                                         *)
(* What stands in the cells of a terminal is left out: stale says which of *)
(* its rows the screen does not show as they are.  (Cells are never marked *)
(* clean, so every tty_render draws all of them.)                          *)
(***************************************************************************)
EXTENDS Input, SequencesExt

CONSTANTS Ttys,       \* the terminals: tty1 is shown first
          First,
          Shells,     \* those with a shell
          Lines, Columns,
          CookBuf,    \* TTY_COOK_BUF_SZ
          Prompt,     \* what a shell writes before it reads
          Switch      \* Switch[ch]: the terminal that alt-ch shows

ASSUME TtyAssumption ==
  /\ First \in Ttys /\ Shells \subseteq Ttys /\ {Lines, Columns} \subseteq Nat \ {0} /\ CookBuf \in Nat \ {0, 1}
  /\ Prompt \in Seq(STRING) /\ Switch \in [DOMAIN Switch -> Ttys]

Size == Lines * Columns
Rows == 0..(Lines - 1)

VARIABLES
  current,   \* the terminal of tty_task, which the frame buffer shows
  lock, cooked,   \* the semaphores of each terminal
  queue,     \* of each terminal: [buf, front, rear]
  cursor,    \* of each terminal
  stale,     \* of each terminal: the rows that changed since they were drawn
  screen,    \* the terminal whose row was drawn last, for each row
  job,       \* of tty_task and each shell: [at, tty, text, row]
  lines, partial,  \* history: the pieces that were ended and not read, lines or
                   \* what Shift+Return cut off, and what was typed of the next one
  breaks           \* history: the Shift+Returns that each terminal got
ttyVars == <<current, lock, cooked, queue, cursor, stale, screen, job, lines, partial, breaks>>
vars == <<inputVars, ttyVars>>

\* tty_task and the shells.
Task == "tty_task"
Tasks == Shells \cup {Task}
ASSUME NameAssumption == Task \notin Ttys
Places == {"idle", "pop", "cook", "write", "draw", "wait cooked", "read"}

TypeOK ==
  /\ keys \in Seq(Code) /\ Waiting < NEvents /\ {sem_kbdirq, event_sem, irqs} \subseteq 0..MaxKeys
  /\ lock \in [Ttys -> 0..1] /\ {cooked, breaks} \subseteq [Ttys -> 0..MaxKeys]
  /\ cursor \in [Ttys -> 0..(Size - 1)] /\ stale \in [Ttys -> SUBSET Rows] /\ screen \in [Rows -> Ttys]
  /\ \A p \in Tasks : job[p].at \in Places /\ job[p].tty \in Ttys
  /\ \A t \in Ttys : {queue[t].front, queue[t].rear} \subseteq 0..(CookBuf - 1)
  /\ mode \in {"run", "panic"}

Job(at, t, text) == [at |-> at, tty |-> t, text |-> text, row |-> 0]

\* tty_init, the tty_render with which tty_task starts, and shells about to
\* write their first prompt.
Init ==
  /\ InputInit
  /\ current = First
  /\ lock = [t \in Ttys |-> 1] /\ cooked = [t \in Ttys |-> 0]
  /\ queue = [t \in Ttys |-> [buf |-> [i \in 0..(CookBuf - 1) |-> Nul], front |-> 0, rear |-> 0]]
  /\ cursor = [t \in Ttys |-> 0] /\ stale = [t \in Ttys |-> Rows]
  /\ screen = [r \in Rows |-> First]
  /\ job = [p \in Tasks |-> IF p = Task THEN Job("draw", First, <<>>) ELSE Job("write", p, Prompt)]
  /\ lines = [t \in Ttys |-> <<>>] /\ partial = [t \in Ttys |-> <<>>]
  /\ breaks = [t \in Ttys |-> 0]

At(p, at) == mode = "run" /\ job[p].at = at
\* p is there and finds tty->lock free: what it does with it is one step, but
\* for the drawing, in which the terminal that is shown may change.
Holding(p, at) == At(p, at) /\ lock[job[p].tty] = 1
Goes(p, at) == job' = [job EXCEPT ![p].at = at]

-----------------------------------------------------------------------------
(* tty_write and tty_render                                                 *)

RowOf(c) == c \div Columns
LineStart(c) == c - (c % Columns)

\* tty_upd_cr, tty_upd_backsp, tty_upd_lf, tty_upd_putc: the next cursor.
Moved(c, ch) ==
  CASE ch = "CR" -> LineStart(c)
    [] ch = "BS" -> IF c > 0 THEN c - 1 ELSE c
    [] ch = "LF" -> LineStart(c) + Columns
    [] OTHER -> c + 1

\* tty_putc: where the cursor is and which rows changed.  At the end of the
\* screen everything scrolls up by a line.
Putc(at, ch) ==
  LET to == Moved(at.cursor, ch) IN
  IF to = Size THEN [cursor |-> to - Columns, rows |-> Rows]
  ELSE [cursor |-> to, rows |-> at.rows \cup {RowOf(at.cursor), RowOf(to)}]

Write(p) ==
  LET t    == job[p].tty
      done == FoldLeft(Putc, [cursor |-> cursor[t], rows |-> stale[t]], job[p].text) IN
  /\ Holding(p, "write")
  /\ cursor' = [cursor EXCEPT ![t] = done.cursor]
  /\ stale' = [stale EXCEPT ![t] = done.rows]
  /\ job' = [job EXCEPT ![p] = Job("draw", t, <<>>)]
  /\ UNCHANGED <<inputVars, current, lock, cooked, queue, screen, lines, partial, breaks>>

Drawn(p) == IF p = Task THEN "idle" ELSE "wait cooked"

\* Mutant: a row goes to the screen whatever is shown.
DrawAnywhere(p) ==
  LET t == job[p].tty
      r == job[p].row IN
  /\ At(p, "draw") /\ lock[t] = (IF r = 0 THEN 1 ELSE 0)
  /\ screen' = [screen EXCEPT ![r] = t] /\ stale' = [stale EXCEPT ![t] = @ \ {r}]
  /\ lock' = [lock EXCEPT ![t] = IF r = Lines - 1 THEN 1 ELSE 0]
  /\ job' = [job EXCEPT ![p].at = IF r = Lines - 1 THEN Drawn(p) ELSE @, ![p].row = (@ + 1) % Lines]
  /\ UNCHANGED <<inputVars, current, cooked, queue, cursor, lines, partial, breaks>>

\* tty_render, a row at a time, under the lock: fb_write draws what belongs to
\* the display that is shown at that moment.
Draw(p) ==
  LET t == job[p].tty
      r == job[p].row IN
  /\ At(p, "draw") /\ lock[t] = (IF r = 0 THEN 1 ELSE 0)
  /\ IF t = current
     THEN screen' = [screen EXCEPT ![r] = t] /\ stale' = [stale EXCEPT ![t] = @ \ {r}]
     ELSE UNCHANGED <<screen, stale>>
  /\ lock' = [lock EXCEPT ![t] = IF r = Lines - 1 THEN 1 ELSE 0]
  /\ job' = [job EXCEPT ![p].at = IF r = Lines - 1 THEN Drawn(p) ELSE @, ![p].row = (@ + 1) % Lines]
  /\ UNCHANGED <<inputVars, current, cooked, queue, cursor, lines, partial, breaks>>

-----------------------------------------------------------------------------
(* tty_task                                                                 *)

\* It waits in input_read.
TakeEvent ==
  /\ At(Task, "idle")
  /\ WaitEvent /\ Goes(Task, "pop")
  /\ UNCHANGED <<current, lock, cooked, queue, cursor, stale, screen, lines, partial, breaks>>

\* An event with alt may show another terminal, which is then drawn by writing
\* nothing to it; one without ctrl and alt is for the terminal that is shown.
Handle ==
  /\ At(Task, "pop")
  /\ Pop
  /\ LET e  == Popped
         to == IF e.alt = 1 /\ e.data \in DOMAIN Switch THEN Switch[e.data] ELSE current IN
     /\ current' = to
     /\ job' = [job EXCEPT ![Task] =
                  IF to # current THEN Job("write", to, <<>>)
                  ELSE IF e.ctrl = 0 /\ e.alt = 0 THEN Job("cook", current, <<e.data>>)
                  ELSE Job("idle", current, <<>>)]
  /\ UNCHANGED <<lock, cooked, queue, cursor, stale, screen, lines, partial, breaks>>

After(i) == (i + 1) % CookBuf
Before(i) == (i + CookBuf - 1) % CookBuf

\* tty_enqueue
Enqueue(q, ch) ==
  [buf |-> [q.buf EXCEPT ![q.rear] = ch, ![After(q.rear)] = Nul], front |-> q.front, rear |-> After(q.rear)]
Overflows(q) == After(q.rear) = q.front

\* Mutant: it takes back the end of a line as well.
PopBackFurther(q) ==
  IF q.front = q.rear THEN q
  ELSE [q EXCEPT !.rear = Before(q.rear), !.buf[Before(q.rear)] = Nul]

\* tty_pop_back: the character before the end, unless it ends a line.
PopBack(q) ==
  IF q.buf[Before(q.rear)] = Nul THEN q
  ELSE [q EXCEPT !.rear = Before(q.rear), !.buf[Before(q.rear)] = Nul]

\* The queue of t becomes q, after which tty_task writes the echo.
Cooked(t, q, echo) ==
  /\ queue' = [queue EXCEPT ![t] = q]
  /\ job' = [job EXCEPT ![Task] = IF echo = <<>> THEN Job("idle", t, <<>>) ELSE Job("write", t, echo)]
  /\ UNCHANGED <<keys, typed, irqs, sem_kbdirq, event_sem, held, ring, input>>
  /\ UNCHANGED <<current, lock, cursor, stale, screen>>

\* The next piece is there to be read.
Ended(t, piece) ==
  /\ lines' = [lines EXCEPT ![t] = Append(@, piece)]
  /\ partial' = [partial EXCEPT ![t] = <<>>]

\* The default branch.  It takes the '\0' of a Shift+Return like a letter, but in
\* the queue that is the end of a piece, of which cooked does not know.
CookChar ==
  LET t  == job[Task].tty
      ch == Head(job[Task].text) IN
  /\ Holding(Task, "cook") /\ ch \notin {"LF", "BS"}
  /\ Cooked(t, Enqueue(queue[t], ch), <<ch>>)
  /\ mode' = IF Overflows(queue[t]) THEN "panic" ELSE mode
  /\ IF ch = Nul THEN Ended(t, partial[t]) /\ breaks' = [breaks EXCEPT ![t] = @ + 1]
     ELSE partial' = [partial EXCEPT ![t] = Append(@, ch)] /\ UNCHANGED <<lines, breaks>>
  /\ UNCHANGED cooked

\* If there is nothing to take back, there is no echo.
CookBackspace ==
  LET t == job[Task].tty
      q == PopBack(queue[t]) IN
  /\ Holding(Task, "cook") /\ job[Task].text = <<"BS">>
  /\ Cooked(t, q, IF q = queue[t] THEN <<>> ELSE <<"BS">>)
  /\ partial' = [partial EXCEPT ![t] = IF @ = <<>> THEN @ ELSE Front(@)]
  /\ UNCHANGED <<mode, cooked, lines, breaks>>

\* Mutant: nobody is told of the line.
CookNewlineNoSignal ==
  LET t == job[Task].tty
      q == Enqueue(queue[t], "LF") IN
  /\ Holding(Task, "cook") /\ job[Task].text = <<"LF">>
  /\ Cooked(t, Enqueue(q, Nul), <<"LF">>)
  /\ mode' = IF Overflows(queue[t]) \/ Overflows(q) THEN "panic" ELSE mode
  /\ Ended(t, Append(partial[t], "LF"))
  /\ UNCHANGED <<cooked, breaks>>

\* Two characters end a line.
CookNewline ==
  LET t == job[Task].tty
      q == Enqueue(queue[t], "LF") IN
  /\ Holding(Task, "cook") /\ job[Task].text = <<"LF">>
  /\ Cooked(t, Enqueue(q, Nul), <<"LF">>)
  /\ mode' = IF Overflows(queue[t]) \/ Overflows(q) THEN "panic" ELSE mode
  /\ cooked' = [cooked EXCEPT ![t] = @ + 1]
  /\ Ended(t, Append(partial[t], "LF"))
  /\ UNCHANGED breaks

-----------------------------------------------------------------------------
(* tty_read, by the shell of the terminal                                   *)

\* Mutant: any number of readers go on after one line.
WaitCookedOnce(t) ==
  /\ At(t, "wait cooked") /\ cooked[t] > 0
  /\ Goes(t, "read")
  /\ UNCHANGED <<inputVars, current, lock, cooked, queue, cursor, stale, screen, lines, partial, breaks>>

WaitCooked(t) ==
  /\ At(t, "wait cooked") /\ cooked[t] > 0
  /\ cooked' = [cooked EXCEPT ![t] = @ - 1]
  /\ Goes(t, "read")
  /\ UNCHANGED <<inputVars, current, lock, queue, cursor, stale, screen, lines, partial, breaks>>

\* Everything up to the next '\0', wherever that is in the buffer; then the shell
\* writes its next prompt.
Read(t) ==
  LET q      == queue[t]
      Nuls   == {n \in 0..(CookBuf - 1) : q.buf[(q.front + n) % CookBuf] = Nul}
      length == CHOOSE n \in Nuls : \A m \in Nuls : n <= m IN
  /\ Holding(t, "read")
  /\ queue' = [queue EXCEPT ![t].front = (@ + length + 1) % CookBuf]
  /\ job' = [job EXCEPT ![t] = Job("write", t, Prompt)]
  /\ lines' = [lines EXCEPT ![t] = Tail(@)]
  /\ UNCHANGED <<inputVars, current, lock, cooked, cursor, stale, screen, partial, breaks>>

-----------------------------------------------------------------------------

Hardware == (Type \/ Notify) /\ UNCHANGED ttyVars
Input_task == InputTask /\ UNCHANGED ttyVars
Tty_task == TakeEvent \/ Handle \/ CookChar \/ CookBackspace \/ CookNewline \/ Write(Task) \/ Draw(Task)
Shell(t) == WaitCooked(t) \/ Read(t) \/ Write(t) \/ Draw(t)

Next == Hardware \/ Input_task \/ Tty_task \/ \E t \in Shells : Shell(t)

Spec == Init /\ [][Next]_vars

\* Interrupts arrive, every task runs again and again, and the semaphores are
\* fair to those who wait.
LiveSpec ==
  /\ Spec
  /\ WF_vars(Notify /\ UNCHANGED ttyVars) /\ WF_vars(Input_task) /\ SF_vars(Tty_task)
  /\ \A t \in Shells : SF_vars(Shell(t))

-----------------------------------------------------------------------------
(* Properties                                                               *)

Content(q) == [i \in 1..((q.rear - q.front) % CookBuf) |-> q.buf[(q.front + i - 1) % CookBuf]]
Entered(t) == FoldLeft(LAMBDA acc, line : acc \o line \o <<Nul>>, <<>>, lines[t]) \o partial[t]

\* The queue holds what was typed and not read, piece by piece, through backspaces,
\* wraps around the end of the buffer and reads in between: a read returns the
\* oldest piece, whole (a line, unless a Shift+Return cut it), and a backspace never
\* reaches into a piece that was ended.
QueueIsTyped == mode = "run" => \A t \in Ttys : Content(queue[t]) = Entered(t)

\* The queues, with their indices and everything else, are within their bounds and right.
QueueInv == TypeOK /\ QueueIsTyped

\* The '\0' of a queue, at which reads end, where they stand in the buffer.
Ends(q) == {i \in 0..(CookBuf - 1) : (i - q.front) % CookBuf < (q.rear - q.front) % CookBuf /\ q.buf[i] = Nul}

\* The reads that were let into a queue never outnumber the ends in it, so none
\* runs past what was cooked; and every Shift+Return leaves, for ever, one piece
\* more in the queue than there will be reads.
CookedCountsLines ==
  mode = "run" => \A t \in Ttys :
    cooked[t] + (IF t \in Shells /\ job[t].at = "read" THEN 1 ELSE 0) + breaks[t]
      = Cardinality(Ends(queue[t]))

\* The semaphore counts the events in the ring that nobody was promised: the
\* reader never finds the ring empty ("input queue empty" cannot happen).
EventsAreCounted ==
  mode = "run" =>
    event_sem + (IF job[Task].at = "pop" THEN 1 ELSE 0)
              + (IF input.at = "signal" THEN 1 ELSE 0) = Waiting

\* Unless somebody is about to draw it, the screen shows the terminal that is
\* selected, as it is: no race of a writer with a switch leaves rows of another
\* terminal or old ones.
ScreenIsRight ==
  (\A p \in Tasks : job[p].at \notin {"write", "draw"}) =>
    stale[current] = {} /\ \A r \in Rows : screen[r] = current

\* Whatever is typed is worked off, unless a queue was full: the keyboard and the
\* ring run empty, and of what was entered into a shell's terminal as many pieces
\* are left as there were Shift+Returns, so without any every line was read.
EverythingArrives ==
  <>[](mode = "panic" \/ (keys = <<>> /\ Waiting = 0 /\ \A t \in Shells : Len(lines[t]) = breaks[t]))
=============================================================================
