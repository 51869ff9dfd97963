# Verification of OS-Minilab in TLA+

OS-Minilab is a set of small systems written for an operating-systems course: a
multiprocessor kernel (`src/kernel`), a crash-safe key-value library
(`src/libkvdb`), a coroutine library (`src/libco`), a game for a bare-metal
machine (`src/amgame`) and four command-line tools. This directory holds TLA+
models of the parts that carry state and concurrency, the TLC runs that check
them on small instances, and TLAPS proofs of the results that matter most for
every instance.

## 1. Inventory

### The kernel (`src/kernel`)

| Component | State it keeps | Operations | Hard behaviour | What makes it correct |
|---|---|---|---|---|
| Spin locks, `lock.c` | `locked` and `cpu` of each lock; per CPU one nesting count `ncli` and one saved interrupt flag `intena` | `spin_init`, `spin_lock`, `spin_unlock`, `holding`, `pushcli`, `popcli` | accesses of several CPUs interleave; an interrupt strikes between any two instructions; all flows of a CPU share one count | mutual exclusion; no assertion fires; interrupts off while a lock is held and back on afterwards |
| Threads and scheduler, `kmt.c`, `handler.c` | `Task[]`, `cur_task[]`, and of each task `status`, `id`, `suicide`, saved context | `create`, `teardown`, `kmt_context_save`, `kmt_context_switch` | a trap makes the interrupted task READY while its CPU still stands on its stack; slots are reused after a suicide | no stack on two CPUs; `cur_task` is the running task; always something to schedule; round robin is fair |
| Semaphores, `sem.c` | `value` and the queue of waiters | `sem_init`, `sem_wait`, `sem_signal` | between the unlock and the `_yield` of `sem_wait` anything may happen; signals from interrupt handlers | no lost and no spurious wake-up; a task is queued once |
| Traps, `os.c` | the list of handlers sorted by `seq` | `os_init`, `os_run`, `os_trap`, `os_on_irq` | a trap on each CPU at once, serialised by `trap_lk` | the save handler runs first and the switch handler last |
| Memory, `alloc.c` | per-CPU lists of blocks, the shared tail of the heap, a header in front of each block | `pmm_init`, `kalloc`, `kfree` | blocks are split, merged and freed by other CPUs than the ones that allocated them | blocks are disjoint and inside the heap; a free block is never handed out twice |
| Keyboard, `devices/input/input.c` | a ring of `NEVENTS` events, modifier keys | `input_notify`, `input_task`, `push_event`, `pop_event` | interrupt, input task and tty task share the ring | events come out once and in order; the ring does not overflow |
| Terminals, `devices/tty/tty.c`, `video.c` | the queue of characters, the number of cooked lines, the cursor, the display that is shown | `tty_cook`, `tty_read`, `tty_write`, `tty_render`, `tty_task` | reader, writers and the tty task; backspace against cooked lines; drawing against switching the display | a reader gets whole lines; the count of lines matches the queue; the screen shows the selected terminal |
| Devices, `dev.c`, `ramdisk.c` | tables and memory | `read`, `write` | – | – |
| Files, `vfs.c` | mount points, the pool of open files, descriptors of each task | `access`, `mount`, `unmount`, `mkdir`, `rmdir`, `link`, `unlink`, `open`, `read`, `write`, `lseek`, `close` | names, links and descriptors of several tasks keep one file alive; error paths after a partial update | the counts count; an open file keeps its block, and only as long as somebody needs it |
| Block file system, `fsops.c` | inodes, directory blocks and the free map on the ram disk | `fs_init`, `fs_lookup` | global buffers; some callers hold no lock; directories of 64 entries | every entry names a live inode; no block belongs to two files |
| `procfs.c`, `inodeops.c` | none of their own | text, stubs | – | – |
| Shell, `shell.c` | a working directory for each terminal | commands | the workload of the file system; `cd` and `ls` call `lookup` without `vfs_lk` | – |

They interact by calls and shared memory. `os_trap` holds `trap_lk` while it
calls the handlers that the scheduler and the keyboard registered; the keyboard
handler calls `sem_signal`; semaphores call the scheduler through `_yield`;
every other component uses locks, semaphores and `pmm->alloc`. Locks nest in one
order: `trap_lk`, then the lock of a semaphore or `vfs_lk`, then `alloc_lk`,
then `print_lk`.

### The libraries and programs

| Component | State | Operations | Hard behaviour | What makes it correct |
|---|---|---|---|---|
| `libkvdb/kvdb.c` | a log file, a flag that tells whether the last record is complete, a mutex, a file lock | `kvdb_open`, `kvdb_close`, `kvdb_put`, `kvdb_get` | a crash between any two writes; several threads and processes; `open` that fails half-way | `get` returns the last `put` that completed; a torn record is never seen |
| `libco/co.c` | ten coroutine slots | `co_start`, `co_yield`, `co_wait` | control moves between stacks; slots are reused | `co_wait` returns exactly when its coroutine has finished |
| `amgame/game.c` | two players, their attacks, delays and flashes | key events, `game_progress` | timers against key events | players stay on the board; the game ends for one winner |
| `crepl`, `sperf`, `pstree`, `frecov` | – | process and text I/O | – | – |

`PROJECT.json` lists every component with its status, and every hazard at its
line with the properties that would catch it.

## 2. Plan

| Order | Modules | Composes / implements | Status |
|---|---|---|---|
| 1 | `AbsLock`, `Spinlock`, `SpinlockProofs` | `Spinlock` implements `AbsLock` | checked, proved |
| 2 | `Kmt`, `KmtProofs`: scheduler, semaphores and traps on several CPUs | uses the lock `AbsLock` promises | checked, proved |
| 3 | `AbsMap`, `Kvdb`, `KvdbProofs`: log, crash, recovery | `Kvdb` implements a map with atomic puts, under crashes | checked, proved |
| 4 | `Libco`, `LibcoProofs`: slots, yield and wait | – | checked, proved |
| 5 | `Pmm`, `PmmProofs`: block lists of the allocator | – | checked, proved |
| 6 | `Input`, `Tty`, `TtyProofs`: ring, cooked lines, readers, writers, the screen | `Tty` composes `Input` with the shells' side; semaphores as `Kmt` promises them | checked, proved |
| 7 | `BlkFs`, `Vfs`, `Shell`, `ShellProofs`: disk, paths and descriptors, commands | `Shell` composes `Vfs`, which works on the disk of `BlkFs` | checked, proved |

`DataLemmas` has what the proofs share: arithmetic of rings, smallest and largest
elements, folds and iterations. Every safety invariant, action property and refinement
of the passing runs is a theorem; liveness is checked by TLC only.

## 3. The modules

### `AbsLock`

What a lock promises: each lock is free or has one holder, it changes hands only
through a release, and only the holder releases it.

### `Spinlock` (`lock.c`)

The state is that of `lock.c`: `locked[l]`, `owner[l]` (`lk->cpu`), and per CPU
`ncli[c]`, `intena[c]` and the hardware flag `irqOn[c]`. Each CPU runs one of its
flows: the boot flow, one of the tasks pinned to it, or the trap handler.
`flow[c]` names it, and `pc[c][f]` tells where each flow is, also one that an
interrupt has left in the middle of `pushcli`. Every access to shared memory is
one action:

| Code | Actions |
|---|---|
| `spin_lock` | `CallSpinLock`, `GetEfl` and `Cli` (the two halves of `pushcli`), `LockHolding` (its two reads), `XchgAcquire`, `SetOwner` |
| `spin_unlock` | `CallSpinUnlock`, `UnlockHolding`, `ClearOwner`, `XchgRelease`, `UnlockPopcli` |
| `holding` | `ReadLocked` and `ReadCpu`, with its own `pushcli` and `popcli` |
| `os_run`, the trap entry, `iret` | `IntrWrite`, `Trap`, `Iret` |

`pushcli` reads the flags before it clears them, and an interrupt may come in
between: that window is two actions. After `cli` the rest of `pushcli` and all of
`popcli` touch only the state of their own CPU and are part of the next shared
access. A failing assertion is the label `"panic"`.

The callers are the rest of the kernel. They are assumed to take locks in one
order, to give them back in the opposite order, and not to `_yield` while
holding one; a trap handler starts with `trap_lk`. The hardware is assumed to clear the interrupt flag on a trap
and to set it again on `iret`, since every saved context has it set: tasks are
created so, and a trap only happens outside critical sections.

### `Kmt` (`kmt.c`, `handler.c`, `sem.c`, and `os_trap` of `os.c`)

Locks are the abstract ones that `Spinlock` was shown to implement: a lock has a
CPU that holds it, and a CPU that holds a lock or handles a trap takes no
interrupt. A critical section that only touches what its lock guards is one
action up to the unlock, which is another one; `sem_wait` has all its windows:

| Code | Actions |
|---|---|
| `sem_wait` | `CallWait`, `WaitTest` (lock and the test of the loop), `WaitStatus` (`cur->status = TASK_WAITING`), `WaitUnlock`, `Trap(c, "yield")`, `WaitReturn` |
| `sem_signal` | `CallSignal`, `SignalBody`, `SignalReturn`; `Signal` is the body that the keyboard interrupt shares |
| `kmt->create`, `kmt->teardown` | `Create`, `Teardown` |
| `os_trap` | `Trap`, `TrapLockStep`, `Save`, `Notify` and `NotifyUnlock`, `Switch`, `TrapUnlock`, `Iret` |

`stack[c]` is the task on whose stack a CPU executes. It changes only in `Iret`,
after `trap_lk` was released: this is the window in which the code would let two
CPUs onto one stack if `Switch` chose tasks differently. A task's program is
unknown: it may compute for ever, call the kernel in any order, and be
interrupted anywhere. Only the idle tasks are known to loop. `CanOverfill` says
whether `create` may be called with `Task[]` full, where its assertion fails
(`"panic"`); `CanTeardown`, whether anybody calls `teardown`, which nobody does in
`src/`.

### `AbsMap`

What the database promises: a map, and a second one, `stable`, with what is on
the disk for sure. A put changes one key of the map (`AbsPut`), a sync makes all
of it stable (`AbsFlush`), a power failure leaves one of the two (`AbsFail`).

### `Kvdb` (`libkvdb/kvdb.c`)

The log is a sequence of cells: a key, a value, a length, a `\0` or the end mark
`\3`, each written by one `write`. A crash falls between two of them, which is
as fine as the code's own tests (`may_crash`) make it. Where the code tests byte
offsets (`lseek(fd, -2, SEEK_END) > 0`), `Size` gives a cell its length:
`LongEnough` and `Walk` need it for short keys and for junk of one or two bytes
in front of the first record.

`synced` is how much of the log is on the disk. A power failure keeps a prefix
that is at least that long and may turn a stretch of the rest into garbage
(`lost`). `map` and `stable` are what the records say; they are computed from
the log on every change, and are the refinement mapping to `AbsMap`. The
database has two locks, and both are there: the mutex of each process and the
`flock` on the file, which belongs to a process.

| Code | Actions |
|---|---|
| start of each call: mutex, test of `db->fd`, `open`, `flock` | `CallLibrary`, `Enter`, `OpenFails`, `Flock` |
| `crash_check`, `crash_handle` | `CrashCheck`, `Repair` (writes the `\0`), `Truncate` |
| `lockless_get`, the test of `lockless_put` | `TestEmpty`, `Walk` (a round of the loop), `Answer` |
| `write_log`, `write_str` | `WriteCell`, `WriteFails`, `SyncBody`, `WriteEnd`, `SyncEnd` |
| the return of each call | `Return` |
| `exit`, and the environment | `Crash`, `PowerFailure` |

A get of a key that was never put, and a put that finds its value in the log,
do what section 6 tells; `map` follows the code in both.

### `Libco` (`libco/co.c`)

One coroutine runs, and control moves in `co_yield` (`Yield`), `co_wait` (`Wait`)
and at the end of a function (`Finish`); `Start` is `co_start`. The loops around
`rand()` are a choice among the slots they accept (`Runnable`); if they accept
none, the program spins (`mode`). A handle is a pointer to a slot, while the
program means the coroutine it started: `who` numbers the coroutines, so that a
handle to a slot that was given away can be told from its owner.

The program is any program that waits for each coroutine at most once, as
`co.c:138` demands. A younger coroutine may wait for an older one, for one that is in
`co_wait` itself, in a circle, or for itself: who is waited for goes on at once, out of
its own `co_wait` if it was in one, so the waits that are not over never form a circle.
Three things that a program may do break promises of `co.c` (section 6), and the tests
of the repository do none of them: a coroutine other than `main` waits (`"nest"`), `co_start` is called
while a finished coroutine was not waited for (`"reuse"`), a coroutine that has
waited yields (`"yield"`). The model includes all three, `strayed` remembers
which have happened, and each property says which of them it needs to be absent.

### `Pmm` (`alloc.c`)

Every function of the allocator holds `alloc_lk` from beginning to end, so
`kalloc` and `kfree` are one action each. `blocks` is the memory as the allocator
reads it: the headers, by address, that carry the magic number. The walk of
`find_small` (`Walk`), `divide_small`, `new_small_block` and `merge_small` are
operators on it. The assertions of the lists are written with `=` and assign the
links again; `Relinked` and `Merge` do what they do. What is in a piece is not
modelled, except that `memset` clears it (`Cleared`).

### `Input` (`input.c`) and `Tty` (`tty.c`, with the part of `video.c` it draws with)

| Code | Actions |
|---|---|
| keyboard, its interrupt | `Type`, `Notify` (`input_notify`) |
| `input_task`, `input_keydown`, `push_event` | `Keydown`, `Idle`, `WaitKbdirq`, `Push`, `SignalEvent` |
| `pop_event` and `tty_task` | `TakeEvent` (`WaitEvent`), `Handle` (`Pop`) |
| `tty_cook`, `tty_enqueue`, `tty_pop_back` | `CookChar`, `CookBackspace`, `CookNewline` |
| `tty_write`, `tty_putc` | `Write` |
| `tty_render`, `fb_write` | `Draw`, a row per step |
| `tty_read` | `WaitCooked`, `Read` |

A code is a key that goes down or up; of the seven modifiers the six are there that
select what `input_keydown` pushes. Which letter shift chooses is left out, but
`keymap_shift` has no entry for Return (`keymaps.c:56-106`), so Shift+Return is an event
with a `\0` (`Shifted`), which `tty_cook` queues like a letter, without a signal
(`CookChar`). Reads end at the next `\0` (`Read`); so a *piece*, what a read
returns, is a line or what a Shift+Return cut off, and `breaks` counts the latter.

Semaphores are counters here, as `Kmt` shows them to behave. What a task does
while it holds `tty->lock` is one step, except the drawing: `fb_write` asks for
each tile which display is shown, and `tty_task` changes that without the lock
of the terminal being drawn. `lines` and `partial` are the history of the pieces
typed and not read, against which the queue is checked. The shells of `Tty` write a prompt
and read a line.

### `BlkFs` (`fsops.c`), `Vfs` (`vfs.c`) and `Shell` (`shell.c`)

`BlkFs` has no state of its own: the disk is a record, and what `fs_lookup` finds,
creates and deletes are operators on it. A directory is the list of its 64
slots as far as they were ever used; the global `new_buf`, from which new
directories are written, is part of the disk because what it holds from earlier
calls reaches it. `fs_lookup` also drops entries whose inode has lost its block
(`fsops.c:138`); this is left out because there are none: `BlocksAreOwn` says
that every entry names an inode with a block, as long as it is claimed.

`Vfs` has the mount table and the descriptors; each call holds `vfs_lk` and is
one action with the name of the function. Calls that fail without a change are
no steps; failures that do change something (`vfs_link` and `vfs_open`, which
count first and look for a place afterwards) are, and `leak` remembers that one
happened. Panics and reads that no `memcpy` survives set `running` to FALSE.
Offsets are unsigned (`Word`).

`Shell` makes the calls: each task is a shell that runs the commands, `cat` and
`touch` in several calls between which other shells go on. Descriptors of
devices and of process files are not told apart: what is done through them
changes nothing here.

The code lets four calls through that the file system does not survive. The model
has them, with what they do to the disk, and `strayed` remembers that one was made:

1. an `rmdir` that removes a directory which still holds names (`fsops.c:175`);
2. a `mkdir` after an `rmdir` that failed on a directory with several names: the new directory is
   written from `new_buf`, in which only the first of them was cleared (`fsops.c:280`);
3. adding a name, with `mkdir` or by creating a file, to a directory all of whose 64 slots were
   used: `fsops.c:265` has no bound, and the name goes over that of the first entry;
4. a write from before the data of a file: `SEEK_CUR` computes an unsigned sum
   (`vfs.c:815`) and leads up to `sizeof(rd_header_t)` bytes before the file, where a
   write hits the header of the block, with the flag that tells whether it is taken.

Every property that the run `vfs` checks is claimed as long as none of them was made, and says so; an
`rmdir` that fails, the seek to before the file and a read from there are claimed to do no
harm. Section 6 shows what the four do. A read from before the file of fewer bytes than it is
before it returns more than was asked for (`vfs.c:680`), which changes nothing else
in this state.

## 4. The runs

| Run | Instance | What it shows |
|---|---|---|
| `spinlock` | 2 CPUs, 2 nested locks, boot flow on CPU 0, one task and the trap handler on each CPU, with fairness | `MutualExclusion`, `NoPanic` (no assertion of `lock.c`), `NoPreemptionInside`, `InterruptFlag`, the refinement `ImplementsAbsLock`, and `SomebodyEnters`: a lock on which CPUs spin is taken again and again |
| `kmt` | 2 CPUs, an idle task on each, two more tasks that fill the table of four, a fifth to create when one was torn down, one semaphore that the keyboard interrupt signals, teardown of one task at any time | `StackInv` (`StackSafety` and `CurIsMe`), `QueueInv` (`QueuedOnce`, and `NoPanic`: no assertion fires), `NoSpuriousWakeup`, `NoLostWakeup`, `AlwaysEligible`, and `RunningInTable`: a freed slot of `Task[]` is given to the new task, but not as long as its dead owner is `cur_task` of a CPU |
| `kmt_live` | 1 CPU, an idle task and 3 tasks, fairness | `ReadyRuns` (round robin starves nobody) and `UnitsAreTaken` |
| `kvdb` | 2 processes, two keys, three values of which one is empty; `open` and any `write` may fail; one crash or one power failure | `ImplementsAbsMap`: recovery included, the log is a map; `LogInv` (types and `NoTornRecord`), `Answers`, `AckedIsDurableUnlessCrash` |
| `kvdb_live` | 1 process of two threads, one crash, opens that do not fail, fairness | `OneWorker`: the mutex keeps one thread at work; `EveryCallReturns`, also after the process died in the middle of a call |
| `kvdb_missing_key` | 1 process, two keys | violated: `MissingKeyIsNull` (see Findings) |
| `kvdb_unsynced` | 2 processes, one crash | violated: `AckedIsDurable` (see Findings) |
| `libco` | 4 slots, 4 coroutines besides `main`, any program that waits for each of them once, fairness | `TableInv` (types and `CountMatches`); `WaitsOfMainEndRight`, `WaitsForItsOwn`, `NeverSpins` and `WaitReturns`, each for the programs it names |
| `pmm` | 2 CPUs, a heap of 19 units with headers of one, pieces of 1, 2 and 6 | `LiveIsOwn` (no two pieces overlap), `HeapInv` (types, `BlocksTileTheHeap`, `InUseIsLive`), `ListsAreRight` |
| `tty` | 2 terminals of 2 by 2 cells, a shell on the first, 4 codes from the keyboard (Return, Shift or Alt; a character or Shift released; backspace), a ring of 3, queues of 5, fairness | `QueueInv` (types and `QueueIsTyped`), `CookedCountsLines`, `EventsAreCounted`, `ScreenIsRight`, `EverythingArrives` |
| `vfs` | 2 shells, 7 paths (files, a directory below one, the two mount points, one that only begins like one), one free descriptor each, 2 inodes to create, until one of the four calls was made | `CountsAreRight`, `BlocksAreOwn`, `BlocksGivenBack`, `DiskInv` (types and `OffsetsInBlock`), `OneNameAtATime` |
| `vfs_rmdir` | 1 shell, directories two deep | violated: `RmdirOnlyEmpty` (see Findings) |

**Bounds.** Two CPUs show every race of the code: each lock, queue and table is
shared by pairs. Two nested locks make the outer and inner case of the counters
differ. In `spinlock` CPU 0 is still in its boot flow while the other runs a
task; in the boot flow of a CPU no other differs. In `kmt` two tasks on each CPU let one
be switched out by a non-idle one. The table is full from the beginning, so that
`create` has a place only after a teardown, while the CPU of the dead task may still stand
on its stack (`MCBound`: one teardown; `CanOverfill` is off, since an assertion that stops the
kernel is all that a creation in a full table shows). `MaxValue`
bounds how far a semaphore is signalled ahead; with 1 a unit can lie about
while a woken task is on its way and a newcomer takes it. `MaxInQue` is chosen so
that the assertion on the length of the queue would fire if any task was queued
twice. `NoLostWakeup` says nothing once a task was torn down, which may take a
unit with it.

`MaxCells` stops puts on a log that has grown longer: with 0 a put starts on a
file without a complete call behind it, so that the two processes' puts, the second
behind a torn record or behind the first's, and the recovery between them happen;
a record is ten cells, and two of them let a walk pass the record of another key.
`MaxFaults` bounds crashes and power failures together; opens and writes may fail at any time. A second
one adds nothing that a crash during the repair of a torn record does not show.
The processes and values of `kvdb` are symmetric.

In `libco` four coroutines on three free slots reuse slots and run into the
assertion of `co_start`. In `pmm` the sizes are chosen so that a piece of 1
leaves a rest that is divided again, one of 6 needs a block larger than
`Unit`, and the heap is used up; the search is complete. In `tty` a ring of three
holds two events and panics with the third, a queue of five wraps and overflows,
and 2 by 2 cells scroll. The keyboard's four codes (`MCCodes` has what each may be) contain
Shift+Return, also followed by a line, and Alt with what switches the terminal; two lines
and a character come to the end of the buffer, across which a backspace then looks. In `vfs`, `Word` is 8 instead of 2^64, large enough that
only a negative sum wraps; a file has one byte behind its header, which is enough for every
comparison with its end; `MaxCount` bounds what linking or failing to open can do
to a count. The panic on the last inode is part of the instance. What lies behind one of the
four calls is not explored, since nothing is claimed there; with `/dev` unmounted, which adds two
paths, one file or directory is created instead of two (`MCBound`).

Deadlock is not checked where a system may stop: in `kvdb` a failed `open`
blocks its process for good, `libco` and `vfs` panic, `pmm` runs out of memory,
and `tty` has nothing to do once `MaxKeys` codes were typed.

**Fairness.** In `Spinlock`, a CPU goes on executing `lock.c` (weak fairness of
`LockStep`), and a critical section ends (strong fairness of `CallSpinUnlock`:
the inner locks it may take in between must not keep the outer one for ever; all
critical sections of the kernel are bounded code). Nobody is obliged to take a
lock. In `Kmt`, the trap path of each CPU goes on, the timer ticks, and a task on
its way through `sem_wait` or `sem_signal` goes on when its CPU runs it. These
are strong: a CPU that spins on a lock which is free again and again gets it,
which `lock.c` itself does not guarantee to a single CPU (it only guarantees
`SomebodyEnters`), so the liveness of `Kmt` is relative to a bus that does not
starve one CPU's `xchg` for ever. In `Kvdb`, a thread that is not blocked goes on
(weak), and one that waits for the mutex or the file lock gets it if it is free
again and again (strong): both put waiting threads into a queue. Nobody is
obliged to call the library. In `Tty`, interrupts arrive and `input_task` goes on
(weak); `tty_task` and the shells are scheduled again and again, and a semaphore
they wait for is theirs if it is free again and again (strong): its queue is
first come, first served, and `kmt_live` checks `UnitsAreTaken`. Nobody is obliged
to type. In `Libco`, `rand()` chooses every slot again and again, and a coroutine
that is run again and again comes to the end of its function (strong); without
either, `co_wait` promises nothing.

## 5. The proofs

`SpinlockProofs` proves, for any set of CPUs, locks and tasks:

- `SpinlockExcludes` and `SpinlockImplementsAbsLock`, from the inductive
  invariant `ExclusionInv`: besides `MutualExclusion` it says that `locked[l] =
  0` means that nobody holds `l` (`ZeroMeansFree`) and that a flow on its way
  through `spin_unlock` holds the lock it is about to free (`ReleasesItsOwn`).
  Mutual exclusion alone is not inductive: `XchgAcquire` relies on the word in
  memory and `XchgRelease` on the caller. Interrupts play no part in it: the
  argument holds whatever flow the CPU runs.
- `SpinlockTypes`, `SpinlockNeverPanics`, `SpinlockNoPreemption` and
  `SpinlockRestoresInterrupts`, from `IrqInv`: for each CPU, `LocalInv` counts
  (`ncli` is the number of locks the running flow holds, plus the `pushcli`
  that the current call has in progress: `CountInv`), relates the flag, the saved
  flag and the copy in `eflags` (`FlagInv`), says what the argument of a call in
  progress is to the held locks (`ArgInv`), and that flows switched out hold
  nothing (`SleepInv`); `OwnerInv` ties `lk->cpu` to the holder. The count is the
  heart of it: `popcli` cannot assert, and re-enables interrupts exactly at the
  end of the outermost section.

The assumptions are those of the modules: CPU and lock numbers are naturals, at
least one task, `trap_lk` is a lock. The count of held locks is the cardinality
of a finite set; the lemmas about it come first.

### `KmtProofs`: any number of CPUs, tasks, slots and semaphores

- `KmtTypes`, `KmtStacks`, `KmtRunningInTable` and `KmtAlwaysEligible` follow from
  `TableInv`. `StackInv` alone is not inductive: `Switch` chooses by `id % NCpu`
  and by `status`, so the invariant says that what a CPU stands on, and what it
  believes to run, carries an id of its own (`StackPinned`, `CurPinned`), that
  slots and ids agree (`TableIsRight`), and that only the phases between the trap
  and `iret` may let the two differ (`CurIsStack`). The idle task of a CPU is never
  removed and never sleeps (`IdleInv`): this is why the loop of
  `kmt_context_switch` ends.
- `KmtNoSpuriousWakeup` follows from `SleepInv`: who is queued is inside `sem_wait`
  and WAITING, or about to be and holding the lock (`QueuedSleeps`,
  `HolderInv`), and who is WAITING is queued (`StatusIsQueued`), so what `Switch`
  chooses is not queued.
- `KmtQueues` adds `NoPanic`, for programs that create no task while the table is full
  (`~CanOverfill`; or the tasks are at most `MaxTasks`, so that it never is: the code
  asserts the same), and if there are fewer tasks that can sleep than fit in a queue
  (`MAX_IN_QUE` is `MAX_NR_TASKS + 5` in `common.h`). Dead tasks are counted, because one
  that was torn down in a queue stays there. Since no task is queued twice, the length of a
  queue is at most their number.
- `KmtNoLostWakeup` follows from `WakeInv`: while somebody is queued, the value of
  the semaphore is at most the number of those who were woken and have not
  tested again, and who was woken stays awake until then. It is a counting argument
  about a finite set that grows by a signal and shrinks by a test.

### `LibcoProofs`: any table and any number of coroutines

`CoInv` has the types, the count of used slots and what a slot says of its
coroutine; it gives `LibcoTable` for all programs. The other three hold for
disciplined programs, each with an invariant under the same condition on `strayed` as
the property: `OwnInv` (a finished coroutine that was not waited for keeps its slot) gives
`LibcoWaitsForItsOwn`, `MarkInv` with it `LibcoNeverSpins`, and `MainInv`
`LibcoWaitsOfMain`. That there is somebody to choose needs `ChainsEnd` besides: of any set of
coroutines that are all in `co_wait`, one waits for a coroutine outside the set (a step
that waits keeps this, since the one it resumes leaves his own `co_wait`). If nobody could
run, everybody alive would be in `co_wait` for somebody alive.

### `TtyProofs`: any number of terminals and shells, any ring, screen and queue

`TtyInv` is types; its one fact beyond is that the end of each queue is marked
with a `\0`. `CountInv` gives `TtyEventsAreCounted`, and `PiecesDue` in it that
semaphore, reader and Shift+Returns together make as many as there are pieces; `QueuesInv` has that
the `\0` in the ring are as many (`Counted`), which gives `TtyCookedCountsLines`. That each
code typed is one interrupt and at most one event and one piece bounds the semaphores
(`TtyTypes`). `ScreenInv` gives
`TtyScreenIsRight`: `ScreenIsRight` speaks of the moments when nobody is about to
draw; the invariant says which rows are right in the middle of a drawing, and that
one task at a time draws a terminal, whoever switches meanwhile. `QueuesInv` gives
`TtyQueues`: the characters between `front` and `rear`, read modulo `CookBuf`,
are the pieces and the rest of what was typed.

Assumed: a queue has at least two places, the prompt is text and alt-keys select
terminals that exist (`TtyAssumption`); the codes are keys of the keyboard
(`InputAssumption`); the tty task is not the shell of a terminal (`NameAssumption`).

### `KvdbProofs`: any processes, threads, keys and values, any number of crashes

`KvInv` is inductive, and has three parts that need each other:

- one thread works on the log, since it has the mutex of its process and the file
  lock (`LockInv`): `KvdbOneWorker`;
- the shape of the log (`GoodLog`): end marks stand behind whole records, ten
  cells apart, all on the disk but perhaps the last mark; what stands before the
  first record is too short for recovery to see. It is what makes a prefix that a
  power failure leaves, or a stretch that it turns into garbage, parse as the map before
  or after the last put: `KvdbLog`;
- what each label relies on (`ThreadsInv`): how much of a record is written, and
  that the walk of `lockless_get` has passed no record of its key: `KvdbAnswers`.

`KvdbImplementsAbsMap` is the refinement: the write of the end mark is
`AbsPut`, `sync` is `AbsFlush`, a power failure is `AbsFail`, and everything else,
`Repair` and `Truncate` included, leaves both maps alone. `Flushed` gives
`KvdbAckedIsDurable`.

### `PmmProofs`: any heap, any sizes of headers and units, any number of CPUs

`PmmInv` says that the headers, in order, cover the heap (`Tiled`), that links go
both ways and forwards (`Linked`), and that every block but the last belongs to the list
of exactly one CPU (`Lists`). The lists are a ghost: *some* function `L` from CPUs to sets
of blocks fits. The proof gives the new one in each step, from which the disjointness
that `ListsAreRight` states by reachability follows. `PmmHeap`, `PmmLiveIsOwn` and
`PmmLists` follow from it. `BlocksTileTheHeap` is stated as a sum of sizes; it
is proved by the cardinality of the covered units.

### `ShellProofs`: any shells, descriptors, blocks and inodes, paths of any length

The theorems speak of the same behaviours as the run, all of them; what they claim, they
claim as long as none of the four calls was made (`strayed`). `ShellCounts`,
`ShellBlocksAreOwn`, `ShellBlocksGivenBack` and `ShellDisk`
follow from `ShellInv`, which holds until then (`UnlessStrayed`). It says everything of the places that name an inode
(`LinksTo`) and the descriptors that are open on it (`OpensOf`); an inode that
has either is `Alive`, and the rest of the table may say anything, as it does after an
unlink. The parts of `ShellInv` need each other:

- `Homes`: an entry names an inode of the table and lies in the block of a
  directory, and descriptors are open on files. This is what lets an `unlink` of
  one name leave the rest alone.
- `OwnBlocks`: two inodes that are alive have two blocks, both taken. It rests on the counts: a
  block is given back when a count reaches zero, which must not happen while there is a
  name or a descriptor left.
- `Counted`: `refcnt` and `linkcnt` are never below the number of descriptors and
  names, equal to them unless `leak`, and the mark of a deferred unlink is there
  exactly when the last name went before the last descriptor. `GivenBack` is the other
  direction: a block that is taken belongs to somebody alive.
- `NamesOnce`: `link` and `open` look for a *file* of the new name only, so a
  directory may already carry it. Of two live entries with one name a search finds the
  first; the others are files, so removing the first uncovers no directory. `Tidy`,
  among the types, says that no name stands behind an entry at which a search ends.
- `SizesWithin`, `OffsetsWithin`: a size fits into a block with its header, and an
  offset does or is at most a header below 0, modulo 2^64. The sums that `vfs_read`,
  `vfs_write` and `vfs_lseek` compare wrap around only for the latter, since sizes are below the
  size of a block, and the number of bytes is an int.
- `TodoTyped`: what is left of a `cat` or a `touch` names a descriptor of its task.

`FsInv` is proved of operators on the disk before it is of actions: what
`fs_lookup` creates (`Created`), what `Unnamed`, a link, an open and a close make of a disk
that has it. The initial state is four creations on a disk with the root alone (`MakeOne`).

`ShellOneName` is an action property about paths of any length. `Renames` says that
between two disks one name in one block means something else and that no directory with
names in it comes or goes. A directory has one name (`Counted`, `OwnBlocks`), so
two paths that lead to one block are equal (`OnePath`); hence at most one path
changes its meaning. A walk that does not pass the changed name ends where it ended
(`WalkSame`), one that passes it ends nowhere, before and after the call, because a directory that
comes or goes is empty. The same argument gives `ShellDirsStay`: up to the first of the four
calls, no call takes a directory away that has names in it, nor the path to it. The run
`vfs_rmdir` shows the first of the four.

Assumed: the blocks are finitely many and 1 is among them
(`BlksAssumption`); a path has at least one name (`PathsAssumption`); there are finitely
many tasks (`TasksAssumption`); what `vfs_init` makes fits (`RoomAssumption`); byte counts
are not negative, and with seek offsets they are ints, far below 2^64 (`CountsAssumption`,
`SeeksAssumption`).

### Induction over numbers

The induction theorems of the library have operators as parameters, which the provers
cannot instantiate. Where the model has a recursive function or a fold (the walk of
a list, the walk of the log, the sum of sizes), `DataLemmas` proves that the
function exists (`IterationExists`, `FoldExists`: of the partial ones, take
the largest that does) and then argues with the smallest counterexample
(`SmallestExists`). No assumption is made for it.

### What is only model-checked

- Liveness (`SomebodyEnters`, `ReadyRuns`, `UnitsAreTaken`, `EveryCallReturns`,
  `WaitReturns`, `EverythingArrives`): fairness and ENABLED are outside the prover's
  reach.
- The three runs that expect a violation: a counterexample is what they show.

## 6. Findings

Shown by a run:

- `kvdb_missing_key`: the loop of `lockless_get` ends at the oldest record
  (`kvdb.c:305`) before it looks at its key, so `kvdb_get` of a key that was never
  put returns the oldest value; the comment at `kvdb.c:332` promises a null
  pointer. `Kvdb` models the code: `map` gives missing keys the oldest value.
- `kvdb_unsynced`: a process dies between the `write` of the end mark and the
  `sync` behind it; another one then puts the same value, finds it in the log
  (`kvdb.c:183`) and reports success, although nothing of it need be on the disk.
  Without a crash `AckedIsDurable` holds (`AckedIsDurableUnlessCrash`).
- `vfs_rmdir`: the test of `rmdir` whether a directory is empty runs as far as its
  *parent* has entries (`fsops.c:175`), so a directory whose live names lie further
  back is removed, and what is in it is lost.

Met while modelling; the models show them with the change named here:

- `sem_wait` gives `sem->lock` back at `sem.c:79` and traps at `sem.c:81`. A
  `sem_signal` in between makes the task READY while it runs, so the assertion at
  `handler.c:22`, which is compiled in with `ASSERT_H` only, would fail. Without it
  the code does the right thing: the task stays READY and is chosen again (`Save`).
- When `open` fails, `kvdb_open` returns at `kvdb.c:96` with the mutex locked, and
  the next call of the process never returns; the comment at `kvdb.c:19` says
  that such calls return an error. With `OpenMayFail = TRUE` (and `CHECK_DEADLOCK FALSE`,
  since everybody may end up blocked), `KvdbLive.cfg` refutes `EveryCallReturns`, which is
  therefore claimed for opens that do not fail.
- `co_wait` returns too early if a coroutine that waits is itself waited for by a third
  (`co.c:149` resumes it inside its own `co_wait`); a handle can come to mean
  another coroutine (`co.c:42` frees the slot before anybody waited, against the
  comment at `co.c:137`); and the wait mark stays set for ever (`co.c:143`), so
  that a coroutine that has waited is never chosen again and a program whose only
  other coroutines have finished spins. `WaitEndsWithItsCoroutine`, and the other properties without
  their premises, are refuted in `libco`.
- `vfs_link` and `vfs_open` raise a count before they know that the call succeeds
  (`vfs.c:394`, `vfs.c:627`); after the error path the block of the file is never
  given back. The premise `~leak` of `BlocksGivenBack` is needed for it.
- Shift+Return: `keymap_shift` has no entry for Return (`keymaps.c:56-106`), and
  `input_keydown` pushes the 0 it finds (`input.c:61-62`) since it has tested the other table
  (`input.c:50`). `tty_cook` queues the `\0` like a letter (`tty.c:78-79`), without a
  signal, and `tty_read` stops there (`tty.c:194-203`): it returns what was typed before it
  without a line end, and the rest of the line stays for the next read. From then on
  every read returns an older piece than the line that woke it, and one piece stays in
  the queue for ever. `CookedCountsLines` and `EverythingArrives` say that it is one for each
  Shift+Return (`breaks`); without `breaks` the run `tty` refutes both.
- The four calls that the file system does not survive (`Vfs`, section 3). Without the premise
  `~strayed`, and without the constraint, the run `vfs` refutes `BlocksAreOwn` by a touch, an open, a
  seek to one byte before the file and a write, which clears the flag of the block; and
  `CountsAreRight` by a touch, a link, an unlink and a touch, the last of which goes over the
  first name of a full root directory. `vfs_rmdir` shows an `rmdir` of the first kind. A `mkdir` from a buffer with names in
  it needs more inodes than the run has.

## 7. Not modelled

- Weak memory: each access of `lock.c` is atomic and in program order. On x86
  `xchg` is a full barrier, so the only reordering left is that of the store
  `lk->cpu = -1` with later reads, which the CPU itself does not observe.
- `print_lk`, the magic numbers of locks and tasks, the stack fences: they guard
  against memory corruption, which the models cannot have.
- The saved registers of a task: a context is what it resumes, the task.
- A task torn down while it sleeps in a queue swallows the next signal
  (`kmt.c:79`). No code tears tasks down and no document promises anything, so no
  property speaks of it; `kmt` checks what must hold in spite of it.
- `libkvdb`: a failing `malloc`; values longer than the four digits of a length
  field; empty keys; a `write` that fails between two of the same call that
  succeed (after a failure the rest of the call's writes fail too). The offset of
  the file is not state: every call starts with an absolute seek.
- `os_on_irq`: its sorted insertion runs three times at boot, on one CPU; `Kmt` has
  the handlers in the order it leaves them.
- `alloc.c`: `pm_used`, which `/proc/meminfo` prints. `kfree` subtracts the size
  of the merged block where `kalloc` added that of the piece, so it is wrong
  after a while; nothing depends on it.
- `tty.c`: what stands in the cells; `nread` of a line longer than the buffer of
  the reader (`tty.c:202`), which counts on, so that `shell.c:359` would end the line behind
  its buffer. `input.c`: caps lock, and which letter shift chooses from
  two constant tables. `video.c`: tiles, fonts and the z order, that is pixels.
- `vfs.c`, `fsops.c`: a negative number of bytes, which the shell passes on
  (`shell.c:210`, `shell.c:255`) and which `vfs_read` and `vfs_write` take for one near
  2^64; the contents of files, the path `/`, writes to the disk below
  the file system through its device, the pointer to a path that a descriptor of
  procfs keeps (`vfs.c:622`). `ls` and `cd` call `fs_lookup`
  without `vfs_lk` (`shell.c:89`) and share its global buffers with whoever holds
  it: every outcome corrupts something, and a model would say no more than
  that.
- `shell.c`: splitting of a line and path arithmetic are text; what comes out of
  them is a member of `Paths`.
- `amgame`: one loop without concurrency or failure, on two positions and a few
  counters; a test of one key press settles what could be wrong in it: the flash is
  cut off at the wrong side of the screen (`game.c:196`) and can land on the other
  player (`game.c:178`).
- `crepl`, `sperf`, `pstree`, `frecov`, `ramdisk.c`, `procfs.c`, the boot framework:
  process, text and byte I/O without state worth a model.
