-------------------------------- MODULE Kvdb --------------------------------
(***************************************************************************)
(* libkvdb/kvdb.c: a key-value store in an append-only log, used by        *)
(* several threads of several processes, with process crashes and power    *)
(* failures between any two system calls.                                  *)
(*                                                                         *)
(* A record of the log is written by nine calls of write_str, two write()s *)
(* each:  key \0 value \0 len1 \0 len2 \0 \3 \0 .  A cell of "file" is     *)
(* what one write() appends.  Each process has one kvdb_t that its threads *)
(* share, as in the tests; "lock" is a mutex of the process, flock works   *)
(* between processes.                                                      *)
(***************************************************************************)
EXTENDS Integers, Sequences, FiniteSetsExt

CONSTANTS Procs, PerProc,   \* the processes, and the threads of each: 1..PerProc
          Keys, Values,
          Empty,            \* the empty string, in Values: write_str reports it as a failure
          KeyLen,           \* strlen of each key
          None,             \* NULL
          OpenMayFail,      \* may open() fail?
          MaxCells,         \* bound: nobody starts a put on a longer file
          MaxCrashes,       \* bound on process crashes
          MaxFailures,      \* bound on power failures
          MaxFaults         \* bound on both together

NoProc == "none"
ASSUME ProcAssumption == NoProc \notin Procs
ASSUME SizeAssumption ==
  /\ KeyLen \in [Keys -> Nat \ {0}] /\ PerProc \in Nat /\ OpenMayFail \in BOOLEAN
  /\ MaxCells \in Nat /\ {MaxCrashes, MaxFailures, MaxFaults} \subseteq Nat
ASSUME ValueAssumption == {"pending", "ok", "error", "torn", None} \cap Values = {}

Threads == Procs \X (1..PerProc)
ProcOf(t) == t[1]
Nobody == <<>>

VARIABLES
  file,      \* the log: a sequence of cells
  synced,    \* how many of them are on the disk for sure
  map,       \* what the records of the log say
  stable,    \* and what those say that are on the disk
  flock,     \* the process whose open file has the lock on the file
  mutex,     \* mutex[p]: the thread of p that holds "lock"
  fd,        \* fd[p]: db->fd: "unset" (0), "open" (> 0) or "closed" (-1)
  pc,        \* pc[t]: where thread t is
  call,      \* call[t]: the call it makes
  out,       \* out[t]: what the call will return
  at,        \* at[t]: the cell the call reads, or how many it has written
  crashes, failures

fileVars == <<file, synced, map, stable>>
lockVars == <<flock, mutex>>
callVars == <<call, out, at>>
vars == <<fileVars, lockVars, fd, pc, callVars, crashes, failures>>

-----------------------------------------------------------------------------
(* The log                                                                  *)

\* lost: a power failure has left garbage where the cell should be.
Cell(kind, text) == [is |-> kind, of |-> text, lost |-> FALSE]
Nul == Cell("nul", "")
End == Cell("end", "")

\* What write_log appends before the end mark.  write_str of an empty string
\* writes nothing, not even its \0.
Body(k, v) ==
  <<Cell("key", k), Nul>>
  \o (IF v = Empty THEN <<>> ELSE <<Cell("val", v), Nul>>)
  \o <<Cell("len1", ""), Nul, Cell("len2", ""), Nul>>

Size(c) == IF c.is = "key" THEN KeyLen[c.of] ELSE IF c.is \in {"len1", "len2"} THEN 4 ELSE 1
Bytes(f) == MapThenSumSet(LAMBDA i : Size(f[i]), DOMAIN f)

\* lseek(fd, -2, SEEK_END) > 0
LongEnough(f) == Len(f) > 2 \/ Bytes(f) > 2

Ends(f) == {i \in DOMAIN f : f[i].is = "end" /\ ~f[i].lost}

\* The record whose end mark is cell i.
Kinds == <<"key", "nul", "val", "nul", "len1", "nul", "len2", "nul">>
Whole(f, i) == i > 8 /\ \A j \in 1..8 : f[i - 9 + j].is = Kinds[j] /\ ~f[i - 9 + j].lost
KeyAt(f, i) == IF i > 8 THEN f[i - 8].of ELSE ""
ValueAt(f, i) == IF Whole(f, i) THEN f[i - 6].of ELSE "torn"

\* What the complete records of the log say: the latest record of each key, or,
\* for a key without one, the value of the oldest record.
Contents(f) ==
  [k \in Keys |->
     LET ends == Ends(f)
         mine == {i \in ends : KeyAt(f, i) = k} IN
     IF ends = {} THEN None
     ELSE ValueAt(f, IF mine # {} THEN Max(mine) ELSE Min(ends))]

\* The log becomes f, its first n cells are on the disk.  map and stable follow
\* from file and synced; they are variables so that TLC computes them once.
SetLog(f, n) ==
  /\ file' = f /\ synced' = n
  /\ map' = Contents(f)
  /\ stable' = Contents(SubSeq(f, 1, n))

-----------------------------------------------------------------------------

Pending == "pending"
NoCall == [op |-> "none", key |-> None, val |-> None]
Calls == {NoCall} \cup [op : {"open", "close"}, key : {None}, val : {None}]
         \cup [op : {"get"}, key : Keys, val : {None}] \cup [op : {"put"}, key : Keys, val : Values]
PCs == {"idle", "enter", "flock", "test", "check", "repair", "truncate", "walk",
        "write", "sync", "end", "end_nul", "sync_end", "return"}

Init ==
  /\ file = <<>> /\ synced = 0
  /\ map = Contents(<<>>) /\ stable = Contents(<<>>)
  /\ flock = NoProc /\ mutex = [p \in Procs |-> Nobody]
  /\ fd = [p \in Procs |-> "unset"]
  /\ pc = [t \in Threads |-> "idle"]
  /\ call = [t \in Threads |-> NoCall]
  /\ out = [t \in Threads |-> Pending]
  /\ at = [t \in Threads |-> 0]
  /\ crashes = 0 /\ failures = 0

Goto(t, label) == pc' = [pc EXCEPT ![t] = label]
Result(t, r) == out' = [out EXCEPT ![t] = r] /\ Goto(t, "return")

\* A thread calls the library.  The kvdb_t was passed to kvdb_open before.
CallLibrary(t, c) ==
  /\ pc[t] = "idle" /\ c # NoCall
  /\ c.op # "open" => fd[ProcOf(t)] # "unset"
  /\ c.op = "put" => Len(file) <= MaxCells
  /\ call' = [call EXCEPT ![t] = c]
  /\ Goto(t, "enter")
  /\ UNCHANGED <<fileVars, lockVars, fd, out, at, crashes, failures>>

\* Mutant: the mutex does not exclude the other threads of the process.
EnterWithoutMutex(t) ==
  LET p == ProcOf(t) IN
  /\ pc[t] = "enter"
  /\ mutex' = [mutex EXCEPT ![p] = t]
  /\ \/ fd[p] = "open" /\ Goto(t, "flock") /\ UNCHANGED <<fd, out>>
     \/ fd[p] # "open" /\ call[t].op = "open" /\ fd' = [fd EXCEPT ![p] = "open"]
        /\ Goto(t, "flock") /\ UNCHANGED out
  /\ UNCHANGED <<fileVars, flock, call, at, crashes, failures>>

\* pthread_mutex_lock(&lock) and the test of db->fd.
Enter(t) ==
  LET p == ProcOf(t)
      op == call[t].op IN
  /\ pc[t] = "enter" /\ mutex[p] = Nobody
  /\ mutex' = [mutex EXCEPT ![p] = t]
  /\ \/ op = "open" /\ fd[p] = "open" /\ Result(t, "ok") /\ UNCHANGED fd
     \/ op = "open" /\ fd[p] # "open" /\ fd' = [fd EXCEPT ![p] = "open"]
        /\ Goto(t, "flock") /\ UNCHANGED out
     \/ op = "close" /\ fd[p] = "open" /\ fd' = [fd EXCEPT ![p] = "closed"] /\ Result(t, "ok")
     \/ op \in {"put", "get"} /\ fd[p] = "open" /\ Goto(t, "flock") /\ UNCHANGED <<fd, out>>
     \/ op # "open" /\ fd[p] # "open" /\ UNCHANGED fd
        /\ Result(t, IF op = "get" THEN None ELSE "error")
  /\ UNCHANGED <<fileVars, flock, call, at, crashes, failures>>

\* open() fails: kvdb_open returns with the mutex in its hands.
OpenFails(t) ==
  LET p == ProcOf(t) IN
  /\ OpenMayFail
  /\ pc[t] = "enter" /\ mutex[p] = Nobody
  /\ call[t].op = "open" /\ fd[p] # "open"
  /\ mutex' = [mutex EXCEPT ![p] = t]
  /\ fd' = [fd EXCEPT ![p] = "closed"]
  /\ Goto(t, "idle")
  /\ call' = [call EXCEPT ![t] = NoCall]
  /\ UNCHANGED <<fileVars, flock, out, at, crashes, failures>>

\* flock(db->fd, LOCK_EX)
Flock(t) ==
  /\ pc[t] = "flock" /\ flock \in {NoProc, ProcOf(t)}
  /\ flock' = ProcOf(t)
  /\ Goto(t, IF call[t].op = "open" THEN "check" ELSE "test")
  /\ UNCHANGED <<fileVars, mutex, fd, callVars, crashes, failures>>

\* Mutant: the mutex is not given back.
ReturnKeepsMutex(t) ==
  /\ pc[t] = "return"
  /\ flock' = IF flock = ProcOf(t) THEN NoProc ELSE flock
  /\ Goto(t, "idle")
  /\ call' = [call EXCEPT ![t] = NoCall]
  /\ out' = [out EXCEPT ![t] = Pending]
  /\ at' = [at EXCEPT ![t] = 0]
  /\ UNCHANGED <<fileVars, mutex, fd, crashes, failures>>

\* flock(db->fd, LOCK_UN), pthread_mutex_unlock(&lock), and the return.
Return(t) ==
  /\ pc[t] = "return"
  /\ flock' = IF flock = ProcOf(t) THEN NoProc ELSE flock
  /\ mutex' = [mutex EXCEPT ![ProcOf(t)] = Nobody]
  /\ Goto(t, "idle")
  /\ call' = [call EXCEPT ![t] = NoCall]
  /\ out' = [out EXCEPT ![t] = Pending]
  /\ at' = [at EXCEPT ![t] = 0]
  /\ UNCHANGED <<fileVars, fd, crashes, failures>>

-----------------------------------------------------------------------------
(* crash_check and crash_handle                                             *)

\* Where crash_check was called from: kvdb_open, the end of lockless_put, or
\* lockless_get.
AfterCheck(t) == IF call[t].op = "open" \/ out[t] # Pending THEN "return" ELSE "walk"

\* The byte before the last one is the end mark, or the file is empty.
Clean(f) == LongEnough(f) => Len(f) >= 2 /\ f[Len(f) - 1] = End

CrashCheck(t) ==
  /\ pc[t] = "check"
  /\ IF Clean(file)
     THEN /\ Goto(t, AfterCheck(t))
          /\ out' = [out EXCEPT ![t] = IF call[t].op = "open" THEN "ok" ELSE @]
          /\ at' = [at EXCEPT ![t] = Len(file) - 1]
     ELSE Goto(t, "repair") /\ UNCHANGED <<out, at>>
  /\ UNCHANGED <<fileVars, lockVars, fd, call, crashes, failures>>

\* Mutant: a log with a torn record is emptied.
RepairEmpties(t) ==
  /\ pc[t] = "repair"
  /\ SetLog(<<>>, 0)
  /\ Goto(t, "check")
  /\ UNCHANGED <<lockVars, fd, callVars, crashes, failures>>

\* Backwards to the last end mark, and a \0 behind it; without one the file is
\* emptied.
Repair(t) ==
  /\ pc[t] = "repair"
  /\ IF Ends(file) = {}
     THEN /\ SetLog(<<>>, 0)
          /\ Goto(t, "check")
     ELSE LET i == Max(Ends(file)) IN
          /\ SetLog(SubSeq(file, 1, i) \o <<Nul>> \o SubSeq(file, i + 2, Len(file)), Min({synced, i}))
          /\ Goto(t, "truncate")
  /\ UNCHANGED <<lockVars, fd, callVars, crashes, failures>>

Truncate(t) ==
  /\ pc[t] = "truncate"
  /\ LET n == Max(Ends(file)) + 1 IN SetLog(SubSeq(file, 1, n), Min({synced, n}))
  /\ Goto(t, "check")
  /\ UNCHANGED <<lockVars, fd, callVars, crashes, failures>>

-----------------------------------------------------------------------------
(* lockless_get                                                             *)

\* Mutant: a put of a key that has a value already is skipped.
AnswerSkipsAll(t, r) ==
  IF call[t].op = "get" THEN Result(t, r) /\ UNCHANGED at
  ELSE IF r # None THEN Result(t, "ok") /\ UNCHANGED at
  ELSE Goto(t, "write") /\ at' = [at EXCEPT ![t] = 0] /\ UNCHANGED out

\* The answer r of lockless_get: kvdb_get returns it, lockless_put compares it
\* with the value it was asked to write.
Answer(t, r) ==
  IF call[t].op = "get" THEN Result(t, r) /\ UNCHANGED at
  ELSE IF r = call[t].val THEN Result(t, "ok") /\ UNCHANGED at
  ELSE Goto(t, "write") /\ at' = [at EXCEPT ![t] = 0] /\ UNCHANGED out

TestEmpty(t) ==
  /\ pc[t] = "test"
  /\ IF LongEnough(file) THEN Goto(t, "check") /\ UNCHANGED <<out, at>> ELSE Answer(t, None)
  /\ UNCHANGED <<fileVars, lockVars, fd, call, crashes, failures>>

\* One round of the loop: the record that ends at cell at[t].  The oldest
\* record is returned before its key is looked at.
Walk(t) ==
  LET i == at[t]
      before == SubSeq(file, 1, i - 9) IN
  /\ pc[t] = "walk"
  /\ IF i < 9 THEN Answer(t, None)
     ELSE IF ~LongEnough(before) \/ KeyAt(file, i) = call[t].key THEN Answer(t, ValueAt(file, i))
     ELSE IF i > 10 /\ file[i - 10] = End THEN at' = [at EXCEPT ![t] = i - 10] /\ UNCHANGED <<pc, out>>
     ELSE Answer(t, None)
  /\ UNCHANGED <<fileVars, lockVars, fd, call, crashes, failures>>

-----------------------------------------------------------------------------
(* write_log                                                                *)

Append1(c) == SetLog(Append(file, c), synced)

WriteCell(t) ==
  LET k == call[t].key
      v == call[t].val IN
  /\ pc[t] = "write"
  /\ Append1(Body(k, v)[at[t] + 1])
  /\ IF at[t] + 1 < Len(Body(k, v)) THEN at' = [at EXCEPT ![t] = @ + 1] /\ UNCHANGED <<pc, out>>
     ELSE IF v = Empty THEN Result(t, "error") /\ UNCHANGED at
     ELSE Goto(t, "sync") /\ UNCHANGED <<out, at>>
  /\ UNCHANGED <<lockVars, fd, call, crashes, failures>>

\* From here on the write()s of the call fail.
WriteFails(t) ==
  /\ pc[t] \in {"write", "end"}
  /\ Result(t, "error")
  /\ UNCHANGED <<fileVars, lockVars, fd, call, at, crashes, failures>>

\* Mutant: the end mark is written before the record is on the disk.
SyncBodySkipped(t) ==
  /\ pc[t] = "sync"
  /\ Goto(t, "end")
  /\ UNCHANGED <<fileVars, lockVars, fd, callVars, crashes, failures>>

SyncBody(t) ==
  /\ pc[t] = "sync"
  /\ SetLog(file, Len(file))
  /\ Goto(t, "end")
  /\ UNCHANGED <<lockVars, fd, callVars, crashes, failures>>

WriteEnd(t) ==
  \/ /\ pc[t] = "end"
     /\ Append1(End)
     /\ Goto(t, "end_nul")
     /\ UNCHANGED <<lockVars, fd, callVars, crashes, failures>>
  \/ /\ pc[t] = "end_nul"     \* write_str does not look whether this one fails
     /\ Append1(Nul) \/ UNCHANGED fileVars
     /\ Goto(t, "sync_end")
     /\ UNCHANGED <<lockVars, fd, callVars, crashes, failures>>

\* Mutant: success is reported before the end mark is on the disk.
SyncEndSkipped(t) ==
  /\ pc[t] = "sync_end"
  /\ out' = [out EXCEPT ![t] = "ok"]
  /\ Goto(t, "check")
  /\ UNCHANGED <<fileVars, lockVars, fd, call, at, crashes, failures>>

SyncEnd(t) ==
  /\ pc[t] = "sync_end"
  /\ SetLog(file, Len(file))
  /\ out' = [out EXCEPT ![t] = "ok"]
  /\ Goto(t, "check")
  /\ UNCHANGED <<lockVars, fd, call, at, crashes, failures>>

-----------------------------------------------------------------------------
(* Crashes                                                                  *)

\* All threads of P die; the system closes their files, and the programs are
\* started again.
Die(P) ==
  LET dead == {t \in Threads : ProcOf(t) \in P} IN
  /\ flock' = IF flock \in P THEN NoProc ELSE flock
  /\ mutex' = [p \in Procs |-> IF p \in P THEN Nobody ELSE mutex[p]]
  /\ fd' = [p \in Procs |-> IF p \in P THEN "unset" ELSE fd[p]]
  /\ pc' = [t \in Threads |-> IF t \in dead THEN "idle" ELSE pc[t]]
  /\ call' = [t \in Threads |-> IF t \in dead THEN NoCall ELSE call[t]]
  /\ out' = [t \in Threads |-> IF t \in dead THEN Pending ELSE out[t]]
  /\ at' = [t \in Threads |-> IF t \in dead THEN 0 ELSE at[t]]

\* exit in the middle of a call: may_crash, or anything like it.
Crash(p) ==
  /\ crashes < MaxCrashes /\ crashes + failures < MaxFaults
  /\ \E t \in Threads : ProcOf(t) = p /\ pc[t] # "idle"
  /\ Die({p})
  /\ crashes' = crashes + 1
  /\ UNCHANGED <<fileVars, failures>>

\* What a power failure may make garbage of: nothing, or a stretch of what was
\* written since the last sync().
Stretches(s, n) == {from..to : from, to \in (s + 1)..n} \cup {{}}
Remains(f, n, garbage) == [i \in 1..n |-> [f[i] EXCEPT !.lost = @ \/ i \in garbage]]

\* A power failure: what was written since the last sync() is there in part;
\* the file may be shorter, and a stretch of it may be garbage.
PowerFailure ==
  /\ failures < MaxFailures /\ crashes + failures < MaxFaults
  /\ failures' = failures + 1
  /\ Die(Procs)
  /\ \E n \in synced..Len(file) : \E garbage \in Stretches(synced, n) :
       SetLog(Remains(file, n, garbage), n)
  /\ UNCHANGED crashes

-----------------------------------------------------------------------------

ThreadStep(t) ==
  \/ Enter(t) \/ OpenFails(t) \/ Flock(t) \/ Return(t)
  \/ CrashCheck(t) \/ Repair(t) \/ Truncate(t) \/ TestEmpty(t) \/ Walk(t)
  \/ WriteCell(t) \/ WriteFails(t) \/ SyncBody(t) \/ WriteEnd(t) \/ SyncEnd(t)

Next ==
  \/ \E t \in Threads : ThreadStep(t) \/ \E c \in Calls : CallLibrary(t, c)
  \/ \E p \in Procs : Crash(p)
  \/ PowerFailure

Spec == Init /\ [][Next]_vars

\* A thread in the library goes on; both locks are given to a thread that
\* waits while they are free again and again.
Fairness == \A t \in Threads :
  /\ WF_vars(ThreadStep(t))
  /\ SF_vars(Enter(t) \/ OpenFails(t)) /\ SF_vars(Flock(t))

FairSpec == Spec /\ Fairness

-----------------------------------------------------------------------------
(* Properties                                                               *)

TypeOK ==
  /\ \A i \in DOMAIN file : file[i] \in [is : {"key", "val", "len1", "len2", "nul", "end"},
                                         of : Keys \cup Values \cup {""}, lost : BOOLEAN]
  /\ synced \in 0..Len(file)
  /\ flock \in Procs \cup {NoProc}
  /\ mutex \in [Procs -> Threads \cup {Nobody}]
  /\ fd \in [Procs -> {"unset", "open", "closed"}]
  /\ pc \in [Threads -> PCs]
  /\ call \in [Threads -> Calls]
  /\ out \in [Threads -> Values \cup {Pending, "ok", "error", None}]
  /\ \A t \in Threads : at[t] \in -1..(Len(file) + 10)

\* libkvdb implements the map: every step of every thread, crash, repair and
\* power failure is a put of one key, a flush, a failure, or changes nothing.
AM == INSTANCE AbsMap
ImplementsAbsMap == AM!AbsSpec

\* No record that recovery keeps is torn or half lost (write_log syncs the
\* record before it writes the end mark).
NoTornRecord == \A i \in Ends(file) : Whole(file, i)

\* The log and the state of the library have the forms above at every moment,
\* and the log only complete records.
LogInv == TypeOK /\ NoTornRecord

\* A call returns what it found or did: a get the value of its key, a put that
\* reports success has its value in the map.
Answers ==
  \A t \in Threads : pc[t] = "return" /\ flock = ProcOf(t) =>
    /\ call[t].op = "get" => out[t] = map[call[t].key]
    /\ call[t].op = "put" /\ out[t] = "ok" => map[call[t].key] = call[t].val

\* A put that reports success survives a power failure.
AckedIsDurable ==
  \A t \in Threads : pc[t] = "return" /\ call[t].op = "put" /\ out[t] = "ok" =>
    stable[call[t].key] = call[t].val
\* It holds as long as no process has died in the library: see lockless_put.
AckedIsDurableUnlessCrash == crashes = 0 => AckedIsDurable

\* One thread at a time works on the log, whichever process it belongs to.
Working == PCs \ {"idle", "enter", "flock", "return"}
OneWorker ==
  \A t, u \in Threads : pc[t] \in Working /\ pc[u] \in Working => t = u

\* kvdb.c:332: kvdb_get returns NULL for a key that was never put.
MissingKeyIsNull ==
  \A t \in Threads : pc[t] = "return" /\ call[t].op = "get" /\ out[t] # None =>
    \E i \in Ends(file) : KeyAt(file, i) = call[t].key

\* Every call returns (or its process dies), if no open fails: kvdb_open returns from
\* a failing one with the mutex locked (kvdb.c:95), and with OpenMayFail this is false.
EveryCallReturns == \A t \in Threads : pc[t] = "enter" ~> pc[t] = "idle"
=============================================================================
