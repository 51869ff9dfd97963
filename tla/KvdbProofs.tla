----------------------------- MODULE KvdbProofs -----------------------------
(***************************************************************************)
(* Machine-checked proofs about Kvdb, for every number of processes,       *)
(* threads, keys and values, every length of the log, and any number of    *)
(* crashes and power failures.                                             *)
(*                                                                         *)
(* Everything rests on one thread working on the log at a time (the mutex  *)
(* of its process and the lock on the file) and on the shape the log has   *)
(* at every moment: whole records of ten cells, one behind the other, of   *)
(* which at most the last end mark is not on the disk; before them at most *)
(* a stump that recovery does not see, behind them what is being written.  *)
(***************************************************************************)
EXTENDS Kvdb, DataLemmas

CellKinds == {"key", "val", "len1", "len2", "nul", "end"}
LogCell ==
  {c \in [is : CellKinds, of : Keys \cup Values \cup {""}, lost : BOOLEAN] :
     /\ c.is = "key" => c.of \in Keys
     /\ c.is = "val" => c.of \in Values
     /\ c.is = "end" => c.of = ""}

KvTyped ==
  /\ file \in Seq(LogCell) /\ synced \in 0..Len(file)
  /\ flock \in Procs \cup {NoProc}
  /\ mutex \in [Procs -> Threads \cup {Nobody}]
  /\ fd \in [Procs -> {"unset", "open", "closed"}]
  /\ pc \in [Threads -> PCs]
  /\ call \in [Threads -> Calls]
  /\ out \in [Threads -> Values \cup {Pending, "ok", "error", None}]
  /\ at \in [Threads -> Int]
  /\ crashes \in Nat

\* Who is in the library has the mutex of its process; who works on the log, the
\* lock on the file, which is locked for nobody else.
LockInv ==
  /\ \A t \in Threads : pc[t] \notin {"idle", "enter"} => mutex[ProcOf(t)] = t
  /\ \A t \in Threads : pc[t] \in Working => flock = ProcOf(t)
  /\ flock # NoProc => \E t \in Threads : ProcOf(t) = flock /\ pc[t] \in Working \cup {"return"}

\* The end marks of f, of which n cells are on the disk: behind whole records,
\* which were on the disk before the mark, and ten cells apart; only the first
\* record may have something before it.
GoodLog(f, n) ==
  \A i \in Ends(f) :
    /\ Whole(f, i) /\ i - 1 <= n
    /\ \A d \in Ends(f) : d < i => d <= i - 10
    /\ LongEnough(SubSeq(f, 1, i - 9)) => i - 10 \in Ends(f)

MapsAre == map = Contents(file) /\ stable = Contents(SubSeq(file, 1, synced))

\* The first n cells of a record are at the end of the log.
Written(f, n, k, v) == n <= Len(f) /\ \A j \in 1..n : f[Len(f) - n + j] = Body(k, v)[j]

\* Behind the first s cells a record may start.
Start(f, s) ==
  \/ ~LongEnough(SubSeq(f, 1, s)) /\ Ends(f) = {}
  \/ s - 1 \in Ends(f) /\ \A i \in Ends(f) : i <= s - 1

\* Where the loop of lockless_get is: no later record has the key.
Seeks(f, a, k) ==
  \/ a < 9 /\ Ends(f) = {}
  \/ a \in Ends(f) /\ \A i \in Ends(f) : i > a => KeyAt(f, i) # k

Recovery == {"check", "repair", "truncate"}

\* What a thread with call c, result o and counter a relies on at a label, while
\* it works on the log f, of which n cells are on the disk and which says m.
Local(label, c, o, a, f, n, m) ==
  /\ c.op \in {"open", "get", "put"}
  /\ label = "test" => c.op # "open" /\ o = Pending /\ a = 0
  /\ label \in Recovery => a \in 0..7 /\ (o = Pending \/ (c.op = "put" /\ o = "ok" /\ m[c.key] = c.val))
  /\ label = "truncate" => Ends(f) # {} /\ \A i \in Ends(f) : i < Len(f)
  /\ label = "walk" => /\ c.op # "open" /\ o = Pending /\ Clean(f)
                       /\ a \in -1..Len(f) /\ Seeks(f, a, c.key)
  /\ label = "write" => /\ c.op = "put" /\ o = Pending /\ a \in 0..(Len(Body(c.key, c.val)) - 1)
                        /\ Written(f, a, c.key, c.val) /\ Start(f, Len(f) - a)
  /\ label \in {"sync", "end"} => /\ c.op = "put" /\ o = Pending /\ c.val # Empty /\ a \in 0..7
                                  /\ Written(f, 8, c.key, c.val) /\ Start(f, Len(f) - 8)
  /\ label = "end" => n = Len(f)
  /\ label \in {"end_nul", "sync_end"} => c.op = "put" /\ o = Pending /\ m[c.key] = c.val /\ a \in 0..7
  /\ label = "return" => /\ a \in -1..(Len(f) + 10)
                         /\ c.op = "get" => o = m[c.key]
                         /\ c.op = "put" /\ o = "ok" => m[c.key] = c.val

\* What holds of a thread that does not.
Quiet(label, c, o, a) ==
  /\ a = 0
  /\ label \in {"idle", "enter", "flock"} => o = Pending
  /\ label = "idle" => c = NoCall
  /\ label # "idle" => c.op # "none"
  /\ label = "flock" => c.op \in {"open", "get", "put"}
  /\ label = "return" /\ c.op = "put" => o # "ok"

Holder(t) == pc[t] \in Working \/ (pc[t] = "return" /\ flock = ProcOf(t))

ThreadsInv ==
  \A t \in Threads : /\ Holder(t) => Local(pc[t], call[t], out[t], at[t], file, synced, map)
                     /\ ~Holder(t) => Quiet(pc[t], call[t], out[t], at[t])

\* As long as no process died, all that the log says is on the disk, but for the
\* put that has just written its end mark.
Flushed ==
  crashes = 0 /\ (\A t \in Threads : pc[t] \notin {"end_nul", "sync_end"}) => stable = map

KvInv == KvTyped /\ LockInv /\ GoodLog(file, synced) /\ MapsAre /\ ThreadsInv /\ Flushed

-----------------------------------------------------------------------------
(* The log.                                                                 *)

LEMMA EndsAre ==
  ASSUME NEW f \in Seq(LogCell)
  PROVE  /\ Len(f) \in Nat /\ Ends(f) \in SUBSET (1..Len(f)) /\ Ends(f) \in SUBSET Nat
         /\ \A i \in 1..Len(f) : f[i] \in LogCell /\ (i \in Ends(f) <=> f[i] = End)
<1>1. Len(f) \in Nat /\ DOMAIN f = 1..Len(f) /\ \A i \in 1..Len(f) : f[i] \in LogCell
  BY LenProperties, ElementOfSeq
<1>2. \A i \in 1..Len(f) : i \in Ends(f) <=> f[i] = End
  <2> TAKE i \in 1..Len(f)
  <2>1. i \in Ends(f) <=> f[i].is = "end" /\ ~f[i].lost BY <1>1 DEF Ends
  <2>2. f[i].is = "end" /\ ~f[i].lost => f[i] = End BY <1>1 DEF LogCell, End, Cell
  <2>4. End.is = "end" /\ ~End.lost BY DEF End, Cell
  <2>3. f[i] = End => f[i].is = "end" /\ ~f[i].lost BY <2>4
  <2> QED BY <2>1, <2>2, <2>3
<1>3. Ends(f) \in SUBSET (1..Len(f)) BY <1>1 DEF Ends
<1> QED BY <1>1, <1>2, <1>3

\* The first n cells.
LEMMA PrefixIs ==
  ASSUME NEW S, NEW f \in Seq(S), NEW n \in 0..Len(f)
  PROVE  /\ SubSeq(f, 1, n) \in Seq(S) /\ Len(SubSeq(f, 1, n)) = n
         /\ \A i \in 1..n : SubSeq(f, 1, n)[i] = f[i]
<1>1. PICK N \in Nat : N = Len(f) BY LenProperties
<1>2. n \in Nat /\ n <= N BY <1>1
<1>3. \A i \in 1..n : f[i] \in S BY <1>1, <1>2, ElementOfSeq
<1>4. /\ SubSeq(f, 1, n) \in Seq(S)
      /\ Len(SubSeq(f, 1, n)) = IF 1 <= n THEN n - 1 + 1 ELSE 0
      /\ \A i \in 1..(n - 1 + 1) : SubSeq(f, 1, n)[i] = f[1 + i - 1]
  BY <1>2, <1>3, SubSeqProperties
<1>5. n - 1 + 1 = n /\ (~(1 <= n) => n = 0) /\ \A i \in 1..n : 1 + i - 1 = i BY <1>2
<1> QED BY <1>4, <1>5

LEMMA SamePrefix ==
  ASSUME NEW S, NEW f \in Seq(S), NEW g \in Seq(S), NEW n \in Nat, n <= Len(f), n <= Len(g),
         \A i \in 1..n : g[i] = f[i]
  PROVE  SubSeq(g, 1, n) = SubSeq(f, 1, n)
<1>1. n \in 0..Len(f) /\ n \in 0..Len(g) BY LenProperties
<1>2. /\ SubSeq(f, 1, n) \in Seq(S) /\ Len(SubSeq(f, 1, n)) = n
      /\ \A i \in 1..n : SubSeq(f, 1, n)[i] = f[i]
  BY <1>1, PrefixIs
<1>3. /\ SubSeq(g, 1, n) \in Seq(S) /\ Len(SubSeq(g, 1, n)) = n
      /\ \A i \in 1..n : SubSeq(g, 1, n)[i] = g[i]
  BY <1>1, PrefixIs
<1> QED BY <1>2, <1>3, SeqEqual

\* The record that ends at cell i is made of the eight cells before.
LEMMA RecordsAgree ==
  ASSUME NEW f, NEW g, NEW i \in Int, i > 8, \A c \in (i - 8)..(i - 1) : g[c] = f[c]
  PROVE  (Whole(g, i) <=> Whole(f, i)) /\ KeyAt(g, i) = KeyAt(f, i) /\ ValueAt(g, i) = ValueAt(f, i)
<1>1. \A j \in 1..8 : i - 9 + j \in (i - 8)..(i - 1) OBVIOUS
<1>2. i - 8 \in (i - 8)..(i - 1) /\ i - 6 \in (i - 8)..(i - 1) OBVIOUS
<1>3. \A j \in 1..8 : g[i - 9 + j] = f[i - 9 + j] BY <1>1
<1>4. g[i - 8] = f[i - 8] /\ g[i - 6] = f[i - 6] BY <1>2
<1>5. Whole(g, i) <=> Whole(f, i) BY <1>3 DEF Whole
<1> QED BY <1>4, <1>5 DEF KeyAt, ValueAt

\* The record that tells what k maps to: the latest one of k, or, if there is
\* none, the oldest one.
Latest(f, k, i) == i \in Ends(f) /\ KeyAt(f, i) = k /\ \A d \in Ends(f) : d > i => KeyAt(f, d) # k
Oldest(f, k, i) == i \in Ends(f) /\ \A d \in Ends(f) : i <= d /\ KeyAt(f, d) # k

LEMMA ContentsIs ==
  ASSUME NEW f \in Seq(LogCell), NEW k \in Keys
  PROVE  /\ Ends(f) = {} => Contents(f)[k] = None
         /\ \A i \in Ends(f) : Latest(f, k, i) \/ Oldest(f, k, i) => Contents(f)[k] = ValueAt(f, i)
<1> DEFINE mine == {i \in Ends(f) : KeyAt(f, i) = k}
<1>1. Contents(f)[k] = IF Ends(f) = {} THEN None
                       ELSE ValueAt(f, IF mine # {} THEN Max(mine) ELSE Min(Ends(f)))
  BY DEF Contents
<1>2. Ends(f) \in SUBSET Nat BY EndsAre
<1>3. ASSUME NEW i \in Ends(f), Latest(f, k, i) PROVE Contents(f)[k] = ValueAt(f, i)
  <2>1. i \in mine /\ mine \in SUBSET Nat /\ \A d \in mine : d <= i BY <1>2, <1>3 DEF Latest
  <2> HIDE DEF mine
  <2>2. Max(mine) = i BY <2>1, MaxIs
  <2> QED BY <1>1, <2>1, <2>2
<1>4. ASSUME NEW i \in Ends(f), Oldest(f, k, i) PROVE Contents(f)[k] = ValueAt(f, i)
  <2>1. mine = {} BY <1>4 DEF Oldest
  <2>2. \A d \in Ends(f) : i <= d BY <1>4 DEF Oldest
  <2>3. Min(Ends(f)) = i
    <3>1. \A x \in Ends(f) : (\A y \in Ends(f) : x <= y) => x = i BY <1>2, <2>2
    <3> QED BY <2>2, <3>1 DEF Min
  <2> HIDE DEF mine
  <2> QED BY <1>1, <2>1, <2>3
<1> QED BY <1>1, <1>3, <1>4

LEMMA RecordExists ==
  ASSUME NEW f \in Seq(LogCell), NEW k, Ends(f) # {}
  PROVE  \E i \in Ends(f) : Latest(f, k, i) \/ Oldest(f, k, i)
<1> DEFINE mine == {i \in Ends(f) : KeyAt(f, i) = k}
<1>1. Ends(f) \in SUBSET Nat /\ Len(f) \in Nat /\ \A i \in Ends(f) : i <= Len(f) BY EndsAre
<1>2. mine \in SUBSET Nat /\ \A i \in mine : i <= Len(f) BY <1>1
<1>3. CASE mine # {}
  <2>1. mine \in SUBSET Ends(f) /\ \A d \in Ends(f) : d \in mine <=> KeyAt(f, d) = k OBVIOUS
  <2> HIDE DEF mine
  <2>2. PICK i \in mine : \A d \in mine : d <= i BY <1>1, <1>2, <1>3, LargestExists
  <2>3. Latest(f, k, i) BY <1>1, <2>1, <2>2 DEF Latest
  <2> QED BY <2>1, <2>3
<1>4. CASE mine = {}
  <2>1. PICK i \in Ends(f) : \A d \in Ends(f) : i <= d BY <1>1, SmallestExists
  <2>2. Oldest(f, k, i) BY <1>4, <2>1 DEF Oldest
  <2> QED BY <2>2
<1> QED BY <1>3, <1>4

\* g and f agree in their first a cells.
Agree(f, g, a) == a <= Len(f) /\ a <= Len(g) /\ \A i \in 1..a : g[i] = f[i]

\* What was written over, cut off, appended or lost of a log leaves the rest as
\* it was, if it makes no end marks and spares the cells before those that are left.
LEMMA LogKept ==
  ASSUME NEW f \in Seq(LogCell), NEW g \in Seq(LogCell), NEW s \in Nat, NEW r \in Nat, NEW a \in Nat,
         GoodLog(f, s), Agree(f, g, a), Ends(g) \in SUBSET Ends(f),
         \A i \in Ends(g) : i - 1 <= a /\ i - 1 <= r
  PROVE  GoodLog(g, r) /\ \A i \in Ends(g) : KeyAt(g, i) = KeyAt(f, i) /\ ValueAt(g, i) = ValueAt(f, i)
<1>1. Len(f) \in Nat /\ Len(g) \in Nat /\ Ends(f) \in SUBSET Nat BY EndsAre
<1>2. ASSUME NEW i \in Ends(g)
      PROVE  /\ i \in Nat /\ i > 8 /\ Whole(g, i)
             /\ KeyAt(g, i) = KeyAt(f, i) /\ ValueAt(g, i) = ValueAt(f, i)
  <2>1. i \in Ends(f) /\ i \in Nat /\ i - 1 <= a BY <1>1
  <2>2. Whole(f, i) BY <2>1 DEF GoodLog
  <2>3. i > 8 BY <2>2 DEF Whole
  <2>4. \A c \in (i - 8)..(i - 1) : c \in 1..a BY <2>1, <2>3
  <2>5. \A c \in (i - 8)..(i - 1) : g[c] = f[c] BY <2>4 DEF Agree
  <2>6. (Whole(g, i) <=> Whole(f, i)) /\ KeyAt(g, i) = KeyAt(f, i) /\ ValueAt(g, i) = ValueAt(f, i)
    BY <2>1, <2>3, <2>5, RecordsAgree
  <2> QED BY <2>1, <2>2, <2>3, <2>6
<1>3. ASSUME NEW i \in Ends(g), LongEnough(SubSeq(g, 1, i - 9)) PROVE i - 10 \in Ends(g)
  <2>1. i \in Nat /\ i > 8 /\ i - 1 <= a /\ i \in Ends(f) BY <1>2
  <2>2. i - 9 \in Nat /\ i - 9 <= Len(f) /\ i - 9 <= Len(g) /\ \A c \in 1..(i - 9) : c \in 1..a
    BY <1>1, <2>1 DEF Agree
  <2>3. \A c \in 1..(i - 9) : g[c] = f[c] BY <2>2 DEF Agree
  <2>4. SubSeq(g, 1, i - 9) = SubSeq(f, 1, i - 9) BY <2>2, <2>3, SamePrefix
  <2>5. i - 10 \in Ends(f) BY <1>3, <2>1, <2>4 DEF GoodLog
  <2>6. i - 10 \in 1..Len(f) BY <2>5, EndsAre
  <2>7. i - 10 \in 1..a /\ i - 10 \in 1..Len(g) BY <1>1, <2>1, <2>6 DEF Agree
  <2>8. g[i - 10] = f[i - 10] /\ f[i - 10] = End BY <2>5, <2>6, <2>7, EndsAre DEF Agree
  <2> QED BY <2>7, <2>8, EndsAre
<1>4. \A i, d \in Ends(g) : d < i => d <= i - 10 BY DEF GoodLog
<1> QED BY <1>2, <1>3, <1>4 DEF GoodLog

\* With the same end marks it says the same.
LEMMA SameContents ==
  ASSUME NEW f \in Seq(LogCell), NEW g \in Seq(LogCell), NEW s \in Nat, NEW a \in Nat,
         GoodLog(f, s), Agree(f, g, a), Ends(g) = Ends(f), \A i \in Ends(g) : i - 1 <= a
  PROVE  Contents(g) = Contents(f)
<1>1. Ends(f) \in SUBSET Nat BY EndsAre
<1>2. \A i \in Ends(g) : KeyAt(g, i) = KeyAt(f, i) /\ ValueAt(g, i) = ValueAt(f, i)
  <2>1. \A i \in Ends(g) : i - 1 <= s BY DEF GoodLog
  <2> QED BY <2>1, LogKept
<1>3. \A k \in Keys : Contents(g)[k] = Contents(f)[k]
  <2> TAKE k \in Keys
  <2>1. CASE Ends(f) = {} BY <2>1, ContentsIs
  <2>2. CASE Ends(f) # {}
    <3>1. PICK i \in Ends(f) : Latest(f, k, i) \/ Oldest(f, k, i) BY <2>2, RecordExists
    <3>2. Latest(f, k, i) => Latest(g, k, i) BY <1>2 DEF Latest
    <3>3. Oldest(f, k, i) => Oldest(g, k, i) BY <1>2 DEF Oldest
    <3>4. Contents(f)[k] = ValueAt(f, i) BY <3>1, ContentsIs
    <3>5. Contents(g)[k] = ValueAt(g, i) BY <3>1, <3>2, <3>3, ContentsIs
    <3> QED BY <1>2, <3>4, <3>5
  <2> QED BY <2>1, <2>2
<1>4. Contents(f) = [k \in Keys |-> Contents(f)[k]] /\ Contents(g) = [k \in Keys |-> Contents(g)[k]]
  BY DEF Contents
<1> QED BY <1>3, <1>4

\* What is on the disk says as much as the log, if all its end marks are there.
LEMMA AllOnDisk ==
  ASSUME NEW f \in Seq(LogCell), NEW s \in Nat, GoodLog(f, s), NEW r \in 0..Len(f),
         \A i \in Ends(f) : i <= r
  PROVE  Contents(SubSeq(f, 1, r)) = Contents(f)
<1>1. PICK p \in Seq(LogCell) : p = SubSeq(f, 1, r) /\ Len(p) = r /\ \A i \in 1..r : p[i] = f[i]
  BY PrefixIs, ZenonT(30)
<1>2. Len(f) \in Nat /\ r \in Nat /\ r <= Len(f) BY LenProperties
<1>3. Agree(f, p, r) BY <1>1, <1>2 DEF Agree
<1>4. \A i \in 1..r : i \in Ends(p) <=> i \in Ends(f)
  <2> TAKE i \in 1..r
  <2>1. i \in 1..Len(f) /\ i \in 1..Len(p) BY <1>1, <1>2
  <2> QED BY <1>1, <2>1, EndsAre
<1>5. Ends(p) \in SUBSET (1..r) /\ Ends(f) \in SUBSET (1..r)
  <2>1. Ends(p) \in SUBSET (1..r) BY <1>1, EndsAre
  <2>2. Ends(f) \in SUBSET (1..Len(f)) BY EndsAre
  <2> QED BY <1>2, <2>1, <2>2
<1>6. Ends(p) = Ends(f) BY <1>4, <1>5
<1>7. \A i \in Ends(p) : i - 1 <= r BY <1>2, <1>5
<1>8. Contents(p) = Contents(f) BY <1>2, <1>3, <1>6, <1>7, SameContents
<1> QED BY <1>1, <1>8

\* The log g, with r cells on the disk, is as good as f with s cells.
KeptBy(f, s, g, r) ==
  /\ g \in Seq(LogCell) /\ r \in 0..Len(g) /\ GoodLog(g, r) /\ Ends(g) = Ends(f)
  /\ Contents(g) = Contents(f)
  /\ Contents(SubSeq(g, 1, r)) = Contents(SubSeq(f, 1, s))

LEMMA Kept ==
  ASSUME NEW f \in Seq(LogCell), NEW g \in Seq(LogCell), NEW s \in 0..Len(f), NEW r \in 0..Len(g),
         NEW a \in Nat, GoodLog(f, s), Agree(f, g, a), Ends(g) = Ends(f),
         \A i \in Ends(f) : i - 1 <= a /\ i - 1 <= r,
         (r = s /\ s <= a) \/ \A i \in Ends(f) : i <= s /\ i <= r
  PROVE  KeptBy(f, s, g, r)
<1>1. Len(f) \in Nat /\ Len(g) \in Nat /\ s \in Nat /\ r \in Nat BY LenProperties
<1>2. GoodLog(g, r) BY <1>1, LogKept
<1>3. Contents(g) = Contents(f) BY <1>1, SameContents
<1>4. Contents(SubSeq(g, 1, r)) = Contents(SubSeq(f, 1, s))
  <2>1. CASE r = s /\ s <= a
    <3>1. s <= Len(f) /\ s <= Len(g) /\ \A i \in 1..s : i \in 1..a BY <1>1, <2>1
    <3>2. \A i \in 1..s : g[i] = f[i] BY <3>1 DEF Agree
    <3>3. SubSeq(g, 1, s) = SubSeq(f, 1, s) BY <1>1, <3>1, <3>2, SamePrefix
    <3> QED BY <2>1, <3>3
  <2>2. CASE \A i \in Ends(f) : i <= s /\ i <= r
    <3>1. Contents(SubSeq(f, 1, s)) = Contents(f) BY <1>1, <2>2, AllOnDisk
    <3>2. Contents(SubSeq(g, 1, r)) = Contents(g) BY <1>1, <1>2, <2>2, AllOnDisk
    <3> QED BY <1>3, <3>1, <3>2
  <2> QED BY <2>1, <2>2
<1> QED BY <1>2, <1>3, <1>4 DEF KeptBy

LEMMA AppendAgrees ==
  ASSUME NEW f \in Seq(LogCell), NEW c \in LogCell
  PROVE  /\ Append(f, c) \in Seq(LogCell) /\ Len(Append(f, c)) = Len(f) + 1 /\ Len(f) \in Nat
         /\ Agree(f, Append(f, c), Len(f)) /\ Append(f, c)[Len(f) + 1] = c
         /\ c # End => Ends(Append(f, c)) = Ends(f)
         /\ c = End => Ends(Append(f, c)) = Ends(f) \cup {Len(f) + 1}
<1>1. PICK n \in Nat : n = Len(f) BY LenProperties
<1>2. PICK g \in Seq(LogCell) : g = Append(f, c) /\ Len(g) = n + 1 /\ g[n + 1] = c /\ \A i \in 1..n : g[i] = f[i]
  <2>1. /\ Append(f, c) \in Seq(LogCell) /\ Len(Append(f, c)) = Len(f) + 1
        /\ \A i \in 1..Len(f) : Append(f, c)[i] = f[i]
        /\ Append(f, c)[Len(f) + 1] = c
    BY AppendProperties
  <2> QED BY <1>1, <2>1
<1>3. Agree(f, g, n) BY <1>1, <1>2 DEF Agree
<1>4. Ends(f) \in SUBSET (1..n) /\ Ends(g) \in SUBSET (1..(n + 1)) BY <1>1, <1>2, EndsAre
<1>5. \A i \in 1..n : i \in Ends(g) <=> i \in Ends(f)
  <2> TAKE i \in 1..n
  <2>1. i \in 1..Len(f) /\ i \in 1..Len(g) BY <1>1, <1>2
  <2> QED BY <1>2, <2>1, EndsAre
<1>6. n + 1 \in Ends(g) <=> c = End
  <2>1. n + 1 \in 1..Len(g) BY <1>2
  <2> QED BY <1>2, <2>1, EndsAre
<1>7. \A i \in 1..(n + 1) : i \in 1..n \/ i = n + 1 OBVIOUS
<1>8. n + 1 \notin Ends(f) BY <1>4
<1>9. c # End => Ends(g) = Ends(f) BY <1>4, <1>5, <1>6, <1>7, <1>8
<1>10. c = End => Ends(g) = Ends(f) \cup {n + 1} BY <1>4, <1>5, <1>6, <1>7, <1>8
<1> QED BY <1>1, <1>2, <1>3, <1>9, <1>10

\* write_log, before the end mark, and the \0 behind it.
LEMMA AppendKeeps ==
  ASSUME NEW f \in Seq(LogCell), NEW s \in 0..Len(f), GoodLog(f, s), NEW c \in LogCell, c # End
  PROVE  KeptBy(f, s, Append(f, c), s)
<1>1. PICK n \in Nat : n = Len(f) BY LenProperties
<1>2. PICK g \in Seq(LogCell) : g = Append(f, c) /\ Len(g) = n + 1 /\ Agree(f, g, n) /\ Ends(g) = Ends(f)
  BY <1>1, AppendAgrees
<1>3. s \in Nat /\ s <= n /\ s \in 0..Len(g) BY <1>1, <1>2
<1>4. \A i \in Ends(f) : i - 1 <= n /\ i - 1 <= s
  <2> TAKE i \in Ends(f)
  <2>1. i \in Nat BY EndsAre
  <2>2. i - 1 <= s BY DEF GoodLog
  <2> QED BY <1>3, <2>1, <2>2
<1>5. KeptBy(f, s, g, s) BY <1>2, <1>3, <1>4, Kept
<1> QED BY <1>2, <1>5

\* What a log says is a value for each key, or nothing.
LEMMA ContentsTyped ==
  ASSUME NEW f \in Seq(LogCell), NEW s \in Nat, GoodLog(f, s)
  PROVE  /\ Contents(f) \in [Keys -> Values \cup {None}]
         /\ \A i \in Ends(f) : i > 8 /\ KeyAt(f, i) \in Keys /\ ValueAt(f, i) \in Values
<1>1. ASSUME NEW i \in Ends(f) PROVE i > 8 /\ KeyAt(f, i) \in Keys /\ ValueAt(f, i) \in Values
  <2>1. Whole(f, i) /\ i \in Nat /\ i \in 1..Len(f) /\ Len(f) \in Nat BY EndsAre DEF GoodLog
  <2>2. i > 8 /\ \A j \in 1..8 : f[i - 9 + j].is = Kinds[j] BY <2>1 DEF Whole
  <2>3. 1 \in 1..8 /\ 3 \in 1..8 /\ Kinds[1] = "key" /\ Kinds[3] = "val" BY DEF Kinds
  <2>4. i - 8 \in 1..Len(f) /\ i - 6 \in 1..Len(f) /\ i - 9 + 1 = i - 8 /\ i - 9 + 3 = i - 6
    <3>1. PICK n \in Nat : n = Len(f) BY <2>1
    <3>2. i \in Nat /\ i <= n /\ i > 8 BY <2>1, <2>2, <3>1
    <3> QED BY <3>1, <3>2
  <2>5. f[i - 8] \in LogCell /\ f[i - 6] \in LogCell BY <2>4, EndsAre
  <2>6. f[i - 8].is = "key" /\ f[i - 6].is = "val" BY <2>2, <2>3, <2>4
  <2>7. f[i - 8].of \in Keys /\ f[i - 6].of \in Values BY <2>5, <2>6 DEF LogCell
  <2> QED BY <2>1, <2>2, <2>7 DEF KeyAt, ValueAt
<1>2. \A k \in Keys : Contents(f)[k] \in Values \cup {None}
  <2> TAKE k \in Keys
  <2>1. CASE Ends(f) = {} BY <2>1, ContentsIs
  <2>2. CASE Ends(f) # {}
    <3>1. PICK i \in Ends(f) : Latest(f, k, i) \/ Oldest(f, k, i) BY <2>2, RecordExists
    <3>2. Contents(f)[k] = ValueAt(f, i) BY <3>1, ContentsIs
    <3> QED BY <1>1, <3>2
  <2> QED BY <2>1, <2>2
<1>3. Contents(f) = [k \in Keys |-> Contents(f)[k]] BY DEF Contents
<1> QED BY <1>1, <1>2, <1>3

LEMMA CellsAre ==
  ASSUME NEW k \in Keys, NEW v \in Values
  PROVE  /\ Cell("key", k) \in LogCell /\ Cell("key", k).is = "key" /\ Cell("key", k).of = k /\ ~Cell("key", k).lost
         /\ Cell("val", v) \in LogCell /\ Cell("val", v).is = "val" /\ Cell("val", v).of = v /\ ~Cell("val", v).lost
         /\ Cell("len1", "") \in LogCell /\ Cell("len1", "").is = "len1" /\ ~Cell("len1", "").lost
         /\ Cell("len2", "") \in LogCell /\ Cell("len2", "").is = "len2" /\ ~Cell("len2", "").lost
<1>1. Cell("key", k) \in LogCell BY DEF Cell, LogCell, CellKinds
<1>2. Cell("val", v) \in LogCell BY DEF Cell, LogCell, CellKinds
<1>3. Cell("len1", "") \in LogCell BY DEF Cell, LogCell, CellKinds
<1>4. Cell("len2", "") \in LogCell BY DEF Cell, LogCell, CellKinds
<1> QED BY <1>1, <1>2, <1>3, <1>4 DEF Cell

LEMMA MarksAre ==
  /\ Nul \in LogCell /\ Nul.is = "nul" /\ ~Nul.lost
  /\ End \in LogCell /\ End.is = "end" /\ ~End.lost
<1>1. Nul \in LogCell BY DEF Nul, Cell, LogCell, CellKinds
<1>2. End \in LogCell BY DEF End, Cell, LogCell, CellKinds
<1> QED BY <1>1, <1>2 DEF Nul, End, Cell

\* Two pieces of a record, cell by cell.
LEMMA Pieces ==
  ASSUME NEW S, NEW x \in Seq(S), NEW y \in Seq(S), NEW m \in Nat, NEW n \in Nat, Len(x) = m, Len(y) = n
  PROVE  /\ x \o y \in Seq(S) /\ Len(x \o y) = m + n
         /\ \A i \in 1..m : (x \o y)[i] = x[i]
         /\ \A i \in 1..n : (x \o y)[m + i] = y[i]
<1>1. /\ x \o y \in Seq(S) /\ Len(x \o y) = m + n
      /\ \A i \in 1..(m + n) : (x \o y)[i] = IF i <= m THEN x[i] ELSE y[i - m]
  BY ConcatProperties
<1>2. \A i \in 1..n : m + i \in 1..(m + n) /\ ~(m + i <= m) /\ m + i - m = i OBVIOUS
<1>3. \A i \in 1..m : i \in 1..(m + n) /\ i <= m OBVIOUS
<1> QED BY <1>1, <1>2, <1>3

Listed8(q, a, b, c, d, e, f, g, h) ==
  /\ Len(q) = 8
  /\ q[1] = a /\ q[2] = b /\ q[3] = c /\ q[4] = d /\ q[5] = e /\ q[6] = f /\ q[7] = g /\ q[8] = h
Listed6(q, a, b, c, d, e, f) ==
  /\ Len(q) = 6
  /\ q[1] = a /\ q[2] = b /\ q[3] = c /\ q[4] = d /\ q[5] = e /\ q[6] = f

LEMMA SixCells ==
  ASSUME NEW S, NEW a \in S, NEW b \in S, NEW c \in S, NEW d \in S, NEW e \in S, NEW f \in S
  PROVE  Listed6(<<a, b>> \o <<>> \o <<c, d, e, f>>, a, b, c, d, e, f)
<1>1. PICK x \in Seq(S) : x = <<a, b>> /\ Len(x) = 2 /\ x[1] = a /\ x[2] = b
  <2>1. <<a, b>> \in Seq(S) OBVIOUS
  <2> QED BY <2>1
<1>2. PICK z \in Seq(S) : z = <<c, d, e, f>> /\ Len(z) = 4 /\ z[1] = c /\ z[2] = d /\ z[3] = e /\ z[4] = f
  <2>1. <<c, d, e, f>> \in Seq(S) OBVIOUS
  <2> QED BY <2>1
<1>3. x \o <<>> = x BY ConcatEmptySeq
<1>4. /\ Len(x \o z) = 2 + 4
      /\ \A i \in 1..2 : (x \o z)[i] = x[i]
      /\ \A i \in 1..4 : (x \o z)[2 + i] = z[i]
  BY <1>1, <1>2, Pieces
<1>5. Listed6(x \o z, a, b, c, d, e, f)
  <2>1. 1 \in 1..2 /\ 2 \in 1..2 /\ 1 \in 1..4 /\ 2 \in 1..4 /\ 3 \in 1..4 /\ 4 \in 1..4
        /\ 2 + 1 = 3 /\ 2 + 2 = 4 /\ 2 + 3 = 5 /\ 2 + 4 = 6
    OBVIOUS
  <2> QED BY <1>1, <1>2, <1>4, <2>1 DEF Listed6
<1> QED BY <1>1, <1>2, <1>3, <1>5

LEMMA TwoAndTwo ==
  ASSUME NEW S, NEW x \in Seq(S), NEW y \in Seq(S), Len(x) = 2, Len(y) = 2
  PROVE  /\ x \o y \in Seq(S) /\ Len(x \o y) = 4
         /\ (x \o y)[1] = x[1] /\ (x \o y)[2] = x[2] /\ (x \o y)[3] = y[1] /\ (x \o y)[4] = y[2]
<1>1. /\ x \o y \in Seq(S) /\ Len(x \o y) = Len(x) + Len(y)
      /\ \A i \in 1..(Len(x) + Len(y)) : (x \o y)[i] = IF i <= Len(x) THEN x[i] ELSE y[i - Len(x)]
  BY ConcatProperties
<1>2. \A i \in 1..4 : (x \o y)[i] = IF i <= 2 THEN x[i] ELSE y[i - 2] BY <1>1
<1> QED BY <1>1, <1>2

LEMMA FourAndFour ==
  ASSUME NEW S, NEW x \in Seq(S), NEW y \in Seq(S), Len(x) = 4, Len(y) = 4
  PROVE  /\ Len(x \o y) = 8
         /\ (x \o y)[1] = x[1] /\ (x \o y)[2] = x[2] /\ (x \o y)[3] = x[3] /\ (x \o y)[4] = x[4]
         /\ (x \o y)[5] = y[1] /\ (x \o y)[6] = y[2] /\ (x \o y)[7] = y[3] /\ (x \o y)[8] = y[4]
<1>1. /\ x \o y \in Seq(S) /\ Len(x \o y) = Len(x) + Len(y)
      /\ \A i \in 1..(Len(x) + Len(y)) : (x \o y)[i] = IF i <= Len(x) THEN x[i] ELSE y[i - Len(x)]
  BY ConcatProperties
<1>2. \A i \in 1..8 : (x \o y)[i] = IF i <= 4 THEN x[i] ELSE y[i - 4] BY <1>1
<1> QED BY <1>1, <1>2

LEMMA EightCells ==
  ASSUME NEW S, NEW a \in S, NEW b \in S, NEW c \in S, NEW d \in S, NEW e \in S, NEW f \in S,
         NEW g \in S, NEW h \in S
  PROVE  Listed8(<<a, b>> \o <<g, h>> \o <<c, d, e, f>>, a, b, g, h, c, d, e, f)
<1>1. PICK x \in Seq(S) : x = <<a, b>> /\ Len(x) = 2 /\ x[1] = a /\ x[2] = b
  <2>1. <<a, b>> \in Seq(S) OBVIOUS
  <2> QED BY <2>1
<1>2. PICK z \in Seq(S) : z = <<c, d, e, f>> /\ Len(z) = 4 /\ z[1] = c /\ z[2] = d /\ z[3] = e /\ z[4] = f
  <2>1. <<c, d, e, f>> \in Seq(S) OBVIOUS
  <2> QED BY <2>1
<1>3. PICK y \in Seq(S) : y = <<g, h>> /\ Len(y) = 2 /\ y[1] = g /\ y[2] = h
  <2>1. <<g, h>> \in Seq(S) OBVIOUS
  <2> QED BY <2>1
<1>4. PICK w \in Seq(S) : w = x \o y /\ Len(w) = 4 /\ w[1] = a /\ w[2] = b /\ w[3] = g /\ w[4] = h
  <2>1. Len(x) = 2 /\ Len(y) = 2 BY <1>1, <1>3
  <2>2. /\ x \o y \in Seq(S) /\ Len(x \o y) = 4
        /\ (x \o y)[1] = x[1] /\ (x \o y)[2] = x[2] /\ (x \o y)[3] = y[1] /\ (x \o y)[4] = y[2]
    BY <2>1, TwoAndTwo
  <2> QED BY <1>1, <1>3, <2>2
<1>5. Listed8(w \o z, a, b, g, h, c, d, e, f) BY <1>2, <1>4, FourAndFour, SMTT(30) DEF Listed8
<1> QED BY <1>1, <1>2, <1>3, <1>4, <1>5

LEMMA BodyIs ==
  ASSUME NEW k \in Keys, NEW v \in Values
  PROVE  /\ Len(Body(k, v)) \in 1..8
         /\ v # Empty => Listed8(Body(k, v), Cell("key", k), Nul, Cell("val", v), Nul,
                                 Cell("len1", ""), Nul, Cell("len2", ""), Nul)
         /\ \A j \in 1..Len(Body(k, v)) : Body(k, v)[j] \in LogCell /\ Body(k, v)[j] # End
<1>0. Cell("key", k) # End /\ Nul # End /\ Cell("val", v) # End /\ Cell("len1", "") # End /\ Cell("len2", "") # End
  BY CellsAre, MarksAre
<1>1. PICK a \in LogCell, b \in LogCell, c \in LogCell, d \in LogCell, e \in LogCell :
        a = Cell("key", k) /\ b = Nul /\ c = Cell("val", v) /\ d = Cell("len1", "") /\ e = Cell("len2", "")
  BY CellsAre, MarksAre
<1>2. a # End /\ b # End /\ c # End /\ d # End /\ e # End BY <1>0, <1>1
<1>3. CASE v = Empty
  <2>1. Body(k, v) = <<a, b>> \o <<>> \o <<d, b, e, b>> BY <1>1, <1>3 DEF Body
  <2>2. Listed6(Body(k, v), a, b, d, b, e, b) BY <2>1, SixCells
  <2>3. \A j \in 1..6 : j = 1 \/ j = 2 \/ j = 3 \/ j = 4 \/ j = 5 \/ j = 6 OBVIOUS
  <2>4. \A j \in 1..6 : Body(k, v)[j] \in LogCell /\ Body(k, v)[j] # End
    BY <1>2, <2>2, <2>3 DEF Listed6
  <2>5. Len(Body(k, v)) = 6 BY <2>2 DEF Listed6
  <2> QED BY <1>3, <2>4, <2>5
<1>4. CASE v # Empty
  <2>1. Body(k, v) = <<a, b>> \o <<c, b>> \o <<d, b, e, b>> BY <1>1, <1>4 DEF Body
  <2>2. Listed8(Body(k, v), a, b, c, b, d, b, e, b) BY <2>1, EightCells
  <2>3. \A j \in 1..8 : j = 1 \/ j = 2 \/ j = 3 \/ j = 4 \/ j = 5 \/ j = 6 \/ j = 7 \/ j = 8 OBVIOUS
  <2>4. \A j \in 1..8 : Body(k, v)[j] \in LogCell /\ Body(k, v)[j] # End
    BY <1>2, <2>2, <2>3 DEF Listed8
  <2>5. Len(Body(k, v)) = 8 BY <2>2 DEF Listed8
  <2>6. Listed8(Body(k, v), Cell("key", k), Nul, Cell("val", v), Nul, Cell("len1", ""), Nul, Cell("len2", ""), Nul)
    BY <1>1, <2>2
  <2>7. Len(Body(k, v)) \in 1..8 BY <2>5
  <2>8. \A j \in 1..Len(Body(k, v)) : Body(k, v)[j] \in LogCell /\ Body(k, v)[j] # End BY <2>4, <2>5
  <2> QED BY <2>6, <2>7, <2>8
<1> QED BY <1>3, <1>4

\* The end mark makes the record count: its key maps to its value, and every
\* other key that had a value keeps it.
LEMMA EndMaps ==
  ASSUME NEW f \in Seq(LogCell), NEW k \in Keys, NEW v \in Values, v # Empty,
         GoodLog(f, Len(f)), Written(f, 8, k, v), Start(f, Len(f) - 8)
  PROVE  LET g == Append(f, End) IN
         /\ g \in Seq(LogCell) /\ GoodLog(g, Len(f)) /\ SubSeq(g, 1, Len(f)) = SubSeq(f, 1, Len(f))
         /\ Contents(g)[k] = v
         /\ \A j \in Keys \ {k} : Contents(f)[j] # None => Contents(g)[j] = Contents(f)[j]
<1>1. PICK n \in Nat : n = Len(f) /\ n >= 8 BY LenProperties DEF Written
<1>2. End \in LogCell BY DEF End, Cell, LogCell, CellKinds
<1>3. PICK g \in Seq(LogCell) : /\ g = Append(f, End) /\ Len(g) = n + 1 /\ Agree(f, g, n)
                                /\ Ends(g) = Ends(f) \cup {n + 1}
  BY <1>1, <1>2, AppendAgrees
<1>4. Ends(f) \in SUBSET (1..n) BY <1>1, EndsAre
<1>5. \A i \in 1..n : g[i] = f[i] BY <1>3 DEF Agree
\* The new record.
<1>6. Whole(g, n + 1) /\ KeyAt(g, n + 1) = k /\ ValueAt(g, n + 1) = v
  <2>1. PICK b : b = Body(k, v) /\ Listed8(b, Cell("key", k), Nul, Cell("val", v), Nul,
                                           Cell("len1", ""), Nul, Cell("len2", ""), Nul)
    BY BodyIs
  <2>2. \A j \in 1..8 : f[n - 8 + j] = b[j] BY <1>1, <2>1 DEF Written
  <2>3. \A j \in 1..8 : n - 8 + j \in 1..n /\ n + 1 - 9 + j = n - 8 + j BY <1>1
  <2>4. \A j \in 1..8 : g[n + 1 - 9 + j] = b[j] BY <1>5, <2>2, <2>3
  <2>5. /\ b[1].is = "key" /\ b[2].is = "nul" /\ b[3].is = "val" /\ b[4].is = "nul"
        /\ b[5].is = "len1" /\ b[6].is = "nul" /\ b[7].is = "len2" /\ b[8].is = "nul"
        /\ ~b[1].lost /\ ~b[2].lost /\ ~b[3].lost /\ ~b[4].lost
        /\ ~b[5].lost /\ ~b[6].lost /\ ~b[7].lost /\ ~b[8].lost
        /\ b[1].of = k /\ b[3].of = v
    <3>1. /\ b[1] = Cell("key", k) /\ b[2] = Nul /\ b[3] = Cell("val", v) /\ b[4] = Nul
          /\ b[5] = Cell("len1", "") /\ b[6] = Nul /\ b[7] = Cell("len2", "") /\ b[8] = Nul
      BY <2>1 DEF Listed8
    <3>2. /\ Cell("key", k).is = "key" /\ Cell("key", k).of = k /\ ~Cell("key", k).lost
          /\ Cell("val", v).is = "val" /\ Cell("val", v).of = v /\ ~Cell("val", v).lost
          /\ Cell("len1", "").is = "len1" /\ ~Cell("len1", "").lost
          /\ Cell("len2", "").is = "len2" /\ ~Cell("len2", "").lost
          /\ Nul.is = "nul" /\ ~Nul.lost
      BY CellsAre, MarksAre
    <3> QED BY <3>1, <3>2
  <2>6. /\ Kinds[1] = "key" /\ Kinds[2] = "nul" /\ Kinds[3] = "val" /\ Kinds[4] = "nul"
        /\ Kinds[5] = "len1" /\ Kinds[6] = "nul" /\ Kinds[7] = "len2" /\ Kinds[8] = "nul"
    BY DEF Kinds
  <2>7. \A j \in 1..8 : j = 1 \/ j = 2 \/ j = 3 \/ j = 4 \/ j = 5 \/ j = 6 \/ j = 7 \/ j = 8 OBVIOUS
  <2>8. \A j \in 1..8 : b[j].is = Kinds[j] /\ ~b[j].lost BY <2>5, <2>6, <2>7
  <2>9. PICK i \in Nat : /\ i = n + 1 /\ i > 8
                         /\ i - 9 + 1 = i - 8 /\ i - 9 + 3 = i - 6 /\ 1 \in 1..8 /\ 3 \in 1..8
    BY <1>1
  <2>14. \A j \in 1..8 : g[i - 9 + j] = b[j]
    <3>1. i - 9 = n + 1 - 9 BY <2>9
    <3> QED BY <2>4, <3>1
  <2>10. \A j \in 1..8 : g[i - 9 + j].is = Kinds[j] /\ ~g[i - 9 + j].lost BY <2>8, <2>14
  <2>11. Whole(g, i) BY <2>9, <2>10 DEF Whole
  <2>12. g[i - 8].of = k /\ g[i - 6].of = v
    <3>1. g[i - 9 + 1] = b[1] /\ g[i - 9 + 3] = b[3] BY <2>9, <2>14
    <3> QED BY <2>5, <2>9, <3>1
  <2>13. KeyAt(g, i) = k /\ ValueAt(g, i) = v BY <2>9, <2>11, <2>12 DEF KeyAt, ValueAt
  <2> QED BY <2>9, <2>11, <2>13
\* The old ones.
<1>7. ASSUME NEW i \in Ends(f)
      PROVE  /\ i \in 1..n /\ i > 8 /\ Whole(g, i)
             /\ KeyAt(g, i) = KeyAt(f, i) /\ ValueAt(g, i) = ValueAt(f, i)
             /\ i <= n - 9
  <2>1. i \in 1..n /\ Whole(f, i) BY <1>4 DEF GoodLog
  <2>2. i > 8 BY <2>1 DEF Whole
  <2>3. \A c \in (i - 8)..(i - 1) : c \in 1..n BY <2>1, <2>2
  <2>4. \A c \in (i - 8)..(i - 1) : g[c] = f[c] BY <1>5, <2>3
  <2>7. i \in Int BY <2>1
  <2>5. (Whole(g, i) <=> Whole(f, i)) /\ KeyAt(g, i) = KeyAt(f, i) /\ ValueAt(g, i) = ValueAt(f, i)
    BY <2>2, <2>4, <2>7, RecordsAgree
  <2>6. i <= n - 9
    <3>1. i <= n - 8 - 1 BY <1>1 DEF Start
    <3> QED BY <1>1, <2>1, <3>1
  <2> QED BY <2>1, <2>2, <2>5, <2>6
<1>8. \A c \in Nat : c <= n => SubSeq(g, 1, c) = SubSeq(f, 1, c)
  <2> SUFFICES ASSUME NEW c \in Nat, c <= n PROVE SubSeq(g, 1, c) = SubSeq(f, 1, c) OBVIOUS
  <2>1. c <= Len(f) /\ c <= Len(g) /\ \A i \in 1..c : i \in 1..n BY <1>1, <1>3
  <2>2. \A i \in 1..c : g[i] = f[i] BY <1>5, <2>1
  <2> QED BY <2>1, <2>2, SamePrefix
<1>9. GoodLog(g, n)
  <2>1. ASSUME NEW i \in Ends(f)
        PROVE  /\ Whole(g, i) /\ i - 1 <= n /\ \A d \in Ends(g) : d < i => d <= i - 10
               /\ LongEnough(SubSeq(g, 1, i - 9)) => i - 10 \in Ends(g)
    <3>1. i \in Nat /\ i <= n /\ i > 8 /\ Whole(g, i) BY <1>7
    <3>2. i - 9 \in Nat /\ i - 9 <= n /\ i - 1 <= n BY <3>1
    <3>3. SubSeq(g, 1, i - 9) = SubSeq(f, 1, i - 9) BY <1>8, <3>2
    <3>4. LongEnough(SubSeq(g, 1, i - 9)) => i - 10 \in Ends(g) BY <1>3, <3>3 DEF GoodLog
    <3>5. \A d \in Ends(g) : d < i => d \in Ends(f) BY <1>1, <1>3, <3>1
    <3>6. \A d \in Ends(g) : d < i => d <= i - 10 BY <3>5 DEF GoodLog
    <3> QED BY <3>1, <3>2, <3>4, <3>6
  <2>2. (n + 1) - 1 <= n /\ \A d \in Ends(g) : d < n + 1 => d <= (n + 1) - 10
    <3>1. \A d \in Ends(g) : d < n + 1 => d \in Ends(f) BY <1>1, <1>3
    <3>2. \A d \in Ends(f) : d \in Nat /\ d <= n - 9 BY <1>4, <1>7
    <3>3. \A d \in Ends(f) : d <= (n + 1) - 10 BY <1>1, <3>2
    <3> QED BY <1>1, <3>1, <3>3
  <2>3. LongEnough(SubSeq(g, 1, (n + 1) - 9)) => (n + 1) - 10 \in Ends(g)
    <3>1. (n + 1) - 9 = n - 8 /\ (n + 1) - 10 = n - 8 - 1 /\ n - 8 \in Nat /\ n - 8 <= n BY <1>1
    <3>2. SubSeq(g, 1, n - 8) = SubSeq(f, 1, n - 8) BY <1>8, <3>1
    <3>3. LongEnough(SubSeq(f, 1, n - 8)) => n - 8 - 1 \in Ends(f) BY <1>1 DEF Start
    <3> QED BY <1>3, <3>1, <3>2, <3>3
  <2> QED BY <1>3, <1>6, <2>1, <2>2, <2>3 DEF GoodLog
<1>10. Contents(g)[k] = v
  <2>1. n + 1 \in Ends(g) BY <1>3
  <2>2. \A d \in Ends(g) : ~(d > n + 1) BY <1>1, <1>3, <1>4
  <2>3. Latest(g, k, n + 1) BY <1>6, <2>1, <2>2 DEF Latest
  <2> QED BY <1>6, <2>1, <2>3, ContentsIs
<1>11. ASSUME NEW j \in Keys \ {k}, Contents(f)[j] # None PROVE Contents(g)[j] = Contents(f)[j]
  <2>1. Ends(f) # {} BY <1>11, ContentsIs
  <2>2. PICK i \in Ends(f) : Latest(f, j, i) \/ Oldest(f, j, i) BY <2>1, RecordExists
  <2>3. KeyAt(g, n + 1) # j BY <1>6
  <2>4. Latest(f, j, i) => Latest(g, j, i) BY <1>3, <1>7, <2>3 DEF Latest
  <2>5. Oldest(f, j, i) => Oldest(g, j, i)
    <3>1. i <= n + 1 BY <1>1, <1>7
    <3> QED BY <1>3, <1>7, <2>3, <3>1 DEF Oldest
  <2>6. Contents(g)[j] = ValueAt(g, i) BY <1>3, <2>2, <2>4, <2>5, ContentsIs
  <2>7. Contents(f)[j] = ValueAt(f, i) BY <2>2, ContentsIs
  <2> QED BY <1>7, <2>6, <2>7
<1>12. SubSeq(g, 1, n) = SubSeq(f, 1, n) BY <1>8
<1> QED BY <1>1, <1>3, <1>9, <1>10, <1>11, <1>12

LEMMA MinIs ==
  ASSUME NEW a \in Nat, NEW b \in Nat
  PROVE  (a <= b => Min({a, b}) = a) /\ (b <= a => Min({a, b}) = b)
<1>1. ASSUME NEW m \in {a, b}, m <= a, m <= b PROVE Min({a, b}) = m
  <2>1. \A x \in {a, b} : (\A y \in {a, b} : x <= y) => x = m BY <1>1
  <2>2. \A y \in {a, b} : m <= y BY <1>1
  <2> QED BY <2>1, <2>2 DEF Min
<1> QED BY <1>1

LEMMA LastEnd ==
  ASSUME NEW f \in Seq(LogCell), Ends(f) # {}
  PROVE  \E e \in Ends(f) : e = Max(Ends(f)) /\ \A i \in Ends(f) : i <= e
<1>1. Ends(f) \in SUBSET Nat /\ Len(f) \in Nat /\ \A i \in Ends(f) : i <= Len(f) BY EndsAre
<1>2. PICK e \in Ends(f) : \A i \in Ends(f) : i <= e BY <1>1, LargestExists
<1>3. Max(Ends(f)) = e BY <1>1, <1>2, MaxIs
<1> QED BY <1>2, <1>3

\* crash_handle: up to the last end mark the log stays as it is.
LEMMA CutKeeps ==
  ASSUME NEW f \in Seq(LogCell), NEW s \in 0..Len(f), GoodLog(f, s), NEW e \in Ends(f),
         \A i \in Ends(f) : i <= e,
         NEW g \in Seq(LogCell), NEW a \in Nat, e <= a, a <= e + 1, Agree(f, g, e),
         \A i \in 1..Len(g) : i > e => g[i] # End, a <= Len(g)
  PROVE  KeptBy(f, s, g, Min({s, a}))
<1>1. PICK n \in Nat, m \in Nat : n = Len(f) /\ m = Len(g) /\ e \in 1..n /\ e <= m
  <2>1. Len(f) \in Nat /\ Len(g) \in Nat /\ e \in 1..Len(f) /\ e <= Len(g) BY EndsAre DEF Agree
  <2> QED BY <2>1
<1>2. Ends(f) \in SUBSET (1..n) /\ Ends(g) \in SUBSET (1..m) BY <1>1, EndsAre
<1>3. \A i \in 1..e : i \in Ends(g) <=> i \in Ends(f)
  <2> TAKE i \in 1..e
  <2>1. i \in 1..Len(f) /\ i \in 1..Len(g) BY <1>1
  <2>2. g[i] = f[i] BY DEF Agree
  <2> QED BY <2>1, <2>2, EndsAre
<1>4. \A i \in Ends(g) : i \in 1..e
  <2> TAKE i \in Ends(g)
  <2>1. i \in 1..Len(g) /\ g[i] = End BY EndsAre
  <2>2. ~(i > e) BY <2>1
  <2> QED BY <1>1, <2>1, <2>2
<1>5. \A i \in Ends(f) : i \in 1..e BY <1>1, <1>2
<1>6. Ends(g) = Ends(f) BY <1>3, <1>4, <1>5
<1>7. s \in Nat /\ s <= n BY <1>1
<1>8. e - 1 <= s BY DEF GoodLog
<1>9. PICK r \in Nat : r = Min({s, a}) /\ ((r = s /\ s <= a) \/ (r = a /\ a <= s))
  BY <1>7, MinIs
<1>10. r \in 0..Len(g)
  <2>1. r <= a BY <1>7, <1>9
  <2> QED BY <1>1, <2>1
<1>11. e - 1 <= r BY <1>1, <1>7, <1>8, <1>9
<1>12. \A i \in Ends(f) : i - 1 <= e /\ i - 1 <= r BY <1>1, <1>5, <1>11
<1>13. CASE s <= e
  <2>1. r = s BY <1>1, <1>7, <1>9, <1>13
  <2>2. (r = s /\ s <= e) \/ \A i \in Ends(f) : i <= s /\ i <= r BY <1>13, <2>1
  <2>3. e \in Nat BY <1>1
  <2> QED BY <1>6, <1>9, <1>10, <1>12, <2>2, <2>3, Kept
<1>14. CASE ~(s <= e)
  <2>1. e <= s /\ e <= r BY <1>1, <1>7, <1>9, <1>14
  <2>2. \A i \in Ends(f) : i <= s /\ i <= r BY <1>1, <1>5, <1>7, <2>1
  <2>3. e \in Nat BY <1>1
  <2> QED BY <1>6, <1>9, <1>10, <1>12, <2>2, <2>3, Kept
<1> QED BY <1>13, <1>14

\* A log without a record is emptied.
LEMMA EmptyKeeps ==
  ASSUME NEW f \in Seq(LogCell), NEW s \in 0..Len(f), GoodLog(f, s), Ends(f) = {}
  PROVE  KeptBy(f, s, <<>>, 0)
<1>1. <<>> \in Seq(LogCell) /\ Len(<<>>) = 0 OBVIOUS
<1>2. Ends(<<>>) = {}
  <2>1. Ends(<<>>) \in SUBSET (1..0) BY <1>1, EndsAre
  <2> QED BY <2>1
<1>3. Agree(f, <<>>, 0)
  <2>1. Len(f) \in Nat BY LenProperties
  <2> QED BY <1>1, <2>1 DEF Agree
<1>4. 0 \in 0..Len(<<>>) /\ 0 \in Nat BY <1>1
<1> QED BY <1>1, <1>2, <1>3, <1>4, Kept

\* The log that is repaired.
LEMMA RepairedIs ==
  ASSUME NEW f \in Seq(LogCell), NEW e \in 1..Len(f)
  PROVE  LET g == SubSeq(f, 1, e) \o <<Nul>> \o SubSeq(f, e + 2, Len(f)) IN
         /\ g \in Seq(LogCell) /\ Len(g) > e /\ Agree(f, g, e)
         /\ \A i \in 1..Len(g) : i > e => g[i] = Nul \/ (i <= Len(f) /\ g[i] = f[i])
<1>1. PICK n \in Nat : n = Len(f) /\ e <= n BY LenProperties
<1>2. PICK x \in Seq(LogCell) : x = SubSeq(f, 1, e) /\ Len(x) = e /\ \A i \in 1..e : x[i] = f[i]
  <2>1. e \in 0..Len(f) BY <1>1
  <2>2. /\ SubSeq(f, 1, e) \in Seq(LogCell) /\ Len(SubSeq(f, 1, e)) = e
        /\ \A i \in 1..e : SubSeq(f, 1, e)[i] = f[i]
    BY <2>1, PrefixIs
  <2> QED BY <2>2
<1>3. PICK y \in Seq(LogCell) : y = <<Nul>> /\ Len(y) = 1 /\ y[1] = Nul
  <2>1. <<Nul>> \in Seq(LogCell) BY MarksAre
  <2> QED BY <2>1
<1>4. PICK w \in Seq(LogCell) : w = x \o y /\ Len(w) = e + 1
                                /\ \A i \in 1..(e + 1) : w[i] = IF i <= e THEN x[i] ELSE y[i - e]
  <2>1. /\ x \o y \in Seq(LogCell) /\ Len(x \o y) = Len(x) + Len(y)
        /\ \A i \in 1..(Len(x) + Len(y)) : (x \o y)[i] = IF i <= Len(x) THEN x[i] ELSE y[i - Len(x)]
    BY ConcatProperties
  <2>2. Len(x) = e /\ Len(y) = 1 BY <1>2, <1>3
  <2>3. /\ x \o y \in Seq(LogCell) /\ Len(x \o y) = e + 1
        /\ \A i \in 1..(e + 1) : (x \o y)[i] = IF i <= e THEN x[i] ELSE y[i - e]
    BY <2>1, <2>2
  <2> QED BY <2>3
<1>5. (\A i \in 1..e : w[i] = f[i]) /\ w[e + 1] = Nul
  <2>1. ASSUME NEW i \in 1..e PROVE w[i] = f[i]
    <3>1. i \in 1..(e + 1) /\ i <= e OBVIOUS
    <3>2. w[i] = x[i] BY <1>4, <3>1
    <3> QED BY <1>2, <3>2
  <2>2. e + 1 \in 1..(e + 1) /\ ~(e + 1 <= e) /\ e + 1 - e = 1 OBVIOUS
  <2>3. w[e + 1] = y[e + 1 - e] BY <1>4, <2>2
  <2>4. w[e + 1] = Nul BY <1>3, <2>2, <2>3
  <2> QED BY <2>1, <2>4
<1>6. PICK z \in Seq(LogCell) : /\ z = SubSeq(f, e + 2, n)
                                /\ Len(z) = IF e + 2 <= n THEN n - (e + 2) + 1 ELSE 0
                                /\ \A i \in 1..(n - (e + 2) + 1) : z[i] = f[e + 2 + i - 1]
  <2>1. e + 2 \in Int /\ n \in Int OBVIOUS
  <2>2. \A i \in (e + 2)..n : f[i] \in LogCell BY <1>1, ElementOfSeq
  <2>3. /\ SubSeq(f, e + 2, n) \in Seq(LogCell)
        /\ Len(SubSeq(f, e + 2, n)) = IF e + 2 <= n THEN n - (e + 2) + 1 ELSE 0
        /\ \A i \in 1..(n - (e + 2) + 1) : SubSeq(f, e + 2, n)[i] = f[e + 2 + i - 1]
    BY <2>1, <2>2, SubSeqProperties
  <2> QED BY <2>3
<1>7. PICK l \in Nat : l = Len(z) /\ (l > 0 => l = n - e - 1)
  <2>1. Len(z) \in Nat BY LenProperties
  <2>2. Len(z) > 0 => Len(z) = n - e - 1 BY <1>1, <1>6
  <2> QED BY <2>1, <2>2
<1>8. PICK g \in Seq(LogCell) : g = w \o z /\ Len(g) = e + 1 + l
                                /\ \A i \in 1..(e + 1 + l) : g[i] = IF i <= e + 1 THEN w[i] ELSE z[i - (e + 1)]
  <2>1. /\ w \o z \in Seq(LogCell) /\ Len(w \o z) = Len(w) + Len(z)
        /\ \A i \in 1..(Len(w) + Len(z)) : (w \o z)[i] = IF i <= Len(w) THEN w[i] ELSE z[i - Len(w)]
    BY ConcatProperties
  <2>2. Len(w) = e + 1 /\ Len(z) = l BY <1>4, <1>7
  <2>3. /\ w \o z \in Seq(LogCell) /\ Len(w \o z) = e + 1 + l
        /\ \A i \in 1..(e + 1 + l) : (w \o z)[i] = IF i <= e + 1 THEN w[i] ELSE z[i - (e + 1)]
    BY <2>1, <2>2
  <2> QED BY <2>3
<1>9. Len(g) > e /\ Agree(f, g, e)
  <2>1. \A i \in 1..e : i \in 1..(e + 1 + l) /\ i <= e + 1 OBVIOUS
  <2>2. \A i \in 1..e : g[i] = f[i] BY <1>5, <1>8, <2>1
  <2>3. e + 1 + l > e OBVIOUS
  <2>4. e <= Len(g) /\ e <= Len(f) BY <1>1, <1>8, <2>3
  <2> QED BY <1>8, <2>2, <2>3, <2>4 DEF Agree
<1>10. ASSUME NEW i \in 1..Len(g), i > e PROVE g[i] = Nul \/ (i <= Len(f) /\ g[i] = f[i])
  <2>1. i \in 1..(e + 1 + l) BY <1>8
  <2>2. CASE i = e + 1
    <3>1. i <= e + 1 BY <2>2
    <3>2. g[i] = w[e + 1] BY <1>8, <2>1, <2>2, <3>1
    <3> QED BY <1>5, <3>2
  <2>3. CASE i # e + 1
    <3>1. PICK j \in Nat : j = i - (e + 1) /\ j \in 1..l /\ l > 0
      <4>1. i - (e + 1) \in Nat /\ i - (e + 1) \in 1..l /\ l > 0 BY <1>10, <2>1, <2>3
      <4> QED BY <4>1
    <3>2. ~(i <= e + 1) BY <2>1, <3>1
    <3>3. g[i] = z[j] BY <1>8, <2>1, <3>1, <3>2
    <3>4. l = n - e - 1 BY <1>7, <3>1
    <3>5. j \in 1..(n - (e + 2) + 1) /\ e + 2 + j - 1 = i /\ i <= n BY <1>1, <2>1, <3>1, <3>4
    <3>6. z[j] = f[i] BY <1>6, <3>5
    <3> QED BY <1>1, <3>3, <3>5, <3>6
  <2> QED BY <2>2, <2>3
<1> QED BY <1>1, <1>2, <1>3, <1>4, <1>6, <1>8, <1>9, <1>10

\* A power failure: what the log says is what it said before, or what was on the disk.
LEMMA PowerKeeps ==
  ASSUME NEW f \in Seq(LogCell), NEW s \in 0..Len(f), GoodLog(f, s), NEW n \in s..Len(f),
         NEW garbage \in SUBSET ((s + 1)..n)
  PROVE  LET g == Remains(f, n, garbage) IN
         /\ g \in Seq(LogCell) /\ Len(g) = n /\ GoodLog(g, n)
         /\ Contents(SubSeq(g, 1, n)) = Contents(g)
         /\ Contents(g) \in {Contents(f), Contents(SubSeq(f, 1, s))}
<1> DEFINE LostOr(i) == [f[i] EXCEPT !.lost = @ \/ i \in garbage]
<1>1. PICK N \in Nat : N = Len(f) BY LenProperties
<1>2. s \in Nat /\ n \in Nat /\ s <= n /\ n <= N BY <1>1
<1>3. \A i \in 1..n : f[i] \in LogCell
  <2>1. \A i \in 1..n : i \in 1..Len(f) BY <1>1, <1>2
  <2> QED BY <2>1, EndsAre
<1>4. \A i \in 1..n : LostOr(i) \in LogCell /\ (LostOr(i) = End => f[i] = End) /\ (i <= s => LostOr(i) = f[i])
  <2> TAKE i \in 1..n
  <2>1. PICK c \in LogCell : c = f[i] BY <1>3
  <2>2. c \in [is : CellKinds, of : Keys \cup Values \cup {""}, lost : BOOLEAN] BY DEF LogCell
  <2>3. [c EXCEPT !.lost = @ \/ i \in garbage] \in LogCell BY <2>2 DEF LogCell
  <2>4. [c EXCEPT !.lost = @ \/ i \in garbage] = End => c = End
    <3>1. PICK d : d = [c EXCEPT !.lost = @ \/ i \in garbage] OBVIOUS
    <3>2. d.is = c.is /\ d.of = c.of BY <2>2, <3>1
    <3>3. c.lost => d.lost BY <2>2, <3>1
    <3>8. End.is = "end" /\ End.of = "" /\ ~End.lost BY DEF End, Cell
    <3>4. d = End => d.is = "end" /\ d.of = "" /\ ~d.lost BY <3>8
    <3>5. c.lost \in BOOLEAN /\ c = [is |-> c.is, of |-> c.of, lost |-> c.lost] BY <2>2
    <3>6. d = End => c.is = "end" /\ c.of = "" /\ c.lost = FALSE BY <3>2, <3>3, <3>4, <3>5
    <3>7. c.is = "end" /\ c.of = "" /\ c.lost = FALSE => c = End BY <3>5 DEF End, Cell
    <3> QED BY <3>1, <3>6, <3>7
  <2>5. i <= s => [c EXCEPT !.lost = @ \/ i \in garbage] = c
    <3>1. i <= s => i \notin garbage BY <1>2
    <3> QED BY <2>2, <3>1
  <2> QED BY <2>1, <2>3, <2>4, <2>5
<1> HIDE DEF LostOr
<1>5. PICK g \in Seq(LogCell) : g = [i \in 1..n |-> LostOr(i)] /\ Len(g) = n /\ \A i \in 1..n : g[i] = LostOr(i)
  <2>1. [i \in 1..n |-> LostOr(i)] \in [1..n -> LogCell] BY <1>4
  <2>2. [i \in 1..n |-> LostOr(i)] \in Seq(LogCell) /\ Len([i \in 1..n |-> LostOr(i)]) = n
    BY <1>2, <2>1
  <2> QED BY <2>2
<1>6. g = Remains(f, n, garbage) BY <1>5 DEF Remains, LostOr
<1>7. Agree(f, g, s)
  <2>1. \A i \in 1..s : i \in 1..n /\ i <= s BY <1>2
  <2>2. \A i \in 1..s : g[i] = f[i] BY <1>4, <1>5, <2>1
  <2>3. s <= Len(f) /\ s <= Len(g) BY <1>1, <1>2, <1>5
  <2> QED BY <2>2, <2>3 DEF Agree
<1>8. \A i \in Ends(g) : i \in 1..n /\ i \in Ends(f)
  <2> TAKE i \in Ends(g)
  <2>1. i \in 1..n /\ g[i] = End BY <1>5, EndsAre
  <2>2. i \in 1..Len(f) /\ f[i] = End BY <1>1, <1>2, <1>4, <1>5, <2>1
  <2> QED BY <2>1, <2>2, EndsAre
<1>9. \A i \in Ends(f) : i \in Nat /\ i - 1 <= s
  <2>1. Ends(f) \in SUBSET Nat BY EndsAre
  <2> QED BY <2>1 DEF GoodLog
<1>10. GoodLog(g, n)
  <2>1. \A i \in Ends(g) : i - 1 <= s /\ i - 1 <= n BY <1>2, <1>8, <1>9
  <2> QED BY <1>2, <1>7, <1>8, <2>1, LogKept
<1>11. Contents(SubSeq(g, 1, n)) = Contents(g)
  <2>1. n \in 0..Len(g) /\ \A i \in Ends(g) : i <= n BY <1>2, <1>5, <1>8
  <2> QED BY <1>2, <1>10, <2>1, AllOnDisk
<1>12. CASE Ends(g) = Ends(f)
  <2>1. \A i \in Ends(g) : i - 1 <= s BY <1>8, <1>9
  <2>2. Contents(g) = Contents(f) BY <1>2, <1>7, <1>12, <2>1, SameContents
  <2> QED BY <1>5, <1>6, <1>10, <1>11, <2>2
<1>13. CASE Ends(g) # Ends(f)
  <2>1. PICK d \in Ends(f) : d \notin Ends(g) BY <1>8, <1>13
  <2>2. d = s + 1
    <3>1. d \in 1..Len(f) /\ f[d] = End /\ d \in Nat /\ d - 1 <= s BY <1>9, EndsAre
    <3>2. ASSUME d <= s PROVE FALSE
      <4>1. d \in 1..s /\ d \in 1..Len(g) BY <1>2, <1>5, <3>1, <3>2
      <4>2. g[d] = End BY <1>7, <3>1, <4>1 DEF Agree
      <4> QED BY <2>1, <4>1, <4>2, EndsAre
    <3> QED BY <1>2, <3>1, <3>2
  <2>3. \A i \in Ends(g) : i \in 1..s
    <3> TAKE i \in Ends(g)
    <3>1. i \in 1..n /\ i - 1 <= s /\ i # s + 1 BY <1>8, <1>9, <2>1, <2>2
    <3> QED BY <1>2, <3>1
  <2>4. PICK p \in Seq(LogCell) : p = SubSeq(f, 1, s) /\ Len(p) = s /\ \A i \in 1..s : p[i] = f[i]
    <3>1. /\ SubSeq(f, 1, s) \in Seq(LogCell) /\ Len(SubSeq(f, 1, s)) = s
          /\ \A i \in 1..s : SubSeq(f, 1, s)[i] = f[i]
      BY PrefixIs
    <3> QED BY <3>1
  <2>5. Agree(f, p, s) /\ Agree(p, g, s)
    <3>1. s <= s /\ s <= Len(f) /\ s <= Len(g) BY <1>1, <1>2, <1>5
    <3> QED BY <1>7, <2>4, <3>1 DEF Agree
  <2>6. \A i \in Ends(p) : i \in 1..s /\ i \in Ends(f)
    <3> TAKE i \in Ends(p)
    <3>1. i \in 1..s /\ p[i] = End BY <2>4, EndsAre
    <3>2. i \in 1..Len(f) /\ f[i] = End BY <1>1, <1>2, <2>4, <3>1
    <3> QED BY <3>1, <3>2, EndsAre
  <2>7. \A i \in 1..s : i \in Ends(p) <=> i \in Ends(g)
    <3> TAKE i \in 1..s
    <3>1. i \in 1..Len(p) /\ i \in 1..Len(g) BY <1>2, <1>5, <2>4
    <3>2. g[i] = p[i] BY <2>5 DEF Agree
    <3> QED BY <3>1, <3>2, EndsAre
  <2>8. Ends(g) = Ends(p) BY <2>3, <2>6, <2>7
  <2>9. \A i \in Ends(p) : i - 1 <= s BY <1>2, <2>6
  <2>10. GoodLog(p, s) BY <1>2, <2>5, <2>6, <2>9, LogKept
  <2>11. Contents(g) = Contents(p) BY <1>2, <2>5, <2>8, <2>9, <2>10, SameContents
  <2> QED BY <1>5, <1>6, <1>10, <1>11, <2>4, <2>11
<1> QED BY <1>12, <1>13

\* A log that is too short for recovery to look at holds no record.
LEMMA ShortLog ==
  ASSUME NEW f \in Seq(LogCell), NEW s \in Nat, GoodLog(f, s), ~LongEnough(f)
  PROVE  Ends(f) = {} /\ Len(f) <= 2 /\ Start(f, Len(f))
<1>1. PICK n \in Nat : n = Len(f) /\ n <= 2 BY LenProperties DEF LongEnough
<1>2. ASSUME NEW i \in Ends(f) PROVE FALSE
  <2>1. i \in 1..n /\ Whole(f, i) BY <1>1, EndsAre DEF GoodLog
  <2>2. i > 8 BY <2>1 DEF Whole
  <2> QED BY <1>1, <2>1, <2>2
<1>3. SubSeq(f, 1, n) = f
  <2>1. n \in 0..Len(f) BY <1>1
  <2>2. SubSeq(f, 1, n) \in Seq(LogCell) /\ Len(SubSeq(f, 1, n)) = n
        /\ \A i \in 1..n : SubSeq(f, 1, n)[i] = f[i]
    BY <2>1, PrefixIs
  <2> QED BY <1>1, <2>2, SeqEqual
<1> QED BY <1>1, <1>2, <1>3 DEF Start

\* One that it finds in order ends with a record.
LEMMA CleanLog ==
  ASSUME NEW f \in Seq(LogCell), NEW s \in Nat, GoodLog(f, s), Clean(f), LongEnough(f)
  PROVE  Len(f) - 1 \in Ends(f) /\ (\A i \in Ends(f) : i <= Len(f) - 1) /\ Start(f, Len(f))
<1>1. PICK n \in Nat : n = Len(f) BY LenProperties
<1>2. n >= 2 /\ f[n - 1] = End BY <1>1 DEF Clean
<1>3. n - 1 \in 1..Len(f) BY <1>1, <1>2
<1>4. n - 1 \in Ends(f) BY <1>2, <1>3, EndsAre
<1>5. \A i \in Ends(f) : i <= n - 1
  <2> TAKE i \in Ends(f)
  <2>1. i \in 1..n BY <1>1, EndsAre
  <2>2. n - 1 < i => n - 1 <= i - 10 BY <1>4 DEF GoodLog
  <2> QED BY <1>1, <2>1, <2>2
<1> QED BY <1>1, <1>4, <1>5 DEF Start

-----------------------------------------------------------------------------
(* The threads.                                                             *)

OutTypes == Values \cup {Pending, "ok", "error", None}
Busy == Working \cup {"return"}

LEMMA CallFacts ==
  ASSUME NEW c \in Calls
  PROVE  /\ c.op = "put" => c.key \in Keys /\ c.val \in Values
         /\ c.op = "get" => c.key \in Keys
         /\ c.op \in {"none", "open", "close", "get", "put"}
         /\ c.op = "none" <=> c = NoCall
<1>1. NoCall.op = "none" BY DEF NoCall
<1> QED BY <1>1 DEF Calls, NoCall

LEMMA ThreadFacts ==
  ASSUME NEW t \in Threads
  PROVE  ProcOf(t) \in Procs /\ ProcOf(t) # NoProc /\ t # Nobody
<1>1. ProcOf(t) \in Procs BY DEF Threads, ProcOf
<1>2. t # Nobody BY DEF Threads, Nobody
<1> QED BY <1>1, <1>2, ProcAssumption

\* Two threads do not both have the locks.
LEMMA OneHolder ==
  ASSUME LockInv, NEW t \in Threads, NEW u \in Threads, Holder(t), Holder(u)
  PROVE  t = u
<1>1. \A w \in {t, u} : flock = ProcOf(w) /\ mutex[ProcOf(w)] = w
  <2> TAKE w \in {t, u}
  <2>1. pc[w] \notin {"idle", "enter"} /\ flock = ProcOf(w) BY DEF Holder, Working, LockInv
  <2> QED BY <2>1 DEF LockInv
<1>2. flock = ProcOf(t) /\ flock = ProcOf(u) /\ mutex[ProcOf(t)] = t /\ mutex[ProcOf(u)] = u BY <1>1
<1> QED BY <1>2

\* What a step of t means for the others.
Alone(t) ==
  /\ \A u \in Threads \ {t} : pc'[u] = pc[u] /\ call'[u] = call[u] /\ out'[u] = out[u] /\ at'[u] = at[u]
  /\ Holder(t) \/ UNCHANGED <<file, synced, map>>
  /\ flock' = flock \/ (mutex[ProcOf(t)] = t /\ {flock, flock'} \subseteq {NoProc, ProcOf(t)})

LocalNow(t) == Local(pc[t], call[t], out[t], at[t], file, synced, map)
QuietNow(t) == Quiet(pc[t], call[t], out[t], at[t])

LEMMA OthersKeep ==
  ASSUME LockInv, ThreadsInv, NEW t \in Threads, Alone(t),
         Holder(t)' => LocalNow(t)', ~Holder(t)' => QuietNow(t)'
  PROVE  ThreadsInv'
<1> SUFFICES ASSUME NEW u \in Threads
             PROVE  (Holder(u)' => LocalNow(u)') /\ (~Holder(u)' => QuietNow(u)')
  BY DEF ThreadsInv, LocalNow, QuietNow
<1>1. CASE u = t BY <1>1
<1>2. CASE u # t
  <2>1. pc'[u] = pc[u] /\ call'[u] = call[u] /\ out'[u] = out[u] /\ at'[u] = at[u] BY <1>2 DEF Alone
  <2>2. Holder(u)' <=> Holder(u)
    <3>1. CASE flock' = flock BY <2>1, <3>1 DEF Holder
    <3>2. CASE flock' # flock
      <4>1. mutex[ProcOf(t)] = t /\ flock \in {NoProc, ProcOf(t)} /\ flock' \in {NoProc, ProcOf(t)}
        BY <3>2 DEF Alone
      <4>2. pc[u] = "return" => mutex[ProcOf(u)] = u BY DEF LockInv
      <4>3. pc[u] = "return" => ProcOf(u) # ProcOf(t) BY <1>2, <4>1, <4>2
      <4>4. pc[u] = "return" => flock # ProcOf(u) /\ flock' # ProcOf(u) BY <4>1, <4>3, ThreadFacts
      <4> QED BY <2>1, <4>4 DEF Holder
    <3> QED BY <3>1, <3>2
  <2>3. CASE Holder(u)
    <3>1. ~Holder(t) BY <1>2, <2>3, OneHolder
    <3>2. UNCHANGED <<file, synced, map>> BY <3>1 DEF Alone
    <3>3. LocalNow(u) BY <2>3 DEF ThreadsInv, LocalNow
    <3> QED BY <2>1, <2>2, <2>3, <3>2, <3>3 DEF LocalNow
  <2>4. CASE ~Holder(u)
    <3>1. QuietNow(u) BY <2>4 DEF ThreadsInv, QuietNow
    <3> QED BY <2>1, <2>2, <2>4, <3>1 DEF QuietNow
  <2> QED BY <2>3, <2>4
<1> QED BY <1>1, <1>2

\* The log after a step.
LogTyped == file \in Seq(LogCell) /\ synced \in 0..Len(file) /\ GoodLog(file, synced) /\ MapsAre

\* A thread that works on the log goes on to a label, with result o and counter a.
Works(t, label, o, a) ==
  /\ pc[t] \in Working /\ pc' = [pc EXCEPT ![t] = label] /\ label \in Busy
  /\ out' = [out EXCEPT ![t] = o] /\ o \in OutTypes
  /\ at' = [at EXCEPT ![t] = a] /\ a \in Int
  /\ UNCHANGED <<lockVars, fd, call, crashes>>

Marked == {"end_nul", "sync_end"}

LEMMA WorkStep ==
  ASSUME KvInv, NEW t \in Threads, NEW label, NEW o, NEW a, Works(t, label, o, a), LogTyped',
         Local(label, call[t], o, a, file', synced', map'),
         \/ map' = map /\ stable' = stable /\ (pc[t] \in Marked => label \in Marked)
         \/ stable' = map'
         \/ label \in Marked
  PROVE  KvInv'
<1>1. KvTyped BY DEF KvInv
<1>2. pc \in [Threads -> PCs] /\ out \in [Threads -> OutTypes] /\ at \in [Threads -> Int]
  BY <1>1 DEF KvTyped, OutTypes
<1>3. label \in PCs BY DEF Works, Busy, Working, PCs
<1>4. pc' \in [Threads -> PCs] BY <1>2, <1>3 DEF Works
<1>5. out' \in [Threads -> OutTypes] BY <1>2 DEF Works
<1>6. at' \in [Threads -> Int] BY <1>2 DEF Works
<1>7. KvTyped' BY <1>1, <1>4, <1>5, <1>6 DEF KvTyped, OutTypes, LogTyped, Works, lockVars
<1>8. /\ pc'[t] = label /\ out'[t] = o /\ at'[t] = a /\ call' = call /\ flock' = flock /\ mutex' = mutex
      /\ \A u \in Threads \ {t} : pc'[u] = pc[u] /\ out'[u] = out[u] /\ at'[u] = at[u]
      /\ pc[t] \in Working /\ label \in Busy
  BY <1>2 DEF Works, lockVars
<1>9. LockInv /\ flock = ProcOf(t) /\ mutex[ProcOf(t)] = t
  BY <1>8 DEF KvInv, LockInv, Working
<1>10. LockInv'
  <2>1. \A u \in Threads : pc'[u] \notin {"idle", "enter"} => mutex'[ProcOf(u)] = u
    BY <1>8, <1>9 DEF LockInv
  <2>2. \A u \in Threads : pc'[u] \in Working => flock' = ProcOf(u) BY <1>8, <1>9 DEF LockInv
  <2>3. ProcOf(t) = flock' /\ pc'[t] \in Working \cup {"return"} BY <1>8, <1>9 DEF Busy
  <2> QED BY <2>1, <2>2, <2>3 DEF LockInv
<1>11. Holder(t) BY <1>8 DEF Holder
<1>12. Holder(t)' BY <1>8, <1>9 DEF Holder, Busy
<1>13. LocalNow(t)' BY <1>8 DEF LocalNow
<1>14. ThreadsInv'
  <2>1. Alone(t) BY <1>8, <1>11 DEF Alone
  <2> QED BY <1>9, <1>12, <1>13, <2>1, OthersKeep DEF KvInv
<1>15. Flushed'
  <2> SUFFICES ASSUME crashes' = 0, \A u \in Threads : pc'[u] \notin Marked PROVE stable' = map'
    BY DEF Flushed, Marked
  <2>1. label \notin Marked BY <1>8
  <2>2. CASE map' = map /\ stable' = stable /\ (pc[t] \in Marked => label \in Marked)
    <3>1. \A u \in Threads : pc[u] \notin Marked BY <1>8, <2>1, <2>2
    <3>2. crashes = 0 BY DEF Works
    <3>3. stable = map BY <3>1, <3>2 DEF KvInv, Flushed, Marked
    <3> QED BY <2>2, <3>3
  <2> QED BY <2>1, <2>2
<1> QED BY <1>7, <1>10, <1>14, <1>15 DEF KvInv, LogTyped

-----------------------------------------------------------------------------
(* The steps of a thread that works on the log.                             *)

LEMMA KvInit == Init => KvInv
<1> SUFFICES ASSUME Init PROVE KvInv OBVIOUS
<1>1. file = <<>> /\ file \in Seq(LogCell) /\ Len(file) = 0 /\ synced = 0 BY EmptySeq DEF Init
<1>2. KvTyped
  <2>1. \A t \in Threads : NoCall \in Calls /\ "idle" \in PCs /\ 0 \in Int BY DEF Calls, PCs
  <2>2. pc \in [Threads -> PCs] /\ call \in [Threads -> Calls] /\ at \in [Threads -> Int] BY <2>1 DEF Init
  <2>3. mutex \in [Procs -> Threads \cup {Nobody}] /\ fd \in [Procs -> {"unset", "open", "closed"}]
    BY DEF Init
  <2>4. out \in [Threads -> Values \cup {Pending, "ok", "error", None}] BY DEF Init
  <2> QED BY <1>1, <2>2, <2>3, <2>4 DEF KvTyped, Init
<1>3. \A t \in Threads : pc[t] = "idle" /\ call[t] = NoCall /\ out[t] = Pending /\ at[t] = 0 BY DEF Init
<1>4. LockInv BY <1>3 DEF LockInv, Working, Init
<1>5. Ends(file) = {}
  <2>1. Ends(file) \in SUBSET (1..Len(file)) BY <1>1, EndsAre
  <2> QED BY <1>1, <2>1
<1>6. GoodLog(file, synced) BY <1>5 DEF GoodLog
<1>7. SubSeq(file, 1, synced) = file
  <2>1. synced \in 0..Len(file) BY <1>1
  <2>2. SubSeq(file, 1, synced) \in Seq(LogCell) /\ Len(SubSeq(file, 1, synced)) = synced
    BY <1>1, <2>1, PrefixIs
  <2> QED BY <1>1, <2>2, EmptySeq
<1>8. MapsAre BY <1>1, <1>7 DEF MapsAre, Init
<1>9. ThreadsInv
  <2> SUFFICES ASSUME NEW t \in Threads PROVE ~Holder(t) /\ Quiet(pc[t], call[t], out[t], at[t]) BY DEF ThreadsInv
  <2>1. ~Holder(t) BY <1>3 DEF Holder, Working
  <2> QED BY <1>3, <2>1 DEF Quiet
<1>10. Flushed BY DEF Flushed, Init
<1> QED BY <1>2, <1>4, <1>6, <1>8, <1>9, <1>10 DEF KvInv

LEMMA LogNow ==
  ASSUME KvInv
  PROVE  /\ LogTyped /\ file \in Seq(LogCell) /\ synced \in 0..Len(file) /\ Len(file) \in Nat
         /\ GoodLog(file, synced) /\ map = Contents(file) /\ stable = Contents(SubSeq(file, 1, synced))
<1>1. LogTyped BY DEF KvInv, KvTyped, LogTyped
<1> QED BY <1>1, LenProperties DEF LogTyped, MapsAre

LEMMA SameLog ==
  ASSUME KvInv, UNCHANGED fileVars
  PROVE  LogTyped' /\ file' = file /\ synced' = synced /\ map' = map /\ stable' = stable
<1>1. file' = file /\ synced' = synced /\ map' = map /\ stable' = stable BY DEF fileVars
<1> QED BY <1>1, LogNow DEF LogTyped, MapsAre

\* A log as good as the one before.
LEMMA KeptLog ==
  ASSUME KvInv, NEW g, NEW r, SetLog(g, r), g \in Seq(LogCell), r \in 0..Len(g), KeptBy(file, synced, g, r)
  PROVE  LogTyped' /\ file' = g /\ synced' = r /\ map' = map /\ stable' = stable
<1>1. file' = g /\ synced' = r /\ map' = Contents(g) /\ stable' = Contents(SubSeq(g, 1, r)) BY DEF SetLog
<1>2. map' = map /\ stable' = stable BY <1>1, LogNow DEF KeptBy
<1>3. MapsAre' BY <1>1 DEF MapsAre
<1>4. GoodLog(file', synced') BY <1>1 DEF KeptBy
<1> QED BY <1>1, <1>2, <1>3, <1>4 DEF LogTyped

\* What is known of a thread that works on the log.
LEMMA WorkerFacts ==
  ASSUME KvInv, NEW t \in Threads, pc[t] \in Working
  PROVE  /\ Local(pc[t], call[t], out[t], at[t], file, synced, map)
         /\ call[t] \in Calls /\ out[t] \in OutTypes /\ at[t] \in Int
         /\ pc \in [Threads -> PCs] /\ out \in [Threads -> OutTypes] /\ at \in [Threads -> Int]
         /\ out = [out EXCEPT ![t] = out[t]] /\ at = [at EXCEPT ![t] = at[t]] /\ pc = [pc EXCEPT ![t] = pc[t]]
<1>1. Holder(t) BY DEF Holder
<1>2. Local(pc[t], call[t], out[t], at[t], file, synced, map) BY <1>1 DEF KvInv, ThreadsInv
<1>3. pc \in [Threads -> PCs] /\ call \in [Threads -> Calls] /\ out \in [Threads -> OutTypes] /\ at \in [Threads -> Int]
  BY DEF KvInv, KvTyped, OutTypes
<1> QED BY <1>2, <1>3

LEMMA CrashCheckKeeps ==
  ASSUME KvInv, NEW t \in Threads, CrashCheck(t)
  PROVE  KvInv' /\ UNCHANGED <<map, stable>>
<1>1. pc[t] = "check" /\ pc[t] \in Working BY DEF CrashCheck, Working, PCs
<1>2. /\ Local("check", call[t], out[t], at[t], file, synced, map)
      /\ call[t] \in Calls /\ out[t] \in OutTypes /\ at[t] \in Int
      /\ pc \in [Threads -> PCs] /\ out \in [Threads -> OutTypes] /\ at \in [Threads -> Int]
      /\ out = [out EXCEPT ![t] = out[t]] /\ at = [at EXCEPT ![t] = at[t]]
  BY <1>1, WorkerFacts
<1>3. UNCHANGED <<fileVars, lockVars, fd, call, crashes>> BY DEF CrashCheck
<1>4. LogTyped' /\ file' = file /\ synced' = synced /\ map' = map /\ stable' = stable BY <1>3, SameLog
<1>5. /\ call[t].op \in {"open", "get", "put"} /\ at[t] \in 0..7
      /\ out[t] = Pending \/ (call[t].op = "put" /\ out[t] = "ok" /\ map[call[t].key] = call[t].val)
  BY <1>2 DEF Local, Recovery
<1>6. CASE Clean(file)
  <2> DEFINE label == AfterCheck(t)
             o == IF call[t].op = "open" THEN "ok" ELSE out[t]
             a == Len(file) - 1
  <2>1. pc' = [pc EXCEPT ![t] = label] /\ out' = [out EXCEPT ![t] = o] /\ at' = [at EXCEPT ![t] = a]
    BY <1>2, <1>6 DEF CrashCheck, Goto
  <2>2. label \in Busy /\ label \in {"return", "walk"} BY DEF AfterCheck, Busy, Working, PCs
  <2>3. o \in OutTypes /\ a \in Int BY <1>2, LogNow DEF OutTypes
  <2>4. Works(t, label, o, a) BY <1>1, <1>3, <2>1, <2>2, <2>3 DEF Works
  <2>5. Local(label, call[t], o, a, file, synced, map)
    <3>1. CASE label = "return"
      <4>1. PICK n \in Nat : n = Len(file) BY LogNow
      <4>2. a \in -1..(Len(file) + 10) BY <4>1
      <4>3. call[t].op = "open" \/ out[t] # Pending BY <3>1 DEF AfterCheck
      <4>4. /\ call[t].op = "get" => o = map[call[t].key]
            /\ call[t].op = "put" /\ o = "ok" => map[call[t].key] = call[t].val
        BY <1>5, <4>3
      <4> QED BY <1>5, <3>1, <4>2, <4>4 DEF Local, Recovery
    <3>2. CASE label = "walk"
      <4>1. call[t].op # "open" /\ out[t] = Pending BY <3>2 DEF AfterCheck
      <4>2. PICK n \in Nat : n = Len(file) BY LogNow
      <4>3. a \in -1..Len(file) BY <4>2
      <4>4. Seeks(file, a, call[t].key)
        <5>1. CASE LongEnough(file)
          <6>1. Len(file) - 1 \in Ends(file) /\ \A i \in Ends(file) : i <= Len(file) - 1
            BY <1>6, <5>1, CleanLog, LogNow
          <6>2. \A i \in Ends(file) : i \in Nat BY LogNow, EndsAre
          <6> QED BY <4>2, <6>1, <6>2 DEF Seeks
        <5>2. CASE ~LongEnough(file)
          <6>1. Ends(file) = {} /\ Len(file) <= 2 BY <5>2, LogNow, ShortLog
          <6> QED BY <4>2, <6>1 DEF Seeks
        <5> QED BY <5>1, <5>2
      <4> QED BY <1>5, <1>6, <3>2, <4>1, <4>3, <4>4 DEF Local, Recovery
    <3> QED BY <2>2, <3>1, <3>2
  <2>6. Local(label, call[t], o, a, file', synced', map') BY <1>4, <2>5
  <2>7. pc[t] \notin Marked BY <1>1 DEF Marked
  <2> HIDE DEF label, o, a
  <2> QED BY <1>4, <2>4, <2>6, <2>7, WorkStep
<1>7. CASE ~Clean(file)
  <2>1. pc' = [pc EXCEPT ![t] = "repair"] /\ out' = [out EXCEPT ![t] = out[t]] /\ at' = [at EXCEPT ![t] = at[t]]
    BY <1>2, <1>7 DEF CrashCheck, Goto
  <2>2. Works(t, "repair", out[t], at[t]) BY <1>1, <1>2, <1>3, <2>1 DEF Works, Busy, Working, PCs
  <2>3. Local("repair", call[t], out[t], at[t], file, synced, map) BY <1>5 DEF Local, Recovery
  <2>4. Local("repair", call[t], out[t], at[t], file', synced', map') BY <1>4, <2>3
  <2>5. pc[t] \notin Marked BY <1>1 DEF Marked
  <2> QED BY <1>4, <2>2, <2>4, <2>5, WorkStep
<1> QED BY <1>6, <1>7

\* crash_handle leaves out what no record holds.
LEMMA RepairKeeps ==
  ASSUME KvInv, NEW t \in Threads, Repair(t)
  PROVE  KvInv' /\ UNCHANGED <<map, stable>>
<1>1. pc[t] = "repair" /\ pc[t] \in Working BY DEF Repair, Working, PCs
<1>2. /\ Local("repair", call[t], out[t], at[t], file, synced, map)
      /\ call[t] \in Calls /\ out[t] \in OutTypes /\ at[t] \in Int
      /\ out = [out EXCEPT ![t] = out[t]] /\ at = [at EXCEPT ![t] = at[t]]
  BY <1>1, WorkerFacts
<1>3. UNCHANGED <<lockVars, fd, call, out, at, crashes>> BY DEF Repair, callVars
<1>4. /\ call[t].op \in {"open", "get", "put"} /\ at[t] \in 0..7
      /\ out[t] = Pending \/ (call[t].op = "put" /\ out[t] = "ok" /\ map[call[t].key] = call[t].val)
  BY <1>2 DEF Local, Recovery
<1>5. \A label \in {"check", "truncate"} : Goto(t, label) => Works(t, label, out[t], at[t])
  BY <1>1, <1>2, <1>3 DEF Works, Busy, Working, PCs, Goto
<1>6. CASE Ends(file) = {}
  <2>1. SetLog(<<>>, 0) /\ Goto(t, "check") BY <1>6 DEF Repair
  <2>2. KeptBy(file, synced, <<>>, 0) BY <1>6, LogNow, EmptyKeeps
  <2>3. <<>> \in Seq(LogCell) /\ 0 \in 0..Len(<<>>) BY EmptySeq
  <2>4. LogTyped' /\ map' = map /\ stable' = stable BY <2>1, <2>2, <2>3, KeptLog
  <2>5. Local("check", call[t], out[t], at[t], file', synced', map')
    BY <1>4, <2>4 DEF Local, Recovery
  <2>6. pc[t] \notin Marked BY <1>1 DEF Marked
  <2> QED BY <1>5, <2>1, <2>4, <2>5, <2>6, WorkStep
<1>7. CASE Ends(file) # {}
  <2>1. PICK e \in Ends(file) : e = Max(Ends(file)) /\ \A i \in Ends(file) : i <= e BY <1>7, LogNow, LastEnd
  <2>2. e \in 1..Len(file) /\ e \in Nat BY LogNow, EndsAre
  <2> DEFINE g == SubSeq(file, 1, e) \o <<Nul>> \o SubSeq(file, e + 2, Len(file))
  <2>3. SetLog(g, Min({synced, e})) /\ Goto(t, "truncate") BY <1>7, <2>1 DEF Repair
  <2>4. /\ g \in Seq(LogCell) /\ Len(g) > e /\ Agree(file, g, e)
        /\ \A i \in 1..Len(g) : i > e => g[i] = Nul \/ (i <= Len(file) /\ g[i] = file[i])
    BY <2>2, LogNow, RepairedIs
  <2> HIDE DEF g
  <2>5. \A i \in 1..Len(g) : i > e => g[i] # End
    <3> SUFFICES ASSUME NEW i \in 1..Len(g), i > e, g[i] = End PROVE FALSE OBVIOUS
    <3>1. PICK n \in Nat : n = Len(file) BY LogNow
    <3>2. g[i] # Nul BY MarksAre
    <3>3. i \in 1..n /\ file[i] = End BY <2>4, <3>1, <3>2
    <3>4. i \in Ends(file) BY <3>1, <3>3, LogNow, EndsAre
    <3> QED BY <2>1, <2>2, <3>4
  <2>6. KeptBy(file, synced, g, Min({synced, e})) BY <2>1, <2>2, <2>4, <2>5, LogNow, CutKeeps
  <2>7. Min({synced, e}) \in 0..Len(g) BY <2>6 DEF KeptBy
  <2>8. LogTyped' /\ file' = g /\ map' = map /\ stable' = stable BY <2>3, <2>4, <2>6, <2>7, KeptLog
  <2>9. Ends(g) = Ends(file) BY <2>6 DEF KeptBy
  <2>10. \A i \in Ends(g) : i < Len(g)
    <3>1. PICK n \in Nat : n = Len(g) BY <2>4, LenProperties
    <3>2. \A i \in Ends(g) : i \in Nat /\ i <= e BY <2>1, <2>9, LogNow, EndsAre
    <3> QED BY <2>2, <2>4, <3>1, <3>2
  <2>11. Local("truncate", call[t], out[t], at[t], file', synced', map')
    BY <1>4, <1>7, <2>8, <2>9, <2>10 DEF Local, Recovery
  <2>12. pc[t] \notin Marked BY <1>1 DEF Marked
  <2> QED BY <1>5, <2>3, <2>8, <2>11, <2>12, WorkStep
<1> QED BY <1>6, <1>7

LEMMA TruncateKeeps ==
  ASSUME KvInv, NEW t \in Threads, Truncate(t)
  PROVE  KvInv' /\ UNCHANGED <<map, stable>>
<1>1. pc[t] = "truncate" /\ pc[t] \in Working BY DEF Truncate, Working, PCs
<1>2. /\ Local("truncate", call[t], out[t], at[t], file, synced, map)
      /\ call[t] \in Calls /\ out[t] \in OutTypes /\ at[t] \in Int
      /\ out = [out EXCEPT ![t] = out[t]] /\ at = [at EXCEPT ![t] = at[t]]
  BY <1>1, WorkerFacts
<1>3. UNCHANGED <<lockVars, fd, call, out, at, crashes>> BY DEF Truncate, callVars
<1>4. /\ call[t].op \in {"open", "get", "put"} /\ at[t] \in 0..7
      /\ out[t] = Pending \/ (call[t].op = "put" /\ out[t] = "ok" /\ map[call[t].key] = call[t].val)
      /\ Ends(file) # {} /\ \A i \in Ends(file) : i < Len(file)
  BY <1>2 DEF Local, Recovery
<1>5. Works(t, "check", out[t], at[t])
  BY <1>1, <1>2, <1>3 DEF Works, Busy, Working, PCs, Goto, Truncate
<1>6. PICK e \in Ends(file) : e = Max(Ends(file)) /\ \A i \in Ends(file) : i <= e BY <1>4, LogNow, LastEnd
<1>7. PICK n \in Nat : n = Len(file) BY LogNow
<1>8. e \in 1..n /\ e \in Nat /\ e < n BY <1>4, <1>7, LogNow, EndsAre
<1> DEFINE a == e + 1
           g == SubSeq(file, 1, a)
<1>9. SetLog(g, Min({synced, a})) BY <1>6 DEF Truncate
<1>10. a \in 0..Len(file) /\ a \in Nat /\ e <= a /\ a <= e + 1 BY <1>7, <1>8
<1> HIDE DEF a
<1>11. g \in Seq(LogCell) /\ Len(g) = a /\ \A i \in 1..a : g[i] = file[i] BY <1>10, LogNow, PrefixIs
<1>12. Agree(file, g, e) BY <1>7, <1>8, <1>10, <1>11 DEF Agree
<1> HIDE DEF g
<1>13. \A i \in 1..Len(g) : i > e => g[i] # End
  <2> SUFFICES ASSUME NEW i \in 1..a, i > e, g[i] = End PROVE FALSE BY <1>11
  <2>1. i \in 1..Len(file) /\ file[i] = End BY <1>7, <1>10, <1>11
  <2>2. i \in Ends(file) BY <2>1, LogNow, EndsAre
  <2> QED BY <1>6, <1>8, <2>2
<1>14. a <= Len(g) BY <1>10, <1>11
<1>15. KeptBy(file, synced, g, Min({synced, a}))
  BY <1>6, <1>10, <1>11, <1>12, <1>13, <1>14, LogNow, CutKeeps
<1>16. Min({synced, a}) \in 0..Len(g) BY <1>15 DEF KeptBy
<1>17. LogTyped' /\ map' = map /\ stable' = stable BY <1>9, <1>11, <1>15, <1>16, KeptLog
<1>18. Local("check", call[t], out[t], at[t], file', synced', map') BY <1>4, <1>17 DEF Local, Recovery
<1>19. pc[t] \notin Marked BY <1>1 DEF Marked
<1> QED BY <1>5, <1>17, <1>18, <1>19, WorkStep

\* lockless_get has its answer r.
LEMMA AnswerKeeps ==
  ASSUME KvInv, NEW t \in Threads, pc[t] \in {"test", "walk"}, call[t].op \in {"get", "put"},
         out[t] = Pending, NEW r \in Values \cup {None}, r = map[call[t].key], Start(file, Len(file)),
         at[t] \in -1..Len(file), Answer(t, r), UNCHANGED <<fileVars, lockVars, fd, call, crashes>>
  PROVE  KvInv' /\ UNCHANGED <<map, stable>>
<1>1. pc[t] \in Working BY DEF Working, PCs
<1>2. /\ call[t] \in Calls /\ out[t] \in OutTypes /\ at[t] \in Int
      /\ out = [out EXCEPT ![t] = out[t]] /\ at = [at EXCEPT ![t] = at[t]]
  BY <1>1, WorkerFacts
<1>3. LogTyped' /\ file' = file /\ synced' = synced /\ map' = map /\ stable' = stable BY SameLog
<1>4. pc[t] \notin Marked BY DEF Marked
<1>5. PICK n \in Nat : n = Len(file) BY LogNow
<1>6. at[t] \in -1..(Len(file) + 10) BY <1>5
<1>7. ASSUME NEW o \in OutTypes, Result(t, o), UNCHANGED at,
             call[t].op = "get" => o = r, call[t].op = "put" => r = call[t].val
      PROVE  KvInv'
  <2>1. Works(t, "return", o, at[t]) BY <1>1, <1>2, <1>7 DEF Works, Result, Goto, Busy
  <2>2. Local("return", call[t], o, at[t], file, synced, map) BY <1>6, <1>7 DEF Local, Recovery
  <2>3. Local("return", call[t], o, at[t], file', synced', map') BY <1>3, <2>2
  <2> QED BY <1>3, <1>4, <2>1, <2>3, WorkStep
<1>8. CASE call[t].op = "get"
  <2>1. Result(t, r) /\ UNCHANGED at BY <1>8 DEF Answer
  <2>2. r \in OutTypes BY DEF OutTypes
  <2> QED BY <1>3, <1>7, <1>8, <2>1, <2>2
<1>9. CASE call[t].op = "put" /\ r = call[t].val
  <2>1. Result(t, "ok") /\ UNCHANGED at BY <1>9 DEF Answer
  <2>2. "ok" \in OutTypes BY DEF OutTypes
  <2> QED BY <1>3, <1>7, <1>9, <2>1, <2>2
<1>10. CASE call[t].op = "put" /\ r # call[t].val
  <2>1. Goto(t, "write") /\ at' = [at EXCEPT ![t] = 0] /\ UNCHANGED out BY <1>10 DEF Answer
  <2>2. Works(t, "write", out[t], 0) BY <1>1, <1>2, <2>1 DEF Works, Goto, Busy, Working, PCs
  <2>3. call[t].key \in Keys /\ call[t].val \in Values BY <1>2, <1>10, CallFacts
  <2>4. Len(Body(call[t].key, call[t].val)) \in 1..8 BY <2>3, BodyIs
  <2>5. 0 \in 0..(Len(Body(call[t].key, call[t].val)) - 1)
    <3>1. \A m \in 1..8 : 0 \in 0..(m - 1) OBVIOUS
    <3> QED BY <2>4, <3>1
  <2>6. Written(file, 0, call[t].key, call[t].val) BY <1>5 DEF Written
  <2>7. Len(file) - 0 = Len(file) BY <1>5
  <2>8. Start(file, Len(file) - 0) BY <2>7
  <2>9. Local("write", call[t], out[t], 0, file, synced, map) BY <1>10, <2>5, <2>6, <2>8 DEF Local, Recovery
  <2>10. Local("write", call[t], out[t], 0, file', synced', map') BY <1>3, <2>9
  <2> QED BY <1>3, <1>4, <2>2, <2>10, WorkStep
<1> QED BY <1>8, <1>9, <1>10

LEMMA TestEmptyKeeps ==
  ASSUME KvInv, NEW t \in Threads, TestEmpty(t)
  PROVE  KvInv' /\ UNCHANGED <<map, stable>>
<1>1. pc[t] = "test" /\ pc[t] \in Working BY DEF TestEmpty, Working, PCs
<1>2. /\ Local("test", call[t], out[t], at[t], file, synced, map)
      /\ call[t] \in Calls /\ out[t] \in OutTypes /\ at[t] \in Int
      /\ out = [out EXCEPT ![t] = out[t]] /\ at = [at EXCEPT ![t] = at[t]]
  BY <1>1, WorkerFacts
<1>3. UNCHANGED <<fileVars, lockVars, fd, call, crashes>> BY DEF TestEmpty
<1>4. call[t].op \in {"get", "put"} /\ out[t] = Pending /\ at[t] = 0 BY <1>2 DEF Local
<1>5. CASE LongEnough(file)
  <2>1. Goto(t, "check") /\ UNCHANGED <<out, at>> BY <1>5 DEF TestEmpty
  <2>2. Works(t, "check", out[t], at[t]) BY <1>1, <1>2, <1>3, <2>1 DEF Works, Goto, Busy, Working, PCs
  <2>3. LogTyped' /\ file' = file /\ synced' = synced /\ map' = map /\ stable' = stable BY <1>3, SameLog
  <2>4. Local("check", call[t], out[t], at[t], file', synced', map') BY <1>4 DEF Local, Recovery
  <2>5. pc[t] \notin Marked BY <1>1 DEF Marked
  <2> QED BY <2>2, <2>3, <2>4, <2>5, WorkStep
<1>6. CASE ~LongEnough(file)
  <2>1. Answer(t, None) BY <1>6 DEF TestEmpty
  <2>2. Ends(file) = {} /\ Start(file, Len(file)) BY <1>6, LogNow, ShortLog
  <2>3. call[t].key \in Keys BY <1>2, <1>4, CallFacts
  <2>4. None = map[call[t].key] BY <2>2, <2>3, LogNow, ContentsIs
  <2>5. PICK n \in Nat : n = Len(file) BY LogNow
  <2>6. at[t] \in -1..Len(file) BY <1>4, <2>5
  <2> QED BY <1>1, <1>3, <1>4, <2>1, <2>2, <2>4, <2>6, AnswerKeeps
<1> QED BY <1>5, <1>6

\* The record the loop is at is the one the key maps to, or there is one before it.
LEMMA WalkFinds ==
  ASSUME NEW f \in Seq(LogCell), NEW s \in Nat, GoodLog(f, s), NEW i \in Int, NEW k \in Keys, Seeks(f, i, k)
  PROVE  /\ i < 9 => Ends(f) = {}
         /\ i >= 9 => i \in Ends(f)
         /\ i >= 9 /\ (~LongEnough(SubSeq(f, 1, i - 9)) \/ KeyAt(f, i) = k) =>
              Latest(f, k, i) \/ Oldest(f, k, i)
         /\ i >= 9 /\ LongEnough(SubSeq(f, 1, i - 9)) /\ KeyAt(f, i) # k =>
              i > 10 /\ f[i - 10] = End /\ i - 10 <= Len(f) /\ Seeks(f, i - 10, k)
<1>1. PICK n \in Nat : n = Len(f) BY LenProperties
<1>2. \A d \in Ends(f) : d \in 1..n /\ d > 8
  <2> TAKE d \in Ends(f)
  <2>1. d \in 1..n /\ Whole(f, d) BY <1>1, EndsAre DEF GoodLog
  <2> QED BY <2>1 DEF Whole
<1>3. i < 9 => Ends(f) = {} BY <1>2 DEF Seeks
<1>4. i >= 9 => i \in Ends(f) /\ \A d \in Ends(f) : d > i => KeyAt(f, d) # k BY DEF Seeks
<1>5. ASSUME i >= 9, KeyAt(f, i) = k PROVE Latest(f, k, i) BY <1>4, <1>5 DEF Latest
<1>6. ASSUME i >= 9, ~LongEnough(SubSeq(f, 1, i - 9)), KeyAt(f, i) # k PROVE Oldest(f, k, i)
  <2>1. i \in 1..n /\ i \in Ends(f) BY <1>2, <1>4, <1>6
  <2>2. i - 9 \in 0..Len(f) BY <1>1, <1>6, <2>1
  <2>3. Len(SubSeq(f, 1, i - 9)) = i - 9 BY <2>2, PrefixIs
  <2>4. i - 9 <= 2 BY <1>6, <2>1, <2>3 DEF LongEnough
  <2>5. \A d \in Ends(f) : i <= d
    <3> TAKE d \in Ends(f)
    <3>1. d < i => d <= i - 10 BY <2>1 DEF GoodLog
    <3> QED BY <1>2, <2>1, <2>4, <3>1
  <2>6. \A d \in Ends(f) : KeyAt(f, d) # k
    <3> TAKE d \in Ends(f)
    <3>1. d = i \/ d > i BY <1>2, <2>1, <2>5
    <3> QED BY <1>4, <1>6, <3>1
  <2> QED BY <2>1, <2>5, <2>6 DEF Oldest
<1>7. ASSUME i >= 9, LongEnough(SubSeq(f, 1, i - 9)), KeyAt(f, i) # k
      PROVE  i > 10 /\ f[i - 10] = End /\ i - 10 <= Len(f) /\ Seeks(f, i - 10, k)
  <2>1. i \in Ends(f) /\ i - 10 \in Ends(f) BY <1>4, <1>7 DEF GoodLog
  <2>2. i - 10 \in 1..n /\ i - 10 > 8 BY <1>2, <2>1
  <2>3. f[i - 10] = End BY <1>1, <2>1, <2>2, EndsAre
  <2>4. \A d \in Ends(f) : d > i - 10 => KeyAt(f, d) # k
    <3> TAKE d \in Ends(f)
    <3>1. d < i => d <= i - 10 BY <2>1 DEF GoodLog
    <3>2. d > i - 10 => d = i \/ d > i BY <1>2, <3>1
    <3> QED BY <1>4, <1>7, <3>2
  <2>5. Seeks(f, i - 10, k) BY <2>1, <2>4 DEF Seeks
  <2> QED BY <1>1, <2>2, <2>3, <2>5
<1> QED BY <1>3, <1>4, <1>5, <1>6, <1>7

LEMMA WalkKeeps ==
  ASSUME KvInv, NEW t \in Threads, Walk(t)
  PROVE  KvInv' /\ UNCHANGED <<map, stable>>
<1>1. pc[t] = "walk" /\ pc[t] \in Working BY DEF Walk, Working, PCs
<1>2. /\ Local("walk", call[t], out[t], at[t], file, synced, map)
      /\ call[t] \in Calls /\ out[t] \in OutTypes /\ at[t] \in Int
      /\ out = [out EXCEPT ![t] = out[t]] /\ pc = [pc EXCEPT ![t] = pc[t]]
  BY <1>1, WorkerFacts
<1>3. UNCHANGED <<fileVars, lockVars, fd, call, crashes>> BY DEF Walk
<1> DEFINE k == call[t].key
           i == at[t]
           before == SubSeq(file, 1, i - 9)
<1>4. /\ call[t].op \in {"get", "put"} /\ out[t] = Pending /\ Clean(file)
      /\ i \in -1..Len(file) /\ Seeks(file, i, k)
  BY <1>2 DEF Local
<1>5. k \in Keys /\ i \in Int BY <1>2, <1>4, CallFacts
<1>6. synced \in Nat BY LogNow
<1>7. /\ i < 9 => Ends(file) = {}
      /\ i >= 9 => i \in Ends(file)
      /\ i >= 9 /\ (~LongEnough(before) \/ KeyAt(file, i) = k) => Latest(file, k, i) \/ Oldest(file, k, i)
      /\ i >= 9 /\ LongEnough(before) /\ KeyAt(file, i) # k =>
           i > 10 /\ file[i - 10] = End /\ i - 10 <= Len(file) /\ Seeks(file, i - 10, k)
  BY <1>4, <1>5, <1>6, LogNow, WalkFinds
<1>8. Start(file, Len(file)) BY <1>4, <1>6, LogNow, CleanLog, ShortLog
<1>9. CASE i < 9
  <2>1. Answer(t, None) BY <1>1, <1>9 DEF Walk
  <2>2. None = map[k] BY <1>5, <1>7, <1>9, LogNow, ContentsIs
  <2> QED BY <1>1, <1>3, <1>4, <1>8, <2>1, <2>2, AnswerKeeps
<1>10. CASE i >= 9 /\ (~LongEnough(before) \/ KeyAt(file, i) = k)
  <2>1. Answer(t, ValueAt(file, i)) BY <1>1, <1>5, <1>10 DEF Walk
  <2>2. ValueAt(file, i) = map[k] BY <1>5, <1>7, <1>10, LogNow, ContentsIs
  <2>3. ValueAt(file, i) \in Values BY <1>6, <1>7, <1>10, LogNow, ContentsTyped
  <2> QED BY <1>1, <1>3, <1>4, <1>8, <2>1, <2>2, <2>3, AnswerKeeps
<1>11. CASE i >= 9 /\ LongEnough(before) /\ KeyAt(file, i) # k
  <2>1. i > 10 /\ file[i - 10] = End /\ i - 10 <= Len(file) /\ Seeks(file, i - 10, k) BY <1>7, <1>11
  <2>2. at' = [at EXCEPT ![t] = i - 10] /\ UNCHANGED <<pc, out>> BY <1>1, <1>5, <1>11, <2>1 DEF Walk
  <2>3. i - 10 \in Int BY <1>5
  <2>4. Works(t, "walk", out[t], i - 10) BY <1>1, <1>2, <1>3, <2>2, <2>3 DEF Works, Busy
  <2>5. LogTyped' /\ file' = file /\ synced' = synced /\ map' = map /\ stable' = stable BY <1>3, SameLog
  <2>6. i - 10 \in -1..Len(file)
    <3>1. PICK n \in Nat : n = Len(file) BY LogNow
    <3> QED BY <1>5, <2>1, <3>1
  <2>7. Local("walk", call[t], out[t], i - 10, file, synced, map) BY <1>4, <2>1, <2>6 DEF Local, Recovery
  <2>8. Local("walk", call[t], out[t], i - 10, file', synced', map') BY <2>5, <2>7
  <2>9. pc[t] \notin Marked BY <1>1 DEF Marked
  <2> HIDE DEF i
  <2> QED BY <2>4, <2>5, <2>8, <2>9, WorkStep
<1> QED BY <1>5, <1>9, <1>10, <1>11

\* write_log appends the cells of the record, one by one.
LEMMA WriteCellKeeps ==
  ASSUME KvInv, NEW t \in Threads, WriteCell(t)
  PROVE  KvInv' /\ UNCHANGED <<map, stable>>
<1>1. pc[t] = "write" /\ pc[t] \in Working BY DEF WriteCell, Working, PCs
<1>2. /\ Local("write", call[t], out[t], at[t], file, synced, map)
      /\ call[t] \in Calls /\ out[t] \in OutTypes /\ at[t] \in Int
      /\ pc \in [Threads -> PCs] /\ out \in [Threads -> OutTypes] /\ at \in [Threads -> Int]
      /\ out = [out EXCEPT ![t] = out[t]] /\ at = [at EXCEPT ![t] = at[t]] /\ pc = [pc EXCEPT ![t] = pc[t]]
  BY <1>1, WorkerFacts
<1>3. UNCHANGED <<lockVars, fd, call, crashes>> BY DEF WriteCell
<1> DEFINE k == call[t].key
           v == call[t].val
           b == Body(k, v)
           a == at[t]
<1>4. /\ call[t].op = "put" /\ out[t] = Pending /\ a \in 0..(Len(b) - 1)
      /\ Written(file, a, k, v) /\ Start(file, Len(file) - a)
  BY <1>2 DEF Local
<1>5. k \in Keys /\ v \in Values BY <1>2, <1>4, CallFacts
<1>6. /\ Len(b) \in 1..8
      /\ v # Empty => Listed8(b, Cell("key", k), Nul, Cell("val", v), Nul, Cell("len1", ""), Nul, Cell("len2", ""), Nul)
      /\ \A j \in 1..Len(b) : b[j] \in LogCell /\ b[j] # End
  BY <1>5, BodyIs
<1>7. v # Empty => Len(b) = 8 BY <1>6 DEF Listed8
<1> HIDE DEF a, k, v, b
<1>8. PICK m \in 1..8 : m = Len(b) BY <1>6
<1>9. a \in Nat /\ a + 1 \in 1..m /\ a \in 0..7
  <2>1. a \in 0..(m - 1) BY <1>4, <1>8
  <2> QED BY <2>1
<1>10. b[a + 1] \in LogCell /\ b[a + 1] # End BY <1>6, <1>8, <1>9
<1>11. PICK c \in LogCell : c = b[a + 1] /\ c # End BY <1>10
<1> DEFINE g == Append(file, c)
<1>12. SetLog(g, synced) BY <1>1, <1>11 DEF WriteCell, Append1, a, b, k, v
<1>13. /\ g \in Seq(LogCell) /\ Len(g) = Len(file) + 1 /\ Len(file) \in Nat /\ Agree(file, g, Len(file))
       /\ g[Len(file) + 1] = c /\ Ends(g) = Ends(file)
  BY <1>11, LogNow, AppendAgrees
<1>14. KeptBy(file, synced, g, synced) BY <1>11, LogNow, AppendKeeps
<1> HIDE DEF g
<1>15. synced \in 0..Len(g) BY <1>14 DEF KeptBy
<1>16. LogTyped' /\ file' = g /\ synced' = synced /\ map' = map /\ stable' = stable
  BY <1>12, <1>13, <1>14, <1>15, KeptLog
<1>17. PICK n \in Nat : n = Len(file) BY <1>13
<1>18. a <= n /\ \A j \in 1..a : file[n - a + j] = b[j] BY <1>4, <1>17 DEF Written, b
<1>19. Len(g) = n + 1 BY <1>13, <1>17
<1>20. \A j \in 1..(a + 1) : g[n - a + j] = b[j]
  <2> TAKE j \in 1..(a + 1)
  <2>1. CASE j = a + 1
    <3>1. n - a + j = n + 1 BY <1>9, <1>17, <2>1
    <3> QED BY <1>11, <1>13, <1>17, <2>1, <3>1 DEF b
  <2>2. CASE j # a + 1
    <3>1. j \in 1..a BY <1>9, <2>2
    <3>2. n - a + j \in 1..n BY <1>9, <1>17, <1>18, <3>1
    <3>3. g[n - a + j] = file[n - a + j] BY <1>13, <1>17, <3>2 DEF Agree
    <3> QED BY <1>18, <3>1, <3>3
  <2> QED BY <2>1, <2>2
<1>21. Written(g, a + 1, k, v)
  <2>1. \A j \in Int : Len(g) - (a + 1) + j = n - a + j BY <1>9, <1>17, <1>19
  <2>2. a + 1 <= Len(g) BY <1>9, <1>17, <1>18, <1>19
  <2>3. \A j \in 1..(a + 1) : g[Len(g) - (a + 1) + j] = b[j] BY <1>9, <1>20, <2>1, SMTT(30)
  <2> QED BY <2>2, <2>3 DEF Written, b
<1>22. Start(g, Len(g) - (a + 1))
  <2>1. n - a \in 0..n BY <1>9, <1>17, <1>18
  <2>2. Len(g) - (a + 1) = n - a BY <1>9, <1>17, <1>19
  <2>3. n - a \in Nat /\ n - a <= Len(file) /\ n - a <= Len(g) BY <1>17, <1>19, <2>1
  <2>4. \A i \in 1..(n - a) : g[i] = file[i] BY <1>13, <1>17, <2>1 DEF Agree
  <2>5. SubSeq(g, 1, n - a) = SubSeq(file, 1, n - a) BY <1>13, <2>3, <2>4, LogNow, SamePrefix
  <2>6. Start(file, n - a) BY <1>4, <1>17 DEF a
  <2>7. Start(g, n - a) BY <1>13, <2>5, <2>6 DEF Start
  <2> QED BY <2>2, <2>7
<1>23. pc[t] \notin Marked BY <1>1 DEF Marked
<1>24. CASE a + 1 < Len(b)
  <2>1. at' = [at EXCEPT ![t] = a + 1] /\ UNCHANGED <<pc, out>> BY <1>1, <1>2, <1>24 DEF WriteCell, a, b, k, v
  <2>2. a + 1 \in Int BY <1>9
  <2>3. Works(t, "write", out[t], a + 1) BY <1>1, <1>2, <1>3, <2>1, <2>2 DEF Works, Busy
  <2>4. a + 1 \in 0..(Len(b) - 1) BY <1>8, <1>9, <1>24
  <2>5. Local("write", call[t], out[t], a + 1, file', synced', map')
    BY <1>4, <1>16, <1>21, <1>22, <2>4 DEF Local, Recovery, k, v, b
  <2> QED BY <1>16, <1>23, <2>3, <2>5, WorkStep
<1>25. CASE ~(a + 1 < Len(b)) /\ v = Empty
  <2>1. Result(t, "error") /\ UNCHANGED at BY <1>1, <1>2, <1>25 DEF WriteCell, a, b, k, v
  <2>2. "error" \in OutTypes BY DEF OutTypes
  <2>3. Works(t, "return", "error", a) BY <1>1, <1>2, <1>3, <2>1, <2>2 DEF Works, Result, Goto, Busy, a
  <2>4. a \in -1..(Len(g) + 10) BY <1>9, <1>17, <1>19
  <2>5. Local("return", call[t], "error", a, file', synced', map') BY <1>4, <1>16, <2>4 DEF Local, Recovery
  <2> QED BY <1>16, <1>23, <2>3, <2>5, WorkStep
<1>26. CASE ~(a + 1 < Len(b)) /\ v # Empty
  <2>1. Goto(t, "sync") /\ UNCHANGED <<out, at>> BY <1>1, <1>2, <1>26 DEF WriteCell, a, b, k, v
  <2>2. Works(t, "sync", out[t], a) BY <1>1, <1>2, <1>3, <2>1 DEF Works, Goto, Busy, Working, PCs, a
  <2>3. a + 1 = 8 BY <1>7, <1>8, <1>9, <1>26, SMTT(30)
  <2>4. Written(g, 8, k, v) /\ Start(g, Len(g) - 8) BY <1>21, <1>22, <2>3
  <2>5. Local("sync", call[t], out[t], a, file', synced', map')
    BY <1>4, <1>9, <1>16, <1>26, <2>4 DEF Local, Recovery, k, v
  <2> QED BY <1>16, <1>23, <2>2, <2>5, WorkStep
<1> QED BY <1>24, <1>25, <1>26

LEMMA WriteFailsKeeps ==
  ASSUME KvInv, NEW t \in Threads, WriteFails(t)
  PROVE  KvInv' /\ UNCHANGED <<map, stable>>
<1>1. pc[t] \in {"write", "end"} /\ pc[t] \in Working BY DEF WriteFails, Working, PCs
<1>2. /\ Local(pc[t], call[t], out[t], at[t], file, synced, map)
      /\ call[t] \in Calls /\ at[t] \in Int /\ at = [at EXCEPT ![t] = at[t]]
  BY <1>1, WorkerFacts
<1>3. UNCHANGED <<fileVars, lockVars, fd, call, at, crashes>> /\ Result(t, "error") BY DEF WriteFails
<1>4. call[t].op = "put" /\ at[t] \in 0..7
  <2>1. CASE pc[t] = "write"
    <3>1. call[t].op = "put" /\ at[t] \in 0..(Len(Body(call[t].key, call[t].val)) - 1)
      BY <1>2, <2>1 DEF Local
    <3>2. Len(Body(call[t].key, call[t].val)) \in 1..8 BY <1>2, <3>1, CallFacts, BodyIs
    <3>3. \A m \in 1..8 : 0..(m - 1) \subseteq 0..7 OBVIOUS
    <3> QED BY <3>1, <3>2, <3>3
  <2>2. CASE pc[t] = "end" BY <1>2, <2>2 DEF Local
  <2> QED BY <1>1, <2>1, <2>2
<1>5. LogTyped' /\ file' = file /\ synced' = synced /\ map' = map /\ stable' = stable BY <1>3, SameLog
<1>6. Works(t, "return", "error", at[t]) BY <1>1, <1>2, <1>3 DEF Works, Result, Goto, Busy, OutTypes
<1>7. at[t] \in -1..(Len(file) + 10)
  <2>1. PICK n \in Nat : n = Len(file) BY LogNow
  <2> QED BY <1>4, <2>1
<1>8. Local("return", call[t], "error", at[t], file', synced', map') BY <1>4, <1>5, <1>7 DEF Local, Recovery
<1>9. pc[t] \notin Marked BY <1>1 DEF Marked
<1> QED BY <1>5, <1>6, <1>8, <1>9, WorkStep

\* sync(): what the log says is on the disk.
LEMMA Synchronized ==
  ASSUME KvInv, SetLog(file, Len(file))
  PROVE  /\ LogTyped' /\ file' = file /\ synced' = Len(file) /\ map' = map /\ stable' = map
<1>1. PICK n \in Nat : n = Len(file) BY LogNow
<1>2. GoodLog(file, n)
  <2> SUFFICES ASSUME NEW i \in Ends(file) PROVE i - 1 <= n BY LogNow DEF GoodLog
  <2>1. i \in 1..n BY <1>1, LogNow, EndsAre
  <2> QED BY <1>1, <2>1
<1>3. n \in 0..Len(file) BY <1>1
<1>4. \A i \in Ends(file) : i <= n
  <2> TAKE i \in Ends(file)
  <2>1. i \in 1..n BY <1>1, LogNow, EndsAre
  <2> QED BY <2>1
<1>5. Contents(SubSeq(file, 1, n)) = Contents(file) BY <1>2, <1>3, <1>4, LogNow, AllOnDisk
<1>6. /\ file' = file /\ synced' = n /\ map' = Contents(file) /\ stable' = Contents(SubSeq(file, 1, n))
  BY <1>1 DEF SetLog
<1>7. MapsAre' BY <1>6 DEF MapsAre
<1>8. LogTyped' BY <1>2, <1>3, <1>6, <1>7, LogNow DEF LogTyped
<1> QED BY <1>1, <1>5, <1>6, <1>8, LogNow

LEMMA SyncBodyKeeps ==
  ASSUME KvInv, NEW t \in Threads, SyncBody(t)
  PROVE  KvInv' /\ map' = map /\ stable' = map
<1>1. pc[t] = "sync" /\ pc[t] \in Working BY DEF SyncBody, Working, PCs
<1>2. /\ Local("sync", call[t], out[t], at[t], file, synced, map)
      /\ call[t] \in Calls /\ out[t] \in OutTypes /\ at[t] \in Int
      /\ out = [out EXCEPT ![t] = out[t]] /\ at = [at EXCEPT ![t] = at[t]]
  BY <1>1, WorkerFacts
<1>3. LogTyped' /\ file' = file /\ synced' = Len(file) /\ map' = map /\ stable' = map
  BY Synchronized DEF SyncBody
<1>4. Works(t, "end", out[t], at[t])
  BY <1>1, <1>2 DEF SyncBody, Works, Goto, Busy, Working, PCs, callVars
<1>5. Local("end", call[t], out[t], at[t], file', synced', map')
  BY <1>2, <1>3 DEF Local, Recovery
<1> QED BY <1>3, <1>4, <1>5, WorkStep

LEMMA SyncEndKeeps ==
  ASSUME KvInv, NEW t \in Threads, SyncEnd(t)
  PROVE  KvInv' /\ map' = map /\ stable' = map
<1>1. pc[t] = "sync_end" /\ pc[t] \in Working BY DEF SyncEnd, Working, PCs
<1>2. /\ Local("sync_end", call[t], out[t], at[t], file, synced, map)
      /\ call[t] \in Calls /\ at[t] \in Int /\ at = [at EXCEPT ![t] = at[t]]
  BY <1>1, WorkerFacts
<1>3. LogTyped' /\ file' = file /\ synced' = Len(file) /\ map' = map /\ stable' = map
  BY Synchronized DEF SyncEnd
<1>4. Works(t, "check", "ok", at[t])
  BY <1>1, <1>2 DEF SyncEnd, Works, Goto, Busy, Working, PCs, OutTypes
<1>5. Local("check", call[t], "ok", at[t], file', synced', map')
  BY <1>2, <1>3 DEF Local, Recovery
<1> QED BY <1>3, <1>4, <1>5, WorkStep

\* The end mark: the step that puts the value into the map.
LEMMA MarkKeeps ==
  ASSUME KvInv, NEW t \in Threads, pc[t] = "end", WriteEnd(t)
  PROVE  /\ KvInv' /\ UNCHANGED stable
         /\ call[t].key \in Keys /\ call[t].val \in Values /\ map'[call[t].key] = call[t].val
         /\ map' \in [Keys -> Values \cup {None}]
         /\ \A j \in Keys \ {call[t].key} : map[j] # None => map'[j] = map[j]
<1>1. pc[t] \in Working BY DEF Working, PCs
<1>2. /\ Local("end", call[t], out[t], at[t], file, synced, map)
      /\ call[t] \in Calls /\ out[t] \in OutTypes /\ at[t] \in Int
      /\ out = [out EXCEPT ![t] = out[t]] /\ at = [at EXCEPT ![t] = at[t]]
  BY <1>1, WorkerFacts
<1> DEFINE k == call[t].key
           v == call[t].val
           g == Append(file, End)
<1>3. /\ call[t].op = "put" /\ out[t] = Pending /\ v # Empty /\ at[t] \in 0..7 /\ synced = Len(file)
      /\ Written(file, 8, k, v) /\ Start(file, Len(file) - 8)
  BY <1>2 DEF Local
<1>4. k \in Keys /\ v \in Values BY <1>2, <1>3, CallFacts
<1>5. Append1(End) /\ Goto(t, "end_nul") /\ UNCHANGED <<lockVars, fd, callVars, crashes, failures>>
  BY DEF WriteEnd
<1>6. file' = g /\ synced' = synced /\ map' = Contents(g) /\ stable' = Contents(SubSeq(g, 1, synced))
  BY <1>5 DEF Append1, SetLog
<1>7. GoodLog(file, Len(file)) BY <1>3, LogNow
<1>8. /\ g \in Seq(LogCell) /\ GoodLog(g, Len(file)) /\ SubSeq(g, 1, Len(file)) = SubSeq(file, 1, Len(file))
      /\ Contents(g)[k] = v
      /\ \A j \in Keys \ {k} : Contents(file)[j] # None => Contents(g)[j] = Contents(file)[j]
  BY <1>3, <1>4, <1>7, LogNow, EndMaps
<1>9. Len(g) = Len(file) + 1 BY MarksAre, LogNow, AppendAgrees
<1> HIDE DEF g, k, v
<1>10. PICK n \in Nat : n = Len(file) BY LogNow
<1>11. Contents(g) \in [Keys -> Values \cup {None}] BY <1>8, <1>10, ContentsTyped
<1>12. MapsAre' BY <1>6 DEF MapsAre
<1>13. synced' \in 0..Len(file') BY <1>3, <1>6, <1>9, <1>10
<1>14. LogTyped' BY <1>3, <1>6, <1>8, <1>12, <1>13 DEF LogTyped
<1>15. stable' = stable BY <1>3, <1>6, <1>8, LogNow
<1>16. map'[k] = v /\ map' \in [Keys -> Values \cup {None}] BY <1>6, <1>8, <1>11
<1>17. \A j \in Keys \ {k} : map[j] # None => map'[j] = map[j] BY <1>6, <1>8, LogNow
<1>18. Works(t, "end_nul", out[t], at[t]) BY <1>1, <1>2, <1>5 DEF Works, Goto, Busy, Working, PCs, callVars
<1>19. Local("end_nul", call[t], out[t], at[t], file', synced', map')
  BY <1>3, <1>16 DEF Local, Recovery, k, v
<1>20. "end_nul" \in Marked BY DEF Marked
<1>21. KvInv' BY <1>14, <1>18, <1>19, <1>20, WorkStep
<1> QED BY <1>4, <1>15, <1>16, <1>17, <1>21 DEF k, v

LEMMA EndNulKeeps ==
  ASSUME KvInv, NEW t \in Threads, pc[t] = "end_nul", WriteEnd(t)
  PROVE  KvInv' /\ UNCHANGED <<map, stable>>
<1>1. pc[t] \in Working BY DEF Working, PCs
<1>2. /\ Local("end_nul", call[t], out[t], at[t], file, synced, map)
      /\ call[t] \in Calls /\ out[t] \in OutTypes /\ at[t] \in Int
      /\ out = [out EXCEPT ![t] = out[t]] /\ at = [at EXCEPT ![t] = at[t]]
  BY <1>1, WorkerFacts
<1>3. /\ Append1(Nul) \/ UNCHANGED fileVars
      /\ Goto(t, "sync_end") /\ UNCHANGED <<lockVars, fd, callVars, crashes, failures>>
  BY DEF WriteEnd
<1>4. LogTyped' /\ map' = map /\ stable' = stable
  <2>1. CASE UNCHANGED fileVars BY <2>1, SameLog
  <2>2. CASE Append1(Nul)
    <3>1. SetLog(Append(file, Nul), synced) BY <2>2 DEF Append1
    <3>2. Nul \in LogCell /\ Nul # End BY MarksAre
    <3>3. KeptBy(file, synced, Append(file, Nul), synced) BY <3>2, LogNow, AppendKeeps
    <3>4. Append(file, Nul) \in Seq(LogCell) /\ synced \in 0..Len(Append(file, Nul)) BY <3>3 DEF KeptBy
    <3> QED BY <3>1, <3>3, <3>4, KeptLog
  <2> QED BY <1>3, <2>1, <2>2
<1>5. Works(t, "sync_end", out[t], at[t]) BY <1>1, <1>2, <1>3 DEF Works, Goto, Busy, Working, PCs, callVars
<1>6. Local("sync_end", call[t], out[t], at[t], file', synced', map') BY <1>2, <1>4 DEF Local, Recovery
<1>7. "sync_end" \in Marked BY DEF Marked
<1> QED BY <1>4, <1>5, <1>6, <1>7, WorkStep

-----------------------------------------------------------------------------
(* The locks, the calls and the returns.                                    *)

\* What is known of a thread that does not work on the log.
LEMMA CallerFacts ==
  ASSUME KvInv, NEW t \in Threads
  PROVE  /\ call[t] \in Calls /\ out[t] \in OutTypes /\ at[t] \in Int /\ pc[t] \in PCs
         /\ pc \in [Threads -> PCs] /\ call \in [Threads -> Calls] /\ out \in [Threads -> OutTypes]
         /\ at \in [Threads -> Int] /\ mutex \in [Procs -> Threads \cup {Nobody}]
         /\ fd \in [Procs -> {"unset", "open", "closed"}] /\ flock \in Procs \cup {NoProc}
         /\ pc[t] \in {"idle", "enter", "flock"} => Quiet(pc[t], call[t], out[t], at[t])
         /\ LockInv
<1>1. /\ pc \in [Threads -> PCs] /\ call \in [Threads -> Calls] /\ out \in [Threads -> OutTypes]
      /\ at \in [Threads -> Int] /\ mutex \in [Procs -> Threads \cup {Nobody}]
      /\ fd \in [Procs -> {"unset", "open", "closed"}] /\ flock \in Procs \cup {NoProc}
  BY DEF KvInv, KvTyped, OutTypes
<1>2. pc[t] \in {"idle", "enter", "flock"} => ~Holder(t) BY DEF Holder, Working
<1>3. pc[t] \in {"idle", "enter", "flock"} => Quiet(pc[t], call[t], out[t], at[t])
  BY <1>2 DEF KvInv, ThreadsInv
<1> QED BY <1>1, <1>3 DEF KvInv

\* A step of t that does not touch the log.
LEMMA CallStep ==
  ASSUME KvInv, NEW t \in Threads, KvTyped', LockInv', UNCHANGED <<fileVars, crashes>>, Alone(t),
         Holder(t)' => LocalNow(t)', ~Holder(t)' => QuietNow(t)', pc[t] \notin Marked
  PROVE  KvInv' /\ UNCHANGED <<map, stable>>
<1>1. LogTyped' /\ map' = map /\ stable' = stable BY SameLog
<1>2. ThreadsInv' BY OthersKeep DEF KvInv
<1>3. Flushed'
  <2> SUFFICES ASSUME crashes' = 0, \A u \in Threads : pc'[u] \notin Marked PROVE stable' = map'
    BY DEF Flushed, Marked
  <2>1. \A u \in Threads : pc[u] \notin Marked BY DEF Alone
  <2>2. stable = map BY <2>1 DEF KvInv, Flushed, Marked
  <2> QED BY <1>1, <2>2
<1> QED BY <1>1, <1>2, <1>3 DEF KvInv, LogTyped

LEMMA CallLibraryKeeps ==
  ASSUME KvInv, NEW t \in Threads, NEW c \in Calls, CallLibrary(t, c)
  PROVE  KvInv' /\ UNCHANGED <<map, stable>>
<1>1. /\ pc[t] = "idle" /\ c # NoCall /\ call' = [call EXCEPT ![t] = c] /\ pc' = [pc EXCEPT ![t] = "enter"]
      /\ UNCHANGED <<fileVars, lockVars, fd, out, at, crashes, failures>>
  BY DEF CallLibrary, Goto
<1>2. /\ pc \in [Threads -> PCs] /\ call \in [Threads -> Calls] /\ LockInv
      /\ Quiet("idle", call[t], out[t], at[t])
  BY <1>1, CallerFacts
<1>3. /\ pc'[t] = "enter" /\ call'[t] = c /\ out' = out /\ at' = at /\ flock' = flock /\ mutex' = mutex
      /\ \A u \in Threads \ {t} : pc'[u] = pc[u] /\ call'[u] = call[u]
      /\ UNCHANGED <<file, synced, map>>
  BY <1>1, <1>2 DEF lockVars, fileVars
<1>4. KvTyped'
  <2>1. pc' \in [Threads -> PCs] BY <1>1, <1>2 DEF PCs
  <2>2. call' \in [Threads -> Calls] BY <1>1, <1>2
  <2> QED BY <1>1, <1>3, <2>1, <2>2 DEF KvTyped, KvInv, fileVars
<1>5. LockInv' BY <1>1, <1>2, <1>3 DEF LockInv, Working
<1>6. Alone(t) BY <1>3 DEF Alone
<1>7. ~Holder(t)' BY <1>3 DEF Holder, Working
<1>8. c.op # "none" BY <1>1, CallFacts
<1>9. QuietNow(t)' BY <1>2, <1>3, <1>8 DEF QuietNow, Quiet
<1>10. pc[t] \notin Marked BY <1>1 DEF Marked
<1> QED BY <1>1, <1>4, <1>5, <1>6, <1>7, <1>9, <1>10, CallStep

\* Nobody of a process whose mutex is free is in the library.
LEMMA MutexFree ==
  ASSUME LockInv, NEW t \in Threads, mutex[ProcOf(t)] = Nobody
  PROVE  /\ \A u \in Threads : ProcOf(u) = ProcOf(t) => pc[u] \in {"idle", "enter"}
         /\ flock # ProcOf(t)
<1>1. \A u \in Threads : ProcOf(u) = ProcOf(t) => pc[u] \in {"idle", "enter"}
  BY ThreadFacts DEF LockInv
<1>2. flock # ProcOf(t)
  <2> SUFFICES ASSUME flock = ProcOf(t) PROVE FALSE OBVIOUS
  <2>1. flock # NoProc BY ThreadFacts
  <2>2. PICK u \in Threads : ProcOf(u) = flock /\ pc[u] \in Working \cup {"return"} BY <2>1 DEF LockInv
  <2> QED BY <1>1, <2>2 DEF Working
<1> QED BY <1>1, <1>2

\* What entering, successful or not, does.
Enters(t, label, c, o) ==
  /\ pc[t] = "enter" /\ mutex[ProcOf(t)] = Nobody
  /\ mutex' = [mutex EXCEPT ![ProcOf(t)] = t]
  /\ fd' = fd \/ \E d \in {"open", "closed"} : fd' = [fd EXCEPT ![ProcOf(t)] = d]
  /\ pc' = [pc EXCEPT ![t] = label] /\ label \in {"idle", "flock", "return"}
  /\ call' = [call EXCEPT ![t] = c] /\ c \in Calls
  /\ out' = [out EXCEPT ![t] = o] /\ o \in OutTypes
  /\ UNCHANGED <<fileVars, flock, at, crashes>>

LEMMA EntersKeeps ==
  ASSUME KvInv, NEW t \in Threads, NEW label, NEW c, NEW o, Enters(t, label, c, o), Quiet(label, c, o, 0)
  PROVE  KvInv' /\ UNCHANGED <<map, stable>>
<1>1. /\ pc \in [Threads -> PCs] /\ call \in [Threads -> Calls] /\ out \in [Threads -> OutTypes]
      /\ at \in [Threads -> Int] /\ mutex \in [Procs -> Threads \cup {Nobody}]
      /\ fd \in [Procs -> {"unset", "open", "closed"}] /\ LockInv
      /\ pc[t] = "enter" => Quiet("enter", call[t], out[t], at[t])
  BY CallerFacts
<1>2. at[t] = 0 BY <1>1 DEF Enters, Quiet
<1>3. ProcOf(t) \in Procs BY ThreadFacts
<1>4. /\ pc'[t] = label /\ call'[t] = c /\ out'[t] = o /\ at' = at /\ flock' = flock /\ mutex'[ProcOf(t)] = t
      /\ \A u \in Threads \ {t} : pc'[u] = pc[u] /\ call'[u] = call[u] /\ out'[u] = out[u]
      /\ \A p \in Procs \ {ProcOf(t)} : mutex'[p] = mutex[p]
      /\ UNCHANGED <<file, synced, map, crashes>>
      /\ pc[t] = "enter" /\ mutex[ProcOf(t)] = Nobody /\ label \in {"idle", "flock", "return"}
  BY <1>1, <1>3 DEF Enters, fileVars
<1>5. KvTyped'
  <2>1. pc' \in [Threads -> PCs] BY <1>1, <1>4 DEF PCs, Enters
  <2>2. call' \in [Threads -> Calls] BY <1>1 DEF Enters
  <2>3. out' \in [Threads -> OutTypes] BY <1>1 DEF Enters
  <2>4. mutex' \in [Procs -> Threads \cup {Nobody}] BY <1>1 DEF Enters
  <2>5. fd' \in [Procs -> {"unset", "open", "closed"}] BY <1>1 DEF Enters
  <2> QED BY <1>4, <2>1, <2>2, <2>3, <2>4, <2>5 DEF KvTyped, KvInv, OutTypes
<1>6. /\ \A u \in Threads : ProcOf(u) = ProcOf(t) => pc[u] \in {"idle", "enter"}
      /\ flock # ProcOf(t)
  BY <1>1, <1>4, MutexFree
<1>7. LockInv'
  <2>1. ASSUME NEW u \in Threads, pc'[u] \notin {"idle", "enter"} PROVE mutex'[ProcOf(u)] = u
    <3>1. CASE u = t BY <1>4, <3>1
    <3>2. CASE u # t
      <4>1. pc[u] \notin {"idle", "enter"} BY <1>4, <2>1, <3>2
      <4>2. ProcOf(u) # ProcOf(t) /\ mutex[ProcOf(u)] = u BY <1>1, <1>6, <4>1 DEF LockInv
      <4> QED BY <1>4, <4>2, ThreadFacts
    <3> QED BY <3>1, <3>2
  <2>2. \A u \in Threads : pc'[u] \in Working => flock' = ProcOf(u) BY <1>1, <1>4 DEF LockInv, Working
  <2>3. flock' # NoProc => \E u \in Threads : ProcOf(u) = flock' /\ pc'[u] \in Working \cup {"return"}
    <3> SUFFICES ASSUME flock # NoProc
                 PROVE  \E u \in Threads : ProcOf(u) = flock /\ pc'[u] \in Working \cup {"return"}
      BY <1>4
    <3>1. PICK u \in Threads : ProcOf(u) = flock /\ pc[u] \in Working \cup {"return"} BY <1>1 DEF LockInv
    <3>2. u # t BY <1>6, <3>1
    <3> QED BY <1>4, <3>1, <3>2
  <2> QED BY <2>1, <2>2, <2>3 DEF LockInv
<1>8. Alone(t) BY <1>4 DEF Alone
<1>9. ~Holder(t)' BY <1>4, <1>6 DEF Holder, Working
<1>10. QuietNow(t)' BY <1>2, <1>4 DEF QuietNow
<1>11. pc[t] \notin Marked BY <1>4 DEF Marked
<1>12. UNCHANGED <<fileVars, crashes>> BY DEF Enters
<1> QED BY <1>5, <1>7, <1>8, <1>9, <1>10, <1>11, <1>12, CallStep

LEMMA EnterKeeps ==
  ASSUME KvInv, NEW t \in Threads, Enter(t) \/ OpenFails(t)
  PROVE  KvInv' /\ UNCHANGED <<map, stable>>
<1> DEFINE p == ProcOf(t)
           op == call[t].op
<1>1. pc[t] = "enter" /\ mutex[p] = Nobody /\ mutex' = [mutex EXCEPT ![p] = t]
  BY DEF Enter, OpenFails
<1>2. UNCHANGED <<fileVars, flock, at, crashes>> BY DEF Enter, OpenFails
<1>3. /\ call[t] \in Calls /\ out[t] \in OutTypes /\ call \in [Threads -> Calls] /\ out \in [Threads -> OutTypes]
      /\ Quiet("enter", call[t], out[t], at[t])
  BY <1>1, CallerFacts
<1>4. call = [call EXCEPT ![t] = call[t]] /\ out = [out EXCEPT ![t] = out[t]] BY <1>3
<1>5. out[t] = Pending /\ op \in {"open", "close", "get", "put"} BY <1>3, CallFacts DEF Quiet
<1>6. {"ok", "error", None} \subseteq OutTypes /\ NoCall \in Calls BY DEF OutTypes, Calls
<1>7. CASE OpenFails(t)
  <2>1. /\ pc' = [pc EXCEPT ![t] = "idle"] /\ call' = [call EXCEPT ![t] = NoCall] /\ out' = out
        /\ fd' = [fd EXCEPT ![p] = "closed"]
    BY <1>7 DEF OpenFails, Goto
  <2>2. Enters(t, "idle", NoCall, out[t]) BY <1>1, <1>2, <1>3, <1>4, <1>6, <2>1 DEF Enters
  <2>3. Quiet("idle", NoCall, out[t], 0) BY <1>5 DEF Quiet
  <2> QED BY <2>2, <2>3, EntersKeeps
<1>8. CASE Enter(t)
  <2>1. call' = [call EXCEPT ![t] = call[t]] BY <1>4, <1>8 DEF Enter
  <2>2. ASSUME op \in {"open", "get", "put"}, Goto(t, "flock"), UNCHANGED out,
               fd' = fd \/ \E d \in {"open", "closed"} : fd' = [fd EXCEPT ![p] = d]
        PROVE  KvInv' /\ UNCHANGED <<map, stable>>
    <3>1. Enters(t, "flock", call[t], out[t]) BY <1>1, <1>2, <1>3, <1>4, <2>1, <2>2 DEF Enters, Goto
    <3>2. Quiet("flock", call[t], out[t], 0) BY <1>5, <2>2 DEF Quiet
    <3> QED BY <3>1, <3>2, EntersKeeps
  <2>3. ASSUME NEW o \in {"ok", "error", None}, Result(t, o), op = "put" => o = "error",
               fd' = fd \/ \E d \in {"open", "closed"} : fd' = [fd EXCEPT ![p] = d]
        PROVE  KvInv' /\ UNCHANGED <<map, stable>>
    <3>1. Enters(t, "return", call[t], o) BY <1>1, <1>2, <1>3, <1>6, <2>1, <2>3 DEF Enters, Result, Goto
    <3>2. Quiet("return", call[t], o, 0) BY <1>5, <2>3 DEF Quiet
    <3> QED BY <3>1, <3>2, EntersKeeps
  <2>4. CASE op = "open" /\ fd[p] = "open" /\ Result(t, "ok") /\ UNCHANGED fd BY <2>3, <2>4
  <2>5. CASE op = "open" /\ fd[p] # "open" /\ fd' = [fd EXCEPT ![p] = "open"] /\ Goto(t, "flock") /\ UNCHANGED out
    BY <2>2, <2>5
  <2>6. CASE op = "close" /\ fd[p] = "open" /\ fd' = [fd EXCEPT ![p] = "closed"] /\ Result(t, "ok")
    BY <2>3, <2>6
  <2>7. CASE op \in {"put", "get"} /\ fd[p] = "open" /\ Goto(t, "flock") /\ UNCHANGED <<fd, out>>
    BY <2>2, <2>7
  <2>8. CASE op # "open" /\ fd[p] # "open" /\ UNCHANGED fd /\ Result(t, IF op = "get" THEN None ELSE "error")
    BY <2>3, <2>8
  <2> QED BY <1>8, <2>4, <2>5, <2>6, <2>7, <2>8 DEF Enter
<1> QED BY <1>7, <1>8

LEMMA FlockKeeps ==
  ASSUME KvInv, NEW t \in Threads, Flock(t)
  PROVE  KvInv' /\ UNCHANGED <<map, stable>>
<1> DEFINE p == ProcOf(t)
           label == IF call[t].op = "open" THEN "check" ELSE "test"
<1>1. /\ pc[t] = "flock" /\ flock \in {NoProc, p} /\ flock' = p /\ pc' = [pc EXCEPT ![t] = label]
      /\ UNCHANGED <<fileVars, mutex, fd, callVars, crashes>>
  BY DEF Flock, Goto
<1>2. /\ pc \in [Threads -> PCs] /\ LockInv /\ Quiet("flock", call[t], out[t], at[t])
  BY <1>1, CallerFacts
<1>3. p \in Procs /\ p # NoProc BY ThreadFacts
<1>4. /\ pc'[t] = label /\ call' = call /\ out' = out /\ at' = at /\ mutex' = mutex
      /\ \A u \in Threads \ {t} : pc'[u] = pc[u]
      /\ UNCHANGED <<file, synced, map>> /\ label \in {"check", "test"}
  BY <1>1, <1>2 DEF callVars, fileVars
<1> HIDE DEF p, label
<1>5. KvTyped'
  <2>1. pc' \in [Threads -> PCs] BY <1>1, <1>2, <1>4 DEF PCs
  <2> QED BY <1>1, <1>3, <1>4, <2>1 DEF KvTyped, KvInv
<1>6. mutex[p] = t BY <1>1, <1>2 DEF LockInv, p
<1>7. LockInv'
  <2>1. \A u \in Threads : pc'[u] \notin {"idle", "enter"} => mutex'[ProcOf(u)] = u
    BY <1>2, <1>4, <1>6 DEF LockInv, p
  <2>2. ASSUME NEW u \in Threads, pc'[u] \in Working PROVE flock' = ProcOf(u)
    <3>1. CASE u = t BY <1>1, <3>1 DEF p
    <3>2. CASE u # t
      <4>1. pc[u] \in Working BY <1>4, <2>2, <3>2
      <4>2. flock = ProcOf(u) BY <1>2, <4>1 DEF LockInv
      <4> QED BY <1>1, <4>2, ThreadFacts
    <3> QED BY <3>1, <3>2
  <2>3. ProcOf(t) = flock' /\ pc'[t] \in Working BY <1>1, <1>4 DEF p, Working, PCs
  <2> QED BY <2>1, <2>2, <2>3 DEF LockInv
<1>8. Alone(t)
  <2>1. {flock, flock'} \subseteq {NoProc, p} BY <1>1
  <2> QED BY <1>4, <1>6, <2>1 DEF Alone, p
<1>9. Holder(t)' BY <1>4 DEF Holder, Working, PCs
<1>10. Local(label, call[t], out[t], at[t], file, synced, map)
  BY <1>2, <1>4 DEF Local, Quiet, Recovery, label
<1>11. LocalNow(t)' BY <1>4, <1>10 DEF LocalNow
<1>12. pc[t] \notin Marked BY <1>1 DEF Marked
<1> QED BY <1>1, <1>5, <1>7, <1>8, <1>9, <1>11, <1>12, CallStep

LEMMA ReturnKeeps ==
  ASSUME KvInv, NEW t \in Threads, Return(t)
  PROVE  KvInv' /\ UNCHANGED <<map, stable>>
<1> DEFINE p == ProcOf(t)
<1>1. /\ pc[t] = "return" /\ flock' = (IF flock = p THEN NoProc ELSE flock) /\ mutex' = [mutex EXCEPT ![p] = Nobody]
      /\ pc' = [pc EXCEPT ![t] = "idle"] /\ call' = [call EXCEPT ![t] = NoCall]
      /\ out' = [out EXCEPT ![t] = Pending] /\ at' = [at EXCEPT ![t] = 0]
      /\ UNCHANGED <<fileVars, fd, crashes>>
  BY DEF Return, Goto
<1>2. /\ pc \in [Threads -> PCs] /\ call \in [Threads -> Calls] /\ out \in [Threads -> OutTypes]
      /\ at \in [Threads -> Int] /\ mutex \in [Procs -> Threads \cup {Nobody}] /\ flock \in Procs \cup {NoProc}
      /\ LockInv
  BY CallerFacts
<1>3. p \in Procs /\ p # NoProc BY ThreadFacts
<1>4. /\ pc'[t] = "idle" /\ call'[t] = NoCall /\ out'[t] = Pending /\ at'[t] = 0
      /\ \A u \in Threads \ {t} : pc'[u] = pc[u] /\ call'[u] = call[u] /\ out'[u] = out[u] /\ at'[u] = at[u]
      /\ \A q \in Procs \ {p} : mutex'[q] = mutex[q]
      /\ UNCHANGED <<file, synced, map>>
  BY <1>1, <1>2, <1>3 DEF fileVars
<1>5. mutex[p] = t BY <1>1, <1>2 DEF LockInv
<1> HIDE DEF p
<1>6. KvTyped'
  <2>1. pc' \in [Threads -> PCs] BY <1>1, <1>2 DEF PCs
  <2>2. call' \in [Threads -> Calls] BY <1>1, <1>2 DEF Calls
  <2>3. out' \in [Threads -> OutTypes] BY <1>1, <1>2 DEF OutTypes
  <2>4. at' \in [Threads -> Int] BY <1>1, <1>2
  <2>5. mutex' \in [Procs -> Threads \cup {Nobody}] BY <1>1, <1>2
  <2>6. flock' \in Procs \cup {NoProc} BY <1>1, <1>2
  <2> QED BY <1>1, <1>4, <2>1, <2>2, <2>3, <2>4, <2>5, <2>6 DEF KvTyped, KvInv, OutTypes
<1>7. LockInv'
  <2>1. ASSUME NEW u \in Threads, pc'[u] \notin {"idle", "enter"}
        PROVE  mutex'[ProcOf(u)] = u /\ ProcOf(u) # p /\ u # t
    <3>1. u # t /\ pc[u] \notin {"idle", "enter"} BY <1>4, <2>1
    <3>2. mutex[ProcOf(u)] = u BY <1>2, <3>1 DEF LockInv
    <3>3. ProcOf(u) # p BY <1>5, <3>1, <3>2
    <3> QED BY <1>4, <3>1, <3>2, <3>3, ThreadFacts
  <2>2. ASSUME NEW u \in Threads, pc'[u] \in Working PROVE flock' = ProcOf(u)
    <3>1. pc'[u] \notin {"idle", "enter"} BY <2>2 DEF Working
    <3>2. u # t /\ ProcOf(u) # p BY <2>1, <3>1
    <3>3. flock = ProcOf(u) BY <1>2, <1>4, <2>2, <3>2 DEF LockInv
    <3> QED BY <1>1, <3>2, <3>3
  <2>3. ASSUME flock' # NoProc PROVE \E u \in Threads : ProcOf(u) = flock' /\ pc'[u] \in Working \cup {"return"}
    <3>1. flock' = flock /\ flock # p BY <1>1, <2>3
    <3>2. PICK u \in Threads : ProcOf(u) = flock /\ pc[u] \in Working \cup {"return"}
      BY <1>2, <2>3, <3>1 DEF LockInv
    <3>3. u # t BY <3>1, <3>2 DEF p
    <3> QED BY <1>4, <3>1, <3>2, <3>3
  <2> QED BY <2>1, <2>2, <2>3 DEF LockInv
<1>8. Alone(t)
  <2>1. flock' = flock \/ {flock, flock'} \subseteq {NoProc, p} BY <1>1
  <2> QED BY <1>4, <1>5, <2>1 DEF Alone, p
<1>9. ~Holder(t)' BY <1>4 DEF Holder, Working
<1>10. QuietNow(t)' BY <1>4 DEF QuietNow, Quiet
<1>11. pc[t] \notin Marked BY <1>1 DEF Marked
<1> QED BY <1>1, <1>6, <1>7, <1>8, <1>9, <1>10, <1>11, CallStep

-----------------------------------------------------------------------------
(* Crashes and power failures.                                              *)

LEMMA DieKeeps ==
  ASSUME KvInv, NEW P \in SUBSET Procs, Die(P), file' \in Seq(LogCell), synced' \in 0..Len(file'), crashes' \in Nat
  PROVE  /\ KvTyped' /\ LockInv'
         /\ \A t \in Threads : ProcOf(t) \in P => ~Holder(t)' /\ QuietNow(t)'
         /\ \A t \in Threads : ProcOf(t) \notin P =>
              /\ (Holder(t)' <=> Holder(t))
              /\ pc'[t] = pc[t] /\ call'[t] = call[t] /\ out'[t] = out[t] /\ at'[t] = at[t]
<1>1. /\ pc \in [Threads -> PCs] /\ call \in [Threads -> Calls] /\ out \in [Threads -> OutTypes]
      /\ at \in [Threads -> Int] /\ mutex \in [Procs -> Threads \cup {Nobody}]
      /\ fd \in [Procs -> {"unset", "open", "closed"}] /\ flock \in Procs \cup {NoProc}
      /\ LockInv
  BY DEF KvInv, KvTyped, OutTypes
<1>2. /\ flock' = (IF flock \in P THEN NoProc ELSE flock)
      /\ mutex' = [p \in Procs |-> IF p \in P THEN Nobody ELSE mutex[p]]
      /\ fd' = [p \in Procs |-> IF p \in P THEN "unset" ELSE fd[p]]
      /\ pc' = [t \in Threads |-> IF ProcOf(t) \in P THEN "idle" ELSE pc[t]]
      /\ call' = [t \in Threads |-> IF ProcOf(t) \in P THEN NoCall ELSE call[t]]
      /\ out' = [t \in Threads |-> IF ProcOf(t) \in P THEN Pending ELSE out[t]]
      /\ at' = [t \in Threads |-> IF ProcOf(t) \in P THEN 0 ELSE at[t]]
  BY DEF Die
<1>3. KvTyped'
  <2>1. pc' \in [Threads -> PCs] BY <1>1, <1>2 DEF PCs
  <2>2. call' \in [Threads -> Calls] BY <1>1, <1>2 DEF Calls
  <2>3. out' \in [Threads -> OutTypes] BY <1>1, <1>2 DEF OutTypes
  <2>4. at' \in [Threads -> Int] BY <1>1, <1>2
  <2>5. mutex' \in [Procs -> Threads \cup {Nobody}] BY <1>1, <1>2
  <2>6. fd' \in [Procs -> {"unset", "open", "closed"}] BY <1>1, <1>2
  <2>7. flock' \in Procs \cup {NoProc} BY <1>1, <1>2
  <2> QED BY <2>1, <2>2, <2>3, <2>4, <2>5, <2>6, <2>7 DEF KvTyped, OutTypes
<1>4. ASSUME NEW t \in Threads, ProcOf(t) \in P
      PROVE  pc'[t] = "idle" /\ call'[t] = NoCall /\ out'[t] = Pending /\ at'[t] = 0
  BY <1>2, <1>4
<1>5. ASSUME NEW t \in Threads, ProcOf(t) \notin P
      PROVE  /\ pc'[t] = pc[t] /\ call'[t] = call[t] /\ out'[t] = out[t] /\ at'[t] = at[t]
             /\ mutex'[ProcOf(t)] = mutex[ProcOf(t)] /\ (flock' = ProcOf(t) <=> flock = ProcOf(t))
  BY <1>2, <1>5, ThreadFacts
<1>6. LockInv'
  <2>1. ASSUME NEW u \in Threads, pc'[u] \notin {"idle", "enter"} PROVE mutex'[ProcOf(u)] = u
    BY <1>1, <1>4, <1>5, <2>1 DEF LockInv
  <2>2. ASSUME NEW u \in Threads, pc'[u] \in Working PROVE flock' = ProcOf(u)
    BY <1>1, <1>4, <1>5, <2>2 DEF LockInv, Working
  <2>3. ASSUME flock' # NoProc PROVE \E u \in Threads : ProcOf(u) = flock' /\ pc'[u] \in Working \cup {"return"}
    <3>1. flock' = flock /\ flock \notin P BY <1>2, <2>3
    <3>2. PICK u \in Threads : ProcOf(u) = flock /\ pc[u] \in Working \cup {"return"}
      BY <1>1, <2>3, <3>1 DEF LockInv
    <3> QED BY <1>5, <3>1, <3>2
  <2> QED BY <2>1, <2>2, <2>3 DEF LockInv
<1>7. ASSUME NEW t \in Threads, ProcOf(t) \in P PROVE ~Holder(t)' /\ QuietNow(t)'
  <2>1. pc'[t] = "idle" /\ call'[t] = NoCall /\ out'[t] = Pending /\ at'[t] = 0 BY <1>4, <1>7
  <2>2. ~Holder(t)' BY <2>1 DEF Holder, Working
  <2>3. QuietNow(t)' BY <2>1 DEF QuietNow, Quiet
  <2> QED BY <2>2, <2>3
<1>8. ASSUME NEW t \in Threads, ProcOf(t) \notin P PROVE Holder(t)' <=> Holder(t)
  BY <1>5, <1>8 DEF Holder
<1> QED BY <1>3, <1>5, <1>6, <1>7, <1>8

LEMMA CrashKeeps ==
  ASSUME KvInv, NEW p \in Procs, Crash(p)
  PROVE  KvInv' /\ UNCHANGED <<map, stable>>
<1>1. Die({p}) /\ crashes' = crashes + 1 /\ UNCHANGED <<fileVars, failures>> BY DEF Crash
<1>2. LogTyped' /\ file' = file /\ synced' = synced /\ map' = map /\ stable' = stable BY <1>1, SameLog
<1>3. crashes \in Nat BY DEF KvInv, KvTyped
<1>4. crashes' \in Nat /\ crashes' # 0 BY <1>1, <1>3
<1>5. {p} \in SUBSET Procs OBVIOUS
<1>6. file' \in Seq(LogCell) /\ synced' \in 0..Len(file') BY <1>2 DEF LogTyped
<1>7. /\ KvTyped' /\ LockInv'
      /\ \A t \in Threads : ProcOf(t) \in {p} => ~Holder(t)' /\ QuietNow(t)'
      /\ \A t \in Threads : ProcOf(t) \notin {p} =>
           /\ (Holder(t)' <=> Holder(t))
           /\ pc'[t] = pc[t] /\ call'[t] = call[t] /\ out'[t] = out[t] /\ at'[t] = at[t]
  BY <1>1, <1>4, <1>5, <1>6, DieKeeps
<1>8. ThreadsInv'
  <2> SUFFICES ASSUME NEW t \in Threads PROVE (Holder(t)' => LocalNow(t)') /\ (~Holder(t)' => QuietNow(t)')
    BY DEF ThreadsInv, LocalNow, QuietNow
  <2>1. CASE ProcOf(t) \in {p} BY <1>7, <2>1
  <2>2. CASE ProcOf(t) \notin {p}
    <3>1. /\ (Holder(t)' <=> Holder(t))
          /\ pc'[t] = pc[t] /\ call'[t] = call[t] /\ out'[t] = out[t] /\ at'[t] = at[t]
      BY <1>7, <2>2
    <3>2. (Holder(t) => LocalNow(t)) /\ (~Holder(t) => QuietNow(t))
      BY DEF KvInv, ThreadsInv, LocalNow, QuietNow
    <3> QED BY <1>2, <3>1, <3>2 DEF LocalNow, QuietNow
  <2> QED BY <2>1, <2>2
<1>9. Flushed' BY <1>4 DEF Flushed
<1> QED BY <1>2, <1>7, <1>8, <1>9 DEF KvInv, LogTyped

LEMMA PowerFailureKeeps ==
  ASSUME KvInv, PowerFailure
  PROVE  KvInv' /\ map' \in {map, stable} /\ stable' = map'
<1>1. Die(Procs) /\ UNCHANGED crashes BY DEF PowerFailure
<1>2. PICK n \in synced..Len(file) :
        \E garbage \in Stretches(synced, n) : SetLog(Remains(file, n, garbage), n)
  BY DEF PowerFailure
<1>3. PICK garbage \in Stretches(synced, n) : SetLog(Remains(file, n, garbage), n) BY <1>2
<1>4. garbage \in SUBSET ((synced + 1)..n)
  <2>1. PICK s \in Nat : s = synced BY LogNow
  <2>2. PICK m \in Nat : m = Len(file) BY LogNow
  <2>3. n \in Nat BY <2>1, <2>2
  <2>4. garbage \in Stretches(s, n) BY <2>1
  <2>5. garbage \in SUBSET ((s + 1)..n) BY <2>3, <2>4 DEF Stretches
  <2> QED BY <2>1, <2>5
<1> DEFINE g == Remains(file, n, garbage)
<1>5. /\ g \in Seq(LogCell) /\ Len(g) = n /\ GoodLog(g, n)
      /\ Contents(SubSeq(g, 1, n)) = Contents(g)
      /\ Contents(g) \in {Contents(file), Contents(SubSeq(file, 1, synced))}
  BY <1>4, LogNow, PowerKeeps
<1>6. SetLog(g, n) BY <1>3
<1> HIDE DEF g
<1>7. file' = g /\ synced' = n /\ map' = Contents(g) /\ stable' = Contents(SubSeq(g, 1, n)) BY <1>6 DEF SetLog
<1>8. map' \in {map, stable} /\ stable' = map' BY <1>5, <1>7, LogNow
<1>9. n \in Nat
  <2>1. PICK s \in Nat : s = synced BY LogNow
  <2>2. PICK m \in Nat : m = Len(file) BY LogNow
  <2> QED BY <2>1, <2>2
<1>10. file' \in Seq(LogCell) /\ synced' \in 0..Len(file') BY <1>5, <1>7, <1>9
<1>11. crashes' \in Nat BY <1>1 DEF KvInv, KvTyped
<1>12. /\ KvTyped' /\ LockInv'
       /\ \A t \in Threads : ProcOf(t) \in Procs => ~Holder(t)' /\ QuietNow(t)'
  BY <1>1, <1>10, <1>11, DieKeeps
<1>13. ThreadsInv' BY <1>12, ThreadFacts DEF ThreadsInv, QuietNow
<1>14. MapsAre' BY <1>7 DEF MapsAre
<1>15. GoodLog(file', synced') BY <1>5, <1>7
<1>16. Flushed' BY <1>8 DEF Flushed
<1> QED BY <1>8, <1>12, <1>13, <1>14, <1>15, <1>16 DEF KvInv

-----------------------------------------------------------------------------
(* The theorems.                                                            *)

MapKept == UNCHANGED <<map, stable>>

\* Every step keeps the invariant, and is a step of the abstract map.
LEMMA KvStep ==
  KvInv /\ [Next]_vars => KvInv' /\ [AM!AbsNext]_<<map, stable>>
<1> SUFFICES ASSUME KvInv, [Next]_vars PROVE KvInv' /\ [AM!AbsNext]_<<map, stable>> OBVIOUS
<1>1. ASSUME MapKept PROVE [AM!AbsNext]_<<map, stable>> BY <1>1 DEF MapKept
<1>2. ASSUME map' = map, stable' = map PROVE AM!AbsNext BY <1>2 DEF AM!AbsNext, AM!AbsFlush
<1>3. CASE UNCHANGED vars
  <2>1. /\ UNCHANGED <<file, synced, map, stable, flock, mutex, fd, pc, call, out, at, crashes>>
    BY <1>3 DEF vars, fileVars, lockVars, callVars
  <2>2. KvTyped' /\ LockInv' BY <2>1 DEF KvInv, KvTyped, LockInv
  <2>3. GoodLog(file', synced') /\ MapsAre' /\ Flushed' BY <2>1 DEF KvInv, MapsAre, Flushed
  <2>4. ThreadsInv'
    <3> SUFFICES ASSUME NEW t \in Threads PROVE (Holder(t)' => LocalNow(t)') /\ (~Holder(t)' => QuietNow(t)')
      BY DEF ThreadsInv, LocalNow, QuietNow
    <3>1. (Holder(t) => LocalNow(t)) /\ (~Holder(t) => QuietNow(t))
      BY DEF KvInv, ThreadsInv, LocalNow, QuietNow
    <3>2. Holder(t)' <=> Holder(t) BY <2>1 DEF Holder
    <3> QED BY <2>1, <3>1, <3>2 DEF LocalNow, QuietNow
  <2>5. MapKept BY <2>1 DEF MapKept
  <2> QED BY <1>1, <2>2, <2>3, <2>4, <2>5 DEF KvInv
<1>4. ASSUME NEW t \in Threads, NEW c \in Calls, CallLibrary(t, c) PROVE KvInv' /\ MapKept
  BY <1>4, CallLibraryKeeps DEF MapKept
<1>5. ASSUME NEW t \in Threads, ThreadStep(t) PROVE KvInv' /\ [AM!AbsNext]_<<map, stable>>
  <2>1. CASE Enter(t) \/ OpenFails(t) BY <1>1, <2>1, EnterKeeps DEF MapKept
  <2>2. CASE Flock(t) BY <1>1, <2>2, FlockKeeps DEF MapKept
  <2>3. CASE Return(t) BY <1>1, <2>3, ReturnKeeps DEF MapKept
  <2>4. CASE CrashCheck(t) BY <1>1, <2>4, CrashCheckKeeps DEF MapKept
  <2>5. CASE Repair(t) BY <1>1, <2>5, RepairKeeps DEF MapKept
  <2>6. CASE Truncate(t) BY <1>1, <2>6, TruncateKeeps DEF MapKept
  <2>7. CASE TestEmpty(t) BY <1>1, <2>7, TestEmptyKeeps DEF MapKept
  <2>8. CASE Walk(t) BY <1>1, <2>8, WalkKeeps DEF MapKept
  <2>9. CASE WriteCell(t) BY <1>1, <2>9, WriteCellKeeps DEF MapKept
  <2>10. CASE WriteFails(t) BY <1>1, <2>10, WriteFailsKeeps DEF MapKept
  <2>11. CASE SyncBody(t) BY <1>2, <2>11, SyncBodyKeeps
  <2>12. CASE WriteEnd(t)
    <3>1. CASE pc[t] = "end"
      <4> DEFINE k == call[t].key
                 v == call[t].val
      <4>1. /\ KvInv' /\ UNCHANGED stable /\ k \in Keys /\ v \in Values /\ map'[k] = v
            /\ map' \in [Keys -> Values \cup {None}]
            /\ \A j \in Keys \ {k} : map[j] # None => map'[j] = map[j]
        BY <2>12, <3>1, MarkKeeps
      <4>2. AM!AbsPut(k, v) BY <4>1 DEF AM!AbsPut
      <4> HIDE DEF k, v
      <4>3. AM!AbsNext BY <4>1, <4>2 DEF AM!AbsNext
      <4> QED BY <4>1, <4>3
    <3>2. CASE pc[t] = "end_nul" BY <1>1, <2>12, <3>2, EndNulKeeps DEF MapKept
    <3>3. pc[t] = "end" \/ pc[t] = "end_nul" BY <2>12 DEF WriteEnd
    <3> QED BY <3>1, <3>2, <3>3
  <2>13. CASE SyncEnd(t) BY <1>2, <2>13, SyncEndKeeps
  <2> QED BY <1>5, <2>1, <2>2, <2>3, <2>4, <2>5, <2>6, <2>7, <2>8, <2>9, <2>10, <2>11, <2>12, <2>13
      DEF ThreadStep
<1>6. ASSUME NEW p \in Procs, Crash(p) PROVE KvInv' /\ MapKept BY <1>6, CrashKeeps DEF MapKept
<1>7. CASE PowerFailure
  <2>1. KvInv' /\ map' \in {map, stable} /\ stable' = map' BY <1>7, PowerFailureKeeps
  <2> QED BY <2>1 DEF AM!AbsNext, AM!AbsFail
<1> QED BY <1>1, <1>3, <1>4, <1>5, <1>6, <1>7 DEF Next

LEMMA Invariant == Spec => []KvInv
<1>1. KvInv /\ [Next]_vars => KvInv' BY KvStep
<1> QED BY KvInit, <1>1, PTL DEF Spec

\* One thread at a time works on the log, whatever the processes and threads
\* are that call kvdb_open, kvdb_put and kvdb_get: the mutex of the process and
\* flock together let nobody else in (libkvdb/kvdb.c).
THEOREM KvdbOneWorker == Spec => []OneWorker
<1>1. KvInv => OneWorker BY OneHolder DEF KvInv, OneWorker, Holder
<1> QED BY Invariant, <1>1, PTL

\* At every moment the state of the library has the declared form, and every
\* end mark of the log, which is what recovery keeps, stands behind a record
\* that is whole and not garbage: because write_log syncs the record before it
\* writes the mark, however the power fails.
THEOREM KvdbLog == Spec => []LogInv
<1>1. KvInv => TypeOK
  <2> SUFFICES ASSUME KvInv PROVE TypeOK OBVIOUS
  <2>1. \A i \in DOMAIN file : file[i] \in [is : {"key", "val", "len1", "len2", "nul", "end"},
                                            of : Keys \cup Values \cup {""}, lost : BOOLEAN]
    <3> TAKE i \in DOMAIN file
    <3>1. i \in 1..Len(file) BY LogNow
    <3>2. file[i] \in LogCell BY <3>1, LogNow, EndsAre
    <3> QED BY <3>2 DEF LogCell, CellKinds
  <2>2. ASSUME NEW t \in Threads PROVE at[t] \in -1..(Len(file) + 10)
    <3>1. PICK n \in Nat : n = Len(file) BY LogNow
    <3>2. pc[t] \in PCs /\ call[t] \in Calls BY CallerFacts
    <3>3. CASE ~Holder(t)
      <4>1. at[t] = 0 BY <3>3 DEF KvInv, ThreadsInv, Quiet
      <4> QED BY <3>1, <4>1
    <3>4. CASE Holder(t)
      <4>1. Local(pc[t], call[t], out[t], at[t], file, synced, map) BY <3>4 DEF KvInv, ThreadsInv
      <4>2. pc[t] \in Working \cup {"return"} BY <3>4 DEF Holder
      <4>3. CASE pc[t] = "return" BY <4>1, <4>3 DEF Local
      <4>4. CASE pc[t] = "test"
        <5>1. at[t] = 0 BY <4>1, <4>4 DEF Local
        <5> QED BY <3>1, <5>1
      <4>5. CASE pc[t] \in Recovery \cup {"sync", "end", "end_nul", "sync_end"}
        <5>1. at[t] \in 0..7 BY <4>1, <4>5 DEF Local, Recovery
        <5> QED BY <3>1, <5>1
      <4>6. CASE pc[t] = "walk"
        <5>1. at[t] \in -1..Len(file) BY <4>1, <4>6 DEF Local
        <5> QED BY <3>1, <5>1
      <4>7. CASE pc[t] = "write"
        <5>1. call[t].op = "put" /\ at[t] \in 0..(Len(Body(call[t].key, call[t].val)) - 1)
          BY <4>1, <4>7 DEF Local
        <5>2. Len(Body(call[t].key, call[t].val)) \in 1..8 BY <3>2, <5>1, CallFacts, BodyIs
        <5>3. \A m \in 1..8 : 0..(m - 1) \subseteq -1..(n + 10) BY <3>1
        <5> QED BY <3>1, <5>1, <5>2, <5>3
      <4> QED BY <4>2, <4>3, <4>4, <4>5, <4>6, <4>7 DEF Working, PCs, Recovery
    <3> QED BY <3>3, <3>4
  <2> QED BY <2>1, <2>2 DEF TypeOK, KvInv, KvTyped
<1>2. KvInv => NoTornRecord BY DEF KvInv, GoodLog, NoTornRecord
<1> QED BY Invariant, <1>1, <1>2, PTL DEF LogInv

\* A get returns what the records of the log say of its key, and a put that
\* reports success has its value there when it returns: whatever other threads
\* and processes put meanwhile, and after any repair of the log.
THEOREM KvdbAnswers == Spec => []Answers
<1>1. KvInv => Answers
  <2> SUFFICES ASSUME KvInv, NEW t \in Threads, pc[t] = "return", flock = ProcOf(t)
               PROVE  /\ call[t].op = "get" => out[t] = map[call[t].key]
                      /\ call[t].op = "put" /\ out[t] = "ok" => map[call[t].key] = call[t].val
    BY DEF Answers
  <2>1. Holder(t) BY DEF Holder
  <2>2. Local("return", call[t], out[t], at[t], file, synced, map) BY <2>1 DEF KvInv, ThreadsInv
  <2> QED BY <2>2 DEF Local
<1> QED BY Invariant, <1>1, PTL

\* As long as no process dies in the library, a put that reports success has its
\* record and the end mark on the disk: it survives any number of power failures.
THEOREM KvdbAckedIsDurable == Spec => []AckedIsDurableUnlessCrash
<1>1. KvInv => AckedIsDurableUnlessCrash
  <2> SUFFICES ASSUME KvInv, crashes = 0, NEW t \in Threads, pc[t] = "return", call[t].op = "put", out[t] = "ok"
               PROVE  stable[call[t].key] = call[t].val
    BY DEF AckedIsDurableUnlessCrash, AckedIsDurable
  <2>1. Holder(t) BY DEF KvInv, ThreadsInv, Quiet
  <2>2. Local("return", call[t], out[t], at[t], file, synced, map) BY <2>1 DEF KvInv, ThreadsInv
  <2>3. map[call[t].key] = call[t].val BY <2>2 DEF Local
  <2>4. \A u \in Threads : pc[u] \notin {"end_nul", "sync_end"}
    <3> SUFFICES ASSUME NEW u \in Threads, pc[u] \in {"end_nul", "sync_end"} PROVE FALSE OBVIOUS
    <3>1. Holder(u) BY DEF Holder, Working, PCs
    <3>2. u = t BY <2>1, <3>1, OneHolder DEF KvInv
    <3> QED BY <3>2
  <2>5. stable = map BY <2>4 DEF KvInv, Flushed
  <2> QED BY <2>3, <2>5
<1> QED BY Invariant, <1>1, PTL

\* libkvdb implements the abstract map: the step that writes an end mark puts one
\* key, a sync flushes, a power failure loses what was not flushed, and no other
\* step, of crash recovery or of a process that dies, changes what is stored.
THEOREM KvdbImplementsAbsMap == Spec => ImplementsAbsMap
<1>1. Init => AM!AbsInit
  <2> SUFFICES ASSUME Init PROVE map = [k \in Keys |-> None] /\ stable = map BY DEF AM!AbsInit
  <2>1. <<>> \in Seq(LogCell) /\ Len(<<>>) = 0 BY EmptySeq
  <2>2. Ends(<<>>) \in SUBSET (1..Len(<<>>)) BY <2>1, EndsAre
  <2>3. Ends(<<>>) = {} BY <2>1, <2>2
  <2>4. Contents(<<>>) = [k \in Keys |-> None] BY <2>3 DEF Contents
  <2> QED BY <2>4 DEF Init
<1>2. KvInv /\ [Next]_vars => [AM!AbsNext]_<<map, stable>> BY KvStep
<1> QED BY Invariant, <1>1, <1>2, PTL DEF Spec, ImplementsAbsMap, AM!AbsSpec
=============================================================================
