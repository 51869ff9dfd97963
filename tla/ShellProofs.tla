---------------------------- MODULE ShellProofs ----------------------------
(***************************************************************************)
(* Machine-checked proofs about Shell, and Vfs and BlkFs below it, for     *)
(* every number of shells, descriptors, blocks and inodes, and all paths.  *)
(*                                                                         *)
(* Everything is said of the places that name an inode (LinksTo) and the   *)
(* descriptors that are open on it (OpensOf): an inode with neither is     *)
(* dead, whatever the table still says of it.                              *)
(***************************************************************************)
EXTENDS Shell, DataLemmas

\* x is y, for the provers only where it is unfolded.
Is(x, y) == x = y

Types == {"dir", "file"}
InodeRec ==
  {n \in [type : Types, refcnt : Int, linkcnt : Int, unlink : {0, 1}, size : Nat, blk : Blks \cup {-1}] :
     n.type = "dir" => n.blk \in Blks}
\* The provers do not know that these are strings.
Names == STRING \cup {"dev", "tty", "proc", "mem", "deleted"}
Entry == [ino : Int, name : Names]

\* Behind an entry that says 0 there are no names, so a search misses none.
Tidy(dir) == \A s, u \in DOMAIN dir : s < u /\ dir[s].ino = 0 => dir[u].ino <= 0

Dirs == {dir \in Seq(Entry) : Len(dir) <= DirSlots /\ Tidy(dir)}

DiskTyped(d) ==
  /\ d \in [inodes : Seq(InodeRec), occupied : [Blks -> BOOLEAN], dirs : [Blks -> Dirs], newBuf : Dirs]
  /\ Len(d.inodes) \in 1..MaxInodes
  /\ d.inodes[Root].type = "dir" /\ d.inodes[Root].blk = RootBlk

FilesTyped(f) ==
  /\ f \in [Tasks -> [Fds -> [fs : {"none", "blkfs", "devfs"}, ino : Nat, offset : Nat]]]
  /\ \A t \in Tasks, fd \in Fds : f[t][fd].fs = "blkfs" <=> f[t][fd].ino # 0

\* The names of an inode, and the descriptors that are open on it.
LinksTo(dirs, i) ==
  {e \in Blks \X (1..DirSlots) \X {i} : e[2] \in DOMAIN dirs[e[1]] /\ dirs[e[1]][e[2]].ino = i}
OpensOf(f, i) == {e \in Tasks \X Fds \X {i} : f[e[1]][e[2]].ino = i}

Alive(d, f, i) == i = Root \/ LinksTo(d.dirs, i) # {} \/ OpensOf(f, i) # {}
Inos(d) == 1..Len(d.inodes)

\* Inode k is the directory that lies in block b.
DirIn(d, k, b) ==
  d.inodes[k].type = "dir" /\ (k = Root \/ LinksTo(d.dirs, k) # {}) /\ d.inodes[k].blk = b
IsDirBlk(d, b) == \E k \in Inos(d) : DirIn(d, k, b)

\* Names are in directories, and name inodes of the table; descriptors are open on files.
Homes(d, f) ==
  /\ \A i \in Nat \ {0} : LinksTo(d.dirs, i) # {} => i \in Inos(d) \ {Root}
  /\ \A i \in Nat \ {0} : OpensOf(f, i) # {} => i \in Inos(d) \ {Root} /\ d.inodes[i].type = "file"
  /\ \A i \in Nat \ {0} : \A e \in LinksTo(d.dirs, i) : IsDirBlk(d, e[1])

\* Nobody's block is another's.
OwnBlocks(d, f) ==
  /\ \A i \in Inos(d) : Alive(d, f, i) => d.inodes[i].blk \in Blks /\ d.occupied[d.inodes[i].blk]
  /\ \A i, j \in Inos(d) : Alive(d, f, i) /\ Alive(d, f, j) /\ d.inodes[i].blk = d.inodes[j].blk => i = j

\* What an inode counts.  A directory has one name; a file has the mark of
\* vfs_unlink exactly when it counts no name.
CountsOf(d, f, lk, i) ==
  LET n == d.inodes[i] IN
  /\ n.linkcnt >= Cardinality(LinksTo(d.dirs, i)) /\ n.refcnt >= Cardinality(OpensOf(f, i))
  /\ ~lk => n.linkcnt = Cardinality(LinksTo(d.dirs, i)) /\ n.refcnt = Cardinality(OpensOf(f, i))
  /\ n.type = "dir" => n.linkcnt = 1 /\ n.refcnt = 0
  /\ n.type = "file" => (n.unlink = 1 <=> n.linkcnt = 0)
Counted(d, f, lk) == \A i \in Inos(d) \ {Root} : Alive(d, f, i) => CountsOf(d, f, lk, i)

GivenBack(d, f, lk) ==
  ~lk => \A b \in Blks : d.occupied[b] => \E i \in Inos(d) : Alive(d, f, i) /\ d.inodes[i].blk = b

FsInv(d, f, lk) ==
  /\ DiskTyped(d) /\ FilesTyped(f) /\ lk \in BOOLEAN
  /\ Homes(d, f) /\ OwnBlocks(d, f) /\ Counted(d, f, lk) /\ GivenBack(d, f, lk)

\* Where two entries carry a name, it means the first; the others are files.
NamesOnce(d) ==
  \A b \in Blks : \A s, u \in DOMAIN d.dirs[b] :
    s < u /\ d.dirs[b][s].ino > 0 /\ d.dirs[b][u].ino > 0 /\ d.dirs[b][s].name = d.dirs[b][u].name
      => d.inodes[d.dirs[b][u].ino].type = "file"

TodoTyped ==
  /\ todo \in [Tasks -> [do : {"prompt", "read", "close"}, fd : 0..NrFile]]
  /\ \A t \in Tasks : todo[t].do # "prompt" => todo[t].fd \in Fds

\* No file ends, and no descriptor stands, behind the block; a descriptor may stand
\* in the header.
SizesWithin(d) == \A i \in Inos(d) : d.inodes[i].size + HdrSz <= BlkSz
InBlock(off) == off \in 0..(Word - 1) /\ (off + HdrSz) % Word <= BlkSz
OffsetsWithin(f) == \A t \in Tasks, fd \in Fds : InBlock(f[t][fd].offset)

Sound(d, f, lk) == FsInv(d, f, lk) /\ NamesOnce(d) /\ SizesWithin(d) /\ OffsetsWithin(f)
VfsInv == Sound(disk, fildes, leak) /\ running \in BOOLEAN
ShellInv == VfsInv /\ TodoTyped

\* What holds after every step: nothing more once somebody strayed.
UnlessStrayed == strayed \in BOOLEAN /\ (~strayed => ShellInv)

-----------------------------------------------------------------------------
(* One directory.                                                           *)

LEMMA MinIs ==
  ASSUME NEW S \in SUBSET Nat, S # {}
  PROVE  Min(S) \in S /\ \A n \in S : Min(S) <= n
BY SmallestExists DEF Min

LEMMA DirFacts ==
  ASSUME NEW dir \in Dirs
  PROVE  /\ dir \in Seq(Entry) /\ Len(dir) \in Nat /\ Len(dir) <= DirSlots /\ DOMAIN dir = 1..Len(dir)
         /\ \A s \in DOMAIN dir : s \in 1..DirSlots /\ dir[s] \in Entry /\ dir[s].ino \in Int
         /\ Tidy(dir)
<1>1. dir \in Seq(Entry) /\ Len(dir) <= DirSlots /\ Tidy(dir) BY DEF Dirs
<1>2. Len(dir) \in Nat /\ dir \in [1..Len(dir) -> Entry] BY <1>1, LenProperties
<1>3. DOMAIN dir = 1..Len(dir) BY <1>2
<1>4. DirSlots \in Nat BY SizesAssumption
<1>5. \A s \in DOMAIN dir : s \in 1..DirSlots BY <1>1, <1>2, <1>3, <1>4
<1>6. \A s \in DOMAIN dir : dir[s] \in Entry BY <1>2
<1>7. \A x \in Entry : x.ino \in Int BY DEF Entry
<1> QED BY <1>1, <1>2, <1>3, <1>5, <1>6, <1>7

\* A search comes by all names.
LEMMA ReachedIs ==
  ASSUME NEW dir \in Dirs
  PROVE  /\ Reached(dir) \in 0..Len(dir)
         /\ \A s \in 1..Reached(dir) : dir[s].ino # 0
         /\ \A s \in DOMAIN dir : dir[s].ino > 0 => s \in 1..Reached(dir)
         /\ Reached(dir) < Len(dir) => dir[Reached(dir) + 1].ino = 0
<1> DEFINE ends == {s \in DOMAIN dir : dir[s].ino = 0}
<1>1. Len(dir) \in Nat /\ DOMAIN dir = 1..Len(dir) /\ \A s \in DOMAIN dir : dir[s].ino \in Int
  BY DirFacts
<1>2. CASE ends = {}
  <2>1. Reached(dir) = Len(dir) BY <1>2 DEF Reached
  <2> QED BY <1>1, <1>2, <2>1
<1>3. CASE ends # {}
  <2>1. PICK m \in Nat : m = Min(ends) /\ m \in ends /\ \A n \in ends : m <= n
    <3>1. ends \in SUBSET Nat BY <1>1
    <3> QED BY <1>3, <3>1, MinIs
  <2>2. Reached(dir) = m - 1 BY <1>3, <2>1 DEF Reached
  <2>3. m \in 1..Len(dir) /\ dir[m].ino = 0 BY <1>1, <2>1
  <2>4. \A s \in 1..(m - 1) : dir[s].ino # 0
    <3> SUFFICES ASSUME NEW s \in 1..(m - 1), dir[s].ino = 0 PROVE FALSE OBVIOUS
    <3>1. s \in DOMAIN dir /\ ~(m <= s) BY <1>1, <2>3
    <3> QED BY <2>1, <3>1
  <2>5. ASSUME NEW s \in DOMAIN dir, dir[s].ino > 0 PROVE s \in 1..(m - 1)
    <3>1. ~(m < s) BY <1>1, <2>1, <2>3, <2>5, DirFacts DEF Tidy
    <3>2. s # m BY <2>3, <2>5
    <3> QED BY <1>1, <2>3, <3>1, <3>2
  <2> QED BY <1>1, <2>2, <2>3, <2>4, <2>5
<1> QED BY <1>2, <1>3

\* A new entry takes the place where a search ends.
LEMMA AddedIs ==
  ASSUME NEW dir \in Dirs, ~Full(dir), NEW ino \in Nat \ {0}, NEW n \in Names
  PROVE  LET p == Reached(dir) + 1
             new == EntryAdded(dir, ino, n) IN
         /\ new \in Dirs /\ p \in 1..DirSlots /\ p \in DOMAIN new
         /\ DOMAIN new = DOMAIN dir \cup {p}
         /\ new[p] = [ino |-> ino, name |-> n]
         /\ \A s \in DOMAIN dir : s # p => new[s] = dir[s]
         /\ \A s \in DOMAIN dir : dir[s].ino > 0 => s < p
<1> DEFINE e == [ino |-> ino, name |-> n]
<1>1. PICK k \in Nat : k = Reached(dir) BY ReachedIs, DirFacts
<1>2. PICK l \in Nat : l = Len(dir) /\ k <= l /\ l <= DirSlots /\ DOMAIN dir = 1..l BY <1>1, ReachedIs, DirFacts
<1>3. k # DirSlots /\ DirSlots \in Nat BY <1>1, SizesAssumption DEF Full
<1>4. e \in Entry BY DEF Entry
<1>5. \A s \in DOMAIN dir : dir[s].ino > 0 => s < k + 1 BY <1>1, <1>2, ReachedIs
<1>6. k + 1 \in 1..DirSlots BY <1>2, <1>3
<1>7. dir \in Seq(Entry) BY DirFacts
<1>8. CASE k = l
  <2>1. PICK new \in Seq(Entry) : new = Append(dir, e) /\ Len(new) = l + 1 /\ new[l + 1] = e
                                  /\ \A s \in 1..l : new[s] = dir[s]
    <3>1. /\ Append(dir, e) \in Seq(Entry) /\ Len(Append(dir, e)) = l + 1 /\ Append(dir, e)[l + 1] = e
          /\ \A s \in 1..l : Append(dir, e)[s] = dir[s]
      BY <1>2, <1>4, <1>7, AppendProperties
    <3> QED BY <3>1
  <2>2. EntryAdded(dir, ino, n) = new BY <1>1, <1>2, <1>3, <1>8, <2>1 DEF EntryAdded, Full
  <2>3. DOMAIN new = 1..(l + 1) BY <2>1, LenProperties
  <2>4. \A s \in 1..l : new[s].ino # 0 BY <1>1, <1>8, <2>1, ReachedIs
  <2>5. new[l + 1].ino # 0 BY <2>1
  <2>6. Tidy(new)
    <3>1. \A s \in DOMAIN new : new[s].ino # 0 BY <1>2, <2>3, <2>4, <2>5
    <3> QED BY <3>1 DEF Tidy
  <2>7. new \in Dirs BY <1>6, <1>8, <2>1, <2>6 DEF Dirs
  <2> QED BY <1>1, <1>2, <1>5, <1>6, <1>8, <2>1, <2>2, <2>3, <2>7
<1>9. CASE k # l
  <2> DEFINE new == [dir EXCEPT ![k + 1] = e]
  <2>1. EntryAdded(dir, ino, n) = new BY <1>1, <1>2, <1>3, <1>9 DEF EntryAdded, Full
  <2>2. k + 1 \in DOMAIN dir /\ dir[k + 1].ino = 0 BY <1>1, <1>2, <1>9, ReachedIs
  <2>3. DOMAIN new = DOMAIN dir /\ new[k + 1] = e /\ \A s \in DOMAIN dir : s # k + 1 => new[s] = dir[s]
    BY <2>2
  <2>4. new \in Seq(Entry) /\ Len(new) = Len(dir)
    <3>1. k + 1 \in 1..Len(dir) BY <1>2, <2>2
    <3> QED BY <1>4, <1>7, <3>1, ExceptSeq
  <2> HIDE DEF new
  <2>5. Tidy(new)
    <3> SUFFICES ASSUME NEW s \in DOMAIN new, NEW u \in DOMAIN new, s < u, new[s].ino = 0
                 PROVE  new[u].ino <= 0
      BY DEF Tidy
    <3>1. s # k + 1 /\ new[s] = dir[s] BY <2>3
    <3>2. dir[s].ino = 0 /\ s \in DOMAIN dir /\ u \in DOMAIN dir BY <2>3, <3>1
    <3>3. s \notin 1..k BY <1>1, <3>2, ReachedIs
    <3>4. u # k + 1 BY <1>2, <3>2, <3>3
    <3>5. new[u] = dir[u] BY <2>3, <3>4
    <3>6. dir[u].ino <= 0 BY <3>2, DirFacts DEF Tidy
    <3> QED BY <3>5, <3>6
  <2>6. new \in Dirs BY <1>2, <2>4, <2>5 DEF Dirs
  <2>7. DOMAIN new = DOMAIN dir \cup {k + 1} /\ k + 1 \in DOMAIN new BY <2>2, <2>3
  <2> QED BY <1>1, <1>5, <1>6, <2>1, <2>3, <2>6, <2>7
<1> QED BY <1>8, <1>9

\* A name that goes leaves a hole.
Holed(dir, h) == [dir EXCEPT ![h] = Dead]

LEMMA DeadIs ==
  ASSUME NEW dir \in Dirs, NEW h \in DOMAIN dir
  PROVE  LET new == Holed(dir, h) IN
         /\ new \in Dirs /\ DOMAIN new = DOMAIN dir
         /\ new[h] = Dead /\ Dead.ino = -1
         /\ \A s \in DOMAIN dir : s # h => new[s] = dir[s]
<1> DEFINE new == [dir EXCEPT ![h] = Dead]
<1>1. DOMAIN new = DOMAIN dir /\ new[h] = Dead /\ \A s \in DOMAIN dir : s # h => new[s] = dir[s] OBVIOUS
<1>2. Dead \in Entry /\ Dead.ino = -1
  <2>1. "deleted" \in Names BY DEF Names
  <2>2. -1 \in Int OBVIOUS
  <2> QED BY <2>1, <2>2 DEF Dead, Entry
<1>3. dir \in Seq(Entry) /\ Len(dir) <= DirSlots /\ Tidy(dir) BY DirFacts
<1>4. new \in Seq(Entry) /\ Len(new) = Len(dir) BY <1>2, <1>3, ExceptSeq
<1> HIDE DEF new
<1>5. Tidy(new)
  <2> SUFFICES ASSUME NEW s \in DOMAIN new, NEW u \in DOMAIN new, s < u, new[s].ino = 0
               PROVE  new[u].ino <= 0
    BY DEF Tidy
  <2>1. s # h /\ new[s] = dir[s] BY <1>1, <1>2
  <2>2. dir[u].ino <= 0 BY <1>1, <1>3, <2>1 DEF Tidy
  <2> QED BY <1>1, <1>2, <2>2
<1>6. new \in Dirs BY <1>3, <1>4, <1>5 DEF Dirs
<1> QED BY <1>1, <1>2, <1>6 DEF new, Holed

\* What a name means.
LEMMA HitIs ==
  ASSUME NEW dir \in Dirs, NEW n
  PROVE  \/ Hits(dir, n) = {} /\ Hit(dir, n) = 0 /\ \A s \in DOMAIN dir : dir[s].ino > 0 => dir[s].name # n
         \/ /\ Hits(dir, n) # {}
            /\ \E h \in DOMAIN dir :
                 /\ h = Min(Hits(dir, n)) /\ Hit(dir, n) = dir[h].ino /\ dir[h].ino > 0 /\ dir[h].name = n
                 /\ \A s \in DOMAIN dir : dir[s].ino > 0 /\ dir[s].name = n => h <= s
<1>1. /\ Len(dir) \in Nat /\ DOMAIN dir = 1..Len(dir) /\ Reached(dir) \in 0..Len(dir)
      /\ \A s \in DOMAIN dir : dir[s].ino > 0 => s \in 1..Reached(dir)
  BY DirFacts, ReachedIs
<1>2. \A s : s \in Hits(dir, n) <=> s \in DOMAIN dir /\ dir[s].ino > 0 /\ dir[s].name = n
  BY <1>1 DEF Hits
<1>3. CASE Hits(dir, n) = {}
  <2>1. Hit(dir, n) = 0 BY <1>3 DEF Hit
  <2> QED BY <1>2, <1>3, <2>1
<1>4. CASE Hits(dir, n) # {}
  <2>1. Hits(dir, n) \in SUBSET Nat BY <1>1, <1>2
  <2>2. PICK h : h = Min(Hits(dir, n)) /\ h \in Hits(dir, n) /\ \A s \in Hits(dir, n) : h <= s
    BY <1>4, <2>1, MinIs
  <2>3. Hit(dir, n) = dir[h].ino BY <1>4, <2>2 DEF Hit
  <2> QED BY <1>2, <1>4, <2>2, <2>3
<1> QED BY <1>3, <1>4

-----------------------------------------------------------------------------
(* The names of an inode.                                                   *)

\* As many triples as there are pairs.
LEMMA TriplesFinite ==
  ASSUME NEW A, NEW B, NEW i, IsFiniteSet(A), IsFiniteSet(B), NEW S \in SUBSET (A \X B \X {i})
  PROVE  IsFiniteSet(S)
<1> DEFINE f == [e \in S |-> <<e[1], e[2]>>]
<1>1. IsFiniteSet(A \X B) BY FS_Product
<1>2. f \in [S -> A \X B] OBVIOUS
<1>3. \A x, y \in S : f[x] = f[y] => x = y OBVIOUS
<1>4. f \in Injection(S, A \X B) BY <1>2, <1>3 DEF Injection, IsInjective
<1> QED BY <1>1, <1>4, FS_Injection

LEMMA LinksFinite == ASSUME NEW D, NEW i PROVE IsFiniteSet(LinksTo(D, i))
<1>1. IsFiniteSet(Blks) BY BlksAssumption
<1>2. 1 \in Int /\ DirSlots \in Int BY SizesAssumption
<1>3. IsFiniteSet(1..DirSlots) BY <1>2, FS_Interval
<1>4. LinksTo(D, i) \in SUBSET (Blks \X (1..DirSlots) \X {i}) BY DEF LinksTo
<1> QED BY <1>1, <1>3, <1>4, TriplesFinite

LEMMA OpensFinite == ASSUME NEW f, NEW i PROVE IsFiniteSet(OpensOf(f, i))
<1>1. IsFiniteSet(Tasks) BY TasksAssumption
<1>2. 1 \in Int /\ NrFile \in Int BY VfsSizesAssumption
<1>3. IsFiniteSet(Fds) BY <1>2, FS_Interval DEF Fds
<1>4. OpensOf(f, i) \in SUBSET (Tasks \X Fds \X {i}) BY DEF OpensOf
<1> QED BY <1>1, <1>3, <1>4, TriplesFinite

LEMMA LinkIs ==
  ASSUME NEW D \in [Blks -> Dirs], NEW i
  PROVE  \A e : e \in LinksTo(D, i) <=>
                  \E b \in Blks : \E s \in DOMAIN D[b] : e = <<b, s, i>> /\ D[b][s].ino = i
<1>1. \A b \in Blks : \A s \in DOMAIN D[b] : s \in 1..DirSlots BY DirFacts
<1> QED BY <1>1 DEF LinksTo

LEMMA OpenIs ==
  ASSUME NEW f, NEW i
  PROVE  \A e : e \in OpensOf(f, i) <=> \E t \in Tasks, fd \in Fds : e = <<t, fd, i>> /\ f[t][fd].ino = i
BY DEF OpensOf

\* Two directories hold the same names.
SaysTheSame(x, y) ==
  /\ \A s \in DOMAIN x : x[s].ino > 0 => s \in DOMAIN y /\ y[s] = x[s]
  /\ \A s \in DOMAIN y : y[s].ino > 0 => s \in DOMAIN x /\ x[s] = y[s]

LEMMA LinksSame ==
  ASSUME NEW D \in [Blks -> Dirs], NEW E \in [Blks -> Dirs], \A b \in Blks : SaysTheSame(D[b], E[b]),
         NEW i \in Nat \ {0}
  PROVE  LinksTo(E, i) = LinksTo(D, i)
<1>1. ASSUME NEW e \in LinksTo(D, i) PROVE e \in LinksTo(E, i)
  <2>1. PICK b \in Blks : \E s \in DOMAIN D[b] : e = <<b, s, i>> /\ D[b][s].ino = i BY <1>1, LinkIs
  <2>2. PICK s \in DOMAIN D[b] : e = <<b, s, i>> /\ D[b][s].ino = i BY <2>1
  <2>3. s \in DOMAIN E[b] /\ E[b][s].ino = i BY <2>2 DEF SaysTheSame
  <2> QED BY <2>2, <2>3, LinkIs
<1>2. ASSUME NEW e \in LinksTo(E, i) PROVE e \in LinksTo(D, i)
  <2>1. PICK b \in Blks : \E s \in DOMAIN E[b] : e = <<b, s, i>> /\ E[b][s].ino = i BY <1>2, LinkIs
  <2>2. PICK s \in DOMAIN E[b] : e = <<b, s, i>> /\ E[b][s].ino = i BY <2>1
  <2>3. s \in DOMAIN D[b] /\ D[b][s].ino = i BY <2>2 DEF SaysTheSame
  <2> QED BY <2>2, <2>3, LinkIs
<1> QED BY <1>1, <1>2

\* A new entry is a new name of its inode.
LEMMA LinksAdded ==
  ASSUME NEW D \in [Blks -> Dirs], NEW E \in [Blks -> Dirs], NEW up \in Blks, NEW k \in Nat \ {0}, NEW n \in Names,
         ~Full(D[up]), E[up] = EntryAdded(D[up], k, n),
         \A b \in Blks : b # up => SaysTheSame(D[b], E[b])
  PROVE  /\ \A i \in Nat \ {0} : i # k => LinksTo(E, i) = LinksTo(D, i)
         /\ \E e : e \notin LinksTo(D, k) /\ LinksTo(E, k) = LinksTo(D, k) \cup {e} /\ e[1] = up
<1>1. PICK p \in 1..DirSlots :
        /\ p \in DOMAIN E[up] /\ DOMAIN E[up] = DOMAIN D[up] \cup {p} /\ E[up][p] = [ino |-> k, name |-> n]
        /\ \A s \in DOMAIN D[up] : s # p => E[up][s] = D[up][s]
        /\ \A s \in DOMAIN D[up] : D[up][s].ino > 0 => s < p
  <2> DEFINE dir == D[up]
  <2>1. dir \in Dirs /\ ~Full(dir) OBVIOUS
  <2> HIDE DEF dir
  <2>2. LET p == Reached(dir) + 1
            new == EntryAdded(dir, k, n) IN
        /\ new \in Dirs /\ p \in 1..DirSlots /\ p \in DOMAIN new
        /\ DOMAIN new = DOMAIN dir \cup {p}
        /\ new[p] = [ino |-> k, name |-> n]
        /\ \A s \in DOMAIN dir : s # p => new[s] = dir[s]
        /\ \A s \in DOMAIN dir : dir[s].ino > 0 => s < p
    BY <2>1, AddedIs
  <2>3. E[up] = EntryAdded(dir, k, n) BY DEF dir
  <2> QED BY <2>2, <2>3 DEF dir
<1>2. E[up][p].ino = k BY <1>1
<1>3. \A s \in DOMAIN D[up] : D[up][s].ino > 0 => s # p BY <1>1
<1> DEFINE e == <<up, p, k>>
<1>4. ASSUME NEW i \in Nat \ {0}, NEW x \in LinksTo(D, i) PROVE x \in LinksTo(E, i) /\ x # e
  <2>1. PICK b \in Blks : \E s \in DOMAIN D[b] : x = <<b, s, i>> /\ D[b][s].ino = i BY LinkIs
  <2>2. PICK s \in DOMAIN D[b] : x = <<b, s, i>> /\ D[b][s].ino = i BY <2>1
  <2>3. CASE b = up
    <3>1. s # p /\ E[b][s] = D[b][s] /\ s \in DOMAIN E[b] BY <1>1, <1>3, <2>2, <2>3
    <3> QED BY <2>2, <3>1, LinkIs
  <2>4. CASE b # up
    <3>1. s \in DOMAIN E[b] /\ E[b][s].ino = i BY <2>2, <2>4 DEF SaysTheSame
    <3> QED BY <2>2, <2>4, <3>1, LinkIs
  <2> QED BY <2>3, <2>4
<1>5. ASSUME NEW i \in Nat \ {0}, NEW x \in LinksTo(E, i) PROVE x \in LinksTo(D, i) \/ (x = e /\ i = k)
  <2>1. PICK b \in Blks : \E s \in DOMAIN E[b] : x = <<b, s, i>> /\ E[b][s].ino = i BY LinkIs
  <2>2. PICK s \in DOMAIN E[b] : x = <<b, s, i>> /\ E[b][s].ino = i BY <2>1
  <2>3. CASE b = up /\ s = p BY <1>2, <2>2, <2>3
  <2>4. CASE b = up /\ s # p
    <3>1. s \in DOMAIN D[b] /\ D[b][s].ino = i BY <1>1, <2>2, <2>4
    <3> QED BY <2>2, <3>1, LinkIs
  <2>5. CASE b # up
    <3>1. s \in DOMAIN D[b] /\ D[b][s].ino = i BY <2>2, <2>5 DEF SaysTheSame
    <3> QED BY <2>2, <3>1, LinkIs
  <2> QED BY <2>3, <2>4, <2>5
<1>6. e \in LinksTo(E, k) BY <1>1, <1>2, LinkIs
<1>7. e \notin LinksTo(D, k) BY <1>4
<1> HIDE DEF e
<1>8. LinksTo(E, k) = LinksTo(D, k) \cup {e} BY <1>4, <1>5, <1>6
<1>9. \A i \in Nat \ {0} : i # k => LinksTo(E, i) = LinksTo(D, i) BY <1>4, <1>5
<1>10. e[1] = up BY DEF e
<1> QED BY <1>7, <1>8, <1>9, <1>10

\* A name that goes is one name less of its inode.
LEMMA LinksRemoved ==
  ASSUME NEW D \in [Blks -> Dirs], NEW E \in [Blks -> Dirs], NEW up \in Blks, NEW h \in DOMAIN D[up],
         NEW k \in Nat \ {0}, D[up][h].ino = k, E[up] = Holed(D[up], h),
         \A b \in Blks : b # up => SaysTheSame(D[b], E[b])
  PROVE  /\ \A i \in Nat \ {0} : i # k => LinksTo(E, i) = LinksTo(D, i)
         /\ \E e : e \in LinksTo(D, k) /\ LinksTo(E, k) = LinksTo(D, k) \ {e} /\ e = <<up, h, k>>
<1>1. /\ DOMAIN E[up] = DOMAIN D[up] /\ E[up][h].ino = -1
      /\ \A s \in DOMAIN D[up] : s # h => E[up][s] = D[up][s]
  BY DeadIs
<1> DEFINE e == <<up, h, k>>
<1>2. ASSUME NEW i \in Nat \ {0}, NEW x \in LinksTo(D, i) PROVE x \in LinksTo(E, i) \/ (x = e /\ i = k)
  <2>1. PICK b \in Blks : \E s \in DOMAIN D[b] : x = <<b, s, i>> /\ D[b][s].ino = i BY LinkIs
  <2>2. PICK s \in DOMAIN D[b] : x = <<b, s, i>> /\ D[b][s].ino = i BY <2>1
  <2>3. CASE b = up /\ s = h BY <2>2, <2>3
  <2>4. CASE b = up /\ s # h
    <3>1. E[b][s] = D[b][s] /\ s \in DOMAIN E[b] BY <1>1, <2>2, <2>4
    <3> QED BY <2>2, <3>1, LinkIs
  <2>5. CASE b # up
    <3>1. s \in DOMAIN E[b] /\ E[b][s].ino = i BY <2>2, <2>5 DEF SaysTheSame
    <3> QED BY <2>2, <3>1, LinkIs
  <2> QED BY <2>3, <2>4, <2>5
<1>3. ASSUME NEW i \in Nat \ {0}, NEW x \in LinksTo(E, i) PROVE x \in LinksTo(D, i) /\ x # e
  <2>1. PICK b \in Blks : \E s \in DOMAIN E[b] : x = <<b, s, i>> /\ E[b][s].ino = i BY LinkIs
  <2>2. PICK s \in DOMAIN E[b] : x = <<b, s, i>> /\ E[b][s].ino = i BY <2>1
  <2>3. CASE b = up
    <3>1. s # h BY <1>1, <2>2, <2>3
    <3>2. s \in DOMAIN D[b] /\ D[b][s].ino = i BY <1>1, <2>2, <2>3, <3>1
    <3> QED BY <2>2, <3>1, <3>2, LinkIs
  <2>4. CASE b # up
    <3>1. s \in DOMAIN D[b] /\ D[b][s].ino = i BY <2>2, <2>4 DEF SaysTheSame
    <3> QED BY <2>2, <2>4, <3>1, LinkIs
  <2> QED BY <2>3, <2>4
<1>4. e \in LinksTo(D, k) BY LinkIs
<1> HIDE DEF e
<1>5. LinksTo(E, k) = LinksTo(D, k) \ {e} BY <1>2, <1>3
<1>6. \A i \in Nat \ {0} : i # k => LinksTo(E, i) = LinksTo(D, i) BY <1>2, <1>3
<1> QED BY <1>4, <1>5, <1>6 DEF e

-----------------------------------------------------------------------------
(* Every call changes one inode k, in block B, its names and descriptors.    *)

Changes(d, f, lk, d2, f2, lk2, k, B) ==
  /\ FsInv(d, f, lk) /\ lk2 \in BOOLEAN /\ DiskTyped(d2) /\ FilesTyped(f2) /\ (lk => lk2)
  /\ k \in Nat \ {0, Root} /\ B \in Blks /\ Inos(d2) = Inos(d) \cup {k}
  \* What others have stays as it is.
  /\ \A i \in Inos(d) : i # k => d2.inodes[i] = d.inodes[i]
  /\ \A i \in Nat \ {0} : i # k => LinksTo(d2.dirs, i) = LinksTo(d.dirs, i) /\ OpensOf(f2, i) = OpensOf(f, i)
  /\ \A b \in Blks : b # B => d2.occupied[b] = d.occupied[b]
  \* The block is not another's.
  /\ \A i \in Inos(d) : i # k /\ Alive(d, f, i) => d.inodes[i].blk # B
  /\ k \in Inos(d) /\ Alive(d, f, k) => d.inodes[k].blk = B
  \* What k is now.
  /\ OpensOf(f2, k) # {} => d2.inodes[k].type = "file"
  /\ \A i \in Nat \ {0} : \A e \in LinksTo(d2.dirs, i) : \E j \in Inos(d) \ {k} : DirIn(d, j, e[1])
  /\ Alive(d2, f2, k) => d2.inodes[k].blk = B /\ d2.occupied[B] /\ CountsOf(d2, f2, lk2, k)
  /\ ~lk2 /\ d2.occupied[B] => Alive(d2, f2, k)

LEMMA LocalChange ==
  ASSUME NEW d, NEW f, NEW lk, NEW d2, NEW f2, NEW lk2, NEW k, NEW B, Changes(d, f, lk, d2, f2, lk2, k, B)
  PROVE  FsInv(d2, f2, lk2)
<1> USE DEF Changes
<1>1. Homes(d, f) /\ OwnBlocks(d, f) /\ Counted(d, f, lk) /\ GivenBack(d, f, lk) BY DEF FsInv
<1>2. Inos(d) \subseteq Nat \ {0} /\ Root = 1 /\ Root \in Inos(d)
  <2>1. Len(d.inodes) \in 1..MaxInodes /\ MaxInodes \in Nat BY SizesAssumption DEF FsInv, DiskTyped
  <2> QED BY <2>1 DEF Inos, Root
<1>3. \A i \in Inos(d2) : i # k => i \in Inos(d) /\ (Alive(d2, f2, i) <=> Alive(d, f, i))
  BY <1>2 DEF Alive
<1>4. Homes(d2, f2)
  <2>1. ASSUME NEW i \in Nat \ {0}, LinksTo(d2.dirs, i) # {} PROVE i \in Inos(d2) \ {Root}
    <3>1. CASE i = k BY <3>1
    <3>2. CASE i # k BY <1>1, <2>1, <3>2 DEF Homes
    <3> QED BY <3>1, <3>2
  <2>2. ASSUME NEW i \in Nat \ {0}, OpensOf(f2, i) # {}
        PROVE  i \in Inos(d2) \ {Root} /\ d2.inodes[i].type = "file"
    <3>1. CASE i = k BY <2>2, <3>1
    <3>2. CASE i # k BY <1>1, <2>2, <3>2 DEF Homes
    <3> QED BY <3>1, <3>2
  <2>3. ASSUME NEW i \in Nat \ {0}, NEW e \in LinksTo(d2.dirs, i) PROVE IsDirBlk(d2, e[1])
    <3>1. PICK j \in Inos(d) \ {k} : DirIn(d, j, e[1]) OBVIOUS
    <3>2. d2.inodes[j] = d.inodes[j] /\ LinksTo(d2.dirs, j) = LinksTo(d.dirs, j) /\ j \in Inos(d2)
      BY <1>2
    <3>3. DirIn(d2, j, e[1]) BY <3>1, <3>2 DEF DirIn
    <3> QED BY <3>2, <3>3 DEF IsDirBlk
  <2> QED BY <2>1, <2>2, <2>3 DEF Homes
<1>5. OwnBlocks(d2, f2)
  <2>1. ASSUME NEW i \in Inos(d2), Alive(d2, f2, i)
        PROVE  d2.inodes[i].blk \in Blks /\ d2.occupied[d2.inodes[i].blk]
    <3>1. CASE i = k BY <2>1, <3>1
    <3>2. CASE i # k
      <4>1. i \in Inos(d) /\ Alive(d, f, i) /\ d2.inodes[i] = d.inodes[i] BY <1>3, <2>1, <3>2
      <4>2. d.inodes[i].blk \in Blks /\ d.occupied[d.inodes[i].blk] /\ d.inodes[i].blk # B
        BY <1>1, <3>2, <4>1 DEF OwnBlocks
      <4> QED BY <4>1, <4>2
    <3> QED BY <3>1, <3>2
  <2>2. ASSUME NEW i \in Inos(d2), NEW j \in Inos(d2), Alive(d2, f2, i), Alive(d2, f2, j),
               d2.inodes[i].blk = d2.inodes[j].blk
        PROVE  i = j
    <3>1. ASSUME NEW x \in Inos(d2), x # k, Alive(d2, f2, x)
          PROVE  x \in Inos(d) /\ Alive(d, f, x) /\ d2.inodes[x] = d.inodes[x] /\ d2.inodes[x].blk # B
      BY <1>3, <3>1
    <3>2. CASE i # k /\ j # k BY <1>1, <2>2, <3>1, <3>2 DEF OwnBlocks
    <3>3. CASE i = k \/ j = k BY <2>2, <3>1, <3>3
    <3> QED BY <3>2, <3>3
  <2> QED BY <2>1, <2>2 DEF OwnBlocks
<1>6. Counted(d2, f2, lk2)
  <2> SUFFICES ASSUME NEW i \in Inos(d2) \ {Root}, Alive(d2, f2, i) PROVE CountsOf(d2, f2, lk2, i)
    BY DEF Counted
  <2>1. CASE i = k BY <2>1
  <2>2. CASE i # k
    <3>1. i \in Inos(d) \ {Root} /\ Alive(d, f, i) /\ d2.inodes[i] = d.inodes[i] BY <1>3, <2>2
    <3>2. CountsOf(d, f, lk, i) BY <1>1, <3>1 DEF Counted
    <3>3. LinksTo(d2.dirs, i) = LinksTo(d.dirs, i) /\ OpensOf(f2, i) = OpensOf(f, i) BY <1>2, <2>2, <3>1
    <3>4. ~lk2 => ~lk OBVIOUS
    <3> QED BY <3>1, <3>2, <3>3, <3>4 DEF CountsOf
  <2> QED BY <2>1, <2>2
<1>7. GivenBack(d2, f2, lk2)
  <2> SUFFICES ASSUME ~lk2, NEW b \in Blks, d2.occupied[b]
               PROVE  \E i \in Inos(d2) : Alive(d2, f2, i) /\ d2.inodes[i].blk = b
    BY DEF GivenBack
  <2>1. CASE b = B BY <2>1
  <2>2. CASE b # B
    <3>1. d.occupied[b] /\ ~lk BY <2>2
    <3>2. PICK i \in Inos(d) : Alive(d, f, i) /\ d.inodes[i].blk = b BY <1>1, <3>1 DEF GivenBack
    <3>3. i # k BY <2>2, <3>2
    <3>4. i \in Inos(d2) /\ Alive(d2, f2, i) /\ d2.inodes[i] = d.inodes[i] BY <1>3, <3>2, <3>3
    <3> QED BY <3>2, <3>4
  <2> QED BY <2>1, <2>2
<1> QED BY <1>4, <1>5, <1>6, <1>7 DEF FsInv

-----------------------------------------------------------------------------
(* Looking names up.                                                        *)

PathsOf == Seq(Names) \ {<<>>}

\* From the block of a directory to that of the directory n in it.
Down(d, up, n) ==
  LET son == IF up = 0 THEN 0 ELSE Hit(d.dirs[up], n) IN
  IF son > 0 /\ d.inodes[son].type = "dir" THEN d.inodes[son].blk ELSE 0

\* w goes from the root directory along a path.
IsWalk(d, path, w) == w[1] = RootBlk /\ \A i \in 2..Len(path) : w[i] = Down(d, w[i - 1], path[i - 1])

\* Where the search of a name may look.
Places(d) == {0} \cup {b \in Blks : IsDirBlk(d, b)}

\* Two directories hold the same entries with the name n.
SaysTheSameOf(x, y, n) ==
  /\ \A s \in DOMAIN x : x[s].ino > 0 /\ x[s].name = n => s \in DOMAIN y /\ y[s] = x[s]
  /\ \A s \in DOMAIN y : y[s].ino > 0 /\ y[s].name = n => s \in DOMAIN x /\ x[s] = y[s]

LEMMA HitSameOf ==
  ASSUME NEW x \in Dirs, NEW y \in Dirs, NEW n, SaysTheSameOf(x, y, n)
  PROVE  Hit(y, n) = Hit(x, n)
<1>1. CASE Hit(x, n) = 0
  <2>1. \A s \in DOMAIN x : x[s].ino > 0 => x[s].name # n
    <3>1. \A s \in DOMAIN x : x[s].ino > 0 => x[s].ino # 0 BY DirFacts
    <3> QED BY <1>1, <3>1, HitIs
  <2>2. \A s \in DOMAIN y : y[s].ino > 0 => y[s].name # n BY <2>1 DEF SaysTheSameOf
  <2> QED BY <1>1, <2>2, HitIs
<1>2. CASE Hit(x, n) # 0
  <2>1. PICK h \in DOMAIN x : /\ Hit(x, n) = x[h].ino /\ x[h].ino > 0 /\ x[h].name = n
                              /\ \A s \in DOMAIN x : x[s].ino > 0 /\ x[s].name = n => h <= s
    BY <1>2, HitIs
  <2>2. h \in DOMAIN y /\ y[h].ino > 0 /\ y[h].name = n /\ y[h].ino = x[h].ino BY <2>1 DEF SaysTheSameOf
  <2>3. PICK g \in DOMAIN y : /\ Hit(y, n) = y[g].ino /\ y[g].ino > 0 /\ y[g].name = n
                              /\ \A s \in DOMAIN y : y[s].ino > 0 /\ y[s].name = n => g <= s
    BY <2>2, HitIs
  <2>4. g \in DOMAIN x /\ x[g].ino > 0 /\ x[g].name = n BY <2>3 DEF SaysTheSameOf
  <2>5. g <= h /\ h <= g BY <2>1, <2>2, <2>3, <2>4
  <2>6. g \in Int /\ h \in Int
    <3>1. DirSlots \in Nat BY SizesAssumption
    <3> QED BY <2>1, <2>3, <3>1, DirFacts
  <2>7. g = h BY <2>5, <2>6
  <2> QED BY <2>1, <2>2, <2>3, <2>7
<1> QED BY <1>1, <1>2

LEMMA HitSame ==
  ASSUME NEW x \in Dirs, NEW y \in Dirs, SaysTheSame(x, y), NEW n
  PROVE  Hit(y, n) = Hit(x, n)
<1>1. SaysTheSameOf(x, y, n) BY DEF SaysTheSame, SaysTheSameOf
<1> QED BY <1>1, HitSameOf

\* All names but n in block up mean what they meant.
SameHits(D, E, up, n) == \A b \in Blks, m \in Names : b # up \/ m # n => Hit(E[b], m) = Hit(D[b], m)

LEMMA PathFacts ==
  /\ Paths \subseteq PathsOf
  /\ \A p \in PathsOf : Len(p) \in Nat \ {0} /\ p \in [1..Len(p) -> Names] /\ NameOf(p) \in Names
<1>1. ASSUME NEW p \in PathsOf PROVE Len(p) \in Nat \ {0} /\ p \in [1..Len(p) -> Names] /\ NameOf(p) \in Names
  <2>1. p \in Seq(Names) /\ p # <<>> BY DEF PathsOf
  <2>2. Len(p) \in Nat /\ p \in [1..Len(p) -> Names] /\ Len(p) # 0 BY <2>1, LenProperties, EmptySeq
  <2>3. Len(p) \in 1..Len(p) BY <2>2
  <2> QED BY <2>2, <2>3 DEF NameOf
<1>2. ASSUME NEW p \in Paths PROVE p \in PathsOf
  <2>1. p \in Seq(STRING) /\ p # <<>> BY PathsAssumption
  <2>2. \A i \in 1..Len(p) : p[i] \in Names BY <2>1, ElementOfSeq DEF Names
  <2>3. p \in Seq(Names) BY <2>1, <2>2, SeqOfMembers
  <2> QED BY <2>1, <2>3 DEF PathsOf
<1> QED BY <1>1, <1>2

\* Inodes of the table, as everything else needs them.
LEMMA InodeFacts ==
  ASSUME NEW d, DiskTyped(d)
  PROVE  /\ d.inodes \in Seq(InodeRec) /\ Len(d.inodes) \in Nat \ {0} /\ Len(d.inodes) <= MaxInodes
         /\ Inos(d) = DOMAIN d.inodes /\ Inos(d) \subseteq Nat \ {0} /\ Root \in Inos(d) /\ Root = 1
         /\ \A i \in Inos(d) : /\ d.inodes[i] \in InodeRec /\ d.inodes[i].type \in Types
                               /\ d.inodes[i].refcnt \in Int /\ d.inodes[i].linkcnt \in Int
                               /\ d.inodes[i].unlink \in {0, 1} /\ d.inodes[i].size \in Nat
                               /\ d.inodes[i].blk \in Blks \cup {-1}
                               /\ d.inodes[i].type = "dir" => d.inodes[i].blk \in Blks
         /\ d.dirs \in [Blks -> Dirs] /\ d.occupied \in [Blks -> BOOLEAN] /\ d.newBuf \in Dirs
         /\ Blks \subseteq Nat \ {0} /\ RootBlk \in Blks /\ RootBlk = 1
<1>1. d.inodes \in Seq(InodeRec) /\ Len(d.inodes) \in 1..MaxInodes BY DEF DiskTyped
<1>2. MaxInodes \in Nat BY SizesAssumption
<1>3. Len(d.inodes) \in Nat /\ d.inodes \in [1..Len(d.inodes) -> InodeRec] BY <1>1, LenProperties
<1>4. Inos(d) = DOMAIN d.inodes /\ Inos(d) \subseteq Nat \ {0} /\ Root \in Inos(d) /\ Root = 1
  BY <1>1, <1>2, <1>3 DEF Inos, Root
<1>5. \A x \in InodeRec : /\ x.type \in Types /\ x.refcnt \in Int /\ x.linkcnt \in Int
                          /\ x.unlink \in {0, 1} /\ x.size \in Nat /\ x.blk \in Blks \cup {-1}
                          /\ x.type = "dir" => x.blk \in Blks
  BY DEF InodeRec
<1>6. \A i \in Inos(d) : d.inodes[i] \in InodeRec BY <1>3, <1>4
<1>7. d.dirs \in [Blks -> Dirs] /\ d.occupied \in [Blks -> BOOLEAN] /\ d.newBuf \in Dirs BY DEF DiskTyped
<1>8. Blks \subseteq Nat \ {0} /\ RootBlk \in Blks /\ RootBlk = 1 BY BlksAssumption DEF RootBlk
<1> QED BY <1>1, <1>2, <1>3, <1>4, <1>5, <1>6, <1>7, <1>8

\* What is found has a name.
LEMMA HitAlive ==
  ASSUME NEW d, NEW f, NEW lk, FsInv(d, f, lk), NEW b \in Blks, NEW n, Hit(d.dirs[b], n) # 0
  PROVE  LET i == Hit(d.dirs[b], n) IN
         /\ i \in Inos(d) \ {Root} /\ i \in Nat \ {0} /\ i > 0
         /\ \E h \in DOMAIN d.dirs[b] :
              /\ h = Min(Hits(d.dirs[b], n)) /\ Hits(d.dirs[b], n) # {}
              /\ d.dirs[b][h].ino = i /\ d.dirs[b][h].name = n /\ <<b, h, i>> \in LinksTo(d.dirs, i)
              /\ \A s \in DOMAIN d.dirs[b] : d.dirs[b][s].ino > 0 /\ d.dirs[b][s].name = n => h <= s
<1>1. DiskTyped(d) /\ Homes(d, f) BY DEF FsInv
<1>2. d.dirs \in [Blks -> Dirs] /\ d.dirs[b] \in Dirs /\ Inos(d) \subseteq Nat BY <1>1, InodeFacts
<1>3. PICK h \in DOMAIN d.dirs[b] :
        /\ h = Min(Hits(d.dirs[b], n)) /\ Hits(d.dirs[b], n) # {}
        /\ Hit(d.dirs[b], n) = d.dirs[b][h].ino /\ d.dirs[b][h].ino > 0
        /\ d.dirs[b][h].name = n
        /\ \A s \in DOMAIN d.dirs[b] : d.dirs[b][s].ino > 0 /\ d.dirs[b][s].name = n => h <= s
  BY <1>2, HitIs
<1>4. d.dirs[b][h].ino \in Nat \ {0} BY <1>2, <1>3, DirFacts
<1>5. <<b, h, d.dirs[b][h].ino>> \in LinksTo(d.dirs, d.dirs[b][h].ino) BY <1>2, LinkIs
<1>6. d.dirs[b][h].ino \in Inos(d) \ {Root} BY <1>1, <1>4, <1>5 DEF Homes
<1> QED BY <1>3, <1>4, <1>5, <1>6

LEMMA DownIn ==
  ASSUME NEW d, NEW f, NEW lk, FsInv(d, f, lk), NEW up \in Places(d), NEW n
  PROVE  Down(d, up, n) \in Places(d)
<1>1. DiskTyped(d) /\ OwnBlocks(d, f) BY DEF FsInv
<1>2. CASE up = 0 \/ Hit(d.dirs[up], n) = 0 BY <1>2 DEF Down, Places
<1>3. CASE up # 0 /\ Hit(d.dirs[up], n) # 0
  <2>1. up \in Blks BY <1>3 DEF Places
  <2>2. PICK i : i = Hit(d.dirs[up], n) OBVIOUS
  <2>3. i \in Inos(d) \ {Root} /\ i > 0 /\ LinksTo(d.dirs, i) # {} BY <1>3, <2>1, <2>2, HitAlive
  <2>4. Down(d, up, n) = IF d.inodes[i].type = "dir" THEN d.inodes[i].blk ELSE 0
    BY <1>3, <2>2, <2>3 DEF Down
  <2>5. CASE d.inodes[i].type = "dir"
    <3>1. d.inodes[i].blk \in Blks BY <1>1, <2>3 DEF OwnBlocks, Alive
    <3>2. DirIn(d, i, d.inodes[i].blk) BY <2>3, <2>5 DEF DirIn
    <3> QED BY <2>3, <2>4, <2>5, <3>1, <3>2 DEF Places, IsDirBlk
  <2>6. CASE d.inodes[i].type # "dir" BY <2>4, <2>6 DEF Places
  <2> QED BY <2>5, <2>6
<1> QED BY <1>2, <1>3

LEMMA RootIn == ASSUME NEW d, DiskTyped(d) PROVE RootBlk \in Places(d) /\ RootBlk # 0
<1>1. Root \in Inos(d) /\ RootBlk \in Blks /\ RootBlk = 1 BY InodeFacts
<1>2. DirIn(d, Root, RootBlk) BY DEF DiskTyped, DirIn
<1> QED BY <1>1, <1>2 DEF Places, IsDirBlk

\* There is a walk, and ParentBlk is where it ends.
LEMMA WalkExists ==
  ASSUME NEW d, NEW f, NEW lk, FsInv(d, f, lk), NEW path \in PathsOf
  PROVE  \E w \in [1..Len(path) -> Places(d)] : IsWalk(d, path, w)
<1>1. PICK N \in Nat : Len(path) = N + 1 /\ path \in [1..(N + 1) -> Names]
  <2>1. Len(path) \in Nat \ {0} /\ path \in [1..Len(path) -> Names] BY PathFacts
  <2>2. Len(path) - 1 \in Nat /\ Len(path) = (Len(path) - 1) + 1 BY <2>1
  <2> QED BY <2>1, <2>2
<1> DEFINE T == Nat \X Places(d)
           G == [x \in T |-> <<x[1] + 1, Down(d, x[2], path[x[1]])>>]
           base == <<1, RootBlk>>
<1>2. base \in T BY RootIn DEF FsInv
<1>3. G \in [T -> T]
  <2> SUFFICES ASSUME NEW x \in T PROVE <<x[1] + 1, Down(d, x[2], path[x[1]])>> \in T OBVIOUS
  <2>1. x[1] \in Nat /\ x[2] \in Places(d) OBVIOUS
  <2>2. Down(d, x[2], path[x[1]]) \in Places(d) BY <2>1, DownIn
  <2> QED BY <2>1, <2>2
<1>4. \A x \in T : G[x] = <<x[1] + 1, Down(d, x[2], path[x[1]])>> OBVIOUS
<1> HIDE DEF G, base, T
<1>5. PICK g \in [0..N -> T] : IsIteration(g, N, base, G) BY <1>2, <1>3, IterationExists
<1>6. g[0] = base /\ \A i \in 1..N : g[i] = G[g[i - 1]] BY <1>5 DEF IsIteration
<1>7. \A i \in 1..N : g[i] = <<g[i - 1][1] + 1, Down(d, g[i - 1][2], path[g[i - 1][1]])>>
  <2> TAKE i \in 1..N
  <2>1. i - 1 \in 0..N /\ g[i - 1] \in T BY <1>5
  <2> QED BY <1>4, <1>6, <2>1
<1>8. \A i \in 0..N : g[i][1] = i + 1
  <2> DEFINE P == {i \in 0..N : g[i][1] = i + 1}
  <2>1. 0 \in P /\ 0 \in 0..N BY <1>6 DEF base
  <2>2. \A i \in 1..N : i - 1 \in P => i \in P
    <3> TAKE i \in 1..N
    <3> HAVE i - 1 \in P
    <3>1. g[i - 1][1] = (i - 1) + 1 /\ i \in 0..N OBVIOUS
    <3>2. g[i][1] = g[i - 1][1] + 1 BY <1>7
    <3> QED BY <3>1, <3>2
  <2>3. \A i \in (0 + 1)..N : i - 1 \in P => i \in P BY <2>2
  <2> HIDE DEF P
  <2>4. \A i \in 0..N : i \in P BY <2>1, <2>3, StepByStep
  <2> QED BY <2>4 DEF P
<1> DEFINE w == [i \in 1..(N + 1) |-> g[i - 1][2]]
<1>9. w \in [1..(N + 1) -> Places(d)]
  <2> SUFFICES ASSUME NEW i \in 1..(N + 1) PROVE g[i - 1][2] \in Places(d) OBVIOUS
  <2>1. g[i - 1] \in T BY <1>5
  <2> QED BY <2>1 DEF T
<1>10. w[1] = RootBlk BY <1>6 DEF base
<1>11. \A i \in 2..(N + 1) : w[i] = Down(d, w[i - 1], path[i - 1])
  <2> TAKE i \in 2..(N + 1)
  <2>1. i - 1 \in 1..N /\ i - 2 \in 0..N /\ (i - 1) - 1 = i - 2 /\ (i - 2) + 1 = i - 1 OBVIOUS
  <2>2. w[i] = g[i - 1][2] /\ w[i - 1] = g[i - 2][2] BY <2>1
  <2>3. g[i - 1] = <<g[i - 2][1] + 1, Down(d, g[i - 2][2], path[g[i - 2][1]])>> BY <1>7, <2>1
  <2>4. g[i - 2][1] = i - 1 BY <1>8, <2>1
  <2> QED BY <2>2, <2>3, <2>4
<1> QED BY <1>1, <1>9, <1>10, <1>11 DEF IsWalk

LEMMA WalkUnique ==
  ASSUME NEW d, NEW path \in PathsOf, NEW v, NEW w, IsWalk(d, path, v), IsWalk(d, path, w)
  PROVE  \A i \in 1..Len(path) : v[i] = w[i]
<1>1. PICK N \in Nat : N = Len(path) /\ 1 \in 0..N BY PathFacts
<1> DEFINE P == {i \in 1..N : v[i] = w[i]}
<1>2. 1 \in P BY <1>1 DEF IsWalk
<1>3. \A i \in (1 + 1)..N : i - 1 \in P => i \in P
  <2> TAKE i \in (1 + 1)..N
  <2> HAVE i - 1 \in P
  <2>1. v[i - 1] = w[i - 1] /\ i \in 1..N /\ i \in 2..Len(path) BY <1>1
  <2> QED BY <2>1 DEF IsWalk
<1> HIDE DEF P
<1>4. \A i \in 1..N : i \in P BY <1>1, <1>2, <1>3, StepByStep
<1> QED BY <1>1, <1>4 DEF P

LEMMA ParentIs ==
  ASSUME NEW d, NEW f, NEW lk, FsInv(d, f, lk), NEW path \in PathsOf
  PROVE  \E w \in [1..Len(path) -> Places(d)] : IsWalk(d, path, w) /\ ParentBlk(d, path) = w[Len(path)]
<1> DEFINE N == Len(path)
           Rec(g) == [i \in 1..N |->
                       IF i = 1 THEN RootBlk
                       ELSE LET up  == g[i - 1]
                                son == IF up = 0 THEN 0 ELSE Hit(d.dirs[up], path[i - 1]) IN
                            IF son > 0 /\ d.inodes[son].type = "dir" THEN d.inodes[son].blk ELSE 0]
           blk == CHOOSE g : g = Rec(g)
<1>1. PICK w \in [1..N -> Places(d)] : IsWalk(d, path, w) BY WalkExists
<1>2. N \in Nat \ {0} BY PathFacts
<1>3. \A g : Rec(g) = [i \in 1..N |-> IF i = 1 THEN RootBlk ELSE Down(d, g[i - 1], path[i - 1])]
  BY DEF Down
<1>4. w = Rec(w)
  <2>1. w = [i \in 1..N |-> w[i]] OBVIOUS
  <2>2. \A i \in 1..N : w[i] = IF i = 1 THEN RootBlk ELSE Down(d, w[i - 1], path[i - 1])
    <3> TAKE i \in 1..N
    <3>1. i # 1 => i \in 2..N BY <1>2
    <3> QED BY <1>1, <3>1 DEF IsWalk
  <2>3. w = [i \in 1..N |-> IF i = 1 THEN RootBlk ELSE Down(d, w[i - 1], path[i - 1])] BY <2>1, <2>2
  <2> QED BY <1>3, <2>3
<1>5. ParentBlk(d, path) = blk[N] BY DEF ParentBlk
<1> HIDE DEF Rec
<1>6. blk = Rec(blk) BY <1>4
<1> HIDE DEF blk
<1>7. blk = [i \in 1..N |-> IF i = 1 THEN RootBlk ELSE Down(d, blk[i - 1], path[i - 1])] BY <1>3, <1>6
<1>8. \A i \in 1..N : blk[i] = IF i = 1 THEN RootBlk ELSE Down(d, blk[i - 1], path[i - 1]) BY <1>7
<1>9. IsWalk(d, path, blk)
  <2>1. 1 \in 1..N BY <1>2
  <2>2. blk[1] = RootBlk BY <1>8, <2>1
  <2>3. ASSUME NEW i \in 2..N PROVE blk[i] = Down(d, blk[i - 1], path[i - 1])
    <3>1. i \in 1..N /\ i # 1 BY <1>2
    <3> QED BY <1>8, <3>1
  <2> QED BY <2>2, <2>3 DEF IsWalk
<1>10. blk[N] = w[N]
  <2>1. N \in 1..N BY <1>2
  <2> QED BY <1>1, <1>9, <2>1, WalkUnique
<1> QED BY <1>1, <1>5, <1>10

\* What a path means: its directory, and what is there by its last name.
LEMMA FindIs ==
  ASSUME NEW d, NEW f, NEW lk, FsInv(d, f, lk), NEW path \in PathsOf
  PROVE  /\ ParentBlk(d, path) \in Places(d)
         /\ ParentBlk(d, path) # 0 => ParentBlk(d, path) \in Blks /\ IsDirBlk(d, ParentBlk(d, path))
         /\ Find(d, path) = IF ParentBlk(d, path) = 0 THEN 0 ELSE Hit(d.dirs[ParentBlk(d, path)], NameOf(path))
         /\ Find(d, path) # 0 => Find(d, path) \in Inos(d) \ {Root} /\ Find(d, path) > 0
<1>1. ParentBlk(d, path) \in Places(d)
  <2>1. Len(path) \in 1..Len(path)
    <3>1. Len(path) \in Nat \ {0} BY PathFacts
    <3> QED BY <3>1
  <2>2. PICK w \in [1..Len(path) -> Places(d)] : ParentBlk(d, path) = w[Len(path)] BY ParentIs
  <2> QED BY <2>1, <2>2
<1>2. ParentBlk(d, path) # 0 => ParentBlk(d, path) \in Blks /\ IsDirBlk(d, ParentBlk(d, path))
  BY <1>1 DEF Places
<1>3. Find(d, path) = IF ParentBlk(d, path) = 0 THEN 0 ELSE Hit(d.dirs[ParentBlk(d, path)], NameOf(path))
  BY DEF Find
<1>4. Find(d, path) # 0 => Find(d, path) \in Inos(d) \ {Root} /\ Find(d, path) > 0
  BY <1>2, <1>3, HitAlive
<1> QED BY <1>1, <1>2, <1>3, <1>4

-----------------------------------------------------------------------------
(* A new file or directory.                                                 *)

\* No name lies in a block that is free.
LEMMA FreeIsEmpty ==
  ASSUME NEW d, NEW f, NEW lk, FsInv(d, f, lk), NEW b \in Blks, ~d.occupied[b]
  PROVE  ~IsDirBlk(d, b) /\ \A s \in DOMAIN d.dirs[b] : d.dirs[b][s].ino <= 0
<1>1. DiskTyped(d) /\ OwnBlocks(d, f) /\ Homes(d, f) BY DEF FsInv
<1>2. d.dirs \in [Blks -> Dirs] /\ d.dirs[b] \in Dirs BY <1>1, InodeFacts
<1>3. ~IsDirBlk(d, b)
  <2> SUFFICES ASSUME NEW k \in Inos(d), DirIn(d, k, b) PROVE FALSE BY DEF IsDirBlk
  <2>1. Alive(d, f, k) /\ d.inodes[k].blk = b BY DEF DirIn, Alive
  <2> QED BY <1>1, <2>1 DEF OwnBlocks
<1>4. ASSUME NEW s \in DOMAIN d.dirs[b], ~(d.dirs[b][s].ino <= 0) PROVE FALSE
  <2>1. PICK i \in Nat \ {0} : i = d.dirs[b][s].ino BY <1>2, <1>4, DirFacts
  <2>2. <<b, s, i>> \in LinksTo(d.dirs, i) BY <1>2, <2>1, LinkIs
  <2>3. IsDirBlk(d, <<b, s, i>>[1]) BY <1>1, <2>2 DEF Homes
  <2> QED BY <1>3, <2>3
<1> QED BY <1>3, <1>4

\* What a new directory is written from has no names, if none are left behind the first.
LEMMA BufferIs ==
  ASSUME NEW buf \in Dirs, ~NamesLeft(buf)
  PROVE  /\ buf # <<>> => [buf EXCEPT ![1].ino = 0] \in Dirs
         /\ \A s \in DOMAIN [buf EXCEPT ![1].ino = 0] : [buf EXCEPT ![1].ino = 0][s].ino <= 0
<1> DEFINE new == [buf EXCEPT ![1].ino = 0]
<1>1. buf \in Seq(Entry) /\ DOMAIN buf = 1..Len(buf) /\ Len(buf) \in Nat /\ Len(buf) <= DirSlots
      /\ \A s \in DOMAIN buf : buf[s] \in Entry /\ buf[s].ino \in Int
  BY DirFacts
<1>2. DOMAIN new = DOMAIN buf /\ \A s \in DOMAIN buf : s # 1 => new[s] = buf[s] OBVIOUS
<1>3. ASSUME NEW s \in DOMAIN buf PROVE new[s] \in Entry /\ new[s].ino <= 0
  <2>1. CASE s # 1
    <3>1. s > 1 /\ ~(buf[s].ino > 0) BY <1>1, <2>1 DEF NamesLeft
    <3> QED BY <1>1, <1>2, <2>1, <3>1
  <2>2. CASE s = 1
    <3>1. new[1] = [buf[1] EXCEPT !.ino = 0] BY <2>2
    <3>2. buf[1] \in Entry BY <1>1, <2>2
    <3>3. new[1] \in Entry /\ new[1].ino = 0 BY <3>1, <3>2 DEF Entry
    <3> QED BY <2>2, <3>3
  <2> QED BY <2>1, <2>2
<1> HIDE DEF new
<1>4. CASE buf # <<>>
  <2>1. new \in [1..Len(buf) -> Entry]
    <3>1. new = [s \in 1..Len(buf) |-> new[s]] BY <1>1, <1>2 DEF new
    <3> QED BY <1>1, <1>3, <3>1
  <2>2. new \in Seq(Entry) /\ Len(new) = Len(buf) BY <1>1, <2>1, SeqDef, LenProperties
  <2>3. Tidy(new) BY <1>2, <1>3 DEF Tidy
  <2>4. new \in Dirs BY <1>1, <2>2, <2>3 DEF Dirs
  <2> QED BY <1>2, <1>3, <2>4 DEF new
<1>5. CASE buf = <<>> BY <1>2, <1>3, <1>5 DEF new
<1> QED BY <1>4, <1>5

\* d2 is d with a new inode k in block B.
Creates(d, f, lk, path, type, ref, d2, k, B) ==
  /\ FsInv(d, f, lk) /\ path \in PathsOf /\ type \in Types /\ ref \in {0, 1}
  /\ MayCreate(d, path) /\ ~Full(d.dirs[ParentBlk(d, path)]) /\ ~CannotCreate(d)
  /\ d2 = Created(d, path, type, ref) /\ k = Len(d.inodes) + 1 /\ B = Min(FreeBlks(d))
  /\ type = "dir" => ~NamesLeft(d.newBuf)

\* The buffer for new blocks, and the directories, behind a creation.
NewBufOf(d, type) == IF type = "dir" /\ d.newBuf # <<>> THEN [d.newBuf EXCEPT ![1].ino = 0] ELSE d.newBuf
NewDirsOf(d, path, type, up, k, B) ==
  LET ups == [d.dirs EXCEPT ![up] = EntryAdded(@, k, NameOf(path))] IN
  IF type = "dir" THEN [ups EXCEPT ![B] = NewBufOf(d, type)] ELSE ups

LEMMA CreatedForm ==
  ASSUME NEW d, NEW path, NEW type, NEW ref
  PROVE  Created(d, path, type, ref) =
           [inodes   |-> Append(d.inodes, Inode(type, ref, 1, Min(FreeBlks(d)))),
            occupied |-> [d.occupied EXCEPT ![Min(FreeBlks(d))] = TRUE],
            dirs     |-> NewDirsOf(d, path, type, ParentBlk(d, path), Len(d.inodes) + 1, Min(FreeBlks(d))),
            newBuf   |-> NewBufOf(d, type)]
BY ZenonT(60) DEF Created, NewDirsOf, NewBufOf

LEMMA CreatedIs ==
  ASSUME NEW d, NEW f, NEW lk, NEW path, NEW type, NEW ref, NEW d2, NEW k, NEW B,
         Creates(d, f, lk, path, type, ref, d2, k, B)
  PROVE  /\ DiskTyped(d2) /\ k \in Nat \ {0, Root} /\ k \notin Inos(d) /\ Inos(d2) = Inos(d) \cup {k}
         /\ \A i \in Inos(d) : d2.inodes[i] = d.inodes[i]
         /\ d2.inodes[k] = Inode(type, ref, 1, B)
         /\ B \in Blks /\ ~d.occupied[B] /\ d2.occupied[B]
         /\ \A b \in Blks : b # B => d2.occupied[b] = d.occupied[b]
         /\ \A i \in Nat \ {0} : i # k => LinksTo(d2.dirs, i) = LinksTo(d.dirs, i)
         /\ LinksTo(d.dirs, k) = {} /\ \E e : LinksTo(d2.dirs, k) = {e} /\ e[1] = ParentBlk(d, path)
         /\ d2.dirs[ParentBlk(d, path)] = EntryAdded(d.dirs[ParentBlk(d, path)], k, NameOf(path))
         /\ \A b \in Blks : b # ParentBlk(d, path) => SaysTheSame(d.dirs[b], d2.dirs[b])
         /\ d.newBuf = <<>> =>
              d2.newBuf = <<>> /\ \A b \in Blks : b # ParentBlk(d, path) => d2.dirs[b] \in {d.dirs[b], <<>>}
<1> /\ FsInv(d, f, lk) /\ path \in PathsOf /\ type \in Types /\ ref \in {0, 1}
    /\ MayCreate(d, path) /\ ~Full(d.dirs[ParentBlk(d, path)]) /\ ~CannotCreate(d)
    /\ d2 = Created(d, path, type, ref) /\ k = Len(d.inodes) + 1 /\ B = Min(FreeBlks(d))
    /\ type = "dir" => ~NamesLeft(d.newBuf)
  BY DEF Creates
<1>1. PICK up \in Blks : up = ParentBlk(d, path) /\ IsDirBlk(d, up) BY FindIs DEF MayCreate
<1>2. DiskTyped(d) /\ OwnBlocks(d, f) /\ Homes(d, f) BY DEF FsInv
<1>3. PICK n \in Nat : n = Len(d.inodes) /\ n >= 1 /\ n + 1 <= MaxInodes /\ Inos(d) = 1..n
                       /\ \A i \in 1..n : d.inodes[i] \in InodeRec
  <2>1. Len(d.inodes) \in Nat \ {0} /\ \A i \in Inos(d) : d.inodes[i] \in InodeRec BY <1>2, InodeFacts
  <2>2. MaxInodes \in Nat /\ ~(Len(d.inodes) + 1 > MaxInodes) BY SizesAssumption DEF CannotCreate
  <2> QED BY <2>1, <2>2 DEF Inos
<1> k = n + 1 BY <1>3
<1> DEFINE new == NewBufOf(d, type)
           D == NewDirsOf(d, path, type, up, k, B)
<1>4. B \in Blks /\ ~d.occupied[B]
  <2>1. FreeBlks(d) # {} /\ FreeBlks(d) \in SUBSET Nat BY BlksAssumption DEF CannotCreate, FreeBlks
  <2>2. B \in FreeBlks(d) BY <2>1, MinIs
  <2> QED BY <2>2 DEF FreeBlks
<1>5. d2 = [inodes |-> Append(d.inodes, Inode(type, ref, 1, B)),
            occupied |-> [d.occupied EXCEPT ![B] = TRUE], dirs |-> D, newBuf |-> new]
  <2>1. up = ParentBlk(d, path) /\ k = Len(d.inodes) + 1 /\ B = Min(FreeBlks(d)) BY <1>1
  <2>2. d2 = [inodes   |-> Append(d.inodes, Inode(type, ref, 1, Min(FreeBlks(d)))),
              occupied |-> [d.occupied EXCEPT ![Min(FreeBlks(d))] = TRUE],
              dirs     |-> NewDirsOf(d, path, type, ParentBlk(d, path), Len(d.inodes) + 1, Min(FreeBlks(d))),
              newBuf   |-> NewBufOf(d, type)]
    BY CreatedForm, Zenon
  <2> QED BY <2>1, <2>2
<1>6. up # B /\ \A s \in DOMAIN d.dirs[B] : d.dirs[B][s].ino <= 0 BY <1>1, <1>4, FreeIsEmpty
<1>7. new \in Dirs /\ (type = "dir" => \A s \in DOMAIN new : new[s].ino <= 0)
  <2>1. d.newBuf \in Dirs BY <1>2, InodeFacts
  <2>2. CASE type = "dir" /\ d.newBuf # <<>>
    <3>1. new = [d.newBuf EXCEPT ![1].ino = 0] BY <2>2 DEF NewBufOf
    <3> QED BY <2>1, <2>2, <3>1, BufferIs
  <2>3. CASE ~(type = "dir" /\ d.newBuf # <<>>)
    <3>1. new = d.newBuf BY <2>3 DEF NewBufOf
    <3>2. d.newBuf = <<>> => DOMAIN d.newBuf = {} OBVIOUS
    <3> QED BY <2>1, <2>3, <3>1, <3>2
  <2> QED BY <2>2, <2>3
<1>21. d.newBuf = <<>> => new = <<>> BY DEF NewBufOf
<1> HIDE DEF new
<1>8. EntryAdded(d.dirs[up], k, NameOf(path)) \in Dirs
  <2>1. d.dirs[up] \in Dirs BY <1>2, InodeFacts
  <2>2. NameOf(path) \in Names /\ k \in Nat \ {0} BY PathFacts
  <2>3. ~Full(d.dirs[up]) BY <1>1
  <2> QED BY <2>1, <2>2, <2>3, AddedIs
<1>9. D \in [Blks -> Dirs] /\ D[up] = EntryAdded(d.dirs[up], k, NameOf(path))
      /\ \A b \in Blks : b # up => D[b] = d.dirs[b] \/ (b = B /\ D[b] = new /\ type = "dir")
  <2> DEFINE ups == [d.dirs EXCEPT ![up] = EntryAdded(@, k, NameOf(path))]
  <2>1. d.dirs \in [Blks -> Dirs] BY <1>2, InodeFacts
  <2>2. ups \in [Blks -> Dirs] /\ ups[up] = EntryAdded(d.dirs[up], k, NameOf(path))
        /\ \A b \in Blks : b # up => ups[b] = d.dirs[b]
    BY <1>8, <2>1
  <2>5. D = IF type = "dir" THEN [ups EXCEPT ![B] = new] ELSE ups BY Zenon DEF NewDirsOf, new
  <2> HIDE DEF ups, D
  <2>3. CASE type = "dir" BY <1>4, <1>6, <1>7, <2>2, <2>3, <2>5
  <2>4. CASE type # "dir" BY <2>2, <2>4, <2>5
  <2> QED BY <2>3, <2>4
<1> HIDE DEF D
<1>10. \A b \in Blks : b # up => SaysTheSame(d.dirs[b], D[b])
  <2> TAKE b \in Blks
  <2> HAVE b # up
  <2>1. CASE D[b] = d.dirs[b] BY <2>1 DEF SaysTheSame
  <2>2. CASE b = B /\ D[b] = new /\ type = "dir"
    <3>1. d.dirs[b] \in Dirs /\ \A s \in DOMAIN d.dirs[b] : d.dirs[b][s].ino \in Int BY <1>2, InodeFacts, DirFacts
    <3>2. \A s \in DOMAIN new : new[s].ino \in Int BY <1>7, DirFacts
    <3>3. \A s \in DOMAIN d.dirs[b] : ~(d.dirs[b][s].ino > 0) BY <1>6, <2>2, <3>1
    <3>4. \A s \in DOMAIN new : ~(new[s].ino > 0) BY <1>7, <2>2, <3>2
    <3> QED BY <2>2, <3>3, <3>4 DEF SaysTheSame
  <2> QED BY <1>9, <2>1, <2>2
<1>11. k \in Nat \ {0, Root} /\ k \notin Inos(d) BY <1>3 DEF Root
<1>12. LinksTo(d.dirs, k) = {}
  <2>1. k \in Nat \ {0} BY <1>11
  <2> QED BY <1>2, <1>11, <2>1 DEF Homes
<1>13. PICK e : /\ LinksTo(D, k) = {e} /\ e[1] = up
                /\ \A i \in Nat \ {0} : i # k => LinksTo(D, i) = LinksTo(d.dirs, i)
  <2>1. d.dirs \in [Blks -> Dirs] BY <1>2, InodeFacts
  <2>2. NameOf(path) \in Names /\ k \in Nat \ {0} BY <1>11, PathFacts
  <2>3. ~Full(d.dirs[up]) BY <1>1
  <2>4. /\ \A i \in Nat \ {0} : i # k => LinksTo(D, i) = LinksTo(d.dirs, i)
        /\ \E e : e \notin LinksTo(d.dirs, k) /\ LinksTo(D, k) = LinksTo(d.dirs, k) \cup {e} /\ e[1] = up
    BY <1>9, <1>10, <2>1, <2>2, <2>3, LinksAdded, SMTT(30)
  <2> QED BY <1>12, <2>4
<1>14. Inode(type, ref, 1, B) \in InodeRec BY <1>4 DEF Inode, InodeRec
<1>15. PICK q \in Seq(InodeRec) : q = d2.inodes /\ Len(q) = n + 1 /\ q[n + 1] = Inode(type, ref, 1, B)
                                  /\ \A i \in 1..n : q[i] = d.inodes[i]
  <2>1. d.inodes \in Seq(InodeRec) BY <1>2, InodeFacts
  <2>2. LET a == Append(d.inodes, Inode(type, ref, 1, B)) IN
        /\ a \in Seq(InodeRec) /\ Len(a) = n + 1 /\ a[n + 1] = Inode(type, ref, 1, B)
        /\ \A i \in 1..n : a[i] = d.inodes[i]
    BY <1>3, <1>14, <2>1, AppendProperties
  <2>3. d2.inodes = Append(d.inodes, Inode(type, ref, 1, B)) BY <1>5
  <2> QED BY <2>2, <2>3
<1>16. Inos(d2) = Inos(d) \cup {k} /\ Inos(d2) = 1..(n + 1) BY <1>3, <1>15 DEF Inos
<1>17. d2.dirs = D /\ d2.occupied = [d.occupied EXCEPT ![B] = TRUE] /\ d2.newBuf = new BY <1>5
<1>18. DiskTyped(d2)
  <2>1. [d.occupied EXCEPT ![B] = TRUE] \in [Blks -> BOOLEAN] BY <1>2, InodeFacts
  <2>2. d2 \in [inodes : Seq(InodeRec), occupied : [Blks -> BOOLEAN], dirs : [Blks -> Dirs], newBuf : Dirs]
    <3>1. d2.inodes \in Seq(InodeRec) BY <1>15
    <3>2. Append(d.inodes, Inode(type, ref, 1, B)) \in Seq(InodeRec) BY <1>5, <3>1
    <3> QED BY <1>5, <1>7, <1>9, <2>1, <3>2
  <2>3. Len(d2.inodes) \in 1..MaxInodes
    <3>1. Len(d2.inodes) = n + 1 BY <1>15
    <3> QED BY <1>3, <3>1, SizesAssumption
  <2>4. d2.inodes[Root] = d.inodes[Root]
    <3>1. Root \in 1..n BY <1>3 DEF Root
    <3> QED BY <1>15, <3>1
  <2> QED BY <1>2, <2>2, <2>3, <2>4 DEF DiskTyped
<1>19. (\A i \in Inos(d) : d2.inodes[i] = d.inodes[i]) /\ d2.inodes[k] = Inode(type, ref, 1, B)
  BY <1>3, <1>15
<1>20. d2.occupied[B] /\ \A b \in Blks : b # B => d2.occupied[b] = d.occupied[b]
  <2>1. d.occupied \in [Blks -> BOOLEAN] BY <1>2, InodeFacts
  <2> QED BY <1>4, <1>17, <2>1
<1>22. d.newBuf = <<>> => d2.newBuf = <<>> /\ \A b \in Blks : b # up => d2.dirs[b] \in {d.dirs[b], <<>>}
  BY <1>9, <1>17, <1>21
<1> QED BY <1>1, <1>4, <1>9, <1>10, <1>11, <1>12, <1>13, <1>16, <1>17, <1>18, <1>19, <1>20, <1>22

LEMMA CreatedInv ==
  ASSUME NEW d, NEW f, NEW lk, NEW path, NEW type, NEW ref, NEW d2, NEW k, NEW B,
         Creates(d, f, lk, path, type, ref, d2, k, B),
         NEW f2, FilesTyped(f2), NEW lk2 \in BOOLEAN, lk => lk2, type = "dir" => ref = 0,
         \A i \in Nat \ {0} : i # k => OpensOf(f2, i) = OpensOf(f, i),
         \/ ref = 0 /\ OpensOf(f2, k) = {}
         \/ ref = 1 /\ \E o : OpensOf(f2, k) = {o}
         \/ ref = 1 /\ OpensOf(f2, k) = {} /\ lk2
  PROVE  FsInv(d2, f2, lk2)
<1>1. /\ FsInv(d, f, lk) /\ path \in PathsOf /\ type \in Types /\ ref \in {0, 1} /\ MayCreate(d, path)
      /\ FsInv(d, f, lk) => DiskTyped(d) /\ Homes(d, f) /\ OwnBlocks(d, f)
  BY DEF Creates, FsInv
<1>2. /\ DiskTyped(d2) /\ k \in Nat \ {0, Root} /\ k \notin Inos(d) /\ Inos(d2) = Inos(d) \cup {k}
      /\ B \in Blks
      /\ \A i \in Inos(d) : d2.inodes[i] = d.inodes[i]
      /\ d2.inodes[k] = Inode(type, ref, 1, B)
      /\ ~d.occupied[B] /\ d2.occupied[B] /\ \A b \in Blks : b # B => d2.occupied[b] = d.occupied[b]
      /\ \A i \in Nat \ {0} : i # k => LinksTo(d2.dirs, i) = LinksTo(d.dirs, i)
      /\ \E e : LinksTo(d2.dirs, k) = {e} /\ e[1] = ParentBlk(d, path)
  BY CreatedIs
<1>3. PICK e : LinksTo(d2.dirs, k) = {e} /\ e[1] = ParentBlk(d, path) BY <1>2
<1>4. DiskTyped(d) /\ Homes(d, f) /\ OwnBlocks(d, f) BY <1>1
<1>5. Inos(d) \subseteq Nat \ {0} BY <1>4, InodeFacts
<1>6. \A b \in Blks : b # B => d2.occupied[b] = d.occupied[b] BY <1>2
<1>7. d2.occupied[B] BY <1>2
<1>8. Cardinality(LinksTo(d2.dirs, k)) = 1 BY <1>3, FS_Singleton
<1>9. CountsOf(d2, f2, lk2, k)
  <2>1. /\ d2.inodes[k].linkcnt = 1 /\ d2.inodes[k].refcnt = ref /\ d2.inodes[k].type = type
        /\ d2.inodes[k].unlink = 0
    BY <1>2 DEF Inode
  <2>2. Cardinality(OpensOf(f2, k)) <= ref /\ (~lk2 => Cardinality(OpensOf(f2, k)) = ref)
    <3>1. OpensOf(f2, k) = {} => Cardinality(OpensOf(f2, k)) = 0 BY FS_EmptySet
    <3>2. (\E o : OpensOf(f2, k) = {o}) => Cardinality(OpensOf(f2, k)) = 1 BY FS_Singleton
    <3>3. ref \in Int /\ ref >= 0 BY <1>1
    <3>4. CASE ref = 0 BY <3>1, <3>4
    <3>5. CASE \E o : OpensOf(f2, k) = {o}
      <4>1. ref = 1 BY <3>5
      <4> QED BY <3>2, <3>5, <4>1
    <3>6. CASE OpensOf(f2, k) = {} /\ lk2 BY <3>1, <3>3, <3>6
    <3> QED BY <3>4, <3>5, <3>6
  <2>3. Cardinality(OpensOf(f2, k)) \in Nat BY OpensFinite, FS_CardinalityType
  <2> QED BY <1>8, <2>1, <2>2, <2>3 DEF CountsOf
<1>10. \A i \in Nat \ {0} : \A x \in LinksTo(d2.dirs, i) : \E j \in Inos(d) \ {k} : DirIn(d, j, x[1])
  <2> TAKE i \in Nat \ {0}
  <2> TAKE x \in LinksTo(d2.dirs, i)
  <2>1. IsDirBlk(d, x[1])
    <3>1. CASE i = k
      <4>1. x[1] = ParentBlk(d, path) BY <1>3, <3>1
      <4>2. ParentBlk(d, path) # 0 BY <1>1 DEF MayCreate
      <4> QED BY <1>1, <4>1, <4>2, FindIs
    <3>2. CASE i # k BY <1>2, <1>4, <3>2 DEF Homes
    <3> QED BY <3>1, <3>2
  <2> QED BY <1>2, <2>1 DEF IsDirBlk
<1>11. \A i \in Inos(d) : i # k /\ Alive(d, f, i) => d.inodes[i].blk # B BY <1>2, <1>4 DEF OwnBlocks
<1>12. Alive(d2, f2, k) BY <1>3 DEF Alive
<1>13. OpensOf(f2, k) # {} => d2.inodes[k].type = "file" BY <1>1, <1>2 DEF Inode, Types
<1>14. d2.inodes[k].blk = B BY <1>2 DEF Inode
<1>15. \A i \in Nat \ {0} : i # k => LinksTo(d2.dirs, i) = LinksTo(d.dirs, i) /\ OpensOf(f2, i) = OpensOf(f, i)
  BY <1>2
<1>16. k \in Inos(d) /\ Alive(d, f, k) => d.inodes[k].blk = B BY <1>2
<1>17. Alive(d2, f2, k) => d2.inodes[k].blk = B /\ d2.occupied[B] /\ CountsOf(d2, f2, lk2, k)
  BY <1>7, <1>9, <1>14
<1>18. ~lk2 /\ d2.occupied[B] => Alive(d2, f2, k) BY <1>12
<1>19. DiskTyped(d2) /\ k \in Nat \ {0, Root} /\ Inos(d2) = Inos(d) \cup {k}
       /\ \A i \in Inos(d) : i # k => d2.inodes[i] = d.inodes[i]
  BY <1>2
<1>20. Changes(d, f, lk, d2, f2, lk2, k, B)
  BY <1>1, <1>2, <1>6, <1>10, <1>11, <1>13, <1>15, <1>16, <1>17, <1>18, <1>19 DEF Changes
<1> QED BY <1>20, LocalChange

\* What names a directory has after an entry was added.
LEMMA NamesOnceAdded ==
  ASSUME NEW d, NEW f, NEW lk, FsInv(d, f, lk), NamesOnce(d), NEW d2, d2.dirs \in [Blks -> Dirs],
         NEW up \in Blks, NEW k \in Nat \ {0}, NEW n \in Names, ~Full(d.dirs[up]),
         d2.dirs[up] = EntryAdded(d.dirs[up], k, n),
         \A b \in Blks : b # up => SaysTheSame(d.dirs[b], d2.dirs[b]),
         \A i \in Inos(d) : d2.inodes[i].type = d.inodes[i].type,
         Hit(d.dirs[up], n) = 0 \/ d2.inodes[k].type = "file"
  PROVE  NamesOnce(d2)
<1>1. d.dirs \in [Blks -> Dirs] /\ Inos(d) \subseteq Nat \ {0} BY InodeFacts DEF FsInv
<1>2. ASSUME NEW b \in Blks, NEW s \in DOMAIN d.dirs[b], d.dirs[b][s].ino > 0
      PROVE  d.dirs[b][s].ino \in Inos(d)
  <2>1. d.dirs[b][s].ino \in Nat \ {0} BY <1>1, <1>2, DirFacts
  <2>2. <<b, s, d.dirs[b][s].ino>> \in LinksTo(d.dirs, d.dirs[b][s].ino) BY <1>1, LinkIs
  <2> QED BY <2>1, <2>2 DEF FsInv, Homes
<1>3. PICK dir \in Dirs : dir = d.dirs[up] /\ ~Full(dir) BY <1>1
<1>4. PICK p \in 1..DirSlots, new \in Dirs :
        /\ new = d2.dirs[up] /\ DOMAIN new = DOMAIN dir \cup {p} /\ new[p] = [ino |-> k, name |-> n]
        /\ \A s \in DOMAIN dir : s # p => new[s] = dir[s]
        /\ \A s \in DOMAIN dir : dir[s].ino > 0 => s < p
  <2>1. LET p == Reached(dir) + 1
            new == EntryAdded(dir, k, n) IN
        /\ new \in Dirs /\ p \in 1..DirSlots /\ p \in DOMAIN new
        /\ DOMAIN new = DOMAIN dir \cup {p}
        /\ new[p] = [ino |-> k, name |-> n]
        /\ \A s \in DOMAIN dir : s # p => new[s] = dir[s]
        /\ \A s \in DOMAIN dir : dir[s].ino > 0 => s < p
    BY <1>3, AddedIs, ZenonT(40)
  <2> QED BY <1>3, <2>1
<1> SUFFICES ASSUME NEW b \in Blks, NEW s \in DOMAIN d2.dirs[b], NEW u \in DOMAIN d2.dirs[b], s < u,
                    d2.dirs[b][s].ino > 0, d2.dirs[b][u].ino > 0, d2.dirs[b][s].name = d2.dirs[b][u].name
             PROVE  d2.inodes[d2.dirs[b][u].ino].type = "file"
  BY DEF NamesOnce
<1>5. ASSUME s \in DOMAIN d.dirs[b], u \in DOMAIN d.dirs[b],
             d2.dirs[b][s] = d.dirs[b][s], d2.dirs[b][u] = d.dirs[b][u]
      PROVE  d2.inodes[d2.dirs[b][u].ino].type = "file"
  <2>1. d.inodes[d.dirs[b][u].ino].type = "file" BY <1>5 DEF NamesOnce
  <2>2. d.dirs[b][u].ino \in Inos(d) BY <1>2, <1>5
  <2> QED BY <1>5, <2>1, <2>2
<1>6. CASE b # up
  <2>1. s \in DOMAIN d.dirs[b] /\ u \in DOMAIN d.dirs[b] /\ d2.dirs[b][s] = d.dirs[b][s] /\ d2.dirs[b][u] = d.dirs[b][u]
    BY <1>6 DEF SaysTheSame
  <2> QED BY <1>5, <2>1
<1>7. CASE b = up
  <2>1. s \in DOMAIN new /\ u \in DOMAIN new /\ s \in Nat /\ u \in Nat /\ p \in Nat
    <3>1. DirSlots \in Nat BY SizesAssumption
    <3>2. \A x \in DOMAIN new : x \in 1..DirSlots BY DirFacts
    <3> QED BY <1>4, <1>7, <3>1, <3>2
  <2>2. CASE s # p /\ u # p
    <3>1. s \in DOMAIN dir /\ u \in DOMAIN dir /\ new[s] = dir[s] /\ new[u] = dir[u] BY <1>4, <2>1, <2>2
    <3> QED BY <1>3, <1>4, <1>5, <1>7, <3>1
  <2>3. CASE u = p
    <3>1. s # p /\ s \in DOMAIN dir /\ new[s] = dir[s] BY <1>4, <2>1, <2>3
    <3>2. dir[s].ino > 0 /\ dir[s].name = n /\ new[u].ino = k BY <1>4, <1>7, <2>3, <3>1
    <3>3. Hit(dir, n) # 0
      <4>1. \A x \in DOMAIN dir : dir[x].ino > 0 => dir[x].ino # 0 BY DirFacts
      <4> QED BY <3>1, <3>2, <4>1, HitIs
    <3> QED BY <1>3, <1>4, <1>7, <3>2, <3>3
  <2>4. CASE s = p
    <3>1. u # p /\ u \in DOMAIN dir /\ new[u] = dir[u] /\ ~(u < p) BY <1>4, <2>1, <2>4
    <3>2. dir[u].ino > 0 BY <1>4, <1>7, <3>1
    <3> QED BY <1>4, <3>1, <3>2
  <2> QED BY <2>2, <2>3, <2>4
<1> QED BY <1>6, <1>7

\* Where names only go.
LEMMA NamesOnceFewer ==
  ASSUME NEW d, NEW f, NEW lk, FsInv(d, f, lk), NamesOnce(d), NEW d2,
         \A b \in Blks : \A s \in DOMAIN d2.dirs[b] :
           d2.dirs[b][s].ino > 0 => s \in DOMAIN d.dirs[b] /\ d2.dirs[b][s] = d.dirs[b][s],
         \A i \in Inos(d) : d2.inodes[i].type = d.inodes[i].type
  PROVE  NamesOnce(d2)
<1>1. d.dirs \in [Blks -> Dirs] /\ Inos(d) \subseteq Nat \ {0} BY InodeFacts DEF FsInv
<1> SUFFICES ASSUME NEW b \in Blks, NEW s \in DOMAIN d2.dirs[b], NEW u \in DOMAIN d2.dirs[b], s < u,
                    d2.dirs[b][s].ino > 0, d2.dirs[b][u].ino > 0, d2.dirs[b][s].name = d2.dirs[b][u].name
             PROVE  d2.inodes[d2.dirs[b][u].ino].type = "file"
  BY DEF NamesOnce
<1>2. s \in DOMAIN d.dirs[b] /\ d2.dirs[b][s] = d.dirs[b][s] /\ u \in DOMAIN d.dirs[b] /\ d2.dirs[b][u] = d.dirs[b][u]
  OBVIOUS
<1>3. d.inodes[d.dirs[b][u].ino].type = "file" BY <1>2 DEF NamesOnce
<1>4. d.dirs[b][u].ino \in Inos(d)
  <2>1. d.dirs[b][u].ino \in Nat \ {0} BY <1>1, <1>2, DirFacts
  <2>2. <<b, u, d.dirs[b][u].ino>> \in LinksTo(d.dirs, d.dirs[b][u].ino) BY <1>1, <1>2, LinkIs
  <2> QED BY <2>1, <2>2 DEF FsInv, Homes
<1> QED BY <1>2, <1>3, <1>4

-----------------------------------------------------------------------------
(* The calls that change an inode k of the table, or its names.             *)

LEMMA InodeChange ==
  ASSUME NEW d, NEW f, NEW lk, FsInv(d, f, lk), NEW k \in Inos(d) \ {Root}, Alive(d, f, k),
         NEW d2, NEW f2, NEW lk2 \in BOOLEAN, DiskTyped(d2), FilesTyped(f2), lk => lk2, Inos(d2) = Inos(d),
         \A i \in Inos(d) : i # k => d2.inodes[i] = d.inodes[i],
         \A i \in Nat \ {0} : i # k => LinksTo(d2.dirs, i) = LinksTo(d.dirs, i),
         \A i \in Nat \ {0} : i # k => OpensOf(f2, i) = OpensOf(f, i),
         \A b \in Blks : b # d.inodes[k].blk => d2.occupied[b] = d.occupied[b],
         OpensOf(f2, k) # {} => d2.inodes[k].type = "file",
         \A i \in Nat \ {0} : \A e \in LinksTo(d2.dirs, i) : \E j \in Inos(d) \ {k} : DirIn(d, j, e[1]),
         Alive(d2, f2, k) => /\ d2.inodes[k].blk = d.inodes[k].blk /\ d2.occupied[d.inodes[k].blk]
                             /\ CountsOf(d2, f2, lk2, k),
         ~lk2 /\ d2.occupied[d.inodes[k].blk] => Alive(d2, f2, k)
  PROVE  FsInv(d2, f2, lk2)
<1>1. PICK B : B = d.inodes[k].blk OBVIOUS
<1>2. OwnBlocks(d, f) /\ DiskTyped(d) BY DEF FsInv
<1>3. B \in Blks /\ \A i \in Inos(d) : i # k /\ Alive(d, f, i) => d.inodes[i].blk # B
  BY <1>1, <1>2 DEF OwnBlocks
<1>4. k \in Nat \ {0, Root} /\ Inos(d2) = Inos(d) \cup {k}
  <2>1. Inos(d) \subseteq Nat \ {0} BY <1>2, InodeFacts
  <2> QED BY <2>1
<1>5. \A b \in Blks : b # B => d2.occupied[b] = d.occupied[b] BY <1>1
<1>6. Alive(d2, f2, k) => d2.inodes[k].blk = B /\ d2.occupied[B] /\ CountsOf(d2, f2, lk2, k) BY <1>1
<1>7. ~lk2 /\ d2.occupied[B] => Alive(d2, f2, k) BY <1>1
<1>8. \A i \in Nat \ {0} : i # k => LinksTo(d2.dirs, i) = LinksTo(d.dirs, i) /\ OpensOf(f2, i) = OpensOf(f, i)
  OBVIOUS
<1>9. k \in Inos(d) /\ Alive(d, f, k) => d.inodes[k].blk = B BY <1>1
<1>10. Changes(d, f, lk, d2, f2, lk2, k, B)
  BY <1>3, <1>4, <1>5, <1>6, <1>7, <1>8, <1>9 DEF Changes
<1> QED BY <1>10, LocalChange

\* The tables of a disk are typed again when one inode is.
Reset(d, k, n, occ, dirs, buf) ==
  [inodes |-> [d.inodes EXCEPT ![k] = n], occupied |-> occ, dirs |-> dirs, newBuf |-> buf]

LEMMA InodeSet ==
  ASSUME NEW d, DiskTyped(d), NEW k \in Inos(d) \ {Root}, NEW n \in InodeRec,
         NEW occ \in [Blks -> BOOLEAN], NEW dirs \in [Blks -> Dirs], NEW buf \in Dirs,
         NEW d2, Is(d2, Reset(d, k, n, occ, dirs, buf))
  PROVE  /\ DiskTyped(d2) /\ Inos(d2) = Inos(d) /\ d2.inodes[k] = n
         /\ \A i \in Inos(d) : i # k => d2.inodes[i] = d.inodes[i]
         /\ d2.occupied = occ /\ d2.dirs = dirs
<1> DEFINE inodes == [d.inodes EXCEPT ![k] = n]
<1>1. /\ d.inodes \in Seq(InodeRec) /\ Inos(d) = DOMAIN d.inodes /\ Inos(d) = 1..Len(d.inodes) /\ Root \in Inos(d)
      /\ \A i \in Inos(d) : d.inodes[i] \in InodeRec
  BY InodeFacts DEF Inos
<1>2. inodes \in Seq(InodeRec) /\ Len(inodes) = Len(d.inodes)
  <2>1. k \in 1..Len(d.inodes) BY <1>1
  <2> QED BY <1>1, <2>1, ExceptSeq
<1>3. inodes[k] = n /\ \A i \in Inos(d) : i # k => inodes[i] = d.inodes[i] BY <1>1
<1>4. d2 = [inodes |-> inodes, occupied |-> occ, dirs |-> dirs, newBuf |-> buf] BY DEF Reset, Is
<1> HIDE DEF inodes
<1>5. d2.inodes = inodes /\ d2.newBuf = buf /\ d2.occupied = occ /\ d2.dirs = dirs BY <1>4
<1>6. d2 \in [inodes : Seq(InodeRec), occupied : [Blks -> BOOLEAN], dirs : [Blks -> Dirs], newBuf : Dirs]
  BY <1>2, <1>4
<1>7. inodes[Root] = d.inodes[Root] BY <1>1, <1>3
<1>8. DiskTyped(d2) BY <1>2, <1>5, <1>6, <1>7 DEF DiskTyped
<1> QED BY <1>2, <1>3, <1>5, <1>8 DEF Inos

\* No name lies in the block of a file, or in a free one.
LEMMA NoDirIsEmpty ==
  ASSUME NEW d, NEW f, NEW lk, FsInv(d, f, lk), NEW b \in Blks, ~IsDirBlk(d, b)
  PROVE  SaysTheSame(d.dirs[b], <<>>)
<1>1. DiskTyped(d) /\ Homes(d, f) BY DEF FsInv
<1>2. d.dirs \in [Blks -> Dirs] /\ d.dirs[b] \in Dirs BY <1>1, InodeFacts
<1>3. ASSUME NEW s \in DOMAIN d.dirs[b], d.dirs[b][s].ino > 0 PROVE FALSE
  <2>1. PICK i \in Nat \ {0} : i = d.dirs[b][s].ino BY <1>2, <1>3, DirFacts
  <2>2. <<b, s, i>> \in LinksTo(d.dirs, i) BY <1>2, <2>1, LinkIs
  <2>3. IsDirBlk(d, <<b, s, i>>[1]) BY <1>1, <2>2 DEF Homes
  <2> QED BY <2>3
<1>4. DOMAIN <<>> = {} OBVIOUS
<1> QED BY <1>3, <1>4 DEF SaysTheSame

LEMMA FileBlk ==
  ASSUME NEW d, NEW f, NEW lk, FsInv(d, f, lk), NEW k \in Inos(d), Alive(d, f, k), d.inodes[k].type = "file"
  PROVE  d.inodes[k].blk \in Blks /\ ~IsDirBlk(d, d.inodes[k].blk)
<1>1. OwnBlocks(d, f) BY DEF FsInv
<1>2. ASSUME NEW j \in Inos(d), DirIn(d, j, d.inodes[k].blk) PROVE FALSE
  <2>1. Alive(d, f, j) /\ d.inodes[j].blk = d.inodes[k].blk /\ d.inodes[j].type = "dir" BY <1>2 DEF DirIn, Alive
  <2>2. j = k BY <1>1, <2>1 DEF OwnBlocks
  <2> QED BY <2>1, <2>2
<1> QED BY <1>1, <1>2 DEF OwnBlocks, IsDirBlk

\* A file is no directory that names lie in.
LEMMA NamesElsewhere ==
  ASSUME NEW d, NEW f, NEW lk, FsInv(d, f, lk), NEW k \in Inos(d), d.inodes[k].type = "file"
  PROVE  /\ \A b : IsDirBlk(d, b) => \E j \in Inos(d) \ {k} : DirIn(d, j, b)
         /\ \A i \in Nat \ {0} : \A e \in LinksTo(d.dirs, i) : \E j \in Inos(d) \ {k} : DirIn(d, j, e[1])
<1>1. Homes(d, f) BY DEF FsInv
<1>2. ASSUME NEW b, IsDirBlk(d, b) PROVE \E j \in Inos(d) \ {k} : DirIn(d, j, b)
  <2>1. PICK j \in Inos(d) : DirIn(d, j, b) BY <1>2 DEF IsDirBlk
  <2>2. j # k BY <2>1 DEF DirIn
  <2> QED BY <2>1, <2>2
<1>3. ASSUME NEW i \in Nat \ {0}, NEW e \in LinksTo(d.dirs, i)
      PROVE  \E j \in Inos(d) \ {k} : DirIn(d, j, e[1])
  <2>1. IsDirBlk(d, e[1]) BY <1>1 DEF Homes
  <2> QED BY <1>2, <2>1
<1> QED BY <1>2, <1>3

\* A path of which the last name, in block up, is that of an inode k of this type.
Named(d, f, lk, path, type, k, up) ==
  FsInv(d, f, lk) /\ path \in PathsOf /\ k = Lookup(d, path, type) /\ k # 0 /\ up = ParentBlk(d, path)

\* The entry that is found.
IsHit(d, path, k, up, h) ==
  /\ h \in DOMAIN d.dirs[up] /\ h = Min(Hits(d.dirs[up], NameOf(path))) /\ Hits(d.dirs[up], NameOf(path)) # {}
  /\ d.dirs[up][h].ino = k /\ <<up, h, k>> \in LinksTo(d.dirs, k) /\ d.dirs[up][h].name = NameOf(path)
  /\ \A s \in DOMAIN d.dirs[up] : d.dirs[up][s].ino > 0 /\ d.dirs[up][s].name = NameOf(path) => h <= s

LEMMA LookupIs ==
  ASSUME NEW d, NEW f, NEW lk, NEW path, NEW type, NEW k, NEW up, Named(d, f, lk, path, type, k, up)
  PROVE  /\ up \in Blks /\ IsDirBlk(d, up)
         /\ k \in Inos(d) \ {Root} /\ k \in Nat \ {0} /\ d.inodes[k].type = type /\ LinksTo(d.dirs, k) # {}
         /\ \E h : IsHit(d, path, k, up, h)
<1>0. FsInv(d, f, lk) /\ path \in PathsOf BY DEF Named
<1>1. k = Find(d, path) /\ k # 0 /\ d.inodes[k].type = type BY DEF Lookup, Named
<1>2. up \in Blks /\ up = ParentBlk(d, path) /\ IsDirBlk(d, up)
  <2>1. up = ParentBlk(d, path) BY DEF Named
  <2> QED BY <1>0, <1>1, <2>1, FindIs
<1>3. PICK n : n = NameOf(path) OBVIOUS
<1>4. k = Hit(d.dirs[up], n) BY <1>0, <1>1, <1>2, <1>3, FindIs
<1>5. /\ k \in Inos(d) \ {Root} /\ k \in Nat \ {0}
      /\ \E h \in DOMAIN d.dirs[up] :
           /\ h = Min(Hits(d.dirs[up], n)) /\ Hits(d.dirs[up], n) # {}
           /\ d.dirs[up][h].ino = k /\ <<up, h, k>> \in LinksTo(d.dirs, k) /\ d.dirs[up][h].name = n
           /\ \A s \in DOMAIN d.dirs[up] : d.dirs[up][s].ino > 0 /\ d.dirs[up][s].name = n => h <= s
  <2>1. Hit(d.dirs[up], n) # 0 BY <1>1, <1>4
  <2> QED BY <1>0, <1>2, <1>4, <2>1, HitAlive
<1>6. \E h : IsHit(d, path, k, up, h) BY <1>3, <1>5 DEF IsHit
<1> QED BY <1>1, <1>2, <1>5, <1>6

-----------------------------------------------------------------------------
(* The descriptors.                                                         *)

FileRec == [fs : {"none", "blkfs", "devfs"}, ino : Nat, offset : Nat]

LEMMA FilesAre ==
  ASSUME NEW f, FilesTyped(f), NEW t \in Tasks, NEW fd \in Fds
  PROVE  /\ f[t][fd] \in FileRec /\ f[t][fd].ino \in Nat /\ f[t][fd].offset \in Nat
         /\ f[t][fd].fs = "blkfs" <=> f[t][fd].ino # 0
<1>1. f[t][fd] \in FileRec BY DEF FilesTyped, FileRec
<1>2. \A x \in FileRec : x.ino \in Nat /\ x.offset \in Nat BY DEF FileRec
<1>3. f[t][fd].fs = "blkfs" <=> f[t][fd].ino # 0 BY DEF FilesTyped
<1> QED BY <1>1, <1>2, <1>3

\* One descriptor becomes x.
Put(f, t, fd, x) == [f EXCEPT ![t][fd] = x]

LEMMA FileSet ==
  ASSUME NEW f, FilesTyped(f), NEW t \in Tasks, NEW fd \in Fds, NEW x \in FileRec,
         x.fs = "blkfs" <=> x.ino # 0, NEW f2, Is(f2, Put(f, t, fd, x))
  PROVE  /\ FilesTyped(f2) /\ f2[t][fd] = x
         /\ \A u \in Tasks, v \in Fds : <<u, v>> # <<t, fd>> => f2[u][v] = f[u][v]
<1>1. f \in [Tasks -> [Fds -> FileRec]] BY DEF FilesTyped, FileRec
<1>2. f2[t][fd] = x /\ \A u \in Tasks, v \in Fds : <<u, v>> # <<t, fd>> => f2[u][v] = f[u][v]
  BY <1>1 DEF Put, Is
<1>3. f2 \in [Tasks -> [Fds -> FileRec]] BY <1>1 DEF Put, Is
<1>4. ASSUME NEW u \in Tasks, NEW v \in Fds PROVE f2[u][v].fs = "blkfs" <=> f2[u][v].ino # 0
  <2>1. CASE <<u, v>> = <<t, fd>>
    <3>1. f2[u][v] = x BY <1>2, <2>1
    <3> QED BY <3>1
  <2>2. CASE <<u, v>> # <<t, fd>>
    <3>1. f2[u][v] = f[u][v] BY <1>2, <2>2
    <3> QED BY <3>1, FilesAre
  <2> QED BY <2>1, <2>2
<1>5. FilesTyped(f2)
  <2>1. f2 \in [Tasks -> [Fds -> [fs : {"none", "blkfs", "devfs"}, ino : Nat, offset : Nat]]] BY <1>3 DEF FileRec
  <2> QED BY <1>4, <2>1 DEF FilesTyped
<1> QED BY <1>2, <1>5

LEMMA OpensSame ==
  ASSUME NEW f, NEW f2, \A u \in Tasks, v \in Fds : f2[u][v].ino = f[u][v].ino
  PROVE  \A i : OpensOf(f2, i) = OpensOf(f, i)
BY OpenIs DEF OpensOf

LEMMA OpensAdded ==
  ASSUME NEW f, NEW f2, NEW t \in Tasks, NEW fd \in Fds, NEW k \in Nat \ {0},
         f[t][fd].ino = 0, f2[t][fd].ino = k,
         \A u \in Tasks, v \in Fds : <<u, v>> # <<t, fd>> => f2[u][v].ino = f[u][v].ino
  PROVE  /\ \A i \in Nat \ {0} : i # k => OpensOf(f2, i) = OpensOf(f, i)
         /\ \E e : e \notin OpensOf(f, k) /\ OpensOf(f2, k) = OpensOf(f, k) \cup {e}
<1> DEFINE e == <<t, fd, k>>
<1>1. e \notin OpensOf(f, k) /\ e \in OpensOf(f2, k) BY OpenIs
<1>2. ASSUME NEW i \in Nat \ {0}, NEW x \in OpensOf(f, i) PROVE x \in OpensOf(f2, i)
  <2>1. PICK u \in Tasks, v \in Fds : x = <<u, v, i>> /\ f[u][v].ino = i BY OpenIs
  <2>2. <<u, v>> # <<t, fd>> BY <2>1
  <2>3. f2[u][v].ino = i BY <2>1, <2>2
  <2> QED BY <2>1, <2>3, OpenIs
<1>3. ASSUME NEW i \in Nat \ {0}, NEW x \in OpensOf(f2, i) PROVE x \in OpensOf(f, i) \/ (x = e /\ i = k)
  <2>1. PICK u \in Tasks, v \in Fds : x = <<u, v, i>> /\ f2[u][v].ino = i BY OpenIs
  <2>2. CASE <<u, v>> = <<t, fd>> BY <2>1, <2>2
  <2>3. CASE <<u, v>> # <<t, fd>>
    <3>1. f[u][v].ino = i BY <2>1, <2>3
    <3> QED BY <2>1, <3>1, OpenIs
  <2> QED BY <2>2, <2>3
<1> HIDE DEF e
<1>4. OpensOf(f2, k) = OpensOf(f, k) \cup {e} BY <1>1, <1>2, <1>3
<1>5. \A i \in Nat \ {0} : i # k => OpensOf(f2, i) = OpensOf(f, i) BY <1>2, <1>3
<1> QED BY <1>1, <1>4, <1>5

LEMMA OpensRemoved ==
  ASSUME NEW f, NEW f2, NEW t \in Tasks, NEW fd \in Fds, NEW k \in Nat \ {0},
         f[t][fd].ino = k, f2[t][fd].ino = 0,
         \A u \in Tasks, v \in Fds : <<u, v>> # <<t, fd>> => f2[u][v].ino = f[u][v].ino
  PROVE  /\ \A i \in Nat \ {0} : i # k => OpensOf(f2, i) = OpensOf(f, i)
         /\ \E e : e \in OpensOf(f, k) /\ OpensOf(f2, k) = OpensOf(f, k) \ {e}
<1> DEFINE e == <<t, fd, k>>
<1>1. e \notin OpensOf(f2, k) /\ e \in OpensOf(f, k) BY OpenIs
<1>2. ASSUME NEW i \in Nat \ {0}, NEW x \in OpensOf(f2, i) PROVE x \in OpensOf(f, i)
  <2>1. PICK u \in Tasks, v \in Fds : x = <<u, v, i>> /\ f2[u][v].ino = i BY OpenIs
  <2>2. <<u, v>> # <<t, fd>> BY <2>1
  <2>3. f[u][v].ino = i BY <2>1, <2>2
  <2> QED BY <2>1, <2>3, OpenIs
<1>3. ASSUME NEW i \in Nat \ {0}, NEW x \in OpensOf(f, i) PROVE x \in OpensOf(f2, i) \/ (x = e /\ i = k)
  <2>1. PICK u \in Tasks, v \in Fds : x = <<u, v, i>> /\ f[u][v].ino = i BY OpenIs
  <2>2. CASE <<u, v>> = <<t, fd>> BY <2>1, <2>2
  <2>3. CASE <<u, v>> # <<t, fd>>
    <3>1. f2[u][v].ino = i BY <2>1, <2>3
    <3> QED BY <2>1, <3>1, OpenIs
  <2> QED BY <2>2, <2>3
<1> HIDE DEF e
<1>4. OpensOf(f2, k) = OpensOf(f, k) \ {e} BY <1>1, <1>2, <1>3
<1>5. \A i \in Nat \ {0} : i # k => OpensOf(f2, i) = OpensOf(f, i) BY <1>2, <1>3
<1> QED BY <1>1, <1>4, <1>5

\* One more, and one less, of a finite set.
LEMMA OneMore ==
  ASSUME NEW S, IsFiniteSet(S), NEW e, e \notin S
  PROVE  Cardinality(S) \in Nat /\ Cardinality(S \cup {e}) = Cardinality(S) + 1
BY FS_CardinalityType, FS_AddElement

LEMMA OneLess ==
  ASSUME NEW S, IsFiniteSet(S), NEW e, e \in S
  PROVE  /\ Cardinality(S) \in Nat \ {0} /\ Cardinality(S \ {e}) = Cardinality(S) - 1
         /\ S \ {e} = {} <=> Cardinality(S) = 1
<1>1. Cardinality(S) \in Nat /\ IsFiniteSet(S \ {e}) BY FS_CardinalityType, FS_RemoveElement
<1>2. Cardinality(S \ {e}) = Cardinality(S) - 1 BY FS_RemoveElement
<1>3. Cardinality(S \ {e}) \in Nat BY <1>1, FS_CardinalityType
<1>4. S \ {e} = {} <=> Cardinality(S \ {e}) = 0 BY <1>1, FS_EmptySet
<1> QED BY <1>1, <1>2, <1>3, <1>4

-----------------------------------------------------------------------------
(* The calls on files.                                                      *)

LEMMA DiskIs ==
  ASSUME NEW d, DiskTyped(d)
  PROVE  /\ d = [inodes |-> d.inodes, occupied |-> d.occupied, dirs |-> d.dirs, newBuf |-> d.newBuf]
         /\ d.dirs \in [Blks -> Dirs] /\ d.occupied \in [Blks -> BOOLEAN]
         /\ d.newBuf \in Dirs
<1>1. d \in [inodes : Seq(InodeRec), occupied : [Blks -> BOOLEAN], dirs : [Blks -> Dirs], newBuf : Dirs]
  BY DEF DiskTyped
<1> QED BY <1>1

\* vfs_open: another reference.  If there is no descriptor for it, it is too many.
OpenedDisk(d, k) == [d EXCEPT !.inodes[k].refcnt = @ + 1]

LEMMA OpenInv ==
  ASSUME NEW d, NEW f, NEW lk, FsInv(d, f, lk), NEW k \in Inos(d) \ {Root}, d.inodes[k].type = "file",
         LinksTo(d.dirs, k) # {}, NEW d2, Is(d2, OpenedDisk(d, k)),
         NEW f2, FilesTyped(f2), NEW lk2 \in BOOLEAN, lk => lk2,
         \A i \in Nat \ {0} : i # k => OpensOf(f2, i) = OpensOf(f, i),
         \/ \E e : e \notin OpensOf(f, k) /\ OpensOf(f2, k) = OpensOf(f, k) \cup {e}
         \/ OpensOf(f2, k) = OpensOf(f, k) /\ lk2
  PROVE  /\ FsInv(d2, f2, lk2) /\ Inos(d2) = Inos(d) /\ d2.dirs = d.dirs
         /\ \A i \in Inos(d) : d2.inodes[i].type = d.inodes[i].type /\ d2.inodes[i].size = d.inodes[i].size
<1>1. DiskTyped(d) /\ Counted(d, f, lk) BY DEF FsInv
<1>2. PICK x \in InodeRec : x = d.inodes[k] /\ x.refcnt \in Int BY <1>1, InodeFacts
<1> DEFINE n == [x EXCEPT !.refcnt = x.refcnt + 1]
<1>3. n \in InodeRec BY <1>2 DEF InodeRec
<1>4. /\ n.refcnt = x.refcnt + 1 /\ n.type = x.type /\ n.linkcnt = x.linkcnt
      /\ n.unlink = x.unlink /\ n.blk = x.blk /\ n.size = x.size
  BY <1>2 DEF InodeRec
<1>5. Is(d2, Reset(d, k, n, d.occupied, d.dirs, d.newBuf))
  <2>1. d = [inodes |-> d.inodes, occupied |-> d.occupied, dirs |-> d.dirs, newBuf |-> d.newBuf] BY <1>1, DiskIs
  <2> QED BY <1>2, <2>1 DEF Is, Reset, OpenedDisk
<1> HIDE DEF n
<1>6. /\ DiskTyped(d2) /\ Inos(d2) = Inos(d) /\ d2.inodes[k] = n
      /\ \A i \in Inos(d) : i # k => d2.inodes[i] = d.inodes[i]
      /\ d2.dirs = d.dirs /\ d2.occupied = d.occupied
  BY <1>1, <1>3, <1>5, DiskIs, InodeSet
<1>7. Alive(d, f, k) /\ Alive(d2, f2, k) BY <1>6 DEF Alive
<1>8. CountsOf(d, f, lk, k) BY <1>1, <1>7 DEF Counted
<1>9. CountsOf(d2, f2, lk2, k)
  <2>1. x.linkcnt >= Cardinality(LinksTo(d.dirs, k)) /\ x.refcnt >= Cardinality(OpensOf(f, k))
        /\ (~lk => x.linkcnt = Cardinality(LinksTo(d.dirs, k)) /\ x.refcnt = Cardinality(OpensOf(f, k)))
        /\ (x.unlink = 1 <=> x.linkcnt = 0) /\ x.type = "file"
    BY <1>2, <1>8 DEF CountsOf
  <2>2. Cardinality(OpensOf(f, k)) \in Nat
        /\ \/ Cardinality(OpensOf(f2, k)) = Cardinality(OpensOf(f, k)) + 1
           \/ Cardinality(OpensOf(f2, k)) = Cardinality(OpensOf(f, k)) /\ lk2
    BY OpensFinite, OneMore, FS_CardinalityType
  <2>3. n.refcnt >= Cardinality(OpensOf(f2, k)) BY <1>2, <1>4, <2>1, <2>2
  <2>4. ~lk2 => n.refcnt = Cardinality(OpensOf(f2, k)) BY <1>2, <1>4, <2>1, <2>2
  <2>5. n.type = "file" /\ n.linkcnt >= Cardinality(LinksTo(d.dirs, k))
        /\ (~lk2 => n.linkcnt = Cardinality(LinksTo(d.dirs, k))) /\ (n.unlink = 1 <=> n.linkcnt = 0)
    BY <1>4, <2>1
  <2> QED BY <1>6, <2>3, <2>4, <2>5 DEF CountsOf
<1>10. \A i \in Nat \ {0} : \A e \in LinksTo(d2.dirs, i) : \E j \in Inos(d) \ {k} : DirIn(d, j, e[1])
  BY <1>6, NamesElsewhere
<1>11. d2.inodes[k].type = "file" /\ d2.inodes[k].blk = d.inodes[k].blk BY <1>2, <1>4, <1>6
<1>12. d2.occupied[d.inodes[k].blk]
  <2>1. OwnBlocks(d, f) BY DEF FsInv
  <2> QED BY <1>6, <1>7, <2>1 DEF OwnBlocks
<1>13. \A i \in Nat \ {0} : i # k => LinksTo(d2.dirs, i) = LinksTo(d.dirs, i) BY <1>6
<1>14. \A b \in Blks : b # d.inodes[k].blk => d2.occupied[b] = d.occupied[b] BY <1>6
<1>15. FsInv(d2, f2, lk2) BY <1>6, <1>7, <1>9, <1>10, <1>11, <1>12, <1>13, <1>14, InodeChange
<1>16. \A i \in Inos(d) : d2.inodes[i].type = d.inodes[i].type /\ d2.inodes[i].size = d.inodes[i].size
  BY <1>2, <1>4, <1>6
<1> QED BY <1>6, <1>15, <1>16

\* vfs_read, vfs_lseek, and what opens or closes a device: no count changes.
LEMMA FilesInv ==
  ASSUME NEW d, NEW f, NEW lk, FsInv(d, f, lk), NEW f2, FilesTyped(f2),
         \A i \in Nat \ {0} : OpensOf(f2, i) = OpensOf(f, i)
  PROVE  FsInv(d, f2, lk)
<1>1. Inos(d) \subseteq Nat \ {0} BY InodeFacts DEF FsInv
<1>2. \A i \in Inos(d) : OpensOf(f2, i) = OpensOf(f, i) /\ (Alive(d, f2, i) <=> Alive(d, f, i))
  BY <1>1 DEF Alive
<1>3. Homes(d, f2) BY DEF FsInv, Homes
<1>4. OwnBlocks(d, f2) BY <1>2 DEF FsInv, OwnBlocks
<1>5. Counted(d, f2, lk) BY <1>2 DEF FsInv, Counted, CountsOf
<1>6. GivenBack(d, f2, lk) BY <1>2 DEF FsInv, GivenBack
<1> QED BY <1>3, <1>4, <1>5, <1>6 DEF FsInv

\* vfs_write: only the size.
WrittenDisk(d, k, size) == [d EXCEPT !.inodes[k].size = size]

LEMMA WriteInv ==
  ASSUME NEW d, NEW f, NEW lk, FsInv(d, f, lk), NEW k \in Inos(d) \ {Root}, d.inodes[k].type = "file",
         OpensOf(f, k) # {}, NEW size \in Nat, NEW d2, Is(d2, WrittenDisk(d, k, size))
  PROVE  /\ FsInv(d2, f, lk) /\ Inos(d2) = Inos(d) /\ d2.inodes[k].size = size
         /\ \A i \in Inos(d) : d2.inodes[i].type = d.inodes[i].type /\ (i # k => d2.inodes[i] = d.inodes[i])
         /\ d2.dirs = d.dirs
<1>1. DiskTyped(d) /\ Counted(d, f, lk) /\ FilesTyped(f) /\ lk \in BOOLEAN BY DEF FsInv
<1>2. PICK x \in InodeRec : x = d.inodes[k] /\ x.blk \in Blks \cup {-1} BY <1>1, InodeFacts
<1> DEFINE n == [x EXCEPT !.size = size]
<1>3. n \in InodeRec BY <1>2 DEF InodeRec
<1>4. /\ n.refcnt = x.refcnt /\ n.type = x.type /\ n.linkcnt = x.linkcnt
      /\ n.unlink = x.unlink /\ n.blk = x.blk /\ n.size = size
  BY <1>2 DEF InodeRec
<1>5. Is(d2, Reset(d, k, n, d.occupied, d.dirs, d.newBuf))
  <2>1. d = [inodes |-> d.inodes, occupied |-> d.occupied, dirs |-> d.dirs, newBuf |-> d.newBuf] BY <1>1, DiskIs
  <2> QED BY <1>2, <2>1 DEF Is, Reset, WrittenDisk
<1> HIDE DEF n
<1>6. /\ DiskTyped(d2) /\ Inos(d2) = Inos(d) /\ d2.inodes[k] = n
      /\ \A i \in Inos(d) : i # k => d2.inodes[i] = d.inodes[i]
      /\ d2.dirs = d.dirs /\ d2.occupied = d.occupied
  BY <1>1, <1>3, <1>5, DiskIs, InodeSet
<1>7. Alive(d, f, k) /\ Alive(d2, f, k) BY <1>6 DEF Alive
<1>8. CountsOf(d2, f, lk, k)
  <2>1. CountsOf(d, f, lk, k) BY <1>1, <1>7 DEF Counted
  <2> QED BY <1>2, <1>4, <1>6, <2>1 DEF CountsOf
<1>9. \A i \in Nat \ {0} : \A e \in LinksTo(d2.dirs, i) : \E j \in Inos(d) \ {k} : DirIn(d, j, e[1])
  BY <1>6, NamesElsewhere
<1>10. d2.inodes[k].type = "file" /\ d2.inodes[k].blk = d.inodes[k].blk BY <1>2, <1>4, <1>6
<1>11. d2.occupied[d.inodes[k].blk]
  <2>1. OwnBlocks(d, f) BY DEF FsInv
  <2> QED BY <1>6, <1>7, <2>1 DEF OwnBlocks
<1>12. \A i \in Nat \ {0} : i # k => LinksTo(d2.dirs, i) = LinksTo(d.dirs, i) BY <1>6
<1>13. \A b \in Blks : b # d.inodes[k].blk => d2.occupied[b] = d.occupied[b] BY <1>6
<1>14. FsInv(d2, f, lk)
  BY <1>1, <1>6, <1>7, <1>8, <1>9, <1>10, <1>11, <1>12, <1>13, InodeChange
<1> QED BY <1>2, <1>4, <1>6, <1>14

\* A block is wiped in which no names are.
LEMMA WipedIs ==
  ASSUME NEW D \in [Blks -> Dirs], NEW E \in [Blks -> Dirs], NEW B \in Blks, SaysTheSame(D[B], <<>>),
         E[B] = <<>>, \A b \in Blks : b # B => E[b] = D[b]
  PROVE  \A i \in Nat \ {0} : LinksTo(E, i) = LinksTo(D, i)
<1>1. \A b \in Blks : SaysTheSame(D[b], E[b])
  <2> TAKE b \in Blks
  <2>1. CASE b = B BY <2>1
  <2>2. CASE b # B BY <2>2 DEF SaysTheSame
  <2> QED BY <2>1, <2>2
<1> QED BY <1>1, LinksSame

LEMMA EmptyDir == <<>> \in Dirs
<1>1. <<>> \in Seq(Entry) /\ Len(<<>>) = 0 /\ DOMAIN <<>> = {} OBVIOUS
<1>2. DirSlots \in Nat BY SizesAssumption
<1> QED BY <1>1, <1>2 DEF Dirs, Tidy

\* vfs_close: one reference less; without a name or a reference the block is free.
LEMMA WipedHits ==
  ASSUME NEW D \in [Blks -> Dirs], NEW E \in [Blks -> Dirs], NEW B \in Blks, SaysTheSame(D[B], <<>>),
         E[B] = <<>>, \A b \in Blks : b # B => E[b] = D[b]
  PROVE  \A b \in Blks, m \in Names : Hit(E[b], m) = Hit(D[b], m)
<1> TAKE b \in Blks, m \in Names
<1>1. CASE b # B BY <1>1
<1>2. CASE b = B
  <2>1. PICK X \in Dirs, Y \in Dirs : X = D[B] /\ Y = E[B] OBVIOUS
  <2>2. Hit(Y, m) = Hit(X, m) BY <2>1, HitSame
  <2> QED BY <1>2, <2>1, <2>2
<1> QED BY <1>1, <1>2

LEMMA WipedReset ==
  ASSUME NEW d, NEW k, NEW n, NEW occ, NEW dirs, NEW buf, NEW b
  PROVE  Wiped(Reset(d, k, n, occ, dirs, buf), b)
           = Reset(d, k, n, [occ EXCEPT ![b] = FALSE], [dirs EXCEPT ![b] = <<>>], buf)
<1>1. PICK inodes : inodes = [d.inodes EXCEPT ![k] = n] OBVIOUS
<1>2. \A o, D : Reset(d, k, n, o, D, buf) = [inodes |-> inodes, occupied |-> o, dirs |-> D, newBuf |-> buf]
  BY <1>1 DEF Reset
<1>3. PICK r : r = [inodes |-> inodes, occupied |-> occ, dirs |-> dirs, newBuf |-> buf] OBVIOUS
<1>4. PICK o, D : o = [occ EXCEPT ![b] = FALSE] /\ D = [dirs EXCEPT ![b] = <<>>] OBVIOUS
<1>5. Wiped(r, b) = [[r EXCEPT !.occupied = o] EXCEPT !.dirs = D]
  <2>1. r.occupied = occ /\ r.dirs = dirs BY <1>3
  <2> QED BY <1>4, <2>1 DEF Wiped
<1>6. [[r EXCEPT !.occupied = o] EXCEPT !.dirs = D] = [inodes |-> inodes, occupied |-> o, dirs |-> D, newBuf |-> buf]
  <2>1. [r EXCEPT !.occupied = o] = [inodes |-> inodes, occupied |-> o, dirs |-> dirs, newBuf |-> buf] BY <1>3
  <2>2. PICK q : q = [r EXCEPT !.occupied = o] OBVIOUS
  <2>3. q = [inodes |-> inodes, occupied |-> o, dirs |-> dirs, newBuf |-> buf] BY <2>1, <2>2
  <2>4. [q EXCEPT !.dirs = D] = [inodes |-> inodes, occupied |-> o, dirs |-> D, newBuf |-> buf] BY <2>3
  <2> QED BY <2>2, <2>4
<1>7. Reset(d, k, n, occ, dirs, buf) = r BY <1>2, <1>3
<1> QED BY <1>2, <1>4, <1>5, <1>6, <1>7

ClosedDisk(d, k) ==
  LET x == d.inodes[k]
      less == [d EXCEPT !.inodes[k].refcnt = @ - 1] IN
  IF x.unlink = 1 /\ x.linkcnt = 0 /\ x.refcnt = 1
  THEN [Wiped(less, x.blk) EXCEPT !.inodes[k].blk = -1] ELSE less

LEMMA CloseInv ==
  ASSUME NEW d, NEW f, NEW lk, FsInv(d, f, lk), NEW k \in Inos(d) \ {Root}, d.inodes[k].type = "file",
         NEW f2, FilesTyped(f2), \A i \in Nat \ {0} : i # k => OpensOf(f2, i) = OpensOf(f, i),
         NEW e, e \in OpensOf(f, k), OpensOf(f2, k) = OpensOf(f, k) \ {e},
         NEW d2, Is(d2, ClosedDisk(d, k))
  PROVE  /\ FsInv(d2, f2, lk) /\ Inos(d2) = Inos(d)
         /\ \A i \in Inos(d) : d2.inodes[i].type = d.inodes[i].type /\ d2.inodes[i].size = d.inodes[i].size
         /\ \A b \in Blks : \A s \in DOMAIN d2.dirs[b] :
              d2.dirs[b][s].ino > 0 => s \in DOMAIN d.dirs[b] /\ d2.dirs[b][s] = d.dirs[b][s]
         /\ \A b \in Blks, m \in Names : Hit(d2.dirs[b], m) = Hit(d.dirs[b], m)
         /\ \A i \in Inos(d) : i # k => d2.inodes[i] = d.inodes[i]
<1>a. PICK x : x = d.inodes[k] OBVIOUS
<1>1. /\ DiskTyped(d) /\ Counted(d, f, lk) /\ OwnBlocks(d, f) /\ lk \in BOOLEAN
      /\ d = [inodes |-> d.inodes, occupied |-> d.occupied, dirs |-> d.dirs, newBuf |-> d.newBuf]
      /\ d.dirs \in [Blks -> Dirs] /\ d.occupied \in [Blks -> BOOLEAN]
      /\ d.newBuf \in Dirs
  BY DiskIs DEF FsInv
<1>2. x \in InodeRec /\ x.refcnt \in Int /\ x.linkcnt \in Int /\ x.unlink \in {0, 1} /\ x.type = "file"
  BY <1>a, <1>1, InodeFacts
<1>3. Alive(d, f, k) BY DEF Alive
<1>4. x.blk \in Blks /\ ~IsDirBlk(d, x.blk) /\ d.occupied[x.blk] BY <1>a, <1>1, <1>3, FileBlk DEF OwnBlocks
<1>5. SaysTheSame(d.dirs[x.blk], <<>>) BY <1>4, NoDirIsEmpty
<1>6. /\ x.linkcnt >= Cardinality(LinksTo(d.dirs, k)) /\ x.refcnt >= Cardinality(OpensOf(f, k))
      /\ ~lk => x.linkcnt = Cardinality(LinksTo(d.dirs, k)) /\ x.refcnt = Cardinality(OpensOf(f, k))
      /\ x.unlink = 1 <=> x.linkcnt = 0
  <2>1. CountsOf(d, f, lk, k) BY <1>1, <1>3 DEF Counted
  <2> QED BY <1>a, <1>2, <2>1 DEF CountsOf
<1>7. /\ Cardinality(OpensOf(f, k)) \in Nat \ {0} /\ Cardinality(OpensOf(f2, k)) = Cardinality(OpensOf(f, k)) - 1
      /\ OpensOf(f2, k) = {} <=> Cardinality(OpensOf(f, k)) = 1
  BY OpensFinite, OneLess
<1>8. Cardinality(LinksTo(d.dirs, k)) \in Nat /\ (Cardinality(LinksTo(d.dirs, k)) = 0 => LinksTo(d.dirs, k) = {})
  BY LinksFinite, FS_CardinalityType, FS_EmptySet
<1>9. \A i \in Nat \ {0} : \A y \in LinksTo(d.dirs, i) : \E j \in Inos(d) \ {k} : DirIn(d, j, y[1])
  BY NamesElsewhere
<1>10. CASE x.unlink = 1 /\ x.linkcnt = 0 /\ x.refcnt = 1
  <2> DEFINE n == [x EXCEPT !.refcnt = x.refcnt - 1, !.blk = -1]
             dirs == [d.dirs EXCEPT ![x.blk] = <<>>]
             occ == [d.occupied EXCEPT ![x.blk] = FALSE]
  <2>1. n \in InodeRec /\ n.type = x.type /\ n.size = x.size
    <3> DEFINE m == [x EXCEPT !.refcnt = x.refcnt - 1]
    <3>1. m \in InodeRec /\ m.type = x.type /\ m.size = x.size BY <1>2 DEF InodeRec
    <3>2. n = [m EXCEPT !.blk = -1] OBVIOUS
    <3> HIDE DEF m, n
    <3>3. -1 \in Blks \cup {-1} OBVIOUS
    <3>4. m.type = "file" /\ m.type # "dir" BY <1>2, <3>1
    <3>5. n.type = m.type /\ n.size = m.size BY <3>1, <3>2 DEF InodeRec
    <3>6. n \in [type : Types, refcnt : Int, linkcnt : Int, unlink : {0, 1}, size : Nat, blk : Blks \cup {-1}]
      BY <3>1, <3>2, <3>3 DEF InodeRec
    <3>7. n \in InodeRec BY <3>4, <3>5, <3>6 DEF InodeRec
    <3> QED BY <3>1, <3>5, <3>7
  <2>2. Is(d2, Reset(d, k, n, occ, dirs, d.newBuf))
    <3>1. PICK d1 : d1 = [d EXCEPT !.inodes[k].refcnt = @ - 1] OBVIOUS
    <3>2. d1 = Reset(d, k, [x EXCEPT !.refcnt = x.refcnt - 1], d.occupied, d.dirs, d.newBuf) BY <1>a, <1>1, <3>1 DEF Reset
    <3>3. d2 = [Wiped(d1, x.blk) EXCEPT !.inodes[k].blk = -1] BY <1>a, <1>10, <3>1 DEF ClosedDisk, Is
    <3>4. k \in DOMAIN d.inodes BY <1>1, InodeFacts
    <3>5. Wiped(d1, x.blk) = Reset(d, k, [x EXCEPT !.refcnt = x.refcnt - 1], occ, dirs, d.newBuf)
      BY <3>2, WipedReset
    <3> HIDE DEF occ, dirs
    <3>6. d2 = [Reset(d, k, [x EXCEPT !.refcnt = x.refcnt - 1], occ, dirs, d.newBuf) EXCEPT !.inodes[k].blk = -1]
      BY <3>3, <3>5
    <3>7. [[d.inodes EXCEPT ![k] = [x EXCEPT !.refcnt = x.refcnt - 1]] EXCEPT ![k].blk = -1] = [d.inodes EXCEPT ![k] = n]
      BY <3>4
    <3> HIDE DEF n
    <3> QED BY <3>6, <3>7 DEF Reset, Is
  <2>3. dirs \in [Blks -> Dirs] /\ occ \in [Blks -> BOOLEAN] /\ ~occ[x.blk]
        /\ \A b \in Blks : b # x.blk => occ[b] = d.occupied[b] /\ dirs[b] = d.dirs[b]
    BY <1>1, <1>4, EmptyDir
  <2>4. \A i \in Nat \ {0} : LinksTo(dirs, i) = LinksTo(d.dirs, i) BY <1>1, <1>4, <1>5, <2>3, WipedIs
  <2>5. dirs[x.blk] = <<>> /\ \A b \in Blks, m \in Names : Hit(dirs[b], m) = Hit(d.dirs[b], m)
    <3>1. dirs[x.blk] = <<>> BY <1>1, <1>4
    <3>2. PICK D : D = d.dirs OBVIOUS
    <3> HIDE DEF dirs
    <3>3. \A b \in Blks, m \in Names : Hit(dirs[b], m) = Hit(D[b], m) BY <1>1, <1>4, <1>5, <2>3, <3>1, <3>2, WipedHits
    <3> QED BY <3>1, <3>2, <3>3
  <2> HIDE DEF n, dirs, occ
  <2>6. /\ DiskTyped(d2) /\ Inos(d2) = Inos(d) /\ d2.inodes[k] = n
        /\ \A i \in Inos(d) : i # k => d2.inodes[i] = d.inodes[i]
        /\ d2.occupied = occ /\ d2.dirs = dirs
    BY <1>1, <2>1, <2>2, <2>3, InodeSet
  <2>7. k \in Nat \ {0} BY <1>1, InodeFacts
  <2>8. LinksTo(d2.dirs, k) = {} /\ OpensOf(f2, k) = {}
    <3>1. Cardinality(LinksTo(d.dirs, k)) = 0 /\ Cardinality(OpensOf(f, k)) = 1 BY <1>6, <1>7, <1>8, <1>10
    <3> QED BY <1>7, <1>8, <2>4, <2>6, <2>7, <3>1
  <2>9. ~Alive(d2, f2, k) BY <2>8 DEF Alive
  <2>10. ~d2.occupied[d.inodes[k].blk] /\ \A b \in Blks : b # d.inodes[k].blk => d2.occupied[b] = d.occupied[b]
    BY <1>a, <2>3, <2>6
  <2>11. \A i \in Nat \ {0} : i # k => LinksTo(d2.dirs, i) = LinksTo(d.dirs, i) BY <2>4, <2>6
  <2>12. \A i \in Nat \ {0} : \A y \in LinksTo(d2.dirs, i) : \E j \in Inos(d) \ {k} : DirIn(d, j, y[1])
    BY <1>9, <2>4, <2>6
  <2>13. FsInv(d2, f2, lk) BY <1>1, <1>3, <2>6, <2>8, <2>9, <2>10, <2>11, <2>12, InodeChange
  <2>14. \A i \in Inos(d) : d2.inodes[i].type = d.inodes[i].type /\ d2.inodes[i].size = d.inodes[i].size
    BY <1>a, <2>1, <2>6
  <2>15. \A b \in Blks : \A s \in DOMAIN d2.dirs[b] :
           d2.dirs[b][s].ino > 0 => s \in DOMAIN d.dirs[b] /\ d2.dirs[b][s] = d.dirs[b][s]
    <3> TAKE b \in Blks
    <3> TAKE s \in DOMAIN d2.dirs[b]
    <3> HAVE d2.dirs[b][s].ino > 0
    <3>1. b # x.blk BY <2>5, <2>6
    <3> QED BY <2>3, <2>6, <3>1
  <2>16. \A b \in Blks, m \in Names : Hit(d2.dirs[b], m) = Hit(d.dirs[b], m) BY <2>5, <2>6
  <2> QED BY <2>6, <2>13, <2>14, <2>15, <2>16
<1>11. CASE ~(x.unlink = 1 /\ x.linkcnt = 0 /\ x.refcnt = 1)
  <2> DEFINE n == [x EXCEPT !.refcnt = x.refcnt - 1]
  <2>1. /\ n \in InodeRec /\ n.type = x.type /\ n.size = x.size /\ n.refcnt = x.refcnt - 1 /\ n.linkcnt = x.linkcnt
        /\ n.unlink = x.unlink /\ n.blk = x.blk
    BY <1>2 DEF InodeRec
  <2>2. Is(d2, Reset(d, k, n, d.occupied, d.dirs, d.newBuf)) BY <1>a, <1>1, <1>11 DEF Is, Reset, ClosedDisk
  <2> HIDE DEF n
  <2>3. /\ DiskTyped(d2) /\ Inos(d2) = Inos(d) /\ d2.inodes[k] = n
        /\ \A i \in Inos(d) : i # k => d2.inodes[i] = d.inodes[i]
        /\ d2.occupied = d.occupied /\ d2.dirs = d.dirs
    BY <1>1, <2>1, <2>2, InodeSet
  <2>4. CountsOf(d2, f2, lk, k)
    <3>1. n.refcnt >= Cardinality(OpensOf(f2, k)) /\ (~lk => n.refcnt = Cardinality(OpensOf(f2, k)))
      BY <1>2, <1>6, <1>7, <2>1
    <3>2. n.linkcnt >= Cardinality(LinksTo(d.dirs, k)) /\ (~lk => n.linkcnt = Cardinality(LinksTo(d.dirs, k)))
          /\ n.type = "file" /\ (n.unlink = 1 <=> n.linkcnt = 0)
      BY <1>2, <1>6, <2>1
    <3> QED BY <2>3, <3>1, <3>2 DEF CountsOf
  <2>5. ~lk => Alive(d2, f2, k)
    <3> SUFFICES ASSUME ~lk, LinksTo(d.dirs, k) = {}, OpensOf(f2, k) = {} PROVE FALSE BY <2>3 DEF Alive
    <3>1. x.linkcnt = 0 /\ x.refcnt = 1 BY <1>6, <1>7, FS_EmptySet
    <3> QED BY <1>6, <1>11, <3>1
  <2>6. d2.inodes[k].type = "file" /\ d2.inodes[k].blk = d.inodes[k].blk /\ d2.occupied[d.inodes[k].blk]
    BY <1>a, <1>2, <1>4, <2>1, <2>3
  <2>7. \A b \in Blks : b # d.inodes[k].blk => d2.occupied[b] = d.occupied[b] BY <2>3
  <2>8. \A i \in Nat \ {0} : i # k => LinksTo(d2.dirs, i) = LinksTo(d.dirs, i) BY <2>3
  <2>9. \A i \in Nat \ {0} : \A y \in LinksTo(d2.dirs, i) : \E j \in Inos(d) \ {k} : DirIn(d, j, y[1])
    BY <1>9, <2>3
  <2>10. FsInv(d2, f2, lk) BY <1>1, <1>3, <2>3, <2>4, <2>5, <2>6, <2>7, <2>8, <2>9, InodeChange
  <2>11. \A i \in Inos(d) : d2.inodes[i].type = d.inodes[i].type /\ d2.inodes[i].size = d.inodes[i].size
    BY <1>a, <2>1, <2>3
  <2> QED BY <2>3, <2>10, <2>11
<1> QED BY <1>10, <1>11

\* Paths are looked up in inodes and directories only.
LEMMA ParentDepends ==
  ASSUME NEW d, NEW x, x.inodes = d.inodes, x.dirs = d.dirs, NEW path
  PROVE  ParentBlk(x, path) = ParentBlk(d, path)
<1> DEFINE Rec(a, g) == [i \in 1..Len(path) |->
                       IF i = 1 THEN RootBlk
                       ELSE LET up  == g[i - 1]
                                son == IF up = 0 THEN 0 ELSE Hit(a.dirs[up], path[i - 1]) IN
                            IF son > 0 /\ a.inodes[son].type = "dir" THEN a.inodes[son].blk ELSE 0]
<1>1. \A g : Rec(x, g) = Rec(d, g) OBVIOUS
<1>2. ParentBlk(x, path) = (CHOOSE g : g = Rec(x, g))[Len(path)] BY DEF ParentBlk
<1>3. ParentBlk(d, path) = (CHOOSE g : g = Rec(d, g))[Len(path)] BY DEF ParentBlk
<1> HIDE DEF Rec
<1>4. (CHOOSE g : g = Rec(x, g)) = (CHOOSE g : g = Rec(d, g)) BY <1>1
<1> QED BY <1>2, <1>3, <1>4

\* dirs is the table of directories of d in which the name n of k is gone from block up.
Loses(d, k, up, n, dirs) ==
  /\ dirs \in [Blks -> Dirs] /\ \A b \in Blks : b # up => dirs[b] = d.dirs[b]
  /\ \A i \in Nat \ {0} : i # k => LinksTo(dirs, i) = LinksTo(d.dirs, i)
  /\ \E e : e \in LinksTo(d.dirs, k) /\ LinksTo(dirs, k) = LinksTo(d.dirs, k) \ {e}
  /\ \A b \in Blks : \A s \in DOMAIN dirs[b] : dirs[b][s].ino > 0 => s \in DOMAIN d.dirs[b] /\ dirs[b][s] = d.dirs[b][s]
  /\ SameHits(d.dirs, dirs, up, n)

\* newBuf holds another directory.
Buffered(d, buf) == [d EXCEPT !.newBuf = buf]

LEMMA UnnamedIs ==
  ASSUME NEW d, NEW f, NEW lk, NEW path, NEW type, NEW k, NEW up, Named(d, f, lk, path, type, k, up), NEW buf \in Dirs, NEW x, x = Buffered(d, buf)
  PROVE  \E dirs : /\ Loses(d, k, up, NameOf(path), dirs)
                   /\ Unnamed(x, path) = [inodes |-> d.inodes, occupied |-> d.occupied, dirs |-> dirs, newBuf |-> buf]
<1>1. /\ d = [inodes |-> d.inodes, occupied |-> d.occupied, dirs |-> d.dirs, newBuf |-> d.newBuf]
      /\ d.dirs \in [Blks -> Dirs]
  BY DiskIs DEF FsInv, Named
<1>2. PICK h \in DOMAIN d.dirs[up] : /\ Hits(d.dirs[up], NameOf(path)) # {} /\ h = Min(Hits(d.dirs[up], NameOf(path)))
                                     /\ d.dirs[up][h].ino = k /\ k \in Nat \ {0} /\ up \in Blks /\ d.dirs[up][h].name = NameOf(path)
  <2>1. up \in Blks /\ k \in Nat \ {0} BY LookupIs
  <2>2. PICK h : IsHit(d, path, k, up, h) BY LookupIs
  <2> QED BY <2>1, <2>2 DEF IsHit
<1>3. x = [inodes |-> d.inodes, occupied |-> d.occupied, dirs |-> d.dirs, newBuf |-> buf] BY <1>1 DEF Buffered
<1>4. x.inodes = d.inodes /\ x.dirs = d.dirs BY <1>3
<1>5. up = ParentBlk(x, path) BY <1>4, ParentDepends DEF Named
<1> DEFINE dir == [d.dirs[up] EXCEPT ![h] = Dead]
           dirs == [d.dirs EXCEPT ![up] = dir]
<1>6. Unnamed(x, path) = [x EXCEPT !.dirs[up][h] = Dead] BY <1>2, <1>4, <1>5 DEF Unnamed
<1>7. [x EXCEPT !.dirs[up][h] = Dead] = [x EXCEPT !.dirs = dirs] BY <1>4
<1>8. /\ dir \in Dirs /\ DOMAIN dir = DOMAIN d.dirs[up] /\ dir[h] = Dead /\ Dead.ino = -1
      /\ \A s \in DOMAIN d.dirs[up] : s # h => dir[s] = d.dirs[up][s]
  <2>1. PICK D \in Dirs : D = d.dirs[up] BY <1>1, <1>2
  <2>2. h \in DOMAIN D BY <1>2, <2>1
  <2> HIDE DEF dirs
  <2>3. dir = Holed(D, h) BY <2>1 DEF Holed
  <2> HIDE DEF dir
  <2> QED BY <2>1, <2>2, <2>3, DeadIs
<1>9. dirs \in [Blks -> Dirs] /\ dirs[up] = dir /\ \A b \in Blks : b # up => dirs[b] = d.dirs[b]
  <2> HIDE DEF dir
  <2> QED BY <1>1, <1>2, <1>8
<1>10. dirs[up] = Holed(d.dirs[up], h) BY <1>9 DEF Holed
<1> HIDE DEF dir, dirs
<1>11. [x EXCEPT !.dirs = dirs] = [inodes |-> d.inodes, occupied |-> d.occupied, dirs |-> dirs, newBuf |-> buf]
  BY <1>3
<1>12. /\ \A i \in Nat \ {0} : i # k => LinksTo(dirs, i) = LinksTo(d.dirs, i)
       /\ \E e : e \in LinksTo(d.dirs, k) /\ LinksTo(dirs, k) = LinksTo(d.dirs, k) \ {e}
  <2>1. \A b \in Blks : b # up => SaysTheSame(d.dirs[b], dirs[b]) BY <1>9 DEF SaysTheSame
  <2>2. PICK D \in [Blks -> Dirs] : D = d.dirs BY <1>1
  <2>3. h \in DOMAIN D[up] /\ D[up][h].ino = k BY <1>2, <2>2
  <2>4. dirs[up] = Holed(D[up], h) BY <1>10, <2>2
  <2>5. \A b \in Blks : b # up => SaysTheSame(D[b], dirs[b]) BY <2>1, <2>2
  <2>6. /\ \A i \in Nat \ {0} : i # k => LinksTo(dirs, i) = LinksTo(D, i)
        /\ \E e : e \in LinksTo(D, k) /\ LinksTo(dirs, k) = LinksTo(D, k) \ {e} /\ e = <<up, h, k>>
    BY <1>2, <1>9, <2>3, <2>4, <2>5, LinksRemoved
  <2> QED BY <2>2, <2>6
<1>13. ASSUME NEW b \in Blks, NEW s \in DOMAIN dirs[b], dirs[b][s].ino > 0
       PROVE  s \in DOMAIN d.dirs[b] /\ dirs[b][s] = d.dirs[b][s]
  <2>1. CASE b # up BY <1>9, <2>1
  <2>2. CASE b = up
    <3>1. s # h BY <1>8, <1>9, <1>13, <2>2
    <3> QED BY <1>8, <1>9, <2>2, <3>1
  <2> QED BY <2>1, <2>2
<1>14. SameHits(d.dirs, dirs, up, NameOf(path))
  <2> SUFFICES ASSUME NEW b \in Blks, NEW m \in Names, b # up \/ m # NameOf(path)
               PROVE  Hit(dirs[b], m) = Hit(d.dirs[b], m)
    BY DEF SameHits
  <2>1. CASE b # up BY <1>9, <2>1
  <2>2. CASE b = up /\ m # NameOf(path)
    <3>1. PICK X \in Dirs, Y \in Dirs : X = d.dirs[up] /\ Y = dirs[up] BY <1>1, <1>2, <1>9
    <3>2. /\ DOMAIN Y = DOMAIN X /\ Y[h].ino = -1 /\ X[h].name = NameOf(path)
          /\ \A s \in DOMAIN X : s # h => Y[s] = X[s]
      BY <1>2, <1>8, <1>9, <3>1
    <3>3. SaysTheSameOf(X, Y, m)
      <4>1. \A s \in DOMAIN X : X[s].ino > 0 /\ X[s].name = m => s # h BY <2>2, <3>2
      <4>2. \A s \in DOMAIN Y : Y[s].ino > 0 /\ Y[s].name = m => s # h BY <3>2
      <4> QED BY <3>2, <4>1, <4>2 DEF SaysTheSameOf
    <3>4. Hit(Y, m) = Hit(X, m) BY <3>3, HitSameOf
    <3> QED BY <2>2, <3>1, <3>4
  <2> QED BY <2>1, <2>2
<1>15. Loses(d, k, up, NameOf(path), dirs) BY <1>9, <1>12, <1>13, <1>14 DEF Loses
<1>16. Unnamed(x, path) = [inodes |-> d.inodes, occupied |-> d.occupied, dirs |-> dirs, newBuf |-> buf]
  BY <1>6, <1>7, <1>11
<1> QED BY <1>15, <1>16

\* vfs_unlink.
UnlinkedDisk(d, path, k) ==
  LET x == d.inodes[k] IN
  IF x.refcnt = 0 /\ x.linkcnt = 1 THEN Deleted(d, path, k)
  ELSE [Unnamed(d, path) EXCEPT
          !.inodes[k].linkcnt = @ - 1, !.inodes[k].unlink = IF x.linkcnt = 1 THEN 1 ELSE @]

LEMMA UnlinkInv ==
  ASSUME NEW d, NEW f, NEW lk, NEW path, NEW k, NEW up, Named(d, f, lk, path, "file", k, up),
         NEW d2, Is(d2, UnlinkedDisk(d, path, k))
  PROVE  /\ FsInv(d2, f, lk) /\ Inos(d2) = Inos(d)
         /\ \A i \in Inos(d) : d2.inodes[i].type = d.inodes[i].type /\ d2.inodes[i].size = d.inodes[i].size
         /\ \A b \in Blks : \A s \in DOMAIN d2.dirs[b] :
              d2.dirs[b][s].ino > 0 => s \in DOMAIN d.dirs[b] /\ d2.dirs[b][s] = d.dirs[b][s]
         /\ SameHits(d.dirs, d2.dirs, up, NameOf(path)) /\ \A i \in Inos(d) : i # k => d2.inodes[i] = d.inodes[i]
<1>a. PICK x : x = d.inodes[k] OBVIOUS
<1>0. FsInv(d, f, lk) BY DEF Named
<1>1. /\ DiskTyped(d) /\ FilesTyped(f) /\ Counted(d, f, lk) /\ OwnBlocks(d, f) /\ lk \in BOOLEAN
      /\ d = [inodes |-> d.inodes, occupied |-> d.occupied, dirs |-> d.dirs, newBuf |-> d.newBuf]
      /\ d.dirs \in [Blks -> Dirs] /\ d.occupied \in [Blks -> BOOLEAN]
      /\ d.newBuf \in Dirs
  BY <1>0, DiskIs DEF FsInv
<1>b. d2 = UnlinkedDisk(d, path, k) BY DEF Is
<1>2. /\ k \in Inos(d) \ {Root} /\ k \in Nat \ {0} /\ d.inodes[k].type = "file" /\ LinksTo(d.dirs, k) # {}
      /\ k \in DOMAIN d.inodes
  <2>1. k \in Inos(d) \ {Root} /\ k \in Nat \ {0} /\ d.inodes[k].type = "file" /\ LinksTo(d.dirs, k) # {}
    BY LookupIs
  <2> QED BY <1>1, <2>1, InodeFacts
<1>3. x \in InodeRec /\ x.refcnt \in Int /\ x.linkcnt \in Int /\ x.unlink \in {0, 1} /\ x.type = "file"
  BY <1>a, <1>1, <1>2, InodeFacts
<1>4. Alive(d, f, k) BY <1>2 DEF Alive
<1>5. x.blk \in Blks /\ ~IsDirBlk(d, x.blk) /\ d.occupied[x.blk] BY <1>a, <1>0, <1>1, <1>2, <1>4, FileBlk DEF OwnBlocks
<1>6. SaysTheSame(d.dirs[x.blk], <<>>) BY <1>0, <1>5, NoDirIsEmpty
<1>7. PICK dirs : /\ Loses(d, k, up, NameOf(path), dirs)
                  /\ Unnamed(d, path) = [inodes |-> d.inodes, occupied |-> d.occupied, dirs |-> dirs, newBuf |-> d.newBuf]
  <2>1. d = Buffered(d, d.newBuf) BY <1>1 DEF Buffered
  <2>2. PICK buf \in Dirs : buf = d.newBuf BY <1>1
  <2>3. d = Buffered(d, buf) BY <2>1, <2>2
  <2>4. \E dirs : /\ Loses(d, k, up, NameOf(path), dirs)
                  /\ Unnamed(d, path) = [inodes |-> d.inodes, occupied |-> d.occupied, dirs |-> dirs, newBuf |-> buf]
    BY <2>3, UnnamedIs
  <2> QED BY <2>2, <2>4
<1>8. PICK e : e \in LinksTo(d.dirs, k) /\ LinksTo(dirs, k) = LinksTo(d.dirs, k) \ {e} BY <1>7 DEF Loses
<1>9. /\ dirs \in [Blks -> Dirs] /\ \A i \in Nat \ {0} : i # k => LinksTo(dirs, i) = LinksTo(d.dirs, i)
      /\ \A b \in Blks : \A s \in DOMAIN dirs[b] :
           dirs[b][s].ino > 0 => s \in DOMAIN d.dirs[b] /\ dirs[b][s] = d.dirs[b][s]
      /\ SameHits(d.dirs, dirs, up, NameOf(path))
  BY <1>7 DEF Loses
<1>10. /\ x.linkcnt >= Cardinality(LinksTo(d.dirs, k)) /\ x.refcnt >= Cardinality(OpensOf(f, k))
       /\ ~lk => x.linkcnt = Cardinality(LinksTo(d.dirs, k)) /\ x.refcnt = Cardinality(OpensOf(f, k))
       /\ x.unlink = 1 <=> x.linkcnt = 0
  <2>1. CountsOf(d, f, lk, k) BY <1>1, <1>2, <1>4 DEF Counted
  <2> QED BY <1>a, <1>3, <2>1 DEF CountsOf
<1>11. /\ Cardinality(LinksTo(d.dirs, k)) \in Nat \ {0} /\ Cardinality(LinksTo(dirs, k)) = Cardinality(LinksTo(d.dirs, k)) - 1
       /\ LinksTo(dirs, k) = {} <=> Cardinality(LinksTo(d.dirs, k)) = 1
  <2>1. PICK S : S = LinksTo(d.dirs, k) /\ IsFiniteSet(S) BY LinksFinite
  <2>2. e \in S /\ LinksTo(dirs, k) = S \ {e} BY <1>8, <2>1
  <2>3. Cardinality(S) \in Nat \ {0} /\ Cardinality(S \ {e}) = Cardinality(S) - 1 /\ (S \ {e} = {} <=> Cardinality(S) = 1)
    BY <2>1, <2>2, OneLess
  <2> QED BY <2>1, <2>2, <2>3
<1>12. Cardinality(OpensOf(f, k)) \in Nat /\ (Cardinality(OpensOf(f, k)) = 0 => OpensOf(f, k) = {})
  BY OpensFinite, FS_CardinalityType, FS_EmptySet
<1>13. \A i \in Nat \ {0} : \A y \in LinksTo(dirs, i) : \E j \in Inos(d) \ {k} : DirIn(d, j, y[1])
  <2>1. \A i \in Nat \ {0} : \A y \in LinksTo(d.dirs, i) : \E j \in Inos(d) \ {k} : DirIn(d, j, y[1])
    BY <1>0, <1>2, NamesElsewhere
  <2>2. \A i \in Nat \ {0} : LinksTo(dirs, i) \subseteq LinksTo(d.dirs, i) BY <1>8, <1>9
  <2> QED BY <2>1, <2>2
<1>14. CASE x.refcnt = 0 /\ x.linkcnt = 1
  <2> DEFINE D == [dirs EXCEPT ![x.blk] = <<>>]
             occ == [d.occupied EXCEPT ![x.blk] = FALSE]
  <2>1. Is(d2, Reset(d, k, x, occ, D, d.newBuf))
    <3>1. d2 = Wiped(Unnamed(d, path), x.blk) BY <1>a, <1>b, <1>14 DEF UnlinkedDisk, Deleted
    <3>2. d.inodes = [d.inodes EXCEPT ![k] = x] BY <1>a, <1>1, InodeFacts
    <3>3. Unnamed(d, path) = Reset(d, k, x, d.occupied, dirs, d.newBuf) BY <1>7, <3>2 DEF Reset
    <3> QED BY <3>1, <3>3, WipedReset DEF Is
  <2>2. D \in [Blks -> Dirs] /\ occ \in [Blks -> BOOLEAN] /\ ~occ[x.blk] /\ D[x.blk] = <<>>
        /\ \A b \in Blks : b # x.blk => occ[b] = d.occupied[b] /\ D[b] = dirs[b]
    BY <1>1, <1>5, <1>9, EmptyDir
  <2>3. /\ \A i \in Nat \ {0} : LinksTo(D, i) = LinksTo(dirs, i)
        /\ \A b \in Blks, m \in Names : Hit(D[b], m) = Hit(dirs[b], m)
    <3>1. \A s \in DOMAIN dirs[x.blk] : ~(dirs[x.blk][s].ino > 0) BY <1>5, <1>6, <1>9 DEF SaysTheSame
    <3>2. SaysTheSame(dirs[x.blk], <<>>)
      <4>1. DOMAIN <<>> = {} OBVIOUS
      <4> QED BY <3>1, <4>1 DEF SaysTheSame
    <3> HIDE DEF D, occ
    <3> QED BY <1>5, <1>9, <2>2, <3>2, WipedIs, WipedHits
  <2> HIDE DEF D, occ
  <2>4. /\ DiskTyped(d2) /\ Inos(d2) = Inos(d) /\ d2.inodes[k] = x
        /\ \A i \in Inos(d) : i # k => d2.inodes[i] = d.inodes[i]
        /\ d2.occupied = occ /\ d2.dirs = D
    BY <1>1, <1>2, <1>3, <2>1, <2>2, InodeSet
  <2>5. LinksTo(d2.dirs, k) = {} /\ OpensOf(f, k) = {}
    <3>1. Cardinality(LinksTo(d.dirs, k)) = 1 /\ Cardinality(OpensOf(f, k)) = 0 BY <1>10, <1>11, <1>12, <1>14
    <3> QED BY <1>2, <1>11, <1>12, <2>3, <2>4, <3>1
  <2>6. ~Alive(d2, f, k) BY <1>2, <2>5 DEF Alive
  <2>7. ~d2.occupied[d.inodes[k].blk] /\ \A b \in Blks : b # d.inodes[k].blk => d2.occupied[b] = d.occupied[b]
    BY <1>a, <2>2, <2>4
  <2>8. \A i \in Nat \ {0} : i # k => LinksTo(d2.dirs, i) = LinksTo(d.dirs, i) BY <1>9, <2>3, <2>4
  <2>9. \A i \in Nat \ {0} : \A y \in LinksTo(d2.dirs, i) : \E j \in Inos(d) \ {k} : DirIn(d, j, y[1])
    BY <1>13, <2>3, <2>4
  <2>10. FsInv(d2, f, lk) BY <1>0, <1>1, <1>2, <1>4, <2>4, <2>5, <2>6, <2>7, <2>8, <2>9, InodeChange
  <2>11. \A i \in Inos(d) : d2.inodes[i].type = d.inodes[i].type /\ d2.inodes[i].size = d.inodes[i].size
    BY <1>a, <2>4
  <2>12. ASSUME NEW b \in Blks, NEW s \in DOMAIN d2.dirs[b], d2.dirs[b][s].ino > 0
         PROVE  s \in DOMAIN d.dirs[b] /\ d2.dirs[b][s] = d.dirs[b][s]
    <3>1. b # x.blk BY <2>2, <2>4
    <3>2. d2.dirs[b] = dirs[b] BY <2>2, <2>4, <3>1
    <3> QED BY <1>9, <2>12, <3>2
  <2>13. SameHits(d.dirs, d2.dirs, up, NameOf(path)) BY <1>9, <2>3, <2>4 DEF SameHits
  <2> QED BY <2>4, <2>10, <2>11, <2>12, <2>13
<1>15. CASE ~(x.refcnt = 0 /\ x.linkcnt = 1)
  <2> DEFINE u == IF x.linkcnt = 1 THEN 1 ELSE x.unlink
             n == [x EXCEPT !.linkcnt = x.linkcnt - 1, !.unlink = u]
  <2>1. u \in {0, 1} BY <1>3
  <2>2. /\ n \in InodeRec /\ n.type = x.type /\ n.size = x.size /\ n.refcnt = x.refcnt /\ n.linkcnt = x.linkcnt - 1
        /\ n.unlink = u /\ n.blk = x.blk
    <3> DEFINE m == [x EXCEPT !.linkcnt = x.linkcnt - 1]
    <3> HIDE DEF u
    <3>1. /\ m \in InodeRec /\ m.type = x.type /\ m.size = x.size /\ m.refcnt = x.refcnt
          /\ m.linkcnt = x.linkcnt - 1 /\ m.blk = x.blk
      BY <1>3 DEF InodeRec
    <3>2. n = [m EXCEPT !.unlink = u] OBVIOUS
    <3> HIDE DEF m, n
    <3> QED BY <2>1, <3>1, <3>2 DEF InodeRec
  <2>3. Is(d2, Reset(d, k, n, d.occupied, dirs, d.newBuf))
    <3>1. d2 = [Unnamed(d, path) EXCEPT !.inodes[k].linkcnt = @ - 1, !.inodes[k].unlink = IF x.linkcnt = 1 THEN 1 ELSE @]
      BY <1>a, <1>b, <1>15 DEF UnlinkedDisk
    <3>2. PICK r : r = [inodes |-> d.inodes, occupied |-> d.occupied, dirs |-> dirs, newBuf |-> d.newBuf] OBVIOUS
    <3>3. d2 = [r EXCEPT !.inodes[k].linkcnt = @ - 1, !.inodes[k].unlink = IF x.linkcnt = 1 THEN 1 ELSE @]
      BY <1>7, <3>1, <3>2
    <3>4. r.inodes = d.inodes /\ r.inodes[k] = x BY <1>a, <3>2
    <3>5. d2 = [r EXCEPT !.inodes = [d.inodes EXCEPT ![k] = n]] BY <1>2, <1>3, <3>3, <3>4 DEF InodeRec
    <3> HIDE DEF n
    <3> QED BY <3>2, <3>5 DEF Reset, Is
  <2> HIDE DEF n
  <2>4. /\ DiskTyped(d2) /\ Inos(d2) = Inos(d) /\ d2.inodes[k] = n
        /\ \A i \in Inos(d) : i # k => d2.inodes[i] = d.inodes[i]
        /\ d2.occupied = d.occupied /\ d2.dirs = dirs
    BY <1>1, <1>2, <1>9, <2>2, <2>3, InodeSet
  <2>5. CountsOf(d2, f, lk, k)
    <3>1. n.linkcnt >= Cardinality(LinksTo(dirs, k)) /\ (~lk => n.linkcnt = Cardinality(LinksTo(dirs, k)))
      BY <1>3, <1>10, <1>11, <2>2
    <3>2. n.refcnt >= Cardinality(OpensOf(f, k)) /\ (~lk => n.refcnt = Cardinality(OpensOf(f, k))) /\ n.type = "file"
      BY <1>3, <1>10, <2>2
    <3>3. n.unlink = 1 <=> n.linkcnt = 0 BY <1>3, <1>10, <1>11, <2>2
    <3> QED BY <2>4, <3>1, <3>2, <3>3 DEF CountsOf
  <2>6. ~lk => Alive(d2, f, k)
    <3> SUFFICES ASSUME ~lk, LinksTo(dirs, k) = {}, OpensOf(f, k) = {} PROVE FALSE BY <2>4 DEF Alive
    <3>1. x.linkcnt = 1 /\ x.refcnt = 0 BY <1>10, <1>11, FS_EmptySet
    <3> QED BY <1>15, <3>1
  <2>7. d2.inodes[k].type = "file" /\ d2.inodes[k].blk = d.inodes[k].blk /\ d2.occupied[d.inodes[k].blk]
    BY <1>a, <1>3, <1>5, <2>2, <2>4
  <2>8. \A b \in Blks : b # d.inodes[k].blk => d2.occupied[b] = d.occupied[b] BY <2>4
  <2>9. \A i \in Nat \ {0} : i # k => LinksTo(d2.dirs, i) = LinksTo(d.dirs, i) BY <1>9, <2>4
  <2>10. \A i \in Nat \ {0} : \A y \in LinksTo(d2.dirs, i) : \E j \in Inos(d) \ {k} : DirIn(d, j, y[1])
    BY <1>13, <2>4
  <2>11. FsInv(d2, f, lk)
    BY <1>0, <1>1, <1>2, <1>4, <2>4, <2>5, <2>6, <2>7, <2>8, <2>9, <2>10, InodeChange
  <2>12. \A i \in Inos(d) : d2.inodes[i].type = d.inodes[i].type /\ d2.inodes[i].size = d.inodes[i].size
    BY <1>a, <2>2, <2>4
  <2> QED BY <1>9, <2>4, <2>11, <2>12
<1> QED BY <1>14, <1>15

\* vfs_link.
LinkedDisk(d, k, up, n) ==
  LET more == [d EXCEPT !.inodes[k].linkcnt = @ + 1] IN
  IF up # 0 /\ ~Full(d.dirs[up]) THEN [more EXCEPT !.dirs[up] = EntryAdded(@, k, n)] ELSE more

LEMMA LinkInv ==
  ASSUME NEW d, NEW f, NEW lk, NEW old, NEW k, NEW oldUp, Named(d, f, lk, old, "file", k, oldUp),
         NEW path \in PathsOf, NEW up, up = ParentBlk(d, path), NEW d2, Is(d2, LinkedDisk(d, k, up, NameOf(path))),
         NEW lk2 \in BOOLEAN, lk => lk2, ~(up # 0 /\ ~Full(d.dirs[up])) => lk2, NamesOnce(d)
  PROVE  /\ FsInv(d2, f, lk2) /\ NamesOnce(d2) /\ Inos(d2) = Inos(d)
         /\ \A i \in Inos(d) : d2.inodes[i].type = d.inodes[i].type /\ d2.inodes[i].size = d.inodes[i].size
         /\ \A i \in Inos(d) : i # k => d2.inodes[i] = d.inodes[i]
         /\ \/ d2.dirs = d.dirs
            \/ /\ up \in Blks /\ ~Full(d.dirs[up]) /\ d2.dirs[up] = EntryAdded(d.dirs[up], k, NameOf(path))
               /\ \A b \in Blks : b # up => SaysTheSame(d.dirs[b], d2.dirs[b])
<1>a. PICK x : x = d.inodes[k] OBVIOUS
<1>b. d2 = LinkedDisk(d, k, up, NameOf(path)) BY DEF Is
<1>0. FsInv(d, f, lk) BY DEF Named
<1>1. /\ DiskTyped(d) /\ FilesTyped(f) /\ Counted(d, f, lk) /\ OwnBlocks(d, f) /\ lk \in BOOLEAN /\ lk2 \in BOOLEAN
      /\ d = [inodes |-> d.inodes, occupied |-> d.occupied, dirs |-> d.dirs, newBuf |-> d.newBuf]
      /\ d.dirs \in [Blks -> Dirs] /\ d.occupied \in [Blks -> BOOLEAN]
      /\ d.newBuf \in Dirs
  BY <1>0, DiskIs DEF FsInv
<1>2. /\ k \in Inos(d) \ {Root} /\ k \in Nat \ {0} /\ d.inodes[k].type = "file" /\ LinksTo(d.dirs, k) # {}
      /\ k \in DOMAIN d.inodes
  <2>1. k \in Inos(d) \ {Root} /\ k \in Nat \ {0} /\ d.inodes[k].type = "file" /\ LinksTo(d.dirs, k) # {}
    BY LookupIs
  <2> QED BY <1>1, <2>1, InodeFacts
<1>3. x \in InodeRec /\ x.refcnt \in Int /\ x.linkcnt \in Int /\ x.unlink \in {0, 1} /\ x.type = "file"
  BY <1>a, <1>1, <1>2, InodeFacts
<1>4. Alive(d, f, k) BY <1>2 DEF Alive
<1>5. x.blk \in Blks /\ d.occupied[x.blk] BY <1>a, <1>0, <1>1, <1>2, <1>4, FileBlk DEF OwnBlocks
<1>6. /\ x.linkcnt >= Cardinality(LinksTo(d.dirs, k)) /\ x.refcnt >= Cardinality(OpensOf(f, k))
      /\ ~lk => x.linkcnt = Cardinality(LinksTo(d.dirs, k)) /\ x.refcnt = Cardinality(OpensOf(f, k))
      /\ x.unlink = 1 <=> x.linkcnt = 0
  <2>1. CountsOf(d, f, lk, k) BY <1>1, <1>2, <1>4 DEF Counted
  <2> QED BY <1>a, <1>3, <2>1 DEF CountsOf
<1>7. Cardinality(LinksTo(d.dirs, k)) \in Nat \ {0}
  BY <1>2, LinksFinite, FS_CardinalityType, FS_EmptySet
<1> DEFINE n == [x EXCEPT !.linkcnt = x.linkcnt + 1]
<1>8. /\ n \in InodeRec /\ n.type = x.type /\ n.size = x.size /\ n.refcnt = x.refcnt /\ n.linkcnt = x.linkcnt + 1
      /\ n.unlink = x.unlink /\ n.blk = x.blk
  BY <1>3 DEF InodeRec
<1>9. [d EXCEPT !.inodes[k].linkcnt = @ + 1] = Reset(d, k, n, d.occupied, d.dirs, d.newBuf)
  BY <1>a, <1>1 DEF Reset
<1> HIDE DEF n
\* Both ways the number of names is at most the number that is counted.
<1>10. ASSUME NEW dirs \in [Blks -> Dirs], Is(d2, Reset(d, k, n, d.occupied, dirs, d.newBuf)),
              \A i \in Nat \ {0} : i # k => LinksTo(dirs, i) = LinksTo(d.dirs, i),
              LinksTo(dirs, k) # {},
              \/ Cardinality(LinksTo(dirs, k)) = Cardinality(LinksTo(d.dirs, k)) + 1
              \/ Cardinality(LinksTo(dirs, k)) = Cardinality(LinksTo(d.dirs, k)) /\ lk2,
              \A i \in Nat \ {0} : \A y \in LinksTo(dirs, i) : \E j \in Inos(d) \ {k} : DirIn(d, j, y[1])
       PROVE  /\ FsInv(d2, f, lk2) /\ Inos(d2) = Inos(d) /\ d2.dirs = dirs
              /\ \A i \in Inos(d) : d2.inodes[i].type = d.inodes[i].type /\ d2.inodes[i].size = d.inodes[i].size
              /\ \A i \in Inos(d) : i # k => d2.inodes[i] = d.inodes[i]
  <2>1. /\ DiskTyped(d2) /\ Inos(d2) = Inos(d) /\ d2.inodes[k] = n
        /\ \A i \in Inos(d) : i # k => d2.inodes[i] = d.inodes[i]
        /\ d2.occupied = d.occupied /\ d2.dirs = dirs
    BY <1>1, <1>2, <1>8, <1>10, InodeSet
  <2>2. CountsOf(d2, f, lk2, k)
    <3>1. n.linkcnt >= Cardinality(LinksTo(dirs, k)) /\ (~lk2 => n.linkcnt = Cardinality(LinksTo(dirs, k)))
      <4>1. n.linkcnt >= Cardinality(LinksTo(dirs, k)) BY <1>3, <1>6, <1>7, <1>8, <1>10
      <4>2. ~lk2 => Cardinality(LinksTo(dirs, k)) = Cardinality(LinksTo(d.dirs, k)) + 1 BY <1>10
      <4>3. ~lk2 => x.linkcnt = Cardinality(LinksTo(d.dirs, k)) BY <1>6
      <4> QED BY <1>8, <4>1, <4>2, <4>3
    <3>2. n.refcnt >= Cardinality(OpensOf(f, k)) /\ (~lk2 => n.refcnt = Cardinality(OpensOf(f, k))) /\ n.type = "file"
      BY <1>3, <1>6, <1>8
    <3>3. n.unlink = 1 <=> n.linkcnt = 0 BY <1>3, <1>6, <1>7, <1>8
    <3> QED BY <2>1, <3>1, <3>2, <3>3 DEF CountsOf
  <2>3. Alive(d2, f, k) BY <1>10, <2>1 DEF Alive
  <2>4. d2.inodes[k].type = "file" /\ d2.inodes[k].blk = d.inodes[k].blk /\ d2.occupied[d.inodes[k].blk]
    BY <1>a, <1>3, <1>5, <1>8, <2>1
  <2>5. \A b \in Blks : b # d.inodes[k].blk => d2.occupied[b] = d.occupied[b] BY <2>1
  <2>6. \A i \in Nat \ {0} : i # k => LinksTo(d2.dirs, i) = LinksTo(d.dirs, i) BY <1>10, <2>1
  <2>7. \A i \in Nat \ {0} : \A y \in LinksTo(d2.dirs, i) : \E j \in Inos(d) \ {k} : DirIn(d, j, y[1])
    BY <1>10, <2>1
  <2>8. lk => lk2 OBVIOUS
  <2>9. FsInv(d2, f, lk2)
    BY <1>0, <1>1, <1>2, <1>4, <2>1, <2>2, <2>3, <2>4, <2>5, <2>6, <2>7, <2>8, InodeChange
  <2>10. \A i \in Inos(d) : d2.inodes[i].type = d.inodes[i].type /\ d2.inodes[i].size = d.inodes[i].size
    BY <1>a, <1>8, <2>1
  <2> QED BY <2>1, <2>9, <2>10
<1>11. /\ \A b : IsDirBlk(d, b) => \E j \in Inos(d) \ {k} : DirIn(d, j, b)
       /\ \A i \in Nat \ {0} : \A e \in LinksTo(d.dirs, i) : \E j \in Inos(d) \ {k} : DirIn(d, j, e[1])
  BY <1>0, <1>2, NamesElsewhere
<1>12. CASE up # 0 /\ ~Full(d.dirs[up])
  <2>1. up \in Blks /\ IsDirBlk(d, up) BY <1>0, <1>12, FindIs
  <2>2. NameOf(path) \in Names BY PathFacts
  <2> DEFINE dirs == [d.dirs EXCEPT ![up] = EntryAdded(d.dirs[up], k, NameOf(path))]
  <2>3. EntryAdded(d.dirs[up], k, NameOf(path)) \in Dirs
    <3>1. d.dirs[up] \in Dirs BY <1>1, <2>1
    <3> QED BY <1>2, <1>12, <2>2, <3>1, AddedIs
  <2>4. dirs \in [Blks -> Dirs] /\ dirs[up] = EntryAdded(d.dirs[up], k, NameOf(path))
        /\ \A b \in Blks : b # up => dirs[b] = d.dirs[b]
    BY <1>1, <2>1, <2>3
  <2>5. Is(d2, Reset(d, k, n, d.occupied, dirs, d.newBuf))
    <3>1. d2 = [Reset(d, k, n, d.occupied, d.dirs, d.newBuf) EXCEPT !.dirs[up] = EntryAdded(@, k, NameOf(path))]
      BY <1>b, <1>9, <1>12 DEF LinkedDisk
    <3> QED BY <3>1 DEF Reset, Is
  <2> HIDE DEF dirs
  <2>6. \A b \in Blks : b # up => SaysTheSame(d.dirs[b], dirs[b]) BY <2>4 DEF SaysTheSame
  <2>7. PICK e : e \notin LinksTo(d.dirs, k) /\ LinksTo(dirs, k) = LinksTo(d.dirs, k) \cup {e} /\ e[1] = up
                 /\ \A i \in Nat \ {0} : i # k => LinksTo(dirs, i) = LinksTo(d.dirs, i)
    BY <1>1, <1>2, <1>12, <2>1, <2>2, <2>4, <2>6, LinksAdded
  <2>8. Cardinality(LinksTo(dirs, k)) = Cardinality(LinksTo(d.dirs, k)) + 1
    <3>1. PICK S : S = LinksTo(d.dirs, k) /\ IsFiniteSet(S) BY LinksFinite
    <3>2. Cardinality(S \cup {e}) = Cardinality(S) + 1 BY <2>7, <3>1, OneMore
    <3> QED BY <2>7, <3>1, <3>2
  <2>9. \A i \in Nat \ {0} : \A y \in LinksTo(dirs, i) : \E j \in Inos(d) \ {k} : DirIn(d, j, y[1])
    <3> TAKE i \in Nat \ {0}
    <3> TAKE y \in LinksTo(dirs, i)
    <3>1. CASE i # k BY <1>11, <2>7, <3>1
    <3>2. CASE i = k /\ y # e BY <1>2, <1>11, <2>7, <3>2
    <3>3. CASE i = k /\ y = e BY <1>11, <2>1, <2>7, <3>3
    <3> QED BY <3>1, <3>2, <3>3
  <2>10. LinksTo(dirs, k) # {} BY <2>7
  <2>11. /\ FsInv(d2, f, lk2) /\ Inos(d2) = Inos(d) /\ d2.dirs = dirs
         /\ \A i \in Inos(d) : d2.inodes[i].type = d.inodes[i].type /\ d2.inodes[i].size = d.inodes[i].size
         /\ \A i \in Inos(d) : i # k => d2.inodes[i] = d.inodes[i]
    BY <1>10, <2>4, <2>5, <2>7, <2>8, <2>9, <2>10
  <2>12. NamesOnce(d2)
    <3>1. d2.dirs \in [Blks -> Dirs] /\ d2.dirs[up] = EntryAdded(d.dirs[up], k, NameOf(path)) BY <2>4, <2>11
    <3>2. \A b \in Blks : b # up => SaysTheSame(d.dirs[b], d2.dirs[b]) BY <2>6, <2>11
    <3>3. d2.inodes[k].type = "file" BY <1>2, <2>11
    <3> QED BY <1>0, <1>2, <1>12, <2>1, <2>2, <2>11, <3>1, <3>2, <3>3, NamesOnceAdded
  <2>13. /\ up \in Blks /\ ~Full(d.dirs[up]) /\ d2.dirs[up] = EntryAdded(d.dirs[up], k, NameOf(path))
         /\ \A b \in Blks : b # up => SaysTheSame(d.dirs[b], d2.dirs[b])
    BY <1>12, <2>1, <2>4, <2>6, <2>11
  <2> QED BY <2>11, <2>12, <2>13
<1>13. CASE ~(up # 0 /\ ~Full(d.dirs[up]))
  <2>1. Is(d2, Reset(d, k, n, d.occupied, d.dirs, d.newBuf)) BY <1>b, <1>9, <1>13 DEF Is, LinkedDisk
  <2>2. lk2 BY <1>13
  <2>3. /\ FsInv(d2, f, lk2) /\ Inos(d2) = Inos(d) /\ d2.dirs = d.dirs
        /\ \A i \in Inos(d) : d2.inodes[i].type = d.inodes[i].type /\ d2.inodes[i].size = d.inodes[i].size
        /\ \A i \in Inos(d) : i # k => d2.inodes[i] = d.inodes[i]
    BY <1>1, <1>2, <1>10, <1>11, <2>1, <2>2
  <2>4. NamesOnce(d2)
    <3>1. \A b \in Blks : \A s \in DOMAIN d2.dirs[b] :
            d2.dirs[b][s].ino > 0 => s \in DOMAIN d.dirs[b] /\ d2.dirs[b][s] = d.dirs[b][s]
      BY <2>3
    <3> QED BY <1>0, <2>3, <3>1, NamesOnceFewer
  <2> QED BY <2>3, <2>4
<1> QED BY <1>12, <1>13

\* vfs_rmdir of a directory without names.
RmdirDisk(d, path, k) ==
  LET b    == d.inodes[k].blk
      read == [d EXCEPT !.newBuf = d.dirs[b]] IN
  IF LooksEmpty(d, ParentBlk(d, path), b) THEN Deleted(read, path, k) ELSE read

LEMMA RmdirInv ==
  ASSUME NEW d, NEW f, NEW lk, NEW path, NEW k, NEW up, Named(d, f, lk, path, "dir", k, up),
         NEW d2, Is(d2, RmdirDisk(d, path, k)),
         \A s \in DOMAIN d.dirs[d.inodes[k].blk] : ~(d.dirs[d.inodes[k].blk][s].ino > 0)
  PROVE  /\ FsInv(d2, f, lk) /\ Inos(d2) = Inos(d)
         /\ \A i \in Inos(d) : d2.inodes[i] = d.inodes[i]
         /\ \A b \in Blks : \A s \in DOMAIN d2.dirs[b] :
              d2.dirs[b][s].ino > 0 => s \in DOMAIN d.dirs[b] /\ d2.dirs[b][s] = d.dirs[b][s]
         /\ SameHits(d.dirs, d2.dirs, up, NameOf(path)) /\ LinksTo(d2.dirs, k) = {}
<1>a. PICK x : x = d.inodes[k] OBVIOUS
<1>b. d2 = RmdirDisk(d, path, k) BY DEF Is
<1>0. FsInv(d, f, lk) BY DEF Named
<1>1. /\ DiskTyped(d) /\ FilesTyped(f) /\ Counted(d, f, lk) /\ OwnBlocks(d, f) /\ Homes(d, f) /\ lk \in BOOLEAN
      /\ d = [inodes |-> d.inodes, occupied |-> d.occupied, dirs |-> d.dirs, newBuf |-> d.newBuf]
      /\ d.dirs \in [Blks -> Dirs] /\ d.occupied \in [Blks -> BOOLEAN]
  BY <1>0, DiskIs DEF FsInv
<1>2. /\ k \in Inos(d) \ {Root} /\ k \in Nat \ {0} /\ d.inodes[k].type = "dir" /\ LinksTo(d.dirs, k) # {}
      /\ k \in DOMAIN d.inodes
  <2>1. k \in Inos(d) \ {Root} /\ k \in Nat \ {0} /\ d.inodes[k].type = "dir" /\ LinksTo(d.dirs, k) # {}
    BY LookupIs
  <2> QED BY <1>1, <2>1, InodeFacts
<1>3. x \in InodeRec /\ x.refcnt \in Int /\ x.linkcnt \in Int /\ x.type = "dir"
  BY <1>a, <1>1, <1>2, InodeFacts
<1>4. Alive(d, f, k) BY <1>2 DEF Alive
<1>5. x.blk \in Blks /\ d.occupied[x.blk] BY <1>a, <1>1, <1>2, <1>4 DEF OwnBlocks
<1> DEFINE buf == d.dirs[x.blk]
<1>6. buf \in Dirs /\ \A s \in DOMAIN buf : buf[s].ino <= 0
  <2>1. buf \in Dirs BY <1>1, <1>5
  <2>2. \A s \in DOMAIN buf : buf[s].ino \in Int /\ ~(buf[s].ino > 0)
    <3> HIDE DEF buf
    <3>1. \A s \in DOMAIN buf : buf[s].ino \in Int BY <2>1, DirFacts
    <3>2. \A s \in DOMAIN buf : ~(buf[s].ino > 0) BY <1>a DEF buf
    <3> QED BY <3>1, <3>2
  <2> HIDE DEF buf
  <2> QED BY <2>1, <2>2
<1>7. PICK dirs : /\ Loses(d, k, up, NameOf(path), dirs)
                  /\ Unnamed(Buffered(d, buf), path)
                       = [inodes |-> d.inodes, occupied |-> d.occupied, dirs |-> dirs, newBuf |-> buf]
  <2>1. PICK y : y = Buffered(d, buf) OBVIOUS
  <2> HIDE DEF buf
  <2>2. \E dirs : /\ Loses(d, k, up, NameOf(path), dirs)
                  /\ Unnamed(y, path) = [inodes |-> d.inodes, occupied |-> d.occupied, dirs |-> dirs, newBuf |-> buf]
    BY <1>6, <2>1, UnnamedIs
  <2> QED BY <2>1, <2>2
<1>8. PICK e : e \in LinksTo(d.dirs, k) /\ LinksTo(dirs, k) = LinksTo(d.dirs, k) \ {e} BY <1>7 DEF Loses
<1>9. /\ dirs \in [Blks -> Dirs] /\ \A i \in Nat \ {0} : i # k => LinksTo(dirs, i) = LinksTo(d.dirs, i)
      /\ \A b \in Blks : \A s \in DOMAIN dirs[b] :
           dirs[b][s].ino > 0 => s \in DOMAIN d.dirs[b] /\ dirs[b][s] = d.dirs[b][s]
      /\ SameHits(d.dirs, dirs, up, NameOf(path))
  BY <1>7 DEF Loses
<1>10. x.linkcnt >= Cardinality(LinksTo(d.dirs, k)) /\ x.refcnt >= Cardinality(OpensOf(f, k))
       /\ x.linkcnt = 1 /\ x.refcnt = 0
  <2>1. CountsOf(d, f, lk, k) BY <1>1, <1>2, <1>4 DEF Counted
  <2> QED BY <1>a, <1>3, <2>1 DEF CountsOf
\* It has this one name, and nobody has it open.
<1>11. LinksTo(dirs, k) = {} /\ OpensOf(f, k) = {}
  <2>1. PICK S : S = LinksTo(d.dirs, k) /\ IsFiniteSet(S) BY LinksFinite
  <2>2. e \in S /\ LinksTo(dirs, k) = S \ {e} BY <1>8, <2>1
  <2>3. Cardinality(S) \in Nat \ {0} /\ (S \ {e} = {} <=> Cardinality(S) = 1) BY <2>1, <2>2, OneLess
  <2>4. Cardinality(S) = 1 BY <1>10, <2>1, <2>3
  <2>5. PICK O : O = OpensOf(f, k) /\ IsFiniteSet(O) BY OpensFinite
  <2>6. Cardinality(O) \in Nat /\ (Cardinality(O) = 0 => O = {}) BY <2>5, FS_CardinalityType, FS_EmptySet
  <2>7. Cardinality(O) = 0 BY <1>10, <2>5, <2>6
  <2> QED BY <2>2, <2>3, <2>4, <2>5, <2>6, <2>7
<1> DEFINE D == [dirs EXCEPT ![x.blk] = <<>>]
           occ == [d.occupied EXCEPT ![x.blk] = FALSE]
<1>12. Is(d2, Reset(d, k, x, occ, D, buf))
  <2>1. LooksEmpty(d, ParentBlk(d, path), x.blk) BY <1>6 DEF LooksEmpty
  <2>2. d2 = Wiped(Unnamed(Buffered(d, buf), path), Buffered(d, buf).inodes[k].blk)
    BY <1>a, <1>b, <2>1 DEF RmdirDisk, Deleted, Buffered
  <2>3. Buffered(d, buf).inodes[k] = x
    <3> HIDE DEF buf
    <3> QED BY <1>a, <1>1 DEF Buffered
  <2>4. d.inodes = [d.inodes EXCEPT ![k] = x] BY <1>a, <1>1, InodeFacts
  <2> HIDE DEF buf, D, occ
  <2>5. Unnamed(Buffered(d, buf), path) = Reset(d, k, x, d.occupied, dirs, buf) BY <1>7, <2>4 DEF Reset
  <2>6. d2 = Wiped(Reset(d, k, x, d.occupied, dirs, buf), x.blk) BY <2>2, <2>3, <2>5
  <2> QED BY <2>6, WipedReset DEF D, occ, Is
<1>13. D \in [Blks -> Dirs] /\ occ \in [Blks -> BOOLEAN] /\ ~occ[x.blk] /\ D[x.blk] = <<>>
       /\ \A b \in Blks : b # x.blk => occ[b] = d.occupied[b] /\ D[b] = dirs[b]
  BY <1>1, <1>5, <1>9, EmptyDir
<1>14. /\ \A i \in Nat \ {0} : LinksTo(D, i) = LinksTo(dirs, i)
       /\ \A b \in Blks, m \in Names : Hit(D[b], m) = Hit(dirs[b], m)
  <2>1. \A s \in DOMAIN dirs[x.blk] : ~(dirs[x.blk][s].ino > 0)
    <3>1. \A s \in DOMAIN buf : ~(buf[s].ino > 0) BY <1>a
    <3> QED BY <1>5, <1>9, <3>1
  <2>2. SaysTheSame(dirs[x.blk], <<>>)
    <3>1. DOMAIN <<>> = {} OBVIOUS
    <3> QED BY <2>1, <3>1 DEF SaysTheSame
  <2> HIDE DEF D, occ
  <2> QED BY <1>5, <1>9, <1>13, <2>2, WipedIs, WipedHits
<1> HIDE DEF D, occ, buf
<1>15. /\ DiskTyped(d2) /\ Inos(d2) = Inos(d) /\ d2.inodes[k] = x
       /\ \A i \in Inos(d) : i # k => d2.inodes[i] = d.inodes[i]
       /\ d2.occupied = occ /\ d2.dirs = D
  BY <1>1, <1>2, <1>3, <1>6, <1>12, <1>13, InodeSet
<1>16. OpensOf(f, k) = {} /\ ~Alive(d2, f, k) BY <1>2, <1>11, <1>14, <1>15 DEF Alive
<1>17. ~d2.occupied[d.inodes[k].blk] /\ \A b \in Blks : b # d.inodes[k].blk => d2.occupied[b] = d.occupied[b]
  BY <1>a, <1>13, <1>15
<1>18. \A i \in Nat \ {0} : i # k => LinksTo(d2.dirs, i) = LinksTo(d.dirs, i) BY <1>9, <1>14, <1>15
\* No name lies in it.
<1>19. \A i \in Nat \ {0} : \A y \in LinksTo(d2.dirs, i) : \E j \in Inos(d) \ {k} : DirIn(d, j, y[1])
  <2> TAKE i \in Nat \ {0}
  <2> TAKE y \in LinksTo(d2.dirs, i)
  <2>1. y \in LinksTo(d.dirs, i) BY <1>8, <1>9, <1>14, <1>15
  <2>2. PICK j \in Inos(d) : DirIn(d, j, y[1]) BY <1>1, <2>1 DEF Homes, IsDirBlk
  <2>3. ASSUME j = k PROVE FALSE
    <3>1. y[1] = x.blk BY <1>a, <2>2, <2>3 DEF DirIn
    <3>2. PICK b \in Blks : \E s \in DOMAIN d.dirs[b] : y = <<b, s, i>> /\ d.dirs[b][s].ino = i BY <1>1, <2>1, LinkIs
    <3>3. PICK s \in DOMAIN d.dirs[b] : y = <<b, s, i>> /\ d.dirs[b][s].ino = i BY <3>2
    <3>4. b = d.inodes[k].blk BY <1>a, <3>1, <3>3
    <3>5. ~(d.dirs[b][s].ino > 0) BY <3>4
    <3> QED BY <3>3, <3>5
  <2> QED BY <2>2, <2>3
<1>20. FsInv(d2, f, lk) BY <1>0, <1>1, <1>2, <1>4, <1>15, <1>16, <1>17, <1>18, <1>19, InodeChange
<1>21. \A i \in Inos(d) : d2.inodes[i] = d.inodes[i] BY <1>a, <1>15
<1>22. ASSUME NEW b \in Blks, NEW s \in DOMAIN d2.dirs[b], d2.dirs[b][s].ino > 0
       PROVE  s \in DOMAIN d.dirs[b] /\ d2.dirs[b][s] = d.dirs[b][s]
  <2>1. b # x.blk BY <1>13, <1>15
  <2>2. d2.dirs[b] = dirs[b] BY <1>13, <1>15, <2>1
  <2> QED BY <1>9, <1>22, <2>2
<1>23. SameHits(d.dirs, d2.dirs, up, NameOf(path)) BY <1>9, <1>14, <1>15 DEF SameHits
<1>24. LinksTo(d2.dirs, k) = {} BY <1>2, <1>11, <1>14, <1>15
<1> QED BY <1>15, <1>20, <1>21, <1>22, <1>23, <1>24

-----------------------------------------------------------------------------
(* vfs_init.                                                                *)

\* A new name is found where there was none; the others mean what they meant.
LEMMA HitAdded ==
  ASSUME NEW dir \in Dirs, ~Full(dir), NEW ino \in Nat \ {0}, NEW n \in Names
  PROVE  LET new == EntryAdded(dir, ino, n) IN
         /\ \A m : m # n => Hit(new, m) = Hit(dir, m)
         /\ Hit(new, n) = IF Hit(dir, n) = 0 THEN ino ELSE Hit(dir, n)
         /\ Len(new) <= Len(dir) + 1
<1>1. PICK p \in 1..DirSlots, new \in Dirs :
        /\ p = Reached(dir) + 1 /\ new = EntryAdded(dir, ino, n)
        /\ DOMAIN new = DOMAIN dir \cup {p} /\ new[p] = [ino |-> ino, name |-> n]
        /\ \A s \in DOMAIN dir : s # p => new[s] = dir[s]
        /\ \A s \in DOMAIN dir : dir[s].ino > 0 => s < p
  <2>1. LET p == Reached(dir) + 1
            new == EntryAdded(dir, ino, n) IN
        /\ new \in Dirs /\ p \in 1..DirSlots /\ p \in DOMAIN new
        /\ DOMAIN new = DOMAIN dir \cup {p}
        /\ new[p] = [ino |-> ino, name |-> n]
        /\ \A s \in DOMAIN dir : s # p => new[s] = dir[s]
        /\ \A s \in DOMAIN dir : dir[s].ino > 0 => s < p
    BY AddedIs
  <2> QED BY <2>1
<1>2. DirSlots \in Nat /\ p \in Nat /\ (\A s \in DOMAIN dir : s \in Nat) /\ (\A s \in DOMAIN new : s \in Nat)
  <2>1. DirSlots \in Nat BY SizesAssumption
  <2> QED BY <2>1, DirFacts
<1>3. \A s \in DOMAIN dir : dir[s].ino > 0 => s # p /\ s \in DOMAIN new /\ new[s] = dir[s] BY <1>1, <1>2
<1>4. \A s \in DOMAIN new : s # p => s \in DOMAIN dir /\ new[s] = dir[s] BY <1>1
<1>5. new[p].ino > 0 /\ new[p].ino = ino /\ new[p].name = n /\ p \in DOMAIN new BY <1>1
\* A name that was there is found where it was.
<1>6. ASSUME NEW m, Hit(dir, m) # 0 PROVE Hit(new, m) = Hit(dir, m)
  <2>1. PICK h \in DOMAIN dir : /\ Hit(dir, m) = dir[h].ino /\ dir[h].ino > 0 /\ dir[h].name = m
                                /\ \A s \in DOMAIN dir : dir[s].ino > 0 /\ dir[s].name = m => h <= s
    BY <1>6, HitIs
  <2>2. h < p /\ h \in DOMAIN new /\ new[h] = dir[h] BY <1>1, <1>3, <2>1
  <2>3. PICK g \in DOMAIN new : /\ Hit(new, m) = new[g].ino /\ new[g].ino > 0 /\ new[g].name = m
                                /\ \A s \in DOMAIN new : new[s].ino > 0 /\ new[s].name = m => g <= s
    BY <2>1, <2>2, HitIs
  <2>4. g <= h BY <2>1, <2>2, <2>3
  <2>5. g # p BY <1>2, <2>2, <2>4
  <2>6. h <= g BY <1>4, <2>1, <2>3, <2>5
  <2>7. g = h BY <1>2, <2>4, <2>6
  <2> QED BY <2>1, <2>2, <2>3, <2>7
<1>7. ASSUME NEW m, Hit(dir, m) = 0 PROVE Hit(new, m) = IF m = n THEN ino ELSE 0
  <2>1. \A s \in DOMAIN dir : dir[s].ino > 0 => dir[s].name # m
    <3>1. \A s \in DOMAIN dir : dir[s].ino > 0 => dir[s].ino # 0 BY DirFacts
    <3> QED BY <1>7, <3>1, HitIs
  <2>2. CASE m = n
    <3>1. PICK g \in DOMAIN new : Hit(new, m) = new[g].ino /\ new[g].ino > 0 /\ new[g].name = m
      BY <1>5, <2>2, HitIs
    <3>2. g = p BY <1>4, <2>1, <3>1
    <3> QED BY <1>5, <2>2, <3>1, <3>2
  <2>3. CASE m # n
    <3>1. \A s \in DOMAIN new : new[s].ino > 0 => new[s].name # m BY <1>4, <1>5, <2>1, <2>3
    <3> QED BY <2>3, <3>1, HitIs
  <2> QED BY <2>2, <2>3
<1>8. Len(new) <= Len(dir) + 1
  <2>1. Len(new) \in Nat /\ DOMAIN new = 1..Len(new) /\ Len(dir) \in Nat /\ DOMAIN dir = 1..Len(dir) BY DirFacts
  <2>2. p <= Len(dir) + 1 BY <1>1, <2>1, ReachedIs
  <2>3. CASE Len(new) = 0 BY <2>1, <2>3
  <2>4. CASE Len(new) # 0
    <3>1. Len(new) \in DOMAIN new BY <2>1, <2>4
    <3>2. Len(new) \in DOMAIN dir \/ Len(new) = p BY <1>1, <3>1
    <3>3. CASE Len(new) \in DOMAIN dir
      <4>1. Len(new) <= Len(dir) BY <2>1, <3>3
      <4> QED BY <2>1, <4>1
    <3>4. CASE Len(new) = p BY <2>2, <3>4
    <3> QED BY <3>2, <3>3, <3>4
  <2> QED BY <2>3, <2>4
<1> QED BY <1>1, <1>6, <1>7, <1>8

LEMMA ShortPaths ==
  ASSUME NEW d, NEW f, NEW lk, FsInv(d, f, lk), NEW m \in Names, NEW n \in Names
  PROVE  /\ <<m>> \in PathsOf /\ NameOf(<<m>>) = m /\ ParentBlk(d, <<m>>) = RootBlk
         /\ <<m, n>> \in PathsOf /\ NameOf(<<m, n>>) = n /\ ParentBlk(d, <<m, n>>) = Down(d, RootBlk, m)
<1>1. ASSUME NEW p \in PathsOf, Len(p) = 1 PROVE ParentBlk(d, p) = RootBlk
  <2>1. PICK w \in [1..Len(p) -> Places(d)] : IsWalk(d, p, w) /\ ParentBlk(d, p) = w[Len(p)] BY ParentIs
  <2> QED BY <1>1, <2>1 DEF IsWalk
<1>2. ASSUME NEW p \in PathsOf, Len(p) = 2 PROVE ParentBlk(d, p) = Down(d, RootBlk, p[1])
  <2>1. PICK w \in [1..Len(p) -> Places(d)] : IsWalk(d, p, w) /\ ParentBlk(d, p) = w[Len(p)] BY ParentIs
  <2>2. 2 \in 2..Len(p) BY <1>2
  <2>3. w[1] = RootBlk /\ w[2] = Down(d, w[2 - 1], p[2 - 1]) BY <2>1, <2>2 DEF IsWalk
  <2>4. w[2] = Down(d, w[1], p[1]) BY <2>3
  <2> QED BY <1>2, <2>1, <2>3, <2>4
<1>3. <<m>> \in PathsOf /\ Len(<<m>>) = 1 /\ NameOf(<<m>>) = m BY DEF PathsOf, NameOf
<1>4. <<m, n>> \in PathsOf /\ Len(<<m, n>>) = 2 /\ NameOf(<<m, n>>) = n /\ <<m, n>>[1] = m BY DEF PathsOf, NameOf
<1>5. ParentBlk(d, <<m>>) = RootBlk BY <1>1, <1>3
<1>6. ParentBlk(d, <<m, n>>) = Down(d, RootBlk, m) BY <1>2, <1>4
<1> QED BY <1>3, <1>4, <1>5, <1>6

\* A disk while the first n inodes are made.
Made(d, f, n) ==
  /\ FsInv(d, f, FALSE) /\ NamesOnce(d) /\ d.newBuf = <<>>
  /\ Len(d.inodes) = n /\ Cardinality(FreeBlks(d)) + n >= 5
  /\ \A b \in Blks : ~d.occupied[b] => d.dirs[b] = <<>>
  /\ \A i \in Inos(d) : d.inodes[i].size = 0

\* What it says after a step: m is the name of inode n + 1, in block up.
Says(d, d2, up, m, n) ==
  /\ Hit(d2.dirs[up], m) = n + 1 /\ Len(d2.dirs[up]) <= Len(d.dirs[up]) + 1
  /\ \A x : x # m => Hit(d2.dirs[up], x) = Hit(d.dirs[up], x)
  /\ \A b \in Blks : b # up => Len(d2.dirs[b]) <= Len(d.dirs[b]) /\ \A x : Hit(d2.dirs[b], x) = Hit(d.dirs[b], x)

LEMMA MakeOne ==
  ASSUME NEW d, NEW f, NEW n \in 1..4, Made(d, f, n), \A i \in Nat \ {0} : OpensOf(f, i) = {},
         NEW path \in PathsOf, NEW type \in Types, MayCreate(d, path),
         NEW up, Is(up, ParentBlk(d, path)), Len(d.dirs[up]) <= 1,
         NEW d2, Is(d2, Created(d, path, type, 0))
  PROVE  /\ Made(d2, f, n + 1) /\ Says(d, d2, up, NameOf(path), n)
         /\ \A i \in 1..n : d2.inodes[i] = d.inodes[i]
         /\ \E B \in Blks : /\ d2.inodes[n + 1].type = type /\ d2.inodes[n + 1].blk = B
                            /\ B # up /\ B # RootBlk /\ d2.dirs[B] = <<>>
<1>a. d2 = Created(d, path, type, 0) BY DEF Is
<1>b. FsInv(d, f, FALSE) /\ DiskTyped(d) /\ NamesOnce(d) /\ d.newBuf = <<>> /\ Len(d.inodes) = n BY DEF Made, FsInv
<1>u. up = ParentBlk(d, path) BY DEF Is
<1>1. up # 0 /\ up \in Blks /\ IsDirBlk(d, up) /\ Hit(d.dirs[up], NameOf(path)) = 0
  BY <1>b, <1>u, FindIs DEF MayCreate
<1>2. ~Full(d.dirs[up])
  <2>1. d.dirs[up] \in Dirs BY <1>1, <1>b, InodeFacts
  <2>2. Reached(d.dirs[up]) \in 0..Len(d.dirs[up]) /\ Len(d.dirs[up]) \in Nat BY <2>1, ReachedIs, DirFacts
  <2>3. DirSlots >= 2 /\ DirSlots \in Nat BY RoomAssumption, SizesAssumption
  <2> QED BY <2>2, <2>3 DEF Full
<1>3. ~CannotCreate(d)
  <2>1. FreeBlks(d) \subseteq Blks /\ IsFiniteSet(FreeBlks(d))
    <3>1. FreeBlks(d) \subseteq Blks BY DEF FreeBlks
    <3>2. IsFiniteSet(Blks) BY BlksAssumption
    <3> QED BY <3>1, <3>2, FS_Subset
  <2>2. Cardinality(FreeBlks(d)) \in Nat /\ Cardinality(FreeBlks(d)) + n >= 5 BY <2>1, FS_CardinalityType DEF Made
  <2>3. Cardinality({}) = 0 BY FS_EmptySet
  <2>4. FreeBlks(d) # {}
    <3>1. SUFFICES ASSUME FreeBlks(d) = {} PROVE FALSE OBVIOUS
    <3>2. Cardinality(FreeBlks(d)) = 0 BY <2>3, <3>1, Zenon
    <3> QED BY <2>2, <3>2
  <2>5. ~(n + 1 > MaxInodes)
    <3>1. MaxInodes >= 5 /\ MaxInodes \in Nat BY RoomAssumption, SizesAssumption
    <3> QED BY <3>1
  <2> QED BY <1>b, <2>4, <2>5 DEF CannotCreate
<1>4. PICK B : B = Min(FreeBlks(d)) OBVIOUS
<1>c. PICK lk, ref, k : lk = FALSE /\ ref = 0 /\ k = n + 1 OBVIOUS
<1>n. ~NamesLeft(d.newBuf)
  <2>1. d.newBuf = <<>> BY <1>b
  <2>2. ~NamesLeft(<<>>) BY DEF NamesLeft
  <2> QED BY <2>1, <2>2
<1>5. Creates(d, f, lk, path, type, ref, d2, k, B)
  BY <1>a, <1>b, <1>c, <1>n, <1>u, <1>2, <1>3, <1>4 DEF Creates
<1>6. /\ DiskTyped(d2) /\ n + 1 \in Nat \ {0, Root} /\ n + 1 \notin Inos(d) /\ Inos(d2) = Inos(d) \cup {n + 1}
      /\ \A i \in Inos(d) : d2.inodes[i] = d.inodes[i]
      /\ d2.inodes[n + 1] = Inode(type, 0, 1, B)
      /\ B \in Blks /\ ~d.occupied[B] /\ d2.occupied[B]
      /\ \A b \in Blks : b # B => d2.occupied[b] = d.occupied[b]
  <2>1. /\ DiskTyped(d2) /\ k \in Nat \ {0, Root} /\ k \notin Inos(d) /\ Inos(d2) = Inos(d) \cup {k}
        /\ \A i \in Inos(d) : d2.inodes[i] = d.inodes[i]
        /\ d2.inodes[k] = Inode(type, ref, 1, B)
        /\ B \in Blks /\ ~d.occupied[B] /\ d2.occupied[B]
        /\ \A b \in Blks : b # B => d2.occupied[b] = d.occupied[b]
    <3> QED BY <1>5, CreatedIs
  <2> QED BY <2>1, <1>c
<1>7. /\ d2.dirs[up] = EntryAdded(d.dirs[up], n + 1, NameOf(path))
      /\ \A b \in Blks : b # up => SaysTheSame(d.dirs[b], d2.dirs[b])
      /\ d2.newBuf = <<>> /\ \A b \in Blks : b # up => d2.dirs[b] \in {d.dirs[b], <<>>}
  <2>1. up = ParentBlk(d, path) BY <1>u
  <2>2. d2.dirs[ParentBlk(d, path)] = EntryAdded(d.dirs[ParentBlk(d, path)], k, NameOf(path)) BY <1>5, CreatedIs
  <2>3. \A b \in Blks : b # ParentBlk(d, path) => SaysTheSame(d.dirs[b], d2.dirs[b]) BY <1>5, CreatedIs
  <2>4. d2.newBuf = <<>> BY <1>5, <1>b, CreatedIs
  <2>5. \A b \in Blks : b # ParentBlk(d, path) => d2.dirs[b] \in {d.dirs[b], <<>>} BY <1>5, <1>b, CreatedIs
  <2> QED BY <1>c, <2>1, <2>2, <2>3, <2>4, <2>5
<1>8. FsInv(d2, f, FALSE)
  <2>1. FilesTyped(f) BY <1>b DEF FsInv
  <2>2. OpensOf(f, k) = {} BY <1>6, <1>c
  <2>3. ref = 0 /\ lk \in BOOLEAN /\ (type = "dir" => ref = 0) BY <1>c
  <2>4. FsInv(d2, f, lk) BY <1>5, <2>1, <2>2, <2>3, CreatedInv
  <2> QED BY <1>c, <2>4
<1>9. d.dirs \in [Blks -> Dirs] /\ d2.dirs \in [Blks -> Dirs] BY <1>b, <1>6, DiskIs
<1>10. NamesOnce(d2)
  <2>1. \A i \in Inos(d) : d2.inodes[i].type = d.inodes[i].type BY <1>6
  <2>2. NameOf(path) \in Names BY PathFacts
  <2>3. n + 1 \in Nat \ {0} BY <1>6
  <2>4. k \in Nat \ {0} BY <1>c, <2>3
  <2>5. d2.dirs[up] = EntryAdded(d.dirs[up], k, NameOf(path)) BY <1>7, <1>c
  <2>6. \A b \in Blks : b # up => SaysTheSame(d.dirs[b], d2.dirs[b]) BY <1>7
  <2> QED BY <1>b, <1>1, <1>2, <1>9, <2>1, <2>2, <2>4, <2>5, <2>6, NamesOnceAdded, ZenonT(40)
<1>11. Says(d, d2, up, NameOf(path), n)
  <2>1. NameOf(path) \in Names BY PathFacts
  <2>2. d.dirs[up] \in Dirs /\ n + 1 \in Nat \ {0} BY <1>1, <1>6, <1>9
  <2>3. /\ \A m : m # NameOf(path) => Hit(d2.dirs[up], m) = Hit(d.dirs[up], m)
        /\ Hit(d2.dirs[up], NameOf(path)) = n + 1
        /\ Len(d2.dirs[up]) <= Len(d.dirs[up]) + 1
    BY <1>1, <1>2, <1>7, <2>1, <2>2, HitAdded
  <2>4. ASSUME NEW b \in Blks, b # up
        PROVE  Len(d2.dirs[b]) <= Len(d.dirs[b]) /\ \A x : Hit(d2.dirs[b], x) = Hit(d.dirs[b], x)
    <3>1. d.dirs[b] \in Dirs /\ d2.dirs[b] \in Dirs BY <1>9
    <3>2. \A x : Hit(d2.dirs[b], x) = Hit(d.dirs[b], x) BY <1>7, <2>4, <3>1, HitSame
    <3>3. Len(d.dirs[b]) \in Nat /\ Len(<<>>) = 0 BY <3>1, DirFacts
    <3>4. d2.dirs[b] = d.dirs[b] \/ d2.dirs[b] = <<>> BY <1>7, <2>4
    <3>5. Len(d2.dirs[b]) <= Len(d.dirs[b]) BY <3>3, <3>4
    <3> QED BY <3>2, <3>5
  <2> QED BY <2>3, <2>4 DEF Says
<1>12. Len(d2.inodes) = n + 1
  <2>1. Inos(d2) = 1..Len(d2.inodes) /\ Inos(d) = 1..n /\ Len(d2.inodes) \in Nat BY <1>6, <1>b, InodeFacts DEF Inos
  <2>2. 1..Len(d2.inodes) = 1..n \cup {n + 1} BY <1>6, <2>1
  <2>3. n + 1 \in 1..Len(d2.inodes) BY <2>2
  <2>4. Len(d2.inodes) \in 1..Len(d2.inodes) BY <2>1, <2>3
  <2>5. Len(d2.inodes) \in 1..n \/ Len(d2.inodes) = n + 1 BY <2>2, <2>4
  <2> QED BY <2>1, <2>3, <2>5
<1>13. Cardinality(FreeBlks(d2)) + (n + 1) >= 5
  <2>1. FreeBlks(d2) = FreeBlks(d) \ {B} BY <1>6 DEF FreeBlks
  <2>2. B \in FreeBlks(d) BY <1>6 DEF FreeBlks
  <2>3. IsFiniteSet(FreeBlks(d))
    <3>1. FreeBlks(d) \subseteq Blks BY DEF FreeBlks
    <3>2. IsFiniteSet(Blks) BY BlksAssumption
    <3> QED BY <3>1, <3>2, FS_Subset
  <2>4. Cardinality(FreeBlks(d)) \in Nat \ {0} /\ Cardinality(FreeBlks(d2)) = Cardinality(FreeBlks(d)) - 1
    BY <2>1, <2>2, <2>3, OneLess
  <2>5. Cardinality(FreeBlks(d)) + n >= 5 BY DEF Made
  <2> QED BY <2>4, <2>5
<1>14. B # up /\ B # RootBlk
  <2>1. PICK j \in Inos(d) : DirIn(d, j, up) BY <1>1 DEF IsDirBlk
  <2>2. Root \in Inos(d) BY <1>b, InodeFacts
  <2>3. d.inodes[Root].blk = RootBlk BY <1>b DEF DiskTyped
  <2>4. Alive(d, f, Root) /\ Alive(d, f, j) /\ d.inodes[j].blk = up BY <2>1 DEF Alive, DirIn
  <2>5. OwnBlocks(d, f) BY <1>b DEF FsInv
  <2>6. d.occupied[up] /\ d.occupied[RootBlk] BY <2>1, <2>2, <2>3, <2>4, <2>5 DEF OwnBlocks
  <2> QED BY <1>6, <2>6
<1>15. \A b \in Blks : ~d2.occupied[b] => d2.dirs[b] = <<>>
  <2> TAKE b \in Blks
  <2> HAVE ~d2.occupied[b]
  <2>1. b # B /\ ~d.occupied[b] BY <1>6
  <2>2. d.dirs[b] = <<>> BY <2>1 DEF Made
  <2>3. b # up
    <3>1. PICK j \in Inos(d) : DirIn(d, j, up) BY <1>1 DEF IsDirBlk
    <3>2. Alive(d, f, j) /\ d.inodes[j].blk = up BY <3>1 DEF Alive, DirIn
    <3>3. OwnBlocks(d, f) BY <1>b DEF FsInv
    <3> QED BY <2>1, <3>2, <3>3 DEF OwnBlocks
  <2> QED BY <1>7, <2>2, <2>3
<1>16. d2.dirs[B] = <<>>
  <2>1. d.dirs[B] = <<>> BY <1>6 DEF Made
  <2> QED BY <1>6, <1>7, <1>14, <2>1
<1>17. d2.inodes[n + 1].type = type /\ d2.inodes[n + 1].blk = B /\ d2.inodes[n + 1].size = 0 BY <1>6 DEF Inode
<1>18. \A i \in Inos(d2) : d2.inodes[i].size = 0
  <2>1. \A i \in Inos(d) : d.inodes[i].size = 0 BY DEF Made
  <2> QED BY <1>6, <1>17, <2>1
<1>19. Made(d2, f, n + 1) BY <1>7, <1>8, <1>10, <1>12, <1>13, <1>15, <1>18 DEF Made
<1>20. \A i \in 1..n : d2.inodes[i] = d.inodes[i] BY <1>6, <1>b DEF Inos
<1> QED BY <1>6, <1>11, <1>14, <1>16, <1>17, <1>19, <1>20

\* The disk that fs_init leaves.
LEMMA FreshInv ==
  ASSUME NEW f, FilesTyped(f), \A i \in Nat \ {0} : OpensOf(f, i) = {}
  PROVE  Made(FreshDisk, f, 1) /\ \A b \in Blks : FreshDisk.dirs[b] = <<>>
<1> DEFINE d == FreshDisk
<1>1. /\ d.inodes = <<Inode("dir", 0, 0, RootBlk)>> /\ d.occupied = [b \in Blks |-> b = RootBlk]
      /\ d.dirs = [b \in Blks |-> <<>>] /\ d.newBuf = <<>>
      /\ d = [inodes |-> d.inodes, occupied |-> d.occupied, dirs |-> d.dirs, newBuf |-> d.newBuf]
  BY DEF FreshDisk
<1> HIDE DEF d
<1>2. RootBlk \in Blks /\ RootBlk = 1 /\ Root = 1 /\ IsFiniteSet(Blks) BY BlksAssumption DEF RootBlk, Root
<1>3. Inode("dir", 0, 0, RootBlk) \in InodeRec
  BY <1>2 DEF Inode, InodeRec, Types
<1>4. Len(d.inodes) = 1 /\ d.inodes \in Seq(InodeRec) /\ d.inodes[Root] = Inode("dir", 0, 0, RootBlk)
  BY <1>1, <1>2, <1>3
<1>5. d.inodes[Root].type = "dir" /\ d.inodes[Root].blk = RootBlk /\ d.inodes[Root].size = 0
  BY <1>4 DEF Inode
<1>6. d.dirs \in [Blks -> Dirs] /\ d.occupied \in [Blks -> BOOLEAN] /\ d.newBuf \in Dirs
  <2>1. d.dirs \in [Blks -> Dirs] BY <1>1, EmptyDir
  <2>2. d.occupied \in [Blks -> BOOLEAN] BY <1>1
  <2>3. d.newBuf \in Dirs BY <1>1, EmptyDir
  <2> QED BY <2>1, <2>2, <2>3
<1>7. DiskTyped(d)
  <2>1. d \in [inodes : Seq(InodeRec), occupied : [Blks -> BOOLEAN], dirs : [Blks -> Dirs], newBuf : Dirs]
    BY <1>1, <1>4, <1>6
  <2>2. Len(d.inodes) \in 1..MaxInodes BY <1>4, SizesAssumption
  <2> QED BY <1>5, <2>1, <2>2 DEF DiskTyped
<1>8. \A b \in Blks : d.dirs[b] = <<>> /\ DOMAIN d.dirs[b] = {} BY <1>1
<1>9. \A i : LinksTo(d.dirs, i) = {} BY <1>8 DEF LinksTo
<1>10. Inos(d) = {Root} BY <1>2, <1>4 DEF Inos
<1>11. Homes(d, f) BY <1>9 DEF Homes
<1>12. OwnBlocks(d, f)
  <2>1. d.occupied[RootBlk] BY <1>1, <1>2
  <2> QED BY <1>2, <1>5, <1>10, <2>1 DEF OwnBlocks
<1>13. Counted(d, f, FALSE) BY <1>10 DEF Counted
<1>14. GivenBack(d, f, FALSE)
  <2>1. \A b \in Blks : d.occupied[b] => b = RootBlk BY <1>1
  <2>2. Alive(d, f, Root) BY DEF Alive
  <2> QED BY <1>5, <1>10, <2>1, <2>2 DEF GivenBack
<1>15. FsInv(d, f, FALSE) BY <1>7, <1>11, <1>12, <1>13, <1>14 DEF FsInv
<1>16. NamesOnce(d) BY <1>8 DEF NamesOnce
<1>17. Cardinality(FreeBlks(d)) + 1 >= 5
  <2>1. FreeBlks(d) = Blks \ {RootBlk} BY <1>1 DEF FreeBlks
  <2>2. Cardinality(Blks) \in Nat \ {0} /\ Cardinality(Blks \ {RootBlk}) = Cardinality(Blks) - 1 BY <1>2, OneLess
  <2>3. Cardinality(Blks) >= 5 BY RoomAssumption
  <2> QED BY <2>1, <2>2, <2>3
<1>18. \A i \in Inos(d) : d.inodes[i].size = 0 BY <1>5, <1>10
<1>19. Made(d, f, 1) BY <1>1, <1>4, <1>8, <1>15, <1>16, <1>17, <1>18 DEF Made
<1> QED BY <1>8, <1>19 DEF d

LEMMA MayMake ==
  ASSUME NEW d, NEW f, NEW n, Made(d, f, n), NEW path \in PathsOf, NEW up, up = ParentBlk(d, path), up # 0,
         Hit(d.dirs[up], NameOf(path)) = 0
  PROVE  MayCreate(d, path)
<1>1. FsInv(d, f, FALSE) BY DEF Made
<1> QED BY <1>1, FindIs DEF MayCreate

\* vfs_init: the directories of the devices and of the process files, and one file in each.
LEMMA InitDiskInv ==
  ASSUME NEW f, FilesTyped(f), \A i \in Nat \ {0} : OpensOf(f, i) = {}
  PROVE  Made(InitDisk, f, 5)
<1>n. "dev" \in Names /\ "tty" \in Names /\ "proc" \in Names /\ "mem" \in Names BY DEF Names
<1>y. "dir" \in Types /\ "file" \in Types BY DEF Types
<1>r. RootBlk \in Blks /\ RootBlk # 0 BY BlksAssumption DEF RootBlk
<1>1. PICK d1 : d1 = FreshDisk OBVIOUS
<1>2. PICK d2 : d2 = Created(d1, <<"dev">>, "dir", 0) OBVIOUS
<1>3. PICK d3 : d3 = Created(d2, <<"dev", "tty">>, "file", 0) OBVIOUS
<1>4. PICK d4 : d4 = Created(d3, <<"proc">>, "dir", 0) OBVIOUS
<1>5. PICK d5 : d5 = Created(d4, <<"proc", "mem">>, "file", 0) OBVIOUS
<1>6. InitDisk = d5 BY <1>1, <1>2, <1>3, <1>4, <1>5 DEF InitDisk
<1>s. \A dir \in Dirs : Len(dir) \in Nat BY DirFacts
<1>e. <<>> \in Dirs /\ Len(<<>>) = 0 /\ \A x : Hit(<<>>, x) = 0
  <2>1. <<>> \in Dirs BY EmptyDir
  <2>2. \A s \in DOMAIN <<>> : <<>>[s].ino <= 0 OBVIOUS
  <2>3. ASSUME NEW x PROVE Hit(<<>>, x) = 0
    <3>1. ~(\E h \in DOMAIN <<>> : TRUE) OBVIOUS
    <3> QED BY <2>1, <3>1, HitIs
  <2> QED BY <2>1, <2>3
\* /dev
<1>10. Made(d1, f, 1) /\ \A b \in Blks : d1.dirs[b] = <<>> BY <1>1, FreshInv
<1>11. <<"dev">> \in PathsOf /\ NameOf(<<"dev">>) = "dev" /\ ParentBlk(d1, <<"dev">>) = RootBlk
  <2>1. FsInv(d1, f, FALSE) BY <1>10 DEF Made
  <2> QED BY <1>n, <2>1, ShortPaths
<1>12. Hit(d1.dirs[RootBlk], "dev") = 0 /\ Hit(d1.dirs[RootBlk], "proc") = 0 /\ Len(d1.dirs[RootBlk]) = 0
  BY <1>e, <1>r, <1>10
<1>13. MayCreate(d1, <<"dev">>) BY <1>r, <1>10, <1>11, <1>12, MayMake
<1>14. /\ Made(d2, f, 2) /\ Says(d1, d2, RootBlk, "dev", 1)
       /\ \E B \in Blks : d2.inodes[2].type = "dir" /\ d2.inodes[2].blk = B /\ B # RootBlk /\ d2.dirs[B] = <<>>
  <2>1. PICK n \in 1..4 : n = 1 OBVIOUS
  <2>2. Made(d1, f, n) /\ Len(d1.dirs[RootBlk]) <= 1
        /\ Is(RootBlk, ParentBlk(d1, <<"dev">>)) /\ Is(d2, Created(d1, <<"dev">>, "dir", 0))
    BY <1>2, <1>11, <1>10, <1>12, <2>1 DEF Is
  <2>3. /\ Made(d2, f, n + 1) /\ Says(d1, d2, RootBlk, NameOf(<<"dev">>), n)
        /\ \E B \in Blks : d2.inodes[n + 1].type = "dir" /\ d2.inodes[n + 1].blk = B /\ B # RootBlk /\ d2.dirs[B] = <<>>
    BY <1>2, <1>y, <1>11, <1>13, <2>2, MakeOne
  <2>4. n + 1 = 2 BY <2>1
  <2> QED BY <1>11, <2>1, <2>3, <2>4
<1>15. PICK B \in Blks : d2.inodes[2].type = "dir" /\ d2.inodes[2].blk = B /\ B # RootBlk /\ d2.dirs[B] = <<>> BY <1>14
<1>16. Hit(d2.dirs[RootBlk], "dev") = 2 /\ Hit(d2.dirs[RootBlk], "proc") = 0 /\ Len(d2.dirs[RootBlk]) <= 1
  <2>1. /\ Hit(d2.dirs[RootBlk], "dev") = 1 + 1 /\ Len(d2.dirs[RootBlk]) <= Len(d1.dirs[RootBlk]) + 1
        /\ \A x : x # "dev" => Hit(d2.dirs[RootBlk], x) = Hit(d1.dirs[RootBlk], x)
    BY <1>14 DEF Says
  <2> QED BY <1>12, <2>1
\* /dev/tty
<1>21. <<"dev", "tty">> \in PathsOf /\ NameOf(<<"dev", "tty">>) = "tty" /\ ParentBlk(d2, <<"dev", "tty">>) = B
  <2>1. FsInv(d2, f, FALSE) BY <1>14 DEF Made
  <2>2. Down(d2, RootBlk, "dev") = B BY <1>r, <1>15, <1>16 DEF Down
  <2> QED BY <1>n, <2>1, <2>2, ShortPaths
<1>b. B # 0 BY <1>15, BlksAssumption
<1>22. Hit(d2.dirs[B], "tty") = 0 /\ Len(d2.dirs[B]) <= 1 BY <1>15, <1>e
<1>23. MayCreate(d2, <<"dev", "tty">>) BY <1>b, <1>14, <1>21, <1>22, MayMake
<1>24. Made(d3, f, 3) /\ Says(d2, d3, B, "tty", 2)
  <2>1. PICK n \in 1..4 : n = 2 OBVIOUS
  <2>2. Made(d2, f, n) /\ Len(d2.dirs[B]) <= 1
        /\ Is(B, ParentBlk(d2, <<"dev", "tty">>)) /\ Is(d3, Created(d2, <<"dev", "tty">>, "file", 0))
    BY <1>3, <1>21, <1>14, <1>22, <2>1 DEF Is
  <2>3. Made(d3, f, n + 1) /\ Says(d2, d3, B, NameOf(<<"dev", "tty">>), n)
    BY <1>3, <1>y, <1>21, <1>23, <2>2, MakeOne
  <2>4. n + 1 = 3 BY <2>1
  <2> QED BY <1>21, <2>1, <2>3, <2>4
<1>26. Hit(d3.dirs[RootBlk], "proc") = 0 /\ Len(d3.dirs[RootBlk]) <= 1
  <2>1. /\ Len(d3.dirs[RootBlk]) <= Len(d2.dirs[RootBlk])
        /\ \A x : Hit(d3.dirs[RootBlk], x) = Hit(d2.dirs[RootBlk], x)
    BY <1>r, <1>15, <1>24 DEF Says
  <2>2. d2.dirs \in [Blks -> Dirs] /\ d3.dirs \in [Blks -> Dirs] BY <1>14, <1>24, InodeFacts DEF Made, FsInv
  <2>3. Len(d2.dirs[RootBlk]) \in Nat /\ Len(d3.dirs[RootBlk]) \in Nat BY <1>r, <1>s, <2>2
  <2> QED BY <1>16, <2>1, <2>3
\* /proc
<1>31. <<"proc">> \in PathsOf /\ NameOf(<<"proc">>) = "proc" /\ ParentBlk(d3, <<"proc">>) = RootBlk
  <2>1. FsInv(d3, f, FALSE) BY <1>24 DEF Made
  <2> QED BY <1>n, <2>1, ShortPaths
<1>33. MayCreate(d3, <<"proc">>) BY <1>r, <1>24, <1>26, <1>31, MayMake
<1>34. /\ Made(d4, f, 4) /\ Says(d3, d4, RootBlk, "proc", 3)
       /\ \E C \in Blks : d4.inodes[4].type = "dir" /\ d4.inodes[4].blk = C /\ d4.dirs[C] = <<>>
  <2>1. PICK n \in 1..4 : n = 3 OBVIOUS
  <2>2. Made(d3, f, n) /\ Len(d3.dirs[RootBlk]) <= 1
        /\ Is(RootBlk, ParentBlk(d3, <<"proc">>)) /\ Is(d4, Created(d3, <<"proc">>, "dir", 0))
    BY <1>4, <1>31, <1>24, <1>26, <2>1 DEF Is
  <2>3. /\ Made(d4, f, n + 1) /\ Says(d3, d4, RootBlk, NameOf(<<"proc">>), n)
        /\ \E C \in Blks : d4.inodes[n + 1].type = "dir" /\ d4.inodes[n + 1].blk = C /\ d4.dirs[C] = <<>>
    BY <1>4, <1>y, <1>31, <1>33, <2>2, MakeOne
  <2>4. n + 1 = 4 BY <2>1
  <2> QED BY <1>31, <2>1, <2>3, <2>4
<1>35. PICK C \in Blks : d4.inodes[4].type = "dir" /\ d4.inodes[4].blk = C /\ d4.dirs[C] = <<>> BY <1>34
<1>36. Hit(d4.dirs[RootBlk], "proc") = 4
  <2>1. Hit(d4.dirs[RootBlk], "proc") = 3 + 1 BY <1>34 DEF Says
  <2> QED BY <2>1
\* /proc/mem
<1>41. <<"proc", "mem">> \in PathsOf /\ NameOf(<<"proc", "mem">>) = "mem" /\ ParentBlk(d4, <<"proc", "mem">>) = C
  <2>1. FsInv(d4, f, FALSE) BY <1>34 DEF Made
  <2>2. Down(d4, RootBlk, "proc") = C BY <1>r, <1>35, <1>36 DEF Down
  <2> QED BY <1>n, <2>1, <2>2, ShortPaths
<1>c. C # 0 BY <1>35, BlksAssumption
<1>42. Hit(d4.dirs[C], "mem") = 0 /\ Len(d4.dirs[C]) <= 1 BY <1>35, <1>e
<1>43. MayCreate(d4, <<"proc", "mem">>) BY <1>c, <1>34, <1>41, <1>42, MayMake
<1>44. Made(d5, f, 5)
  <2>1. PICK n \in 1..4 : n = 4 OBVIOUS
  <2>2. Made(d4, f, n) /\ Len(d4.dirs[C]) <= 1
        /\ Is(C, ParentBlk(d4, <<"proc", "mem">>)) /\ Is(d5, Created(d4, <<"proc", "mem">>, "file", 0))
    BY <1>5, <1>41, <1>34, <1>42, <2>1 DEF Is
  <2>3. Made(d5, f, n + 1) BY <1>5, <1>y, <1>41, <1>43, <2>2, MakeOne
  <2>4. n + 1 = 5 BY <2>1
  <2> QED BY <2>3, <2>4
<1> QED BY <1>6, <1>44

-----------------------------------------------------------------------------
(* What the calls keep.                                                     *)

LEMMA SizesAre ==
  /\ HdrSz \in Nat /\ BlkSz \in Nat /\ HdrSz < BlkSz /\ Word \in Nat /\ 2 * BlkSz < Word /\ Word # 0
  /\ NrFile \in Nat /\ Fds \subseteq Nat \ {0} /\ Fds \subseteq 0..NrFile
<1>1. HdrSz \in Nat /\ BlkSz \in Nat /\ HdrSz < BlkSz /\ Word \in Nat /\ 2 * BlkSz < Word /\ NrFile \in Nat
  BY VfsSizesAssumption
<1> QED BY <1>1 DEF Fds

\* Where a descriptor stands: in the data, or less than a header before it.
LEMMA BlockIs ==
  /\ \A off \in Nat : off + HdrSz <= BlkSz => InBlock(off)
  /\ \A off : InBlock(off) => off \in Nat /\ (off + HdrSz <= BlkSz \/ Word <= off + HdrSz)
  /\ \A off : InBlock(off) => off \in 0..(Word - 1)
<1>1. HdrSz \in Nat /\ BlkSz \in Nat /\ HdrSz < BlkSz /\ Word \in Nat \ {0} /\ 2 * BlkSz < Word BY SizesAre
<1>2. ASSUME NEW off \in Nat, off + HdrSz <= BlkSz PROVE InBlock(off)
  <2>1. off \in 0..(Word - 1) /\ off + HdrSz \in 0..(Word - 1) BY <1>1, <1>2
  <2>2. (off + HdrSz) % Word = off + HdrSz BY <1>1, <2>1, ModSmall
  <2> QED BY <1>2, <2>1, <2>2 DEF InBlock
<1>3. ASSUME NEW off, InBlock(off)
      PROVE  off \in 0..(Word - 1) /\ off \in Nat /\ (off + HdrSz <= BlkSz \/ Word <= off + HdrSz)
  <2>1. off \in 0..(Word - 1) /\ (off + HdrSz) % Word <= BlkSz BY <1>3 DEF InBlock
  <2>2. off \in Nat BY <1>1, <2>1
  <2>3. ASSUME ~(Word <= off + HdrSz) PROVE off + HdrSz <= BlkSz
    <3>1. off + HdrSz \in 0..(Word - 1) BY <1>1, <2>2, <2>3
    <3>2. (off + HdrSz) % Word = off + HdrSz BY <1>1, <3>1, ModSmall
    <3> QED BY <2>1, <3>2
  <2> QED BY <2>1, <2>2, <2>3
<1> QED BY <1>2, <1>3

\* The start of a file is in its block.
LEMMA ZeroInBlock == InBlock(0)
<1>1. 0 \in Nat /\ 0 + HdrSz <= BlkSz BY SizesAre
<1> QED BY <1>1, BlockIs

LEMMA InitInv == Init => UnlessStrayed
<1> SUFFICES ASSUME Init PROVE UnlessStrayed OBVIOUS
<1>1. fildes = [t \in Tasks |-> [fd \in Fds |-> IF fd <= 2 THEN DevFile ELSE NoFile]] BY DEF Init, VfsInit
<1>2. DevFile \in FileRec /\ NoFile \in FileRec /\ DevFile.ino = 0 /\ NoFile.ino = 0 /\ DevFile.offset = 0 /\ NoFile.offset = 0
      /\ DevFile.fs # "blkfs" /\ NoFile.fs # "blkfs"
  BY DEF DevFile, NoFile, FileRec
<1>3. \A t \in Tasks, fd \in Fds : fildes[t][fd] \in {DevFile, NoFile} BY <1>1
<1>4. FilesTyped(fildes)
  <2>1. fildes \in [Tasks -> [Fds -> FileRec]] BY <1>1, <1>2
  <2>2. \A t \in Tasks, fd \in Fds : fildes[t][fd].fs = "blkfs" <=> fildes[t][fd].ino # 0 BY <1>2, <1>3
  <2> QED BY <2>1, <2>2 DEF FilesTyped, FileRec
<1>5. \A i \in Nat \ {0} : OpensOf(fildes, i) = {}
  <2>1. \A t \in Tasks, fd \in Fds : fildes[t][fd].ino = 0 BY <1>2, <1>3
  <2> QED BY <2>1, OpenIs
<1>6. Made(disk, fildes, 5)
  <2>1. disk = InitDisk BY DEF Init, VfsInit
  <2>2. Made(InitDisk, fildes, 5) BY <1>4, <1>5, InitDiskInv
  <2> QED BY <2>1, <2>2
<1>7. SizesWithin(disk)
  <2>1. \A i \in Inos(disk) : disk.inodes[i].size = 0 BY <1>6 DEF Made
  <2> QED BY <2>1, SizesAre DEF SizesWithin
<1>8. OffsetsWithin(fildes)
  <2>1. \A t \in Tasks, fd \in Fds : fildes[t][fd].offset = 0 BY <1>2, <1>3
  <2> QED BY <2>1, ZeroInBlock DEF OffsetsWithin
<1>9. leak = FALSE /\ running = TRUE /\ strayed = FALSE BY DEF Init, VfsInit
<1>10. VfsInv BY <1>6, <1>7, <1>8, <1>9 DEF VfsInv, Sound, Made
<1>11. TodoTyped
  <2>1. todo = [t \in Tasks |-> Prompt] BY DEF Init
  <2> QED BY <2>1, SizesAre DEF TodoTyped, Prompt
<1> QED BY <1>9, <1>10, <1>11 DEF ShellInv, UnlessStrayed

\* The free descriptor that a call takes.
LEMMA FreeFdIs ==
  ASSUME NEW t, FreeFds(t) # {}
  PROVE  FirstFree(t) \in Fds /\ fildes[t][FirstFree(t)] = NoFile
<1>1. FreeFds(t) \in SUBSET Nat BY SizesAre DEF FreeFds
<1>2. FirstFree(t) = Min(FreeFds(t)) BY DEF FirstFree
<1>3. FirstFree(t) \in FreeFds(t) BY <1>1, <1>2, MinIs
<1> QED BY <1>3 DEF FreeFds

LEMMA OpenedIs ==
  ASSUME FilesTyped(fildes), OffsetsWithin(fildes), NEW t \in Tasks, NEW fs \in {"blkfs", "devfs"}, NEW k \in Nat,
         fs = "blkfs" <=> k # 0, Opened(t, fs, k)
  PROVE  /\ FilesTyped(fildes') /\ OffsetsWithin(fildes')
         /\ \A i \in Nat \ {0} : i # k => OpensOf(fildes', i) = OpensOf(fildes, i)
         /\ k # 0 => \/ FreeFds(t) = {} /\ OpensOf(fildes', k) = OpensOf(fildes, k)
                     \/ \E e : e \notin OpensOf(fildes, k) /\ OpensOf(fildes', k) = OpensOf(fildes, k) \cup {e}
<1>1. CASE FreeFds(t) = {}
  <2>1. fildes' = fildes BY <1>1 DEF Opened
  <2> QED BY <1>1, <2>1
<1>2. CASE FreeFds(t) # {}
  <2>1. PICK fd \in Fds : fd = FirstFree(t) /\ fildes[t][fd] = NoFile BY <1>2, FreeFdIs
  <2>2. PICK x \in FileRec : x = [fs |-> fs, ino |-> k, offset |-> 0] BY DEF FileRec
  <2>3. x.fs = fs /\ x.ino = k /\ x.offset = 0 BY <2>2
  <2>4. Is(fildes', Put(fildes, t, fd, x)) BY <1>2, <2>1, <2>2 DEF Opened, Put, Is
  <2>5. /\ FilesTyped(fildes') /\ fildes'[t][fd] = x
        /\ \A u \in Tasks, v \in Fds : <<u, v>> # <<t, fd>> => fildes'[u][v] = fildes[u][v]
    BY <2>3, <2>4, FileSet
  <2>6. OffsetsWithin(fildes')
    <3>1. \A u \in Tasks, v \in Fds : fildes'[u][v] = x \/ fildes'[u][v] = fildes[u][v]
      <4> TAKE u \in Tasks, v \in Fds
      <4>1. CASE <<u, v>> = <<t, fd>> BY <2>5, <4>1
      <4>2. CASE <<u, v>> # <<t, fd>> BY <2>5, <4>2
      <4> QED BY <4>1, <4>2
    <3>2. InBlock(x.offset) BY <2>3, ZeroInBlock
    <3> QED BY <3>1, <3>2 DEF OffsetsWithin
  <2>7. fildes[t][fd].ino = 0 BY <2>1 DEF NoFile
  <2>8. CASE k = 0
    <3>1. \A u \in Tasks, v \in Fds : fildes'[u][v].ino = fildes[u][v].ino
      <4> TAKE u \in Tasks, v \in Fds
      <4>1. CASE <<u, v>> = <<t, fd>> BY <2>3, <2>5, <2>7, <2>8, <4>1
      <4>2. CASE <<u, v>> # <<t, fd>> BY <2>5, <4>2
      <4> QED BY <4>1, <4>2
    <3>2. \A i : OpensOf(fildes', i) = OpensOf(fildes, i) BY <3>1, OpensSame
    <3> QED BY <2>5, <2>6, <2>8, <3>2
  <2>9. CASE k # 0
    <3>1. k \in Nat \ {0} /\ fildes'[t][fd].ino = k BY <2>3, <2>5, <2>9
    <3>2. \A u \in Tasks, v \in Fds : <<u, v>> # <<t, fd>> => fildes'[u][v].ino = fildes[u][v].ino BY <2>5
    <3>3. /\ \A i \in Nat \ {0} : i # k => OpensOf(fildes', i) = OpensOf(fildes, i)
          /\ \E e : e \notin OpensOf(fildes, k) /\ OpensOf(fildes', k) = OpensOf(fildes, k) \cup {e}
      BY <2>7, <3>1, <3>2, OpensAdded
    <3> QED BY <2>5, <2>6, <3>3
  <2> QED BY <2>8, <2>9
<1> QED BY <1>1, <1>2

LEMMA SoundFewer ==
  ASSUME NEW d, NEW f, NEW lk, Sound(d, f, lk), NEW d2, NEW f2, NEW lk2, FsInv(d2, f2, lk2), OffsetsWithin(f2),
         Inos(d2) = Inos(d),
         \A i \in Inos(d) : d2.inodes[i].type = d.inodes[i].type /\ d2.inodes[i].size = d.inodes[i].size,
         \A b \in Blks : \A s \in DOMAIN d2.dirs[b] :
           d2.dirs[b][s].ino > 0 => s \in DOMAIN d.dirs[b] /\ d2.dirs[b][s] = d.dirs[b][s]
  PROVE  Sound(d2, f2, lk2)
<1>1. NamesOnce(d2)
  <2>1. FsInv(d, f, lk) /\ NamesOnce(d) BY DEF Sound
  <2> QED BY <2>1, NamesOnceFewer
<1>2. SizesWithin(d2) BY DEF Sound, SizesWithin
<1> QED BY <1>1, <1>2 DEF Sound

LEMMA SoundCreated ==
  ASSUME NEW d, NEW f, NEW lk, Sound(d, f, lk), NEW path, NEW type, NEW ref, NEW d2, NEW k, NEW B,
         Creates(d, f, lk, path, type, ref, d2, k, B),
         NEW f2, NEW lk2, FsInv(d2, f2, lk2), OffsetsWithin(f2)
  PROVE  Sound(d2, f2, lk2)
<1>1. FsInv(d, f, lk) /\ NamesOnce(d) /\ path \in PathsOf /\ MayCreate(d, path) /\ ~Full(d.dirs[ParentBlk(d, path)])
  BY DEF Creates, Sound
<1>2. /\ k \in Nat \ {0} /\ Inos(d2) = Inos(d) \cup {k} /\ \A i \in Inos(d) : d2.inodes[i] = d.inodes[i]
      /\ d2.inodes[k] = Inode(type, ref, 1, B)
  BY CreatedIs
<1>3. PICK up : up = ParentBlk(d, path) OBVIOUS
<1>4. d2.dirs[up] = EntryAdded(d.dirs[up], k, NameOf(path)) /\ \A b \in Blks : b # up => SaysTheSame(d.dirs[b], d2.dirs[b])
  <2>1. d2.dirs[ParentBlk(d, path)] = EntryAdded(d.dirs[ParentBlk(d, path)], k, NameOf(path)) BY CreatedIs
  <2>2. \A b \in Blks : b # ParentBlk(d, path) => SaysTheSame(d.dirs[b], d2.dirs[b]) BY CreatedIs
  <2> QED BY <1>3, <2>1, <2>2
<1>5. up \in Blks /\ Hit(d.dirs[up], NameOf(path)) = 0
  <2>1. FsInv(d, f, lk) BY <1>1
  <2>2. /\ ParentBlk(d, path) # 0 => ParentBlk(d, path) \in Blks
        /\ Find(d, path) = IF ParentBlk(d, path) = 0 THEN 0 ELSE Hit(d.dirs[ParentBlk(d, path)], NameOf(path))
    BY <1>1, <2>1, FindIs
  <2> QED BY <1>1, <1>3, <2>2 DEF MayCreate
<1>6. NamesOnce(d2)
  <2>1. d2.dirs \in [Blks -> Dirs]
    <3>1. DiskTyped(d2) BY DEF FsInv
    <3> QED BY <3>1, DiskIs
  <2>2. \A i \in Inos(d) : d2.inodes[i].type = d.inodes[i].type BY <1>2
  <2>3. NameOf(path) \in Names BY <1>1, PathFacts
  <2>4. ~Full(d.dirs[up]) BY <1>1, <1>3
  <2> QED BY <1>1, <1>2, <1>4, <1>5, <2>1, <2>2, <2>3, <2>4, NamesOnceAdded
<1>7. SizesWithin(d2)
  <2>1. d2.inodes[k].size = 0 BY <1>2 DEF Inode
  <2>2. \A i \in Inos(d) : d.inodes[i].size + HdrSz <= BlkSz BY DEF Sound, SizesWithin
  <2>3. 0 + HdrSz <= BlkSz BY SizesAre
  <2> QED BY <1>2, <2>1, <2>2, <2>3 DEF SizesWithin
<1> QED BY <1>6, <1>7 DEF Sound

\* vfs_read and vfs_lseek.
LEMMA SoundMoved ==
  ASSUME NEW d, NEW f, NEW lk, Sound(d, f, lk), NEW t \in Tasks, NEW fd \in Fds, NEW off, InBlock(off),
         NEW x \in FileRec, x.fs = f[t][fd].fs, x.ino = f[t][fd].ino, x.offset = off, NEW f2, Is(f2, Put(f, t, fd, x))
  PROVE  Sound(d, f2, lk) /\ \A i \in Nat \ {0} : OpensOf(f2, i) = OpensOf(f, i)
<1>1. FilesTyped(f) /\ FsInv(d, f, lk) BY DEF Sound, FsInv
<1>2. x.fs = "blkfs" <=> x.ino # 0 BY <1>1, FilesAre
<1>3. /\ FilesTyped(f2) /\ f2[t][fd] = x
      /\ \A u \in Tasks, v \in Fds : <<u, v>> # <<t, fd>> => f2[u][v] = f[u][v]
  <2> QED BY <1>1, <1>2, FileSet
<1>4. \A u \in Tasks, v \in Fds : f2[u][v] = f[u][v] \/ (f2[u][v].ino = f[u][v].ino /\ f2[u][v].offset = off)
  <2> TAKE u \in Tasks, v \in Fds
  <2>1. CASE <<u, v>> = <<t, fd>> BY <1>3, <2>1
  <2>2. CASE <<u, v>> # <<t, fd>>
    <3>1. f2[u][v] = f[u][v] BY <1>3, <2>2
    <3> QED BY <3>1
  <2> QED BY <2>1, <2>2
<1>5. \A i : OpensOf(f2, i) = OpensOf(f, i)
  <2>1. \A u \in Tasks, v \in Fds : f2[u][v].ino = f[u][v].ino BY <1>4
  <2> QED BY <2>1, OpensSame
<1>6. FsInv(d, f2, lk) BY <1>1, <1>3, <1>5, FilesInv
<1>7. OffsetsWithin(f2) BY <1>4 DEF Sound, OffsetsWithin
<1> QED BY <1>5, <1>6, <1>7 DEF Sound

-----------------------------------------------------------------------------
(* Each call keeps it.                                                      *)

LEMMA QuietInv ==
  ASSUME VfsInv, UNCHANGED <<disk, fildes, leak>>, running' \in BOOLEAN
  PROVE  VfsInv'
BY DEF VfsInv

\* There is room for a new name, and what it is made of.
LEMMA MayCreates ==
  ASSUME VfsInv, NEW path \in Paths, NEW type \in Types, NEW ref \in {0, 1},
         MayCreate(disk, path), ~CannotCreate(disk), disk' = Created(disk, path, type, ref),
         ~Full(disk.dirs[ParentBlk(disk, path)]), type = "dir" => ~NamesLeft(disk.newBuf)
  PROVE  /\ Creates(disk, fildes, leak, path, type, ref, disk', Len(disk.inodes) + 1, Min(FreeBlks(disk)))
         /\ Len(disk.inodes) + 1 \in Nat \ {0}
         /\ OpensOf(fildes, Len(disk.inodes) + 1) = {}
<1>1. FsInv(disk, fildes, leak) BY DEF VfsInv, Sound
<1>2. path \in PathsOf BY PathFacts
<1>4. Creates(disk, fildes, leak, path, type, ref, disk', Len(disk.inodes) + 1, Min(FreeBlks(disk)))
  BY <1>1, <1>2 DEF Creates
<1>5. Len(disk.inodes) \in Nat /\ Inos(disk) = 1..Len(disk.inodes) BY <1>1, InodeFacts DEF FsInv, Inos
<1>6. PICK k \in Nat \ {0} : k = Len(disk.inodes) + 1 BY <1>5
<1>7. k \notin Inos(disk) BY <1>5, <1>6
<1>8. OpensOf(fildes, k) = {} BY <1>1, <1>7 DEF FsInv, Homes
<1> QED BY <1>4, <1>6, <1>8

LEMMA MkdirInv ==
  ASSUME VfsInv, NEW path \in Paths, Mkdir(path), ~strayed'
  PROVE  VfsInv'
<1>1. CASE Panic BY <1>1, QuietInv DEF Panic
<1>2. CASE /\ ~CannotCreate(disk) /\ disk' = Created(disk, path, "dir", 0) /\ UNCHANGED <<mount_point, fildes, running, leak>>
           /\ Strays(Full(disk.dirs[ParentBlk(disk, path)]) \/ NamesLeft(disk.newBuf))
  <2>9. ~Full(disk.dirs[ParentBlk(disk, path)]) /\ ~NamesLeft(disk.newBuf) BY <1>2 DEF Strays
  <2>1. PICK k, B, ref, type : k = Len(disk.inodes) + 1 /\ B = Min(FreeBlks(disk)) /\ ref = 0 /\ type = "dir" OBVIOUS
  <2>2. type \in Types /\ ref \in {0, 1} BY <2>1 DEF Types
  <2>3. Creates(disk, fildes, leak, path, type, ref, disk', k, B) /\ k \in Nat \ {0} /\ OpensOf(fildes, k) = {}
    BY <1>2, <2>1, <2>2, <2>9, MayCreates DEF Mkdir
  <2>4. FilesTyped(fildes) /\ leak \in BOOLEAN /\ Sound(disk, fildes, leak) /\ OffsetsWithin(fildes) BY DEF VfsInv, Sound, FsInv
  <2>5. FsInv(disk', fildes, leak) BY <2>1, <2>3, <2>4, CreatedInv
  <2>6. Sound(disk', fildes, leak) BY <2>3, <2>4, <2>5, SoundCreated
  <2> QED BY <1>2, <2>6 DEF VfsInv
<1> QED BY <1>1, <1>2 DEF Mkdir

\* Nothing depends on what was read into the buffer.
LEMMA BufferedInv ==
  ASSUME NEW d, NEW f, NEW lk, FsInv(d, f, lk), NEW buf \in Dirs, NEW d2, Is(d2, Buffered(d, buf))
  PROVE  FsInv(d2, f, lk) /\ d2.inodes = d.inodes /\ d2.dirs = d.dirs
<1>1. DiskTyped(d) /\ d = [inodes |-> d.inodes, occupied |-> d.occupied, dirs |-> d.dirs, newBuf |-> d.newBuf]
  BY DiskIs DEF FsInv
<1>2. d2 = [inodes |-> d.inodes, occupied |-> d.occupied, dirs |-> d.dirs, newBuf |-> buf] BY <1>1 DEF Is, Buffered
<1>3. d2.inodes = d.inodes /\ d2.occupied = d.occupied /\ d2.dirs = d.dirs /\ d2.newBuf = buf BY <1>2
<1>4. DiskTyped(d2)
  <2>1. d.inodes \in Seq(InodeRec) /\ d.occupied \in [Blks -> BOOLEAN] /\ d.dirs \in [Blks -> Dirs]
    BY <1>1, InodeFacts
  <2>2. d2 \in [inodes : Seq(InodeRec), occupied : [Blks -> BOOLEAN], dirs : [Blks -> Dirs], newBuf : Dirs]
    BY <1>2, <2>1
  <2> QED BY <1>1, <1>3, <2>2 DEF DiskTyped
<1>5. Inos(d2) = Inos(d) BY <1>3 DEF Inos
<1>6. \A i : Alive(d2, f, i) <=> Alive(d, f, i) BY <1>3 DEF Alive
<1>7. Homes(d2, f)
  <2>1. \A b : IsDirBlk(d2, b) <=> IsDirBlk(d, b) BY <1>3, <1>5 DEF IsDirBlk, DirIn
  <2> QED BY <1>3, <1>5, <2>1 DEF FsInv, Homes
<1>8. OwnBlocks(d2, f) BY <1>3, <1>5, <1>6 DEF FsInv, OwnBlocks
<1>9. Counted(d2, f, lk) BY <1>3, <1>5, <1>6 DEF FsInv, Counted, CountsOf
<1>10. GivenBack(d2, f, lk) BY <1>3, <1>5, <1>6 DEF FsInv, GivenBack
<1> QED BY <1>3, <1>4, <1>7, <1>8, <1>9, <1>10 DEF FsInv

LEMMA RmdirKeeps ==
  ASSUME VfsInv, NEW path \in Paths, Rmdir(path), ~strayed'
  PROVE  VfsInv'
<1>1. PICK k, up, type : k = Lookup(disk, path, "dir") /\ up = ParentBlk(disk, path) /\ type = "dir" OBVIOUS
<1>2. Sound(disk, fildes, leak) /\ FsInv(disk, fildes, leak) /\ OffsetsWithin(fildes) BY DEF VfsInv, Sound
<1>3. Named(disk, fildes, leak, path, "dir", k, up) BY <1>1, <1>2, PathFacts DEF Rmdir, Named
<1>4. Is(disk', RmdirDisk(disk, path, k)) BY <1>1 DEF Is, Rmdir, RmdirDisk
<1>5. UNCHANGED <<fildes, running, leak>> BY DEF Rmdir
<1>6. CASE LooksEmpty(disk, up, disk.inodes[k].blk)
  <2>1. \A s \in DOMAIN disk.dirs[disk.inodes[k].blk] : ~(disk.dirs[disk.inodes[k].blk][s].ino > 0)
    BY <1>1, <1>6 DEF Rmdir, Strays, InUse
  <2>2. /\ FsInv(disk', fildes, leak) /\ Inos(disk') = Inos(disk)
        /\ \A i \in Inos(disk) : disk'.inodes[i] = disk.inodes[i]
        /\ \A b \in Blks : \A s \in DOMAIN disk'.dirs[b] :
             disk'.dirs[b][s].ino > 0 => s \in DOMAIN disk.dirs[b] /\ disk'.dirs[b][s] = disk.dirs[b][s]
    BY <1>3, <1>4, <2>1, RmdirInv
  <2>3. Sound(disk', fildes, leak) BY <1>2, <2>2, SoundFewer
  <2> QED BY <1>5, <2>3 DEF VfsInv
\* It was only read.
<1>7. CASE ~LooksEmpty(disk, up, disk.inodes[k].blk)
  <2>1. PICK buf : buf = disk.dirs[disk.inodes[k].blk] OBVIOUS
  <2>2. buf \in Dirs
    <3>1. k \in Inos(disk) /\ disk.inodes[k].type = "dir" BY <1>3, LookupIs
    <3>2. DiskTyped(disk) BY <1>2 DEF FsInv
    <3> QED BY <2>1, <3>1, <3>2, InodeFacts
  <2>3. Is(disk', Buffered(disk, buf)) BY <1>1, <1>4, <1>7, <2>1 DEF Is, RmdirDisk, Buffered
  <2>4. FsInv(disk', fildes, leak) /\ disk'.inodes = disk.inodes /\ disk'.dirs = disk.dirs
    BY <1>2, <2>2, <2>3, BufferedInv
  <2>5. Inos(disk') = Inos(disk) BY <2>4 DEF Inos
  <2>6. /\ \A i \in Inos(disk) : disk'.inodes[i] = disk.inodes[i]
        /\ \A b \in Blks : \A s \in DOMAIN disk'.dirs[b] :
             disk'.dirs[b][s].ino > 0 => s \in DOMAIN disk.dirs[b] /\ disk'.dirs[b][s] = disk.dirs[b][s]
    BY <2>4
  <2>7. Sound(disk', fildes, leak) BY <1>2, <2>4, <2>5, <2>6, SoundFewer
  <2> QED BY <1>5, <2>7 DEF VfsInv
<1> QED BY <1>6, <1>7

LEMMA UnlinkKeeps ==
  ASSUME VfsInv, NEW path \in Paths, Unlink(path)
  PROVE  VfsInv'
<1>1. PICK k, up : k = Lookup(disk, path, "file") /\ up = ParentBlk(disk, path) OBVIOUS
<1>2. Sound(disk, fildes, leak) /\ FsInv(disk, fildes, leak) /\ OffsetsWithin(fildes) BY DEF VfsInv, Sound
<1>3. Named(disk, fildes, leak, path, "file", k, up) BY <1>1, <1>2, PathFacts DEF Unlink, Named
<1>4. Is(disk', UnlinkedDisk(disk, path, k)) BY <1>1 DEF Is, Unlink, UnlinkedDisk
<1>5. UNCHANGED <<fildes, running, leak>> BY DEF Unlink
<1>6. /\ FsInv(disk', fildes, leak) /\ Inos(disk') = Inos(disk)
      /\ \A i \in Inos(disk) : disk'.inodes[i].type = disk.inodes[i].type /\ disk'.inodes[i].size = disk.inodes[i].size
      /\ \A b \in Blks : \A s \in DOMAIN disk'.dirs[b] :
           disk'.dirs[b][s].ino > 0 => s \in DOMAIN disk.dirs[b] /\ disk'.dirs[b][s] = disk.dirs[b][s]
  BY <1>3, <1>4, UnlinkInv
<1>7. Sound(disk', fildes, leak) BY <1>2, <1>6, SoundFewer
<1> QED BY <1>5, <1>7 DEF VfsInv

LEMMA LinkKeeps ==
  ASSUME VfsInv, NEW old \in Paths, MayLink(old), NEW new \in Paths, Link(old, new)
  PROVE  VfsInv'
<1>1. PICK k, oldUp, up : k = Lookup(disk, old, "file") /\ oldUp = ParentBlk(disk, old) /\ up = ParentBlk(disk, new)
  OBVIOUS
<1>2. Sound(disk, fildes, leak) /\ FsInv(disk, fildes, leak) /\ NamesOnce(disk) BY DEF VfsInv, Sound
<1>3. Named(disk, fildes, leak, old, "file", k, oldUp) BY <1>1, <1>2, PathFacts DEF MayLink, Named
<1>4. Is(disk', LinkedDisk(disk, k, up, NameOf(new))) BY <1>1 DEF Is, Link, LinkedDisk
<1>5. UNCHANGED <<fildes, running>> /\ leak' = (leak \/ ~(up # 0 /\ ~Full(disk.dirs[up]))) BY <1>1 DEF Link
<1>6. new \in PathsOf BY PathFacts
<1>7. /\ FsInv(disk', fildes, leak') /\ NamesOnce(disk') /\ Inos(disk') = Inos(disk)
      /\ \A i \in Inos(disk) : disk'.inodes[i].size = disk.inodes[i].size
  <2>1. leak \in BOOLEAN BY <1>2 DEF FsInv
  <2>2. leak' \in BOOLEAN /\ (leak => leak') /\ (~(up # 0 /\ ~Full(disk.dirs[up])) => leak') BY <1>5, <2>1
  <2> QED BY <1>1, <1>2, <1>3, <1>4, <1>6, <2>2, LinkInv
<1>8. SizesWithin(disk') /\ OffsetsWithin(fildes) BY <1>7 DEF VfsInv, Sound, SizesWithin
<1> QED BY <1>5, <1>7, <1>8 DEF VfsInv, Sound

\* A device or a process file: no inode.
LEMMA OpenDeviceKeeps ==
  ASSUME VfsInv, NEW t \in Tasks, Opened(t, "devfs", 0), UNCHANGED <<disk, running, leak>>
  PROVE  VfsInv'
<1>1. Sound(disk, fildes, leak) /\ FsInv(disk, fildes, leak) /\ FilesTyped(fildes) /\ OffsetsWithin(fildes)
  BY DEF VfsInv, Sound, FsInv
<1>2. PICK fs, k : fs = "devfs" /\ k = 0 OBVIOUS
<1>3. fs \in {"blkfs", "devfs"} /\ k \in Nat /\ (fs = "blkfs" <=> k # 0) /\ Opened(t, fs, k) BY <1>2
<1>4. /\ FilesTyped(fildes') /\ OffsetsWithin(fildes')
      /\ \A i \in Nat \ {0} : i # k => OpensOf(fildes', i) = OpensOf(fildes, i)
  BY <1>1, <1>3, OpenedIs
<1>5. FsInv(disk, fildes', leak) BY <1>1, <1>2, <1>4, FilesInv
<1> QED BY <1>4, <1>5 DEF VfsInv, Sound

LEMMA OpenFileKeeps ==
  ASSUME VfsInv, NEW t \in Tasks, NEW path \in Paths, OpenFile(t, path)
  PROVE  VfsInv'
<1>1. PICK k, up, fs : k = Lookup(disk, path, "file") /\ up = ParentBlk(disk, path) /\ fs = "blkfs" OBVIOUS
<1>2. Sound(disk, fildes, leak) /\ FsInv(disk, fildes, leak) /\ FilesTyped(fildes) /\ OffsetsWithin(fildes) /\ leak \in BOOLEAN
  BY DEF VfsInv, Sound, FsInv
<1>3. Named(disk, fildes, leak, path, "file", k, up) BY <1>1, <1>2, PathFacts DEF OpenFile, Named
<1>4. k \in Inos(disk) \ {Root} /\ k \in Nat \ {0} /\ disk.inodes[k].type = "file" /\ LinksTo(disk.dirs, k) # {}
  BY <1>3, LookupIs
<1>5. Is(disk', OpenedDisk(disk, k)) BY <1>1 DEF Is, OpenFile, OpenedDisk
<1>6. Opened(t, fs, k) /\ leak' = (leak \/ FreeFds(t) = {}) /\ running' = running BY <1>1 DEF OpenFile
<1>7. fs \in {"blkfs", "devfs"} /\ k \in Nat /\ (fs = "blkfs" <=> k # 0) BY <1>1, <1>4
<1>8. /\ FilesTyped(fildes') /\ OffsetsWithin(fildes')
      /\ \A i \in Nat \ {0} : i # k => OpensOf(fildes', i) = OpensOf(fildes, i)
      /\ k # 0 => \/ FreeFds(t) = {} /\ OpensOf(fildes', k) = OpensOf(fildes, k)
                  \/ \E e : e \notin OpensOf(fildes, k) /\ OpensOf(fildes', k) = OpensOf(fildes, k) \cup {e}
  BY <1>2, <1>6, <1>7, OpenedIs
<1>9. /\ leak' \in BOOLEAN /\ (leak => leak')
      /\ \/ \E e : e \notin OpensOf(fildes, k) /\ OpensOf(fildes', k) = OpensOf(fildes, k) \cup {e}
         \/ OpensOf(fildes', k) = OpensOf(fildes, k) /\ leak'
  <2>1. leak' \in BOOLEAN /\ (leak => leak') /\ (FreeFds(t) = {} => leak') BY <1>2, <1>6
  <2> QED BY <1>4, <1>8, <2>1
<1>10. /\ FsInv(disk', fildes', leak') /\ Inos(disk') = Inos(disk) /\ disk'.dirs = disk.dirs
       /\ \A i \in Inos(disk) : disk'.inodes[i].type = disk.inodes[i].type /\ disk'.inodes[i].size = disk.inodes[i].size
  BY <1>2, <1>4, <1>5, <1>8, <1>9, OpenInv
<1>11. \A b \in Blks : \A s \in DOMAIN disk'.dirs[b] :
         disk'.dirs[b][s].ino > 0 => s \in DOMAIN disk.dirs[b] /\ disk'.dirs[b][s] = disk.dirs[b][s]
  BY <1>10
<1>12. Sound(disk', fildes', leak') BY <1>2, <1>8, <1>10, <1>11, SoundFewer
<1> QED BY <1>6, <1>12 DEF VfsInv

LEMMA CreateFileKeeps ==
  ASSUME VfsInv, NEW t \in Tasks, NEW path \in Paths, CreateFile(t, path), ~strayed'
  PROVE  VfsInv'
<1>1. CASE Panic BY <1>1, QuietInv DEF Panic
<1>2. CASE /\ ~CannotCreate(disk) /\ disk' = Created(disk, path, "file", 1)
           /\ Opened(t, "blkfs", Len(disk.inodes) + 1)
           /\ leak' = (leak \/ FreeFds(t) = {}) /\ UNCHANGED <<mount_point, running>>
           /\ Strays(Full(disk.dirs[ParentBlk(disk, path)]))
  <2>12. ~Full(disk.dirs[ParentBlk(disk, path)]) BY <1>2 DEF Strays
  <2>1. PICK k, B, ref, type, fs :
          k = Len(disk.inodes) + 1 /\ B = Min(FreeBlks(disk)) /\ ref = 1 /\ type = "file" /\ fs = "blkfs"
    OBVIOUS
  <2>2. type \in Types /\ ref \in {0, 1} BY <2>1 DEF Types
  <2>3. Creates(disk, fildes, leak, path, type, ref, disk', k, B) /\ k \in Nat \ {0} /\ OpensOf(fildes, k) = {}
    BY <1>2, <2>1, <2>2, <2>12, MayCreates DEF CreateFile
  <2>4. FilesTyped(fildes) /\ leak \in BOOLEAN /\ Sound(disk, fildes, leak) /\ OffsetsWithin(fildes) BY DEF VfsInv, Sound, FsInv
  <2>5. fs \in {"blkfs", "devfs"} /\ k \in Nat /\ (fs = "blkfs" <=> k # 0) /\ Opened(t, fs, k) BY <1>2, <2>1, <2>3
  <2>6. /\ FilesTyped(fildes') /\ OffsetsWithin(fildes')
        /\ \A i \in Nat \ {0} : i # k => OpensOf(fildes', i) = OpensOf(fildes, i)
        /\ k # 0 => \/ FreeFds(t) = {} /\ OpensOf(fildes', k) = OpensOf(fildes, k)
                    \/ \E e : e \notin OpensOf(fildes, k) /\ OpensOf(fildes', k) = OpensOf(fildes, k) \cup {e}
    BY <2>4, <2>5, OpenedIs
  <2>7. leak' \in BOOLEAN /\ (leak => leak') /\ (FreeFds(t) = {} => leak') BY <1>2, <2>4
  <2>8. \/ ref = 1 /\ \E o : OpensOf(fildes', k) = {o}
        \/ ref = 1 /\ OpensOf(fildes', k) = {} /\ leak'
    <3>1. CASE FreeFds(t) = {} /\ OpensOf(fildes', k) = OpensOf(fildes, k) BY <2>1, <2>3, <2>7, <3>1
    <3>2. CASE \E e : e \notin OpensOf(fildes, k) /\ OpensOf(fildes', k) = OpensOf(fildes, k) \cup {e}
      <4>1. PICK e : OpensOf(fildes', k) = OpensOf(fildes, k) \cup {e} BY <3>2
      <4>2. OpensOf(fildes', k) = {e} BY <2>3, <4>1
      <4> QED BY <2>1, <4>2
    <3> QED BY <2>3, <2>6, <3>1, <3>2
  <2>9. type = "dir" => ref = 0 BY <2>1
  <2>10. FsInv(disk', fildes', leak') BY <2>3, <2>6, <2>7, <2>8, <2>9, CreatedInv
  <2>11. Sound(disk', fildes', leak') BY <2>3, <2>4, <2>6, <2>10, SoundCreated
  <2> QED BY <1>2, <2>11 DEF VfsInv
<1> QED BY <1>1, <1>2 DEF CreateFile

\* The file that is open.
LEMMA FileIs ==
  ASSUME NEW d, NEW f, NEW lk, FsInv(d, f, lk), NEW t \in Tasks, NEW fd \in Fds, f[t][fd].fs = "blkfs"
  PROVE  /\ f[t][fd].ino \in Inos(d) \ {Root} /\ f[t][fd].ino \in Nat \ {0}
         /\ d.inodes[f[t][fd].ino].type = "file"
         /\ OpensOf(f, f[t][fd].ino) # {}
<1>1. FilesTyped(f) /\ Homes(d, f) BY DEF FsInv
<1>2. PICK k : k = f[t][fd].ino OBVIOUS
<1>3. k \in Nat \ {0} BY <1>1, <1>2, FilesAre
<1>4. <<t, fd, k>> \in OpensOf(f, k) BY <1>2, OpenIs
<1>5. k \in Inos(d) \ {Root} /\ d.inodes[k].type = "file" BY <1>1, <1>3, <1>4 DEF Homes
<1> QED BY <1>2, <1>3, <1>4, <1>5

\* A sum that stays below 2^64 does not wrap around.
LEMMA SumIsExact ==
  ASSUME NEW off \in Nat, off + HdrSz <= BlkSz, NEW n \in Int, 0 <= off + n, n < Word - BlkSz
  PROVE  (off + n) % Word = off + n /\ (off + n + HdrSz) % Word = off + n + HdrSz
<1>1. HdrSz \in Nat /\ BlkSz \in Nat /\ Word \in Nat \ {0} BY SizesAre
<1>2. off + n \in 0..(Word - 1) /\ off + n + HdrSz \in 0..(Word - 1) BY <1>1
<1> QED BY <1>1, <1>2, ModSmall

LEMMA CountsAre == ASSUME NEW n \in Counts PROVE n \in Nat /\ n < Word - BlkSz
<1>1. Word \in Nat /\ BlkSz \in Nat /\ n \in 0..(Word - BlkSz - 1) BY SizesAre, CountsAssumption
<1> QED BY <1>1

\* A descriptor at another offset.
LEMMA MovedKeeps ==
  ASSUME VfsInv, NEW t \in Tasks, NEW fd \in Fds, NEW off, InBlock(off),
         Is(fildes', [fildes EXCEPT ![t][fd].offset = off])
  PROVE  /\ Sound(disk, fildes', leak)
         /\ \A i \in Nat \ {0} : OpensOf(fildes', i) = OpensOf(fildes, i)
<1>1. Sound(disk, fildes, leak) /\ FilesTyped(fildes) BY DEF VfsInv, Sound, FsInv
<1>2. PICK y \in FileRec : y = fildes[t][fd] BY <1>1, FilesAre
<1>3. PICK x : x = [y EXCEPT !.offset = off] OBVIOUS
<1>a. off \in Nat BY BlockIs
<1>4. x \in FileRec /\ x.fs = y.fs /\ x.ino = y.ino /\ x.offset = off BY <1>3, <1>a DEF FileRec
<1>5. Is(fildes', Put(fildes, t, fd, x)) BY <1>2, <1>3 DEF Is, Put
<1>6. x.fs = fildes[t][fd].fs /\ x.ino = fildes[t][fd].ino BY <1>2, <1>4
<1> QED BY <1>1, <1>4, <1>5, <1>6, SoundMoved

\* A read ends in the data, from wherever it starts: at the end of the file if it
\* would go beyond it.
LEMMA ReadEnds ==
  ASSUME NEW off, InBlock(off), NEW size \in Nat, size + HdrSz <= BlkSz, NEW n \in Nat, NEW left,
         left = IF (off + n) % Word > size THEN (size - off) % Word ELSE n
  PROVE  (off + left) % Word \in 0..size
<1>1. Word \in Nat \ {0} /\ HdrSz \in Nat /\ BlkSz \in Nat /\ 2 * BlkSz < Word BY SizesAre
<1>2. off \in 0..(Word - 1) /\ off \in Nat BY BlockIs
<1>3. off + n \in Nat BY <1>2
<1>4. (off + n) % Word \in 0..(Word - 1) BY <1>1, <1>3, ModRange
<1>5. size \in 0..(Word - 1) BY <1>1
<1>6. CASE (off + n) % Word > size
  <2>1. left = (size - off) % Word BY <1>6
  <2>2. (off + ((size - off) % Word)) % Word = size BY <1>1, <1>2, <1>5, ModDistanceSum
  <2> QED BY <2>1, <2>2
<1>7. CASE ~((off + n) % Word > size)
  <2>1. left = n BY <1>7
  <2> QED BY <1>4, <1>5, <1>7, <2>1
<1> QED BY <1>6, <1>7

LEMMA ReadKeeps ==
  ASSUME VfsInv, NEW t \in Tasks, NEW fd \in Fds, NEW n \in Counts, Read(t, fd, n)
  PROVE  VfsInv'
<1>1. FsInv(disk, fildes, leak) /\ SizesWithin(disk) /\ OffsetsWithin(fildes) BY DEF VfsInv, Sound
<1>2. PICK off, k, size : off = fildes[t][fd].offset /\ k = fildes[t][fd].ino /\ size = disk.inodes[k].size OBVIOUS
<1>3. IsFile(t, fd) /\ fildes[t][fd].fs = "blkfs" BY DEF Read, IsFile
<1>4. InBlock(off) BY <1>1, <1>2 DEF OffsetsWithin
<1>5. size \in Nat /\ size + HdrSz <= BlkSz
  <2>1. k \in Inos(disk)
    <3>1. FsInv(disk, fildes, leak) /\ k = fildes[t][fd].ino BY <1>1, <1>2
    <3>2. fildes[t][fd].ino \in Inos(disk) BY <1>3, <3>1, FileIs
    <3> QED BY <3>1, <3>2
  <2> QED BY <1>1, <1>2, <2>1, InodeFacts DEF FsInv, SizesWithin
<1>6. n \in Nat BY CountsAre
<1>7. PICK left : left = IF (off + n) % Word > size THEN (size - off) % Word ELSE n OBVIOUS
<1>8. \/ Panic
      \/ fildes' = [fildes EXCEPT ![t][fd].offset = (off + left) % Word] /\ UNCHANGED <<disk, running, leak>>
  BY <1>2, <1>7 DEF Read, InodeOf
<1>9. CASE Panic BY <1>9, QuietInv DEF Panic
<1>10. CASE fildes' = [fildes EXCEPT ![t][fd].offset = (off + left) % Word] /\ UNCHANGED <<disk, running, leak>>
  <2>1. PICK to : to = (off + left) % Word OBVIOUS
  <2>2. to \in 0..size BY <1>4, <1>5, <1>6, <1>7, <2>1, ReadEnds
  <2>3. to \in Nat /\ to + HdrSz <= BlkSz BY <1>5, <2>2, SizesAre
  <2>4. InBlock(to) BY <2>3, BlockIs
  <2>5. Is(fildes', [fildes EXCEPT ![t][fd].offset = to]) BY <1>10, <2>1 DEF Is
  <2>6. Sound(disk, fildes', leak) BY <2>4, <2>5, MovedKeeps
  <2> QED BY <1>10, <2>6 DEF VfsInv
<1> QED BY <1>8, <1>9, <1>10

\* What the test of a seek admits is in the block, where the sum wraps around too.
LEMMA SeekKeeps ==
  ASSUME VfsInv, NEW t \in Tasks, NEW fd \in Fds, NEW n \in Seeks,
         NEW whence \in {"SEEK_SET", "SEEK_CUR", "SEEK_END"}, Lseek(t, fd, n, whence)
  PROVE  VfsInv'
<1>1. FsInv(disk, fildes, leak) /\ OffsetsWithin(fildes) BY DEF VfsInv, Sound
<1>2. PICK off, k, size : off = fildes[t][fd].offset /\ k = fildes[t][fd].ino /\ size = disk.inodes[k].size OBVIOUS
<1>3. fildes[t][fd].fs = "blkfs" BY DEF Lseek, IsFile
<1>4. off \in Nat BY <1>1, <1>2, BlockIs DEF OffsetsWithin
<1>5. size \in Nat
  <2>1. k \in Inos(disk)
    <3>1. FsInv(disk, fildes, leak) /\ k = fildes[t][fd].ino BY <1>1, <1>2
    <3>2. fildes[t][fd].ino \in Inos(disk) BY <1>3, <3>1, FileIs
    <3> QED BY <3>1, <3>2
  <2> QED BY <1>1, <1>2, <2>1, InodeFacts DEF FsInv
<1>6. n \in Int BY SeeksAssumption
<1>7. PICK base : base = CASE whence = "SEEK_SET" -> 0
                           [] whence = "SEEK_CUR" -> off
                           [] whence = "SEEK_END" -> size
  OBVIOUS
<1>8. base \in Nat
  <2>2. CASE whence = "SEEK_SET" BY <1>7, <2>2
  <2>3. CASE whence = "SEEK_CUR" BY <1>4, <1>7, <2>3
  <2>4. CASE whence = "SEEK_END" BY <1>5, <1>7, <2>4
  <2> QED BY <2>2, <2>3, <2>4
<1>9. /\ IF whence = "SEEK_CUR" THEN (base + n + HdrSz) % Word <= BlkSz
         ELSE base + n >= 0 /\ base + n + HdrSz <= BlkSz
      /\ fildes' = [fildes EXCEPT ![t][fd].offset = (base + n) % Word]
      /\ UNCHANGED <<disk, running, leak>>
  BY <1>2, <1>7 DEF Lseek, InodeOf
<1>10. PICK x \in Int : x = base + n BY <1>6, <1>8
<1>11. Word \in Nat \ {0} /\ HdrSz \in Nat /\ BlkSz \in Nat /\ 2 * BlkSz < Word BY SizesAre
<1>12. (x + HdrSz) % Word <= BlkSz
  <2>1. CASE whence = "SEEK_CUR" BY <1>9, <1>10, <2>1
  <2>2. CASE whence # "SEEK_CUR"
    <3>1. x + HdrSz \in 0..(Word - 1) /\ x + HdrSz <= BlkSz BY <1>9, <1>10, <1>11, <2>2
    <3>2. (x + HdrSz) % Word = x + HdrSz BY <1>11, <3>1, ModSmall
    <3> QED BY <3>1, <3>2
  <2> QED BY <2>1, <2>2
<1>13. PICK to : to = x % Word OBVIOUS
<1>14. InBlock(to)
  <2>1. PICK w \in Nat \ {0}, h \in Int : w = Word /\ h = HdrSz BY <1>11
  <2>2. ((x % w) + h) % w = (x + h) % w /\ x % w \in 0..(w - 1) BY ModOfSum
  <2>3. ((x % Word) + HdrSz) % Word = (x + HdrSz) % Word /\ x % Word \in 0..(Word - 1) BY <2>1, <2>2, Zenon
  <2> QED BY <1>12, <1>13, <2>3 DEF InBlock
<1>15. Is(fildes', [fildes EXCEPT ![t][fd].offset = to]) BY <1>9, <1>10, <1>13 DEF Is
<1>16. Sound(disk, fildes', leak) BY <1>14, <1>15, MovedKeeps
<1> QED BY <1>9, <1>16 DEF VfsInv

LEMMA WriteKeeps ==
  ASSUME VfsInv, NEW t \in Tasks, NEW fd \in Fds, NEW n \in Counts, Write(t, fd, n), ~strayed'
  PROVE  VfsInv'
<1>1. FsInv(disk, fildes, leak) /\ FilesTyped(fildes) /\ SizesWithin(disk) /\ OffsetsWithin(fildes) /\ NamesOnce(disk)
      /\ DiskTyped(disk)
  BY DEF VfsInv, Sound, FsInv
<1>2. PICK off, k, size, end, blk :
        /\ off = fildes[t][fd].offset /\ k = fildes[t][fd].ino /\ size = disk.inodes[k].size
        /\ end = off + n /\ blk = disk.inodes[k].blk
  OBVIOUS
<1>3. fildes[t][fd].fs = "blkfs" BY DEF Write, IsFile
<1>4. off \in Nat /\ off + HdrSz <= BlkSz
  <2>1. InBlock(off) /\ ~(off > BlkSz) BY <1>1, <1>2 DEF OffsetsWithin, Write, Strays
  <2>2. off \in Nat /\ (off + HdrSz <= BlkSz \/ Word <= off + HdrSz) BY <2>1, BlockIs
  <2> QED BY <2>1, <2>2, SizesAre
<1>5. k \in Inos(disk) \ {Root} /\ k \in Nat \ {0} /\ disk.inodes[k].type = "file" /\ OpensOf(fildes, k) # {}
  <2>1. FsInv(disk, fildes, leak) /\ k = fildes[t][fd].ino BY <1>1, <1>2
  <2>2. /\ fildes[t][fd].ino \in Inos(disk) \ {Root} /\ fildes[t][fd].ino \in Nat \ {0}
        /\ disk.inodes[fildes[t][fd].ino].type = "file" /\ OpensOf(fildes, fildes[t][fd].ino) # {}
    BY <1>3, <2>1, FileIs
  <2> QED BY <2>1, <2>2
<1>6. size \in Nat /\ size + HdrSz <= BlkSz BY <1>1, <1>2, <1>5, InodeFacts DEF SizesWithin
<1>7. n \in Nat /\ (off + n) % Word = end /\ (off + n + HdrSz) % Word = off + n + HdrSz
  <2>1. n \in Nat /\ n < Word - BlkSz BY CountsAre
  <2>2. n \in Int /\ 0 <= off + n BY <1>4, <2>1
  <2> QED BY <1>2, <1>4, <2>1, <2>2, SumIsExact
<1>8. end \in Nat /\ end + HdrSz <= BlkSz /\ off <= BlkSz
  <2>1. (off + n + HdrSz) % Word <= BlkSz BY <1>2 DEF Write
  <2> QED BY <1>2, <1>4, <1>7, <2>1, SizesAre
<1>9. PICK size2 : size2 = IF end > size THEN end ELSE size OBVIOUS
<1>10. size2 \in Nat /\ size2 + HdrSz <= BlkSz BY <1>6, <1>8, <1>9
<1>11. Is(disk', WrittenDisk(disk, k, size2))
  <2>1. \E flag \in IF off <= BlkSz THEN {disk.occupied[blk]} ELSE BOOLEAN :
          disk' = [disk EXCEPT !.inodes[k].size = IF end > @ THEN end ELSE @, !.occupied[blk] = flag]
    BY <1>2, <1>7 DEF Write, InodeOf
  <2>2. disk' = [disk EXCEPT !.inodes[k].size = IF end > @ THEN end ELSE @, !.occupied[blk] = disk.occupied[blk]]
    BY <1>8, <2>1
  <2>3. disk = [inodes |-> disk.inodes, occupied |-> disk.occupied, dirs |-> disk.dirs, newBuf |-> disk.newBuf]
        /\ disk.occupied \in [Blks -> BOOLEAN]
    BY <1>1, DiskIs
  <2>4. [disk.occupied EXCEPT ![blk] = disk.occupied[blk]] = disk.occupied BY <2>3
  <2>5. disk' = [disk EXCEPT !.inodes[k].size = size2, !.occupied = [disk.occupied EXCEPT ![blk] = disk.occupied[blk]]]
    BY <1>2, <1>9, <2>2, <2>3
  <2>6. disk' = [disk EXCEPT !.inodes[k].size = size2] BY <2>3, <2>4, <2>5
  <2> QED BY <2>6 DEF Is, WrittenDisk
<1>12. /\ FsInv(disk', fildes, leak) /\ Inos(disk') = Inos(disk) /\ disk'.inodes[k].size = size2
       /\ \A i \in Inos(disk) : disk'.inodes[i].type = disk.inodes[i].type /\ (i # k => disk'.inodes[i] = disk.inodes[i])
       /\ disk'.dirs = disk.dirs
  BY <1>1, <1>5, <1>10, <1>11, WriteInv
<1>13. NamesOnce(disk')
  <2>1. \A b \in Blks : \A s \in DOMAIN disk'.dirs[b] :
          disk'.dirs[b][s].ino > 0 => s \in DOMAIN disk.dirs[b] /\ disk'.dirs[b][s] = disk.dirs[b][s]
    BY <1>12
  <2> QED BY <1>1, <1>12, <2>1, NamesOnceFewer
<1>14. SizesWithin(disk') BY <1>1, <1>10, <1>12 DEF SizesWithin
<1>15. Is(fildes', [fildes EXCEPT ![t][fd].offset = end]) /\ InBlock(end)
  <2>1. InBlock(end) BY <1>8, BlockIs
  <2> QED BY <1>2, <1>7, <2>1 DEF Write, Is
<1>16. Sound(disk, fildes', leak) /\ \A i \in Nat \ {0} : OpensOf(fildes', i) = OpensOf(fildes, i)
  BY <1>15, MovedKeeps
<1>17. FsInv(disk', fildes', leak)
  <2>1. FilesTyped(fildes') BY <1>16 DEF Sound, FsInv
  <2> QED BY <1>12, <1>16, <2>1, FilesInv
<1>18. Sound(disk', fildes', leak) BY <1>13, <1>14, <1>16, <1>17 DEF Sound
<1>19. UNCHANGED <<running, leak>> BY DEF Write
<1> QED BY <1>18, <1>19 DEF VfsInv

LEMMA CloseKeeps ==
  ASSUME VfsInv, NEW t \in Tasks, NEW fd \in Fds, Close(t, fd)
  PROVE  VfsInv'
<1>1. FsInv(disk, fildes, leak) /\ FilesTyped(fildes) /\ OffsetsWithin(fildes) /\ Sound(disk, fildes, leak)
  BY DEF VfsInv, Sound, FsInv
<1>2. NoFile \in FileRec /\ NoFile.ino = 0 /\ NoFile.offset = 0 /\ NoFile.fs # "blkfs" BY DEF NoFile, FileRec
<1>3. Is(fildes', Put(fildes, t, fd, NoFile)) /\ UNCHANGED <<running, leak>> BY DEF Close, Is, Put
<1>4. NoFile.fs = "blkfs" <=> NoFile.ino # 0 BY <1>2
<1>5. /\ FilesTyped(fildes') /\ fildes'[t][fd] = NoFile
      /\ \A u \in Tasks, v \in Fds : <<u, v>> # <<t, fd>> => fildes'[u][v] = fildes[u][v]
  BY <1>1, <1>2, <1>3, <1>4, FileSet
<1>6. OffsetsWithin(fildes')
  <2>1. \A u \in Tasks, v \in Fds : fildes'[u][v] = NoFile \/ fildes'[u][v] = fildes[u][v]
    <3> TAKE u \in Tasks, v \in Fds
    <3>1. CASE <<u, v>> = <<t, fd>> BY <1>5, <3>1
    <3>2. CASE <<u, v>> # <<t, fd>> BY <1>5, <3>2
    <3> QED BY <3>1, <3>2
  <2>2. InBlock(NoFile.offset) BY <1>2, ZeroInBlock
  <2> QED BY <1>1, <2>1, <2>2 DEF OffsetsWithin
<1>7. CASE fildes[t][fd].fs # "blkfs"
  <2>1. disk' = disk BY <1>7 DEF Close
  <2>2. fildes[t][fd].ino = 0 BY <1>1, <1>7, FilesAre
  <2>3. \A u \in Tasks, v \in Fds : fildes'[u][v].ino = fildes[u][v].ino
    <3> TAKE u \in Tasks, v \in Fds
    <3>1. CASE <<u, v>> = <<t, fd>> BY <1>2, <1>5, <2>2, <3>1
    <3>2. CASE <<u, v>> # <<t, fd>> BY <1>5, <3>2
    <3> QED BY <3>1, <3>2
  <2>4. \A i : OpensOf(fildes', i) = OpensOf(fildes, i) BY <2>3, OpensSame
  <2>5. FsInv(disk, fildes', leak) BY <1>1, <1>5, <2>4, FilesInv
  <2>6. Sound(disk, fildes', leak) BY <1>1, <1>6, <2>5 DEF Sound
  <2> QED BY <1>3, <2>1, <2>6 DEF VfsInv
<1>8. CASE fildes[t][fd].fs = "blkfs"
  <2>1. PICK k : k = fildes[t][fd].ino OBVIOUS
  <2>2. k \in Inos(disk) \ {Root} /\ k \in Nat \ {0} /\ disk.inodes[k].type = "file"
    <3>1. FsInv(disk, fildes, leak) BY <1>1
    <3>2. /\ fildes[t][fd].ino \in Inos(disk) \ {Root} /\ fildes[t][fd].ino \in Nat \ {0}
          /\ disk.inodes[fildes[t][fd].ino].type = "file"
      BY <1>8, <3>1, FileIs
    <3> QED BY <2>1, <3>2
  <2>3. Is(disk', ClosedDisk(disk, k)) BY <1>8, <2>1 DEF Close, InodeOf, Is, ClosedDisk
  <2>4. /\ \A i \in Nat \ {0} : i # k => OpensOf(fildes', i) = OpensOf(fildes, i)
        /\ \E e : e \in OpensOf(fildes, k) /\ OpensOf(fildes', k) = OpensOf(fildes, k) \ {e}
    <3>1. fildes[t][fd].ino = k /\ fildes'[t][fd].ino = 0 BY <1>2, <1>5, <2>1
    <3>2. \A u \in Tasks, v \in Fds : <<u, v>> # <<t, fd>> => fildes'[u][v].ino = fildes[u][v].ino BY <1>5
    <3>3. k \in Nat \ {0} BY <2>2
    <3> QED BY <3>1, <3>2, <3>3, OpensRemoved, SMTT(30)
  <2>5. PICK e : e \in OpensOf(fildes, k) /\ OpensOf(fildes', k) = OpensOf(fildes, k) \ {e} BY <2>4
  <2>6. /\ FsInv(disk', fildes', leak) /\ Inos(disk') = Inos(disk)
        /\ \A i \in Inos(disk) : disk'.inodes[i].type = disk.inodes[i].type /\ disk'.inodes[i].size = disk.inodes[i].size
        /\ \A b \in Blks : \A s \in DOMAIN disk'.dirs[b] :
             disk'.dirs[b][s].ino > 0 => s \in DOMAIN disk.dirs[b] /\ disk'.dirs[b][s] = disk.dirs[b][s]
    BY <1>1, <1>5, <2>2, <2>3, <2>4, <2>5, CloseInv
  <2>7. Sound(disk', fildes', leak) BY <1>1, <1>6, <2>6, SoundFewer
  <2> QED BY <1>3, <2>7 DEF VfsInv
<1> QED BY <1>7, <1>8

-----------------------------------------------------------------------------
(* The shells.                                                              *)

LEMMA TodoIs ==
  ASSUME TodoTyped, NEW t \in Tasks
  PROVE  /\ todo \in [Tasks -> [do : {"prompt", "read", "close"}, fd : 0..NrFile]]
         /\ todo[t].do # "prompt" => todo[t].fd \in Fds
BY DEF TodoTyped

\* What a command leaves to do is about a descriptor.
LEMMA TodoSet ==
  ASSUME TodoTyped, NEW t \in Tasks, NEW x \in [do : {"prompt", "read", "close"}, fd : 0..NrFile],
         x.do # "prompt" => x.fd \in Fds, todo' = [todo EXCEPT ![t] = x]
  PROVE  TodoTyped'
<1>1. todo \in [Tasks -> [do : {"prompt", "read", "close"}, fd : 0..NrFile]] BY DEF TodoTyped
<1>2. todo' \in [Tasks -> [do : {"prompt", "read", "close"}, fd : 0..NrFile]] BY <1>1
<1>3. ASSUME NEW u \in Tasks, todo'[u].do # "prompt" PROVE todo'[u].fd \in Fds
  <2>1. CASE u = t BY <1>1, <1>3, <2>1
  <2>2. CASE u # t
    <3>1. todo'[u] = todo[u] BY <1>1, <2>2
    <3> QED BY <1>3, <3>1, TodoIs
  <2> QED BY <2>1, <2>2
<1>4. Fds' = Fds OBVIOUS
<1> QED BY <1>2, <1>3 DEF TodoTyped

LEMMA GoesKeeps ==
  ASSUME TodoTyped, NEW t \in Tasks, NEW what \in {"read", "close"}, Goes(t, what)
  PROVE  TodoTyped'
<1>1. FreeFds(t) # {} /\ todo' = [todo EXCEPT ![t] = [do |-> what, fd |-> FirstFree(t)]] BY DEF Goes
<1>2. PICK fd \in Fds : fd = FirstFree(t) BY <1>1, FreeFdIs
<1>3. PICK x : x = [do |-> what, fd |-> fd] OBVIOUS
<1>4. fd \in 0..NrFile BY SizesAre
<1>5. x \in [do : {"prompt", "read", "close"}, fd : 0..NrFile] /\ x.fd = fd BY <1>3, <1>4
<1>6. todo' = [todo EXCEPT ![t] = x] BY <1>1, <1>2, <1>3
<1> QED BY <1>5, <1>6, TodoSet

\* Whoever strayed has strayed.
LEMMA StrayedGrows ==
  ASSUME strayed \in BOOLEAN, Next
  PROVE  strayed' \in BOOLEAN /\ (strayed => strayed')
<1>1. PICK t \in Tasks :
        \/ MkdirCommand(t) \/ RmdirCommand(t) \/ AccessCommand(t) \/ UnmountCommand(t) \/ UnlinkCommand(t)
        \/ LinkCommand(t) \/ OpenCommand(t) \/ CloseCommand(t) \/ ReadCommand(t) \/ WriteCommand(t)
        \/ SeekCommand(t) \/ Touch(t) \/ CatReads(t) \/ Closes(t)
  BY DEF Next
<1>2. ASSUME strayed' = strayed \/ \E how : Strays(how) PROVE strayed' \in BOOLEAN /\ (strayed => strayed')
  BY <1>2 DEF Strays
<1>3. CASE MkdirCommand(t) BY <1>2, <1>3 DEF MkdirCommand, Mkdir, Panic
<1>4. CASE RmdirCommand(t) BY <1>2, <1>4 DEF RmdirCommand, Rmdir
<1>5. CASE AccessCommand(t) BY <1>2, <1>5 DEF AccessCommand, Access, Panic
<1>6. CASE UnmountCommand(t) BY <1>2, <1>6 DEF UnmountCommand, Unmount
<1>7. CASE UnlinkCommand(t) BY <1>2, <1>7 DEF UnlinkCommand, Unlink
<1>8. CASE LinkCommand(t) BY <1>2, <1>8 DEF LinkCommand, Link
<1>9. CASE OpenCommand(t) BY <1>2, <1>9 DEF OpenCommand, OpenFile, OpenDevice, OpenProc, Panic
<1>10. CASE CloseCommand(t) BY <1>2, <1>10 DEF CloseCommand, Close
<1>11. CASE ReadCommand(t) BY <1>2, <1>11 DEF ReadCommand, Read, Panic
<1>12. CASE WriteCommand(t) BY <1>2, <1>12 DEF WriteCommand, Write
<1>13. CASE SeekCommand(t) BY <1>2, <1>13 DEF SeekCommand, Lseek
<1>14. CASE Touch(t) BY <1>2, <1>14 DEF Touch, CreateFile, Panic
<1>15. CASE CatReads(t) BY <1>2, <1>15 DEF CatReads, Read, Panic, vfsVars
<1>16. CASE Closes(t) BY <1>2, <1>16 DEF Closes, Close
<1> QED BY <1>1, <1>3, <1>4, <1>5, <1>6, <1>7, <1>8, <1>9, <1>10, <1>11, <1>12, <1>13, <1>14, <1>15, <1>16

LEMMA StepInv ==
  ASSUME ShellInv, Next, ~strayed'
  PROVE  ShellInv'
<1>1. VfsInv /\ TodoTyped BY DEF ShellInv
<1>2. SUFFICES VfsInv' /\ TodoTyped' BY DEF ShellInv
<1>3. Typed \subseteq Fds BY DEF Typed
<1>4. PICK t \in Tasks :
        \/ MkdirCommand(t) \/ RmdirCommand(t) \/ AccessCommand(t) \/ UnmountCommand(t) \/ UnlinkCommand(t)
        \/ LinkCommand(t) \/ OpenCommand(t) \/ CloseCommand(t) \/ ReadCommand(t) \/ WriteCommand(t)
        \/ SeekCommand(t) \/ Touch(t) \/ CatReads(t) \/ Closes(t)
  BY DEF Next
<1>5. ASSUME UNCHANGED todo PROVE TodoTyped' BY <1>1, <1>5 DEF TodoTyped
<1>6. CASE MkdirCommand(t)
  <2>1. PICK path \in Paths : Mkdir(path) BY <1>6 DEF MkdirCommand
  <2>2. UNCHANGED todo BY <1>6 DEF MkdirCommand, Command
  <2> QED BY <1>1, <1>5, <2>1, <2>2, MkdirInv
<1>7. CASE RmdirCommand(t)
  <2>1. PICK path \in Paths : Rmdir(path) BY <1>7 DEF RmdirCommand
  <2>2. UNCHANGED todo BY <1>7 DEF RmdirCommand, Command
  <2> QED BY <1>1, <1>5, <2>1, <2>2, RmdirKeeps
<1>8. CASE AccessCommand(t)
  <2>1. UNCHANGED <<disk, fildes, leak>> /\ running' \in BOOLEAN BY <1>8 DEF AccessCommand, Access, Panic
  <2>2. UNCHANGED todo BY <1>8 DEF AccessCommand, Command
  <2> QED BY <1>1, <1>5, <2>1, <2>2, QuietInv
<1>9. CASE UnmountCommand(t)
  <2>1. UNCHANGED <<disk, fildes, leak>> /\ running' = running BY <1>9 DEF UnmountCommand, Unmount
  <2>2. UNCHANGED todo BY <1>9 DEF UnmountCommand, Command
  <2>3. running' \in BOOLEAN BY <1>1, <2>1 DEF VfsInv
  <2> QED BY <1>1, <1>5, <2>1, <2>2, <2>3, QuietInv
<1>10. CASE UnlinkCommand(t)
  <2>1. PICK path \in Paths : Unlink(path) BY <1>10 DEF UnlinkCommand
  <2>2. UNCHANGED todo BY <1>10 DEF UnlinkCommand, Command
  <2> QED BY <1>1, <1>5, <2>1, <2>2, UnlinkKeeps
<1>11. CASE LinkCommand(t)
  <2>1. PICK old \in Paths, new \in Paths : MayLink(old) /\ Link(old, new) BY <1>11 DEF LinkCommand
  <2>2. UNCHANGED todo BY <1>11 DEF LinkCommand, Command
  <2> QED BY <1>1, <1>5, <2>1, <2>2, LinkKeeps
<1>12. CASE OpenCommand(t)
  <2>1. TodoTyped'
    <3>1. UNCHANGED todo \/ \E what \in {"read", "close"} : Goes(t, what) BY <1>12 DEF OpenCommand
    <3> QED BY <1>1, <1>5, <3>1, GoesKeeps
  <2>2. PICK path \in Paths : OpenFile(t, path) \/ OpenDevice(t, path) \/ OpenProc(t, path) BY <1>12 DEF OpenCommand
  <2>3. CASE OpenFile(t, path) BY <1>1, <2>1, <2>3, OpenFileKeeps
  <2>4. CASE OpenDevice(t, path)
    <3>1. CASE Opened(t, "devfs", 0) /\ UNCHANGED <<disk, mount_point, running, leak, strayed>>
      BY <1>1, <2>1, <3>1, OpenDeviceKeeps
    <3>2. CASE Panic
      <4>1. VfsInv' BY <1>1, <3>2, QuietInv DEF Panic
      <4> QED BY <2>1, <4>1
    <3> QED BY <2>4, <3>1, <3>2 DEF OpenDevice
  <2>5. CASE OpenProc(t, path)
    <3>1. Opened(t, "devfs", 0) /\ UNCHANGED <<disk, mount_point, running, leak, strayed>> BY <2>5 DEF OpenProc
    <3> QED BY <1>1, <2>1, <3>1, OpenDeviceKeeps
  <2> QED BY <2>2, <2>3, <2>4, <2>5
<1>13. CASE CloseCommand(t)
  <2>1. PICK fd \in Fds : Close(t, fd) BY <1>3, <1>13 DEF CloseCommand
  <2>2. UNCHANGED todo BY <1>13 DEF CloseCommand, Command
  <2> QED BY <1>1, <1>5, <2>1, <2>2, CloseKeeps
<1>14. CASE ReadCommand(t)
  <2>1. PICK fd \in Fds, n \in Counts : Read(t, fd, n) BY <1>3, <1>14 DEF ReadCommand
  <2>2. UNCHANGED todo BY <1>14 DEF ReadCommand, Command
  <2> QED BY <1>1, <1>5, <2>1, <2>2, ReadKeeps
<1>15. CASE WriteCommand(t)
  <2>1. PICK fd \in Fds, n \in Counts : Write(t, fd, n) BY <1>3, <1>15 DEF WriteCommand
  <2>2. UNCHANGED todo BY <1>15 DEF WriteCommand, Command
  <2> QED BY <1>1, <1>5, <2>1, <2>2, WriteKeeps
<1>16. CASE SeekCommand(t)
  <2>1. PICK fd \in Fds, n \in Seeks, whence \in {"SEEK_SET", "SEEK_CUR", "SEEK_END"} : Lseek(t, fd, n, whence)
    BY <1>3, <1>16 DEF SeekCommand
  <2>2. UNCHANGED todo BY <1>16 DEF SeekCommand, Command
  <2> QED BY <1>1, <1>5, <2>1, <2>2, SeekKeeps
<1>17. CASE Touch(t)
  <2>1. PICK path \in Paths : CreateFile(t, path) BY <1>17 DEF Touch
  <2>2. VfsInv' BY <1>1, <2>1, CreateFileKeeps
  <2>3. Goes(t, "close") \/ UNCHANGED todo BY <1>17 DEF Touch
  <2> QED BY <1>1, <1>5, <2>2, <2>3, GoesKeeps
<1>18. CASE CatReads(t)
  <2>1. todo[t].do = "read" /\ todo' = [todo EXCEPT ![t].do = "close"] BY <1>18 DEF CatReads
  <2>2. todo \in [Tasks -> [do : {"prompt", "read", "close"}, fd : 0..NrFile]] /\ todo[t].fd \in Fds BY <1>1, <2>1, TodoIs
  <2>3. TodoTyped'
    <3>1. PICK y : y = todo[t] OBVIOUS
    <3>2. PICK x : x = [y EXCEPT !.do = "close"] OBVIOUS
    <3>3. y \in [do : {"prompt", "read", "close"}, fd : 0..NrFile] BY <2>2, <3>1
    <3>4. x \in [do : {"prompt", "read", "close"}, fd : 0..NrFile] /\ x.fd = y.fd BY <3>2, <3>3
    <3>5. todo' = [todo EXCEPT ![t] = x] BY <2>1, <3>1, <3>2
    <3>6. x.do # "prompt" => x.fd \in Fds BY <2>2, <3>1, <3>4
    <3> QED BY <1>1, <3>4, <3>5, <3>6, TodoSet
  <2>4. CASE \E n \in Counts : Read(t, todo[t].fd, n)
    <3>1. PICK fd \in Fds, n \in Counts : Read(t, fd, n) BY <2>2, <2>4
    <3> QED BY <1>1, <2>3, <3>1, ReadKeeps
  <2>5. CASE UNCHANGED vfsVars
    <3>1. UNCHANGED <<disk, fildes, running, leak>> BY <2>5 DEF vfsVars
    <3>2. running' \in BOOLEAN BY <1>1, <3>1 DEF VfsInv
    <3> QED BY <1>1, <2>3, <3>1, <3>2, QuietInv
  <2> QED BY <1>18, <2>4, <2>5 DEF CatReads
<1>19. CASE Closes(t)
  <2>1. todo[t].do = "close" /\ todo' = [todo EXCEPT ![t] = Prompt] BY <1>19 DEF Closes
  <2>2. todo[t].fd \in Fds BY <1>1, <2>1, TodoIs
  <2>3. PICK fd \in Fds : Close(t, fd) BY <1>19, <2>2 DEF Closes
  <2>4. Prompt \in [do : {"prompt", "read", "close"}, fd : 0..NrFile] /\ Prompt.do = "prompt" BY SizesAre DEF Prompt
  <2>5. TodoTyped' BY <1>1, <2>1, <2>4, TodoSet
  <2> QED BY <1>1, <2>3, <2>5, CloseKeeps
<1> QED BY <1>4, <1>6, <1>7, <1>8, <1>9, <1>10, <1>11, <1>12, <1>13, <1>14, <1>15, <1>16, <1>17, <1>18, <1>19

LEMMA Invariant == Spec => []UnlessStrayed
<1>1. UnlessStrayed /\ [Next]_vars => UnlessStrayed'
  <2> SUFFICES ASSUME UnlessStrayed, [Next]_vars PROVE UnlessStrayed' OBVIOUS
  <2>1. CASE Next
    <3>1. strayed' \in BOOLEAN /\ (strayed => strayed') BY <2>1, StrayedGrows DEF UnlessStrayed
    <3>2. ASSUME ~strayed' PROVE ShellInv'
      <4>1. ShellInv BY <3>1, <3>2 DEF UnlessStrayed
      <4> QED BY <2>1, <3>2, <4>1, StepInv
    <3> QED BY <3>1, <3>2 DEF UnlessStrayed
  <2>2. CASE UNCHANGED vars
    <3>1. UNCHANGED <<disk, fildes, running, leak, strayed, todo>> BY <2>2 DEF vars, vfsVars
    <3>2. VfsInv => VfsInv' BY <3>1 DEF VfsInv
    <3>3. TodoTyped => TodoTyped' BY <3>1 DEF TodoTyped
    <3> QED BY <3>1, <3>2, <3>3 DEF ShellInv, UnlessStrayed
  <2> QED BY <2>1, <2>2
<1> QED BY <1>1, InitInv, PTL DEF Spec

-----------------------------------------------------------------------------
(* The properties of the runs, which speak of names, descriptors and blocks *)
(* in other words.                                                          *)

LEMMA NamesAre ==
  ASSUME FsInv(disk, fildes, leak), NEW i \in Nat \ {0}
  PROVE  {e \in NamesOf : e[3] = i} = LinksTo(disk.dirs, i)
<1>1. DiskTyped(disk) /\ Homes(disk, fildes) BY DEF FsInv
<1>2. /\ disk.dirs \in [Blks -> Dirs] /\ Inos(disk) = InodeNos
      /\ \A j \in Inos(disk) : disk.inodes[j].type = "dir" => disk.inodes[j].blk \in Blks
  BY <1>1, InodeFacts DEF InodeNos
<1>3. LiveDirBlks \subseteq Blks BY <1>2 DEF LiveDirBlks
<1>4. ASSUME NEW e \in NamesOf, e[3] = i PROVE e \in LinksTo(disk.dirs, i)
  <2>1. PICK b \in LiveDirBlks : e \in {<<b, s, disk.dirs[b][s].ino>> : s \in 1..Reached(disk.dirs[b])}
    BY <1>4 DEF NamesOf
  <2>2. PICK s \in 1..Reached(disk.dirs[b]) : e = <<b, s, disk.dirs[b][s].ino>> BY <2>1
  <2>3. b \in Blks /\ disk.dirs[b] \in Dirs BY <1>2, <1>3
  <2>4. s \in DOMAIN disk.dirs[b]
    <3>1. Reached(disk.dirs[b]) \in 0..Len(disk.dirs[b]) BY <2>3, ReachedIs
    <3>2. Len(disk.dirs[b]) \in Nat /\ DOMAIN disk.dirs[b] = 1..Len(disk.dirs[b]) BY <2>3, DirFacts
    <3> QED BY <3>1, <3>2
  <2>5. disk.dirs[b][s].ino = i /\ e = <<b, s, i>> BY <1>4, <2>2
  <2> QED BY <1>2, <2>3, <2>4, <2>5, LinkIs
<1>5. ASSUME NEW e \in LinksTo(disk.dirs, i) PROVE e \in NamesOf /\ e[3] = i
  <2>1. PICK b \in Blks : \E s \in DOMAIN disk.dirs[b] : e = <<b, s, i>> /\ disk.dirs[b][s].ino = i
    BY <1>2, <1>5, LinkIs
  <2>2. PICK s \in DOMAIN disk.dirs[b] : e = <<b, s, i>> /\ disk.dirs[b][s].ino = i BY <2>1
  <2>3. s \in 1..Reached(disk.dirs[b])
    <3>1. disk.dirs[b] \in Dirs /\ disk.dirs[b][s].ino > 0 BY <1>2, <2>2
    <3> QED BY <3>1, ReachedIs
  <2>4. IsDirBlk(disk, b)
    <3>1. IsDirBlk(disk, e[1]) BY <1>1, <1>5 DEF Homes
    <3>2. e[1] = b BY <2>2
    <3> QED BY <3>1, <3>2
  <2>5. b \in LiveDirBlks
    <3>1. PICK j \in Inos(disk) : disk.inodes[j].type = "dir" /\ disk.inodes[j].blk = b BY <2>4 DEF IsDirBlk, DirIn
    <3> QED BY <1>2, <3>1 DEF LiveDirBlks
  <2>6. e \in {<<b, u, disk.dirs[b][u].ino>> : u \in 1..Reached(disk.dirs[b])} BY <2>2, <2>3
  <2> QED BY <2>2, <2>5, <2>6 DEF NamesOf
<1> QED BY <1>4, <1>5

LEMMA RefsAre == \A i : {e \in RefsOf : e[3] = i} = OpensOf(fildes, i)
<1> TAKE i
<1>1. ASSUME NEW e \in RefsOf, e[3] = i PROVE e \in OpensOf(fildes, i)
  <2>1. PICK t \in Tasks, fd \in Fds : e = <<t, fd, fildes[t][fd].ino>> BY DEF RefsOf
  <2> QED BY <1>1, <2>1, OpenIs
<1>2. ASSUME NEW e \in OpensOf(fildes, i) PROVE e \in RefsOf /\ e[3] = i
  <2>1. PICK t \in Tasks, fd \in Fds : e = <<t, fd, i>> /\ fildes[t][fd].ino = i BY <1>2, OpenIs
  <2> QED BY <2>1 DEF RefsOf
<1> QED BY <1>1, <1>2

LEMMA UsedAre ==
  ASSUME FsInv(disk, fildes, leak)
  PROVE  Used = {i \in Inos(disk) : Alive(disk, fildes, i)}
<1>1. /\ DiskTyped(disk) /\ FilesTyped(fildes) /\ Homes(disk, fildes)
      /\ Root \in Inos(disk) /\ Inos(disk) \subseteq Nat \ {0} /\ disk.dirs \in [Blks -> Dirs]
  BY InodeFacts DEF FsInv
<1>2. \A i \in Nat \ {0} : /\ {e \in NamesOf : e[3] = i} = LinksTo(disk.dirs, i)
                           /\ {e \in RefsOf : e[3] = i} = OpensOf(fildes, i)
  BY NamesAre, RefsAre
<1>3. \A e \in NamesOf \cup RefsOf : e[3] \in Int
  <2>1. ASSUME NEW e \in NamesOf PROVE e[3] \in Int
    <3>1. PICK b \in LiveDirBlks : e \in {<<b, s, disk.dirs[b][s].ino>> : s \in 1..Reached(disk.dirs[b])}
      BY <2>1 DEF NamesOf
    <3>2. PICK s \in 1..Reached(disk.dirs[b]) : e = <<b, s, disk.dirs[b][s].ino>> BY <3>1
    <3>3. b \in Blks
      <4>1. PICK j \in DOMAIN disk.inodes : disk.inodes[j].type = "dir" /\ b = disk.inodes[j].blk
        BY DEF LiveDirBlks, InodeNos
      <4> QED BY <1>1, <4>1, InodeFacts
    <3>4. disk.dirs[b] \in Dirs BY <1>1, <3>3
    <3>5. Reached(disk.dirs[b]) \in 0..Len(disk.dirs[b]) BY <3>4, ReachedIs
    <3>6. Len(disk.dirs[b]) \in Nat /\ DOMAIN disk.dirs[b] = 1..Len(disk.dirs[b]) BY <3>4, DirFacts
    <3>7. s \in DOMAIN disk.dirs[b] BY <3>5, <3>6
    <3>8. disk.dirs[b][s].ino \in Int BY <3>4, <3>7, DirFacts
    <3> QED BY <3>2, <3>8
  <2>2. ASSUME NEW e \in RefsOf PROVE e[3] \in Int
    <3>1. PICK t \in Tasks, fd \in Fds : e = <<t, fd, fildes[t][fd].ino>> BY DEF RefsOf
    <3>2. fildes[t][fd].ino \in Nat BY <1>1, FilesAre
    <3> QED BY <3>1, <3>2
  <2> QED BY <2>1, <2>2
<1>4. ASSUME NEW i \in Used PROVE i \in Inos(disk) /\ Alive(disk, fildes, i)
  <2>1. CASE i = Root BY <1>1, <2>1 DEF Alive
  <2>2. CASE i # Root
    <3>1. PICK e \in NamesOf \cup RefsOf : e[3] > 0 /\ i = e[3] BY <2>2 DEF Used
    <3>2. i \in Nat \ {0} BY <1>3, <3>1
    <3>3. e \in LinksTo(disk.dirs, i) \/ e \in OpensOf(fildes, i) BY <1>2, <3>1, <3>2
    <3>4. LinksTo(disk.dirs, i) # {} \/ OpensOf(fildes, i) # {} BY <3>3
    <3> QED BY <1>1, <3>2, <3>4 DEF Homes, Alive
  <2> QED BY <2>1, <2>2
<1>5. ASSUME NEW i \in Inos(disk), Alive(disk, fildes, i) PROVE i \in Used
  <2>1. CASE i = Root BY <2>1 DEF Used
  <2>2. CASE i # Root
    <3>1. i \in Nat \ {0} BY <1>1
    <3>2. PICK e \in NamesOf \cup RefsOf : e[3] = i
      <4>1. CASE LinksTo(disk.dirs, i) # {} BY <1>2, <3>1, <4>1
      <4>2. CASE OpensOf(fildes, i) # {} BY <1>2, <3>1, <4>2
      <4> QED BY <1>5, <2>2, <4>1, <4>2 DEF Alive
    <3>3. e[3] > 0 BY <3>1, <3>2
    <3> QED BY <3>2, <3>3 DEF Used
  <2> QED BY <2>1, <2>2
<1> QED BY <1>4, <1>5

\* vfs_link, vfs_unlink, vfs_open, vfs_close: as long as none of the four calls was
\* made that the file system does not survive, the counts in an inode never fall
\* below the names and descriptors there are, and are exact unless an error path of
\* vfs_link or vfs_open was taken.
THEOREM ShellCounts == Spec => []CountsAreRight
<1>1. UnlessStrayed => CountsAreRight
  <2> SUFFICES ASSUME ShellInv PROVE CountsAreRight BY DEF UnlessStrayed, CountsAreRight
  <2>1. FsInv(disk, fildes, leak) /\ Counted(disk, fildes, leak) /\ Inos(disk) \subseteq Nat \ {0}
    BY InodeFacts DEF ShellInv, VfsInv, Sound, FsInv
  <2>2. ASSUME NEW i \in Used \ {Root}
        PROVE  /\ disk.inodes[i].linkcnt >= Cardinality({e \in NamesOf : e[3] = i})
               /\ disk.inodes[i].refcnt >= Cardinality({e \in RefsOf : e[3] = i})
               /\ ~leak => /\ disk.inodes[i].linkcnt = Cardinality({e \in NamesOf : e[3] = i})
                           /\ disk.inodes[i].refcnt = Cardinality({e \in RefsOf : e[3] = i})
    <3>1. i \in Inos(disk) \ {Root} /\ Alive(disk, fildes, i) BY <2>1, UsedAre
    <3>2. CountsOf(disk, fildes, leak, i) BY <2>1, <3>1 DEF Counted
    <3>3. {e \in NamesOf : e[3] = i} = LinksTo(disk.dirs, i) BY <2>1, <3>1, NamesAre
    <3>4. {e \in RefsOf : e[3] = i} = OpensOf(fildes, i) BY RefsAre
    <3> QED BY <3>2, <3>3, <3>4 DEF CountsOf
  <2> QED BY <2>2 DEF CountsAreRight
<1> QED BY <1>1, Invariant, PTL

LEMMA UsedBlocks ==
  ASSUME ShellInv
  PROVE  /\ \A i \in Used : disk.inodes[i].blk \in Blks /\ disk.occupied[disk.inodes[i].blk]
         /\ \A i, j \in Used : disk.inodes[i].blk = disk.inodes[j].blk => i = j
         /\ IsFiniteSet(Used)
<1>1. FsInv(disk, fildes, leak) /\ OwnBlocks(disk, fildes) /\ DiskTyped(disk) BY DEF ShellInv, VfsInv, Sound, FsInv
<1>2. Used = {i \in Inos(disk) : Alive(disk, fildes, i)} BY <1>1, UsedAre
<1>3. IsFiniteSet(Inos(disk))
  <2>1. PICK l \in Nat : l = Len(disk.inodes) BY <1>1, InodeFacts
  <2>2. IsFiniteSet(1..l) BY FS_Interval
  <2> QED BY <2>1, <2>2 DEF Inos
<1>4. IsFiniteSet(Used) BY <1>2, <1>3, FS_Subset
<1> QED BY <1>1, <1>2, <1>4 DEF OwnBlocks

\* fs_lookup, vfs_unlink, vfs_close: as long as none of the four calls was made, what
\* has a name or a descriptor has a block that is taken, and no two have the same:
\* nobody's open file is given to another.
THEOREM ShellBlocksAreOwn == Spec => []BlocksAreOwn
<1>1. UnlessStrayed => BlocksAreOwn
  <2> SUFFICES ASSUME ShellInv PROVE BlocksAreOwn BY DEF UnlessStrayed, BlocksAreOwn
  <2> DEFINE blks == {disk.inodes[i].blk : i \in Used}
             f == [i \in Used |-> disk.inodes[i].blk]
  <2>1. f \in [Used -> blks] /\ \A i \in Used : f[i] = disk.inodes[i].blk OBVIOUS
  <2>2. \A i, j \in Used : f[i] = f[j] => i = j BY <2>1, UsedBlocks
  <2>3. f \in Injection(Used, blks) BY <2>1, <2>2 DEF Injection, IsInjective
  <2>4. \A b \in blks : \E i \in Used : f[i] = b BY <2>1
  <2>5. f \in Surjection(Used, blks) BY <2>1, <2>4 DEF Surjection
  <2>6. IsFiniteSet(Used) BY UsedBlocks
  <2>7. Cardinality(blks) = Cardinality(Used)
    <3> HIDE DEF f, blks
    <3> QED BY <2>3, <2>5, <2>6, FS_Surjection
  <2>8. \A b \in blks : b \in Blks /\ disk.occupied[b] BY UsedBlocks
  <2> QED BY <2>7, <2>8 DEF BlocksAreOwn
<1> QED BY <1>1, Invariant, PTL

\* vfs_unlink, vfs_close: a block is taken only as long as its file has a name or a
\* descriptor, unless one of the four calls was made or an error path has left a count
\* too high.
THEOREM ShellBlocksGivenBack == Spec => []BlocksGivenBack
<1>1. UnlessStrayed => BlocksGivenBack
  <2> SUFFICES ASSUME ShellInv, ~leak, NEW b \in Blks, disk.occupied[b]
               PROVE  b \in {disk.inodes[i].blk : i \in Used}
    BY DEF UnlessStrayed, BlocksGivenBack
  <2>1. FsInv(disk, fildes, leak) /\ GivenBack(disk, fildes, leak) BY DEF ShellInv, VfsInv, Sound, FsInv
  <2>2. PICK i \in Inos(disk) : Alive(disk, fildes, i) /\ disk.inodes[i].blk = b BY <2>1 DEF GivenBack
  <2>3. i \in Used BY <2>1, <2>2, UsedAre
  <2> QED BY <2>2, <2>3
<1> QED BY <1>1, Invariant, PTL

\* vfs_read, vfs_write, vfs_lseek: as long as none of the four calls was made, the tables
\* are within their bounds, and no size and no offset leads out of the block of its file,
\* whatever is read, written and sought: a seek from the current offset to before the
\* file, which the code lets through, ends in the header of the block, a read from there
\* in the data, and nothing but a write from there needs the premise.
THEOREM ShellDisk == Spec => []DiskInv
<1>1. UnlessStrayed => DiskInv
  <2> SUFFICES ASSUME ShellInv, strayed \in BOOLEAN PROVE TypeOK /\ OffsetsInBlock BY DEF UnlessStrayed, DiskInv
  <2>1. /\ DiskTyped(disk) /\ FilesTyped(fildes) /\ leak \in BOOLEAN /\ running \in BOOLEAN
        /\ SizesWithin(disk) /\ OffsetsWithin(fildes) /\ TodoTyped
    BY DEF ShellInv, VfsInv, Sound, FsInv
  <2>2. /\ InodeNos = Inos(disk) /\ Len(disk.inodes) <= MaxInodes
        /\ \A i \in Inos(disk) : disk.inodes[i].blk \in Blks \cup {-1} /\ disk.inodes[i].size \in Nat
        /\ disk.dirs \in [Blks -> Dirs] /\ disk.occupied \in [Blks -> BOOLEAN]
    BY <2>1, InodeFacts DEF InodeNos
  <2>3. \A n \in Nat : n + HdrSz <= BlkSz => n \in 0..(Word - 1)
    <3> TAKE n \in Nat
    <3>1. HdrSz \in Nat /\ BlkSz \in Nat /\ Word \in Nat /\ 2 * BlkSz < Word BY SizesAre
    <3> QED BY <3>1
  <2>4. \A t \in Tasks, fd \in Fds : fildes[t][fd].fs \in {"none", "blkfs", "devfs"}
    <3> TAKE t \in Tasks, fd \in Fds
    <3>1. fildes[t][fd] \in FileRec BY <2>1, FilesAre
    <3>2. \A x \in FileRec : x.fs \in {"none", "blkfs", "devfs"} BY DEF FileRec
    <3> QED BY <3>1, <3>2
  <2>5. OffsetsInBlock BY <2>1, <2>2 DEF OffsetsInBlock, SizesWithin, OffsetsWithin, InBlock
  <2>6. \A i \in Inos(disk) : disk.inodes[i].size \in 0..(Word - 1) BY <2>1, <2>2, <2>3 DEF SizesWithin
  <2>7. \A t \in Tasks, fd \in Fds : fildes[t][fd].offset \in 0..(Word - 1) BY <2>1 DEF OffsetsWithin, InBlock
  <2>8. \A b \in Blks : Len(disk.dirs[b]) <= DirSlots BY <2>2, DirFacts
  <2>9. VfsTypeOK BY <2>1, <2>2, <2>4, <2>6, <2>7, <2>8 DEF VfsTypeOK, InodeNos
  <2>10. TypeOK BY <2>1, <2>9 DEF TypeOK, TodoTyped
  <2> QED BY <2>5, <2>10
<1> QED BY <1>1, Invariant, PTL

-----------------------------------------------------------------------------
(* What a path means before and after a call.                               *)

\* A directory has one name, in one directory, and the root directory none.
LEMMA DownOnce ==
  ASSUME NEW d, NEW f, NEW lk, FsInv(d, f, lk), NEW up \in Places(d), NEW m, Down(d, up, m) # 0
  PROVE  /\ up # 0 /\ Down(d, up, m) # RootBlk
         /\ \A v \in Places(d) : \A n : Down(d, v, n) = Down(d, up, m) => v = up /\ n = m
<1>1. OwnBlocks(d, f) /\ Counted(d, f, lk) /\ DiskTyped(d) BY DEF FsInv
<1>2. ASSUME NEW v \in Places(d), NEW n, Down(d, v, n) # 0
      PROVE  /\ v \in Blks /\ v # 0
             /\ \E i \in Inos(d) \ {Root} : \E h \in DOMAIN d.dirs[v] :
                  /\ Alive(d, f, i) /\ d.inodes[i].type = "dir" /\ Down(d, v, n) = d.inodes[i].blk
                  /\ <<v, h, i>> \in LinksTo(d.dirs, i) /\ d.dirs[v][h].name = n
  <2>1. v # 0 /\ Hit(d.dirs[v], n) > 0 BY <1>2 DEF Down
  <2>2. v \in Blks BY <2>1 DEF Places
  <2>3. PICK i : i = Hit(d.dirs[v], n) OBVIOUS
  <2>4. d.inodes[i].type = "dir" /\ Down(d, v, n) = d.inodes[i].blk BY <1>2, <2>1, <2>3 DEF Down
  <2>5. Hit(d.dirs[v], n) # 0 BY <2>1
  <2>6. /\ i \in Inos(d) \ {Root}
        /\ \E h \in DOMAIN d.dirs[v] : d.dirs[v][h].name = n /\ <<v, h, i>> \in LinksTo(d.dirs, i)
    BY <2>2, <2>3, <2>5, HitAlive
  <2>7. Alive(d, f, i) BY <2>6 DEF Alive
  <2> QED BY <2>1, <2>2, <2>4, <2>6, <2>7
<1>3. PICK i \in Inos(d) \ {Root}, h \in DOMAIN d.dirs[up] :
        /\ Alive(d, f, i) /\ d.inodes[i].type = "dir" /\ Down(d, up, m) = d.inodes[i].blk
        /\ <<up, h, i>> \in LinksTo(d.dirs, i) /\ d.dirs[up][h].name = m
  BY <1>2
<1>4. Down(d, up, m) # RootBlk
  <2>1. Root \in Inos(d) /\ Alive(d, f, Root) BY <1>1, InodeFacts DEF Alive
  <2>2. d.inodes[Root].blk = RootBlk BY <1>1 DEF DiskTyped
  <2>3. i # Root BY <1>3
  <2> QED BY <1>1, <1>3, <2>1, <2>2, <2>3 DEF OwnBlocks
<1>5. ASSUME NEW v \in Places(d), NEW n, Down(d, v, n) = Down(d, up, m) PROVE v = up /\ n = m
  <2>1. PICK j \in Inos(d) \ {Root}, g \in DOMAIN d.dirs[v] :
          /\ Alive(d, f, j) /\ d.inodes[j].type = "dir" /\ Down(d, v, n) = d.inodes[j].blk
          /\ <<v, g, j>> \in LinksTo(d.dirs, j) /\ d.dirs[v][g].name = n
    <3>1. Down(d, up, m) # 0 /\ v \in Places(d) /\ Down(d, v, n) = Down(d, up, m) BY <1>5
    <3>2. Down(d, v, n) # 0 BY <3>1
    <3> QED BY <1>2, <3>1, <3>2, ZenonT(30)
  <2>2. j = i BY <1>1, <1>3, <1>5, <2>1 DEF OwnBlocks
  <2>3. PICK S : S = LinksTo(d.dirs, i) /\ IsFiniteSet(S) BY LinksFinite
  <2>4. <<v, g, i>> \in S /\ <<up, h, i>> \in S BY <1>3, <2>1, <2>2, <2>3
  <2>5. Cardinality(S) \in Nat \ {0} /\ (S \ {<<up, h, i>>} = {} <=> Cardinality(S) = 1)
    <3>1. PICK e : e = <<up, h, i>> OBVIOUS
    <3>2. e \in S BY <2>4, <3>1
    <3>3. IsFiniteSet(S) BY <2>3
    <3>4. /\ Cardinality(S) \in Nat \ {0} /\ Cardinality(S \ {e}) = Cardinality(S) - 1
          /\ S \ {e} = {} <=> Cardinality(S) = 1
      BY <3>2, <3>3, OneLess, Zenon
    <3> QED BY <3>1, <3>4
  <2>6. Cardinality(S) <= 1
    <3>1. CountsOf(d, f, lk, i) BY <1>1, <1>3 DEF Counted
    <3>2. d.inodes[i].linkcnt >= Cardinality(S) /\ d.inodes[i].linkcnt = 1 BY <1>3, <2>3, <3>1 DEF CountsOf
    <3> QED BY <2>5, <3>2
  <2>7. Cardinality(S) = 1 BY <2>5, <2>6
  <2>8. <<v, g, i>> = <<up, h, i>> BY <2>4, <2>5, <2>7
  <2>9. v = up /\ g = h BY <2>8
  <2> QED BY <1>3, <2>1, <2>9
<1> QED BY <1>2, <1>4, <1>5

\* So two paths to one place are the same path.
LEMMA OnePath ==
  ASSUME NEW d, NEW f, NEW lk, FsInv(d, f, lk), NEW p \in PathsOf, NEW q \in PathsOf,
         ParentBlk(d, p) = ParentBlk(d, q), ParentBlk(d, p) # 0, NameOf(p) = NameOf(q)
  PROVE  p = q
<1>1. PICK K \in Nat \ {0}, L \in Nat \ {0} :
        K = Len(p) /\ L = Len(q) /\ p \in [1..K -> Names] /\ q \in [1..L -> Names]
  BY PathFacts
<1>2. PICK w \in [1..K -> Places(d)] : IsWalk(d, p, w) /\ ParentBlk(d, p) = w[K] BY <1>1, ParentIs
<1>3. PICK v \in [1..L -> Places(d)] : IsWalk(d, q, v) /\ ParentBlk(d, q) = v[L] BY <1>1, ParentIs
<1>4. w[1] = RootBlk /\ \A i \in 2..K : w[i] = Down(d, w[i - 1], p[i - 1]) BY <1>1, <1>2 DEF IsWalk
<1>5. v[1] = RootBlk /\ \A i \in 2..L : v[i] = Down(d, v[i - 1], q[i - 1]) BY <1>1, <1>3 DEF IsWalk
\* Back along both, as far as p goes.
<1> DEFINE P == {j \in 0..(K - 1) : /\ j <= L - 1 /\ w[K - j] = v[L - j] /\ w[K - j] # 0
                                    /\ j > 0 => p[K - j] = q[L - j]}
<1>6. 0 \in P /\ K - 1 \in Nat /\ 0 \in 0..(K - 1)
  <2>1. K - 1 \in Nat /\ 0 \in 0..(K - 1) /\ 0 <= L - 1 /\ K - 0 = K /\ L - 0 = L /\ ~(0 > 0) OBVIOUS
  <2>2. w[K] = v[L] /\ w[K] # 0 BY <1>2, <1>3
  <2>3. w[K - 0] = v[L - 0] /\ w[K - 0] # 0 BY <2>1, <2>2
  <2> QED BY <2>1, <2>3
<1>7. ASSUME NEW a \in 1..K, NEW c \in 1..L, w[a] = v[c], w[a] # 0, a # 1
      PROVE  /\ c # 1 /\ w[a - 1] = v[c - 1] /\ p[a - 1] = q[c - 1] /\ w[a - 1] # 0
  <2>1. a \in 2..K /\ a - 1 \in 1..K BY <1>7
  <2>2. PICK x, m : x = w[a - 1] /\ m = p[a - 1] /\ x \in Places(d) BY <1>2, <2>1
  <2>3. w[a] = Down(d, x, m) BY <1>4, <2>1, <2>2
  <2>4. Down(d, x, m) # 0 BY <1>7, <2>3
  <2>5. x # 0 /\ Down(d, x, m) # RootBlk /\ \A y \in Places(d) : \A n : Down(d, y, n) = Down(d, x, m) => y = x /\ n = m
    BY <2>2, <2>4, DownOnce
  <2>6. c # 1 BY <1>5, <1>7, <2>3, <2>5
  <2>7. c \in 2..L /\ c - 1 \in 1..L BY <2>6
  <2>8. v[c - 1] \in Places(d) /\ v[c] = Down(d, v[c - 1], q[c - 1]) BY <1>3, <1>5, <2>7
  <2>9. v[c - 1] = x /\ q[c - 1] = m BY <1>7, <2>3, <2>5, <2>8
  <2> QED BY <2>2, <2>5, <2>6, <2>9
<1>8. \A j \in (0 + 1)..(K - 1) : j - 1 \in P => j \in P
  <2> TAKE j \in (0 + 1)..(K - 1)
  <2> HAVE j - 1 \in P
  <2>1. PICK a, c : a = K - (j - 1) /\ c = L - (j - 1) OBVIOUS
  <2>2. a \in 1..K /\ c \in 1..L /\ w[a] = v[c] /\ w[a] # 0 /\ a # 1 BY <1>1, <2>1
  <2>3. c # 1 /\ w[a - 1] = v[c - 1] /\ p[a - 1] = q[c - 1] /\ w[a - 1] # 0 BY <1>7, <2>2
  <2>4. a - 1 = K - j /\ c - 1 = L - j /\ j <= L - 1 /\ j \in 0..(K - 1) BY <1>1, <2>1, <2>2, <2>3
  <2> QED BY <2>3, <2>4
<1> HIDE DEF P
<1>9. \A j \in 0..(K - 1) : j \in P BY <1>6, <1>8, StepByStep
<1>10. K = L
  <2>1. K - 1 \in P BY <1>6, <1>9
  <2>2. K - 1 <= L - 1 /\ w[K - (K - 1)] = v[L - (K - 1)] BY <2>1 DEF P
  <2>3. PICK c : c = L - (K - 1) OBVIOUS
  <2>4. c \in 1..L /\ v[c] = RootBlk BY <1>1, <1>4, <2>2, <2>3
  <2>5. ASSUME c # 1 PROVE FALSE
    <3>1. c \in 2..L /\ c - 1 \in 1..L BY <2>4, <2>5
    <3>2. PICK x, m : x = v[c - 1] /\ m = q[c - 1] /\ x \in Places(d) BY <1>3, <3>1
    <3>3. Down(d, x, m) = RootBlk BY <1>5, <2>4, <3>1, <3>2
    <3>4. RootBlk # 0 BY DEF RootBlk
    <3>5. Down(d, x, m) # 0 BY <3>3, <3>4
    <3> QED BY <3>2, <3>3, <3>5, DownOnce
  <2>6. c = 1 BY <2>5
  <2>7. \A a, b \in Nat \ {0} : 1 = b - (a - 1) => a = b OBVIOUS
  <2>8. 1 = L - (K - 1) BY <2>3, <2>6
  <2>9. K \in Nat \ {0} /\ L \in Nat \ {0} OBVIOUS
  <2> QED BY <2>7, <2>8, <2>9
<1>11. \A i \in 1..K : p[i] = q[i]
  <2> TAKE i \in 1..K
  <2>1. CASE i = K BY <1>1, <1>10, <2>1 DEF NameOf
  <2>2. CASE i # K
    <3>1. PICK j : j = K - i OBVIOUS
    <3>2. \A a \in Nat \ {0} : \A x \in 1..a : x # a => a - x \in 0..(a - 1) /\ a - x > 0 /\ a - (a - x) = x
      OBVIOUS
    <3>3. K \in Nat \ {0} /\ i \in 1..K OBVIOUS
    <3>4. j \in 0..(K - 1) /\ j > 0 /\ K - j = i /\ L - j = i BY <1>10, <2>2, <3>1, <3>2, <3>3
    <3>5. j \in P BY <1>9, <3>4
    <3>6. p[K - j] = q[L - j] BY <3>4, <3>5 DEF P
    <3> QED BY <3>4, <3>6
  <2> QED BY <2>1, <2>2
<1> QED BY <1>1, <1>10, <1>11

\* No name in block b means anything.
Blank(d, b) == b = 0 \/ \A m \in Names : Hit(d.dirs[b], m) = 0

\* From d to d2, only the name n in block up means something else, and no directory
\* in which there are names comes or goes with it.
Renames(d, d2, up, n) ==
  /\ SameHits(d.dirs, d2.dirs, up, n)
  /\ Blank(d, Down(d, up, n)) /\ Blank(d2, Down(d2, up, n))
  /\ \A i \in Inos(d) : /\ d2.inodes[i].type = d.inodes[i].type
                        /\ d.inodes[i].type = "dir" => d2.inodes[i].blk = d.inodes[i].blk

LEMMA BlankDown ==
  ASSUME NEW d, NEW b, Blank(d, b), NEW m \in Names
  PROVE  Down(d, b, m) = 0
<1>1. CASE b = 0 BY <1>1 DEF Down
<1>2. CASE b # 0
  <2>1. Hit(d.dirs[b], m) = 0 BY <1>2 DEF Blank
  <2>2. ~(0 > 0) OBVIOUS
  <2> QED BY <1>2, <2>1, <2>2 DEF Down
<1> QED BY <1>1, <1>2

\* One step on the way of a path.
LEMMA DownSame ==
  ASSUME NEW d, NEW f, NEW lk, FsInv(d, f, lk), NEW d2, NEW up, NEW n, Renames(d, d2, up, n),
         NEW x \in Places(d), NEW m \in Names, x # up \/ m # n
  PROVE  Down(d2, x, m) = Down(d, x, m)
<1>1. CASE x = 0 BY <1>1 DEF Down
<1>2. CASE x # 0
  <2>1. x \in Blks BY <1>2 DEF Places
  <2>2. PICK i : i = Hit(d.dirs[x], m) OBVIOUS
  <2>3. Hit(d2.dirs[x], m) = i BY <2>1, <2>2 DEF Renames, SameHits
  <2>4. ~(0 > 0) OBVIOUS
  <2>5. CASE i = 0
    <3>1. Down(d, x, m) = 0 BY <1>2, <2>2, <2>4, <2>5 DEF Down
    <3>2. Down(d2, x, m) = 0 BY <1>2, <2>3, <2>4, <2>5 DEF Down
    <3> QED BY <3>1, <3>2
  <2>6. CASE i # 0
    <3>1. i \in Inos(d) BY <2>1, <2>2, <2>6, HitAlive
    <3>2. /\ d2.inodes[i].type = d.inodes[i].type
          /\ d.inodes[i].type = "dir" => d2.inodes[i].blk = d.inodes[i].blk
      BY <3>1 DEF Renames
    <3>3. Down(d, x, m) = IF i > 0 /\ d.inodes[i].type = "dir" THEN d.inodes[i].blk ELSE 0 BY <1>2, <2>2 DEF Down
    <3>4. Down(d2, x, m) = IF i > 0 /\ d2.inodes[i].type = "dir" THEN d2.inodes[i].blk ELSE 0 BY <1>2, <2>3 DEF Down
    <3> QED BY <3>2, <3>3, <3>4
  <2> QED BY <2>5, <2>6
<1> QED BY <1>1, <1>2

\* A path means the same as before, unless it ends with this name in this block.
LEMMA WalkSame ==
  ASSUME NEW d, NEW f, NEW lk, FsInv(d, f, lk), NEW d2, NEW f2, NEW lk2, FsInv(d2, f2, lk2),
         NEW up, NEW n, Renames(d, d2, up, n), NEW p \in PathsOf, Find(d2, p) # Find(d, p)
  PROVE  ParentBlk(d, p) = up /\ up # 0 /\ NameOf(p) = n
<1>1. PICK K \in Nat \ {0} : K = Len(p) /\ p \in [1..K -> Names] /\ 1 \in 1..K /\ K \in 1..K
  <2>1. Len(p) \in Nat \ {0} /\ p \in [1..Len(p) -> Names] BY PathFacts
  <2>2. \A a \in Nat \ {0} : 1 \in 1..a /\ a \in 1..a OBVIOUS
  <2>3. 1 \in 1..Len(p) /\ Len(p) \in 1..Len(p) BY <2>1, <2>2
  <2> QED BY <2>1, <2>3, Zenon
<1>2. PICK w \in [1..K -> Places(d)] : IsWalk(d, p, w) /\ ParentBlk(d, p) = w[K] BY <1>1, ParentIs
<1>3. PICK v \in [1..K -> Places(d2)] : IsWalk(d2, p, v) /\ ParentBlk(d2, p) = v[K] BY <1>1, ParentIs
<1>4. w[1] = RootBlk /\ \A i \in 2..K : w[i] = Down(d, w[i - 1], p[i - 1]) BY <1>1, <1>2 DEF IsWalk
<1>5. v[1] = RootBlk /\ \A i \in 2..K : v[i] = Down(d2, v[i - 1], p[i - 1]) BY <1>1, <1>3 DEF IsWalk
<1> DEFINE P == {i \in 1..K : w[i] = v[i] \/ (Blank(d, w[i]) /\ Blank(d2, v[i]))}
<1>6. 1 \in P BY <1>1, <1>4, <1>5
<1>7. \A i \in (1 + 1)..K : i - 1 \in P => i \in P
  <2> TAKE i \in (1 + 1)..K
  <2> HAVE i - 1 \in P
  <2>1. i \in 2..K /\ i \in 1..K /\ i - 1 \in 1..K OBVIOUS
  <2>2. PICK x, y, m : x = w[i - 1] /\ y = v[i - 1] /\ m = p[i - 1] /\ x \in Places(d) /\ m \in Names
    BY <1>1, <1>2, <2>1
  <2>3. w[i] = Down(d, x, m) /\ v[i] = Down(d2, y, m) BY <1>4, <1>5, <2>1, <2>2
  <2>4. CASE Blank(d, x) /\ Blank(d2, y)
    <3>1. w[i] = v[i] BY <2>2, <2>3, <2>4, BlankDown
    <3> QED BY <2>1, <3>1
  <2>5. CASE x = y /\ x = up /\ m = n
    <3>1. Blank(d, w[i]) /\ Blank(d2, v[i]) BY <2>3, <2>5 DEF Renames
    <3> QED BY <2>1, <3>1
  <2>6. CASE x = y /\ (x # up \/ m # n)
    <3>1. w[i] = v[i] BY <2>2, <2>3, <2>6, DownSame
    <3> QED BY <2>1, <3>1
  <2>7. x = y \/ (Blank(d, x) /\ Blank(d2, y)) BY <2>2
  <2> QED BY <2>4, <2>5, <2>6, <2>7
<1> HIDE DEF P
<1>8. \A i \in 1..K : i \in P
  <2>1. 1 \in Nat /\ K \in Nat /\ 1 \in 1..K BY <1>1
  <2> QED BY <1>6, <1>7, <2>1, StepByStep
<1>9. PICK x, y, m : x = w[K] /\ y = v[K] /\ m = NameOf(p) /\ m \in Names /\ x \in Places(d) BY <1>1, <1>2, PathFacts
<1>10. Find(d, p) = (IF x = 0 THEN 0 ELSE Hit(d.dirs[x], m)) /\ Find(d2, p) = (IF y = 0 THEN 0 ELSE Hit(d2.dirs[y], m))
  BY <1>2, <1>3, <1>9 DEF Find
<1>11. x = y \/ (Blank(d, x) /\ Blank(d2, y)) BY <1>1, <1>8, <1>9 DEF P
<1>12. ~(Blank(d, x) /\ Blank(d2, y)) BY <1>9, <1>10 DEF Blank
<1>13. x = y /\ x # 0 BY <1>10, <1>11, <1>12
<1>14. x \in Blks BY <1>9, <1>13 DEF Places
<1>15. x = up /\ m = n
  <2> SUFFICES ASSUME x # up \/ m # n PROVE FALSE OBVIOUS
  <2>1. Hit(d2.dirs[x], m) = Hit(d.dirs[x], m) BY <1>9, <1>14 DEF Renames, SameHits
  <2> QED BY <1>10, <1>13, <2>1
<1> QED BY <1>2, <1>9, <1>13, <1>15

LEMMA OneName ==
  ASSUME NEW d, NEW f, NEW lk, FsInv(d, f, lk), NEW d2, NEW f2, NEW lk2, FsInv(d2, f2, lk2),
         NEW up, NEW n, Renames(d, d2, up, n)
  PROVE  Cardinality({p \in Paths : Find(d, p) # Find(d2, p)}) <= 1
<1>1. PICK S : S = {p \in Paths : Find(d, p) # Find(d2, p)} OBVIOUS
<1>2. CASE S = {}
  <2>1. Cardinality(S) = 0 BY <1>2, FS_EmptySet
  <2> QED BY <1>1, <2>1
<1>3. CASE S # {}
  <2>1. PICK q : q \in S BY <1>3
  <2>2. ASSUME NEW p \in S PROVE p \in PathsOf /\ ParentBlk(d, p) = up /\ up # 0 /\ NameOf(p) = n
    <3>1. p \in Paths /\ Find(d2, p) # Find(d, p) BY <1>1, <2>2
    <3>2. p \in PathsOf BY <3>1, PathFacts
    <3> QED BY <3>1, <3>2, WalkSame
  <2>3. ASSUME NEW p \in S PROVE p = q
    <3>1. p \in PathsOf /\ ParentBlk(d, p) = up /\ up # 0 /\ NameOf(p) = n BY <2>2
    <3>2. q \in PathsOf /\ ParentBlk(d, q) = up /\ NameOf(q) = n BY <2>1, <2>2
    <3> QED BY <3>1, <3>2, OnePath
  <2>4. S = {q} BY <2>1, <2>3
  <2>5. Cardinality(S) = 1 BY <2>4, FS_Singleton
  <2> QED BY <1>1, <2>5
<1> QED BY <1>2, <1>3

-----------------------------------------------------------------------------
(* What each call gives another meaning.                                    *)

\* A directory without entries.
LEMMA NoHits ==
  ASSUME NEW dir \in Dirs, \A s \in DOMAIN dir : ~(dir[s].ino > 0), NEW m
  PROVE  Hit(dir, m) = 0
BY HitIs

\* vfs_mkdir, and open of a new file: there was nothing by this name.
LEMMA RenamesCreated ==
  ASSUME NEW d, NEW f, NEW lk, NEW path, NEW type, NEW ref, NEW d2, NEW k, NEW B,
         Creates(d, f, lk, path, type, ref, d2, k, B)
  PROVE  Renames(d, d2, ParentBlk(d, path), NameOf(path))
<1>1. FsInv(d, f, lk) /\ path \in PathsOf /\ MayCreate(d, path) /\ ~Full(d.dirs[ParentBlk(d, path)]) /\ type \in Types
  BY DEF Creates
<1>2. PICK up, n : up = ParentBlk(d, path) /\ n = NameOf(path) OBVIOUS
<1>3. n \in Names BY <1>1, <1>2, PathFacts
<1>4. up \in Blks /\ IsDirBlk(d, up) /\ Hit(d.dirs[up], n) = 0 /\ ~Full(d.dirs[up])
  <2>1. up # 0 /\ Find(d, path) = 0 BY <1>1, <1>2 DEF MayCreate
  <2> QED BY <1>1, <1>2, <2>1, FindIs
<1>5. /\ DiskTyped(d2) /\ k \in Nat \ {0} /\ k \notin Inos(d)
      /\ \A i \in Inos(d) : d2.inodes[i] = d.inodes[i]
      /\ d2.inodes[k] = Inode(type, ref, 1, B) /\ B \in Blks /\ ~d.occupied[B]
      /\ d2.dirs[up] = EntryAdded(d.dirs[up], k, n)
      /\ \A b \in Blks : b # up => SaysTheSame(d.dirs[b], d2.dirs[b])
  BY <1>2, CreatedIs
<1>6. d.dirs \in [Blks -> Dirs] /\ d2.dirs \in [Blks -> Dirs] BY <1>1, <1>5, InodeFacts DEF FsInv
<1>7. (\A m : m # n => Hit(d2.dirs[up], m) = Hit(d.dirs[up], m)) /\ Hit(d2.dirs[up], n) = k
  <2>1. PICK dir \in Dirs : dir = d.dirs[up] /\ ~Full(dir) /\ Hit(dir, n) = 0 BY <1>4, <1>6
  <2>2. /\ \A m : m # n => Hit(EntryAdded(dir, k, n), m) = Hit(dir, m)
        /\ Hit(EntryAdded(dir, k, n), n) = IF Hit(dir, n) = 0 THEN k ELSE Hit(dir, n)
    BY <1>3, <1>5, <2>1, HitAdded
  <2> QED BY <1>5, <2>1, <2>2
<1>8. \A b \in Blks : \A m : b # up => Hit(d2.dirs[b], m) = Hit(d.dirs[b], m) BY <1>5, <1>6, HitSame
<1>9. SameHits(d.dirs, d2.dirs, up, n)
  <2> SUFFICES ASSUME NEW b \in Blks, NEW m \in Names, b # up \/ m # n PROVE Hit(d2.dirs[b], m) = Hit(d.dirs[b], m)
    BY DEF SameHits
  <2>1. CASE b # up BY <1>8, <2>1
  <2>2. CASE b = up BY <1>7, <2>2
  <2> QED BY <2>1, <2>2
<1>10. Blank(d, Down(d, up, n))
  <2>1. Down(d, up, n) = 0
    <3>1. ~(0 > 0) OBVIOUS
    <3> QED BY <1>4, <3>1 DEF Down
  <2> QED BY <2>1 DEF Blank
<1>11. Blank(d2, Down(d2, up, n))
  <2>1. up # 0 /\ k > 0 BY <1>4, <1>5, BlksAssumption
  <2>2. d2.inodes[k].type = type /\ d2.inodes[k].blk = B BY <1>5 DEF Inode
  <2>3. Down(d2, up, n) = IF type = "dir" THEN B ELSE 0 BY <1>7, <2>1, <2>2 DEF Down
  <2>4. B # up /\ \A s \in DOMAIN d.dirs[B] : d.dirs[B][s].ino <= 0 BY <1>1, <1>4, <1>5, FreeIsEmpty
  <2>5. d.dirs[B] \in Dirs BY <1>5, <1>6
  <2>6. \A s \in DOMAIN d.dirs[B] : ~(d.dirs[B][s].ino > 0)
    <3>1. \A s \in DOMAIN d.dirs[B] : d.dirs[B][s].ino \in Int BY <2>5, DirFacts
    <3> QED BY <2>4, <3>1
  <2>7. \A m \in Names : Hit(d2.dirs[B], m) = 0
    <3> TAKE m \in Names
    <3>1. Hit(d.dirs[B], m) = 0 BY <2>5, <2>6, NoHits
    <3> QED BY <1>5, <1>8, <2>4, <3>1
  <2> QED BY <2>3, <2>7 DEF Blank
<1>12. \A i \in Inos(d) : /\ d2.inodes[i].type = d.inodes[i].type
                          /\ d.inodes[i].type = "dir" => d2.inodes[i].blk = d.inodes[i].blk
  BY <1>5
<1>13. Renames(d, d2, up, n) BY <1>9, <1>10, <1>11, <1>12 DEF Renames
<1> QED BY <1>2, <1>13

\* Where a name goes, another entry with this name may be left: it is a file.
LEMMA LeftIsFile ==
  ASSUME NEW d, NEW f, NEW lk, FsInv(d, f, lk), NamesOnce(d), NEW d2, NEW f2, NEW lk2, FsInv(d2, f2, lk2),
         \A b \in Blks : \A s \in DOMAIN d2.dirs[b] :
           d2.dirs[b][s].ino > 0 => s \in DOMAIN d.dirs[b] /\ d2.dirs[b][s] = d.dirs[b][s],
         Inos(d2) = Inos(d), \A i \in Inos(d) : d2.inodes[i].type = d.inodes[i].type,
         NEW path, NEW k \in Nat \ {0}, NEW up \in Blks, NEW h, IsHit(d, path, k, up, h),
         NEW j, j = Hit(d2.dirs[up], NameOf(path)), j # 0
  PROVE  LinksTo(d2.dirs, j) # {} /\ (j = k \/ d2.inodes[j].type = "file")
<1>1. PICK n : n = NameOf(path) OBVIOUS
<1>2. PICK g \in DOMAIN d2.dirs[up] :
        /\ j \in Inos(d2) /\ j > 0 /\ d2.dirs[up][g].ino = j /\ d2.dirs[up][g].name = n
        /\ <<up, g, j>> \in LinksTo(d2.dirs, j)
  <2>1. Hit(d2.dirs[up], n) # 0 /\ j = Hit(d2.dirs[up], n) BY <1>1
  <2>2. /\ Hit(d2.dirs[up], n) \in Inos(d2) \ {Root} /\ Hit(d2.dirs[up], n) > 0
        /\ \E g \in DOMAIN d2.dirs[up] :
             /\ d2.dirs[up][g].ino = Hit(d2.dirs[up], n) /\ d2.dirs[up][g].name = n
             /\ <<up, g, Hit(d2.dirs[up], n)>> \in LinksTo(d2.dirs, Hit(d2.dirs[up], n))
    BY <2>1, HitAlive
  <2>3. /\ j \in Inos(d2) \ {Root} /\ j > 0
        /\ \E g \in DOMAIN d2.dirs[up] :
             d2.dirs[up][g].ino = j /\ d2.dirs[up][g].name = n /\ <<up, g, j>> \in LinksTo(d2.dirs, j)
    BY <2>1, <2>2
  <2> QED BY <2>3
<1>3. g \in DOMAIN d.dirs[up] /\ d.dirs[up][g].ino = j /\ d.dirs[up][g].name = n /\ d.dirs[up][g].ino > 0
  BY <1>2
<1>4. h \in DOMAIN d.dirs[up] /\ d.dirs[up][h].ino = k /\ d.dirs[up][h].name = n /\ h <= g
  BY <1>1, <1>3 DEF IsHit
<1>5. CASE g = h BY <1>2, <1>3, <1>4, <1>5
<1>6. CASE g # h
  <2>1. g \in Int /\ h \in Int
    <3>1. d.dirs[up] \in Dirs BY InodeFacts DEF FsInv
    <3>2. DirSlots \in Nat BY SizesAssumption
    <3> QED BY <1>3, <1>4, <3>1, <3>2, DirFacts
  <2>2. h < g BY <1>4, <1>6, <2>1
  <2>3. d.dirs[up][h].ino > 0 BY <1>4
  <2>4. d.inodes[d.dirs[up][g].ino].type = "file" BY <1>3, <1>4, <2>2, <2>3 DEF NamesOnce
  <2>5. d.inodes[j].type = "file" /\ j \in Inos(d) BY <1>2, <1>3, <2>4
  <2> QED BY <1>2, <2>5
<1> QED BY <1>5, <1>6

\* What the name of an entry leads to, if it is the one that is found.
LEMMA DownIs ==
  ASSUME NEW d, NEW path, NEW k \in Nat \ {0}, NEW up \in Blks, NEW h, IsHit(d, path, k, up, h)
  PROVE  Down(d, up, NameOf(path)) = IF d.inodes[k].type = "dir" THEN d.inodes[k].blk ELSE 0
<1>1. Hit(d.dirs[up], NameOf(path)) = k BY DEF IsHit, Hit
<1>2. k > 0 /\ up # 0 BY BlksAssumption
<1> QED BY <1>1, <1>2 DEF Down

\* vfs_rmdir.
LEMMA RenamesRmdir ==
  ASSUME NEW d, NEW f, NEW lk, NEW path, NEW k, NEW up, Named(d, f, lk, path, "dir", k, up),
         NEW d2, Is(d2, RmdirDisk(d, path, k)), NamesOnce(d),
         \A s \in DOMAIN d.dirs[d.inodes[k].blk] : ~(d.dirs[d.inodes[k].blk][s].ino > 0)
  PROVE  Renames(d, d2, up, NameOf(path))
<1>0. FsInv(d, f, lk) BY DEF Named
<1>1. PICK h : IsHit(d, path, k, up, h) BY LookupIs
<1>2. up \in Blks /\ k \in Nat \ {0} /\ k \in Inos(d) /\ d.inodes[k].type = "dir"
  <2>1. up \in Blks /\ k \in Inos(d) \ {Root} /\ k \in Nat \ {0} /\ d.inodes[k].type = "dir" BY LookupIs
  <2> QED BY <2>1
<1>3. /\ FsInv(d2, f, lk) /\ Inos(d2) = Inos(d)
      /\ \A i \in Inos(d) : d2.inodes[i] = d.inodes[i]
      /\ \A b \in Blks : \A s \in DOMAIN d2.dirs[b] :
           d2.dirs[b][s].ino > 0 => s \in DOMAIN d.dirs[b] /\ d2.dirs[b][s] = d.dirs[b][s]
      /\ SameHits(d.dirs, d2.dirs, up, NameOf(path)) /\ LinksTo(d2.dirs, k) = {}
  BY RmdirInv
<1>4. PICK b \in Blks : b = d.inodes[k].blk /\ d.dirs[b] \in Dirs BY <1>0, <1>2, InodeFacts DEF FsInv
<1>5. Blank(d, Down(d, up, NameOf(path)))
  <2>1. Down(d, up, NameOf(path)) = b BY <1>1, <1>2, <1>4, DownIs
  <2>2. \A m \in Names : Hit(d.dirs[b], m) = 0
    <3>1. \A s \in DOMAIN d.dirs[b] : ~(d.dirs[b][s].ino > 0) BY <1>4
    <3> QED BY <1>4, <3>1, NoHits
  <2> QED BY <2>1, <2>2 DEF Blank
<1>6. Down(d2, up, NameOf(path)) = 0
  <2>1. PICK j : j = Hit(d2.dirs[up], NameOf(path)) OBVIOUS
  <2>2. ~(0 > 0) /\ "file" # "dir" OBVIOUS
  <2>3. CASE j = 0 BY <2>1, <2>2, <2>3 DEF Down
  <2>4. CASE j # 0
    <3>1. LinksTo(d2.dirs, j) # {} /\ (j = k \/ d2.inodes[j].type = "file")
      BY <1>0, <1>1, <1>2, <1>3, <2>1, <2>4, LeftIsFile
    <3>2. d2.inodes[j].type = "file" BY <1>3, <3>1
    <3> QED BY <2>1, <2>2, <3>2 DEF Down
  <2> QED BY <2>3, <2>4
<1>7. Blank(d2, Down(d2, up, NameOf(path))) BY <1>6 DEF Blank
<1>8. \A i \in Inos(d) : /\ d2.inodes[i].type = d.inodes[i].type
                         /\ d.inodes[i].type = "dir" => d2.inodes[i].blk = d.inodes[i].blk
  BY <1>3
<1> QED BY <1>3, <1>5, <1>7, <1>8 DEF Renames

\* vfs_unlink.
LEMMA RenamesUnlink ==
  ASSUME NEW d, NEW f, NEW lk, NEW path, NEW k, NEW up, Named(d, f, lk, path, "file", k, up),
         NEW d2, Is(d2, UnlinkedDisk(d, path, k)), NamesOnce(d)
  PROVE  Renames(d, d2, up, NameOf(path))
<1>0. FsInv(d, f, lk) BY DEF Named
<1>1. PICK h : IsHit(d, path, k, up, h) BY LookupIs
<1>2. up \in Blks /\ k \in Nat \ {0} /\ k \in Inos(d) /\ d.inodes[k].type = "file"
  <2>1. up \in Blks /\ k \in Inos(d) \ {Root} /\ k \in Nat \ {0} /\ d.inodes[k].type = "file" BY LookupIs
  <2> QED BY <2>1
<1>3. /\ FsInv(d2, f, lk) /\ Inos(d2) = Inos(d)
      /\ \A i \in Inos(d) : d2.inodes[i].type = d.inodes[i].type
      /\ \A b \in Blks : \A s \in DOMAIN d2.dirs[b] :
           d2.dirs[b][s].ino > 0 => s \in DOMAIN d.dirs[b] /\ d2.dirs[b][s] = d.dirs[b][s]
      /\ SameHits(d.dirs, d2.dirs, up, NameOf(path)) /\ \A i \in Inos(d) : i # k => d2.inodes[i] = d.inodes[i]
  BY UnlinkInv
<1>4. ~(0 > 0) /\ "file" # "dir" OBVIOUS
<1>5. Blank(d, Down(d, up, NameOf(path)))
  <2>1. Down(d, up, NameOf(path)) = 0 BY <1>1, <1>2, <1>4, DownIs
  <2> QED BY <2>1 DEF Blank
<1>6. Down(d2, up, NameOf(path)) = 0
  <2>1. PICK j : j = Hit(d2.dirs[up], NameOf(path)) OBVIOUS
  <2>2. CASE j = 0 BY <1>4, <2>1, <2>2 DEF Down
  <2>3. CASE j # 0
    <3>1. j = k \/ d2.inodes[j].type = "file"
      BY <1>0, <1>1, <1>2, <1>3, <2>1, <2>3, LeftIsFile
    <3>2. d2.inodes[j].type = "file" BY <1>2, <1>3, <3>1
    <3> QED BY <1>4, <2>1, <3>2 DEF Down
  <2> QED BY <2>2, <2>3
<1>7. Blank(d2, Down(d2, up, NameOf(path))) BY <1>6 DEF Blank
<1>8. \A i \in Inos(d) : /\ d2.inodes[i].type = d.inodes[i].type
                         /\ d.inodes[i].type = "dir" => d2.inodes[i].blk = d.inodes[i].blk
  BY <1>2, <1>3, <1>4
<1> QED BY <1>3, <1>5, <1>7, <1>8 DEF Renames

\* All names mean what they meant.
LEMMA RenamesNothing ==
  ASSUME NEW d, NEW d2,
         \A b \in Blks, m \in Names : Hit(d2.dirs[b], m) = Hit(d.dirs[b], m),
         \A i \in Inos(d) : /\ d2.inodes[i].type = d.inodes[i].type
                            /\ d.inodes[i].type = "dir" => d2.inodes[i].blk = d.inodes[i].blk
  PROVE  \E v, m : Renames(d, d2, v, m)
<1>1. PICK v, n : v = 0 /\ n = Garbage OBVIOUS
<1>2. SameHits(d.dirs, d2.dirs, v, n) BY DEF SameHits
<1>3. Down(d, v, n) = 0 /\ Down(d2, v, n) = 0
  <2>1. ~(0 > 0) OBVIOUS
  <2> QED BY <1>1, <2>1 DEF Down
<1>4. Blank(d, Down(d, v, n)) /\ Blank(d2, Down(d2, v, n)) BY <1>3 DEF Blank
<1>5. \A i \in Inos(d) : /\ d2.inodes[i].type = d.inodes[i].type
                         /\ d.inodes[i].type = "dir" => d2.inodes[i].blk = d.inodes[i].blk
  OBVIOUS
<1>6. Renames(d, d2, v, n) BY <1>2, <1>4, <1>5, Zenon DEF Renames
<1> QED BY <1>6

\* vfs_open and vfs_write: a file stays a file, and everything else in the disk what it is.
LEMMA RenamesTouched ==
  ASSUME NEW d, DiskTyped(d), NEW k \in Inos(d), d.inodes[k].type = "file", NEW n, n.type = "file",
         NEW occ, NEW d2, Is(d2, [d EXCEPT !.inodes = [d.inodes EXCEPT ![k] = n], !.occupied = occ])
  PROVE  \E v, m : Renames(d, d2, v, m)
<1>1. d = [inodes |-> d.inodes, occupied |-> d.occupied, dirs |-> d.dirs, newBuf |-> d.newBuf] BY DiskIs
<1>2. PICK X : X = [d.inodes EXCEPT ![k] = n] OBVIOUS
<1>3. d2.dirs = d.dirs /\ d2.inodes = X BY <1>1, <1>2 DEF Is
<1>4. k \in DOMAIN d.inodes /\ Inos(d) = DOMAIN d.inodes BY InodeFacts
<1>5. X[k] = n /\ \A i \in Inos(d) : i # k => X[i] = d.inodes[i] BY <1>2, <1>4
<1>6. \A i \in Inos(d) : /\ d2.inodes[i].type = d.inodes[i].type
                         /\ d.inodes[i].type = "dir" => d2.inodes[i].blk = d.inodes[i].blk
  <2> TAKE i \in Inos(d)
  <2>1. "file" # "dir" OBVIOUS
  <2>2. CASE i = k BY <1>3, <1>5, <2>1, <2>2
  <2>3. CASE i # k BY <1>3, <1>5, <2>3
  <2> QED BY <2>2, <2>3
<1>7. \A b \in Blks, m \in Names : Hit(d2.dirs[b], m) = Hit(d.dirs[b], m) BY <1>3
<1> QED BY <1>6, <1>7, RenamesNothing

\* vfs_link: a name that is there already, that of a directory, means what it meant.
LEMMA RenamesLink ==
  ASSUME NEW d, NEW f, NEW lk, NEW old, NEW k, NEW oldUp, Named(d, f, lk, old, "file", k, oldUp),
         NEW path \in PathsOf, NEW up, up = ParentBlk(d, path), NEW d2, Is(d2, LinkedDisk(d, k, up, NameOf(path))),
         NEW lk2 \in BOOLEAN, lk => lk2, ~(up # 0 /\ ~Full(d.dirs[up])) => lk2, NamesOnce(d)
  PROVE  \E v, m : Renames(d, d2, v, m)
<1>0. FsInv(d, f, lk) BY DEF Named
<1>1. k \in Nat \ {0} /\ k \in Inos(d) /\ d.inodes[k].type = "file"
  <2>1. k \in Inos(d) \ {Root} /\ k \in Nat \ {0} /\ d.inodes[k].type = "file" BY LookupIs
  <2> QED BY <2>1
<1>2. PICK n \in Names : n = NameOf(path) BY PathFacts
<1>3. /\ FsInv(d2, f, lk2)
      /\ \A i \in Inos(d) : d2.inodes[i].type = d.inodes[i].type
      /\ \A i \in Inos(d) : i # k => d2.inodes[i] = d.inodes[i]
      /\ \/ d2.dirs = d.dirs
         \/ /\ up \in Blks /\ ~Full(d.dirs[up]) /\ d2.dirs[up] = EntryAdded(d.dirs[up], k, n)
            /\ \A b \in Blks : b # up => SaysTheSame(d.dirs[b], d2.dirs[b])
  BY <1>2, LinkInv
<1>7. \A i \in Inos(d) : /\ d2.inodes[i].type = d.inodes[i].type
                         /\ d.inodes[i].type = "dir" => d2.inodes[i].blk = d.inodes[i].blk
  <2>1. "file" # "dir" OBVIOUS
  <2> QED BY <1>1, <1>3, <2>1
<1>10. CASE d2.dirs = d.dirs
  <2>1. \A b \in Blks, m \in Names : Hit(d2.dirs[b], m) = Hit(d.dirs[b], m) BY <1>10
  <2> QED BY <1>7, <2>1, RenamesNothing
<1> SUFFICES ASSUME up \in Blks, ~Full(d.dirs[up]), d2.dirs[up] = EntryAdded(d.dirs[up], k, n),
                    \A b \in Blks : b # up => SaysTheSame(d.dirs[b], d2.dirs[b])
             PROVE  \E v, m : Renames(d, d2, v, m)
  BY <1>3, <1>10
<1>4. d.dirs \in [Blks -> Dirs] /\ d2.dirs \in [Blks -> Dirs] BY <1>0, <1>3, InodeFacts DEF FsInv
<1>5. /\ \A m : m # n => Hit(d2.dirs[up], m) = Hit(d.dirs[up], m)
      /\ Hit(d2.dirs[up], n) = IF Hit(d.dirs[up], n) = 0 THEN k ELSE Hit(d.dirs[up], n)
  <2>1. PICK dir \in Dirs : dir = d.dirs[up] /\ ~Full(dir) BY <1>4
  <2>2. /\ \A m : m # n => Hit(EntryAdded(dir, k, n), m) = Hit(dir, m)
        /\ Hit(EntryAdded(dir, k, n), n) = IF Hit(dir, n) = 0 THEN k ELSE Hit(dir, n)
    BY <1>1, <2>1, HitAdded
  <2> QED BY <2>1, <2>2
<1>6. \A b \in Blks : \A m : b # up => Hit(d2.dirs[b], m) = Hit(d.dirs[b], m) BY <1>4, HitSame
<1>8. CASE Hit(d.dirs[up], n) = 0
  <2>1. SameHits(d.dirs, d2.dirs, up, n)
    <3> SUFFICES ASSUME NEW b \in Blks, NEW m \in Names, b # up \/ m # n PROVE Hit(d2.dirs[b], m) = Hit(d.dirs[b], m)
      BY DEF SameHits
    <3>1. CASE b # up BY <1>6, <3>1
    <3>2. CASE b = up BY <1>5, <3>2
    <3> QED BY <3>1, <3>2
  <2>2. ~(0 > 0) /\ "file" # "dir" OBVIOUS
  <2>3. Down(d, up, n) = 0 BY <1>8, <2>2 DEF Down
  <2>4. Down(d2, up, n) = 0
    <3>1. Hit(d2.dirs[up], n) = k BY <1>5, <1>8
    <3>2. d2.inodes[k].type = "file" BY <1>1, <1>3
    <3> QED BY <2>2, <3>1, <3>2 DEF Down
  <2>5. Renames(d, d2, up, n) BY <1>7, <2>1, <2>3, <2>4 DEF Renames, Blank
  <2> QED BY <2>5
<1>9. CASE Hit(d.dirs[up], n) # 0
  <2> SUFFICES ASSUME NEW b \in Blks, NEW m \in Names PROVE Hit(d2.dirs[b], m) = Hit(d.dirs[b], m)
    BY <1>7, RenamesNothing
  <2>1. CASE b # up BY <1>6, <2>1
  <2>2. CASE b = up BY <1>5, <1>9, <2>2
  <2> QED BY <2>1, <2>2
<1> QED BY <1>8, <1>9

\* vfs_close: a block that is given back is no directory's.
LEMMA RenamesClose ==
  ASSUME NEW d, NEW f, NEW lk, FsInv(d, f, lk), NEW k \in Inos(d) \ {Root}, d.inodes[k].type = "file",
         NEW f2, FilesTyped(f2), \A i \in Nat \ {0} : i # k => OpensOf(f2, i) = OpensOf(f, i),
         NEW e, e \in OpensOf(f, k), OpensOf(f2, k) = OpensOf(f, k) \ {e},
         NEW d2, Is(d2, ClosedDisk(d, k))
  PROVE  \E v, m : Renames(d, d2, v, m)
<1>1. /\ \A i \in Inos(d) : d2.inodes[i].type = d.inodes[i].type
      /\ \A b \in Blks, m \in Names : Hit(d2.dirs[b], m) = Hit(d.dirs[b], m)
      /\ \A i \in Inos(d) : i # k => d2.inodes[i] = d.inodes[i]
  BY CloseInv
<1>2. \A i \in Inos(d) : /\ d2.inodes[i].type = d.inodes[i].type
                         /\ d.inodes[i].type = "dir" => d2.inodes[i].blk = d.inodes[i].blk
  <2>1. "file" # "dir" OBVIOUS
  <2> QED BY <1>1, <2>1
<1> QED BY <1>1, <1>2, RenamesNothing

\* A call gives one name another meaning, or none.
OneRenamed == \E up, n : Renames(disk, disk', up, n)

LEMMA SameDisk == ASSUME UNCHANGED disk PROVE OneRenamed
BY RenamesNothing DEF OneRenamed

LEMMA MkdirRenames ==
  ASSUME VfsInv, NEW path \in Paths, Mkdir(path), ~strayed'
  PROVE  OneRenamed
<1>1. CASE Panic
  <2>1. disk' = disk BY <1>1 DEF Panic
  <2> QED BY <2>1, SameDisk
<1>2. CASE /\ ~CannotCreate(disk) /\ disk' = Created(disk, path, "dir", 0)
           /\ Strays(Full(disk.dirs[ParentBlk(disk, path)]) \/ NamesLeft(disk.newBuf))
  <2>4. ~Full(disk.dirs[ParentBlk(disk, path)]) /\ ~NamesLeft(disk.newBuf) BY <1>2 DEF Strays
  <2>1. PICK k, B, ref, type : k = Len(disk.inodes) + 1 /\ B = Min(FreeBlks(disk)) /\ ref = 0 /\ type = "dir" OBVIOUS
  <2>2. type \in Types /\ ref \in {0, 1} BY <2>1 DEF Types
  <2>3. Creates(disk, fildes, leak, path, type, ref, disk', k, B) BY <1>2, <2>1, <2>2, <2>4, MayCreates DEF Mkdir
  <2> QED BY <2>3, RenamesCreated DEF OneRenamed
<1> QED BY <1>1, <1>2 DEF Mkdir

LEMMA CreateFileRenames ==
  ASSUME VfsInv, NEW t \in Tasks, NEW path \in Paths, CreateFile(t, path), ~strayed'
  PROVE  OneRenamed
<1>1. CASE Panic
  <2>1. disk' = disk BY <1>1 DEF Panic
  <2> QED BY <2>1, SameDisk
<1>2. CASE /\ ~CannotCreate(disk) /\ disk' = Created(disk, path, "file", 1)
           /\ Strays(Full(disk.dirs[ParentBlk(disk, path)]))
  <2>4. ~Full(disk.dirs[ParentBlk(disk, path)]) BY <1>2 DEF Strays
  <2>1. PICK k, B, ref, type : k = Len(disk.inodes) + 1 /\ B = Min(FreeBlks(disk)) /\ ref = 1 /\ type = "file" OBVIOUS
  <2>2. type \in Types /\ ref \in {0, 1} BY <2>1 DEF Types
  <2>3. Creates(disk, fildes, leak, path, type, ref, disk', k, B) BY <1>2, <2>1, <2>2, <2>4, MayCreates DEF CreateFile
  <2> QED BY <2>3, RenamesCreated DEF OneRenamed
<1> QED BY <1>1, <1>2 DEF CreateFile

LEMMA RmdirRenames ==
  ASSUME VfsInv, NEW path \in Paths, Rmdir(path), ~strayed'
  PROVE  OneRenamed
<1>1. PICK k, up : k = Lookup(disk, path, "dir") /\ up = ParentBlk(disk, path) OBVIOUS
<1>2. FsInv(disk, fildes, leak) /\ NamesOnce(disk) BY DEF VfsInv, Sound
<1>3. Named(disk, fildes, leak, path, "dir", k, up) BY <1>1, <1>2, PathFacts DEF Rmdir, Named
<1>4. Is(disk', RmdirDisk(disk, path, k)) BY <1>1 DEF Is, Rmdir, RmdirDisk
<1>5. CASE LooksEmpty(disk, up, disk.inodes[k].blk)
  <2>1. \A s \in DOMAIN disk.dirs[disk.inodes[k].blk] : ~(disk.dirs[disk.inodes[k].blk][s].ino > 0)
    BY <1>1, <1>5 DEF Rmdir, Strays, InUse
  <2>2. Renames(disk, disk', up, NameOf(path)) BY <1>2, <1>3, <1>4, <2>1, RenamesRmdir
  <2> QED BY <2>2 DEF OneRenamed
<1>6. CASE ~LooksEmpty(disk, up, disk.inodes[k].blk)
  <2>1. PICK buf : buf = disk.dirs[disk.inodes[k].blk] OBVIOUS
  <2>2. buf \in Dirs
    <3>1. k \in Inos(disk) /\ disk.inodes[k].type = "dir" BY <1>3, LookupIs
    <3>2. DiskTyped(disk) BY <1>2 DEF FsInv
    <3> QED BY <2>1, <3>1, <3>2, InodeFacts
  <2>3. Is(disk', Buffered(disk, buf)) BY <1>1, <1>4, <1>6, <2>1 DEF Is, RmdirDisk, Buffered
  <2>4. disk'.inodes = disk.inodes /\ disk'.dirs = disk.dirs BY <1>2, <2>2, <2>3, BufferedInv
  <2> QED BY <2>4, RenamesNothing DEF OneRenamed
<1> QED BY <1>5, <1>6

LEMMA UnlinkRenames ==
  ASSUME VfsInv, NEW path \in Paths, Unlink(path)
  PROVE  OneRenamed
<1>1. PICK k, up : k = Lookup(disk, path, "file") /\ up = ParentBlk(disk, path) OBVIOUS
<1>2. FsInv(disk, fildes, leak) /\ NamesOnce(disk) BY DEF VfsInv, Sound
<1>3. Named(disk, fildes, leak, path, "file", k, up) BY <1>1, <1>2, PathFacts DEF Unlink, Named
<1>4. Is(disk', UnlinkedDisk(disk, path, k)) BY <1>1 DEF Is, Unlink, UnlinkedDisk
<1>5. Renames(disk, disk', up, NameOf(path)) BY <1>2, <1>3, <1>4, RenamesUnlink
<1> QED BY <1>5 DEF OneRenamed

LEMMA LinkRenames ==
  ASSUME VfsInv, NEW old \in Paths, MayLink(old), NEW new \in Paths, Link(old, new)
  PROVE  OneRenamed
<1>1. PICK k, oldUp, up : k = Lookup(disk, old, "file") /\ oldUp = ParentBlk(disk, old) /\ up = ParentBlk(disk, new)
  OBVIOUS
<1>2. FsInv(disk, fildes, leak) /\ NamesOnce(disk) BY DEF VfsInv, Sound
<1>3. Named(disk, fildes, leak, old, "file", k, oldUp) BY <1>1, <1>2, PathFacts DEF MayLink, Named
<1>4. Is(disk', LinkedDisk(disk, k, up, NameOf(new))) BY <1>1 DEF Is, Link, LinkedDisk
<1>5. leak' = (leak \/ ~(up # 0 /\ ~Full(disk.dirs[up]))) BY <1>1 DEF Link
<1>6. new \in PathsOf BY PathFacts
<1>7. leak \in BOOLEAN BY <1>2 DEF FsInv
<1>8. leak' \in BOOLEAN /\ (leak => leak') /\ (~(up # 0 /\ ~Full(disk.dirs[up])) => leak') BY <1>5, <1>7
<1>9. \E v, m : Renames(disk, disk', v, m)
  BY <1>1, <1>2, <1>3, <1>4, <1>6, <1>8, RenamesLink
<1> QED BY <1>9 DEF OneRenamed

LEMMA OpenFileRenames ==
  ASSUME VfsInv, NEW t \in Tasks, NEW path \in Paths, OpenFile(t, path)
  PROVE  OneRenamed
<1>1. PICK k, up, occ : k = Lookup(disk, path, "file") /\ up = ParentBlk(disk, path) /\ occ = disk.occupied OBVIOUS
<1>2. FsInv(disk, fildes, leak) /\ DiskTyped(disk) BY DEF VfsInv, Sound, FsInv
<1>3. Named(disk, fildes, leak, path, "file", k, up) BY <1>1, <1>2, PathFacts DEF OpenFile, Named
<1>4. k \in Inos(disk) \ {Root} /\ disk.inodes[k].type = "file" BY <1>3, LookupIs
<1>5. PICK x \in InodeRec : x = disk.inodes[k] /\ x.type = "file"
  <2>1. k \in Inos(disk) BY <1>4
  <2>2. disk.inodes[k] \in InodeRec BY <1>2, <2>1, InodeFacts
  <2> QED BY <1>4, <2>2
<1>6. PICK n : n = [x EXCEPT !.refcnt = x.refcnt + 1] OBVIOUS
<1>7. n.type = "file" BY <1>5, <1>6 DEF InodeRec
<1>8. disk = [inodes |-> disk.inodes, occupied |-> disk.occupied, dirs |-> disk.dirs, newBuf |-> disk.newBuf]
  BY <1>2, DiskIs
<1>9. disk' = [disk EXCEPT !.inodes[k].refcnt = @ + 1] BY <1>1 DEF OpenFile
<1>10. Is(disk', [disk EXCEPT !.inodes = [disk.inodes EXCEPT ![k] = n], !.occupied = occ])
  BY <1>1, <1>5, <1>6, <1>8, <1>9 DEF Is
<1>11. \E v, m : Renames(disk, disk', v, m) BY <1>2, <1>4, <1>7, <1>10, RenamesTouched
<1> QED BY <1>11 DEF OneRenamed

LEMMA WriteRenames ==
  ASSUME VfsInv, NEW t \in Tasks, NEW fd \in Fds, NEW n \in Counts, Write(t, fd, n), ~strayed'
  PROVE  OneRenamed
<1>1. FsInv(disk, fildes, leak) /\ DiskTyped(disk) BY DEF VfsInv, Sound, FsInv
<1>2. PICK k, end, blk : k = fildes[t][fd].ino /\ end = (fildes[t][fd].offset + n) % Word /\ blk = disk.inodes[k].blk
  OBVIOUS
<1>3. fildes[t][fd].fs = "blkfs" BY DEF Write, IsFile
<1>4. k \in Inos(disk) \ {Root} /\ disk.inodes[k].type = "file"
  <2>1. FsInv(disk, fildes, leak) /\ k = fildes[t][fd].ino BY <1>1, <1>2
  <2>2. /\ fildes[t][fd].ino \in Inos(disk) \ {Root} /\ fildes[t][fd].ino \in Nat \ {0}
        /\ disk.inodes[fildes[t][fd].ino].type = "file" /\ OpensOf(fildes, fildes[t][fd].ino) # {}
    BY <1>3, <2>1, FileIs
  <2> QED BY <2>1, <2>2
<1>5. PICK x \in InodeRec : x = disk.inodes[k] /\ x.type = "file" BY <1>1, <1>4, InodeFacts
<1>6. PICK y : y = [x EXCEPT !.size = IF end > @ THEN end ELSE @] OBVIOUS
<1>7. y.type = "file" BY <1>5, <1>6 DEF InodeRec
<1>8. disk = [inodes |-> disk.inodes, occupied |-> disk.occupied, dirs |-> disk.dirs, newBuf |-> disk.newBuf]
  BY <1>1, DiskIs
<1>9. PICK flag : disk' = [disk EXCEPT !.inodes[k].size = IF end > @ THEN end ELSE @, !.occupied[blk] = flag]
  BY <1>2 DEF Write, InodeOf
<1>10. PICK occ : occ = [disk.occupied EXCEPT ![blk] = flag] OBVIOUS
<1>11. Is(disk', [disk EXCEPT !.inodes = [disk.inodes EXCEPT ![k] = y], !.occupied = occ])
  BY <1>5, <1>6, <1>8, <1>9, <1>10 DEF Is
<1>12. \E v, m : Renames(disk, disk', v, m) BY <1>1, <1>4, <1>7, <1>11, RenamesTouched
<1> QED BY <1>12 DEF OneRenamed

LEMMA CloseRenames ==
  ASSUME VfsInv, NEW t \in Tasks, NEW fd \in Fds, Close(t, fd)
  PROVE  OneRenamed
<1>1. FsInv(disk, fildes, leak) /\ FilesTyped(fildes) BY DEF VfsInv, Sound, FsInv
<1>2. NoFile \in FileRec /\ NoFile.ino = 0 /\ NoFile.fs # "blkfs" BY DEF NoFile, FileRec
<1>3. Is(fildes', Put(fildes, t, fd, NoFile)) BY DEF Close, Is, Put
<1>4. NoFile.fs = "blkfs" <=> NoFile.ino # 0 BY <1>2
<1>5. /\ FilesTyped(fildes') /\ fildes'[t][fd] = NoFile
      /\ \A u \in Tasks, v \in Fds : <<u, v>> # <<t, fd>> => fildes'[u][v] = fildes[u][v]
  BY <1>1, <1>2, <1>3, <1>4, FileSet
<1>6. CASE fildes[t][fd].fs # "blkfs"
  <2>1. disk' = disk BY <1>6 DEF Close
  <2> QED BY <2>1, SameDisk
<1>7. CASE fildes[t][fd].fs = "blkfs"
  <2>1. PICK k : k = fildes[t][fd].ino OBVIOUS
  <2>2. k \in Inos(disk) \ {Root} /\ k \in Nat \ {0} /\ disk.inodes[k].type = "file"
    <3>1. FsInv(disk, fildes, leak) BY <1>1
    <3>2. /\ fildes[t][fd].ino \in Inos(disk) \ {Root} /\ fildes[t][fd].ino \in Nat \ {0}
          /\ disk.inodes[fildes[t][fd].ino].type = "file"
      BY <1>7, <3>1, FileIs
    <3> QED BY <2>1, <3>2
  <2>3. Is(disk', ClosedDisk(disk, k)) BY <1>7, <2>1 DEF Close, InodeOf, Is, ClosedDisk
  <2>4. /\ \A i \in Nat \ {0} : i # k => OpensOf(fildes', i) = OpensOf(fildes, i)
        /\ \E e : e \in OpensOf(fildes, k) /\ OpensOf(fildes', k) = OpensOf(fildes, k) \ {e}
    <3>1. fildes[t][fd].ino = k /\ fildes'[t][fd].ino = 0 BY <1>2, <1>5, <2>1
    <3>2. \A u \in Tasks, v \in Fds : <<u, v>> # <<t, fd>> => fildes'[u][v].ino = fildes[u][v].ino BY <1>5
    <3>3. k \in Nat \ {0} BY <2>2
    <3> QED BY <3>1, <3>2, <3>3, OpensRemoved, SMTT(30)
  <2>5. PICK e : e \in OpensOf(fildes, k) /\ OpensOf(fildes', k) = OpensOf(fildes, k) \ {e} BY <2>4
  <2>6. \E v, m : Renames(disk, disk', v, m) BY <1>1, <1>5, <2>2, <2>3, <2>4, <2>5, RenamesClose
  <2> QED BY <2>6 DEF OneRenamed
<1> QED BY <1>6, <1>7

LEMMA StepRenames ==
  ASSUME VfsInv, TodoTyped, Next, ~strayed'
  PROVE  OneRenamed
<1>1. Typed \subseteq Fds BY DEF Typed
<1>2. PICK t \in Tasks :
        \/ MkdirCommand(t) \/ RmdirCommand(t) \/ AccessCommand(t) \/ UnmountCommand(t) \/ UnlinkCommand(t)
        \/ LinkCommand(t) \/ OpenCommand(t) \/ CloseCommand(t) \/ ReadCommand(t) \/ WriteCommand(t)
        \/ SeekCommand(t) \/ Touch(t) \/ CatReads(t) \/ Closes(t)
  BY DEF Next
<1>3. ASSUME UNCHANGED disk PROVE OneRenamed BY <1>3, SameDisk
<1>4. ASSUME NEW fd, NEW n, Read(t, fd, n) PROVE OneRenamed
  <2>1. UNCHANGED disk BY <1>4 DEF Read, Panic
  <2> QED BY <1>3, <2>1
<1>5. CASE MkdirCommand(t)
  <2>1. PICK path \in Paths : Mkdir(path) BY <1>5 DEF MkdirCommand
  <2> QED BY <2>1, MkdirRenames
<1>6. CASE RmdirCommand(t)
  <2>1. PICK path \in Paths : Rmdir(path) BY <1>6 DEF RmdirCommand
  <2> QED BY <2>1, RmdirRenames
<1>7. CASE AccessCommand(t)
  <2>1. UNCHANGED disk BY <1>7 DEF AccessCommand, Access, Panic
  <2> QED BY <1>3, <2>1
<1>8. CASE UnmountCommand(t)
  <2>1. UNCHANGED disk BY <1>8 DEF UnmountCommand, Unmount
  <2> QED BY <1>3, <2>1
<1>9. CASE UnlinkCommand(t)
  <2>1. PICK path \in Paths : Unlink(path) BY <1>9 DEF UnlinkCommand
  <2> QED BY <2>1, UnlinkRenames
<1>10. CASE LinkCommand(t)
  <2>1. PICK old \in Paths, new \in Paths : MayLink(old) /\ Link(old, new) BY <1>10 DEF LinkCommand
  <2> QED BY <2>1, LinkRenames
<1>11. CASE OpenCommand(t)
  <2>1. PICK path \in Paths : OpenFile(t, path) \/ OpenDevice(t, path) \/ OpenProc(t, path) BY <1>11 DEF OpenCommand
  <2>2. CASE OpenFile(t, path) BY <2>2, OpenFileRenames
  <2>3. CASE OpenDevice(t, path) \/ OpenProc(t, path)
    <3>1. UNCHANGED disk BY <2>3 DEF OpenDevice, OpenProc, Panic
    <3> QED BY <1>3, <3>1
  <2> QED BY <2>1, <2>2, <2>3
<1>12. CASE CloseCommand(t)
  <2>1. PICK fd \in Fds : Close(t, fd) BY <1>1, <1>12 DEF CloseCommand
  <2> QED BY <2>1, CloseRenames
<1>13. CASE ReadCommand(t)
  <2>1. PICK fd, n : Read(t, fd, n) BY <1>13 DEF ReadCommand
  <2> QED BY <1>4, <2>1
<1>14. CASE WriteCommand(t)
  <2>1. PICK fd \in Fds, n \in Counts : Write(t, fd, n) BY <1>1, <1>14 DEF WriteCommand
  <2> QED BY <2>1, WriteRenames
<1>15. CASE SeekCommand(t)
  <2>1. UNCHANGED disk BY <1>15 DEF SeekCommand, Lseek
  <2> QED BY <1>3, <2>1
<1>16. CASE Touch(t)
  <2>1. PICK path \in Paths : CreateFile(t, path) BY <1>16 DEF Touch
  <2> QED BY <2>1, CreateFileRenames
<1>17. CASE CatReads(t)
  <2>1. CASE \E n \in Counts : Read(t, todo[t].fd, n) BY <1>4, <2>1
  <2>2. CASE UNCHANGED vfsVars
    <3>1. UNCHANGED disk BY <2>2 DEF vfsVars
    <3> QED BY <1>3, <3>1
  <2> QED BY <1>17, <2>1, <2>2 DEF CatReads
<1>18. CASE Closes(t)
  <2>1. todo[t].fd \in Fds BY <1>18, TodoIs DEF Closes
  <2>2. PICK fd \in Fds : Close(t, fd) BY <1>18, <2>1 DEF Closes
  <2> QED BY <2>2, CloseRenames
<1> QED BY <1>2, <1>5, <1>6, <1>7, <1>8, <1>9, <1>10, <1>11, <1>12, <1>13, <1>14, <1>15, <1>16, <1>17, <1>18

\* vfs_mkdir, vfs_rmdir, vfs_link, vfs_unlink, vfs_open, vfs_close: a call that changes
\* the directories changes what one path means at most, however long the paths are, if
\* it is none of the four calls and none of them was made before.
THEOREM ShellOneName == Spec => OneNameAtATime
<1> DEFINE Changed == {p \in Paths : Find(disk, p) # Find(disk', p)}
           A == disk'.dirs # disk.dirs /\ ~strayed' => Cardinality(Changed) <= 1
<1>1. UnlessStrayed /\ [Next]_vars => [A]_vfsVars
  <2> SUFFICES ASSUME UnlessStrayed, [Next]_vars, disk'.dirs # disk.dirs, ~strayed'
               PROVE  Cardinality(Changed) <= 1
    OBVIOUS
  <2>1. Next
    <3>1. CASE UNCHANGED vars
      <4>1. disk' = disk BY <3>1 DEF vars, vfsVars
      <4> QED BY <4>1
    <3> QED BY <3>1
  <2>2. ShellInv /\ VfsInv /\ TodoTyped BY <2>1, StrayedGrows DEF UnlessStrayed, ShellInv
  <2>3. ShellInv' BY <2>1, <2>2, StepInv
  <2>4. FsInv(disk, fildes, leak) BY <2>2 DEF VfsInv, Sound
  <2>5. FsInv(disk', fildes', leak') BY <2>3 DEF ShellInv, VfsInv, Sound
  <2>6. PICK up, n : Renames(disk, disk', up, n) BY <2>1, <2>2, StepRenames DEF OneRenamed
  <2> QED BY <2>4, <2>5, <2>6, OneName
<1> QED BY <1>1, Invariant, PTL DEF Spec, OneNameAtATime

\* A directory in which there is a name keeps its own.
LEMMA DirStays ==
  ASSUME NEW d, NEW f, NEW lk, FsInv(d, f, lk), NEW d2, NEW f2, NEW lk2, FsInv(d2, f2, lk2),
         NEW up, NEW n, Renames(d, d2, up, n), NEW p \in PathsOf,
         NEW k, k = Lookup(d, p, "dir"), k # 0,
         NEW s \in DOMAIN d.dirs[d.inodes[k].blk], d.dirs[d.inodes[k].blk][s].ino > 0
  PROVE  Lookup(d2, p, "dir") = k
<1>1. k = Find(d, p) /\ d.inodes[k].type = "dir" BY DEF Lookup
<1>2. k \in Inos(d) /\ k > 0 BY <1>1, FindIs
<1>3. DiskTyped(d) BY DEF FsInv
<1>4. PICK b \in Blks : b = d.inodes[k].blk /\ d.dirs[b] \in Dirs BY <1>1, <1>2, <1>3, InodeFacts
<1>5. ~Blank(d, b)
  <2>1. b # 0 BY BlksAssumption
  <2>2. PICK m \in Names : m = d.dirs[b][s].name
    <3>1. d.dirs[b][s] \in Entry BY <1>4, DirFacts
    <3>2. \A x \in Entry : x.name \in Names BY DEF Entry
    <3> QED BY <3>1, <3>2
  <2>3. Hit(d.dirs[b], m) # 0
    <3>1. PICK dir \in Dirs : dir = d.dirs[b] /\ s \in DOMAIN dir /\ dir[s].ino > 0 /\ dir[s].name = m BY <1>4, <2>2
    <3>2. \A x \in DOMAIN dir : dir[x].ino > 0 => dir[x].ino # 0 BY DirFacts
    <3>3. PICK h \in DOMAIN dir : Hit(dir, m) = dir[h].ino /\ dir[h].ino > 0
      <4>1. ~(\A x \in DOMAIN dir : dir[x].ino > 0 => dir[x].name # m) BY <3>1
      <4> QED BY <4>1, HitIs
    <3> QED BY <3>1, <3>2, <3>3
  <2> QED BY <2>1, <2>2, <2>3 DEF Blank
<1>6. Find(d2, p) = k
  <2> SUFFICES ASSUME Find(d2, p) # k PROVE FALSE OBVIOUS
  <2>1. ParentBlk(d, p) = up /\ up # 0 /\ NameOf(p) = n BY <1>1, WalkSame
  <2>2. Hit(d.dirs[up], n) = k BY <1>1, <2>1 DEF Find
  <2>3. Down(d, up, n) = b BY <1>1, <1>2, <1>4, <2>1, <2>2 DEF Down
  <2> QED BY <1>5, <2>3 DEF Renames
<1>7. d2.inodes[k].type = "dir" BY <1>1, <1>2 DEF Renames
<1> QED BY <1>6, <1>7 DEF Lookup

\* "Directory not empty. rmdir failed": the call with which an rmdir removes a directory
\* that holds names is one of the four.  As long as none of them was made, no other call
\* takes a directory that holds names away, or its name.
THEOREM ShellDirsStay ==
  Spec => [][~strayed' => \A p \in Paths :
               LET ino == Lookup(disk, p, "dir") IN
               ino # 0 /\ InUse(disk.dirs[disk.inodes[ino].blk]) => Lookup(disk', p, "dir") = ino]_vfsVars
<1> DEFINE A == ~strayed' => \A p \in Paths :
                  LET ino == Lookup(disk, p, "dir") IN
                  ino # 0 /\ InUse(disk.dirs[disk.inodes[ino].blk]) => Lookup(disk', p, "dir") = ino
<1>1. UnlessStrayed /\ [Next]_vars => [A]_vfsVars
  <2> SUFFICES ASSUME UnlessStrayed, [Next]_vars, ~UNCHANGED vfsVars, ~strayed', NEW p \in Paths, NEW ino,
                      ino = Lookup(disk, p, "dir"), ino # 0, InUse(disk.dirs[disk.inodes[ino].blk])
               PROVE  Lookup(disk', p, "dir") = ino
    OBVIOUS
  <2>1. Next
    <3>1. UNCHANGED vars => UNCHANGED vfsVars BY DEF vars
    <3> QED BY <3>1
  <2>2. ShellInv /\ VfsInv /\ TodoTyped BY <2>1, StrayedGrows DEF UnlessStrayed, ShellInv
  <2>3. ShellInv' BY <2>1, <2>2, StepInv
  <2>4. FsInv(disk, fildes, leak) BY <2>2 DEF VfsInv, Sound
  <2>5. FsInv(disk', fildes', leak') BY <2>3 DEF ShellInv, VfsInv, Sound
  <2>6. PICK up, n : Renames(disk, disk', up, n) BY <2>1, <2>2, StepRenames DEF OneRenamed
  <2>7. PICK s \in DOMAIN disk.dirs[disk.inodes[ino].blk] : disk.dirs[disk.inodes[ino].blk][s].ino > 0
    BY DEF InUse
  <2>8. p \in PathsOf BY PathFacts
  <2> QED BY <2>4, <2>5, <2>6, <2>7, <2>8, DirStays
<1> QED BY <1>1, Invariant, PTL DEF Spec
=============================================================================
