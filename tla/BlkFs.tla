------------------------------- MODULE BlkFs -------------------------------
(***************************************************************************)
(* The file system on the ram disk (fsops.c).  The disk is a value d, and  *)
(* each operation an operator from disks to disks:                         *)
(*   inodes    the table in the root block; it only grows                  *)
(*   occupied  the flag in the header of each block                        *)
(*   dirs      what each block says when it is read as a directory         *)
(*   newBuf    the global buffer new_buf, which keeps the directory it     *)
(*             held last and from which new directories are written        *)
(* A directory is the sequence of the entries that were ever written to    *)
(* it.  An entry holds the number of an inode, or -1 where one was deleted *)
(* (or 0, in a copy from newBuf); a search ends at 0 and behind the last.  *)
(***************************************************************************)
EXTENDS Integers, Sequences, FiniteSets, FiniteSetsExt

CONSTANTS Paths,      \* the paths programs use: sequences of names
          DirSlots,   \* the length of son_inode (64)
          MaxInodes,  \* how many inodes fit into the root block
          Blks        \* the blocks of the ram disk, in order

ASSUME SizesAssumption == DirSlots \in Nat \ {0} /\ MaxInodes \in Nat \ {0}
ASSUME BlksAssumption == Blks \subseteq Nat \ {0} /\ 1 \in Blks /\ IsFiniteSet(Blks)
ASSUME PathsAssumption == Paths \subseteq Seq(STRING) \ {<<>>}

Root == 1
RootBlk == 1
Dead == [ino |-> -1, name |-> "deleted"]
Garbage == "garbage"   \* the name of an entry that was overwritten

Inode(type, ref, link, blk) ==
  [type |-> type, refcnt |-> ref, linkcnt |-> link, unlink |-> 0, size |-> 0, blk |-> blk]

\* fs_init: the root directory.
FreshDisk ==
  [inodes   |-> <<Inode("dir", 0, 0, RootBlk)>>,
   occupied |-> [b \in Blks |-> b = RootBlk],
   dirs     |-> [b \in Blks |-> <<>>],
   newBuf   |-> <<>>]

-----------------------------------------------------------------------------
(* fs_lookup                                                                *)

\* How many entries a search comes by.
Reached(dir) ==
  LET ends == {s \in DOMAIN dir : dir[s].ino = 0} IN
  IF ends = {} THEN Len(dir) ELSE Min(ends) - 1

\* Those that carry the name n; a search takes the first.
Hits(dir, n) == {s \in 1..Reached(dir) : dir[s].ino > 0 /\ dir[s].name = n}

Hit(dir, n) == LET hits == Hits(dir, n) IN IF hits = {} THEN 0 ELSE dir[Min(hits)].ino

\* The block of the directory in which the last name of the path is looked up,
\* 0 if a name before it is no directory.
ParentBlk(d, path) ==
  LET blk[i \in 1..Len(path)] ==
        IF i = 1 THEN RootBlk
        ELSE LET up  == blk[i - 1]
                 son == IF up = 0 THEN 0 ELSE Hit(d.dirs[up], path[i - 1]) IN
             IF son > 0 /\ d.inodes[son].type = "dir" THEN d.inodes[son].blk ELSE 0
  IN blk[Len(path)]

NameOf(path) == path[Len(path)]

Find(d, path) ==
  LET b == ParentBlk(d, path) IN IF b = 0 THEN 0 ELSE Hit(d.dirs[b], NameOf(path))

\* The answer of fs_lookup: the inode, 0 if there is none of this type.
Lookup(d, path, type) ==
  LET ino == Find(d, path) IN IF ino # 0 /\ d.inodes[ino].type = type THEN ino ELSE 0

\* FLAG_CREATE gets as far as creating: only the last name is missing.
MayCreate(d, path) == ParentBlk(d, path) # 0 /\ Find(d, path) = 0

-----------------------------------------------------------------------------
(* What it changes with FLAG_CREATE and FLAG_DELETE                         *)

FreeBlks(d) == {b \in Blks : ~d.occupied[b]}

\* "too much inodes", or find_free_rdblk finds nothing: both panic.
CannotCreate(d) == FreeBlks(d) = {} \/ Len(d.inodes) + 1 > MaxInodes

Full(dir) == Reached(dir) = DirSlots

\* Mutant: the new entry goes over the last one.
EntryAddedOver(dir, ino, n) ==
  LET e == [ino |-> ino, name |-> n] IN
  IF dir = <<>> THEN <<e>> ELSE [dir EXCEPT ![Len(dir)] = e]

\* The entry behind the last one.  In a full directory son_inode[64] is the
\* beginning of the name of the first entry.
EntryAdded(dir, ino, n) ==
  LET k == Reached(dir)
      e == [ino |-> ino, name |-> n] IN
  IF Full(dir) THEN [dir EXCEPT ![1].name = Garbage]
  ELSE IF k = Len(dir) THEN Append(dir, e) ELSE [dir EXCEPT ![k + 1] = e]

\* A new inode, the first free block, and an entry.  A new directory is written
\* from newBuf, in which only the first entry was made 0.
Created(d, path, type, ref) ==
  LET b   == Min(FreeBlks(d))
      up  == ParentBlk(d, path)
      ino == Len(d.inodes) + 1
      new == IF type = "dir" /\ d.newBuf # <<>> THEN [d.newBuf EXCEPT ![1].ino = 0] ELSE d.newBuf
      ups == [d.dirs EXCEPT ![up] = EntryAdded(@, ino, NameOf(path))] IN
  [inodes   |-> Append(d.inodes, Inode(type, ref, 1, b)),
   occupied |-> [d.occupied EXCEPT ![b] = TRUE],
   dirs     |-> IF type = "dir" THEN [ups EXCEPT ![b] = new] ELSE ups,
   newBuf   |-> new]

\* Zeros over a block: it is free.
Wiped(d, b) == [d EXCEPT !.occupied[b] = FALSE, !.dirs[b] = <<>>]

\* The first entry with this name becomes -1; nothing looks at its name again.
Unnamed(d, path) ==
  LET b    == ParentBlk(d, path)
      hits == Hits(d.dirs[b], NameOf(path)) IN
  IF hits = {} THEN d ELSE [d EXCEPT !.dirs[b][Min(hits)] = Dead]

Deleted(d, path, ino) == Wiped(Unnamed(d, path), d.inodes[ino].blk)

\* The test whether the directory in block b is empty looks at as many of its
\* entries as its parent has.
LooksEmpty(d, up, b) ==
  \A s \in DOMAIN d.dirs[b] : s <= Reached(d.dirs[up]) => d.dirs[b][s].ino <= 0
=============================================================================
