-------------------------------- MODULE Vfs --------------------------------
(***************************************************************************)
(* vfs.c: paths, mount points, and the descriptors of the tasks, above the *)
(* file system of BlkFs.  Every call holds vfs_lk while it works on this   *)
(* state, so each is one action of the calling task.  A call that fails    *)
(* without having changed anything is no step.                             *)
(*                                                                         *)
(* The file system does not survive four calls that the code lets through  *)
(* (the variable strayed tells whether one was made):                      *)
(*   rmdir of a directory that holds names behind as many entries as its   *)
(*   parent has (fsops.c:175)                                              *)
(*   mkdir after an rmdir that failed on a directory with several names,   *)
(*   which are still in the buffer that the new directory is written from  *)
(*   (fsops.c:280)                                                         *)
(*   adding a name to a directory all of whose slots were used             *)
(*   (fsops.c:265)                                                         *)
(*   writing before the data of a file, in the header of its block, where  *)
(*   SEEK_CUR leads (vfs.c:815)                                            *)
(* The path "/" and writes to the disk below the file system, through      *)
(* /dev/ramdisk1, are left out.                                            *)
(***************************************************************************)
EXTENDS BlkFs

CONSTANTS Tasks, NrFile,   \* the descriptors of a task are 1..NrFile
          HdrSz, BlkSz,    \* the sizes of a block's header and of a block
          Word,            \* the offset of a descriptor is unsigned: 2^64
          MaxCount,        \* bound on refcnt and linkcnt
          Counts,          \* what programs pass as a number of bytes
          Begins           \* <<n, m>>: the name n begins with m, but is not m

ASSUME VfsSizesAssumption ==
  /\ {NrFile, HdrSz, BlkSz, MaxCount} \subseteq Nat /\ HdrSz < BlkSz
  /\ Word \in Nat /\ 2 * BlkSz < Word
ASSUME TasksAssumption == IsFiniteSet(Tasks)
\* A number of bytes is an int that is not negative.
ASSUME CountsAssumption == Counts \subseteq 0..(Word - BlkSz - 1)
\* What vfs_init makes has room.
ASSUME RoomAssumption == DirSlots >= 2 /\ MaxInodes >= 5 /\ Cardinality(Blks) >= 5

Fds == 1..NrFile
NoFile == [fs |-> "none", ino |-> 0, offset |-> 0]
DevFile == [fs |-> "devfs", ino |-> 0, offset |-> 0]

VARIABLES
  disk,          \* of blkfs
  mount_point,   \* the used slots of the table
  fildes,        \* fildes[t][fd]: the descriptors of each task
  running,       \* FALSE after a panic or a crash
  leak,          \* history: an error path has left a count too high
  strayed        \* history: a call was made that the file system does not survive
vfsVars == <<disk, mount_point, fildes, running, leak, strayed>>

VfsTypeOK ==
  /\ Len(disk.inodes) <= MaxInodes
  /\ \A i \in DOMAIN disk.inodes :
       disk.inodes[i].blk \in Blks \cup {-1} /\ disk.inodes[i].size \in 0..(Word - 1)
  /\ disk.occupied \in [Blks -> BOOLEAN]
  /\ \A b \in Blks : Len(disk.dirs[b]) <= DirSlots
  /\ \A t \in Tasks, fd \in Fds :
       /\ fildes[t][fd].fs \in {"none", "blkfs", "devfs"}
       /\ fildes[t][fd].offset \in 0..(Word - 1)
  /\ {running, leak, strayed} \subseteq BOOLEAN

\* vfs_mount: the next slot; the directory is there already.
Mounted(table, path, fs) == Append(table, [name |-> path[1], fs |-> fs, unmount |-> 0])

\* vfs_init, with one of the devices and one of the process files, and without
\* /Documents.
InitDisk ==
  LET dev  == Created(FreshDisk, <<"dev">>, "dir", 0)
      tty  == Created(dev, <<"dev", "tty">>, "file", 0)
      proc == Created(tty, <<"proc">>, "dir", 0)
  IN Created(proc, <<"proc", "mem">>, "file", 0)

\* Every task is a shell, whose descriptors 1 and 2 are its terminal.
VfsInit ==
  /\ disk = InitDisk
  /\ mount_point = Mounted(Mounted(<<>>, <<"dev">>, "devfs"), <<"proc">>, "procfs")
  /\ fildes = [t \in Tasks |-> [fd \in Fds |-> IF fd <= 2 THEN DevFile ELSE NoFile]]
  /\ running = TRUE /\ leak = FALSE /\ strayed = FALSE

-----------------------------------------------------------------------------
(* find_mount_point compares the beginnings of strings.                     *)

Under(path, m) == path[1] = m.name \/ <<path[1], m.name>> \in Begins

MountOf(path) ==
  LET hits == {i \in DOMAIN mount_point : Under(path, mount_point[i])} IN
  IF hits = {} THEN 0 ELSE Min(hits)

\* The file system of a path; "none" once it was unmounted.
FsOf(path) ==
  LET no == MountOf(path) IN
  IF no = 0 THEN "blkfs"
  ELSE IF mount_point[no].unmount = 1 THEN "none" ELSE mount_point[no].fs

\* What is left of it below the mount point is a name of the device or of procfs.
IsDev(path) == path = <<"dev", "tty">>
IsProc(path) == path = <<"proc", "mem">>

OnBlkfs(path) == running /\ FsOf(path) = "blkfs"

Panic == running' = FALSE /\ UNCHANGED <<disk, mount_point, fildes, leak, strayed>>

FreeFds(t) == {fd \in Fds : fildes[t][fd] = NoFile}
FirstFree(t) == IF FreeFds(t) = {} THEN 0 ELSE Min(FreeFds(t))

\* The first free descriptor of the task, if it has one.
Opened(t, fs, ino) ==
  fildes' = IF FreeFds(t) = {} THEN fildes
            ELSE [fildes EXCEPT ![t][FirstFree(t)] = [fs |-> fs, ino |-> ino, offset |-> 0]]

Strays(how) == strayed' = (strayed \/ how)

-----------------------------------------------------------------------------
(* The calls with a path                                                    *)

\* vfs_access: of interest only for the names on which it does not come back,
\* unknown devices and (the file system is not called "procvfs") all of procfs.
Access(path) ==
  /\ running
  /\ FsOf(path) \in {"devfs", "procfs"} /\ ~(FsOf(path) = "devfs" /\ IsDev(path))
  /\ Panic

Unmount(path) ==
  /\ running
  /\ \E i \in DOMAIN mount_point :
       /\ path = <<mount_point[i].name>>
       /\ mount_point' = [mount_point EXCEPT ![i].unmount = 1]
  /\ UNCHANGED <<disk, fildes, running, leak, strayed>>

InUse(dir) == \E s \in DOMAIN dir : dir[s].ino > 0

\* The first entry of the buffer is cleared before it is written.
NamesLeft(buf) == \E s \in DOMAIN buf : s > 1 /\ buf[s].ino > 0

Mkdir(path) ==
  /\ OnBlkfs(path) /\ MayCreate(disk, path)
  /\ \/ CannotCreate(disk) /\ Panic
     \/ /\ ~CannotCreate(disk)
        /\ disk' = Created(disk, path, "dir", 0)
        /\ Strays(Full(disk.dirs[ParentBlk(disk, path)]) \/ NamesLeft(disk.newBuf))
        /\ UNCHANGED <<mount_point, fildes, running, leak>>

\* The directory is read into newBuf, from which the next one is made, and tested;
\* it has no names if the test of the code says so.
Rmdir(path) ==
  LET ino == Lookup(disk, path, "dir")
      b   == disk.inodes[ino].blk
      d   == [disk EXCEPT !.newBuf = disk.dirs[b]]
      ok  == LooksEmpty(disk, ParentBlk(disk, path), b) IN
  /\ OnBlkfs(path) /\ ino # 0
  /\ disk' = IF ok THEN Deleted(d, path, ino) ELSE d
  /\ Strays(ok /\ InUse(disk.dirs[b]))
  /\ UNCHANGED <<mount_point, fildes, running, leak>>

\* The first name of a link is that of a file.
MayLink(old) ==
  LET ino == Lookup(disk, old, "file") IN OnBlkfs(old) /\ ino # 0 /\ disk.inodes[ino].linkcnt < MaxCount

\* Mutant: the link is not counted.
LinkUncounted(old, new) ==
  LET up == ParentBlk(disk, new) IN
  /\ OnBlkfs(new) /\ Lookup(disk, new, "file") = 0 /\ up # 0 /\ ~Full(disk.dirs[up])
  /\ disk' = [disk EXCEPT !.dirs[up] = EntryAdded(@, Lookup(disk, old, "file"), NameOf(new))]
  /\ UNCHANGED <<mount_point, fildes, running, leak, strayed>>

\* The count is raised first.  If the directory of the new name is missing or
\* full, that is all that happens.
Link(old, new) ==
  LET ino == Lookup(disk, old, "file")
      up  == ParentBlk(disk, new)
      d   == [disk EXCEPT !.inodes[ino].linkcnt = @ + 1]
      ok  == up # 0 /\ ~Full(disk.dirs[up]) IN
  /\ OnBlkfs(new) /\ Lookup(disk, new, "file") = 0
  /\ disk' = IF ok THEN [d EXCEPT !.dirs[up] = EntryAdded(@, ino, NameOf(new))] ELSE d
  /\ leak' = (leak \/ ~ok)
  /\ UNCHANGED <<mount_point, fildes, running, strayed>>

\* Mutant: the file is deleted although it is open.
UnlinkOpen(path) ==
  LET ino == Lookup(disk, path, "file")
      i   == disk.inodes[ino] IN
  /\ OnBlkfs(path) /\ ino # 0
  /\ disk' = IF i.linkcnt = 1 THEN Deleted(disk, path, ino)
             ELSE [Unnamed(disk, path) EXCEPT !.inodes[ino].linkcnt = @ - 1]
  /\ UNCHANGED <<mount_point, fildes, running, leak, strayed>>

\* A file with one name that nobody has open is deleted at once.  Any other
\* loses this name; with the last one it is marked for vfs_close.
Unlink(path) ==
  LET ino == Lookup(disk, path, "file")
      i   == disk.inodes[ino] IN
  /\ OnBlkfs(path) /\ ino # 0
  /\ disk' = IF i.refcnt = 0 /\ i.linkcnt = 1 THEN Deleted(disk, path, ino)
             ELSE [Unnamed(disk, path) EXCEPT
                     !.inodes[ino].linkcnt = @ - 1,
                     !.inodes[ino].unlink = IF i.linkcnt = 1 THEN 1 ELSE @]
  /\ UNCHANGED <<mount_point, fildes, running, leak, strayed>>

OpenDevice(t, path) ==
  /\ running /\ FsOf(path) = "devfs"
  /\ \/ IsDev(path) /\ Opened(t, "devfs", 0) /\ UNCHANGED <<disk, mount_point, running, leak, strayed>>
     \/ ~IsDev(path) /\ Panic

\* A process file is read and written without a change to this state, like a
\* device: their descriptors are not told apart.
OpenProc(t, path) ==
  /\ running /\ FsOf(path) = "procfs" /\ IsProc(path)
  /\ Opened(t, "devfs", 0)
  /\ UNCHANGED <<disk, mount_point, running, leak, strayed>>

\* The reference is counted before the task is known to have a free descriptor.
OpenFile(t, path) ==
  LET ino == Lookup(disk, path, "file") IN
  /\ OnBlkfs(path) /\ ino # 0 /\ disk.inodes[ino].refcnt < MaxCount
  /\ disk' = [disk EXCEPT !.inodes[ino].refcnt = @ + 1]
  /\ Opened(t, "blkfs", ino)
  /\ leak' = (leak \/ FreeFds(t) = {})
  /\ UNCHANGED <<mount_point, running, strayed>>

\* The same with FLAG_CREATE, for a name that does not exist.
CreateFile(t, path) ==
  /\ OnBlkfs(path) /\ MayCreate(disk, path)
  /\ \/ CannotCreate(disk) /\ Panic
     \/ /\ ~CannotCreate(disk)
        /\ disk' = Created(disk, path, "file", 1)
        /\ Strays(Full(disk.dirs[ParentBlk(disk, path)]))
        /\ Opened(t, "blkfs", Len(disk.inodes) + 1)
        /\ leak' = (leak \/ FreeFds(t) = {})
        /\ UNCHANGED <<mount_point, running>>

-----------------------------------------------------------------------------
(* The calls with a descriptor.  A terminal's descriptor has an offset too, *)
(* which nothing looks at: it is left out.                                  *)

IsFile(t, fd) == running /\ fildes[t][fd].fs = "blkfs"
InodeOf(t, fd) == disk.inodes[fildes[t][fd].ino]

\* The bytes up to the end of the file are an unsigned number: from behind the end
\* it is one that no memcpy survives.
Read(t, fd, n) ==
  LET off  == fildes[t][fd].offset
      size == InodeOf(t, fd).size
      left == IF (off + n) % Word > size THEN (size - off) % Word ELSE n IN
  /\ IsFile(t, fd)
  /\ \/ left >= Word - BlkSz /\ Panic
     \/ /\ left < Word - BlkSz
        /\ fildes' = [fildes EXCEPT ![t][fd].offset = (off + left) % Word]
        /\ UNCHANGED <<disk, mount_point, running, leak, strayed>>

\* Mutant: the header is forgotten.
WriteToBlkSz(t, fd, n) ==
  LET end == fildes[t][fd].offset + n IN
  /\ IsFile(t, fd) /\ end <= BlkSz
  /\ fildes' = [fildes EXCEPT ![t][fd].offset = end]
  /\ disk' = [disk EXCEPT !.inodes[fildes[t][fd].ino].size = IF end > @ THEN end ELSE @]
  /\ UNCHANGED <<mount_point, running, leak, strayed>>

\* An offset before the data, where SEEK_CUR leads, is in the block's header, with
\* the flag that the block is taken.
Write(t, fd, n) ==
  LET off == fildes[t][fd].offset
      end == (off + n) % Word
      blk == InodeOf(t, fd).blk IN
  /\ IsFile(t, fd)
  /\ (off + n + HdrSz) % Word <= BlkSz
  /\ fildes' = [fildes EXCEPT ![t][fd].offset = end]
  /\ Strays(off > BlkSz)
  /\ \E flag \in IF off <= BlkSz THEN {disk.occupied[blk]} ELSE BOOLEAN :
       disk' = [disk EXCEPT !.inodes[fildes[t][fd].ino].size = IF end > @ THEN end ELSE @,
                            !.occupied[blk] = flag]
  /\ UNCHANGED <<mount_point, running, leak>>

\* SEEK_SET and SEEK_END test a signed sum, SEEK_CUR an unsigned one: it refuses
\* what is behind the block, and lets an offset before the file through as far as
\* the header reaches.
Lseek(t, fd, n, whence) ==
  LET off  == fildes[t][fd].offset
      base == CASE whence = "SEEK_SET" -> 0
                [] whence = "SEEK_CUR" -> off
                [] whence = "SEEK_END" -> InodeOf(t, fd).size IN
  /\ IsFile(t, fd)
  /\ IF whence = "SEEK_CUR"
     THEN (base + n + HdrSz) % Word <= BlkSz
     ELSE base + n >= 0 /\ base + n + HdrSz <= BlkSz
  /\ fildes' = [fildes EXCEPT ![t][fd].offset = (base + n) % Word]
  /\ UNCHANGED <<disk, mount_point, running, leak, strayed>>

\* Mutant: the mark of vfs_unlink is not looked at.
CloseKeepsBlock(t, fd) ==
  /\ running /\ fildes[t][fd] # NoFile
  /\ disk' = IF fildes[t][fd].fs = "blkfs"
             THEN [disk EXCEPT !.inodes[fildes[t][fd].ino].refcnt = @ - 1] ELSE disk
  /\ fildes' = [fildes EXCEPT ![t][fd] = NoFile]
  /\ UNCHANGED <<mount_point, running, leak, strayed>>

\* The last descriptor of a file without a name takes the block with it.
Close(t, fd) ==
  LET ino == fildes[t][fd].ino
      i   == InodeOf(t, fd)
      d   == [disk EXCEPT !.inodes[ino].refcnt = @ - 1] IN
  /\ running /\ fildes[t][fd] # NoFile
  /\ disk' = IF fildes[t][fd].fs # "blkfs" THEN disk
             ELSE IF i.unlink = 1 /\ i.linkcnt = 0 /\ i.refcnt = 1
             THEN [Wiped(d, i.blk) EXCEPT !.inodes[ino].blk = -1]
             ELSE d
  /\ fildes' = [fildes EXCEPT ![t][fd] = NoFile]
  /\ UNCHANGED <<mount_point, running, leak, strayed>>

-----------------------------------------------------------------------------
(* Properties                                                               *)

InodeNos == DOMAIN disk.inodes
LiveDirBlks == {disk.inodes[i].blk : i \in {j \in InodeNos : disk.inodes[j].type = "dir"}}

\* <<block, slot, inode>> of the entries there are, <<task, fd, inode>> of the
\* descriptors.
NamesOf == UNION {{<<b, s, disk.dirs[b][s].ino>> : s \in 1..Reached(disk.dirs[b])} : b \in LiveDirBlks}
RefsOf == {<<t, fd, fildes[t][fd].ino>> : t \in Tasks, fd \in Fds}
Used == {Root} \cup {e[3] : e \in {f \in NamesOf \cup RefsOf : f[3] > 0}}

\* What is claimed of the calls is claimed as long as nobody strayed, and nothing
\* once one of the four calls above was made.

\* The counts in an inode never fall below the names and the descriptors there
\* are, however tasks link, unlink, open and close it, and without an error path
\* of vfs_link or vfs_open they are exact.
CountsAreRight ==
  LET names == NamesOf
      refs  == RefsOf IN
  ~strayed => \A i \in Used \ {Root} :
    LET inode == disk.inodes[i]
        links == Cardinality({e \in names : e[3] = i})
        opens == Cardinality({e \in refs : e[3] = i}) IN
    /\ inode.linkcnt >= links /\ inode.refcnt >= opens
    /\ ~leak => inode.linkcnt = links /\ inode.refcnt = opens

\* Every inode that has a name or a descriptor has a block that is taken, and
\* no two have the same: nobody's open file is deleted and given to another.
BlocksAreOwn ==
  LET used == Used
      blks == {disk.inodes[i].blk : i \in used} IN
  ~strayed =>
    /\ Cardinality(blks) = Cardinality(used)
    /\ \A b \in blks : b \in Blks /\ disk.occupied[b]

\* A block is taken only as long as its file has a name or a descriptor: with
\* the last of the two, vfs_unlink or vfs_close gives it back.
BlocksGivenBack ==
  LET blks == {disk.inodes[i].blk : i \in Used} IN
  ~strayed /\ ~leak => \A b \in Blks : disk.occupied[b] => b \in blks

\* No file ends behind the data of its block, and every descriptor stands in the
\* block: in its data, or in the header before it, where a seek to before the
\* file ends.
OffsetsInBlock ==
  /\ \A i \in InodeNos : disk.inodes[i].size + HdrSz <= BlkSz
  /\ \A t \in Tasks, fd \in Fds : (fildes[t][fd].offset + HdrSz) % Word <= BlkSz

\* No call changes what more than one path means, if it is none of the four and
\* none of them was made before.
OneNameAtATime ==
  [][disk'.dirs # disk.dirs /\ ~strayed' =>
       Cardinality({p \in Paths : Find(disk, p) # Find(disk', p)}) <= 1]_vfsVars

\* "Directory not empty. rmdir failed": no directory that holds names goes away.
RmdirOnlyEmpty ==
  [][\A p \in Paths :
       LET ino == Lookup(disk, p, "dir") IN
       ino # 0 /\ InUse(disk.dirs[disk.inodes[ino].blk]) => Lookup(disk', p, "dir") = ino]_vfsVars
=============================================================================
