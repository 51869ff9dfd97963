------------------------------- MODULE Shell -------------------------------
(***************************************************************************)
(* shell.c: the shells on the terminals are the clients of the file system.*)
(* Each action is one call into vfs.c.  Most commands are one call; "cat"  *)
(* and "touch" are several, between which the other shells go on.  What a  *)
(* user types becomes one of Paths (path_preprocessing); cd and ls only    *)
(* look names up.                                                          *)
(***************************************************************************)
EXTENDS Vfs

CONSTANT Seeks   \* what is passed to lseek as an offset, an int
ASSUME SeeksAssumption == Seeks \subseteq Int /\ \A n \in Seeks : n < Word - BlkSz

VARIABLE todo   \* what is left of each command: [do |-> "prompt", "read" or "close", fd]
vars == <<vfsVars, todo>>

Prompt == [do |-> "prompt", fd |-> 0]

TypeOK ==
  /\ VfsTypeOK
  /\ todo \in [Tasks -> [do : {"prompt", "read", "close"}, fd : 0..NrFile]]

Init ==
  /\ VfsInit
  /\ todo = [t \in Tasks |-> Prompt]

Ready(t) == todo[t] = Prompt

-----------------------------------------------------------------------------
(* Commands that are one call                                               *)

Command(t) == Ready(t) /\ UNCHANGED todo

MkdirCommand(t)   == Command(t) /\ \E path \in Paths : Mkdir(path)
RmdirCommand(t)   == Command(t) /\ \E path \in Paths : Rmdir(path)
AccessCommand(t)  == Command(t) /\ \E path \in Paths : Access(path)
UnmountCommand(t) == Command(t) /\ \E path \in Paths : Unmount(path)
UnlinkCommand(t)  == Command(t) /\ \E path \in Paths : Unlink(path)
LinkCommand(t)    == Command(t) /\ \E old \in Paths : MayLink(old) /\ \E new \in Paths : Link(old, new)

\* Nobody types the numbers of the descriptors of the terminal itself.
Typed == Fds \ {1, 2}
CloseCommand(t) == Command(t) /\ \E fd \in Typed : Close(t, fd)
ReadCommand(t)  == Command(t) /\ \E fd \in Typed, n \in Counts : Read(t, fd, n)
WriteCommand(t) == Command(t) /\ \E fd \in Typed, n \in Counts : Write(t, fd, n)
SeekCommand(t)  ==
  /\ Command(t)
  /\ \E fd \in Typed, n \in Seeks, whence \in {"SEEK_SET", "SEEK_CUR", "SEEK_END"} : Lseek(t, fd, n, whence)

-----------------------------------------------------------------------------
(* open, cat and touch: the rest of a command is there only if open did not  *)
(* fail.                                                                    *)

Goes(t, what) ==
  FreeFds(t) # {} /\ running' /\ todo' = [todo EXCEPT ![t] = [do |-> what, fd |-> FirstFree(t)]]

\* "open" stops there, "cat" reads and closes, "touch" closes.
OpenCommand(t) ==
  /\ Ready(t)
  /\ \E path \in Paths : OpenFile(t, path) \/ OpenDevice(t, path) \/ OpenProc(t, path)
  /\ UNCHANGED todo \/ \E what \in {"read", "close"} : Goes(t, what)

\* "touch" of a file that does not exist.
Touch(t) ==
  /\ Ready(t)
  /\ \E path \in Paths : CreateFile(t, path)
  /\ \/ Goes(t, "close")
     \/ (FreeFds(t) = {} \/ ~running') /\ UNCHANGED todo

\* "cat" reads.  A device or a process file is read without a change to this state.
CatReads(t) ==
  /\ running /\ todo[t].do = "read"
  /\ \/ \E n \in Counts : Read(t, todo[t].fd, n)
     \/ fildes[t][todo[t].fd].fs # "blkfs" /\ UNCHANGED vfsVars
  /\ todo' = [todo EXCEPT ![t].do = "close"]

Closes(t) ==
  /\ todo[t].do = "close"
  /\ Close(t, todo[t].fd)
  /\ todo' = [todo EXCEPT ![t] = Prompt]

Next == \E t \in Tasks :
  \/ MkdirCommand(t) \/ RmdirCommand(t) \/ AccessCommand(t) \/ UnmountCommand(t) \/ UnlinkCommand(t)
  \/ LinkCommand(t) \/ OpenCommand(t) \/ CloseCommand(t) \/ ReadCommand(t) \/ WriteCommand(t)
  \/ SeekCommand(t) \/ Touch(t) \/ CatReads(t) \/ Closes(t)

Spec == Init /\ [][Next]_vars

-----------------------------------------------------------------------------

\* As long as nobody strayed, the inodes and the descriptors are within their
\* bounds: no offset and no size leads out of the block of its file, whatever is
\* read, written and sought, to before the file too.
DiskInv == ~strayed => TypeOK /\ OffsetsInBlock
=============================================================================
