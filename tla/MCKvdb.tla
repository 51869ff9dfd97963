------------------------------- MODULE MCKvdb -------------------------------
(* Instances of Kvdb: the first key is short enough to leave a torn record   *)
(* of one or two bytes, which recovery does not see.  Processes are alike,   *)
(* and so are values.                                                        *)
EXTENDS Kvdb, TLC

MCKeyLen == [k \in Keys |-> IF k = "x" THEN 1 ELSE 3]
Symmetric == Permutations(Procs) \cup Permutations(Values \ {Empty})
=============================================================================
