------------------------------- MODULE AbsMap -------------------------------
(***************************************************************************)
(* What libkvdb promises of its contents: a map from keys to values, and a *)
(* stable copy of it that survives a power failure.  A put maps its key to *)
(* the value and leaves every other key that has a value alone.  What a    *)
(* key that was never put maps to is left open here: Kvdb states that      *)
(* promise as a property of its own.                                       *)
(***************************************************************************)
CONSTANTS Keys, Values, None

VARIABLES map, stable

AbsInit == map = [k \in Keys |-> None] /\ stable = map

AbsPut(k, v) ==
  /\ map'[k] = v
  /\ map' \in [Keys -> Values \cup {None}]
  /\ \A j \in Keys \ {k} : map[j] # None => map'[j] = map[j]
  /\ UNCHANGED stable

AbsFlush == stable' = map /\ UNCHANGED map

\* A power failure: what was not flushed may or may not have reached the disk.
AbsFail == map' \in {map, stable} /\ stable' = map'

AbsNext == AbsFlush \/ AbsFail \/ \E k \in Keys, v \in Values : AbsPut(k, v)

AbsSpec == AbsInit /\ [][AbsNext]_<<map, stable>>
=============================================================================
