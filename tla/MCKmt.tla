------------------------------- MODULE MCKmt -------------------------------
(* Instances of Kmt.                                                        *)
EXTENDS Kmt

\* Bound: one task is torn down.
MCBound == Cardinality({t \in Tasks : suicide[t]}) <= 1
=============================================================================
