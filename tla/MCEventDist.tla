------------------------------ MODULE MCEventDist ------------------------------
(***************************************************************************)
(* EventDist for TLC.  No definition tells two instances or two subscribers *)
(* apart, so the runs of safety properties take them up to permutation.    *)
(***************************************************************************)
EXTENDS EventDist, TLC

Symmetry == Permutations(Nodes) \cup Permutations(Subs)
=============================================================================
