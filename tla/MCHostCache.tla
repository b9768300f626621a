------------------------------ MODULE MCHostCache ------------------------------
(***************************************************************************)
(* Instances of HostCache for TLC.                                         *)
(***************************************************************************)
EXTENDS HostCache, TLC

DocSymmetry == Permutations(Docs)
=============================================================================
