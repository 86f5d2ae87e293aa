----------------------------- MODULE MCVmSystem -----------------------------
(***************************************************************************)
(* Model-checking instances of VmSystem.  Nodes and requests are told      *)
(* apart by nothing but their names.                                       *)
(***************************************************************************)
EXTENDS VmSystem, TLC

Symmetry == Permutations(Nodes) \cup Permutations(Requests)
=============================================================================
