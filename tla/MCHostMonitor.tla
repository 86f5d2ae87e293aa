--------------------------- MODULE MCHostMonitor ----------------------------
(***************************************************************************)
(* Model-checking instances of HostMonitor.  Nodes are interchangeable.    *)
(***************************************************************************)
EXTENDS HostMonitor, TLC

Symmetry == Permutations(Nodes)
=============================================================================
