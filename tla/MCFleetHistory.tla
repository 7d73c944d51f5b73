--------------------------- MODULE MCFleetHistory ---------------------------
(***************************************************************************)
(* FleetHistory on small instances.                                        *)
(***************************************************************************)
EXTENDS FleetHistory, TLC

NodeSymmetry == Permutations(Nodes)
=============================================================================
