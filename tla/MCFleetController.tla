------------------------- MODULE MCFleetController -------------------------
(***************************************************************************)
(* FleetController on small instances.                                     *)
(***************************************************************************)
EXTENDS FleetController, TLC

NodeSymmetry == Permutations(Nodes)
=============================================================================
