--------------------------- MODULE MCFleetSystem ---------------------------
(***************************************************************************)
(* FleetSystem on small instances.                                         *)
(***************************************************************************)
EXTENDS FleetSystem
=============================================================================
