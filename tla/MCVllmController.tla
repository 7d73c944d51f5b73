-------------------------- MODULE MCVllmController --------------------------
(***************************************************************************)
(* VllmController on small instances.                                      *)
(***************************************************************************)
EXTENDS VllmController
=============================================================================
