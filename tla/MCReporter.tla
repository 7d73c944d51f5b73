----------------------------- MODULE MCReporter -----------------------------
(***************************************************************************)
(* ReporterHistory on small instances.                                     *)
(***************************************************************************)
EXTENDS ReporterHistory, TLC

DeviceSymmetry == Permutations(Devices)
=============================================================================
