------------------------------- MODULE MCCache -------------------------------
(***************************************************************************)
(* The instance of the NVS caches for TLC: that of MCNvs.                  *)
(***************************************************************************)
EXTENDS MCNvs, NvsCache
=============================================================================
