----------------------------- MODULE MCManifest -----------------------------
(***************************************************************************)
(* An instance of the capability manifest: three capabilities.             *)
(***************************************************************************)
EXTENDS Manifest

\* the lengths of three tags, the middle one the longest
MCTagLen == <<10, 11, 10>>
=============================================================================
