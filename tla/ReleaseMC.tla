----------------------------- MODULE ReleaseMC -----------------------------
(***************************************************************************)
(* A committed configuration and a sandbox; two gates that runs evaluate,  *)
(* of which one or both are required.                                      *)
(***************************************************************************)
EXTENDS Release

CONSTANTS product, sandbox, thermal, clearance

MCOrder == <<thermal, clearance>>
=============================================================================
