-------------------------- MODULE MCSandboxExecute --------------------------
(***************************************************************************)
(* SandboxExecute with commands that end, one that does not and one that   *)
(* ends the kernel.                                                        *)
(***************************************************************************)
EXTENDS SandboxExecute
=============================================================================
