-------------------------- MODULE MCFixSupervisor --------------------------
(***************************************************************************)
(* FixSupervisor with the bounds of the code: nothing needs to be made     *)
(* smaller for TLC.                                                        *)
(***************************************************************************)
EXTENDS FixSupervisor
=============================================================================
