----------------------------- MODULE MCPayDbSync -----------------------------
(***************************************************************************)
(* Instances of PayDbSync for TLC.                                         *)
(***************************************************************************)
EXTENDS PayDbSync
=============================================================================
