----------------------------- MODULE MCMcsLock -----------------------------
(***************************************************************************)
(* Instances of McsLock for TLC.                                           *)
(***************************************************************************)
EXTENDS McsLock
=============================================================================
