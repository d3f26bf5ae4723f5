-------------------------- MODULE MCDissemBarrier --------------------------
(***************************************************************************)
(* Instances of DissemBarrier for TLC.                                     *)
(***************************************************************************)
EXTENDS DissemBarrier
=============================================================================
