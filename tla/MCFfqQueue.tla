----------------------------- MODULE MCFfqQueue -----------------------------
(***************************************************************************)
(* Instances of FfqQueue for TLC.                                          *)
(***************************************************************************)
EXTENDS FfqQueue
=============================================================================
