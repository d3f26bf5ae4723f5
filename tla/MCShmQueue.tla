----------------------------- MODULE MCShmQueue -----------------------------
(***************************************************************************)
(* Instances of ShmQueue for TLC; ring and message numbers wrap around in  *)
(* every combination.                                                      *)
(***************************************************************************)
EXTENDS ShmQueue
=============================================================================
