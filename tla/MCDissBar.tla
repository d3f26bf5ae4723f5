----------------------------- MODULE MCDissBar -----------------------------
(***************************************************************************)
(* Instances of DissBar for TLC.                                           *)
(***************************************************************************)
EXTENDS DissBar

=============================================================================
