----------------------------- MODULE MCUmpQueue -----------------------------
(***************************************************************************)
(* Instances of UmpQueue for TLC.  The ring sizes and the width of the     *)
(* sequence numbers are small enough for both to wrap around in every      *)
(* combination; the configuration files give their values.                 *)
(***************************************************************************)
EXTENDS UmpQueue
=============================================================================
