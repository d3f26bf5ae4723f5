---------------------------- MODULE MCSwmrQueue ----------------------------
(***************************************************************************)
(* Instances of SwmrQueue for TLC.  A ring of NumSlots slots works with a  *)
(* publishing bit PubBit when NumSlots >= PubBit + 3; the code has at      *)
(* least 48 slots and PubBit = 32.                                         *)
(***************************************************************************)
EXTENDS SwmrQueue
=============================================================================
