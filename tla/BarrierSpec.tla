---------------------------- MODULE BarrierSpec ----------------------------
(***************************************************************************)
(* What a barrier of Smelt promises to the threads that use it, over and   *)
(* over: nobody leaves an episode before everybody has entered it.         *)
(*                                                                         *)
(* entered[n] and left[n] count the episodes that thread n has entered and *)
(* left.  The tree barrier, the all-reduction and the dissemination        *)
(* barrier are shown to implement this specification.                      *)
(***************************************************************************)
EXTENDS Naturals

CONSTANT Threads

VARIABLES entered, left

vars == <<entered, left>>

Init ==
  /\ entered = [n \in Threads |-> 0]
  /\ left = [n \in Threads |-> 0]

Enter(n) ==
  /\ entered[n] = left[n]
  /\ entered' = [entered EXCEPT ![n] = @ + 1]
  /\ UNCHANGED left

Leave(n) ==
  /\ left[n] < entered[n]
  /\ \A m \in Threads : entered[m] >= entered[n]
  /\ left' = [left EXCEPT ![n] = @ + 1]
  /\ UNCHANGED entered

Next == \E n \in Threads : Enter(n) \/ Leave(n)

Spec == Init /\ [][Next]_vars
=============================================================================
