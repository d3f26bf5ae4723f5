---------------------------- MODULE FifoChannel ----------------------------
(***************************************************************************)
(* What every point-to-point queue of Smelt promises to the code above     *)
(* it: a bounded first-in first-out channel between one sender and one     *)
(* receiver that neither loses, duplicates, reorders nor invents a         *)
(* message.  The ring buffers of the backends are shown to implement it.   *)
(*                                                                         *)
(* Messages are numbered by the sender.  Numbers are drawn from a cyclic   *)
(* space of IdxMod values with more room than the channel has capacity, so *)
(* that two messages that are in the channel together never share one.     *)
(***************************************************************************)
EXTENDS Cyclic, Sequences

CONSTANT Capacity     \* messages the channel can hold

VARIABLES queue,      \* the numbers of the messages in the channel
          next,       \* the number the next message will carry
          received    \* the number of the message received last

vars == <<queue, next, received>>

Init ==
  /\ queue = <<>>
  /\ next = 1
  /\ received = 0

Send ==
  /\ Len(queue) < Capacity
  /\ queue' = Append(queue, next)
  /\ next' = IdxInc(next)
  /\ UNCHANGED received

Recv ==
  /\ queue # <<>>
  /\ received' = Head(queue)
  /\ queue' = Tail(queue)
  /\ UNCHANGED next

Next == Send \/ Recv

Spec == Init /\ [][Next]_vars
=============================================================================
