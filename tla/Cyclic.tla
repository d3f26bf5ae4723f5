------------------------------- MODULE Cyclic -------------------------------
(***************************************************************************)
(* Unsigned integers of a fixed width, as the queues use them to number    *)
(* their messages: IdxMod values, 2^16 for smlt_ump_idx_t and 2^64 for the *)
(* next_seq of the shared-memory queues.                                   *)
(***************************************************************************)
EXTENDS Integers

CONSTANT IdxMod

ASSUME CyclicAssumption == IdxMod \in Nat /\ IdxMod > 1

Idx == 0 .. IdxMod - 1

\* mutant: the sequence number does not wrap
IdxInc_NoWrap(i) == i + 1

\* i++
IdxInc(i) == IF i + 1 = IdxMod THEN 0 ELSE i + 1

\* a - b
IdxSub(a, b) == IF a >= b THEN a - b ELSE a - b + IdxMod

\* a + n, for a number n below IdxMod
IdxAdd(a, n) == IF a + n < IdxMod THEN a + n ELSE a + n - IdxMod

=============================================================================
