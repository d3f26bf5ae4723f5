--------------------------- MODULE McsLockProofs ---------------------------
(***************************************************************************)
(* Proofs about McsLock, for every set of threads and any number of calls. *)
(*                                                                         *)
(* A queue node that is in use has at most one reference to its end, the   *)
(* place where the next node will be hung: the lock itself, a local        *)
(* variable of the thread that took the queue off the lock, of the one     *)
(* about to link itself, or of the one about to hang the old queue behind  *)
(* the usurpers; or else a successor is there already.  Every step of      *)
(* mcs_lock_lock and mcs_lock_unlock hands such a reference on.            *)
(***************************************************************************)
EXTENDS McsLock, TLAPS

\* the node of t is in the queue, or in a part of it that an unlock holds
Active(t) == pc[t] \notin {"idle", "enqueue"}

\* the ways in which the end of node p can be referred to, k by thread t
Kinds == {"lock", "oldTail", "pred", "usurper", "next"}

Ref(p, k, t) ==
  \/ k = "lock"    /\ t = p /\ lock = p
  \/ k = "oldTail" /\ pc[t] = "restore" /\ oldTail[t] = p
  \/ k = "pred"    /\ pc[t] \in {"arm", "link"} /\ pred[t] = p
  \/ k = "usurper" /\ pc[t] = "settle" /\ usurper[t] = p
  \/ k = "next"    /\ t = p /\ Active(p) /\ next[p] # NULL

\* a node that is referred to is in use, and referred to in one way only
OneRef ==
  \A p, t \in Threads : \A k \in Kinds : Ref(p, k, t) =>
    /\ Active(p)
    /\ \A l \in Kinds : \A s \in Threads : Ref(p, l, s) => k = l /\ t = s

\* what a thread knows at each place
Locals ==
  \A t \in Threads :
    /\ pc[t] = "enqueue" => next[t] = NULL
    /\ pc[t] \in {"arm", "link"} => pred[t] # NULL
    /\ pc[t] = "link" => locked[t]
    /\ pc[t] = "restore" => oldTail[t] # NULL
    /\ pc[t] = "handover" => next[t] # NULL

\* a successor waits, and for one node only
Successors ==
  \A p \in Threads : Active(p) /\ next[p] # NULL =>
    /\ pc[next[p]] = "spin" /\ locked[next[p]]
    /\ \A q \in Threads : Active(q) /\ next[q] = next[p] => q = p

\* t has the lock, has been given it, or is about to give it to its successor
Token(t) ==
  \/ pc[t] \in {"held", "handover", "detach"}
  \/ pc[t] = "spin" /\ ~locked[t]
  \/ pc[t] = "settle" /\ usurper[t] = NULL

\* there is one token, and none while the lock looks free
OneToken ==
  \A t \in Threads : Token(t) =>
    lock # NULL /\ \A s \in Threads : Token(s) => s = t

IndInv == TypeOK /\ OneRef /\ Locals /\ Successors /\ OneToken

-----------------------------------------------------------------------------
\* Pointers are null or nodes, one variable at a time.
LEMMA Types ==
  ASSUME TypeOK
  PROVE  /\ NULL \notin Threads
         /\ lock \in Threads \cup {NULL}
         /\ next \in [Threads -> Threads \cup {NULL}]
         /\ locked \in [Threads -> BOOLEAN]
         /\ pc \in [Threads -> {"idle", "enqueue", "arm", "link", "spin", "held",
                                "handover", "detach", "restore", "settle"}]
         /\ pred \in [Threads -> Threads \cup {NULL}]
         /\ oldTail \in [Threads -> Threads \cup {NULL}]
         /\ usurper \in [Threads -> Threads \cup {NULL}]
         /\ calls \in [Threads -> 0 .. MaxCalls]
BY McsLockAssumption DEF TypeOK

\* The free lock and the zeroed queue nodes satisfy the invariant.
LEMMA InitInv == Init => IndInv
<1> SUFFICES ASSUME Init PROVE IndInv
  OBVIOUS
<1> USE McsLockAssumption DEF McsLockAssumption, Init
<1>1. TypeOK
  BY DEF TypeOK
<1>2. OneRef
  BY DEF OneRef, Ref
<1>3. Locals /\ Successors /\ OneToken
  BY DEF Locals, Successors, OneToken, Token
<1> QED BY <1>1, <1>2, <1>3 DEF IndInv

-----------------------------------------------------------------------------
(* One lemma per action.                                                   *)

\* Clearing qnode->next makes no reference: the node is not in the queue yet.
LEMMA LockInv ==
  ASSUME IndInv, NEW t \in Threads, Lock(t)
  PROVE  IndInv'
<1> USE Types DEF Lock, Goto, Drop, locals, IndInv
<1>1. TypeOK'
  <2>1. calls' \in [Threads -> 0 .. MaxCalls]
    BY McsLockAssumption
  <2> QED BY <2>1 DEF TypeOK
<1>2. OneRef'
  BY DEF OneRef, Ref, Active
<1>3. Locals'
  BY DEF Locals
<1>4. Successors'
  BY DEF Successors, Active
<1>5. OneToken'
  BY DEF OneToken, Token
<1> QED BY <1>1, <1>2, <1>3, <1>4, <1>5

\* The exchange hands the reference of the lock on to the local variable
\* predecessor, and makes the lock refer to the new node.
LEMMA EnqueueInv ==
  ASSUME IndInv, NEW t \in Threads, Enqueue(t)
  PROVE  IndInv'
<1> USE Types DEF Enqueue, Goto, Drop, locals, IndInv
<1>1. TypeOK'
  BY DEF TypeOK
<1>2. OneRef'
  BY DEF OneRef, Ref, Active, Kinds, Locals
<1>3. Locals'
  BY DEF Locals
<1>4. Successors'
  BY DEF Successors, Active, Locals
<1>5. OneToken'
  BY DEF OneToken, Token
<1> QED BY <1>1, <1>2, <1>3, <1>4, <1>5

\* Setting qnode->locked: nobody can have released the node, as it has no
\* predecessor yet.
LEMMA ArmInv ==
  ASSUME IndInv, NEW t \in Threads, Arm(t)
  PROVE  IndInv'
<1> USE Types DEF Arm, Goto, Drop, locals, IndInv
<1>1. TypeOK'
  BY DEF TypeOK
<1>2. OneRef'
  BY DEF OneRef, Ref, Active
<1>3. Locals'
  BY DEF Locals
<1>4. Successors'
  BY DEF Successors, Active
<1>5. OneToken'
  BY DEF OneToken, Token
<1> QED BY <1>1, <1>2, <1>3, <1>4, <1>5

\* The reference predecessor becomes a successor of that node, which had none
\* and is still in the queue.
LEMMA LinkInv ==
  ASSUME IndInv, NEW t \in Threads, Link(t)
  PROVE  IndInv'
<1> USE Types DEF Link, Goto, Drop, locals, IndInv
<1>1. TypeOK'
  BY DEF TypeOK
<1>2. OneRef'
  BY DEF OneRef, Ref, Active, Kinds
<1>3. Locals'
  BY DEF Locals, OneRef, Ref, Active, Kinds
<1>4. Successors'
  BY DEF Successors, Active, Locals
<1>5. OneToken'
  BY DEF OneToken, Token, Locals
<1> QED BY <1>1, <1>2, <1>3, <1>4, <1>5

\* A thread that was released has the token.
LEMMA SpinInv ==
  ASSUME IndInv, NEW t \in Threads, Spin(t)
  PROVE  IndInv'
<1> USE Types DEF Spin, Goto, Drop, locals, IndInv
<1>1. TypeOK'
  BY DEF TypeOK
<1>2. OneRef'
  BY DEF OneRef, Ref, Active
<1>3. Locals'
  BY DEF Locals
<1>4. Successors'
  BY DEF Successors, Active
<1>5. OneToken'
  BY DEF OneToken, Token
<1> QED BY <1>1, <1>2, <1>3, <1>4, <1>5

\* The test for a successor leaves the token where it is.
LEMMA UnlockInv ==
  ASSUME IndInv, NEW t \in Threads, Unlock(t)
  PROVE  IndInv'
<1> USE Types DEF Unlock, Goto, Drop, locals, IndInv
<1>1. TypeOK'
  BY DEF TypeOK
<1>2. OneRef'
  BY DEF OneRef, Ref, Active
<1>3. Locals'
  BY DEF Locals
<1>4. Successors'
  BY DEF Successors, Active
<1>5. OneToken'
  BY DEF OneToken, Token
<1> QED BY <1>1, <1>2, <1>3, <1>4, <1>5

\* The token goes to the successor, and with it the only reference to the node
\* of the thread that leaves.
LEMMA HandoverInv ==
  ASSUME IndInv, NEW t \in Threads, Handover(t)
  PROVE  IndInv'
<1> USE Types DEF Handover, Goto, Drop, locals, IndInv
<1>1. TypeOK'
  BY DEF TypeOK
<1>2. OneRef'
  BY DEF OneRef, Ref, Active, Kinds, Locals
<1>3. Locals'
  BY DEF Locals, Active, Successors
<1>4. Successors'
  BY DEF Successors, Active
<1>5. OneToken'
  BY DEF OneToken, Token
<1> QED BY <1>1, <1>2, <1>3, <1>4, <1>5

\* Either the thread was alone, and its node was referred to by the lock only, or
\* the reference of the lock moves to old_tail and the token is given up: the
\* lock looks free.
LEMMA DetachInv ==
  ASSUME IndInv, NEW t \in Threads, Detach(t)
  PROVE  IndInv'
<1> USE Types DEF Detach, Goto, Drop, locals, IndInv
<1>1. TypeOK'
  BY DEF TypeOK
<1>2. OneRef'
  BY DEF OneRef, Ref, Active, Kinds
<1>3. Locals'
  BY DEF Locals, OneToken, Token
<1>4. Successors'
  BY DEF Successors, Active
<1>5. OneToken'
  BY DEF OneToken, Token
<1> QED BY <1>1, <1>2, <1>3, <1>4, <1>5

\* The two references change places: the lock refers to the end of the old queue
\* again, usurper to the end of the usurpers' queue.  Without usurpers the token
\* was not taken and is back.
LEMMA RestoreInv ==
  ASSUME IndInv, NEW t \in Threads, Restore(t)
  PROVE  IndInv'
<1> USE Types DEF Restore, Goto, Drop, locals, IndInv
<1>1. TypeOK'
  BY DEF TypeOK
<1>2. OneRef'
  BY DEF OneRef, Ref, Active, Kinds
<1>3. Locals'
  BY DEF Locals
<1>4. Successors'
  BY DEF Successors, Active
<1>5. OneToken'
  BY DEF OneToken, Token, Locals
<1> QED BY <1>1, <1>2, <1>3, <1>4, <1>5

\* The successor is hung behind the last usurper, which had none, or is given the
\* token.
LEMMA SettleInv ==
  ASSUME IndInv, NEW t \in Threads, Settle(t)
  PROVE  IndInv'
<1> USE Types DEF Settle, Goto, Drop, locals, IndInv
<1>1. TypeOK'
  BY DEF TypeOK
<1>2. OneRef'
  BY DEF OneRef, Ref, Active, Kinds
<1>3. Locals'
  BY DEF Locals, OneRef, Ref, Active, Kinds, Successors
<1>4. Successors'
  BY DEF Successors, Active
<1>5. OneToken'
  BY DEF OneToken, Token, Successors, Active, Locals
<1> QED BY <1>1, <1>2, <1>3, <1>4, <1>5

\* Every step of every thread preserves the invariant.
LEMMA NextInv == IndInv /\ [Next]_vars => IndInv'
<1> SUFFICES ASSUME IndInv, [Next]_vars PROVE IndInv'
  OBVIOUS
<1>1. ASSUME NEW t \in Threads, Lock(t) PROVE IndInv'
  BY <1>1, LockInv
<1>2. ASSUME NEW t \in Threads, Acquire(t) PROVE IndInv'
  BY <1>2, EnqueueInv, ArmInv, LinkInv, SpinInv DEF Acquire
<1>3. ASSUME NEW t \in Threads, Release(t) PROVE IndInv'
  BY <1>3, UnlockInv, HandoverInv, DetachInv, RestoreInv, SettleInv DEF Release
<1>4. CASE UNCHANGED vars
  BY <1>4 DEF vars, locals, IndInv, TypeOK, OneRef, Locals, Successors, OneToken,
     Ref, Active, Token
<1> QED BY <1>1, <1>2, <1>3, <1>4 DEF Next

\* The invariant holds in every reachable state of the lock.
THEOREM Invariance == Spec => []IndInv
BY InitInv, NextInv, PTL DEF Spec

\* Whatever the number of threads, mcs_lock_lock lets one of them through at a
\* time, also while mcs_lock_unlock has taken the queue off the lock and usurpers
\* find it free.
THEOREM MutualExclusionHolds == Spec => []MutualExclusion
<1>1. IndInv => MutualExclusion
  BY DEF IndInv, OneToken, Token, MutualExclusion, Holds
<1> QED BY <1>1, Invariance, PTL

\* Every node that mcs_lock_lock or mcs_lock_unlock writes to through a pointer
\* belongs to a thread inside one of the two, and the node it releases to a
\* thread that waits to be released.
THEOREM NodesAreInUse == Spec => []NodesInUse
<1>1. ASSUME IndInv PROVE NodesInUse
  <2> SUFFICES ASSUME NEW t \in Threads
               PROVE  /\ pc[t] = "link" => pc[pred[t]] # "idle"
                      /\ pc[t] = "handover" => pc[next[t]] = "spin" /\ locked[next[t]]
                      /\ pc[t] = "settle" /\ usurper[t] # NULL => pc[usurper[t]] # "idle"
                      /\ pc[t] = "settle" /\ usurper[t] = NULL /\ next[t] # NULL =>
                           pc[next[t]] = "spin" /\ locked[next[t]]
    BY <1>1 DEF NodesInUse, IndInv
  <2> USE <1>1, Types DEF IndInv
  <2>1. pc[t] = "link" => pc[pred[t]] # "idle"
    BY DEF OneRef, Ref, Kinds, Active, Locals
  <2>2. pc[t] = "settle" /\ usurper[t] # NULL => pc[usurper[t]] # "idle"
    BY DEF OneRef, Ref, Kinds, Active
  <2>3. pc[t] \in {"handover", "settle"} /\ next[t] # NULL =>
          pc[next[t]] = "spin" /\ locked[next[t]]
    BY DEF Successors, Active
  <2> QED BY <2>1, <2>2, <2>3 DEF Locals
<1> QED BY <1>1, Invariance, PTL

=============================================================================
