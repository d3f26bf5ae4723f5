------------------------------ MODULE McsLock ------------------------------
(***************************************************************************)
(* The queue lock of bench/diss_bar/mcs.c.  It has an atomic exchange and  *)
(* no compare-and-swap: an unlock that finds no successor takes the whole  *)
(* queue off the lock, and if it was not alone puts it back.  Threads that *)
(* came in between (usurpers) have the lock by then, and the old queue is  *)
(* hung behind the last of them.                                           *)
(*                                                                         *)
(* A queue node is named by the thread that owns it.  next and locked are  *)
(* volatile and x86 keeps the order of stores, so one step is one access.  *)
(***************************************************************************)
EXTENDS Naturals, FiniteSets

CONSTANTS Threads,   \* the threads, each with its queue node
          NULL,      \* the null pointer
          MaxCalls   \* bound: times a thread takes the lock

ASSUME McsLockAssumption == NULL \notin Threads /\ MaxCalls \in Nat

VARIABLES
  lock,      \* lock->lock, the tail of the queue
  next,      \* qnode->next
  locked,    \* qnode->locked
  pc,        \* where the thread is
  pred,      \* predecessor of mcs_lock_lock
  oldTail,   \* old_tail of mcs_lock_unlock
  usurper,   \* usurper of mcs_lock_unlock
  calls      \* history: times the thread has called mcs_lock_lock

locals == <<pred, oldTail, usurper>>
vars == <<lock, next, locked, pc, locals, calls>>

(* mcs_lock_init, and queue nodes that the caller has zeroed.              *)
Init ==
  /\ lock = NULL
  /\ next = [t \in Threads |-> NULL]
  /\ locked = [t \in Threads |-> FALSE]
  /\ pc = [t \in Threads |-> "idle"]
  /\ pred = [t \in Threads |-> NULL]
  /\ oldTail = [t \in Threads |-> NULL]
  /\ usurper = [t \in Threads |-> NULL]
  /\ calls = [t \in Threads |-> 0]

Goto(t, label) == pc' = [pc EXCEPT ![t] = label]

\* a local variable that goes out of scope
Drop(local, t) == local' = [local EXCEPT ![t] = NULL]

(* mcs_lock_lock.                                                          *)
Lock(t) ==
  /\ pc[t] = "idle"
  /\ calls[t] < MaxCalls
  /\ calls' = [calls EXCEPT ![t] = @ + 1]
  /\ next' = [next EXCEPT ![t] = NULL]
  /\ Goto(t, "enqueue")
  /\ UNCHANGED <<lock, locked, locals>>

Enqueue(t) ==
  /\ pc[t] = "enqueue"
  /\ pred' = [pred EXCEPT ![t] = lock]
  /\ lock' = t
  /\ Goto(t, IF lock = NULL THEN "held" ELSE "arm")
  /\ UNCHANGED <<next, locked, oldTail, usurper, calls>>

Arm(t) ==
  /\ pc[t] = "arm"
  /\ locked' = [locked EXCEPT ![t] = TRUE]
  /\ Goto(t, "link")
  /\ UNCHANGED <<lock, next, locals, calls>>

Link(t) ==
  /\ pc[t] = "link"
  /\ next' = [next EXCEPT ![pred[t]] = t]
  /\ Drop(pred, t)
  /\ Goto(t, "spin")
  /\ UNCHANGED <<lock, locked, oldTail, usurper, calls>>

Spin(t) ==
  /\ pc[t] = "spin"
  /\ ~locked[t]
  /\ Goto(t, "held")
  /\ UNCHANGED <<lock, next, locked, locals, calls>>

(* mcs_lock_unlock: the test for a successor.                              *)
Unlock(t) ==
  /\ pc[t] = "held"
  /\ Goto(t, IF next[t] = NULL THEN "detach" ELSE "handover")
  /\ UNCHANGED <<lock, next, locked, locals, calls>>

Handover(t) ==
  /\ pc[t] = "handover"
  /\ locked' = [locked EXCEPT ![next[t]] = FALSE]
  /\ Goto(t, "idle")
  /\ UNCHANGED <<lock, next, locals, calls>>

\* mutant: the queue is taken off without a look at who was in it
Detach_Alone(t) ==
  /\ pc[t] = "detach"
  /\ oldTail' = [oldTail EXCEPT ![t] = lock]
  /\ lock' = NULL
  /\ Goto(t, "idle")
  /\ UNCHANGED <<next, locked, pred, usurper, calls>>

\* the queue is taken off the lock
Detach(t) ==
  /\ pc[t] = "detach"
  /\ oldTail' = [oldTail EXCEPT ![t] = IF lock = t THEN NULL ELSE lock]
  /\ lock' = NULL
  /\ Goto(t, IF lock = t THEN "idle" ELSE "restore")
  /\ UNCHANGED <<next, locked, pred, usurper, calls>>

\* somebody is behind t: the queue is put back
Restore(t) ==
  /\ pc[t] = "restore"
  /\ usurper' = [usurper EXCEPT ![t] = lock]
  /\ lock' = oldTail[t]
  /\ Drop(oldTail, t)
  /\ Goto(t, "settle")
  /\ UNCHANGED <<next, locked, pred, calls>>

\* mutant: the successor is released although usurpers have the lock
Settle_NoUsurper(t) ==
  /\ pc[t] = "settle"
  /\ next[t] # NULL
  /\ locked' = [locked EXCEPT ![next[t]] = FALSE]
  /\ Goto(t, "idle")
  /\ UNCHANGED <<lock, next, locals, calls>>

\* the successor has linked itself: it follows the last usurper, or has the lock
Settle(t) ==
  /\ pc[t] = "settle"
  /\ next[t] # NULL
  /\ IF usurper[t] # NULL
       THEN next' = [next EXCEPT ![usurper[t]] = next[t]] /\ UNCHANGED locked
       ELSE locked' = [locked EXCEPT ![next[t]] = FALSE] /\ UNCHANGED next
  /\ Drop(usurper, t)
  /\ Goto(t, "idle")
  /\ UNCHANGED <<lock, pred, oldTail, calls>>

Acquire(t) == Enqueue(t) \/ Arm(t) \/ Link(t) \/ Spin(t)
Release(t) == Unlock(t) \/ Handover(t) \/ Detach(t) \/ Restore(t) \/ Settle(t)

Next == \E t \in Threads : Lock(t) \/ Acquire(t) \/ Release(t)

Spec == Init /\ [][Next]_vars

(* Threads are pinned and run; a thread that has the lock gives it back.   *)
FairSpec == Spec /\ \A t \in Threads : WF_vars(Lock(t) \/ Acquire(t) \/ Release(t))

-----------------------------------------------------------------------------
(* Properties.                                                             *)

\* pointers are null or nodes, and every thread is at a known place
TypeOK ==
  /\ lock \in Threads \cup {NULL}
  /\ next \in [Threads -> Threads \cup {NULL}]
  /\ locked \in [Threads -> BOOLEAN]
  /\ pc \in [Threads -> {"idle", "enqueue", "arm", "link", "spin", "held",
                         "handover", "detach", "restore", "settle"}]
  /\ {pred, oldTail, usurper} \subseteq [Threads -> Threads \cup {NULL}]
  /\ calls \in [Threads -> 0 .. MaxCalls]

\* t is between the return of mcs_lock_lock and the step that gives the lock up
Holds(t) == pc[t] \in {"held", "handover", "detach"}

(* One thread has the lock, also while an unlock has the queue in its      *)
(* hands and usurpers come and go.                                         *)
MutualExclusion == \A s, t \in Threads : Holds(s) /\ Holds(t) => s = t

(* The caller may keep its node on the stack: once its unlock has returned *)
(* nobody writes to it.  The node a thread is about to link to, to hang a  *)
(* queue behind or to release is always that of a thread inside lock or    *)
(* unlock, and a released one belongs to a thread that spins on it.        *)
NodesInUse == TypeOK /\ \A t \in Threads :
  /\ pc[t] = "link" => pc[pred[t]] # "idle"
  /\ pc[t] = "handover" => pc[next[t]] = "spin" /\ locked[next[t]]
  /\ pc[t] = "settle" /\ usurper[t] # NULL => pc[usurper[t]] # "idle"
  /\ pc[t] = "settle" /\ usurper[t] = NULL /\ next[t] # NULL =>
       pc[next[t]] = "spin" /\ locked[next[t]]

(* No waiter is lost: when the others have taken the lock as often as they *)
(* want, it is served.  (Before that it need not be: usurpers overtake     *)
(* those that wait, without end if they keep coming.)                      *)
EveryoneServed ==
  <>(\A t \in Threads : calls[t] = MaxCalls /\ pc[t] = "idle")

=============================================================================
