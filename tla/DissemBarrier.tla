--------------------------- MODULE DissemBarrier ---------------------------
(***************************************************************************)
(* The dissemination barrier.  In round r every thread notifies the thread *)
(* 2^r places further and waits for the one 2^r places before; after       *)
(* ceil(log2(NumThreads)) rounds it has heard, directly or not, from all.  *)
(*                                                                         *)
(* There is one channel between any two threads, with a queue in each      *)
(* direction.  A notification carries no data, so a queue is the number of *)
(* notifications in it; that it is a bounded FIFO channel is what UmpQueue *)
(* shows.                                                                  *)
(***************************************************************************)
EXTENDS Integers

CONSTANTS NumThreads,    \* bar->num_threads
          Capacity,      \* notifications a queue can hold
          MaxEpisodes    \* bound: barriers each thread passes

ASSUME DissemAssumption ==
  /\ NumThreads \in Nat \ {0}
  /\ Capacity \in Nat \ {0}
  /\ MaxEpisodes \in Nat

Threads == 0 .. NumThreads - 1

\* step in round r: 1, doubled after every round
StepIn[r \in Nat] == IF r = 0 THEN 1 ELSE StepIn[r - 1] * 2

\* mutant: the number of rounds is rounded down
Rounds_Floor ==
  CHOOSE r \in 0 .. NumThreads : StepIn[r] <= NumThreads /\ NumThreads < StepIn[r + 1]

\* ceil(log2(num_cores)), set by smlt_dissem_barrier_init
Rounds == CHOOSE r \in 0 .. NumThreads :
            NumThreads <= StepIn[r] /\ \A q \in 0 .. r - 1 : StepIn[q] < NumThreads

VARIABLES
  queue,     \* queue[i][j]: notifications from i to j not yet received
  round,     \* the round thread i is in
  pc,        \* where thread i is
  episode    \* history: barriers thread i has entered

vars == <<queue, round, pc, episode>>

Init ==
  /\ queue = [i \in Threads |-> [j \in Threads |-> 0]]
  /\ round = [i \in Threads |-> 0]
  /\ pc = [i \in Threads |-> "out"]
  /\ episode = [i \in Threads |-> 0]

Step(i) == StepIn[round[i]]

\* mutant: the step grows by one
SendPeer_Linear(i) == (i + round[i] + 1) % NumThreads

\* the peer to notify
SendPeer(i) == (i + Step(i)) % NumThreads

\* the peer to wait for; the loop adds num_threads until it is not negative
RecvPeer(i) == CHOOSE p \in Threads : \E k \in 0 .. NumThreads :
                 p + Step(i) = i + k * NumThreads

(* Thread i calls smlt_dissem_barrier_wait.                                *)
Enter(i) ==
  /\ pc[i] = "out"
  /\ episode[i] < MaxEpisodes
  /\ pc' = [pc EXCEPT ![i] = "send"]
  /\ round' = [round EXCEPT ![i] = 0]
  /\ episode' = [episode EXCEPT ![i] = @ + 1]
  /\ UNCHANGED queue

(* smlt_channel_notify to the peer, which waits while the queue is full.   *)
Notify(i) ==
  /\ pc[i] = "send"
  /\ round[i] < Rounds
  /\ queue[i][SendPeer(i)] < Capacity
  /\ queue' = [queue EXCEPT ![i][SendPeer(i)] = @ + 1]
  /\ pc' = [pc EXCEPT ![i] = "recv"]
  /\ UNCHANGED <<round, episode>>

\* mutant: the thread does not wait
CanRecv_Always(i) == TRUE

\* is there a notification from the peer
CanRecv(i) == queue[RecvPeer(i)][i] > 0

(* smlt_channel_recv_notification from the peer, and on to the next round. *)
RecvNotification(i) ==
  /\ pc[i] = "recv"
  /\ CanRecv(i)
  /\ queue' = [queue EXCEPT ![RecvPeer(i)][i] = @ - 1]
  /\ round' = [round EXCEPT ![i] = @ + 1]
  /\ pc' = [pc EXCEPT ![i] = "send"]
  /\ UNCHANGED episode

(* All rounds are done: smlt_dissem_barrier_wait returns.                  *)
Leave(i) ==
  /\ pc[i] = "send"
  /\ round[i] = Rounds
  /\ pc' = [pc EXCEPT ![i] = "out"]
  /\ UNCHANGED <<queue, round, episode>>

Wait(i) == Notify(i) \/ RecvNotification(i) \/ Leave(i)

Next == \E i \in Threads : Enter(i) \/ Wait(i)

Spec == Init /\ [][Next]_vars

(* The threads are pinned to cores of their own and run. *)
FairSpec == Spec /\ \A i \in Threads : WF_vars(Enter(i)) /\ WF_vars(Wait(i))

-----------------------------------------------------------------------------
(* Properties.                                                             *)

(* Rounds and episodes stay in range.  A thread may be one barrier ahead   *)
(* of another, never two, so that a queue of smlt_dissem_barrier_wait never *)
(* holds more than two notifications.                                      *)
QueueBound ==
  /\ queue \in [Threads -> [Threads -> 0 .. 2]]
  /\ round \in [Threads -> 0 .. Rounds]
  /\ pc \in [Threads -> {"out", "send", "recv"}]
  /\ episode \in [Threads -> 0 .. MaxEpisodes]

\* barriers thread i has left
Left(i) == IF pc[i] = "out" THEN episode[i] ELSE episode[i] - 1

Abstract == INSTANCE BarrierSpec WITH
  entered <- episode,
  left    <- [i \in Threads |-> Left(i)]

(* smlt_dissem_barrier_wait is a barrier: nobody leaves an episode before  *)
(* everybody has entered it, over any number of episodes, although a fast  *)
(* thread sends notifications of the next episode into queues that others  *)
(* still read for this one.                                                *)
ImplementsBarrier == Abstract!Spec

(* Everybody gets through every barrier.                                   *)
Termination == <>(\A i \in Threads : Left(i) = MaxEpisodes)

=============================================================================
