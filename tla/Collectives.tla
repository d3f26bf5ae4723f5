---------------------------- MODULE Collectives ----------------------------
(***************************************************************************)
(* The collective operations on the tree of a context: reduction towards   *)
(* the root, broadcast from it, and what is built from the two, the        *)
(* all-reduction and the barrier.  All nodes call the same operations in   *)
(* the same order, and nothing else keeps them together.                   *)
(*                                                                         *)
(* smlt_context_create gives every child of a node a 1:1 channel, a pair   *)
(* of UMP queues, which are bounded FIFO channels as UmpQueue shows.  A    *)
(* node finds the channels to its children in its own list and the one to  *)
(* its parent in its parent's list, at its array_index.                    *)
(*                                                                         *)
(* A message is the number of the operation it belongs to and the set of   *)
(* the nodes whose input went into it; the operation of a reduction joins  *)
(* such sets.  A notification is a message without inputs.                 *)
(***************************************************************************)
EXTENDS Topology, FiniteSets

CONSTANTS NumNodes,   \* nodes of the context
          Trees,      \* topologies the context may be created from
          Capacity,   \* messages a queue can hold
          MaxOps      \* bound: collective operations each node calls

Nodes == 0 .. NumNodes - 1

Ops == {"barrier", "broadcast", "reduce", "reduce_all"}

ASSUME CollectivesAssumption ==
  /\ NumNodes \in Nat \ {0} /\ Capacity \in Nat \ {0} /\ MaxOps \in Nat
  /\ \A t \in Trees : IsTree(t, Nodes)

VARIABLES
  tree,      \* the topology of the context
  program,   \* the operations all nodes call, in order
  down, up,  \* the two queues of each channel, by owner and position
  count,     \* operations a node has begun
  pc,        \* where a node is in its operation
  idx,       \* loop counter over the children, of the reduction and the broadcast
  got,       \* positions a node has received from in this reduction
  msg,       \* the message of the operation, or its result
  result     \* history: the result of each finished operation, by node

vars == <<tree, program, down, up, count, pc, idx, got, msg, result>>

Message == [op : 1 .. MaxOps, inputs : SUBSET Nodes]
NoMsg   == [op |-> 0, inputs |-> {}]

\* the operation node n is in
Op(n) == program[count[n]]

\* the positions of the channels to the children of node n
Children(n) == 1 .. Len(tree.children[n])

IsRoot(n) == tree.parent[n] = NoNode
Root == CHOOSE n \in Nodes : IsRoot(n)

\* the position of the channel to the parent in the parent's list
Position(n) == tree.index[n] + 1

\* the queue from the parent of node n
FromParent(n) == down[tree.parent[n]][Position(n)]

NoMessages(t) == [n \in Nodes |-> [i \in 1 .. Len(t.children[n]) |-> <<>>]]

Init ==
  /\ tree \in Trees
  /\ program \in [1 .. MaxOps -> Ops]
  /\ down = NoMessages(tree)
  /\ up = NoMessages(tree)
  /\ count = [n \in Nodes |-> 0]
  /\ pc = [n \in Nodes |-> "out"]
  /\ idx = [n \in Nodes |-> 1]
  /\ got = [n \in Nodes |-> {}]
  /\ msg = [n \in Nodes |-> NoMsg]
  /\ result = [n \in Nodes |-> <<>>]

-----------------------------------------------------------------------------
\* mutant: one message too many
Fits_OffByOne(q) == Len(q) <= Capacity

\* a send on queue q does not wait
Fits(q) == Len(q) < Capacity

\* mutant: nobody waits for the parent
BroadcastStart_NoWait(n) == "down"

\* the first half of a broadcast: the root has the message, others wait for it
BroadcastStart(n) == IF IsRoot(n) THEN "down" ELSE "recv"

\* the caller's own message: the operation applied to an empty result and the
\* input, nothing for a barrier, the message to send for a broadcast
Input(n, k) == [op |-> k,
                inputs |-> CASE program[k] = "barrier" -> {}
                             [] program[k] = "broadcast" -> {Root}
                             [] OTHER -> {n}]

(* Node n calls the next operation.  In a broadcast only the root brings a *)
(* message.                                                                *)
Call(n) ==
  LET k == count[n] + 1 IN
  /\ pc[n] = "out"
  /\ k <= MaxOps
  /\ count' = [count EXCEPT ![n] = k]
  /\ pc' = [pc EXCEPT ![n] = IF program[k] = "broadcast" THEN BroadcastStart(n)
                                                         ELSE "collect"]
  /\ msg' = [msg EXCEPT ![n] = IF program[k] = "broadcast" /\ ~IsRoot(n)
                               THEN NoMsg ELSE Input(n, k)]
  /\ idx' = [idx EXCEPT ![n] = 1]
  /\ got' = [got EXCEPT ![n] = {}]
  /\ UNCHANGED <<tree, program, down, up, result>>

-----------------------------------------------------------------------------
(* smlt_reduce and smlt_reduce_notify.                                     *)

\* smlt_channel_recv overwrites the result, a notification leaves it alone
Received(n, m) == IF Op(n) = "barrier" THEN msg[n] ELSE m

\* the next value of the loop counter of the polling loop
NextChild(n) == IF idx[n] = Len(tree.children[n]) THEN 1 ELSE idx[n] + 1

(* One turn of the polling loop: a message of child idx is taken if there  *)
(* is one and the child has not sent already.                              *)
Poll(n) ==
  LET i == idx[n] IN
  /\ pc[n] = "collect"
  /\ got[n] # Children(n)
  /\ IF i \notin got[n] /\ up[n][i] # <<>>
     THEN /\ msg' = [msg EXCEPT ![n] = Received(n, Head(up[n][i]))]
          /\ up' = [up EXCEPT ![n][i] = Tail(@)]
          /\ got' = [got EXCEPT ![n] = @ \cup {i}]
     ELSE UNCHANGED <<msg, up, got>>
  /\ idx' = [idx EXCEPT ![n] = NextChild(n)]
  /\ UNCHANGED <<tree, program, down, count, pc, result>>

\* mutant: one child is enough
Collected_Some(n) == Children(n) = {} \/ got[n] # {}

\* num_recv = count
Collected(n) == Children(n) = got[n]

\* mutant: nobody waits for the root
AfterReduce_Return(n) == "return"

\* after the reduction: a reduction returns, the others broadcast
AfterReduce(n) == IF Op(n) = "reduce" THEN "return" ELSE BroadcastStart(n)

(* All children have sent: on to the parent, if there is one.              *)
SendUp(n) ==
  /\ pc[n] = "collect"
  /\ Collected(n)
  /\ IF IsRoot(n)
     THEN UNCHANGED up
     ELSE /\ Fits(up[tree.parent[n]][Position(n)])
          /\ up' = [up EXCEPT ![tree.parent[n]][Position(n)] = Append(@, msg[n])]
  /\ pc' = [pc EXCEPT ![n] = AfterReduce(n)]
  /\ idx' = [idx EXCEPT ![n] = 1]
  /\ UNCHANGED <<tree, program, down, count, got, msg, result>>

-----------------------------------------------------------------------------
(* smlt_broadcast and smlt_broadcast_notify.                               *)

\* smlt_channel_recv_index and smlt_channel_recv_notification do not wait
Arrived(n) == FromParent(n) # <<>>

(* Receive from the parent.                                                *)
RecvDown(n) ==
  /\ pc[n] = "recv"
  /\ Arrived(n)
  /\ msg' = [msg EXCEPT ![n] = Head(FromParent(n))]
  /\ down' = [down EXCEPT ![tree.parent[n]][Position(n)] = Tail(@)]
  /\ pc' = [pc EXCEPT ![n] = "down"]
  /\ UNCHANGED <<tree, program, up, count, idx, got, result>>

\* mutant: the loop stops before the last channel
Subtree_Short(n) == 1 .. Len(tree.children[n]) - 1

\* the channels of smlt_broadcast_subtree and smlt_broadcast_notify_subtree
Subtree(n) == Children(n)

(* One turn of the loop: a send on the channel to child idx.               *)
SendDown(n) ==
  /\ pc[n] = "down"
  /\ idx[n] \in Subtree(n)
  /\ Fits(down[n][idx[n]])
  /\ down' = [down EXCEPT ![n][idx[n]] = Append(@, msg[n])]
  /\ idx' = [idx EXCEPT ![n] = @ + 1]
  /\ UNCHANGED <<tree, program, up, count, pc, got, msg, result>>

(* The operation returns.                                                  *)
Return(n) ==
  /\ \/ pc[n] = "return"
     \/ pc[n] = "down" /\ idx[n] \notin Subtree(n)
  /\ pc' = [pc EXCEPT ![n] = "out"]
  /\ result' = [result EXCEPT ![n] = Append(@, msg[n])]
  /\ msg' = [msg EXCEPT ![n] = NoMsg]
  /\ got' = [got EXCEPT ![n] = {}]
  /\ idx' = [idx EXCEPT ![n] = 1]
  /\ UNCHANGED <<tree, program, down, up, count>>

-----------------------------------------------------------------------------
Step(n) == Poll(n) \/ SendUp(n) \/ RecvDown(n) \/ SendDown(n) \/ Return(n)

Next == \E n \in Nodes : Call(n) \/ Step(n)

Spec == Init /\ [][Next]_vars

(* The nodes run on cores of their own, and every node calls its operations. *)
FairSpec == Spec /\ \A n \in Nodes : WF_vars(Call(n)) /\ WF_vars(Step(n))

-----------------------------------------------------------------------------
(* Properties.                                                             *)

(* The queues are bounded and hold messages, and a node is in one place of *)
(* its operation.                                                          *)
TypeOK ==
  /\ \A n \in Nodes :
       /\ \A i \in Children(n) : \A q \in {down[n][i], up[n][i]} :
            Len(q) <= Capacity /\ \A j \in 1 .. Len(q) : q[j] \in Message
       /\ idx[n] \in 1 .. Len(tree.children[n]) + 1
       /\ got[n] \subseteq Children(n)
  /\ count \in [Nodes -> 0 .. MaxOps]
  /\ pc \in [Nodes -> {"out", "collect", "recv", "down", "return"}]
  /\ msg \in [Nodes -> Message \cup {NoMsg}]

(* Operations never mix: the message a node is about to receive was sent   *)
(* for the operation it is in, although other nodes may be operations      *)
(* ahead or behind and only the order in the queues tells their messages   *)
(* apart.                                                                  *)
NoMixing ==
  \A n \in Nodes :
    /\ \A i \in Children(n) \ got[n] :
         pc[n] = "collect" /\ up[n][i] # <<>> => Head(up[n][i]).op = count[n]
    /\ pc[n] = "recv" /\ Arrived(n) => Head(FromParent(n)).op = count[n]
    /\ \A k \in 1 .. Len(result[n]) : result[n][k].op = k

(* Every node gets from a broadcast what the root sent, and from an        *)
(* all-reduction what the root had after its reduction.                    *)
BroadcastAgreement ==
  \A n \in Nodes : \A k \in 1 .. Len(result[n]) :
    /\ program[k] = "broadcast" => result[n][k].inputs = {Root}
    /\ program[k] = "reduce_all" /\ k <= Len(result[Root])
       => result[n][k] = result[Root][k]

(* The result of a reduction at the root is the aggregate of the inputs of *)
(* all nodes ("function to be called to calculate the aggregate").         *)
ReduceAggregates ==
  \A k \in 1 .. Len(result[Root]) :
    program[k] \in {"reduce", "reduce_all"} => result[Root][k].inputs = Nodes

\* the operations among the first k that synchronise all nodes
Synchronising(k) == Cardinality({j \in 1 .. k : program[j] \in {"barrier", "reduce_all"}})

Abstract == INSTANCE BarrierSpec WITH
  Threads <- Nodes,
  entered <- [n \in Nodes |-> Synchronising(count[n])],
  left    <- [n \in Nodes |-> Synchronising(Len(result[n]))]

(* smlt_barrier_wait and smlt_reduce_all are barriers, whatever other      *)
(* operations they are mixed with: nobody returns from one before          *)
(* everybody has called it.                                                *)
ImplementsBarrier == Abstract!Spec

(* Nobody is stuck: with queues that hold no more than Capacity messages,  *)
(* every node gets through every operation.                                *)
Termination == <>(\A n \in Nodes : Len(result[n]) = MaxOps)

=============================================================================
