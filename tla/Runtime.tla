------------------------------ MODULE Runtime ------------------------------
(***************************************************************************)
(* Smelt as a program sees it: nodes that are started and joined, queue    *)
(* pairs and channels between them, barriers, set-up calls that may fail,  *)
(* and the generation of the model of a tree.                              *)
(*                                                                         *)
(* A queue is a bounded FIFO and a barrier holds everybody back until      *)
(* everybody has come: UmpQueue, ShmQueue and FfqQueue implement the       *)
(* former (FifoChannel), DissemBarrier and Collectives the latter          *)
(* (BarrierSpec).                                                          *)
(***************************************************************************)
EXTENDS Operations

CONSTANTS Programs,     \* the programs, by name and by argument
          Capacity,     \* messages a queue can hold
          MaxFailures,  \* bound: failures that the program does not notice
          MayFail(_, _, _) \* bound: the program, the call and the missing links of
                           \* a failure that is followed

ASSUME RuntimeAssumption == Capacity \in Nat \ {0} /\ MaxFailures \in Nat

VARIABLES
  bench,    \* the program: its name, its argument and its main function
  thread,   \* where each thread is: its function, its next operation, and the
            \* ends that a reduction has already received from
  node,     \* node->fn, and the number of the thread in node->handle
  peers,    \* the ends at the other side of an end
  inbox,    \* messages on their way to an end
  called,   \* how often a node has called a barrier
  failed,   \* history: calls that have failed and nobody has noticed
  status    \* "running", "exit" after a noticed failure, or how it died

vars == <<bench, thread, node, peers, inbox, called, failed, status>>

\* the main thread; thread k of node n is <<n, k>>
MAIN == <<-1, 0>>

\* A function is named by the operation of main that starts it; main is 0.
Code(f) == IF f = 0 THEN bench.main ELSE bench.main[f].fn

\* a thread that calls f next
Begin(f, pc) == [fn |-> f, pc |-> pc, got |-> {}]

Boot ==
  /\ \E all \in {Programs} : \E n \in DOMAIN all : \E a \in DOMAIN all[n] :
       bench = [name |-> n, arg |-> a, main |-> Numbered(all[n][a])]
  /\ thread = (MAIN :> Begin(0, 1))
  /\ node = <<>>
  /\ peers = <<>>
  /\ inbox = <<>>
  /\ called = <<>>
  /\ failed = {}
  /\ status = "running"

\* the operation that thread t is about to do: none before it has called its
\* function (at 0) and after it has returned
NextOp(t) ==
  LET code == Code(thread[t].fn) IN
  IF status = "running" /\ thread[t].pc \in DOMAIN code THEN {code[thread[t].pc]} ELSE {}

After(t) == [thread EXCEPT ![t].pc = @ + 1, ![t].got = {}]

Done(t) == thread' = After(t)

\* the program dies
Dies(how) == status' = how /\ UNCHANGED <<bench, thread, node, peers, inbox, called, failed>>

-----------------------------------------------------------------------------
(* Messages and barriers: what thread t does when its next operation is o. *)

\* mutant: nobody looks whether the queue is full
HasRoom_Never(e) == TRUE

\* a send waits for room at all readers
HasRoom(e) == \A y \in peers[e] : Len(inbox[y]) < Capacity

SendStep(t, o) ==
  /\ o.op = "send"
  /\ o.end \in DOMAIN peers
  /\ HasRoom(o.end)
  /\ inbox' = [y \in DOMAIN inbox |->
                 IF y \in peers[o.end] THEN Append(inbox[y], o.msg) ELSE inbox[y]]
  /\ Done(t)
  /\ UNCHANGED <<bench, node, peers, called, failed, status>>

RecvStep(t, o) ==
  /\ o.op = "recv"
  /\ o.end \in DOMAIN inbox
  /\ inbox[o.end] # <<>>
  /\ inbox' = [inbox EXCEPT ![o.end] = Tail(@)]
  /\ Done(t)
  /\ UNCHANGED <<bench, node, peers, called, failed, status>>

RecvAllStep(t, o) ==
  /\ o.op = "recvall"
  /\ o.ends \subseteq DOMAIN inbox
  /\ \E e \in o.ends \ thread[t].got :
       /\ inbox[e] # <<>>
       /\ inbox' = [inbox EXCEPT ![e] = Tail(@)]
       /\ IF o.ends = thread[t].got \cup {e} THEN Done(t)
          ELSE thread' = [thread EXCEPT ![t].got = @ \cup {e}]
  /\ UNCHANGED <<bench, node, peers, called, failed, status>>

\* the call that sets the pointer which an operation goes through
NeedsCall == [enter |-> "dissem_barrier", start |-> "smlt_init"]

\* how often node n has called barrier b
Called(b, n) == IF <<b, n>> \in DOMAIN called THEN called[<<b, n>>] ELSE 0

Enter(t, o) ==
  /\ o.op = "enter"
  /\ "dissem_barrier" \notin failed
  /\ called' = (<<o.bar, t[1]>> :> Called(o.bar, t[1]) + 1) @@ called
  /\ Done(t)
  /\ UNCHANGED <<bench, node, peers, inbox, failed, status>>

Leave(t, o) ==
  /\ o.op = "leave"
  /\ \A n \in o.nodes : Called(o.bar, n) >= Called(o.bar, t[1])
  /\ Done(t)
  /\ UNCHANGED <<bench, node, peers, inbox, called, failed, status>>

-----------------------------------------------------------------------------
(* Nodes.                                                                  *)

\* the bounds: a failure of the call that nobody notices is followed
Followed(what, missing) ==
  Cardinality(failed) < MaxFailures /\ MayFail(bench.name, what, missing)


\* the program looks at the result
GiveUp(o) == o.onError = EXIT

\* the thread that node->handle names; no thread has number 0
Handle(n) == IF n \in DOMAIN node THEN <<n, node[n].handle>> ELSE <<n, 0>>

\* smlt_node_start: the function and its argument go into the node, and a
\* thread that calls what it finds there
StartStep(t, o) ==
  /\ o.op = "start"
  /\ "smlt_init" \notin failed
  /\ LET n == o.node
         k == Handle(n)[2] + 1 IN
     /\ node' = (n :> [fn |-> thread[t].pc, handle |-> k]) @@ node
     /\ thread' = (<<n, k>> :> Begin(0, 0)) @@ After(t)
  /\ UNCHANGED <<bench, peers, inbox, called, failed, status>>

\* pthread_create fails, which aborts the program or is printed: the function is
\* in the node then, and the handle is what it was
StartFails(t, o) ==
  /\ o.op = "start"
  /\ "smlt_init" \notin failed
  /\ IF GiveUp(o) THEN Dies("exit")
     ELSE /\ Followed("start", {})
          /\ LET n == o.node IN
             node' = (n :> [fn |-> thread[t].pc, handle |-> Handle(n)[2]]) @@ node
          /\ failed' = failed \cup {"start"}
          /\ Done(t)
          /\ UNCHANGED <<bench, peers, inbox, called, status>>

\* the new thread calls node->fn
RunStep(t) ==
  /\ status = "running"
  /\ thread[t].pc = 0
  /\ thread' = [thread EXCEPT ![t] = Begin(node[t[1]].fn, 1)]
  /\ UNCHANGED <<bench, node, peers, inbox, called, failed, status>>

\* the function of thread t has returned
Ended(t) == thread[t].pc # 0 /\ NextOp(t) = {}

\* mutant: a join does not wait
JoinStep_NoWait(t, o) ==
  /\ o.op = "join"
  /\ Handle(o.node) \in DOMAIN thread
  /\ Done(t)
  /\ UNCHANGED <<bench, node, peers, inbox, called, failed, status>>

\* smlt_node_join of a thread that exists, which is gone then
JoinStep(t, o) ==
  /\ o.op = "join"
  /\ LET u == Handle(o.node) IN
     /\ u \in DOMAIN thread
     /\ Ended(u)
     /\ thread' = [v \in DOMAIN thread \ {u} |-> After(t)[v]]
  /\ UNCHANGED <<bench, node, peers, inbox, called, failed, status>>

\* smlt_node_join of a node that has no thread: pthread_join is undefined.  For a
\* thread that has been joined it may also return an error, which nobody reads.
JoinUndefined(t, o) ==
  /\ o.op = "join"
  /\ Handle(o.node) \notin DOMAIN thread
  /\ \/ Dies("undefined")
     \/ /\ Handle(o.node)[2] # 0
        /\ Done(t)
        /\ UNCHANGED <<bench, node, peers, inbox, called, failed, status>>

-----------------------------------------------------------------------------
(* Set-up.                                                                 *)

\* the links L come into being, with nothing in them
Connect(L) ==
  LET new == UNION {{l[1]} \cup l[2] : l \in L} IN
  /\ peers' = [x \in new |->
                 IF \E l \in L : l[1] = x THEN (CHOOSE l \in L : l[1] = x)[2]
                 ELSE {(CHOOSE l \in L : x \in l[2])[1]}] @@ peers
  /\ inbox' = [x \in new |-> <<>>] @@ inbox

CreateStep(t, o) ==
  /\ o.op = "create"
  /\ Connect(o.links)
  /\ Done(t)
  /\ UNCHANGED <<bench, node, called, failed, status>>

\* A call fails and the program leaves main, or the call writes through NULL,
\* or the program goes on and one of the links is missing.
CreateFails(t, o) ==
  /\ o.op = "create"
  /\ IF GiveUp(o) THEN Dies("exit")
     ELSE IF o.onError = CRASH THEN Dies("null")
     ELSE /\ \E missing \in IF o.links = {} THEN {{}} ELSE {{l} : l \in o.links} :
               Followed(o.what, missing) /\ Connect(o.links \ missing)
          /\ failed' = failed \cup {o.what}
          /\ Done(t)
          /\ UNCHANGED <<bench, node, called, status>>

\* operations that go through a pointer that is NULL
IsNull(t, o) ==
  \/ o.op = "send" /\ o.end \notin DOMAIN peers
  \/ o.op = "recv" /\ o.end \notin DOMAIN inbox
  \/ o.op = "recvall" /\ ~(o.ends \subseteq DOMAIN inbox)
  \/ o.op \in DOMAIN NeedsCall /\ NeedsCall[o.op] \in failed
  \/ o.op = "deref" /\ o.null

NullStep(t, o) == IsNull(t, o) /\ Dies("null")

\* a pointer that is not NULL, an assertion that holds, and a read of what
\* nobody has written that does no harm
Pass(t, o) ==
  /\ \/ o.op = "deref" /\ ~o.null
     \/ o.op = "assert" /\ o.holds
     \/ o.op = "overread"
  /\ Done(t)
  /\ UNCHANGED <<bench, node, peers, inbox, called, failed, status>>

AssertFails(t, o) == o.op = "assert" /\ ~o.holds /\ Dies("assert")

OverreadStep(t, o) == o.op = "overread" /\ Dies("undefined")

\* an operation of the program other than the generation of a model
Step(t, o) ==
  \/ SendStep(t, o) \/ RecvStep(t, o) \/ RecvAllStep(t, o) \/ Enter(t, o) \/ Leave(t, o)
  \/ StartStep(t, o) \/ StartFails(t, o) \/ JoinStep(t, o) \/ JoinUndefined(t, o)
  \/ CreateStep(t, o) \/ CreateFails(t, o)
  \/ NullStep(t, o) \/ Pass(t, o) \/ AssertFails(t, o) \/ OverreadStep(t, o)

=============================================================================
