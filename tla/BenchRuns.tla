------------------------------ MODULE BenchRuns ------------------------------
(***************************************************************************)
(* Runs of the benchmark programs on Smelt: any of them is started, and    *)
(* set-up calls, the start of threads and the generator may fail.          *)
(***************************************************************************)
EXTENDS Generator, Benchmarks

ASSUME BenchRunsAssumption == Rows = machine.cores

allvars == <<vars, gvars>>

Init == Boot /\ GenInit

Next ==
  \E t \in DOMAIN thread :
    \/ RunStep(t) /\ UNCHANGED gvars
    \/ \E o \in NextOp(t) : (Step(t, o) /\ UNCHANGED gvars) \/ GenStep(t, o)

Spec == Init /\ [][Next]_allvars

\* Every thread runs on, and the host answers or shuts down or the receive
\* times out.
FairSpec == Spec /\ WF_allvars(Next)

-----------------------------------------------------------------------------
\* main has returned
Finished == status = "running" /\ Ended(MAIN)

\* The type invariant.  No queue ever holds more than it has room for.
TypeOK ==
  /\ MAIN \in DOMAIN thread
  /\ \A t \in DOMAIN thread \ {MAIN} : t[1] \in DOMAIN node /\ t[2] <= node[t[1]].handle
  /\ DOMAIN inbox = DOMAIN peers
  /\ \A x \in DOMAIN inbox : Len(inbox[x]) <= Capacity
  /\ status \in {"running", "exit", "null", "assert", "panic", "undefined"}
  /\ reply.pieces \in 0 .. Pieces /\ tries \in 0 .. MaxTries

\* the ends that an operation of thread t still sends to or receives from
Ends(t, o) ==
  CASE o.op \in {"send", "recv"} -> {o.end}
    [] o.op = "recvall" -> o.ends \ thread[t].got
    [] OTHER -> {}

\* Every receive gets the message that its sender has sent in the same turn of
\* the same measurement, through restarts of nodes and reuse of queues: no
\* benchmark measures a leftover of an earlier turn, unless a thread could not
\* be started and nobody noticed.
Matched ==
  "start" \notin failed =>
    \A t \in DOMAIN thread : \A o \in NextOp(t) :
      o.op \in {"recv", "recvall"} =>
        \A e \in Ends(t, o) \cap DOMAIN inbox : inbox[e] # <<>> => Head(inbox[e]) = o.msg

\* The queues have one sender and one receiver: no two threads are ever about
\* to use the same end, although nodes share the second end of chan[i][j].
OneUser ==
  \A t \in DOMAIN thread : \A o \in NextOp(t) : \A e \in Ends(t, o) :
    \A u \in DOMAIN thread \ {t} : \A p \in NextOp(u) : e \notin Ends(u, p)

\* A program that comes to its end has received every message that it has
\* sent, and has joined every thread that it has started, unless it has not
\* noticed that a thread could not be started.
Drained ==
  Finished /\ "start" \notin failed => thread = (MAIN :> thread[MAIN]) /\ \A x \in DOMAIN inbox : inbox[x] = <<>>

\* the programs that look at the result of every set-up call
QueueBenchNames == {"pingpong", "pairwise", "polloverhead", "writeoverhead", "multimessage"}

\* multimessage is asked to send to a core twice, to too many, or to one that is
\* not there
CoresNamed == bench.arg[1] \o bench.arg[2]
NamedTwice == \E i, j \in DOMAIN CoresNamed : i # j /\ CoresNamed[i] = CoresNamed[j]
BadCores   == Len(CoresNamed) > num_cores \/ \E i \in DOMAIN CoresNamed : CoresNamed[i] >= num_cores

\* what main was about to do when the program died
LastOfMain == bench.main[thread[MAIN].pc]

\* The calls that set the pointers which an operation goes through: a queue pair
\* or a channel of a context, the 1:n channel of shm-mp-bench.c, or a channel of
\* smlt_init; the barrier; the nodes.
SetBy(o) ==
  CASE o.op \in {"send", "recv", "recvall"} -> {"queuepair", "channel", "mesh"}
    [] o.op = "enter" -> {"dissem_barrier"}
    [] o.op = "start" -> {"smlt_init"}
    [] OTHER -> {}

\* A thread was about to go through a pointer that a set-up call has left NULL.
DroppedFailure ==
  \E t \in DOMAIN thread : \E pc \in {thread[t].pc} \cap DOMAIN Code(thread[t].fn) :
    LET o == Code(thread[t].fn)[pc] IN IsNull(t, o) /\ SetBy(o) \cap failed # {}


\* A placement has the cores it is asked for, all different.  On a machine with
\* equal nodes there always is one; round robin gives no node two cores more than
\* another, and filling leaves no node before the last one with a free core.
\* Elsewhere round robin may find too few, and batches too, where
\* ab-bench-scale.c fails an assertion or never returns.  Round robin of
\* bar-bench.c may also return a placement in which cores have been overwritten
\* and entries never written, on a machine with more than 256 cores on a node
\* (UINT8_VALUES) from which it is asked to take that many, and on no other.
PlacementsSound ==
  bench.name = "mpi_parse_cores" /\ thread[MAIN].pc = 1 =>
    \A m \in {bench.arg} : \A n \in 2 .. m.cores :
      /\ \A cores \in {mpi_placement(m, n, TRUE, FALSE), bar_bench_placement(m, n, TRUE)} :
           Sound(m, n, cores) /\ Dense(m, cores)
      /\ \A cores \in {mpi_placement(m, n, FALSE, FALSE)} :
           IF cores = NULL THEN ~Uniform(m)
           ELSE Sound(m, n, cores) /\ (Uniform(m) => Balanced(m, cores))
      /\ \A cores \in {bar_bench_placement(m, n, FALSE)} :
           IF cores = NULL THEN ~Uniform(m)
           ELSE \/ Sound(m, n, cores) /\ (Uniform(m) => Balanced(m, cores))
                \/ Overflows(m, n)
      /\ \A step \in 0 .. m.cores \div m.nodes : \A cores \in {scale_placement(m, n, step)} :
           IF cores = NULL THEN ~Uniform(m) ELSE Sound(m, n, cores)

\* Every program comes to an end or gives up, unless a failure was dropped: no
\* two threads of a program wait for each other, whatever the order in which
\* they run.  The exception is a file that cannot be parsed: smlt_tree_parse
\* reads it for ever.
Termination ==
  <>[](Finished \/ status # "running" \/ failed # {} \/ tries = MaxTries)

=============================================================================
