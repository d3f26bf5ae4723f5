-------------------------- MODULE CollectiveBenches --------------------------
(***************************************************************************)
(* The benchmarks of the collective operations, as programs made of        *)
(* Operations: ab-bench.c and its variants, colbench.c, bar-bench.c,       *)
(* barrier-throughput.c and shm-mp-bench.c.  The clock, the measurements   *)
(* and the output are left out.  A collective operation is the sends and   *)
(* receives that a node makes along the tree of its context (Collectives   *)
(* has their detail), a dissemination or pthread barrier is one barrier    *)
(* (DissemBarrier).                                                        *)
(***************************************************************************)
EXTENDS Operations, Placement, BenchTrees

CONSTANTS NUM_RUNS,   \* bound: turns of a measured loop
          OPT_RUNS,   \* the same in ab-bench-opt.c
          machine     \* the machine, as Placement describes it

ASSUME CollectiveBenchesAssumption ==
  /\ {NUM_RUNS, OPT_RUNS} \subseteq Nat \ {0}
  /\ machine.cores \in Nat \ {0, 1} /\ machine.nodes \in Nat \ {0}
  /\ machine.of \in [0 .. machine.cores - 1 -> 0 .. machine.nodes - 1]

all_cores == [i \in 1 .. machine.cores |-> i - 1]

-----------------------------------------------------------------------------
(* Trees and contexts.                                                     *)

\* The tree that the generator, an external service, answers with for the
\* cores: with two children per node, or (shape 1) a chain from the last core
\* to the first.
Generated(shape, cores) ==
  LET at(c)    == CHOOSE i \in DOMAIN cores : cores[i] = c
      up(i)    == IF shape = 1 THEN i + 1 ELSE i \div 2
      below(i) == SelectSeq([k \in 1 .. Len(cores) |-> k], LAMBDA k : up(k) = i)
      Nodes    == {cores[i] : i \in DOMAIN cores} IN
  [parent   |-> [n \in Nodes |-> IF up(at(n)) \in DOMAIN cores THEN cores[up(at(n))] ELSE NoNode],
   children |-> [n \in Nodes |-> [k \in DOMAIN below(at(n)) |-> cores[below(at(n))[k]]]]]

is_root(t, n) == t.parent[n] = NoNode

\* the end, at n, of the channel between the neighbours n and c in context k
TreeEnd(k, n, c) == <<100 + k, n, c>>

\* smlt_context_create: the errors of smlt_channel_create are dropped
smlt_context_create(k, t, nodes) ==
  <<Try("context", EXIT)>>
  \o FlattenSeq([i \in DOMAIN nodes |->
       [j \in DOMAIN t.children[nodes[i]] |->
          LET n == nodes[i]
              c == t.children[n][j] IN
          Pair(TreeEnd(k, n, c), TreeEnd(k, c, n), IGNORE)]])

\* a model is generated and made a topology and a context, number k
smlt_setup(k, t, nodes) == <<Model, Try("topology", CRASH)>> \o smlt_context_create(k, t, nodes)

Broadcast(k, t, n, m) ==
  (IF is_root(t, n) THEN <<>> ELSE <<Recv(TreeEnd(k, n, t.parent[n]), m)>>)
  \o [j \in DOMAIN t.children[n] |-> Send(TreeEnd(k, n, t.children[n][j]), m)]

Reduce(k, t, n, m) ==
  (IF t.children[n] = <<>> THEN <<>>
   ELSE <<RecvAll({TreeEnd(k, n, t.children[n][j]) : j \in DOMAIN t.children[n]}, m)>>)
  \o (IF is_root(t, n) THEN <<>> ELSE <<Send(TreeEnd(k, n, t.parent[n]), m)>>)

BarrierWait(k, t, n, m) == Reduce(k, t, n, m) \o Broadcast(k, t, n, m)

\* both barriers in front of a measured operation
Synchronise(b, N) == Barrier(b, N) \o Barrier(b, N)

-----------------------------------------------------------------------------
(* What the atomic broadcast benchmarks share.  chan[i][j] has the owner i *)
(* and every other node uses its second end.                               *)

ChanEnd(i, j, n) == IF n = i THEN <<i, j, 0>> ELSE <<i, j, 1>>

\* for all pairs of nodes, also i = j
chan(N, onError) ==
  Loop(Len(N), LAMBDA i : [j \in 1 .. Len(N) |->
    Pair(<<N[i], N[j], 0>>, <<N[i], N[j], 1>>, onError)])

\* the nodes without children, in the order of their numbers
get_leafs(t) ==
  SelectSeq(all_cores, LAMBDA n : n \in DOMAIN t.children /\ t.children[n] = <<>>)

\* is_leaf of the topology, from the leafs of the model: not set for node 0
get_model_leafs(t) == SelectSeq(get_leafs(t), LAMBDA n : n # 0)

\* Body(last_node, m) for every leaf, runs times; m counts the turns
ForLeafs(runs, leafs, Body(_, _)) ==
  Loop(Len(leafs), LAMBDA i : Loop(runs, LAMBDA j : Body(leafs[i], (i - 1) * runs + j)))

\* the last node tells the root, over chan[last_node][dst]
Trigger(t, n, last_node, dst, m) ==
  (IF n = last_node THEN <<Send(ChanEnd(last_node, dst, n), m)>> ELSE <<>>)
  \o (IF is_root(t, n) THEN <<Recv(ChanEnd(last_node, dst, n), m)>> ELSE <<>>)

ab(k, t, leafs, n) ==
  ForLeafs(NUM_RUNS, leafs, LAMBDA last, m : Trigger(t, n, last, 0, m) \o Broadcast(k, t, n, m))

reduction(k, t, leafs, n) ==
  ForLeafs(NUM_RUNS, leafs, LAMBDA last, m :
    Reduce(k, t, n, m)
    \o (IF is_root(t, n) THEN <<Send(ChanEnd(last, 0, n), m)>>
        ELSE IF n = last THEN <<Recv(ChanEnd(last, 0, n), m)>> ELSE <<>>))

\* mutant: the root does not wait for the others to agree
agreement_NoReduce(k, t, leafs, N, n) ==
  LET root == CHOOSE r \in DOMAIN t.parent : is_root(t, r) IN
  Barrier(k, N)
  \o ForLeafs(NUM_RUNS, leafs, LAMBDA last, m :
       Trigger(t, n, last, root, m) \o Broadcast(k, t, n, 2 * m - 1)
       \o (IF is_root(t, n) THEN <<>> ELSE Reduce(k, t, n, m))
       \o Broadcast(k, t, n, 2 * m))

agreement(k, t, leafs, N, n) ==
  LET root == CHOOSE r \in DOMAIN t.parent : is_root(t, r) IN
  Barrier(k, N)
  \o ForLeafs(NUM_RUNS, leafs, LAMBDA last, m :
       Trigger(t, n, last, root, m) \o Broadcast(k, t, n, 2 * m - 1)
       \o Reduce(k, t, n, m)
       \o Broadcast(k, t, n, 2 * m))

\* pthread_barrier_wait, and the barriers that are measured
barrier(k, t, N, n) == Barrier(k, N) \o Loop(NUM_RUNS, LAMBDA m : BarrierWait(k, t, n, m))

-----------------------------------------------------------------------------
(* ab-bench.c, for the topology named on the command line.                 *)

pingpong_ends(n) ==
  LET last == machine.cores - 1
      e    == ChanEnd(0, last, n) IN
  IF n = last THEN Loop(NUM_RUNS, LAMBDA i : <<Send(e, i), Recv(e, i)>>)
  ELSE IF n = 0 THEN Loop(NUM_RUNS, LAMBDA i : <<Recv(e, i), Send(e, i)>>)
  ELSE <<>>

ab_bench(shape) ==
  LET t == Generated(shape, all_cores)
      N == 0 .. machine.cores - 1
      L == get_leafs(t) IN
  <<smlt_init>> \o chan(all_cores, EXIT) \o smlt_setup(1, t, all_cores)
  \o Run(all_cores, LAMBDA n : pingpong_ends(n))
  \o Run(all_cores, LAMBDA n : ab(1, t, L, n))
  \o Run(all_cores, LAMBDA n : reduction(1, t, L, n))
  \o Run(all_cores, LAMBDA n : agreement(1, t, L, N, n))
  \o Run(all_cores, LAMBDA n : barrier(1, t, N, n))

(* ab-bench-rdtsc.c: only the first leaf.                                  *)

rdtsc_ab(k, t, n) == ab(k, t, <<get_leafs(t)[1]>>, n)

ab_bench_rdtsc(shape) ==
  LET t == Generated(shape, all_cores) IN
  <<smlt_init>> \o chan(all_cores, EXIT) \o smlt_setup(1, t, all_cores)
  \o Run(all_cores, LAMBDA n : rdtsc_ab(1, t, n))

(* ab-bench-scale.c: 2, 4, .. threads, placed in batches of 0, 2, .. cores. *)

INC_CORES == 2
INC_STEPS == 2

\* the workers are those of ab-bench.c, copied
scale_ab(k, t, leafs, n)           == ab(k, t, leafs, n)
scale_reduction(k, t, leafs, n)    == reduction(k, t, leafs, n)
scale_agreement(k, t, leafs, N, n) == agreement(k, t, leafs, N, n)
scale_barrier(k, t, N, n)          == barrier(k, t, N, n)

\* one number of threads and one step; NULL if the placement does not return
scale_experiment(shape, num_threads, step) ==
  LET cores == scale_placement(machine, num_threads, step)
      k == 10 * num_threads + step
      t == Generated(shape, cores)
      N == {cores[i] : i \in DOMAIN cores}
      L == get_model_leafs(t) IN
  IF cores = NULL THEN <<Deref(TRUE)>>
  ELSE smlt_setup(k, t, cores)
       \o Run(cores, LAMBDA n : scale_ab(k, t, L, n))
       \o Run(cores, LAMBDA n : scale_reduction(k, t, L, n))
       \o Run(cores, LAMBDA n : scale_agreement(k, t, L, N, n))
       \o Run(cores, LAMBDA n : scale_barrier(k, t, N, n))

ab_bench_scale(shape) ==
  LET cores_per_node == machine.cores \div machine.nodes IN
  <<smlt_init>> \o chan(all_cores, EXIT)
  \o For(1, machine.cores \div INC_CORES, LAMBDA i :
       For(0, cores_per_node \div INC_STEPS, LAMBDA s :
         scale_experiment(shape, INC_CORES * i, INC_STEPS * s)))

-----------------------------------------------------------------------------
(* ab-bench-opt.c, on machine b of BenchTrees: the optimal tree and a      *)
(* generated one.                                                          *)

\* the channel of smlt_init between the nodes n and d, at n
MeshEnd(n, d) == <<99, n, d>>

\* The channels between all nodes, whose errors are dropped.  The links are
\* those that the program uses: from the leafs to the roots.
mesh(P) == Links("mesh", {<<MeshEnd(p[1], p[2]), {MeshEnd(p[2], p[1])}>> : p \in P}, IGNORE)

opt_ab(k, t, root, leafs, n) ==
  ForLeafs(OPT_RUNS, leafs, LAMBDA last, m :
    (IF n = last THEN <<Send(MeshEnd(n, root), m)>> ELSE <<>>)
    \o (IF is_root(t, n) THEN <<Recv(MeshEnd(n, last), m)>> ELSE <<>>)
    \o Broadcast(k, t, n, m))

\* two dissemination barriers and a broadcast
ab_sync(k, t, N, n) ==
  Loop(OPT_RUNS, LAMBDA m : Synchronise(k, N) \o Broadcast(k, t, n, m))

opt_topology(k, t, root, leafs, cores) ==
  LET N == {cores[i] : i \in DOMAIN cores} IN
  <<Try("topology", CRASH)>> \o smlt_context_create(k, t, cores)
  \o <<Try("dissem_barrier", IGNORE)>>
  \o Run(cores, LAMBDA n : opt_ab(k, t, root, leafs, n))
  \o Run(cores, LAMBDA n : ab_sync(k, t, N, n))

\* model->num_leafs of the optimal tree is not set, and the end of the leafs
\* of the generated one is looked for behind the array
ab_bench_opt(shape, b) ==
  LET t     == Tree(b)
      leafs == SubSeq(b.leafs, 1, b.num_leafs)
      gen   == Generated(shape, b.cores)
      root  == CHOOSE n \in DOMAIN gen.parent : is_root(gen, n)
      gen_leafs == SelectSeq(b.cores, LAMBDA n : gen.children[n] = <<>>)
      used  == {<<leafs[i], b.root>> : i \in DOMAIN leafs}
               \cup {<<gen_leafs[i], root>> : i \in DOMAIN gen_leafs} IN
  <<smlt_init, mesh(used), Try("channel", EXIT), Overread, Require(Built(b))>>
  \o (IF ~Built(b) THEN <<>>
      ELSE opt_topology(1, t, b.root, leafs, b.cores)
           \o <<Model, Overread>>
           \o opt_topology(2, gen, root, gen_leafs, b.cores))

-----------------------------------------------------------------------------
(* colbench.c: with half of the cores if hyper, without and with the two   *)
(* dissemination barriers in front of every operation.                     *)

\* a worker: what is measured, NUM_RUNS times
Measured(use_bar, k, N, Body(_)) ==
  Loop(NUM_RUNS, LAMBDA m : (IF use_bar THEN Synchronise(k, N) ELSE <<>>) \o Body(m))

col_broadcast(use_bar, t, N, n) == Measured(use_bar, 1, N, LAMBDA m : Broadcast(1, t, n, m))
col_reduction(use_bar, t, N, n) == Measured(use_bar, 1, N, LAMBDA m : Reduce(1, t, n, m))
col_barrier(use_bar, t, N, n)   == Measured(use_bar, 1, N, LAMBDA m : BarrierWait(1, t, n, m))

colbench(shape, hyper) ==
  LET num_threads == num_cores_for(machine, hyper)
      cores == placement(machine, num_threads, TRUE, hyper)
      t == Generated(shape, cores)
      N == {cores[i] : i \in DOMAIN cores}
      experiments(use_bar) ==
        Run(cores, LAMBDA n : col_broadcast(use_bar, t, N, n))
        \o Run(cores, LAMBDA n : col_reduction(use_bar, t, N, n))
        \o Run(cores, LAMBDA n : col_barrier(use_bar, t, N, n)) IN
  <<smlt_init, Deref(cores = NULL), Try("dissem_barrier", EXIT)>>
  \o smlt_setup(1, t, cores) \o experiments(FALSE) \o experiments(TRUE)

-----------------------------------------------------------------------------
(* bar-bench.c: 4, 5, .. threads, placed round robin and then filling.     *)

bar_bench_barrier(k, t, N, n) == barrier(k, t, N, n)

bar_bench_round(shape, do_fill, i) ==
  LET cores == bar_bench_placement(machine, i, do_fill)
      k == IF do_fill THEN 20 + i ELSE 10 + i
      t == Generated(shape, cores) IN
  <<Deref(cores = NULL)>>
  \o (IF cores = NULL THEN <<>>
      ELSE smlt_setup(k, t, cores)
           \o Run(cores, LAMBDA n : bar_bench_barrier(k, t, {cores[j] : j \in 1 .. i}, n)))

bar_bench(shape) ==
  <<smlt_init>>
  \o For(4, machine.cores, LAMBDA i : bar_bench_round(shape, FALSE, i))
  \o For(4, machine.cores, LAMBDA i : bar_bench_round(shape, TRUE, i))

-----------------------------------------------------------------------------
(* barrier-throughput.c: the barrier of a context, and the mcs barrier,    *)
(* whose detail is in DissBar.                                             *)

\* NUM_RUNS stands for NUM_RESULTS times NUM_RUNS turns
throughput_barrier(t, n) == Loop(NUM_RUNS, LAMBDA m : BarrierWait(1, t, n, m))
throughput_mcs(N) == Loop(NUM_RUNS, LAMBDA m : Barrier(1, N))

barrier_throughput(shape) ==
  LET t == Generated(shape, all_cores)
      N == 0 .. machine.cores - 1 IN
  <<smlt_init>> \o smlt_setup(1, t, all_cores)
  \o Run(all_cores, LAMBDA n : throughput_barrier(t, n))
  \o Run(all_cores, LAMBDA n : throughput_mcs(N))

-----------------------------------------------------------------------------
(* shm-mp-bench.c, with the first i of the cores of cluster 0.             *)

\* the queue with several readers, and mp[j] at its owner (0) and elsewhere (1)
ShmEnd(i, id)     == <<90, i, id>>
MpEnd(i, j, side) == <<91, i, j, side>>

shm_func(i, N, id) ==
  Loop(NUM_RUNS, LAMBDA m : Synchronise(i, N) \o
    (IF id = 0 THEN <<Send(ShmEnd(i, 0), m)>> ELSE <<Recv(ShmEnd(i, id), m)>>))

\* the writer uses mp[0] .. mp[num_threads - 2], the reader mp[id - 1]
mp_func(i, N, id) ==
  Loop(NUM_RUNS, LAMBDA m : Synchronise(10 + i, N) \o
    (IF id = 0 THEN [j \in 1 .. i - 1 |-> Send(MpEnd(i, j - 1, 0), m)]
     ELSE <<Recv(MpEnd(i, id - 1, 1), m)>>))

tree_func(i, t, N, n) ==
  Loop(NUM_RUNS, LAMBDA m : Synchronise(20 + i, N) \o Broadcast(20 + i, t, n, m))

\* run(use_mp, use_tree) for one number of threads
shm_mp_run(use, shape, cluster, i) ==
  LET cores == SubSeq(cluster, 1, i)
      N  == {cores[j] : j \in 1 .. i}
      t  == Generated(shape, cores)
      id(n) == (CHOOSE j \in 1 .. i : cores[j] = n) - 1 IN
  <<Try("dissem_barrier", EXIT)>>
  \o (CASE use = "mp" ->
             [j \in 1 .. i |-> Pair(MpEnd(i, j - 1, 0), MpEnd(i, j - 1, 1), IGNORE)]
             \o Run(cores, LAMBDA n : mp_func(i, N, id(n)))
        [] use = "tree" ->
             smlt_setup(20 + i, t, cores) \o Run(cores, LAMBDA n : tree_func(i, t, N, n))
        [] OTHER ->
             <<Links("channel", {<<ShmEnd(i, 0), {ShmEnd(i, j) : j \in 1 .. i - 1}>>}, IGNORE)>>
             \o Run(cores, LAMBDA n : shm_func(i, N, id(n))))

\* the result of smlt_init is only printed
shm_mp_bench(shape, cluster) ==
  <<Try("smlt_init", IGNORE)>>
  \o For(2, Len(cluster), LAMBDA i : shm_mp_run("shm", shape, cluster, i))
  \o For(2, Len(cluster), LAMBDA i : shm_mp_run("mp", shape, cluster, i))
  \o For(2, Len(cluster), LAMBDA i : shm_mp_run("tree", shape, cluster, i))

=============================================================================
