---------------------------- MODULE MCBenchRuns ----------------------------
(* The programs on a machine with four cores on two nodes.                  *)
EXTENDS BenchRuns

MCmachine == [cores |-> 4, nodes |-> 2, of |-> [c \in 0 .. 3 |-> c \div 2]]

\* different cores, a core named twice, more cores than there are, and a core that
\* there is not
MClists == {<<<<1>>, <<2>>>>, <<<<1, 1>>, <<>>>>, <<<<1, 2, 3>>, <<1, 2>>>>, <<<<1>>, <<4>>>>}

\* all machines with up to five cores on up to three nodes
MCnuma == UNION {[cores : {c}, nodes : {n}, of : [0 .. c - 1 -> 0 .. n - 1]] : c \in 2 .. 5, n \in 1 .. 3}

MCcluster == <<0, 1, 2>>

MCopt == {gottardo3, gruyere, appenzeller, appenzeller2}

\* on the eight cores of ab-bench-opt.c, only one of the channels of smlt_init
MCMayFail(name, what, missing) ==
  name = "ab_bench_opt" =>
    LET leaf == gruyere.leafs[1]
        root == gruyere.root IN
    what = "mesh" /\ missing = {<<MeshEnd(leaf, root), {MeshEnd(root, leaf)}>>}

=============================================================================
