----------------------------- MODULE Placement ------------------------------
(***************************************************************************)
(* How the benchmarks choose the cores that they run on, from the cores of *)
(* the NUMA nodes.  The loops run over the nodes and, inside, over the     *)
(* cores of the machine in order; each definition says which cores of a    *)
(* node are taken, in one go.                                              *)
(*                                                                         *)
(* A machine m has m.cores cores, 0 .. m.cores - 1, on m.nodes nodes, and  *)
(* core c is on node m.of[c].  libnuma is taken to be available.           *)
(***************************************************************************)
EXTENDS Integers, Sequences, FiniteSets, SequencesExt

CONSTANT UINT8_VALUES  \* bound: the values of a uint8_t, 256

ASSUME PlacementAssumption == UINT8_VALUES \in Nat \ {0}

\* what a placement returns that has not found enough cores
NULL == <<>>

\* an entry of a placement that nobody has written
UNSET == -1

\* numa_node_to_cpus: the cores of node i below limit, in order
CoresOf(m, i, limit) == SelectSeq([p \in 1 .. limit |-> p - 1], LAMBDA c : m.of[c] = i)

AllNodes(m) == [i \in 1 .. m.nodes |-> i - 1]

Least(a, b) == IF a < b THEN a ELSE b

\* the first k of s, or all of them
Upto(s, k) == SubSeq(s, 1, Least(k, Len(s)))

\* numa_num_configured_cpus, or half of it when the other half are hyperthreads
num_cores_for(m, hyper) == IF hyper THEN m.cores \div 2 ELSE m.cores

-----------------------------------------------------------------------------
(* placement of colbench.c.  mpibench/parse_cores.c, placement.h and       *)
(* omp_barrier/parse_cores.c have the same loops, copied.                  *)

\* do_fill: one node after the other
fill(m, n, limit) ==
  LET all == FlattenSeq([i \in 1 .. m.nodes |-> CoresOf(m, i - 1, limit)]) IN
  IF Len(all) < n THEN NULL ELSE Upto(all, n)

\* mutant: the rest is not handed out
TakeShare_NoRest(share, acc, c) == [acc EXCEPT !.result = @ \o Upto(c, share)]

\* what is taken from a node with the cores c: its share, and one more while
\* there is a rest and the node has another core
TakeShare(share, acc, c) ==
  IF acc.rest > 0 /\ Len(c) > share
  THEN [result |-> acc.result \o Upto(c, share + 1), rest |-> acc.rest - 1]
  ELSE [acc EXCEPT !.result = @ \o Upto(c, share)]

\* round robin: n divided by the nodes
rr(m, n, limit) ==
  LET share == n \div m.nodes
      all   == FoldLeft(LAMBDA acc, i : TakeShare(share, acc, CoresOf(m, i, limit)),
                        [result |-> <<>>, rest |-> n - share * m.nodes], AllNodes(m)) IN
  IF Len(all.result) < n THEN NULL ELSE all.result

placement(m, n, do_fill, hyper) ==
  IF do_fill THEN fill(m, n, num_cores_for(m, hyper)) ELSE rr(m, n, num_cores_for(m, hyper))

mpi_placement(m, n, do_fill, hyper) == placement(m, n, do_fill, hyper)
omp_placement(m, n, do_fill)        == placement(m, n, do_fill, FALSE)
omp_parse_placement(m, n, do_fill)  == placement(m, n, do_fill, FALSE)

-----------------------------------------------------------------------------
(* bar-bench.c: the k-th core of node i gets position i + k * nodes.       *)

\* The loop, at core j of node i.  ith_of_node counts the cores taken from the
\* node in a uint8_t, and nothing is taken after the n-th core.
TakeIth(m, n, i, s, j) ==
  LET index == i + s.ith_of_node * m.nodes IN
  IF s.num_taken < n /\ index < n
  THEN [result      |-> [s.result EXCEPT ![index + 1] = j],
        num_taken   |-> s.num_taken + 1,
        ith_of_node |-> (s.ith_of_node + 1) % UINT8_VALUES]
  ELSE s

bar_bench_rr(m, n) ==
  LET visit(s, i) == FoldLeft(LAMBDA a, j : TakeIth(m, n, i, a, j),
                              [s EXCEPT !.ith_of_node = 0], CoresOf(m, i, m.cores))
      all == FoldLeft(visit, [result |-> [p \in 1 .. n |-> UNSET], num_taken |-> 0,
                              ith_of_node |-> 0], AllNodes(m)) IN
  IF all.num_taken < n THEN NULL ELSE all.result

bar_bench_placement(m, n, do_fill) ==
  IF do_fill THEN fill(m, n, m.cores) ELSE bar_bench_rr(m, n)

-----------------------------------------------------------------------------
(* ab-bench-scale.c: round robin in batches of req_step.                   *)

\* the loop of step 1, once
ChooseBatch(m, req_cores, step, s) ==
  LET cores_per_node == m.cores \div m.nodes
      num_choose == Least(Least(step, req_cores - s.selected), cores_per_node - s.choose[s.idx]) IN
  [choose   |-> [s.choose EXCEPT ![s.idx] = @ + num_choose],
   selected |-> s.selected + num_choose,
   idx      |-> (s.idx + 1) % m.nodes]

\* The loop ends after that many turns, or it never does: NULL stands for the
\* endless loop, and for the assertion at the end.
scale_placement(m, req_cores, req_step) ==
  LET step  == IF req_step = 0 THEN 1 ELSE req_step
      steps == FoldLeft(LAMBDA s, turn : ChooseBatch(m, req_cores, step, s),
                        [choose |-> [i \in 0 .. m.nodes - 1 |-> 0], selected |-> 0, idx |-> 0],
                        [turn \in 1 .. m.nodes * req_cores |-> turn])
      cores == FlattenSeq([i \in 1 .. m.nodes |->
                 Upto(CoresOf(m, i - 1, m.cores), steps.choose[i - 1])]) IN
  IF steps.selected < req_cores \/ Len(cores) # req_cores THEN NULL ELSE cores

-----------------------------------------------------------------------------
(* What the placements promise.                                            *)

\* how many of the cores are on node i
OnNode(m, cores, i) == Cardinality({p \in DOMAIN cores : m.of[cores[p]] = i})

\* distinct cores of the machine, n of them
Sound(m, n, cores) ==
  /\ Len(cores) = n
  /\ \A p, q \in DOMAIN cores : cores[p] = cores[q] => p = q
  /\ \A p \in DOMAIN cores : cores[p] \in 0 .. m.cores - 1

\* no node is more than one core ahead of another
Balanced(m, cores) ==
  \A i, j \in 0 .. m.nodes - 1 : OnNode(m, cores, i) <= OnNode(m, cores, j) + 1

\* a node is only used when the nodes before it are full
Dense(m, cores) ==
  \A i, j \in 0 .. m.nodes - 1 :
    i < j /\ OnNode(m, cores, j) > 0 => OnNode(m, cores, i) = Len(CoresOf(m, i, m.cores))

\* bar-bench.c takes as many cores of a node as its counter has values, and the
\* node has another one: it may overwrite the entry of the first
Overflows(m, n) ==
  \E i \in 0 .. m.nodes - 1 :
    i + (UINT8_VALUES - 1) * m.nodes < n /\ Len(CoresOf(m, i, m.cores)) > UINT8_VALUES

\* every node has as many cores as every other one
Uniform(m) ==
  \A i, j \in 0 .. m.nodes - 1 : Len(CoresOf(m, i, m.cores)) = Len(CoresOf(m, j, m.cores))

=============================================================================
