----------------------------- MODULE Benchmarks -----------------------------
(***************************************************************************)
(* The programs of bench/, by name, with their arguments: the shape of the *)
(* generated tree, the machine, or what the command line says.             *)
(***************************************************************************)
EXTENDS QueueBenches, ExternalBenches

CONSTANTS core_lists,     \* arguments of multimessage: local and remote cores
          numa_machines,  \* machines for the programs that print placements
          cluster,        \* cores of cluster 0, for shm-mp-bench
          opt_machines    \* the machines of BenchTrees for ab-bench-opt

ASSUME BenchmarksAssumption == num_cores = machine.cores

Shapes == {0, 1}

\* a program that reads a model from a file; there is none in the repository
from_file == <<ModelFile>>

BenchPrograms == [
  pingpong      |-> <<pingpong>>,
  pairwise      |-> <<pairwise>>,
  polloverhead  |-> <<polloverhead>>,
  writeoverhead |-> <<writeoverhead>>,
  multimessage  |-> [l \in core_lists |-> multimessage(l[1], l[2])],
  ab_bench       |-> [i \in Shapes |-> ab_bench(i)],
  ab_bench_rdtsc |-> [i \in Shapes |-> ab_bench_rdtsc(i)],
  ab_bench_scale |-> [i \in Shapes |-> ab_bench_scale(i)],
  ab_bench_opt   |-> [b \in opt_machines |-> ab_bench_opt(1, b)],
  colbench       |-> [i \in Shapes |-> colbench(i, FALSE)],
  colbench_hyper |-> [i \in Shapes |-> colbench(i, TRUE)],
  bar_bench      |-> [i \in Shapes |-> bar_bench(i)],
  barrier_throughput |-> [i \in Shapes |-> barrier_throughput(i)],
  shm_mp_bench   |-> [i \in Shapes |-> shm_mp_bench(i, cluster)],
  mpi_barrier    |-> [i \in {2, 3} |-> mpi_barrier(i, TRUE)],
  mpi_broadcast  |-> [i \in {2, 3} |-> mpi_broadcast(i, TRUE)],
  mpi_reduction  |-> [i \in {2, 3} |-> mpi_reduction(i, FALSE)],
  omp_bar_bench  |-> <<omp_bar_bench(TRUE), omp_bar_bench(FALSE)>>,
  omp_red_bench  |-> <<omp_red_bench>>,
  mpi_parse_cores |-> [m \in numa_machines |-> mpi_parse_cores(m, FALSE)],
  omp_parse_cores |-> [m \in numa_machines |-> omp_parse_cores(m, FALSE)],
  from_file       |-> <<from_file>>]

=============================================================================
