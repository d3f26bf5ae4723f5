--------------------------- MODULE ExternalBenches ---------------------------
(***************************************************************************)
(* The benchmarks that measure MPI and OpenMP for comparison, as programs  *)
(* made of Operations, and the programs that print placements.  A rank of  *)
(* MPI or a thread of an OpenMP region is a node; the main program starts  *)
(* them (mpirun, the entry of a parallel region) and waits for them.  The  *)
(* collective operations of the two libraries are external: a barrier, a   *)
(* message from the root to everybody, a message from everybody to the     *)
(* root.                                                                   *)
(***************************************************************************)
EXTENDS CollectiveBenches

-----------------------------------------------------------------------------
(* mpibench: the point to point messages between a and b, at a, and the    *)
(* messages of MPI_Bcast and MPI_Reduce.  An MPI_Isend that finds its      *)
(* queue full would be waited for here already, and not in MPI_Wait; with  *)
(* two messages of room none does.                                         *)

MpiEnd(a, b)  == <<95, a, b>>
CollEnd(a, b) == <<96, a, b>>

MPI_Init(nprocs) ==
  LET P == {p \in (0 .. nprocs - 1) \X (0 .. nprocs - 1) : p[1] < p[2]} IN
  Links("MPI", {<<MpiEnd(p[1], p[2]), {MpiEnd(p[2], p[1])}>> : p \in P}
               \cup {<<CollEnd(p[1], p[2]), {CollEnd(p[2], p[1])}>> : p \in P}, EXIT)

\* ceil(log2(nprocs))
mpi_rounds(nprocs) == CHOOSE r \in 0 .. nprocs : 2^r >= nprocs /\ (r = 0 \/ 2^(r - 1) < nprocs)

\* call number call, with m = 1
dissem_bar(nprocs, rank, call) ==
  LET rounds == mpi_rounds(nprocs) IN
  For(0, rounds - 1, LAMBDA r :
    <<Send(MpiEnd(rank, (rank + 2^r) % nprocs), call * rounds + r),
      Recv(MpiEnd(rank, (rank + nprocs - 2^r) % nprocs), call * rounds + r)>>)

\* main of a rank: the operation of every turn, after two barriers if sync, and
\* the results, with the tag of the barriers' messages
mpi_main(nprocs, sync, rank, measured) ==
  Loop(NUM_RUNS, LAMBDA n :
    (IF sync THEN dissem_bar(nprocs, rank, 2 * n) \o dissem_bar(nprocs, rank, 2 * n + 1) ELSE <<>>)
    \o measured[n])
  \o (IF rank = 0 THEN [i \in 1 .. nprocs - 1 |-> Recv(MpiEnd(0, i), -1)]
      ELSE <<Send(MpiEnd(rank, 0), -1)>>)
  \o Barrier(0, 0 .. nprocs - 1)

mpirun(nprocs, f(_)) == <<MPI_Init(nprocs)>> \o Run([i \in 1 .. nprocs |-> i - 1], f)

mpi_barrier(nprocs, sync) ==
  mpirun(nprocs, LAMBDA rank :
    mpi_main(nprocs, sync, rank, [n \in 1 .. NUM_RUNS |-> Barrier(0, 0 .. nprocs - 1)]))

mpi_broadcast(nprocs, sync) ==
  mpirun(nprocs, LAMBDA rank :
    mpi_main(nprocs, sync, rank, [n \in 1 .. NUM_RUNS |->
      IF rank = 0 THEN [i \in 1 .. nprocs - 1 |-> Send(CollEnd(0, i), n)]
      ELSE <<Recv(CollEnd(rank, 0), n)>>]))

mpi_reduction(nprocs, sync) ==
  mpirun(nprocs, LAMBDA rank :
    mpi_main(nprocs, sync, rank, [n \in 1 .. NUM_RUNS |->
      IF rank = 0 THEN <<RecvAll({CollEnd(0, i) : i \in 1 .. nprocs - 1}, n)>>
      ELSE <<Send(CollEnd(rank, 0), n)>>]))

-----------------------------------------------------------------------------
(* ompbench and omp_barrier: all cores run, thread tid on cores[tid].      *)

omp_parallel(do_fill, Region(_)) ==
  LET cores == omp_placement(machine, machine.cores, do_fill) IN
  <<Deref(cores = NULL)>> \o Run(cores, Region)

barrierKernel(do_fill) ==
  omp_parallel(do_fill, LAMBDA n :
    Loop(NUM_RUNS, LAMBDA i : Loop(3, LAMBDA j : Barrier(0, 0 .. machine.cores - 1))))

barrierDriver == barrierKernel(TRUE) \o barrierKernel(FALSE)

runBarrier(do_fill, sync) ==
  omp_parallel(do_fill, LAMBDA n :
    Loop(NUM_RUNS, LAMBDA i :
      Loop(IF sync THEN 3 ELSE 1, LAMBDA j : Barrier(0, 0 .. machine.cores - 1))))

\* a parallel region in every turn
reduceKernel(do_fill, sync) ==
  Loop(NUM_RUNS, LAMBDA i :
    omp_parallel(do_fill, LAMBDA n :
      IF sync THEN Synchronise(0, 0 .. machine.cores - 1) ELSE <<>>))

omp_bar_bench(driver) ==
  IF driver THEN barrierDriver ELSE runBarrier(TRUE, FALSE) \o runBarrier(TRUE, TRUE)

omp_red_bench == reduceKernel(TRUE, TRUE) \o reduceKernel(TRUE, FALSE)

-----------------------------------------------------------------------------
(* parse_cores.c: the placements of m are read for the numbers j of cores. *)

\* Every placement goes into a file of its own; fprintf gets the NULL of an fopen
\* that fails.
mpi_parse_cores(m, hyper) ==
  For(2, num_cores_for(m, hyper), LAMBDA j :
    <<Try("rank_file", CRASH), Deref(mpi_placement(m, j, TRUE, hyper) = NULL),
      Try("rank_file", CRASH), Deref(mpi_placement(m, j, FALSE, hyper) = NULL)>>)

\* j = num_nodes, 2 * num_nodes, .., and at least 2; the whole machine is placed
\* also when half of it is asked for
omp_parse_cores(m, hyper) ==
  LET num_nodes == IF m.nodes < 2 THEN 2 ELSE m.nodes IN
  Loop(num_cores_for(m, hyper) \div num_nodes, LAMBDA i :
    <<Deref(omp_parse_placement(m, i * num_nodes, TRUE) = NULL),
      Deref(omp_parse_placement(m, i * num_nodes, FALSE) = NULL)>>)

=============================================================================
