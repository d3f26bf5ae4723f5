---------------------------- MODULE QueueBenches ----------------------------
(***************************************************************************)
(* The benchmarks that send messages over queue pairs, as programs made of *)
(* Operations.  The clock, the measurements and the statistics are left    *)
(* out.  NUM_EXP bounds the turns of the measured loops, warm-up included, *)
(* and the numbers of cores and channels are those of a small machine.     *)
(***************************************************************************)
EXTENDS Operations

CONSTANTS NUM_EXP,      \* bound: turns of a measured loop
          num_cores,    \* cores of the machine
          NUM_MSG,      \* bound: messages in a batch (8 in pairwise, 16 in writeoverhead)
          NUM_CHANNELS  \* bound: queue pairs of polloverhead and writeoverhead

ASSUME QueueBenchesAssumption ==
  {NUM_EXP, NUM_MSG, NUM_CHANNELS} \subseteq Nat \ {0} /\ num_cores \in Nat \ {0, 1}

-----------------------------------------------------------------------------
(* pingpong.c: queue_pairs[2 * r] is the end <<0, r>>.                     *)

pingpong_thr_sender(r) == Loop(NUM_EXP, LAMBDA i : <<Send(<<0, r>>, i), Recv(<<0, r>>, i)>>)

pingpong_thr_receiver(r) == Loop(NUM_EXP, LAMBDA i : <<Recv(<<r, 0>>, i), Send(<<r, 0>>, i)>>)

pingpong ==
  <<smlt_init>>
  \o For(1, num_cores - 1, LAMBDA s : <<Pair(<<0, s>>, <<s, 0>>, EXIT)>>)
  \o For(1, num_cores - 1, LAMBDA r :
       <<Start(r, pingpong_thr_receiver(r))>> \o pingpong_thr_sender(r) \o <<Join(r)>>)

-----------------------------------------------------------------------------
(* pairwise.c: queue_pairs[s][r] is the end <<s, r>>.  A batch has 1, 2, 4 *)
(* .. messages, numbered i, 1 .. i, n.                                     *)

\* turn i sends a batch of n, or expects one
SendBatch(e, i, n) == [j \in 1 .. n |-> Send(e, n * (i - 1) + j)]
RecvBatch(e, i, n) == [j \in 1 .. n |-> Recv(e, n * (i - 1) + j)]

\* mutant: the answer has one message less
pairwise_thr_receiver_Short(s, r, n) ==
  Loop(NUM_EXP, LAMBDA i : RecvBatch(<<r, s>>, i, n) \o Tail(SendBatch(<<r, s>>, i, n)))

pairwise_thr_receiver(s, r, n) ==
  Loop(NUM_EXP, LAMBDA i : RecvBatch(<<r, s>>, i, n) \o SendBatch(<<r, s>>, i, n))

pairwise_thr_sender(s, r, n) ==
  Loop(NUM_EXP, LAMBDA i : SendBatch(<<s, r>>, i, n) \o RecvBatch(<<s, r>>, i, n))

\* num_msg = 1, 2, 4, .. up to NUM_MSG
PowersOfTwo == SetToSortSeq({2^k : k \in 0 .. NUM_MSG} \cap 1 .. NUM_MSG, <)

\* one pair of cores
pairwise_measure(s, r) ==
  IF s = r THEN <<>>
  ELSE FlattenSeq([k \in 1 .. Len(PowersOfTwo) |->
         LET n == PowersOfTwo[k] IN
         <<Start(r, pairwise_thr_receiver(s, r, n))>> \o pairwise_thr_sender(s, r, n)
         \o <<Join(r)>>])

pairwise ==
  <<smlt_init>>
  \o For(0, num_cores - 1, LAMBDA s : <<Try("node", EXIT)>>)
  \o For(0, num_cores - 1, LAMBDA s :
       For(s + 1, num_cores - 1, LAMBDA r : <<Pair(<<s, r>>, <<r, s>>, EXIT)>>))
  \o For(0, num_cores - 1, LAMBDA s :
       <<Try("pin", EXIT)>> \o For(0, num_cores - 1, LAMBDA r : pairwise_measure(s, r)))

-----------------------------------------------------------------------------
(* multimessage.c: queue_pairs[0][s] is <<0, s>>, queue_pairs[1][s] is     *)
(* <<1, s>>.  A core that is named several times receives several times in *)
(* every turn.                                                             *)

\* how often core c is among the first k, and among all of them (n_p_core)
Among(cores, c, k) == Cardinality({j \in 1 .. k : cores[j] = c})
n_p_core(cores, c) == Among(cores, c, Len(cores))

\* The list of the command line, empty for "none", has cores of the machine only,
\* and at most as many as the machine; otherwise the program aborts.
parse_cores(list) ==
  Require(Len(list) <= num_cores /\ \A i \in DOMAIN list : list[i] < num_cores)

\* one message for every core named, in order; the modes of measurement send
\* the same and only read the clock at other places
multimessage_thr_write(cores) ==
  Loop(NUM_EXP, LAMBDA i : [k \in 1 .. Len(cores) |->
    Send(<<0, cores[k]>>,
         n_p_core(cores, cores[k]) * (i - 1) + Among(cores, cores[k], k))])

multimessage_thr_receiver(cores, c) ==
  [j \in 1 .. NUM_EXP * n_p_core(cores, c) |-> Recv(<<1, c>>, j)]

\* a receiver is started once per core, and joined for every core named
run_experiment(cores) ==
  FlattenSeq([k \in 1 .. Len(cores) |->
    IF Among(cores, cores[k], k) > 1 THEN <<>>
    ELSE <<StartOrAbort(cores[k], multimessage_thr_receiver(cores, cores[k]))>>])
  \o multimessage_thr_write(cores)
  \o [k \in 1 .. Len(cores) |-> Join(cores[k])]

\* modes BENCH_MODE_TOTAL, BENCH_MODE_LAST and BENCH_MODE_ALL
modes == 3

multimessage(local_cores, remote_cores) ==
  <<parse_cores(local_cores), parse_cores(remote_cores),
    Require(Len(local_cores) + Len(remote_cores) <= num_cores), smlt_init>>
  \o For(0, num_cores - 1, LAMBDA s : <<Pair(<<0, s>>, <<1, s>>, EXIT)>>)
  \o For(0, Len(local_cores), LAMBDA l : For(0, Len(remote_cores), LAMBDA r :
       IF l = 0 /\ r = 0 THEN <<>>
       ELSE Loop(modes, LAMBDA m :
              run_experiment(SubSeq(remote_cores, 1, r) \o SubSeq(local_cores, 1, l)))))

-----------------------------------------------------------------------------
(* polloverhead.c: queue_pairs[0][n] is <<0, n>>, queue_pairs[1][n] is     *)
(* <<1, n>>.                                                               *)

chan_per_core(cores) == NUM_CHANNELS \div (cores - 1)
chan_max(cores) == chan_per_core(cores) * (cores - 1)

\* the queue pairs of the two overhead benchmarks
queue_pairs(cores) == For(0, chan_max(cores) - 1, LAMBDA s : <<Pair(<<0, s>>, <<1, s>>, EXIT)>>)

thr_poll_recv(num_channels) ==
  Loop(NUM_EXP, LAMBDA i :
    For(0, num_channels - 1, LAMBDA n : <<Recv(<<0, n>>, i)>>)
    \o For(0, num_channels - 1, LAMBDA n : <<Send(<<0, n>>, i)>>))

\* receiver r of cores receivers has the queue pairs r, r + cores, ..
poll_thr_receiver(r, cores, num_channels) ==
  Loop(NUM_EXP, LAMBDA j :
    For(0, num_channels - 1, LAMBDA i : <<Send(<<1, r + i * cores>>, j)>>)
    \o For(0, num_channels - 1, LAMBDA i : <<Recv(<<1, r + i * cores>>, j)>>))

\* The first measurement: as many channels as receivers.  It joins the nodes
\* 0 .. core - 1 and not the nodes 1 .. core that it has started.
poll_receivers(core) ==
  For(1, core, LAMBDA i : <<Start(i, poll_thr_receiver(i - 1, core, 1))>>)
  \o thr_poll_recv(core)
  \o For(0, core - 1, LAMBDA i : <<Join(i)>>)

\* the second one: r channels per receiver
poll_channels(r) ==
  For(1, num_cores - 1, LAMBDA c : <<Start(c, poll_thr_receiver(c - 1, num_cores - 1, r))>>)
  \o thr_poll_recv((num_cores - 1) * r)
  \o For(1, num_cores - 1, LAMBDA c : <<Join(c)>>)

\* The loops before that poll idle channels set num_cores of the argument and
\* leave num_channels zero: they touch no queue.
polloverhead ==
  <<smlt_init>> \o queue_pairs(num_cores)
  \o For(1, num_cores - 1, LAMBDA core : poll_receivers(core))
  \o For(1, chan_per_core(num_cores) - 1, LAMBDA r : poll_channels(r))

-----------------------------------------------------------------------------
(* writeoverhead.c, with the same names of ends.  It uses every second of  *)
(* the cores: num_cores cores in num_clusters clusters.                    *)

num_clusters == 2
num_local_cores == num_cores \div num_clusters

\* send to and receive from a sequence of queue pairs
thr_write(chans) ==
  Loop(NUM_EXP, LAMBDA i :
    [n \in DOMAIN chans |-> Send(<<0, chans[n]>>, i)]
    \o [n \in DOMAIN chans |-> Recv(<<0, chans[n]>>, i)])

\* every receiver has one queue pair
write_thr_receiver(r) == Loop(NUM_EXP, LAMBDA j : <<Recv(<<1, r>>, j), Send(<<1, r>>, j)>>)

thr_write_one(r, num_msg) ==
  Loop(NUM_EXP, LAMBDA j : SendBatch(<<0, r>>, j, num_msg) \o <<Recv(<<0, r>>, j)>>)

thr_receiver_one(r, num_msg) ==
  Loop(NUM_EXP, LAMBDA j : RecvBatch(<<1, r>>, j, num_msg) \o <<Send(<<1, r>>, j)>>)

\* receivers on the target nodes, target t for the queue pair t - d, and the
\* writer
write_round(targets, d) ==
  [k \in DOMAIN targets |-> Start(targets[k], write_thr_receiver(targets[k] - d))]
  \o thr_write([k \in DOMAIN targets |-> targets[k] - d])
  \o [k \in DOMAIN targets |-> Join(targets[k])]

\* local cores, one after the other
WRITEL == For(1, num_local_cores - 1, LAMBDA core : write_round([k \in 1 .. core |-> k], 1))

\* the first core of every other cluster
WRITEN ==
  For(1, num_clusters - 1, LAMBDA c : write_round([k \in 1 .. c |-> num_local_cores * k], 0))

\* batches to one core of every cluster
WRITES ==
  For(0, num_clusters - 1, LAMBDA c :
    LET target == IF c = 0 THEN 1 ELSE num_local_cores * c IN
    Loop(NUM_MSG, LAMBDA num_msg :
      <<Start(target, thr_receiver_one(target, num_msg))>>
      \o thr_write_one(target, num_msg)
      \o <<Join(target)>>))

\* remote cores
WRITEX ==
  For(1, num_cores - num_local_cores - 1, LAMBDA r :
    write_round([k \in 1 .. r |-> num_local_cores + k - 1], 1))

\* any cores
WRITE == For(1, num_cores - 1, LAMBDA r : write_round([k \in 1 .. r |-> k], 1))

writeoverhead == <<smlt_init>> \o queue_pairs(num_cores) \o WRITEL \o WRITEN \o WRITES \o WRITEX \o WRITE

=============================================================================
