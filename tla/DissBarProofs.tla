---------------------------- MODULE DissBarProofs ----------------------------
(***************************************************************************)
(* Proofs about DissBar, for every number of threads, every number of      *)
(* flags that barrier() goes round, every value at which its tag starts    *)
(* over, and every number of barriers.                                     *)
(*                                                                         *)
(* A thread in round r has heard, directly or not, from the StepIn[r]      *)
(* threads up to its own position (Heard).  What it reads in a round is a  *)
(* flag that one other thread writes, and what the flag says is given by   *)
(* how many barriers of its kind the writer has been through (Lines,       *)
(* Flags).                                                                 *)
(***************************************************************************)
EXTENDS DissBar, WellFoundedInduction, TLAPS

-----------------------------------------------------------------------------
(* Doubling.                                                               *)

\* A set that holds 0 and with every number the next one holds them all.
LEMMA Induction ==
  ASSUME NEW T, 0 \in T, \A n \in Nat : n \in T => n + 1 \in T
  PROVE  \A n \in Nat : n \in T
<1> DEFINE U == {n \in Nat : n \notin T}
<1> SUFFICES ASSUME U # {} PROVE FALSE
  BY Zenon
<1>1. U \subseteq Nat
  BY Zenon
<1>2. PICK x \in U : \A y \in U : ~(<<y, x>> \in OpToRel(<, Nat))
  <2> HIDE DEF U
  <2> QED BY <1>1, NatLessThanWellFounded, WFMin, Zenon
<1>3. x \in Nat /\ x \notin T /\ \A y \in U : ~(y < x)
  BY <1>2, Zenon DEF OpToRel
<1>4. x - 1 \in Nat /\ (x - 1) + 1 = x
  BY <1>3
<1>5. x - 1 \in T
  BY <1>3, <1>4
<1> QED BY <1>3, <1>4, <1>5, Zenon

\* The rounds below n and up to n.
LEMMA Bounds ==
  ASSUME NEW n \in Nat
  PROVE  /\ \A r \in 0 .. n : r \in Nat
         /\ \A r \in 0 .. n - 1 : r \in Nat /\ r < n
OBVIOUS

\* How far a thread in round n is with round r, and after its next step.
LEMMA Order ==
  ASSUME NEW n \in Nat
  PROVE  /\ ~(n < n) /\ n <= n
         /\ \A r \in Nat : (n < r \/ n = r) <=> n <= r
         /\ \A r \in Nat : (n + 1 < r \/ n + 1 = r) <=> n < r
         /\ \A r \in Nat : r # n => (n < r <=> n <= r)
OBVIOUS

\* A count before and after a step.
LEMMA Steps ==
  ASSUME NEW n \in Nat
  PROVE  /\ n - 0 = n /\ n + 0 = n /\ (n + 1) - 1 = n /\ (n + 1) - 0 = n + 1
         /\ n + 1 > 0 /\ ~(n >= n + 1) /\ n >= n
         /\ n > 0 => n - 1 \in Nat /\ (n - 1) + 1 = n
OBVIOUS

\* g holds the values of step in the rounds up to n
Doubles(g, n) ==
  /\ g \in [Nat -> Nat]
  /\ g[0] = 1
  /\ \A r \in Nat : r < n => g[r + 1] = g[r] * 2

\* The loop of barrier() can run any number of rounds.
LEMMA DoublesExists == \A n \in Nat : \E g : Doubles(g, n)
<1> DEFINE T == {n \in Nat : \E g : Doubles(g, n)}
<1>1. 0 \in T
  <2>1. Doubles([r \in Nat |-> 1], 0)
    BY DEF Doubles
  <2> QED BY <2>1, Zenon
<1>2. ASSUME NEW n \in Nat, n \in T PROVE n + 1 \in T
  <2>1. PICK g : Doubles(g, n)
    BY <1>2, Zenon
  <2> DEFINE h == [g EXCEPT ![n + 1] = g[n] * 2]
  <2>2. h \in [Nat -> Nat] /\ h[n + 1] = g[n] * 2
    BY <2>1 DEF Doubles
  <2>3. \A r \in Nat : r # n + 1 => h[r] = g[r]
    BY <2>1, Zenon DEF Doubles
  <2> HIDE DEF h
  <2>4. \A r \in Nat : r < n + 1 => h[r + 1] = h[r] * 2
    BY <2>1, <2>2, <2>3 DEF Doubles
  <2>5. h[0] = 1
    BY <2>1, <2>3 DEF Doubles
  <2>6. Doubles(h, n + 1)
    BY <2>2, <2>4, <2>5, Zenon DEF Doubles
  <2> QED BY <2>6
<1> HIDE DEF T
<1>3. \A n \in Nat : n \in T
  BY <1>1, <1>2, Induction, Zenon
<1> QED BY <1>3, Zenon DEF T

\* The values of step do not depend on the number of rounds.
LEMMA DoublesUnique ==
  ASSUME NEW n \in Nat, NEW m \in Nat, NEW g, NEW h, Doubles(g, n), Doubles(h, m)
  PROVE  \A k \in Nat : k <= n /\ k <= m => g[k] = h[k]
<1> DEFINE T == {k \in Nat : k <= n /\ k <= m => g[k] = h[k]}
<1>1. 0 \in T
  BY Zenon DEF Doubles
<1>2. ASSUME NEW k \in Nat, k \in T PROVE k + 1 \in T
  BY <1>2 DEF Doubles
<1> HIDE DEF T
<1>3. \A k \in Nat : k \in T
  BY <1>1, <1>2, Induction, Zenon
<1> QED BY <1>3, Zenon DEF T

\* StepIn is what its definition says.
LEMMA StepInDoubles ==
  /\ StepIn[0] = 1
  /\ \A r \in Nat : StepIn[r] \in Nat /\ StepIn[r + 1] = StepIn[r] * 2
<1> DEFINE G(n) == CHOOSE g : Doubles(g, n)
           f == [n \in Nat |-> G(n)[n]]
<1>1. \A n \in Nat : Doubles(G(n), n)
  BY DoublesExists, Zenon
<1> HIDE DEF G
<1>2. \A n \in Nat : f[n] = G(n)[n]
  BY Zenon
<1>3. f[0] = 1 /\ \A n \in Nat : f[n] \in Nat
  BY <1>1, Zenon DEF Doubles
<1>4. ASSUME NEW n \in Nat PROVE f[n + 1] = f[n] * 2
  <2>1. Doubles(G(n), n) /\ Doubles(G(n + 1), n + 1) /\ n + 1 \in Nat
    BY <1>1
  <2>2. G(n + 1)[n] = G(n)[n]
    <3>1. n <= n /\ n <= n + 1
      OBVIOUS
    <3> QED BY <2>1, <3>1, DoublesUnique
  <2>3. G(n + 1)[n + 1] = G(n + 1)[n] * 2
    BY <2>1 DEF Doubles
  <2> QED BY <1>2, <2>1, <2>2, <2>3, Zenon
<1> HIDE DEF f
<1>5. \A r \in Nat : f[r] = IF r = 0 THEN 1 ELSE f[r - 1] * 2
  <2>1. ASSUME NEW r \in Nat, r # 0 PROVE f[r] = f[r - 1] * 2
    <3>1. r - 1 \in Nat /\ (r - 1) + 1 = r
      BY <2>1
    <3>2. f[(r - 1) + 1] = f[r - 1] * 2
      BY <1>4, <3>1, Zenon
    <3> QED BY <3>1, <3>2, Zenon
  <2> QED BY <1>3, <2>1, Zenon
<1>6. f = [r \in Nat |-> IF r = 0 THEN 1 ELSE f[r - 1] * 2]
  BY <1>5, Zenon DEF f
<1>7. StepIn = [r \in Nat |-> IF r = 0 THEN 1 ELSE StepIn[r - 1] * 2]
  BY <1>6, Zenon DEF StepIn
<1> HIDE DEF StepIn
<1>8. \A r \in Nat : StepIn[r] = IF r = 0 THEN 1 ELSE StepIn[r - 1] * 2
  BY <1>7, Zenon
<1>9. StepIn[0] = 1 /\ \A r \in Nat : StepIn[r + 1] = StepIn[r] * 2
  <2>1. \A r \in Nat : r + 1 \in Nat /\ r + 1 # 0 /\ (r + 1) - 1 = r
    OBVIOUS
  <2> QED BY <1>8, <2>1, Zenon
<1> DEFINE T == {r \in Nat : StepIn[r] \in Nat}
<1>10. 0 \in T /\ \A r \in Nat : r \in T => r + 1 \in T
  BY <1>9
<1>11. \A r \in Nat : r \in T
  <2> HIDE DEF T
  <2> QED BY <1>10, Induction, Zenon
<1> QED BY <1>9, <1>11, Zenon

\* The values of step grow.
LEMMA StepInGrows ==
  /\ \A r \in Nat : StepIn[r] > r
  /\ \A r, q \in Nat : r <= q => StepIn[r] <= StepIn[q]
<1> USE StepInDoubles
<1>1. \A r \in Nat : StepIn[r] > r
  <2> DEFINE T == {r \in Nat : StepIn[r] > r}
  <2>1. 0 \in T /\ \A r \in Nat : r \in T => r + 1 \in T
    OBVIOUS
  <2> HIDE DEF T
  <2>2. \A r \in Nat : r \in T
    BY <2>1, Induction, Zenon
  <2> QED BY <2>2, Zenon DEF T
<1>2. ASSUME NEW r \in Nat PROVE \A q \in Nat : r <= q => StepIn[r] <= StepIn[q]
  <2> DEFINE T == {q \in Nat : r <= q => StepIn[r] <= StepIn[q]}
  <2>1. 0 \in T
    OBVIOUS
  <2>2. ASSUME NEW q \in Nat, q \in T PROVE q + 1 \in T
    BY <2>2
  <2> HIDE DEF T
  <2>3. \A q \in Nat : q \in T
    BY <2>1, <2>2, Induction, Zenon
  <2> QED BY <2>3, Zenon DEF T
<1> QED BY <1>1, <1>2, Zenon

-----------------------------------------------------------------------------
(* The rounds and the peers.                                               *)

\* the threads of this turn of the main thread's loop
Active == 0 .. nthr - 1

\* how many places after thread u thread t comes
Dist(u, t) == IF u <= t THEN t - u ELSE t - u + nthr

\* the thread whose flag of round r thread t writes in mcs_barrier_wait()
PartnerIn(t, r) == (t + StepIn[r]) % nthr

\* The constants, in plain arithmetic.
LEMMA Constants ==
  /\ NumThreads \in Nat /\ NumThreads > 1
  /\ MAXOPS \in Nat /\ MAXOPS > 0
  /\ INT_MAX \in Nat /\ MaxCalls \in Nat
BY DissBarAssumption DEF DissBarAssumption

\* There is a least number of rounds after which step is at least nthreads.
LEMMA RoundsFacts ==
  ASSUME nthr \in 2 .. NumThreads
  PROVE  /\ Rounds \in Nat /\ 0 < Rounds /\ Rounds <= NumThreads
         /\ nthr <= StepIn[Rounds]
         /\ \A r \in Nat : r < Rounds => StepIn[r] \in 1 .. nthr - 1
<1>1. nthr \in Nat /\ 1 < nthr /\ nthr <= NumThreads /\ NumThreads \in Nat
  BY Constants
<1> DEFINE Enough(r) == nthr <= StepIn[r] /\ \A q \in 0 .. r - 1 : StepIn[q] < nthr
<1>2. \E r \in 0 .. nthr : Enough(r)
  <2> SUFFICES ASSUME \A r \in 0 .. nthr : ~Enough(r) PROVE FALSE
    BY Zenon
  <2> DEFINE T == {r \in Nat : r <= nthr => \A q \in 0 .. r - 1 : StepIn[q] < nthr}
  <2>1. 0 \in T
    OBVIOUS
  <2>2. ASSUME NEW r \in Nat, r \in T PROVE r + 1 \in T
    <3> SUFFICES ASSUME r + 1 <= nthr, NEW q \in 0 .. (r + 1) - 1 PROVE StepIn[q] < nthr
      OBVIOUS
    <3>1. r \in 0 .. nthr /\ \A p \in 0 .. r - 1 : StepIn[p] < nthr
      BY <2>2
    <3>2. ~(nthr <= StepIn[r])
      BY <3>1, Zenon
    <3>3. q = r \/ q \in 0 .. r - 1
      BY <3>1
    <3>4. StepIn[r] \in Nat
      BY StepInDoubles, Zenon
    <3> QED BY <1>1, <3>1, <3>3, <3>4
  <2>3. nthr \in T
    <3> HIDE DEF T
    <3> QED BY <1>1, <2>1, <2>2, Induction, Zenon
  <2>4. nthr \in 0 .. nthr /\ nthr <= StepIn[nthr]
    BY StepInDoubles, StepInGrows
  <2> QED BY <2>3, <2>4
<1>3. Rounds \in 0 .. nthr /\ Enough(Rounds)
  BY <1>2, Zenon DEF Rounds
<1>4. Rounds # 0
  BY <1>1, <1>3, StepInDoubles
<1>5. ASSUME NEW r \in Nat, r < Rounds PROVE StepIn[r] \in 1 .. nthr - 1
  <2>1. r \in 0 .. Rounds - 1
    BY <1>1, <1>3, <1>5
  <2>2. StepIn[r] < nthr
    BY <1>3, <2>1, Zenon
  <2> QED BY <2>2, StepInDoubles, StepInGrows
<1> QED BY <1>1, <1>3, <1>4, <1>5

\* A number has one remainder.
LEMMA Remainder ==
  ASSUME NEW n \in Nat, n > 0, NEW a \in Int, - n <= a, a < 2 * n
  PROVE  a % n = IF a < 0 THEN a + n ELSE IF a < n THEN a ELSE a - n
OBVIOUS

\* The thread to write to is step places further.
LEMMA Partners ==
  ASSUME nthr \in 2 .. NumThreads, NEW t \in Active, NEW r \in Nat, r < Rounds
  PROVE  /\ PartnerIn(t, r) \in Active
         /\ PartnerIn(t, r) = IF t + StepIn[r] < nthr THEN t + StepIn[r]
                              ELSE t + StepIn[r] - nthr
<1>1. /\ nthr \in Nat /\ nthr > 0 /\ t \in 0 .. nthr - 1
      /\ StepIn[r] \in 1 .. nthr - 1
  BY RoundsFacts DEF Active
<1>2. PICK a \in Int : a = t + StepIn[r] /\ 0 < a /\ a < 2 * nthr
  BY <1>1
<1>3. - nthr <= a
  BY <1>1, <1>2
<1>4. a % nthr = IF a < 0 THEN a + nthr ELSE IF a < nthr THEN a ELSE a - nthr
  BY <1>1, <1>2, <1>3, Remainder, Zenon
<1>5. PartnerIn(t, r) = a % nthr
  BY <1>2, Zenon DEF PartnerIn
<1>6. PartnerIn(t, r) = IF a < nthr THEN a ELSE a - nthr
  BY <1>2, <1>4, <1>5
<1> QED BY <1>1, <1>2, <1>6 DEF Active

\* Every flag of mcs_barrier_wait() has one writer, step places before its reader.
LEMMA Writers ==
  ASSUME nthr \in 2 .. NumThreads, NEW r \in Nat, r < Rounds
  PROVE  /\ \A t, u \in Active : PartnerIn(t, r) = PartnerIn(u, r) => t = u
         /\ \A t \in Active : \E u \in Active :
              PartnerIn(u, r) = t /\ Dist(u, t) = StepIn[r]
<1>1. nthr \in Nat /\ StepIn[r] \in 1 .. nthr - 1
  BY RoundsFacts, Constants
<1>2. ASSUME NEW t \in Active, NEW u \in Active, PartnerIn(t, r) = PartnerIn(u, r)
      PROVE  t = u
  BY <1>1, <1>2, Partners DEF Active
<1>3. ASSUME NEW t \in Active
      PROVE  \E u \in Active : PartnerIn(u, r) = t /\ Dist(u, t) = StepIn[r]
  <2>1. PICK u \in Active : u = IF t >= StepIn[r] THEN t - StepIn[r] ELSE t - StepIn[r] + nthr
    BY <1>1 DEF Active
  <2> QED BY <1>1, <2>1, Partners DEF Active, Dist
<1> QED BY <1>2, <1>3, Zenon

\* The peer that barrier() waits for is step places before.
LEMMA Peers ==
  ASSUME nthr \in 2 .. NumThreads, NEW t \in Active, round[t] \in Nat, round[t] < Rounds
  PROVE  Peer(t) \in Active /\ Dist(Peer(t), t) = StepIn[round[t]]
<1>1. /\ nthr \in Nat /\ nthr > 0 /\ t \in 0 .. nthr - 1
      /\ StepIn[round[t]] \in 1 .. nthr - 1
  BY RoundsFacts, Constants DEF Active
<1>2. PICK a \in Int : a = t - StepIn[round[t]] /\ - nthr <= a /\ a < nthr
  BY <1>1
<1>3. a < 2 * nthr
  BY <1>1, <1>2
<1>4. a % nthr = IF a < 0 THEN a + nthr ELSE IF a < nthr THEN a ELSE a - nthr
  BY <1>1, <1>2, <1>3, Remainder, Zenon
<1>5. Peer(t) = a % nthr
  BY <1>2, Zenon DEF Peer
<1>6. Peer(t) = IF a < 0 THEN a + nthr ELSE a
  BY <1>2, <1>4, <1>5, Zenon
<1> QED BY <1>1, <1>2, <1>6 DEF Active, Dist

\* Whoever is less than two steps before a thread is less than a step before it,
\* or less than a step before the peer that the thread waits for.
LEMMA Halves ==
  ASSUME nthr \in Nat, NEW t \in Active, NEW u \in Active, NEW p \in Active,
         Dist(u, t) < Dist(p, t) * 2
  PROVE  Dist(u, t) < Dist(p, t) \/ Dist(u, p) < Dist(p, t)
BY DEF Active, Dist

\* Nobody is nthreads or more before a thread.
LEMMA DistType ==
  ASSUME nthr \in Nat, NEW t \in Active, NEW u \in Active
  PROVE  Dist(u, t) \in Nat /\ Dist(u, t) < nthr /\ (Dist(u, t) < 1 => u = t)
BY DEF Active, Dist

-----------------------------------------------------------------------------
(* The barriers that the threads call.                                     *)

Runs == {run_diss, run_diss_tp, run_mcs, run_smlt, throughput}

\* the kind of the k-th barrier that a thread calls
KindOf(k) == run.function[1 + ((k - 1) % Len(run.function))]

\* how many of the first k barriers are mcs_barrier_wait()
McsIn(k) == IF run = run_mcs THEN k \div 3 ELSE IF run = throughput THEN k ELSE 0

\* how many of them are barrier()
NotifyIn(k) == IF run \in {run_mcs, run_smlt} THEN k - (k \div 3)
               ELSE IF run = throughput THEN 0 ELSE k

\* Every barrier counts for its kind.
LEMMA Counts ==
  ASSUME run \in Runs, NEW k \in Nat
  PROVE  /\ McsIn(k) \in Nat /\ NotifyIn(k) \in Nat
         /\ KindOf(k + 1) \in {"notify", "mcs", "smlt"}
         /\ McsIn(k + 1) = McsIn(k) + IF KindOf(k + 1) = "mcs" THEN 1 ELSE 0
         /\ NotifyIn(k + 1) = NotifyIn(k) + IF KindOf(k + 1) = "notify" THEN 1 ELSE 0
<1>1. (k + 1) - 1 = k
  OBVIOUS
<1>2. KindOf(k + 1) = run.function[1 + (k % Len(run.function))]
  BY DEF KindOf
<1>3. ASSUME NEW f, NEW m, run.function = <<f, f, m>>
      PROVE  /\ KindOf(k + 1) = IF k % 3 = 2 THEN m ELSE f
  BY <1>2, <1>3
<1>4. (k + 1) \div 3 = (k \div 3) + IF k % 3 = 2 THEN 1 ELSE 0
  OBVIOUS
<1>5. k \div 3 \in Nat /\ k \div 3 <= k
  OBVIOUS
<1>6. run_mcs # run_smlt /\ run_mcs # throughput /\ run_smlt # throughput
      /\ run_mcs # run_diss /\ run_smlt # run_diss /\ throughput # run_diss
      /\ run_mcs # run_diss_tp /\ run_smlt # run_diss_tp /\ throughput # run_diss_tp
  BY Zenon DEF run_mcs, run_smlt, throughput, run_diss, run_diss_tp, function_thread_mcs,
         function_thread_smlt, mcs_barrier, function_thread, function_thread_tp
<1>7. CASE run = run_diss
  <2>1. run.function = <<"notify", "notify", "notify">>
    BY <1>7, Zenon DEF run_diss, function_thread
  <2>2. KindOf(k + 1) = "notify"
    BY <1>3, <2>1, Zenon
  <2> QED BY <1>6, <1>7, <2>2 DEF McsIn, NotifyIn
<1>8. CASE run = run_diss_tp
  <2>1. run.function = <<"notify", "notify", "notify", "notify">>
    BY <1>8, Zenon DEF run_diss_tp, function_thread_tp
  <2>2. KindOf(k + 1) = "notify"
    BY <1>2, <2>1
  <2> QED BY <1>6, <1>8, <2>2 DEF McsIn, NotifyIn
<1>9. CASE run = run_mcs
  <2>1. run.function = <<"notify", "notify", "mcs">>
    BY <1>9, Zenon DEF run_mcs, function_thread_mcs
  <2>2. KindOf(k + 1) = IF k % 3 = 2 THEN "mcs" ELSE "notify"
    BY <1>3, <2>1, Zenon
  <2> QED BY <1>5, <1>6, <1>9, <2>2 DEF McsIn, NotifyIn
<1>10. CASE run = run_smlt
  <2>1. run.function = <<"notify", "notify", "smlt">>
    BY <1>10, Zenon DEF run_smlt, function_thread_smlt
  <2>2. KindOf(k + 1) = IF k % 3 = 2 THEN "smlt" ELSE "notify"
    BY <1>3, <2>1, Zenon
  <2> QED BY <1>4, <1>5, <1>6, <1>10, <2>2 DEF McsIn, NotifyIn
<1>11. CASE run = throughput
  <2>1. run.function = <<"mcs">>
    BY <1>11, Zenon DEF throughput, mcs_barrier
  <2>2. KindOf(k + 1) = "mcs"
    BY <1>2, <2>1
  <2> QED BY <1>6, <1>11, <2>2 DEF McsIn, NotifyIn
<1> QED BY <1>7, <1>8, <1>9, <1>10, <1>11, Zenon DEF Runs

\* The counts grow.
LEMMA CountsGrow ==
  ASSUME run \in Runs, NEW j \in Nat, NEW k \in Nat, j <= k
  PROVE  McsIn(j) <= McsIn(k) /\ NotifyIn(j) <= NotifyIn(k)
<1>1. j \div 3 <= k \div 3 /\ j - (j \div 3) <= k - (k \div 3)
  OBVIOUS
<1> QED BY DEF McsIn, NotifyIn

\* Whoever has called as many barriers of the kind of the k-th as there are up to
\* that one has called it.
LEMMA CountsOrder ==
  ASSUME run \in Runs, NEW j \in Nat, NEW k \in Nat, k > 0,
         \/ KindOf(k) = "mcs" /\ McsIn(k) <= McsIn(j)
         \/ KindOf(k) = "notify" /\ NotifyIn(k) <= NotifyIn(j)
  PROVE  j >= k
<1> SUFFICES ASSUME j < k PROVE FALSE
  OBVIOUS
<1>1. k - 1 \in Nat /\ (k - 1) + 1 = k /\ j <= k - 1
  OBVIOUS
<1>2. /\ McsIn(j) <= McsIn(k - 1) /\ NotifyIn(j) <= NotifyIn(k - 1)
      /\ McsIn(j) \in Nat /\ NotifyIn(j) \in Nat
  BY <1>1, Counts, CountsGrow, Zenon
<1>3. /\ McsIn(k - 1) \in Nat /\ NotifyIn(k - 1) \in Nat
      /\ McsIn(k) = McsIn(k - 1) + IF KindOf(k) = "mcs" THEN 1 ELSE 0
      /\ NotifyIn(k) = NotifyIn(k - 1) + IF KindOf(k) = "notify" THEN 1 ELSE 0
  <2>1. PICK m \in Nat : m = k - 1 /\ m + 1 = k
    BY <1>1, Zenon
  <2> QED BY <2>1, Counts, Zenon
<1> QED BY <1>2, <1>3

-----------------------------------------------------------------------------
(* The senses of mcs_barrier_wait().                                       *)

\* what a flag of parity p says when its writer has been through w barriers
FlagAfter(p, w) == IF w % 4 \in {p + 1, p + 2} THEN 1 ELSE 0

\* the sense of a thread that has left w barriers
SenseAfter(w) == IF w % 4 \in {0, 1} THEN 1 ELSE 0

\* In the next barrier a thread turns over the flag of its parity.
LEMMA Turns ==
  ASSUME NEW w \in Nat
  PROVE  /\ FlagAfter(w % 2, w) # SenseAfter(w)
         /\ FlagAfter(w % 2, w + 1) = SenseAfter(w)
         /\ FlagAfter(1 - (w % 2), w + 1) = FlagAfter(1 - (w % 2), w)
         /\ (w + 1) % 2 = 1 - (w % 2)
         /\ SenseAfter(w + 1) = IF w % 2 = 1 THEN 1 - SenseAfter(w) ELSE SenseAfter(w)
         /\ w % 2 \in {0, 1} /\ SenseAfter(w) \in {0, 1}
BY DEF FlagAfter, SenseAfter

\* A flag that has the sense of a barrier was written in it or in the next one,
\* unless its writer is further away than that.
LEMMA Turned ==
  ASSUME NEW w \in Nat, NEW v \in Nat, w <= v + 1, v <= w + 2,
         FlagAfter(w % 2, v) = SenseAfter(w)
  PROVE  v >= w + 1
BY DEF FlagAfter, SenseAfter

-----------------------------------------------------------------------------
(* The inductive invariant.                                                *)

\* thread t is between two barriers, or not there
Out(t) == pc[t] \in {"none", "start", "ready", "run", "end"}

\* barriers thread t has left
Left(t) == IF Out(t) THEN calls[t] ELSE calls[t] - 1

\* thread t is in a barrier of this kind
In(t, kind) == pc[t] \in {"write", "wait", "hung"} /\ Kind(t) = kind

\* thread t is in such a barrier and has yet to write its flag of round r
ToWrite(t, kind, r) ==
  In(t, kind) /\ (round[t] < r \/ (round[t] = r /\ pc[t] = "write"))

Types ==
  /\ run \in Runs
  /\ nthr \in 2 .. NumThreads
  /\ main \in {"setup", "create", "ack", "release", "join", "end"} \X Nat
  /\ main[2] < nthr
  /\ pc \in [Threads -> {"none", "start", "ready", "run", "write", "wait", "hung",
                         "inside", "end"}]
  /\ calls \in [Threads -> Nat]
  /\ round \in [Threads -> Nat]
  /\ tag \in [Threads -> Nat]
  /\ op \in [Threads -> Nat]
  /\ flag \in [0 .. MAXOPS - 1 -> [Threads -> [0 .. NumThreads -> Nat]]]
  /\ myflags \in [Threads -> [{0, 1} -> [0 .. NumThreads -> {0, 1}]]]
  /\ parity \in [Threads -> {0, 1}]
  /\ sense \in [Threads -> {0, 1}]
  /\ wrapped \in BOOLEAN

\* thread t is not there
Idle(t) == pc[t] \in {"none", "end"}

\* the main thread sets up the flags while nobody is there, creates only threads
\* that are not there, and has joined those it is past
Crew == \A t \in Threads :
  \/ nthr <= t
  \/ main[1] = "setup"
  \/ main[1] = "create" /\ main[2] <= t
  \/ main[1] = "ack" /\ main[2] < t
  \/ main[1] = "join" /\ t < main[2]
  => Idle(t)

\* where thread t is agrees with the barrier it has called
Place(t) ==
  /\ ~Out(t) => calls[t] > 0
  /\ pc[t] \in {"write", "wait", "hung"} => Kind(t) \in {"notify", "mcs"}
  /\ pc[t] = "inside" => Kind(t) = "smlt"
  /\ pc[t] = "write" => round[t] <= Rounds
  /\ pc[t] \in {"wait", "hung"} => round[t] < Rounds

\* the tag counts the calls of barrier()
Tags(t) ==
  /\ tag[t] = 2 + Rounds * NotifyIn(calls[t])
  /\ In(t, "notify") => op[t] + Rounds = tag[t]

\* a flag of thread t that was written says how far it was then, which is less
\* than it will write next
Lines(t) ==
  \A x \in 0 .. MAXOPS - 1, r \in 0 .. NumThreads :
    \/ flag[x][t][r] = 0
    \/ flag[x][t][r] + Rounds <= r + IF ToWrite(t, "notify", r) THEN op[t] ELSE tag[t]

\* parity and sense count the calls of mcs_barrier_wait() that t has left
Senses(t) ==
  LET w == McsIn(calls[t]) - IF In(t, "mcs") THEN 1 ELSE 0 IN
    parity[t] = w % 2 /\ sense[t] = SenseAfter(w)

\* the flags that thread t writes count those in which it has written them
Flags(t) ==
  \A r \in 0 .. Rounds - 1, p \in {0, 1} :
    myflags[PartnerIn(t, r)][p][r] =
      FlagAfter(p, McsIn(calls[t]) - IF ToWrite(t, "mcs", r) THEN 1 ELSE 0)

\* thread u has called the barriers that t has left; when a tag has started over,
\* only those of mcs_barrier_wait()
Passed(t, u) ==
  /\ McsIn(calls[u]) >= McsIn(Left(t))
  /\ wrapped \/ calls[u] >= Left(t)

\* if thread u is among those that t has heard from, it has called the barrier
\* that t is in
Heard(t, u) ==
  /\ In(t, "mcs") \/ (In(t, "notify") /\ ~wrapped)
  /\ Dist(u, t) < StepIn[round[t]]
  => calls[u] >= calls[t]

ThreadOK(t) ==
  /\ Place(t)
  /\ wrapped \/ (Tags(t) /\ Lines(t))
  /\ Senses(t)
  /\ Flags(t)
  /\ \A u \in Active : Passed(t, u) /\ Heard(t, u)

Protocol == \A t \in Active : ThreadOK(t)

IndInv == Types /\ Crew /\ (main[1] # "setup" => Protocol)

-----------------------------------------------------------------------------
(* What a step leaves alone.                                               *)

\* What depends on the run and the number of threads only.
LEMMA SameRun ==
  ASSUME run' = run, nthr' = nthr
  PROVE  /\ Rounds' = Rounds /\ Active' = Active
         /\ \A k : /\ McsIn(k)' = McsIn(k) /\ NotifyIn(k)' = NotifyIn(k)
                   /\ KindOf(k)' = KindOf(k)
         /\ \A u, t : Dist(u, t)' = Dist(u, t) /\ PartnerIn(u, t)' = PartnerIn(u, t)
<1>1. Rounds' = Rounds
  BY Zenon DEF Rounds
<1>2. Active' = Active
  BY Zenon DEF Active
<1>3. \A k : McsIn(k)' = McsIn(k) /\ NotifyIn(k)' = NotifyIn(k)
  BY Zenon DEF McsIn, NotifyIn
<1>4. \A k : KindOf(k)' = KindOf(k)
  BY Zenon DEF KindOf
<1>5. \A u, t : Dist(u, t)' = Dist(u, t) /\ PartnerIn(u, t)' = PartnerIn(u, t)
  BY Zenon DEF Dist, PartnerIn
<1> QED BY <1>1, <1>2, <1>3, <1>4, <1>5, Zenon

\* What depends on where one thread is.
LEMMA SameThread ==
  ASSUME NEW u, run' = run, pc'[u] = pc[u], calls'[u] = calls[u], round'[u] = round[u]
  PROVE  /\ Out(u)' <=> Out(u)
         /\ Left(u)' = Left(u)
         /\ Kind(u)' = Kind(u)
         /\ \A k : In(u, k)' <=> In(u, k)
         /\ \A k, r : ToWrite(u, k, r)' <=> ToWrite(u, k, r)
<1>1. (Out(u)' <=> Out(u)) /\ Left(u)' = Left(u)
  BY Zenon DEF Out, Left
<1>2. Kind(u)' = Kind(u)
  BY Zenon DEF Kind
<1>3. \A k : In(u, k)' <=> In(u, k)
  BY <1>2, Zenon DEF In
<1>4. \A k, r : ToWrite(u, k, r)' <=> ToWrite(u, k, r)
  BY <1>3, Zenon DEF ToWrite
<1> QED BY <1>1, <1>2, <1>3, <1>4, Zenon

\* The barrier that a thread is in, and the one it calls next.
LEMMA Kinds ==
  ASSUME NEW t, calls[t] \in Nat
  PROVE  Kind(t) = KindOf(calls[t]) /\ NextKind(t) = KindOf(calls[t] + 1)
<1>1. (calls[t] + 1) - 1 = calls[t]
  OBVIOUS
<1> QED BY <1>1, Zenon DEF Kind, NextKind, KindOf

\* The values of the variables of a thread of this turn.
LEMMA ThreadTypes ==
  ASSUME Types, NEW t \in Active
  PROVE  /\ t \in Threads /\ nthr \in Nat /\ nthr \in 2 .. NumThreads /\ run \in Runs
         /\ calls[t] \in Nat /\ round[t] \in Nat /\ tag[t] \in Nat /\ op[t] \in Nat
         /\ Left(t) \in Int /\ Left(t) <= calls[t] /\ calls[t] <= Left(t) + 1
<1>1. nthr \in Nat /\ nthr \in 2 .. NumThreads /\ run \in Runs
  BY DEF Types
<1>2. t \in Threads
  BY <1>1, Constants DEF Active, Threads
<1>3. calls[t] \in Nat /\ round[t] \in Nat /\ tag[t] \in Nat /\ op[t] \in Nat
  BY <1>2, Zenon DEF Types
<1> QED BY <1>1, <1>2, <1>3 DEF Left

\* the variables that only thread u writes, and the flags it writes
Untouched(u) ==
  /\ pc'[u] = pc[u] /\ calls'[u] = calls[u] /\ round'[u] = round[u]
  /\ tag'[u] = tag[u] /\ op'[u] = op[u]
  /\ parity'[u] = parity[u] /\ sense'[u] = sense[u]
  /\ \A x \in 0 .. MAXOPS - 1, r \in 0 .. NumThreads : flag'[x][u][r] = flag[x][u][r]
  /\ \A r \in 0 .. Rounds - 1, p \in {0, 1} :
       myflags'[PartnerIn(u, r)][p][r] = myflags[PartnerIn(u, r)][p][r]

\* A step of thread t leaves the others where they are.  They have called what t
\* relies on them to have called, and t has called no less than before.
LEMMA Others ==
  ASSUME Types, Protocol, NEW t \in Active, run' = run, nthr' = nthr, wrapped => wrapped',
         \A u \in Active : u # t => Untouched(u),
         calls'[t] \in Nat, calls'[t] >= calls[t],
         ThreadOK(t)'
  PROVE  Protocol'
<1>1. /\ Rounds' = Rounds /\ Active' = Active
      /\ \A k : McsIn(k)' = McsIn(k) /\ NotifyIn(k)' = NotifyIn(k) /\ KindOf(k)' = KindOf(k)
      /\ \A u, v : Dist(u, v)' = Dist(u, v) /\ PartnerIn(u, v)' = PartnerIn(u, v)
  BY SameRun, Zenon
<1> SUFFICES ASSUME NEW u \in Active, u # t PROVE ThreadOK(u)'
  BY <1>1, Zenon DEF Protocol
<1>2. /\ Untouched(u)
      /\ Place(u) /\ (wrapped \/ (Tags(u) /\ Lines(u))) /\ Senses(u) /\ Flags(u)
      /\ \A v \in Active : Passed(u, v) /\ Heard(u, v)
  BY Zenon DEF Protocol, ThreadOK
<1>3. /\ Out(u)' <=> Out(u)
      /\ Left(u)' = Left(u)
      /\ Kind(u)' = Kind(u)
      /\ \A k : In(u, k)' <=> In(u, k)
      /\ \A k, r : ToWrite(u, k, r)' <=> ToWrite(u, k, r)
  BY SameThread, Zenon DEF Untouched
<1>4. Place(u)'
  BY <1>1, <1>2, <1>3, Zenon DEF Place, Untouched
<1>5. wrapped' \/ (Tags(u)' /\ Lines(u)')
  <2> SUFFICES ASSUME ~wrapped' PROVE Tags(u)' /\ Lines(u)'
    BY Zenon
  <2>1. Tags(u) /\ Lines(u)
    BY <1>2, Zenon
  <2>2. Tags(u)'
    BY <1>1, <1>3, <2>1, Zenon DEF Tags, Untouched
  <2>3. Lines(u)'
    <3>1. /\ tag'[u] = tag[u] /\ op'[u] = op[u]
          /\ \A x \in 0 .. MAXOPS - 1, r \in 0 .. NumThreads : flag'[x][u][r] = flag[x][u][r]
      BY <1>2, Zenon DEF Untouched
    <3> QED BY <1>1, <1>3, <2>1, <3>1, Zenon DEF Lines
  <2> QED BY <2>2, <2>3, Zenon
<1>6. Senses(u)'
  BY <1>1, <1>2, <1>3, Zenon DEF Senses, Untouched
<1>7. Flags(u)'
  <2>1. /\ Flags(u) /\ calls'[u] = calls[u]
        /\ \A r \in 0 .. Rounds - 1, p \in {0, 1} :
             myflags'[PartnerIn(u, r)][p][r] = myflags[PartnerIn(u, r)][p][r]
    BY <1>2, Zenon DEF Untouched
  <2>2. ASSUME NEW r \in 0 .. Rounds - 1, NEW p \in {0, 1}
        PROVE  myflags'[PartnerIn(u, r)'][p][r]
                 = FlagAfter(p, McsIn(calls[u])' - (IF ToWrite(u, "mcs", r)' THEN 1 ELSE 0))
    <3>1. /\ PartnerIn(u, r)' = PartnerIn(u, r) /\ McsIn(calls[u])' = McsIn(calls[u])
          /\ ToWrite(u, "mcs", r)' <=> ToWrite(u, "mcs", r)
      BY <1>1, <1>3, <2>1, Zenon
    <3>2. myflags'[PartnerIn(u, r)][p][r] = myflags[PartnerIn(u, r)][p][r]
      BY <2>1, Zenon
    <3>3. myflags[PartnerIn(u, r)][p][r]
            = FlagAfter(p, McsIn(calls[u]) - (IF ToWrite(u, "mcs", r) THEN 1 ELSE 0))
      BY <2>1, Zenon DEF Flags
    <3> QED BY <3>1, <3>2, <3>3, Zenon
  <2>3. Rounds' = Rounds
    BY <1>1, Zenon
  <2> QED BY <2>2, <2>3, Zenon DEF Flags
<1>8. ASSUME NEW v \in Active PROVE Passed(u, v)' /\ Heard(u, v)'
  <2>1. calls[v] \in Nat /\ calls'[v] \in Nat /\ calls'[v] >= calls[v]
    <3>1. calls[v] \in Nat
      BY ThreadTypes, Zenon
    <3>2. v # t => calls'[v] = calls[v]
      BY Zenon DEF Untouched
    <3> QED BY <3>1, <3>2
  <2>2. run \in Runs /\ calls[u] \in Nat /\ Left(u) \in Nat
    BY <1>2, ThreadTypes DEF Place, Left
  <2>3. /\ McsIn(calls[v]) \in Nat /\ McsIn(calls'[v]) \in Nat /\ McsIn(Left(u)) \in Nat
        /\ McsIn(calls[v]) <= McsIn(calls'[v])
    BY <2>1, <2>2, Counts, CountsGrow, Zenon
  <2>4. Passed(u, v)'
    <3>1. /\ McsIn(calls[v])' = McsIn(calls'[v])
          /\ McsIn(Left(u))' = McsIn(Left(u))
      BY <1>1, <1>3, Zenon
    <3>2. McsIn(calls[v]) >= McsIn(Left(u)) /\ (wrapped \/ calls[v] >= Left(u))
      BY <1>2, Zenon DEF Passed
    <3>3. McsIn(calls'[v]) >= McsIn(Left(u))
      BY <2>3, <3>2
    <3>4. calls[v] >= Left(u) => calls'[v] >= Left(u)
      BY <2>1, <2>2
    <3> QED BY <1>3, <3>1, <3>2, <3>3, <3>4, Zenon DEF Passed
  <2>5. Heard(u, v)'
    <3>1. Heard(u, v) /\ calls'[u] = calls[u] /\ round'[u] = round[u]
      BY <1>2, Zenon DEF Untouched
    <3>2. calls[v] >= calls[u] => calls'[v] >= calls[u]
      BY <2>1, <2>2
    <3> QED BY <1>1, <1>3, <3>1, <3>2, Zenon DEF Heard
  <2> QED BY <2>4, <2>5, Zenon
<1> QED BY <1>1, <1>4, <1>5, <1>6, <1>7, <1>8, Zenon DEF ThreadOK

\* A thread that is there is one of this turn, and the flags are set up.
LEMMA Working ==
  ASSUME IndInv, NEW t \in Threads, ~Idle(t)
  PROVE  /\ Types /\ Crew /\ Protocol /\ t \in Active /\ ThreadOK(t)
         /\ nthr \in Nat /\ nthr \in 2 .. NumThreads /\ run \in Runs
         /\ calls[t] \in Nat /\ round[t] \in Nat /\ tag[t] \in Nat /\ op[t] \in Nat
         /\ Rounds \in Nat /\ 0 < Rounds /\ Rounds <= NumThreads
<1>1. Types /\ Crew /\ (main[1] # "setup" => Protocol)
  BY Zenon DEF IndInv
<1>2. nthr \in Nat /\ ~(nthr <= t) /\ main[1] # "setup"
  BY <1>1, Constants DEF Crew, Types
<1>3. t \in Active
  BY <1>2 DEF Active, Threads
<1>4. ThreadOK(t)
  BY <1>1, <1>2, <1>3, Zenon DEF Protocol
<1>5. /\ nthr \in 2 .. NumThreads /\ run \in Runs
      /\ calls[t] \in Nat /\ round[t] \in Nat /\ tag[t] \in Nat /\ op[t] \in Nat
  BY <1>1, <1>3, ThreadTypes, Zenon
<1> QED BY <1>1, <1>2, <1>3, <1>4, <1>5, RoundsFacts, Zenon

\* A step of a thread that is there.
LEMMA ThreadStep ==
  ASSUME IndInv, NEW t \in Threads, ~Idle(t), Types',
         UNCHANGED mainVars, wrapped => wrapped',
         \A u \in Threads : u # t => pc'[u] = pc[u],
         \A u \in Active : u # t => Untouched(u),
         calls'[t] \in {calls[t], calls[t] + 1},
         ThreadOK(t)'
  PROVE  IndInv'
<1>1. Types /\ Crew /\ Protocol /\ t \in Active
  BY Working, Zenon
<1>2. run' = run /\ nthr' = nthr /\ main' = main
  BY Zenon DEF mainVars
<1>3. Crew'
  <2> SUFFICES ASSUME NEW u \in Threads, ~Idle(u)'
               PROVE  /\ ~(nthr <= u) /\ main[1] # "setup"
                      /\ ~(main[1] = "create" /\ main[2] <= u)
                      /\ ~(main[1] = "ack" /\ main[2] < u)
                      /\ ~(main[1] = "join" /\ u < main[2])
    BY <1>2, Zenon DEF Crew
  <2>1. ~Idle(u)
    BY Zenon DEF Idle
  <2> QED BY <1>1, <2>1, Zenon DEF Crew
<1>4. calls'[t] \in Nat /\ calls'[t] >= calls[t]
  <2>1. calls[t] \in Nat
    BY <1>1, Zenon DEF Types
  <2> QED BY <2>1
<1>5. Protocol'
  BY <1>1, <1>2, <1>4, Others, Zenon
<1> QED BY <1>3, <1>5, Zenon DEF IndInv

\* Between two barriers, or while it is created or ends, a thread touches no flag.
LEMMA OutStep ==
  ASSUME Types, Protocol, NEW t \in Active, run' = run, nthr' = nthr,
         UNCHANGED <<calls, round, notifyVars, mcsVars>>,
         \A u \in Active : u # t => pc'[u] = pc[u],
         pc'[t] = pc[t] \/ (Out(t) /\ Out(t)')
  PROVE  Protocol'
<1>1. /\ calls' = calls /\ round' = round /\ tag' = tag /\ op' = op /\ flag' = flag
      /\ wrapped' = wrapped /\ myflags' = myflags /\ parity' = parity /\ sense' = sense
  BY Zenon DEF notifyVars, mcsVars
<1>2. /\ Rounds' = Rounds /\ Active' = Active
      /\ \A k : McsIn(k)' = McsIn(k) /\ NotifyIn(k)' = NotifyIn(k)
      /\ \A u, v : Dist(u, v)' = Dist(u, v) /\ PartnerIn(u, v)' = PartnerIn(u, v)
  BY SameRun, Zenon
<1>3. \A u \in Active : u # t => Untouched(u)
  BY <1>1, Zenon DEF Untouched
<1>4. calls[t] \in Nat /\ calls'[t] \in Nat /\ calls'[t] >= calls[t]
  BY ThreadTypes
<1>5. ThreadOK(t)
  BY Zenon DEF Protocol
<1>6. CASE pc'[t] = pc[t]
  <2>1. /\ Out(t)' <=> Out(t)
        /\ Left(t)' = Left(t)
        /\ Kind(t)' = Kind(t)
        /\ \A k : In(t, k)' <=> In(t, k)
        /\ \A k, r : ToWrite(t, k, r)' <=> ToWrite(t, k, r)
    BY <1>6, SameThread, Zenon
  <2>2. Place(t)'
    BY <1>2, <1>5, <1>6, <2>1, Zenon DEF ThreadOK, Place
  <2>3. wrapped' \/ (Tags(t)' /\ Lines(t)')
    BY <1>1, <1>2, <1>5, <2>1, Zenon DEF ThreadOK, Tags, Lines
  <2>4. Senses(t)' /\ Flags(t)'
    BY <1>1, <1>2, <1>5, <2>1, Zenon DEF ThreadOK, Senses, Flags
  <2>5. \A u \in Active : Passed(t, u)' /\ Heard(t, u)'
    BY <1>1, <1>2, <1>5, <2>1, Zenon DEF ThreadOK, Passed, Heard
  <2>6. ThreadOK(t)'
    BY <1>2, <2>2, <2>3, <2>4, <2>5, Zenon DEF ThreadOK
  <2> QED BY <1>1, <1>3, <1>4, <2>6, Others, Zenon
<1>7. CASE Out(t) /\ Out(t)'
  <2>1. /\ Left(t)' = Left(t)
        /\ \A k : ~In(t, k)' /\ ~In(t, k)
        /\ \A k, r : ~ToWrite(t, k, r)' /\ ~ToWrite(t, k, r)
    BY <1>7, Zenon DEF Out, Left, In, ToWrite
  <2>2. Place(t)'
    BY <1>7, Zenon DEF Place, Out
  <2>3. wrapped' \/ (Tags(t)' /\ Lines(t)')
    BY <1>1, <1>2, <1>5, <2>1, Zenon DEF ThreadOK, Tags, Lines
  <2>4. Senses(t)' /\ Flags(t)'
    BY <1>1, <1>2, <1>5, <2>1, Zenon DEF ThreadOK, Senses, Flags
  <2>5. \A u \in Active : Passed(t, u)' /\ Heard(t, u)'
    BY <1>1, <1>2, <1>5, <2>1, Zenon DEF ThreadOK, Passed, Heard
  <2>6. ThreadOK(t)'
    BY <1>2, <2>2, <2>3, <2>4, <2>5, Zenon DEF ThreadOK
  <2> QED BY <1>1, <1>3, <1>4, <2>6, Others, Zenon
<1> QED BY <1>6, <1>7, Zenon

-----------------------------------------------------------------------------
(* The main thread.                                                        *)

\* The program starts in the invariant.
LEMMA InitInv == Init => IndInv
<1> SUFFICES ASSUME Init PROVE IndInv
  BY Zenon
<1> USE Constants DEF Init
<1>1. run \in Runs /\ nthr \in 2 .. NumThreads
  BY DEF Runs, run_diss, run_diss_tp, run_mcs, run_smlt, throughput
<1>2. main \in {"setup", "create", "ack", "release", "join", "end"} \X Nat
      /\ main[1] = "setup" /\ main[2] = 0
  BY Zenon
<1>3. Types
  <2>1. main[2] < nthr
    BY <1>1
  <2>2. /\ flag \in [0 .. MAXOPS - 1 -> [Threads -> [0 .. NumThreads -> Nat]]]
        /\ myflags \in [Threads -> [{0, 1} -> [0 .. NumThreads -> {0, 1}]]]
    BY Zenon
  <2> QED BY <1>1, <2>1, Zenon DEF Types
<1>4. Crew
  BY Zenon DEF Crew, Idle
<1> QED BY <1>3, <1>4, Zenon DEF IndInv

\* initSharedMemory, mcs_barrier_init and initThreads: nobody is there, and nobody
\* has called a barrier.
LEMMA SetupInv ==
  ASSUME IndInv, Setup
  PROVE  IndInv'
<1>1. Types /\ Crew
  BY Zenon DEF IndInv
<1>2. /\ run' = run /\ nthr' = nthr /\ pc' = pc /\ round' = round /\ op' = op
      /\ main = <<"setup", 0>> /\ main' = <<"create", 0>>
      /\ calls' = [t \in Threads |-> 0] /\ tag' = [t \in Threads |-> 2]
      /\ wrapped' = FALSE
      /\ parity' = [t \in Threads |-> 0] /\ sense' = [t \in Threads |-> 1]
      /\ flag' = [x \in 0 .. MAXOPS - 1 |-> [t \in Threads |-> [r \in 0 .. NumThreads |-> 0]]]
      /\ myflags' = [t \in Threads |-> [p \in {0, 1} |-> [r \in 0 .. NumThreads |-> 0]]]
  BY Zenon DEF Setup, initSharedMemory, mcs_barrier_init, initThreads
<1>3. nthr \in Nat /\ 1 < nthr /\ nthr \in 2 .. NumThreads /\ run \in Runs
  BY <1>1 DEF Types
<1>4. Types'
  <2>1. main' \in {"setup", "create", "ack", "release", "join", "end"} \X Nat
        /\ main'[2] = 0
    BY <1>2, Zenon
  <2>2. /\ flag' \in [0 .. MAXOPS - 1 -> [Threads -> [0 .. NumThreads -> Nat]]]
        /\ myflags' \in [Threads -> [{0, 1} -> [0 .. NumThreads -> {0, 1}]]]
    BY <1>2, Zenon
  <2> QED BY <1>1, <1>2, Zenon DEF Types
<1>5. \A t \in Threads : Idle(t) /\ Idle(t)' /\ Out(t)'
  BY <1>1, <1>2, Zenon DEF Crew, Idle, Out
<1>6. Crew'
  BY <1>5, Zenon DEF Crew
<1>7. /\ Rounds' = Rounds /\ Active' = Active
      /\ \A k : McsIn(k)' = McsIn(k) /\ NotifyIn(k)' = NotifyIn(k)
      /\ \A u, v : Dist(u, v)' = Dist(u, v) /\ PartnerIn(u, v)' = PartnerIn(u, v)
  BY <1>2, SameRun, Zenon
<1>8. /\ McsIn(0) = 0 /\ NotifyIn(0) = 0 /\ 0 - 0 = 0 /\ 0 >= 0
      /\ 0 % 2 = 0 /\ SenseAfter(0) = 1 /\ \A p \in {0, 1} : FlagAfter(p, 0) = 0
  BY DEF McsIn, NotifyIn, SenseAfter, FlagAfter
<1>9. Rounds \in Nat /\ Rounds <= NumThreads
  BY <1>3, RoundsFacts, Zenon
<1>10. ASSUME NEW t \in Active PROVE ThreadOK(t)'
  <2>1. /\ t \in Threads /\ Out(t)' /\ calls'[t] = 0 /\ Left(t)' = 0
        /\ \A k : ~In(t, k)'
        /\ \A k, r : ~ToWrite(t, k, r)'
    <3>1. t \in Threads
      BY <1>1, ThreadTypes, Zenon
    <3> QED BY <1>2, <1>5, <3>1, Zenon DEF Out, Left, In, ToWrite
  <2>2. Place(t)'
    BY <2>1, Zenon DEF Place, Out
  <2>3. Tags(t)'
    <3>1. NotifyIn(calls[t])' = 0
      BY <1>7, <1>8, <2>1, Zenon
    <3>2. tag'[t] = 2 + Rounds * 0
      BY <1>2, <1>9, <2>1
    <3> QED BY <1>7, <2>1, <3>1, <3>2, Zenon DEF Tags
  <2>4. Lines(t)'
    BY <1>2, <2>1, Zenon DEF Lines
  <2>5. McsIn(calls[t])' = 0 /\ McsIn(Left(t))' = 0
    BY <1>7, <1>8, <2>1, Zenon
  <2>6. Senses(t)'
    BY <1>2, <1>8, <2>1, <2>5, Zenon DEF Senses
  <2>7. Flags(t)'
    <3> SUFFICES ASSUME NEW r \in 0 .. Rounds - 1, NEW p \in {0, 1}
                 PROVE  myflags'[PartnerIn(t, r)][p][r] = FlagAfter(p, 0)
      BY <1>7, <1>8, <2>1, <2>5, Zenon DEF Flags
    <3>1. PartnerIn(t, r) \in Threads /\ r \in 0 .. NumThreads
      <4>1. r \in Nat /\ r < Rounds
        BY <1>9
      <4>2. PartnerIn(t, r) \in Active
        BY <1>3, <4>1, Partners, Zenon
      <4>3. r \in 0 .. NumThreads
        BY <1>9, <4>1, Constants
      <4> QED BY <1>1, <4>2, <4>3, ThreadTypes, Zenon
    <3> QED BY <1>2, <1>8, <3>1, Zenon
  <2>8. ASSUME NEW u \in Active PROVE Passed(t, u)' /\ Heard(t, u)'
    <3>1. u \in Threads
      BY <1>1, ThreadTypes, Zenon
    <3>2. calls'[u] = 0
      BY <1>2, <3>1, Zenon
    <3>3. McsIn(calls[u])' = 0
      BY <1>7, <1>8, <3>2, Zenon
    <3> QED BY <1>8, <2>1, <2>5, <3>2, <3>3, Zenon DEF Passed, Heard
  <2> QED BY <1>7, <2>2, <2>3, <2>4, <2>6, <2>7, <2>8, Zenon DEF ThreadOK
<1>11. Protocol'
  BY <1>7, <1>10, Zenon DEF Protocol
<1> QED BY <1>4, <1>6, <1>11, Zenon DEF IndInv

\* The main thread creates a thread that is not there.
LEMMA CreateInv ==
  ASSUME IndInv, NEW t \in Threads, Create(t)
  PROVE  IndInv'
<1>1. Types /\ Crew /\ (main[1] # "setup" => Protocol)
  BY Zenon DEF IndInv
<1>2. /\ main = <<"create", t>> /\ run' = run /\ nthr' = nthr
      /\ main' \in {<<"ack", t>>, <<"create", t + 1>>, <<"join", 0>>}
      /\ main' = <<"create", t + 1>> => t + 1 < nthr
      /\ pc' = [pc EXCEPT ![t] = "start"]
      /\ UNCHANGED <<calls, round, notifyVars, mcsVars>>
  BY DEF Create, MainStep, Goto
<1>3. t \in Nat /\ nthr \in Nat /\ 1 < nthr /\ t < nthr
  BY <1>1, <1>2 DEF Types, Threads
<1>4. Idle(t) /\ Out(t) /\ Out(t)'
  BY <1>1, <1>2, <1>3 DEF Crew, Idle, Out
<1>5. Types'
  <2>1. main' \in {"setup", "create", "ack", "release", "join", "end"} \X Nat
        /\ main'[2] < nthr
    BY <1>2, <1>3
  <2> QED BY <1>1, <1>2, <2>1, Zenon DEF Types, notifyVars, mcsVars
<1>6. Crew'
  <2> SUFFICES ASSUME NEW u \in Threads, ~Idle(u)'
               PROVE  /\ ~(nthr <= u) /\ main'[1] # "setup"
                      /\ ~(main'[1] = "create" /\ main'[2] <= u)
                      /\ ~(main'[1] = "ack" /\ main'[2] < u)
                      /\ ~(main'[1] = "join" /\ u < main'[2])
    BY <1>2, Zenon DEF Crew
  <2>1. CASE u = t
    BY <1>2, <1>3, <2>1
  <2>2. CASE u # t
    <3>1. ~Idle(u)
      BY <1>2, <2>2 DEF Idle
    <3>2. ~(nthr <= u) /\ ~(t <= u)
      BY <1>1, <1>2, <3>1, Zenon DEF Crew
    <3>3. u \in Nat
      BY DEF Threads
    <3> QED BY <1>2, <3>2, <3>3
  <2> QED BY <2>1, <2>2, Zenon
<1>7. Protocol'
  <2>1. Protocol /\ t \in Active
    BY <1>1, <1>2, <1>3 DEF Active
  <2>2. \A u \in Active : u # t => pc'[u] = pc[u]
    BY <1>1, <1>2, ThreadTypes, Zenon DEF Types
  <2> QED BY <1>1, <1>2, <1>4, <2>1, OutStep
<1> QED BY <1>5, <1>6, <1>7, Zenon DEF IndInv

\* A step of the main thread that leaves the threads and their number alone.
LEMMA MainInv ==
  ASSUME IndInv, Types', Crew', run' = run, nthr' = nthr, main[1] # "setup",
         UNCHANGED <<pc, calls, round, notifyVars, mcsVars>>
  PROVE  IndInv'
<1>1. Types /\ Protocol
  BY Zenon DEF IndInv
<1>2. 0 \in Active
  BY DEF Types, Active
<1>3. Protocol'
  BY <1>1, <1>2, OutStep, Zenon
<1> QED BY <1>3, Zenon DEF IndInv

\* The main thread sees the ack of the thread it has created last.
LEMMA AwaitAckInv ==
  ASSUME IndInv, NEW t \in Threads, AwaitAck(t)
  PROVE  IndInv'
<1>1. Types /\ Crew
  BY Zenon DEF IndInv
<1>2. /\ main = <<"ack", t>> /\ run' = run /\ nthr' = nthr
      /\ \/ main' = <<"create", t + 1>> /\ t + 1 < nthr
         \/ main' = <<"release", 0>>
      /\ UNCHANGED <<pc, calls, round, notifyVars, mcsVars>>
  BY Zenon DEF AwaitAck, MainStep
<1>3. t \in Nat /\ nthr \in Nat /\ 1 < nthr
  BY <1>1 DEF Types, Threads
<1>4. Types'
  <2>1. main' \in {"setup", "create", "ack", "release", "join", "end"} \X Nat
        /\ main'[2] < nthr
    BY <1>2, <1>3
  <2> QED BY <1>1, <1>2, <2>1, Zenon DEF Types, notifyVars, mcsVars
<1>5. Crew'
  <2> SUFFICES ASSUME NEW u \in Threads, ~Idle(u)
               PROVE  /\ ~(nthr <= u) /\ main'[1] # "setup"
                      /\ ~(main'[1] = "create" /\ main'[2] <= u)
                      /\ ~(main'[1] = "ack" /\ main'[2] < u)
                      /\ ~(main'[1] = "join" /\ u < main'[2])
    BY <1>2, Zenon DEF Crew, Idle
  <2>1. ~(nthr <= u) /\ ~(t < u) /\ u \in Nat
    BY <1>1, <1>2 DEF Crew, Threads
  <2> QED BY <1>2, <2>1
<1> QED BY <1>2, <1>4, <1>5, MainInv, Zenon

\* The main thread lets a thread go.
LEMMA LetGoInv ==
  ASSUME IndInv, NEW t \in Threads, LetGo(t)
  PROVE  IndInv'
<1>1. Types /\ Crew
  BY Zenon DEF IndInv
<1>2. /\ main = <<"release", t>> /\ run' = run /\ nthr' = nthr
      /\ \/ main' = <<"release", t + 1>> /\ t + 1 < nthr
         \/ main' = <<"join", 0>>
      /\ UNCHANGED <<pc, calls, round, notifyVars, mcsVars>>
  BY Zenon DEF LetGo, MainStep
<1>3. t \in Nat /\ nthr \in Nat /\ 1 < nthr
  BY <1>1 DEF Types, Threads
<1>4. Types'
  <2>1. main' \in {"setup", "create", "ack", "release", "join", "end"} \X Nat
        /\ main'[2] < nthr
    BY <1>2, <1>3
  <2> QED BY <1>1, <1>2, <2>1, Zenon DEF Types, notifyVars, mcsVars
<1>5. Crew'
  <2> SUFFICES ASSUME NEW u \in Threads, ~Idle(u)
               PROVE  /\ ~(nthr <= u) /\ main'[1] # "setup"
                      /\ ~(main'[1] = "create" /\ main'[2] <= u)
                      /\ ~(main'[1] = "ack" /\ main'[2] < u)
                      /\ ~(main'[1] = "join" /\ u < main'[2])
    BY <1>2, Zenon DEF Crew, Idle
  <2>1. ~(nthr <= u) /\ u \in Nat
    BY <1>1 DEF Crew, Threads
  <2> QED BY <1>2, <2>1
<1> QED BY <1>2, <1>4, <1>5, MainInv, Zenon

\* The main thread joins a thread that has ended; after the last one nobody is
\* there, and the next turn may set up the flags for one more.
LEMMA JoinInv ==
  ASSUME IndInv, NEW t \in Threads, Join(t)
  PROVE  IndInv'
<1>1. Types /\ Crew
  BY Zenon DEF IndInv
<1>2. /\ main = <<"join", t>> /\ run' = run /\ pc[t] = "end"
      /\ \/ main' = <<"join", t + 1>> /\ t + 1 < nthr /\ nthr' = nthr
         \/ main' = <<"end", 0>> /\ nthr' = nthr
         \/ main' = <<"setup", 0>> /\ nthr' = nthr + 1 /\ nthr < NumThreads /\ ~(t + 1 < nthr)
      /\ UNCHANGED <<pc, calls, round, notifyVars, mcsVars>>
  BY Zenon DEF Join, MainStep
<1>3. t \in Nat /\ nthr \in Nat /\ 1 < nthr /\ nthr <= NumThreads /\ NumThreads \in Nat
  BY <1>1, Constants DEF Types, Threads
<1>4. nthr' \in 2 .. NumThreads
  BY <1>2, <1>3
<1>5. Types'
  <2>1. main' \in {"setup", "create", "ack", "release", "join", "end"} \X Nat
        /\ main'[2] < nthr'
    BY <1>2, <1>3
  <2> QED BY <1>1, <1>2, <1>4, <2>1, Zenon DEF Types, notifyVars, mcsVars
<1>6. Crew'
  <2> SUFFICES ASSUME NEW u \in Threads, ~Idle(u)
               PROVE  /\ ~(nthr' <= u) /\ main'[1] # "setup"
                      /\ ~(main'[1] = "create" /\ main'[2] <= u)
                      /\ ~(main'[1] = "ack" /\ main'[2] < u)
                      /\ ~(main'[1] = "join" /\ u < main'[2])
    BY <1>2, Zenon DEF Crew, Idle
  <2>1. ~(nthr <= u) /\ ~(u < t) /\ u \in Nat /\ u # t
    BY <1>1, <1>2 DEF Crew, Threads, Idle
  <2> QED BY <1>2, <1>3, <2>1
<1>7. CASE main' = <<"setup", 0>>
  BY <1>5, <1>6, <1>7, Zenon DEF IndInv
<1>8. CASE nthr' = nthr
  BY <1>2, <1>5, <1>6, <1>8, MainInv, Zenon
<1> QED BY <1>2, <1>7, <1>8, Zenon

-----------------------------------------------------------------------------
(* The threads between two barriers.                                       *)

\* A thread says that it is there, is let go, and ends.
LEMMA OutsideInv ==
  ASSUME IndInv, NEW t \in Threads, Start(t) \/ Ready(t) \/ Finish(t)
  PROVE  IndInv'
<1>1. /\ pc[t] \in {"start", "ready", "run"}
      /\ \E label \in {"ready", "run", "end"} : pc' = [pc EXCEPT ![t] = label]
      /\ UNCHANGED <<mainVars, calls, round, notifyVars, mcsVars>>
  BY Zenon DEF Start, Ready, Finish, Goto
<1>2. ~Idle(t)
  BY <1>1, Zenon DEF Idle
<1>3. Types /\ Crew /\ Protocol /\ t \in Active
  BY <1>2, Working, Zenon
<1>4. run' = run /\ nthr' = nthr /\ main' = main
  BY <1>1, Zenon DEF mainVars
<1>5. Types'
  BY <1>1, <1>3, <1>4, Zenon DEF Types, notifyVars, mcsVars
<1>6. \A u \in Threads : u # t => pc'[u] = pc[u]
  BY <1>1, <1>3
<1>7. Crew'
  <2> SUFFICES ASSUME NEW u \in Threads, ~Idle(u)'
               PROVE  /\ ~(nthr <= u) /\ main[1] # "setup"
                      /\ ~(main[1] = "create" /\ main[2] <= u)
                      /\ ~(main[1] = "ack" /\ main[2] < u)
                      /\ ~(main[1] = "join" /\ u < main[2])
    BY <1>4, Zenon DEF Crew
  <2>1. ~Idle(u)
    BY <1>2, <1>6, Zenon DEF Idle
  <2> QED BY <1>3, <2>1, Zenon DEF Crew
<1>8. Protocol'
  <2>1. Out(t) /\ Out(t)'
    BY <1>1, <1>3, Zenon DEF Out, Types
  <2>2. \A u \in Active : u # t => pc'[u] = pc[u]
    BY <1>3, <1>6, ThreadTypes, Zenon
  <2> QED BY <1>1, <1>3, <1>4, <2>1, <2>2, OutStep, Zenon
<1> QED BY <1>5, <1>7, <1>8, Zenon DEF IndInv

\* A thread calls a barrier: it has heard from itself, and has to write all its
\* flags.
LEMMA CallOK ==
  ASSUME Types, Protocol, NEW t \in Active, NEW kind, NEW label, Call(t, kind, label),
         <<kind, label>> \in {<<"notify", "write">>, <<"mcs", "write">>, <<"smlt", "inside">>},
         wrapped => wrapped'
  PROVE  /\ run' = run /\ nthr' = nthr /\ main' = main
         /\ pc[t] = "run" /\ pc'[t] = label /\ pc' \in [Threads -> {"none", "start", "ready",
              "run", "write", "wait", "hung", "inside", "end"}]
         /\ calls' \in [Threads -> Nat] /\ calls'[t] = calls[t] + 1
         /\ round' \in [Threads -> Nat] /\ round'[t] = 0
         /\ \A u \in Threads : u # t => /\ pc'[u] = pc[u] /\ calls'[u] = calls[u]
                                        /\ round'[u] = round[u]
         /\ Kind(t)' = kind
         /\ NotifyIn(calls'[t]) = NotifyIn(calls[t]) + IF kind = "notify" THEN 1 ELSE 0
         /\ Place(t)' /\ Senses(t)' /\ Flags(t)'
         /\ \A u \in Active : Passed(t, u)' /\ Heard(t, u)'
<1>1. /\ t \in Threads /\ nthr \in Nat /\ nthr \in 2 .. NumThreads /\ run \in Runs
      /\ calls[t] \in Nat /\ ThreadOK(t)
  BY ThreadTypes, Zenon DEF Protocol
<1>2. /\ run' = run /\ nthr' = nthr /\ main' = main /\ pc[t] = "run" /\ NextKind(t) = kind
      /\ pc' = [pc EXCEPT ![t] = label]
      /\ calls' = [calls EXCEPT ![t] = @ + 1]
      /\ round' = [round EXCEPT ![t] = 0]
      /\ myflags' = myflags /\ parity' = parity /\ sense' = sense
  BY Zenon DEF Call, Goto, mainVars, mcsVars
<1>3. label \in {"write", "inside"} /\ (label = "inside" <=> kind = "smlt")
      /\ kind \in {"notify", "mcs", "smlt"}
  BY Zenon
<1>4. /\ pc' \in [Threads -> {"none", "start", "ready", "run", "write", "wait", "hung",
                              "inside", "end"}]
      /\ calls' \in [Threads -> Nat] /\ round' \in [Threads -> Nat]
      /\ pc'[t] = label /\ calls'[t] = calls[t] + 1 /\ round'[t] = 0
      /\ \A u \in Threads : u # t => /\ pc'[u] = pc[u] /\ calls'[u] = calls[u]
                                     /\ round'[u] = round[u]
  BY <1>1, <1>2 DEF Types
<1>5. /\ Rounds' = Rounds /\ Active' = Active
      /\ \A k : McsIn(k)' = McsIn(k) /\ NotifyIn(k)' = NotifyIn(k)
      /\ \A u, v : Dist(u, v)' = Dist(u, v) /\ PartnerIn(u, v)' = PartnerIn(u, v)
  BY <1>2, SameRun, Zenon
<1>6. Kind(t)' = kind /\ KindOf(calls[t] + 1) = kind
  <2>1. NextKind(t) = KindOf(calls[t] + 1)
    BY <1>1, Kinds, Zenon
  <2>2. Kind(t)' = NextKind(t)
    <3>1. (calls[t] + 1) - 1 = calls[t]
      BY <1>1
    <3> QED BY <1>2, <1>4, <3>1, Zenon DEF Kind, NextKind
  <2> QED BY <1>2, <2>1, <2>2, Zenon
<1>7. /\ McsIn(calls[t]) \in Nat
      /\ McsIn(calls'[t]) = McsIn(calls[t]) + IF kind = "mcs" THEN 1 ELSE 0
      /\ NotifyIn(calls'[t]) = NotifyIn(calls[t]) + IF kind = "notify" THEN 1 ELSE 0
      /\ McsIn(calls[t]) - 0 = McsIn(calls[t]) /\ McsIn(calls[t]) + 0 = McsIn(calls[t])
      /\ (McsIn(calls[t]) + 1) - 1 = McsIn(calls[t])
  <2>1. McsIn(calls[t]) \in Nat
    BY <1>1, Counts, Zenon
  <2>2. /\ McsIn(calls[t] + 1) = McsIn(calls[t]) + IF kind = "mcs" THEN 1 ELSE 0
        /\ NotifyIn(calls[t] + 1) = NotifyIn(calls[t]) + IF kind = "notify" THEN 1 ELSE 0
    <3>1. /\ McsIn(calls[t] + 1)
               = McsIn(calls[t]) + IF KindOf(calls[t] + 1) = "mcs" THEN 1 ELSE 0
          /\ NotifyIn(calls[t] + 1)
               = NotifyIn(calls[t]) + IF KindOf(calls[t] + 1) = "notify" THEN 1 ELSE 0
      BY <1>1, Counts, Zenon
    <3> QED BY <1>6, <3>1, Zenon
  <2>3. calls'[t] = calls[t] + 1
    BY <1>4, Zenon
  <2> QED BY <2>1, <2>2, <2>3, Steps, Zenon
<1>8. /\ Out(t) /\ ~Out(t)' /\ Left(t) = calls[t] /\ Left(t)' = calls[t]
  BY <1>1, <1>2, <1>4 DEF Out, Left
<1>9. /\ ~In(t, "mcs")
      /\ In(t, "mcs")' <=> kind = "mcs"
      /\ \A r : ~ToWrite(t, "mcs", r)
      /\ \A r \in Nat : ToWrite(t, "mcs", r)' <=> kind = "mcs"
  <2>1. \A r \in Nat : 0 < r \/ 0 = r
    OBVIOUS
  <2> QED BY <1>2, <1>3, <1>4, <1>6, <2>1, Zenon DEF In, ToWrite
<1>10. Rounds \in Nat
  BY <1>1, RoundsFacts, Zenon
<1>11. Place(t)'
  <2>1. calls[t] + 1 > 0
    BY <1>1
  <2>2. 0 <= Rounds
    BY <1>10
  <2> QED BY <1>3, <1>4, <1>5, <1>6, <2>1, <2>2, Zenon DEF Place
<1>12. McsIn(calls[t])' - (IF In(t, "mcs")' THEN 1 ELSE 0) = McsIn(calls[t])
  BY <1>5, <1>7, <1>9, Zenon
<1>13. Senses(t)'
  <2>1. parity[t] = McsIn(calls[t]) % 2 /\ sense[t] = SenseAfter(McsIn(calls[t]))
    <3>1. McsIn(calls[t]) - (IF In(t, "mcs") THEN 1 ELSE 0) = McsIn(calls[t])
      BY <1>7, <1>9, Zenon
    <3>2. Senses(t)
      BY <1>1, Zenon DEF ThreadOK
    <3> QED BY <3>1, <3>2, Zenon DEF Senses
  <2> QED BY <1>2, <1>12, <2>1, Zenon DEF Senses
<1>14. Flags(t)'
  <2> SUFFICES ASSUME NEW r \in 0 .. Rounds - 1, NEW p \in {0, 1}
               PROVE  myflags[PartnerIn(t, r)][p][r] =
                        FlagAfter(p, McsIn(calls[t])' - IF ToWrite(t, "mcs", r)' THEN 1 ELSE 0)
    BY <1>2, <1>5, Zenon DEF Flags
  <2>1. r \in Nat
    BY <1>10
  <2>2. /\ McsIn(calls[t])' - (IF ToWrite(t, "mcs", r)' THEN 1 ELSE 0) = McsIn(calls[t])
        /\ McsIn(calls[t]) - (IF ToWrite(t, "mcs", r) THEN 1 ELSE 0) = McsIn(calls[t])
    BY <1>5, <1>7, <1>9, <2>1, Zenon
  <2>3. Flags(t)
    BY <1>1, Zenon DEF ThreadOK
  <2> QED BY <2>2, <2>3, Zenon DEF Flags
<1>15. ASSUME NEW u \in Active PROVE Passed(t, u)' /\ Heard(t, u)'
  <2>1. u \in Threads /\ calls[u] \in Nat
    BY ThreadTypes, Zenon
  <2>2. calls'[u] \in Nat /\ calls'[u] >= calls[u]
    BY <1>4, <2>1
  <2>3. /\ McsIn(calls[u]) \in Nat /\ McsIn(calls'[u]) \in Nat
        /\ McsIn(calls[u]) <= McsIn(calls'[u])
    BY <1>1, <2>1, <2>2, Counts, CountsGrow, Zenon
  <2>4. Passed(t, u)
    BY <1>1, Zenon DEF ThreadOK
  <2>5. McsIn(calls[u])' = McsIn(calls'[u]) /\ McsIn(Left(t))' = McsIn(calls[t])
    BY <1>5, <1>8, Zenon
  <2>6. Passed(t, u)'
    <3>1. McsIn(calls[u]) >= McsIn(calls[t]) /\ (wrapped \/ calls[u] >= calls[t])
      BY <1>8, <2>4, Zenon DEF Passed
    <3>2. McsIn(calls'[u]) >= McsIn(calls[t])
      BY <1>7, <2>3, <3>1
    <3>3. calls[u] >= calls[t] => calls'[u] >= calls[t]
      BY <1>1, <2>1, <2>2
    <3> QED BY <1>8, <2>5, <3>1, <3>2, <3>3, Zenon DEF Passed
  <2>7. Heard(t, u)'
    <3>1. StepIn[round'[t]] = 1
      BY <1>4, StepInDoubles, Zenon
    <3>2. Dist(u, t)' < 1 => u = t
      BY <1>1, <1>5, DistType, Zenon
    <3>3. calls'[t] >= calls'[t]
      BY <1>1, <1>4
    <3> QED BY <3>1, <3>2, <3>3, Zenon DEF Heard
  <2> QED BY <2>6, <2>7, Zenon
<1> QED BY <1>2, <1>4, <1>6, <1>7, <1>11, <1>13, <1>14, <1>15, Zenon

\* A thread calls barrier(), and takes the tag.
LEMMA EnterNotifyInv ==
  ASSUME IndInv, NEW t \in Threads, EnterNotify(t)
  PROVE  IndInv'
<1>1. /\ Call(t, "notify", "write") /\ pc[t] = "run"
      /\ op' = [op EXCEPT ![t] = tag[t]]
      /\ tag' = [tag EXCEPT ![t] = IF @ < INT_MAX THEN @ + Rounds ELSE 2]
      /\ wrapped' = (wrapped \/ tag[t] >= INT_MAX)
      /\ flag' = flag
  BY Zenon DEF EnterNotify, Call
<1>2. ~Idle(t)
  BY <1>1, Zenon DEF Idle
<1>3. /\ Types /\ Protocol /\ t \in Active /\ ThreadOK(t)
      /\ nthr \in 2 .. NumThreads /\ run \in Runs /\ calls[t] \in Nat /\ tag[t] \in Nat
      /\ Rounds \in Nat
  BY <1>2, Working, Zenon
<1>4. /\ run' = run /\ nthr' = nthr /\ main' = main
      /\ pc'[t] = "write" /\ pc' \in [Threads -> {"none", "start", "ready",
           "run", "write", "wait", "hung", "inside", "end"}]
      /\ calls' \in [Threads -> Nat] /\ calls'[t] = calls[t] + 1
      /\ round' \in [Threads -> Nat] /\ round'[t] = 0
      /\ \A u \in Threads : u # t => /\ pc'[u] = pc[u] /\ calls'[u] = calls[u]
                                     /\ round'[u] = round[u]
      /\ Kind(t)' = "notify"
      /\ NotifyIn(calls'[t]) = NotifyIn(calls[t]) + 1
      /\ Place(t)' /\ Senses(t)' /\ Flags(t)'
      /\ \A u \in Active : Passed(t, u)' /\ Heard(t, u)'
  BY <1>1, <1>3, CallOK, Zenon
<1>5. UNCHANGED mainVars /\ myflags' = myflags /\ parity' = parity /\ sense' = sense
  BY <1>1, Zenon DEF Call, mcsVars
<1>6. Types'
  <2>1. (IF tag[t] < INT_MAX THEN tag[t] + Rounds ELSE 2) \in Nat
    BY <1>3
  <2>2. op' \in [Threads -> Nat] /\ tag' \in [Threads -> Nat] /\ wrapped' \in BOOLEAN
    BY <1>1, <1>3, <2>1, Zenon DEF Types
  <2> QED BY <1>1, <1>3, <1>4, <1>5, <2>2, Zenon DEF Types
<1>7. \A u \in Active : u # t => Untouched(u)
  <2>1. \A u \in Active : u \in Threads
    BY <1>3, ThreadTypes, Zenon
  <2>2. \A u \in Threads : u # t => tag'[u] = tag[u] /\ op'[u] = op[u]
    BY <1>1, <1>3, Zenon DEF Types
  <2> QED BY <1>1, <1>4, <1>5, <2>1, <2>2, Zenon DEF Untouched
<1>8. Rounds' = Rounds /\ Active' = Active /\ \A k : NotifyIn(k)' = NotifyIn(k)
  BY <1>4, SameRun, Zenon
<1>9. ASSUME ~wrapped' PROVE Tags(t)' /\ Lines(t)'
  <2>1. ~wrapped /\ tag[t] < INT_MAX /\ Tags(t) /\ Lines(t)
    <3>1. ~wrapped /\ ~(tag[t] >= INT_MAX)
      BY <1>1, <1>9, Zenon
    <3> QED BY <1>3, <3>1, Constants DEF ThreadOK
  <2>2. tag'[t] = tag[t] + Rounds /\ op'[t] = tag[t]
    BY <1>1, <1>3, <2>1, Zenon DEF Types
  <2>3. NotifyIn(calls[t]) \in Nat
    BY <1>3, Counts, Zenon
  <2>4. Tags(t)'
    <3>1. PICK n \in Nat : n = NotifyIn(calls[t])
      BY <2>3, Zenon
    <3>2. tag[t] = 2 + Rounds * n
      BY <2>1, <3>1, Zenon DEF Tags
    <3>3. NotifyIn(calls[t])' = n + 1
      BY <1>4, <1>8, <3>1, Zenon
    <3>4. tag'[t] = 2 + Rounds * (n + 1)
      BY <1>3, <2>2, <3>2
    <3> QED BY <1>8, <2>2, <3>3, <3>4, Zenon DEF Tags
  <2>5. Lines(t)'
    <3> SUFFICES ASSUME NEW x \in 0 .. MAXOPS - 1, NEW r \in 0 .. NumThreads
                 PROVE  \/ flag[x][t][r] = 0
                        \/ flag[x][t][r] + Rounds <=
                             r + IF ToWrite(t, "notify", r)' THEN op'[t] ELSE tag'[t]
      BY <1>1, <1>8, Zenon DEF Lines
    <3>1. ToWrite(t, "notify", r)' /\ ~ToWrite(t, "notify", r)
      <4>1. 0 < r \/ 0 = r
        BY Constants
      <4> QED BY <1>1, <1>4, <4>1, Zenon DEF ToWrite, In
    <3> QED BY <2>1, <2>2, <3>1, Zenon DEF Lines
  <2> QED BY <2>4, <2>5, Zenon
<1>10. ThreadOK(t)'
  BY <1>4, <1>8, <1>9, Zenon DEF ThreadOK
<1>11. wrapped => wrapped'
  BY <1>1, Zenon
<1>12. calls'[t] \in {calls[t], calls[t] + 1}
  BY <1>4, Zenon
<1> QED BY <1>2, <1>4, <1>5, <1>6, <1>7, <1>10, <1>11, ThreadStep, Zenon

\* A thread calls mcs_barrier_wait() or the barrier of Smelt.
LEMMA EnterOtherInv ==
  ASSUME IndInv, NEW t \in Threads, EnterMcs(t) \/ EnterSmlt(t)
  PROVE  IndInv'
<1>1. PICK kind, label :
        /\ <<kind, label>> \in {<<"mcs", "write">>, <<"smlt", "inside">>}
        /\ Call(t, kind, label) /\ pc[t] = "run" /\ UNCHANGED notifyVars
  BY DEF EnterMcs, EnterSmlt, Call
<1>2. ~Idle(t)
  BY <1>1, Zenon DEF Idle
<1>3. /\ Types /\ Protocol /\ t \in Active /\ ThreadOK(t)
      /\ nthr \in 2 .. NumThreads /\ run \in Runs /\ calls[t] \in Nat /\ tag[t] \in Nat
      /\ Rounds \in Nat
  BY <1>2, Working, Zenon
<1>4. /\ kind \in {"mcs", "smlt"}
      /\ <<kind, label>> \in {<<"notify", "write">>, <<"mcs", "write">>, <<"smlt", "inside">>}
      /\ tag' = tag /\ op' = op /\ flag' = flag /\ wrapped' = wrapped
  BY <1>1, Zenon DEF notifyVars
<1>5. /\ run' = run /\ nthr' = nthr /\ main' = main
      /\ pc' \in [Threads -> {"none", "start", "ready",
           "run", "write", "wait", "hung", "inside", "end"}]
      /\ calls' \in [Threads -> Nat] /\ calls'[t] = calls[t] + 1
      /\ round' \in [Threads -> Nat] /\ round'[t] = 0
      /\ \A u \in Threads : u # t => /\ pc'[u] = pc[u] /\ calls'[u] = calls[u]
                                     /\ round'[u] = round[u]
      /\ Kind(t)' = kind
      /\ NotifyIn(calls'[t]) = NotifyIn(calls[t]) + IF kind = "notify" THEN 1 ELSE 0
      /\ Place(t)' /\ Senses(t)' /\ Flags(t)'
      /\ \A u \in Active : Passed(t, u)' /\ Heard(t, u)'
  BY <1>1, <1>3, <1>4, CallOK, Zenon
<1>6. UNCHANGED mainVars /\ myflags' = myflags /\ parity' = parity /\ sense' = sense
  BY <1>1, Zenon DEF Call, mcsVars
<1>7. Types'
  BY <1>3, <1>4, <1>5, <1>6, Zenon DEF Types
<1>8. \A u \in Active : u # t => Untouched(u)
  <2>1. \A u \in Active : u \in Threads
    BY <1>3, ThreadTypes, Zenon
  <2> QED BY <1>4, <1>5, <1>6, <2>1, Zenon DEF Untouched
<1>9. Rounds' = Rounds /\ Active' = Active /\ \A k : NotifyIn(k)' = NotifyIn(k)
  BY <1>5, SameRun, Zenon
<1>10. ASSUME ~wrapped' PROVE Tags(t)' /\ Lines(t)'
  <2>1. Tags(t) /\ Lines(t)
    BY <1>3, <1>4, <1>10, Zenon DEF ThreadOK
  <2>2. /\ ~In(t, "notify")' /\ \A r : ~ToWrite(t, "notify", r)' /\ ~ToWrite(t, "notify", r)
    BY <1>1, <1>5, Zenon DEF In, ToWrite
  <2>3. NotifyIn(calls[t])' = NotifyIn(calls[t])
    <3>1. NotifyIn(calls[t]) \in Nat
      BY <1>3, Counts, Zenon
    <3> QED BY <1>4, <1>5, <1>9, <3>1, Steps, Zenon
  <2>4. Tags(t)'
    BY <1>4, <1>9, <2>1, <2>2, <2>3, Zenon DEF Tags
  <2>5. Lines(t)'
    BY <1>4, <1>9, <2>1, <2>2, Zenon DEF Lines
  <2> QED BY <2>4, <2>5, Zenon
<1>11. ThreadOK(t)'
  BY <1>5, <1>9, <1>10, Zenon DEF ThreadOK
<1>12. calls'[t] \in {calls[t], calls[t] + 1} /\ (wrapped => wrapped')
  BY <1>4, <1>5, Zenon
<1> QED BY <1>2, <1>5, <1>6, <1>7, <1>8, <1>11, <1>12, ThreadStep, Zenon

-----------------------------------------------------------------------------
(* The threads in a barrier.                                               *)

\* A thread writes its flag of this round: one it has written is the tag, and
\* those it has yet to write say what they said.
LEMMA WriteFlagInv ==
  ASSUME IndInv, NEW t \in Threads, WriteFlag(t)
  PROVE  IndInv'
<1>1. /\ pc[t] = "write" /\ Kind(t) = "notify" /\ round[t] < Rounds
      /\ flag' = [flag EXCEPT ![Index(t)][t][round[t]] = op[t] + round[t]]
      /\ pc' = [pc EXCEPT ![t] = "wait"]
      /\ UNCHANGED mainVars /\ run' = run /\ nthr' = nthr /\ main' = main
      /\ calls' = calls /\ round' = round /\ tag' = tag /\ op' = op
      /\ wrapped' = wrapped /\ myflags' = myflags /\ parity' = parity
      /\ sense' = sense
  BY Zenon DEF WriteFlag, Goto, mainVars, mcsVars
<1>2. ~Idle(t)
  BY <1>1, Zenon DEF Idle
<1>3. /\ Types /\ Protocol /\ t \in Active /\ ThreadOK(t)
      /\ calls[t] \in Nat /\ round[t] \in Nat /\ tag[t] \in Nat /\ op[t] \in Nat
      /\ Rounds \in Nat /\ Rounds <= NumThreads
  BY <1>2, Working, Zenon
<1>4. pc'[t] = "wait" /\ \A u \in Threads : u # t => pc'[u] = pc[u]
  BY <1>1, <1>3, Zenon DEF Types
<1>5. /\ Rounds' = Rounds /\ Active' = Active
      /\ \A k : McsIn(k)' = McsIn(k) /\ NotifyIn(k)' = NotifyIn(k)
      /\ \A u, v : Dist(u, v)' = Dist(u, v) /\ PartnerIn(u, v)' = PartnerIn(u, v)
  BY <1>1, SameRun, Zenon
<1>6. /\ \A x \in 0 .. MAXOPS - 1, u \in Threads, r \in 0 .. NumThreads :
           flag'[x][u][r] = IF x = Index(t) /\ u = t /\ r = round[t] THEN op[t] + round[t]
                            ELSE flag[x][u][r]
      /\ flag' \in [0 .. MAXOPS - 1 -> [Threads -> [0 .. NumThreads -> Nat]]]
  <2>1. flag \in [0 .. MAXOPS - 1 -> [Threads -> [0 .. NumThreads -> Nat]]]
    BY <1>3, Zenon DEF Types
  <2>2. op[t] + round[t] \in Nat
    BY <1>3
  <2> QED BY <1>1, <2>1, <2>2, Zenon
<1>7. Types'
  BY <1>1, <1>3, <1>6, Zenon DEF Types
<1>8. \A u \in Active : u # t => Untouched(u)
  <2>1. \A u \in Active : u \in Threads
    BY <1>3, ThreadTypes, Zenon
  <2> QED BY <1>1, <1>4, <1>6, <2>1, Zenon DEF Untouched
<1>9. Kind(t)' = Kind(t)
  BY <1>1, Zenon DEF Kind
<1>10. /\ ~Out(t) /\ ~Out(t)' /\ Left(t)' = Left(t)
       /\ \A k : In(t, k)' <=> In(t, k)
       /\ \A r : ~ToWrite(t, "mcs", r)' /\ ~ToWrite(t, "mcs", r)
       /\ \A r \in Nat : ToWrite(t, "notify", r)' <=> round[t] < r
       /\ \A r \in Nat : ToWrite(t, "notify", r) <=> round[t] <= r
       /\ In(t, "notify")
  <2>1. \A r \in Nat : (round[t] < r \/ round[t] = r) <=> round[t] <= r
    BY <1>3, Order, Zenon
  <2> QED BY <1>1, <1>4, <1>9, <2>1, Zenon DEF Out, Left, In, ToWrite
<1>11. Place(t)'
  BY <1>1, <1>3, <1>4, <1>5, <1>9, <1>10, Zenon DEF ThreadOK, Place
<1>12. ASSUME ~wrapped' PROVE Tags(t)' /\ Lines(t)'
  <2>1. Tags(t) /\ Lines(t) /\ op[t] + Rounds = tag[t]
    BY <1>1, <1>3, <1>10, <1>12, Zenon DEF ThreadOK, Tags
  <2>2. Tags(t)'
    BY <1>1, <1>5, <2>1, Zenon DEF Tags
  <2>3. Lines(t)'
    <3> SUFFICES ASSUME NEW x \in 0 .. MAXOPS - 1, NEW r \in 0 .. NumThreads
                 PROVE  \/ flag'[x][t][r] = 0
                        \/ flag'[x][t][r] + Rounds <=
                             r + IF ToWrite(t, "notify", r)' THEN op[t] ELSE tag[t]
      BY <1>1, <1>5, Zenon DEF Lines
    <3>1. r \in Nat
      BY Constants
    <3>2. flag[x][t][r] \in Nat
      <4>1. flag \in [0 .. MAXOPS - 1 -> [Threads -> [0 .. NumThreads -> Nat]]]
        BY <1>3, Zenon DEF Types
      <4>2. flag[x] \in [Threads -> [0 .. NumThreads -> Nat]]
        BY <4>1, Zenon
      <4>3. flag[x][t] \in [0 .. NumThreads -> Nat]
        BY <4>2, Zenon
      <4> QED BY <4>3, Zenon
    <3>3. \/ flag[x][t][r] = 0
          \/ flag[x][t][r] + Rounds <= r + IF ToWrite(t, "notify", r) THEN op[t] ELSE tag[t]
      BY <2>1, Zenon DEF Lines
    <3>4. flag'[x][t][r] = IF x = Index(t) /\ r = round[t] THEN op[t] + round[t]
                           ELSE flag[x][t][r]
      BY <1>6, Zenon
    <3>5. CASE x = Index(t) /\ r = round[t]
      <4>1. ~(round[t] < r) /\ (op[t] + round[t]) + Rounds <= r + tag[t]
        BY <1>3, <2>1, <3>5
      <4> QED BY <1>10, <3>1, <3>4, <3>5, <4>1, Zenon
    <3>6. CASE ~(x = Index(t) /\ r = round[t])
      <4>1. op[t] <= tag[t] /\ (round[t] < r => round[t] <= r)
        BY <1>3, <2>1, <3>1
      <4>2. flag[x][t][r] = 0 \/ flag[x][t][r] + Rounds <= r + tag[t]
        BY <1>3, <3>1, <3>2, <3>3, <4>1
      <4> QED BY <1>10, <3>1, <3>3, <3>4, <3>6, <4>1, <4>2, Zenon
    <3> QED BY <3>5, <3>6, Zenon
  <2> QED BY <2>2, <2>3, Zenon
<1>13. Senses(t)' /\ Flags(t)'
  BY <1>1, <1>3, <1>5, <1>10, Zenon DEF ThreadOK, Senses, Flags
<1>14. \A u \in Active : Passed(t, u)' /\ Heard(t, u)'
  BY <1>1, <1>3, <1>5, <1>10, Zenon DEF ThreadOK, Passed, Heard
<1>15. ThreadOK(t)'
  BY <1>5, <1>11, <1>12, <1>13, <1>14, Zenon DEF ThreadOK
<1>16. calls'[t] \in {calls[t], calls[t] + 1} /\ (wrapped => wrapped')
  BY <1>1, Zenon
<1> QED BY <1>1, <1>2, <1>4, <1>7, <1>8, <1>15, ThreadStep, Zenon

\* A thread of a build with -O3 that has looked too early waits for ever.
LEMMA ReadOnceInv ==
  ASSUME IndInv, NEW t \in Threads, ReadOnce(t)
  PROVE  IndInv'
<1>1. /\ pc[t] = "wait" /\ pc' = [pc EXCEPT ![t] = "hung"]
      /\ UNCHANGED mainVars /\ run' = run /\ nthr' = nthr /\ main' = main
      /\ calls' = calls /\ round' = round /\ tag' = tag /\ op' = op /\ flag' = flag
      /\ wrapped' = wrapped /\ myflags' = myflags /\ parity' = parity
      /\ sense' = sense
  BY Zenon DEF ReadOnce, Goto, mainVars, notifyVars, mcsVars
<1>2. ~Idle(t)
  BY <1>1, Zenon DEF Idle
<1>3. Types /\ Protocol /\ t \in Active /\ ThreadOK(t) /\ calls[t] \in Nat
  BY <1>2, Working, Zenon
<1>4. pc'[t] = "hung" /\ \A u \in Threads : u # t => pc'[u] = pc[u]
  BY <1>1, <1>3, Zenon DEF Types
<1>5. /\ Rounds' = Rounds /\ Active' = Active
      /\ \A k : McsIn(k)' = McsIn(k) /\ NotifyIn(k)' = NotifyIn(k)
      /\ \A u, v : Dist(u, v)' = Dist(u, v) /\ PartnerIn(u, v)' = PartnerIn(u, v)
  BY <1>1, SameRun, Zenon
<1>6. Types'
  BY <1>1, <1>3, Zenon DEF Types
<1>7. \A u \in Active : u # t => Untouched(u)
  <2>1. \A u \in Active : u \in Threads
    BY <1>3, ThreadTypes, Zenon
  <2> QED BY <1>1, <1>4, <2>1, Zenon DEF Untouched
<1>8. Kind(t)' = Kind(t)
  BY <1>1, Zenon DEF Kind
<1>9. /\ ~Out(t) /\ ~Out(t)' /\ Left(t)' = Left(t)
      /\ \A k : In(t, k)' <=> In(t, k)
      /\ \A k, r : ToWrite(t, k, r)' <=> ToWrite(t, k, r)
  BY <1>1, <1>4, <1>8, Zenon DEF Out, Left, In, ToWrite
<1>10. Place(t)'
  BY <1>1, <1>3, <1>4, <1>5, <1>8, <1>9, Zenon DEF ThreadOK, Place
<1>11. wrapped' \/ (Tags(t)' /\ Lines(t)')
  BY <1>1, <1>3, <1>5, <1>9, Zenon DEF ThreadOK, Tags, Lines
<1>12. Senses(t)' /\ Flags(t)'
  BY <1>1, <1>3, <1>5, <1>9, Zenon DEF ThreadOK, Senses, Flags
<1>13. \A u \in Active : Passed(t, u)' /\ Heard(t, u)'
  BY <1>1, <1>3, <1>5, <1>9, Zenon DEF ThreadOK, Passed, Heard
<1>14. ThreadOK(t)'
  BY <1>5, <1>10, <1>11, <1>12, <1>13, Zenon DEF ThreadOK
<1>15. calls'[t] \in {calls[t], calls[t] + 1} /\ (wrapped => wrapped')
  BY <1>1, Zenon
<1> QED BY <1>1, <1>2, <1>4, <1>6, <1>7, <1>14, ThreadStep, Zenon

\* A thread in its w+1-st mcs_barrier_wait() has left w of them.
LEMMA InMcs ==
  ASSUME Types, NEW t \in Active, ThreadOK(t), In(t, "mcs")
  PROVE  \E w \in Nat : /\ McsIn(calls[t]) = w + 1 /\ McsIn(Left(t)) = w
                        /\ parity[t] = w % 2 /\ sense[t] = SenseAfter(w)
<1>1. calls[t] \in Nat /\ run \in Runs
  BY ThreadTypes, Zenon
<1>2. pc[t] \in {"write", "wait", "hung"} /\ Kind(t) = "mcs" /\ ~Out(t) /\ calls[t] > 0
  BY Zenon DEF In, Out, ThreadOK, Place
<1>3. KindOf(calls[t]) = "mcs"
  BY <1>1, <1>2, Kinds, Zenon
<1>4. calls[t] - 1 \in Nat /\ (calls[t] - 1) + 1 = calls[t] /\ Left(t) = calls[t] - 1
  BY <1>1, <1>2 DEF Left
<1>5. McsIn(calls[t] - 1) \in Nat /\ McsIn(calls[t]) = McsIn(calls[t] - 1) + 1
  BY <1>1, <1>3, <1>4, Counts, Zenon
<1>6. McsIn(calls[t]) - 1 = McsIn(calls[t] - 1)
  BY <1>5
<1>7. Senses(t)
  BY Zenon DEF ThreadOK
<1>8. parity[t] = McsIn(calls[t] - 1) % 2 /\ sense[t] = SenseAfter(McsIn(calls[t] - 1))
  BY <1>6, <1>7, Zenon DEF Senses
<1> QED BY <1>4, <1>5, <1>8, Zenon

\* If the thread that t waits for in this round has come as far, so have those
\* that one had heard from: t has now heard from twice as many.
LEMMA RoundDone ==
  ASSUME Types, Protocol, NEW t \in Active, NEW p \in Active, NEW u \in Active,
         pc[t] = "wait",
         In(t, "mcs") \/ (In(t, "notify") /\ ~wrapped),
         Dist(p, t) = StepIn[round[t]],
         calls[p] >= calls[t],
         calls[p] = calls[t] => ~ToWrite(p, Kind(t), round[t]),
         Dist(u, t) < StepIn[round[t] + 1]
  PROVE  calls[u] >= calls[t]
<1>1. /\ nthr \in Nat /\ run \in Runs /\ ThreadOK(t) /\ ThreadOK(p)
      /\ calls[t] \in Nat /\ calls[p] \in Nat /\ calls[u] \in Nat
      /\ round[t] \in Nat /\ round[p] \in Nat
      /\ Left(p) \in Int /\ Left(p) <= calls[p] /\ calls[p] <= Left(p) + 1
  BY ThreadTypes, Zenon DEF Protocol
<1>2. /\ Kind(t) \in {"mcs", "notify"} /\ (Kind(t) = "mcs" <=> In(t, "mcs"))
      /\ (Kind(t) = "notify" => ~wrapped)
  BY Zenon DEF In
<1>3. calls[t] > 0
  BY <1>1, Zenon DEF ThreadOK, Place, Out
<1>4. Dist(u, t) < Dist(p, t) \/ Dist(u, p) < Dist(p, t)
  <2>1. StepIn[round[t] + 1] = StepIn[round[t]] * 2
    BY <1>1, StepInDoubles, Zenon
  <2> QED BY <1>1, <2>1, Halves, Zenon
<1>5. CASE Dist(u, t) < Dist(p, t)
  BY <1>1, <1>5, Zenon DEF ThreadOK, Heard
<1>6. CASE Dist(u, p) < Dist(p, t) /\ Left(p) >= calls[t]
  <2>1. Passed(p, u)
    BY <1>1, Zenon DEF ThreadOK
  <2>2. CASE Kind(t) = "mcs"
    <3>1. /\ McsIn(calls[t]) <= McsIn(Left(p)) /\ McsIn(calls[t]) \in Nat
          /\ McsIn(Left(p)) \in Nat /\ McsIn(calls[u]) \in Nat
      <4>1. Left(p) \in Nat
        BY <1>1, <1>6
      <4> QED BY <1>1, <1>6, <4>1, CountsGrow, Counts, Zenon
    <3>2. McsIn(calls[t]) <= McsIn(calls[u])
      BY <2>1, <3>1 DEF Passed
    <3>3. KindOf(calls[t]) = "mcs"
      BY <1>1, <2>2, Kinds, Zenon
    <3> QED BY <1>1, <3>2, <3>3, CountsOrder
  <2>3. CASE Kind(t) = "notify"
    BY <1>1, <1>2, <1>6, <2>1, <2>3 DEF Passed
  <2> QED BY <1>2, <2>2, <2>3, Zenon
<1>7. CASE Dist(u, p) < Dist(p, t) /\ Left(p) < calls[t]
  <2>1. calls[p] = calls[t] /\ ~Out(p)
    BY <1>1, <1>7 DEF Left
  <2>2. Kind(p) = Kind(t)
    BY <2>1, Zenon DEF Kind
  <2>3. pc[p] \in {"write", "wait", "hung"}
    <3>1. pc[p] \in {"none", "start", "ready", "run", "write", "wait", "hung",
                     "inside", "end"}
      BY ThreadTypes, Zenon DEF Types
    <3>2. pc[p] # "inside"
      BY <1>1, <2>2, Zenon DEF ThreadOK, Place
    <3> QED BY <2>1, <3>1, <3>2, Zenon DEF Out
  <2>4. In(p, Kind(t)) /\ (In(p, "mcs") \/ (In(p, "notify") /\ ~wrapped))
    BY <2>2, <2>3, Zenon DEF In
  <2>5. round[t] <= round[p]
    BY <1>1, <2>1, <2>4 DEF ToWrite
  <2>6. StepIn[round[t]] <= StepIn[round[p]] /\ StepIn[round[t]] \in Nat
        /\ StepIn[round[p]] \in Nat /\ Dist(u, p) \in Nat
    BY <1>1, <2>5, StepInGrows, StepInDoubles, DistType, Zenon
  <2>7. Dist(u, p) < StepIn[round[p]]
    BY <1>7, <2>6
  <2>8. Heard(p, u)
    BY <1>1, Zenon DEF ThreadOK
  <2> QED BY <2>1, <2>4, <2>7, <2>8, Zenon DEF Heard
<1> QED BY <1>1, <1>4, <1>5, <1>6, <1>7

\* A thread goes on to the next round when it has heard from the next ones.
LEMMA NextRoundInv ==
  ASSUME IndInv, NEW t \in Threads, pc[t] = "wait", NextRound(t),
         UNCHANGED <<mainVars, calls, notifyVars, mcsVars>>,
         ASSUME NEW u \in Active,
                In(t, "mcs") \/ (In(t, "notify") /\ ~wrapped),
                Dist(u, t) < StepIn[round[t] + 1]
         PROVE  calls[u] >= calls[t]
  PROVE  IndInv'
<1>1. /\ pc' = [pc EXCEPT ![t] = "write"] /\ round' = [round EXCEPT ![t] = @ + 1]
      /\ UNCHANGED mainVars /\ run' = run /\ nthr' = nthr /\ main' = main
      /\ calls' = calls /\ tag' = tag /\ op' = op /\ flag' = flag
      /\ wrapped' = wrapped /\ myflags' = myflags /\ parity' = parity
      /\ sense' = sense
  BY Zenon DEF NextRound, Goto, mainVars, notifyVars, mcsVars
<1>2. ~Idle(t)
  BY Zenon DEF Idle
<1>3. /\ Types /\ Protocol /\ t \in Active /\ ThreadOK(t)
      /\ calls[t] \in Nat /\ round[t] \in Nat /\ Rounds \in Nat
  BY <1>2, Working, Zenon
<1>4. /\ pc'[t] = "write" /\ round'[t] = round[t] + 1
      /\ \A u \in Threads : u # t => pc'[u] = pc[u] /\ round'[u] = round[u]
  BY <1>1, <1>3, Zenon DEF Types
<1>5. /\ Rounds' = Rounds /\ Active' = Active
      /\ \A k : McsIn(k)' = McsIn(k) /\ NotifyIn(k)' = NotifyIn(k)
      /\ \A u, v : Dist(u, v)' = Dist(u, v) /\ PartnerIn(u, v)' = PartnerIn(u, v)
  BY <1>1, SameRun, Zenon
<1>6. Types'
  <2>1. round' \in [Threads -> Nat]
    BY <1>1, <1>3 DEF Types
  <2> QED BY <1>1, <1>3, <2>1, Zenon DEF Types
<1>7. \A u \in Active : u # t => Untouched(u)
  <2>1. \A u \in Active : u \in Threads
    BY <1>3, ThreadTypes, Zenon
  <2> QED BY <1>1, <1>4, <2>1, Zenon DEF Untouched
<1>8. Kind(t)' = Kind(t)
  BY <1>1, Zenon DEF Kind
<1>9. /\ ~Out(t) /\ ~Out(t)' /\ Left(t)' = Left(t)
      /\ \A k : In(t, k)' <=> In(t, k)
      /\ \A k : \A r \in Nat : ToWrite(t, k, r)' <=> ToWrite(t, k, r)
  <2>1. /\ ~Out(t) /\ ~Out(t)' /\ Left(t)' = Left(t)
        /\ \A k : In(t, k)' <=> In(t, k)
    BY <1>1, <1>4, <1>8, Zenon DEF Out, Left, In
  <2>2. \A r \in Nat : round[t] < r <=> (round[t] + 1 < r \/ round[t] + 1 = r)
    BY <1>3
  <2> QED BY <1>4, <2>1, <2>2, Zenon DEF ToWrite
<1>10. Place(t)'
  <2>1. calls[t] > 0 /\ Kind(t) \in {"notify", "mcs"} /\ round[t] < Rounds
    BY <1>3, <1>9, Zenon DEF ThreadOK, Place
  <2>2. round[t] + 1 <= Rounds
    BY <1>3, <2>1
  <2> QED BY <1>1, <1>4, <1>5, <1>8, <2>1, <2>2, Zenon DEF Place
<1>11. wrapped' \/ (Tags(t)' /\ Lines(t)')
  <2>1. CASE wrapped
    BY <1>1, <2>1, Zenon
  <2>2. CASE ~wrapped
    <3>1. Tags(t) /\ Lines(t)
      BY <1>3, <2>2, Zenon DEF ThreadOK
    <3>2. Tags(t)'
      BY <1>1, <1>5, <1>9, <3>1, Zenon DEF Tags
    <3>3. \A r \in 0 .. NumThreads : ToWrite(t, "notify", r)' <=> ToWrite(t, "notify", r)
      BY <1>9
    <3>4. Lines(t)'
      BY <1>1, <1>5, <3>1, <3>3, Zenon DEF Lines
    <3> QED BY <3>2, <3>4, Zenon
  <2> QED BY <2>1, <2>2, Zenon
<1>12. Senses(t)'
  BY <1>1, <1>3, <1>5, <1>9, Zenon DEF ThreadOK, Senses
<1>13. Flags(t)'
  <2>1. \A r \in 0 .. Rounds - 1 : ToWrite(t, "mcs", r)' <=> ToWrite(t, "mcs", r)
    BY <1>9
  <2> QED BY <1>1, <1>3, <1>5, <2>1, Zenon DEF ThreadOK, Flags
<1>14. \A u \in Active : Passed(t, u)' /\ Heard(t, u)'
  BY <1>1, <1>3, <1>4, <1>5, <1>9, Zenon DEF ThreadOK, Passed, Heard
<1>15. ThreadOK(t)'
  BY <1>5, <1>10, <1>11, <1>12, <1>13, <1>14, Zenon DEF ThreadOK
<1>16. calls'[t] \in {calls[t], calls[t] + 1} /\ (wrapped => wrapped')
  BY <1>1, Zenon
<1> QED BY <1>2, <1>4, <1>6, <1>7, <1>15, <1>16, ThreadStep, Zenon

\* Multiples are in the order of their factors.
LEMMA Multiples ==
  ASSUME NEW n \in Nat, n > 0, NEW a \in Nat, NEW b \in Nat, n * a <= n * b
  PROVE  a <= b
<1> SUFFICES ASSUME b < a PROVE FALSE
  OBVIOUS
<1>1. PICK d \in Nat : a = (b + 1) + d
  <2>1. a - (b + 1) \in Nat /\ a = (b + 1) + (a - (b + 1))
    OBVIOUS
  <2> QED BY <2>1, Zenon
<1>2. n * a = (n * b + n) + n * d /\ n * d \in Nat /\ n * b \in Nat
  BY <1>1
<1> QED BY <1>2

\* A flag of the peer that is no less than the tag was written in this call of
\* barrier() or in a later one.
LEMMA ReadFlagInv ==
  ASSUME IndInv, NEW t \in Threads, ReadFlag(t)
  PROVE  IndInv'
<1>1. /\ pc[t] = "wait" /\ Kind(t) = "notify" /\ Notified(t) /\ NextRound(t)
      /\ UNCHANGED <<mainVars, calls, notifyVars, mcsVars>>
  BY Zenon DEF ReadFlag
<1>2. ~Idle(t)
  BY <1>1, Zenon DEF Idle
<1>3. /\ Types /\ Protocol /\ t \in Active /\ ThreadOK(t)
      /\ nthr \in Nat /\ nthr \in 2 .. NumThreads /\ run \in Runs
      /\ calls[t] \in Nat /\ round[t] \in Nat /\ tag[t] \in Nat /\ op[t] \in Nat
      /\ Rounds \in Nat /\ 0 < Rounds /\ Rounds <= NumThreads
  BY <1>2, Working, Zenon
<1>4. In(t, "notify") /\ ~In(t, "mcs") /\ calls[t] > 0 /\ round[t] < Rounds
  BY <1>1, <1>3, Zenon DEF In, ThreadOK, Place, Out
<1>5. ASSUME NEW u \in Active, ~wrapped, Dist(u, t) < StepIn[round[t] + 1]
      PROVE  calls[u] >= calls[t]
  <2> DEFINE p == Peer(t)
             x == Index(t)
             r == round[t]
  <2>1. p \in Active /\ Dist(p, t) = StepIn[r]
    BY <1>3, <1>4, Peers, Zenon
  <2>2. /\ p \in Threads /\ calls[p] \in Nat /\ tag[p] \in Nat /\ op[p] \in Nat /\ ThreadOK(p)
    BY <1>3, <2>1, ThreadTypes, Zenon DEF Protocol
  <2>3. x \in 0 .. MAXOPS - 1 /\ r \in 0 .. NumThreads
    BY <1>3, <1>4, Constants DEF Index
  <2>4. Tags(t) /\ Tags(p) /\ Lines(p)
    BY <1>3, <1>5, <2>2, Zenon DEF ThreadOK
  <2>5. KindOf(calls[t]) = "notify"
    BY <1>1, <1>3, Kinds, Zenon
  <2>6. NotifyIn(calls[t]) \in Nat /\ NotifyIn(calls[p]) \in Nat /\ NotifyIn(calls[t]) > 0
    <3>1. calls[t] - 1 \in Nat /\ (calls[t] - 1) + 1 = calls[t]
      BY <1>3, <1>4
    <3>2. NotifyIn(calls[t] - 1) \in Nat /\ NotifyIn(calls[t]) = NotifyIn(calls[t] - 1) + 1
      BY <1>3, <2>5, <3>1, Counts, Zenon
    <3>3. NotifyIn(calls[p]) \in Nat
      BY <1>3, <2>2, Counts, Zenon
    <3> QED BY <3>2, <3>3
  <2>7. /\ tag[t] = 2 + Rounds * NotifyIn(calls[t]) /\ op[t] + Rounds = tag[t]
        /\ tag[p] = 2 + Rounds * NotifyIn(calls[p])
        /\ In(p, "notify") => op[p] + Rounds = tag[p]
    BY <1>4, <2>4, Zenon DEF Tags
  <2>8. op[t] >= 2
    <3>1. PICK m \in Nat : NotifyIn(calls[t]) = m + 1
      <4>1. NotifyIn(calls[t]) - 1 \in Nat /\ NotifyIn(calls[t]) = (NotifyIn(calls[t]) - 1) + 1
        BY <2>6
      <4> QED BY <4>1, Zenon
    <3>2. Rounds * (m + 1) = Rounds * m + Rounds /\ Rounds * m \in Nat
      BY <1>3
    <3> QED BY <1>3, <2>7, <3>1
  <2>9. flag[x][p][r] \in Nat /\ flag[x][p][r] >= op[t] + r
    <3>1. flag \in [0 .. MAXOPS - 1 -> [Threads -> [0 .. NumThreads -> Nat]]]
      BY <1>3, Zenon DEF Types
    <3>2. flag[x][p][r] >= op[t] + r
      BY <1>1, Zenon DEF Notified
    <3> HIDE DEF p, x, r
    <3>3. flag[x] \in [Threads -> [0 .. NumThreads -> Nat]]
      BY <2>3, <3>1, Zenon
    <3>4. flag[x][p] \in [0 .. NumThreads -> Nat]
      BY <2>2, <3>3, Zenon
    <3> QED BY <2>3, <3>2, <3>4, Zenon
  <2>10. flag[x][p][r] + Rounds <= r + IF ToWrite(p, "notify", r) THEN op[p] ELSE tag[p]
    <3>1. flag[x][p][r] # 0
      BY <1>3, <2>8, <2>9
    <3> QED BY <2>3, <2>4, <3>1, Zenon DEF Lines
  <2>11. ToWrite(p, "notify", r) => tag[t] + Rounds <= tag[p]
    <3>1. ToWrite(p, "notify", r) => In(p, "notify")
      BY Zenon DEF ToWrite
    <3> QED BY <1>3, <2>2, <2>7, <2>9, <2>10, <3>1
  <2>12. tag[t] <= tag[p]
    BY <1>3, <2>2, <2>7, <2>9, <2>10, <2>11
  <2>13. calls[p] >= calls[t]
    <3>1. PICK a \in Nat, b \in Nat : a = NotifyIn(calls[t]) /\ b = NotifyIn(calls[p])
      BY <2>6, Zenon
    <3>2. Rounds * a <= Rounds * b
      <4>1. Rounds * a \in Nat /\ Rounds * b \in Nat
        BY <1>3
      <4> QED BY <2>7, <2>12, <3>1, <4>1
    <3>3. NotifyIn(calls[t]) <= NotifyIn(calls[p])
      BY <1>3, <3>1, <3>2, Multiples, Zenon
    <3> QED BY <1>3, <1>4, <2>2, <2>5, <3>3, CountsOrder, Zenon
  <2>14. calls[p] = calls[t] => ~ToWrite(p, Kind(t), r)
    BY <1>1, <1>3, <2>7, <2>11
  <2> HIDE DEF p, x, r
  <2>15. r = round[t]
    BY Zenon DEF r
  <2> QED BY <1>1, <1>3, <1>4, <1>5, <2>1, <2>13, <2>14, <2>15, RoundDone, Zenon
<1> QED BY <1>1, <1>4, <1>5, NextRoundInv, Zenon

\* The only thread that writes the flag that t waits for has turned it over in
\* this call of mcs_barrier_wait(), and not yet back in a later one.
LEMMA ReadMineInv ==
  ASSUME IndInv, NEW t \in Threads, ReadMine(t)
  PROVE  IndInv'
<1>1. /\ pc[t] = "wait" /\ Kind(t) = "mcs" /\ NextRound(t)
      /\ myflags[t][parity[t]][round[t]] = sense[t]
      /\ UNCHANGED <<mainVars, calls, notifyVars, mcsVars>>
  BY Zenon DEF ReadMine
<1>2. ~Idle(t)
  BY <1>1, Zenon DEF Idle
<1>3. /\ Types /\ Protocol /\ t \in Active /\ ThreadOK(t)
      /\ nthr \in Nat /\ nthr \in 2 .. NumThreads /\ run \in Runs
      /\ calls[t] \in Nat /\ round[t] \in Nat /\ Rounds \in Nat
  BY <1>2, Working, Zenon
<1>4. In(t, "mcs") /\ calls[t] > 0 /\ round[t] < Rounds
  BY <1>1, <1>3, Zenon DEF In, ThreadOK, Place, Out
<1>5. PICK w \in Nat : /\ McsIn(calls[t]) = w + 1 /\ McsIn(Left(t)) = w
                       /\ parity[t] = w % 2 /\ sense[t] = SenseAfter(w)
  BY <1>3, <1>4, InMcs, Zenon
<1>6. PICK p \in Active : PartnerIn(p, round[t]) = t /\ Dist(p, t) = StepIn[round[t]]
  BY <1>3, <1>4, Writers, Zenon
<1>7. /\ calls[p] \in Nat /\ ThreadOK(p)
      /\ Left(p) \in Int /\ Left(p) <= calls[p] /\ calls[p] <= Left(p) + 1
  BY <1>3, ThreadTypes, Zenon DEF Protocol
<1> DEFINE e == IF ToWrite(p, "mcs", round[t]) THEN 1 ELSE 0
           v == McsIn(calls[p]) - e
<1>8. McsIn(calls[p]) \in Nat /\ w <= McsIn(calls[p])
  <2>1. Passed(t, p)
    BY <1>3, Zenon DEF ThreadOK
  <2>2. McsIn(calls[p]) \in Nat
    BY <1>3, <1>7, Counts, Zenon
  <2> QED BY <1>5, <2>1, <2>2, Zenon DEF Passed
<1>9. McsIn(calls[p]) <= w + 2 /\ (ToWrite(p, "mcs", round[t]) => McsIn(calls[p]) > 0)
  <2>1. Passed(p, t)
    BY <1>3, <1>7, Zenon DEF ThreadOK
  <2>2. McsIn(Left(p)) <= w + 1
    <3>1. Left(p) \in Nat
      BY <1>7 DEF ThreadOK, Place, Left
    <3>2. McsIn(Left(p)) \in Nat
      BY <1>3, <3>1, Counts, Zenon
    <3> QED BY <1>5, <2>1, Zenon DEF Passed
  <2>3. McsIn(Left(p)) \in Nat /\ McsIn(calls[p]) <= McsIn(Left(p)) + 1
    <3>1. Left(p) \in Nat /\ (calls[p] = Left(p) \/ calls[p] = Left(p) + 1)
      BY <1>7 DEF ThreadOK, Place, Left
    <3>2. /\ McsIn(Left(p)) \in Nat /\ McsIn(Left(p)) <= McsIn(Left(p)) + 1
          /\ McsIn(Left(p) + 1) <= McsIn(Left(p)) + 1
      <4>1. McsIn(Left(p)) \in Nat
        BY <1>3, <3>1, Counts, Zenon
      <4>2. McsIn(Left(p) + 1) = McsIn(Left(p)) + IF KindOf(Left(p) + 1) = "mcs" THEN 1 ELSE 0
        BY <1>3, <3>1, Counts, Zenon
      <4> QED BY <4>1, <4>2
    <3> QED BY <3>1, <3>2, Zenon
  <2>4. ToWrite(p, "mcs", round[t]) => McsIn(calls[p]) > 0
    <3>1. ToWrite(p, "mcs", round[t]) => In(p, "mcs")
      BY Zenon DEF ToWrite
    <3> QED BY <1>3, <1>7, <3>1, InMcs
  <2> QED BY <1>8, <2>2, <2>3, <2>4
<1>10. v \in Nat /\ w <= v + 1 /\ v <= w + 2
  BY <1>8, <1>9
<1>11. FlagAfter(w % 2, v) = SenseAfter(w)
  <2>1. Flags(p)
    BY <1>7, Zenon DEF ThreadOK
  <2>2. round[t] \in 0 .. Rounds - 1 /\ w % 2 \in {0, 1}
    BY <1>3, <1>4
  <2> QED BY <1>1, <1>5, <1>6, <2>1, <2>2 DEF Flags
<1>12. v >= w + 1
  BY <1>10, <1>11, Turned, Zenon
<1>13. McsIn(calls[t]) <= McsIn(calls[p])
  BY <1>5, <1>8, <1>12
<1>14. calls[p] >= calls[t]
  <2>1. KindOf(calls[t]) = "mcs"
    BY <1>1, <1>3, Kinds, Zenon
  <2> QED BY <1>3, <1>7, <1>13, <2>1, CountsOrder
<1>15. calls[p] = calls[t] => ~ToWrite(p, Kind(t), round[t])
  BY <1>1, <1>5, <1>12
<1>16. ASSUME NEW u \in Active, Dist(u, t) < StepIn[round[t] + 1]
       PROVE  calls[u] >= calls[t]
  BY <1>1, <1>3, <1>4, <1>6, <1>14, <1>15, <1>16, RoundDone, Zenon
<1> QED BY <1>1, <1>16, NextRoundInv, Zenon

\* A thread turns over the flag of its partner, which no other thread writes.
LEMMA WritePartnerInv ==
  ASSUME IndInv, NEW t \in Threads, WritePartner(t)
  PROVE  IndInv'
<1>1. /\ pc[t] = "write" /\ Kind(t) = "mcs" /\ round[t] < Rounds
      /\ myflags' = [myflags EXCEPT ![Partner(t)][parity[t]][round[t]] = sense[t]]
      /\ pc' = [pc EXCEPT ![t] = "wait"]
      /\ UNCHANGED mainVars /\ run' = run /\ nthr' = nthr /\ main' = main
      /\ calls' = calls /\ round' = round /\ tag' = tag /\ op' = op /\ flag' = flag
      /\ wrapped' = wrapped /\ parity' = parity /\ sense' = sense
  BY Zenon DEF WritePartner, Goto, mainVars, notifyVars
<1>2. ~Idle(t)
  BY <1>1, Zenon DEF Idle
<1>3. /\ Types /\ Protocol /\ t \in Active /\ ThreadOK(t)
      /\ nthr \in Nat /\ nthr \in 2 .. NumThreads /\ run \in Runs
      /\ calls[t] \in Nat /\ round[t] \in Nat /\ Rounds \in Nat /\ Rounds <= NumThreads
  BY <1>2, Working, Zenon
<1>4. pc'[t] = "wait" /\ \A u \in Threads : u # t => pc'[u] = pc[u]
  BY <1>1, <1>3, Zenon DEF Types
<1>5. /\ Rounds' = Rounds /\ Active' = Active
      /\ \A k : McsIn(k)' = McsIn(k) /\ NotifyIn(k)' = NotifyIn(k)
      /\ \A u, v : Dist(u, v)' = Dist(u, v) /\ PartnerIn(u, v)' = PartnerIn(u, v)
  BY <1>1, SameRun, Zenon
<1>6. In(t, "mcs")
  BY <1>1, Zenon DEF In
<1>7. PICK w \in Nat : /\ McsIn(calls[t]) = w + 1 /\ McsIn(Left(t)) = w
                       /\ parity[t] = w % 2 /\ sense[t] = SenseAfter(w)
  BY <1>3, <1>6, InMcs, Zenon
<1>8. /\ \A u \in Threads, p \in {0, 1}, r \in 0 .. NumThreads :
           myflags'[u][p][r] =
             IF u = PartnerIn(t, round[t]) /\ p = parity[t] /\ r = round[t]
               THEN sense[t] ELSE myflags[u][p][r]
      /\ myflags' \in [Threads -> [{0, 1} -> [0 .. NumThreads -> {0, 1}]]]
  <2>1. /\ myflags \in [Threads -> [{0, 1} -> [0 .. NumThreads -> {0, 1}]]]
        /\ parity[t] \in {0, 1} /\ sense[t] \in {0, 1}
    BY <1>3, Zenon DEF Types
  <2>2. Partner(t) = PartnerIn(t, round[t])
    BY Zenon DEF Partner, PartnerIn
  <2> DEFINE q == PartnerIn(t, round[t])
             a == parity[t]
             m == round[t]
  <2>3. q \in Threads /\ m \in 0 .. NumThreads
    <3>1. q \in Active
      BY <1>1, <1>3, Partners, Zenon
    <3> QED BY <1>1, <1>3, <3>1, ThreadTypes, Constants
  <2>4. myflags' = [myflags EXCEPT ![q][a][m] = sense[t]]
    BY <1>1, <2>2, Zenon
  <2>5. a \in {0, 1} /\ sense[t] \in {0, 1}
    BY <2>1, Zenon
  <2> HIDE DEF q, a, m
  <2> DEFINE h == [myflags[q][a] EXCEPT ![m] = sense[t]]
             e == [myflags[q] EXCEPT ![a] = h]
  <2>6. /\ myflags[q] \in [{0, 1} -> [0 .. NumThreads -> {0, 1}]]
        /\ myflags[q][a] \in [0 .. NumThreads -> {0, 1}]
    BY <2>1, <2>3, <2>5, Zenon
  <2>7. /\ h \in [0 .. NumThreads -> {0, 1}]
        /\ \A r \in 0 .. NumThreads : h[r] = IF r = m THEN sense[t] ELSE myflags[q][a][r]
    BY <2>5, <2>6, Zenon
  <2>8. myflags' = [myflags EXCEPT ![q] = e]
    BY <2>4, Zenon
  <2> HIDE DEF h
  <2>9. /\ e \in [{0, 1} -> [0 .. NumThreads -> {0, 1}]]
        /\ \A p \in {0, 1} : e[p] = IF p = a THEN h ELSE myflags[q][p]
    BY <2>6, <2>7, Zenon
  <2> HIDE DEF e
  <2>10. /\ myflags' \in [Threads -> [{0, 1} -> [0 .. NumThreads -> {0, 1}]]]
         /\ \A u \in Threads : myflags'[u] = IF u = q THEN e ELSE myflags[u]
    BY <2>1, <2>8, <2>9, Zenon
  <2>11. ASSUME NEW u \in Threads, NEW p \in {0, 1}, NEW r \in 0 .. NumThreads
         PROVE  myflags'[u][p][r] =
                  IF u = q /\ p = a /\ r = m THEN sense[t] ELSE myflags[u][p][r]
    BY <2>7, <2>9, <2>10, Zenon
  <2> QED BY <2>10, <2>11, Zenon DEF q, a, m
<1>9. Types'
  BY <1>1, <1>3, <1>8, Zenon DEF Types
<1>10. \A u \in Active : \A r \in 0 .. Rounds - 1 :
         r \in Nat /\ r \in 0 .. NumThreads /\ PartnerIn(u, r) \in Threads
  <2>1. ASSUME NEW u \in Active, NEW r \in 0 .. Rounds - 1
        PROVE  r \in Nat /\ r \in 0 .. NumThreads /\ PartnerIn(u, r) \in Threads
    <3>1. r \in Nat /\ r < Rounds /\ r \in 0 .. NumThreads
      BY <1>3, Constants
    <3>2. PartnerIn(u, r) \in Active
      BY <1>3, Partners
    <3> QED BY <1>3, <3>1, <3>2, ThreadTypes, Zenon
  <2> QED BY <2>1, Zenon
<1>11. ASSUME NEW u \in Active, u # t PROVE Untouched(u)
  <2>1. u \in Threads
    BY <1>3, ThreadTypes, Zenon
  <2>2. ASSUME NEW r \in 0 .. Rounds - 1, NEW p \in {0, 1}
        PROVE  myflags'[PartnerIn(u, r)][p][r] = myflags[PartnerIn(u, r)][p][r]
    <3>1. r \in Nat /\ r \in 0 .. NumThreads /\ PartnerIn(u, r) \in Threads
      BY <1>10, Zenon
    <3>2. r = round[t] => PartnerIn(u, r) # PartnerIn(t, round[t])
      BY <1>1, <1>3, <1>11, Writers
    <3> QED BY <1>8, <3>1, <3>2, Zenon
  <2> QED BY <1>1, <1>4, <1>11, <2>1, <2>2, Zenon DEF Untouched
<1>12. Kind(t)' = Kind(t)
  BY <1>1, Zenon DEF Kind
<1>13. /\ ~Out(t) /\ ~Out(t)' /\ Left(t)' = Left(t)
       /\ \A k : In(t, k)' <=> In(t, k)
       /\ \A r : ~ToWrite(t, "notify", r)' /\ ~ToWrite(t, "notify", r)
       /\ \A r \in Nat : ToWrite(t, "mcs", r)' <=> round[t] < r
       /\ \A r \in Nat : ToWrite(t, "mcs", r) <=> round[t] <= r
  <2>1. \A r \in Nat : (round[t] < r \/ round[t] = r) <=> round[t] <= r
    BY <1>3, Order, Zenon
  <2> QED BY <1>1, <1>4, <1>12, <2>1, Zenon DEF Out, Left, In, ToWrite
<1>14. Place(t)'
  BY <1>1, <1>3, <1>4, <1>5, <1>12, <1>13, Zenon DEF ThreadOK, Place
<1>15. wrapped' \/ (Tags(t)' /\ Lines(t)')
  BY <1>1, <1>3, <1>5, <1>13, Zenon DEF ThreadOK, Tags, Lines
<1>16. Senses(t)'
  BY <1>1, <1>3, <1>5, <1>13, Zenon DEF ThreadOK, Senses
<1>17. Flags(t)'
  <2> SUFFICES ASSUME NEW r \in 0 .. Rounds - 1, NEW p \in {0, 1}
               PROVE  myflags'[PartnerIn(t, r)][p][r] =
                        FlagAfter(p, McsIn(calls[t]) - IF ToWrite(t, "mcs", r)' THEN 1 ELSE 0)
    BY <1>1, <1>5, Zenon DEF Flags
  <2>1. r \in Nat /\ r \in 0 .. NumThreads /\ PartnerIn(t, r) \in Threads
    BY <1>3, <1>10, Zenon
  <2>2. myflags[PartnerIn(t, r)][p][r] =
          FlagAfter(p, McsIn(calls[t]) - IF ToWrite(t, "mcs", r) THEN 1 ELSE 0)
    BY <1>3, Zenon DEF ThreadOK, Flags
  <2>3. CASE r # round[t]
    <3>1. ToWrite(t, "mcs", r)' <=> ToWrite(t, "mcs", r)
      BY <1>3, <1>13, <2>3
    <3>2. myflags'[PartnerIn(t, r)][p][r] = myflags[PartnerIn(t, r)][p][r]
      BY <1>8, <2>1, <2>3, Zenon
    <3> QED BY <2>2, <3>1, <3>2, Zenon
  <2>4. CASE r = round[t]
    <3>1. ToWrite(t, "mcs", r) /\ ~ToWrite(t, "mcs", r)'
      BY <1>13, <2>4
    <3>2. /\ McsIn(calls[t]) - (IF ToWrite(t, "mcs", r) THEN 1 ELSE 0) = w
          /\ McsIn(calls[t]) - (IF ToWrite(t, "mcs", r)' THEN 1 ELSE 0) = w + 1
      BY <1>7, <3>1
    <3>3. myflags'[PartnerIn(t, r)][p][r] =
            IF p = w % 2 THEN SenseAfter(w) ELSE FlagAfter(p, w)
      BY <1>7, <1>8, <2>1, <2>2, <2>4, <3>2
    <3>4. p # w % 2 => p = 1 - (w % 2)
      BY Turns
    <3>5. FlagAfter(p, w + 1) = IF p = w % 2 THEN SenseAfter(w) ELSE FlagAfter(p, w)
      BY Turns
    <3> QED BY <3>2, <3>3, <3>5, Zenon
  <2> QED BY <2>3, <2>4, Zenon
<1>18. \A u \in Active : Passed(t, u)' /\ Heard(t, u)'
  BY <1>1, <1>3, <1>5, <1>13, Zenon DEF ThreadOK, Passed, Heard
<1>19. ThreadOK(t)'
  BY <1>5, <1>14, <1>15, <1>16, <1>17, <1>18, Zenon DEF ThreadOK
<1>20. calls'[t] \in {calls[t], calls[t] + 1} /\ (wrapped => wrapped')
  BY <1>1, Zenon
<1> QED BY <1>1, <1>2, <1>4, <1>9, <1>11, <1>19, ThreadStep, Zenon

\* After the last round a thread has heard from everybody.
LEMMA LastRound ==
  ASSUME Types, Protocol, NEW t \in Active, pc[t] = "write", round[t] = Rounds
  PROVE  \/ \A u \in Active : calls[u] >= calls[t]
         \/ wrapped /\ Kind(t) = "notify"
<1>1. ThreadOK(t) /\ nthr \in Nat /\ nthr \in 2 .. NumThreads
  BY ThreadTypes, Zenon DEF Protocol
<1>2. In(t, "mcs") \/ In(t, "notify")
  BY <1>1, Zenon DEF ThreadOK, Place, In
<1>3. ASSUME NEW u \in Active PROVE Dist(u, t) < StepIn[round[t]]
  <2>1. nthr <= StepIn[Rounds] /\ Rounds \in Nat
    BY <1>1, RoundsFacts, Zenon
  <2>2. StepIn[Rounds] \in Nat
    BY <2>1, StepInDoubles, Zenon
  <2>3. Dist(u, t) \in Nat /\ Dist(u, t) < nthr
    BY <1>1, DistType, Zenon
  <2> QED BY <1>1, <2>1, <2>2, <2>3
<1>4. CASE In(t, "mcs") \/ ~wrapped
  BY <1>1, <1>2, <1>3, <1>4, Zenon DEF ThreadOK, Heard
<1>5. CASE In(t, "notify") /\ wrapped
  BY <1>5, Zenon DEF In
<1> QED BY <1>2, <1>4, <1>5, Zenon

\* A thread leaves a barrier.
LEMMA LeaveInv ==
  ASSUME IndInv, NEW t \in Threads, Leave(t) \/ LeaveSmlt(t)
  PROVE  IndInv'
<1>1. /\ pc[t] \in {"write", "inside"} /\ pc' = [pc EXCEPT ![t] = "run"]
      /\ UNCHANGED mainVars /\ run' = run /\ nthr' = nthr /\ main' = main
      /\ calls' = calls /\ round' = round /\ tag' = tag /\ op' = op /\ flag' = flag
      /\ wrapped' = wrapped /\ myflags' = myflags
  BY Zenon DEF Leave, LeaveSmlt, Goto, mainVars, notifyVars, mcsVars
<1>2. ~Idle(t)
  BY <1>1, Zenon DEF Idle
<1>3. /\ Types /\ Protocol /\ t \in Active /\ ThreadOK(t)
      /\ nthr \in Nat /\ nthr \in 2 .. NumThreads /\ run \in Runs
      /\ calls[t] \in Nat /\ round[t] \in Nat /\ tag[t] \in Nat /\ op[t] \in Nat
      /\ Rounds \in Nat /\ Rounds <= NumThreads
  BY <1>2, Working, Zenon
<1>4. pc'[t] = "run" /\ \A u \in Threads : u # t => pc'[u] = pc[u]
  BY <1>1, <1>3, Zenon DEF Types
<1>5. /\ Rounds' = Rounds /\ Active' = Active
      /\ \A k : McsIn(k)' = McsIn(k) /\ NotifyIn(k)' = NotifyIn(k)
      /\ \A u, v : Dist(u, v)' = Dist(u, v) /\ PartnerIn(u, v)' = PartnerIn(u, v)
  BY <1>1, SameRun, Zenon
<1>6. /\ pc[t] = "write" => round[t] = Rounds
      /\ In(t, "mcs") => /\ Reverse(t) /\ parity' = [parity EXCEPT ![t] = 1 - @]
      /\ ~In(t, "mcs") => parity' = parity /\ sense' = sense
  BY Zenon DEF Leave, LeaveSmlt, In, mcsVars
<1>7. \/ \A u \in Active : calls[u] >= calls[t]
      \/ wrapped /\ Kind(t) = "notify"
  <2>1. CASE Leave(t)
    BY <1>3, <2>1, LastRound, Zenon DEF Leave
  <2>2. CASE LeaveSmlt(t)
    BY <2>2, Zenon DEF LeaveSmlt, Together, Active
  <2> QED BY <2>1, <2>2, Zenon
<1>8. /\ parity' \in [Threads -> {0, 1}] /\ sense' \in [Threads -> {0, 1}]
      /\ \A u \in Threads : u # t => parity'[u] = parity[u] /\ sense'[u] = sense[u]
      /\ In(t, "mcs") => /\ parity'[t] = 1 - parity[t]
                         /\ sense'[t] = IF parity[t] = 1 THEN 1 - sense[t] ELSE sense[t]
  <2>1. parity \in [Threads -> {0, 1}] /\ sense \in [Threads -> {0, 1}]
    BY <1>3, Zenon DEF Types
  <2>2. 1 - parity[t] \in {0, 1} /\ 1 - sense[t] \in {0, 1}
    BY <2>1
  <2> QED BY <1>6, <2>1, <2>2, Zenon DEF Reverse
<1>9. Types'
  BY <1>1, <1>3, <1>8, Zenon DEF Types
<1>10. \A u \in Active : u # t => Untouched(u)
  <2>1. \A u \in Active : u \in Threads
    BY <1>3, ThreadTypes, Zenon
  <2> QED BY <1>1, <1>4, <1>8, <2>1, Zenon DEF Untouched
<1>11. /\ ~Out(t) /\ Out(t)' /\ Left(t) = calls[t] - 1 /\ Left(t)' = calls[t]
       /\ calls[t] > 0
       /\ \A k : ~In(t, k)'
       /\ \A k, r : ~ToWrite(t, k, r)'
       /\ \A k : \A r \in Nat : r < Rounds => ~ToWrite(t, k, r)
  BY <1>1, <1>3, <1>4, <1>6 DEF Out, Left, In, ToWrite, ThreadOK, Place
<1>12. Place(t)'
  BY <1>1, <1>4, <1>11, Zenon DEF Place
<1>13. ASSUME ~wrapped' PROVE Tags(t)' /\ Lines(t)'
  <2>1. Tags(t) /\ Lines(t)
    BY <1>1, <1>3, <1>13, Zenon DEF ThreadOK
  <2>2. Tags(t)'
    BY <1>1, <1>5, <1>11, <2>1, Zenon DEF Tags
  <2>3. Lines(t)'
    <3> SUFFICES ASSUME NEW x \in 0 .. MAXOPS - 1, NEW r \in 0 .. NumThreads
                 PROVE  flag[x][t][r] = 0 \/ flag[x][t][r] + Rounds <= r + tag[t]
      BY <1>1, <1>5, <1>11, Zenon DEF Lines
    <3>1. r \in Nat /\ flag[x][t][r] \in Nat
      <4>1. flag \in [0 .. MAXOPS - 1 -> [Threads -> [0 .. NumThreads -> Nat]]]
        BY <1>3, Zenon DEF Types
      <4> QED BY <4>1, Constants
    <3>2. \/ flag[x][t][r] = 0
          \/ flag[x][t][r] + Rounds <= r + IF ToWrite(t, "notify", r) THEN op[t] ELSE tag[t]
      BY <2>1, Zenon DEF Lines
    <3>3. ToWrite(t, "notify", r) => op[t] + Rounds = tag[t]
      BY <2>1, Zenon DEF Tags, ToWrite
    <3> QED BY <1>3, <3>1, <3>2, <3>3
  <2> QED BY <2>2, <2>3, Zenon
<1>14. Senses(t)'
  <2>1. McsIn(calls[t]) \in Nat
    BY <1>3, Counts, Zenon
  <2>2. McsIn(calls[t])' - (IF In(t, "mcs")' THEN 1 ELSE 0) = McsIn(calls[t])
    BY <1>1, <1>5, <1>11, <2>1
  <2>3. parity'[t] = McsIn(calls[t]) % 2 /\ sense'[t] = SenseAfter(McsIn(calls[t]))
    <3>1. CASE In(t, "mcs")
      <4>1. PICK w \in Nat : /\ McsIn(calls[t]) = w + 1
                             /\ parity[t] = w % 2 /\ sense[t] = SenseAfter(w)
        BY <1>3, <3>1, InMcs, Zenon
      <4> QED BY <1>8, <3>1, <4>1, Turns, Zenon
    <3>2. CASE ~In(t, "mcs")
      <4>1. McsIn(calls[t]) - (IF In(t, "mcs") THEN 1 ELSE 0) = McsIn(calls[t])
        BY <2>1, <3>2
      <4>2. Senses(t)
        BY <1>3, Zenon DEF ThreadOK
      <4> QED BY <1>6, <3>2, <4>1, <4>2, Zenon DEF Senses
    <3> QED BY <3>1, <3>2, Zenon
  <2> QED BY <2>2, <2>3, Zenon DEF Senses
<1>15. Flags(t)'
  <2>1. \A r \in 0 .. Rounds - 1 : ~ToWrite(t, "mcs", r)' /\ ~ToWrite(t, "mcs", r)
    BY <1>3, <1>11
  <2> QED BY <1>1, <1>3, <1>5, <2>1, Zenon DEF ThreadOK, Flags
<1>16. ASSUME NEW u \in Active PROVE Passed(t, u)' /\ Heard(t, u)'
  <2>1. calls[u] \in Nat /\ McsIn(calls[u]) \in Nat /\ McsIn(calls[t]) \in Nat
    BY <1>3, ThreadTypes, Counts, Zenon
  <2>2. /\ McsIn(calls[u])' = McsIn(calls[u]) /\ McsIn(Left(t))' = McsIn(calls[t])
    BY <1>1, <1>5, <1>11, Zenon
  <2>3. CASE calls[u] >= calls[t]
    <3>1. McsIn(calls[t]) <= McsIn(calls[u])
      BY <1>3, <2>1, <2>3, CountsGrow, Zenon
    <3> QED BY <1>1, <1>11, <2>2, <2>3, <3>1, Zenon DEF Passed, Heard
  <2>4. CASE wrapped /\ Kind(t) = "notify"
    <3>1. calls[t] - 1 \in Nat /\ (calls[t] - 1) + 1 = calls[t]
      BY <1>3, <1>11
    <3>2. KindOf(calls[t]) = "notify"
      BY <1>3, <2>4, Kinds, Zenon
    <3>3. McsIn(calls[t] - 1) \in Nat /\ McsIn(calls[t]) = McsIn(calls[t] - 1) + 0
      BY <1>3, <3>1, <3>2, Counts, Zenon
    <3>4. Passed(t, u)
      BY <1>3, Zenon DEF ThreadOK
    <3>5. McsIn(calls[u]) >= McsIn(calls[t] - 1)
      BY <1>11, <3>4, Zenon DEF Passed
    <3>6. McsIn(calls[u]) >= McsIn(calls[t])
      BY <3>3, <3>5
    <3> QED BY <1>1, <1>11, <2>2, <2>4, <3>6, Zenon DEF Passed, Heard
  <2> QED BY <1>7, <2>3, <2>4, Zenon
<1>17. ThreadOK(t)'
  BY <1>5, <1>12, <1>13, <1>14, <1>15, <1>16, Zenon DEF ThreadOK
<1>18. calls'[t] \in {calls[t], calls[t] + 1} /\ (wrapped => wrapped')
  BY <1>1, Zenon
<1> QED BY <1>1, <1>2, <1>9, <1>10, <1>17, ThreadStep

-----------------------------------------------------------------------------
(* The theorems.                                                           *)

\* Every step preserves the inductive invariant.
LEMMA NextInv == IndInv /\ [Next]_vars => IndInv'
<1> SUFFICES ASSUME IndInv, [Next]_vars PROVE IndInv'
  BY Zenon
<1>1. CASE Setup
  BY <1>1, SetupInv, Zenon
<1>2. ASSUME NEW t \in Threads, Main(t) PROVE IndInv'
  BY <1>2, CreateInv, AwaitAckInv, LetGoInv, JoinInv, Zenon DEF Main
<1>3. ASSUME NEW t \in Threads, Thread(t) PROVE IndInv'
  <2>1. CASE Start(t) \/ Ready(t) \/ Finish(t)
    BY <2>1, OutsideInv, Zenon
  <2>2. CASE EnterNotify(t)
    BY <2>2, EnterNotifyInv, Zenon
  <2>3. CASE EnterMcs(t) \/ EnterSmlt(t)
    BY <2>3, EnterOtherInv, Zenon
  <2>4. CASE WriteFlag(t)
    BY <2>4, WriteFlagInv, Zenon
  <2>5. CASE ReadFlag(t)
    BY <2>5, ReadFlagInv, Zenon
  <2>6. CASE ReadOnce(t)
    BY <2>6, ReadOnceInv, Zenon
  <2>7. CASE WritePartner(t)
    BY <2>7, WritePartnerInv, Zenon
  <2>8. CASE ReadMine(t)
    BY <2>8, ReadMineInv, Zenon
  <2>9. CASE Leave(t) \/ LeaveSmlt(t)
    BY <2>9, LeaveInv, Zenon
  <2> QED BY <1>3, <2>1, <2>2, <2>3, <2>4, <2>5, <2>6, <2>7, <2>8, <2>9, Zenon DEF
     Thread, Barrier
<1>4. CASE UNCHANGED vars
  <2>1. /\ run' = run /\ nthr' = nthr /\ main' = main /\ pc' = pc /\ calls' = calls
        /\ round' = round /\ tag' = tag /\ op' = op /\ flag' = flag /\ wrapped' = wrapped
        /\ myflags' = myflags /\ parity' = parity /\ sense' = sense
    BY <1>4, Zenon DEF vars, mainVars, notifyVars, mcsVars
  <2>2. Types /\ Crew /\ Types' /\ Crew'
    <3>1. Types /\ Crew
      BY Zenon DEF IndInv
    <3>2. Types'
      BY <2>1, <3>1, Zenon DEF Types
    <3>3. Crew'
      BY <2>1, <3>1, Zenon DEF Crew, Idle
    <3> QED BY <3>1, <3>2, <3>3, Zenon
  <2>3. CASE main[1] = "setup"
    BY <2>1, <2>2, <2>3, Zenon DEF IndInv
  <2>4. CASE main[1] # "setup"
    BY <2>1, <2>2, <2>4, MainInv, Zenon DEF notifyVars, mcsVars
  <2> QED BY <2>3, <2>4, Zenon
<1> QED BY <1>1, <1>2, <1>3, <1>4, Zenon DEF Next

\* The inductive invariant holds in every state, for any number of threads, of
\* lines of flags and of calls, and wherever the tag of barrier() starts over.
THEOREM Invariance == Spec => []IndInv
<1>1. Init => IndInv
  BY InitInv, Zenon
<1>2. IndInv /\ [Next]_vars => IndInv'
  BY NextInv, Zenon
<1> QED BY <1>1, <1>2, PTL DEF Spec

\* What a thread is about to write in mcs_barrier_wait() is not what its partner's
\* flag says.
LEMMA TurnsOver == IndInv => FlagsTurn
<1> SUFFICES ASSUME IndInv, NEW t \in Threads,
                    pc[t] = "write", Kind(t) = "mcs", round[t] < Rounds
             PROVE  myflags[Partner(t)][parity[t]][round[t]] # sense[t]
  BY Zenon DEF FlagsTurn
<1>1. /\ Types /\ t \in Active /\ ThreadOK(t) /\ round[t] \in Nat /\ Rounds \in Nat
  BY Working, Zenon DEF Idle
<1>2. In(t, "mcs") /\ ToWrite(t, "mcs", round[t])
  BY Zenon DEF In, ToWrite
<1>3. PICK w \in Nat : /\ McsIn(calls[t]) = w + 1
                       /\ parity[t] = w % 2 /\ sense[t] = SenseAfter(w)
  BY <1>1, <1>2, InMcs, Zenon
<1>4. w % 2 \in {0, 1} /\ round[t] \in 0 .. Rounds - 1
  BY <1>1
<1>5. McsIn(calls[t]) - (IF ToWrite(t, "mcs", round[t]) THEN 1 ELSE 0) = w
  BY <1>2, <1>3
<1>6. myflags[PartnerIn(t, round[t])][w % 2][round[t]] = FlagAfter(w % 2, w)
  BY <1>1, <1>5 DEF ThreadOK, Flags
<1>7. Partner(t) = PartnerIn(t, round[t])
  BY Zenon DEF Partner, PartnerIn
<1> QED BY <1>3, <1>6, <1>7, Turns, Zenon

\* A thread in mcs_barrier_wait() always turns its partner's flag over: the flag
\* never says already what the thread is about to write, so the partner never goes
\* through before the thread has come.
THEOREM FlagsAlwaysTurn == Spec => []FlagsTurn
BY Invariance, TurnsOver, PTL

\* Only a thread that has done all its rounds returns from the flags of a barrier.
LEMMA OnlyLeave ==
  ASSUME Types, [Next]_vars, NEW t \in Threads, pc[t] = "write", pc'[t] = "run"
  PROVE  round[t] = Rounds
<1>1. pc \in [Threads -> {"none", "start", "ready", "run", "write", "wait", "hung",
                          "inside", "end"}]
  BY Zenon DEF Types
<1>2. pc' # pc
  BY Zenon
<1>3. ASSUME NEW u \in Threads, Main(u) PROVE FALSE
  <2>1. pc' = [pc EXCEPT ![u] = "start"] \/ pc' = pc
    BY <1>3, Zenon DEF Main, Create, AwaitAck, LetGo, Join, Goto
  <2> QED BY <1>1, <2>1, Zenon
<1>4. ASSUME NEW u \in Threads, Thread(u) PROVE u = t
  <2>1. \E label : pc' = [pc EXCEPT ![u] = label]
    BY <1>4, Zenon DEF Thread, Start, Ready, Finish, Barrier, EnterNotify, EnterMcs,
       EnterSmlt, Call, WriteFlag, ReadFlag, ReadOnce, WritePartner, ReadMine,
       NextRound, LeaveSmlt, Leave, Goto
  <2> QED BY <2>1
<1>5. ASSUME Thread(t) PROVE round[t] = Rounds
  <2>1. ~Start(t) /\ ~Ready(t) /\ ~Finish(t) /\ ~EnterNotify(t) /\ ~EnterMcs(t) /\ ~EnterSmlt(t)
    BY Zenon DEF Start, Ready, Finish, EnterNotify, EnterMcs, EnterSmlt, Call
  <2>2. ~WriteFlag(t) /\ ~WritePartner(t)
    BY <1>1, Zenon DEF WriteFlag, WritePartner, Goto
  <2>3. ~ReadFlag(t) /\ ~ReadOnce(t) /\ ~ReadMine(t) /\ ~LeaveSmlt(t)
    BY Zenon DEF ReadFlag, ReadOnce, ReadMine, LeaveSmlt
  <2> QED BY <1>5, <2>1, <2>2, <2>3, Zenon DEF Thread, Barrier, Leave
<1>6. ~Setup /\ ~(UNCHANGED vars)
  BY <1>2, Zenon DEF Setup, vars
<1> QED BY <1>3, <1>4, <1>5, <1>6, Zenon DEF Next

\* Both barriers hold a thread back until everybody has called them, whatever kinds
\* follow each other and however far ahead a fast thread runs; barrier() does so
\* until a tag starts over.
THEOREM LeavesTogether == Spec => LeaveTogether
<1> DEFINE A == \A t \in Threads : pc[t] = "write" /\ pc'[t] = "run" =>
                  Together(t) \/ (wrapped /\ Kind(t) = "notify")
<1>1. IndInv /\ [Next]_vars => [A]_vars
  <2> SUFFICES ASSUME IndInv, [Next]_vars, NEW t \in Threads, pc[t] = "write", pc'[t] = "run"
               PROVE  Together(t) \/ (wrapped /\ Kind(t) = "notify")
    BY Zenon
  <2>1. Types /\ Protocol /\ t \in Active
    BY Working, Zenon DEF Idle
  <2>2. round[t] = Rounds
    BY <2>1, OnlyLeave, Zenon
  <2> QED BY <2>1, <2>2, LastRound, Zenon DEF Together, Active
<1>2. Spec => []IndInv
  BY Invariance, Zenon
<1>3. LeaveTogether <=> [][A]_vars
  BY Zenon DEF LeaveTogether
<1> QED BY <1>1, <1>2, <1>3, PTL DEF Spec

=============================================================================
