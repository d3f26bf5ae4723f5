------------------------ MODULE DissemBarrierProofs ------------------------
(***************************************************************************)
(* Proofs about DissemBarrier, for every number of threads, every capacity *)
(* of the queues and every number of episodes.                             *)
(*                                                                         *)
(* A thread in round r of an episode has heard, directly or not, from the  *)
(* StepIn[r] threads up to its own position (Heard).  This rests on the    *)
(* queues: the notifications in a queue are those of one round, as many as *)
(* the sender has sent more than the receiver has received (Traffic), so   *)
(* that the one received in episode e was sent in episode e or later.      *)
(***************************************************************************)
EXTENDS DissemBarrier, WellFoundedInduction, TLAPS

-----------------------------------------------------------------------------
(* Doubling and halving.                                                   *)

\* A set of natural numbers has a least element.
LEMMA LeastNatural ==
  ASSUME NEW T, T \subseteq Nat, T # {}
  PROVE  \E x \in T : \A y \in T : x <= y
<1>1. PICK x \in T : \A y \in T : ~(<<y, x>> \in OpToRel(<, Nat))
  BY NatLessThanWellFounded, WFMin
<1>2. \A y \in T : ~(y < x)
  BY <1>1 DEF OpToRel
<1> QED BY <1>2

\* g holds the values of step in the rounds up to n
Doubles(g, n) ==
  /\ g \in [0 .. n -> Nat]
  /\ g[0] = 1
  /\ \A r \in 1 .. n : g[r] = g[r - 1] * 2

\* The loop of smlt_dissem_barrier_wait can run any number of rounds.
LEMMA DoublesExists == \A n \in Nat : \E g : Doubles(g, n)
<1> DEFINE T == {n \in Nat : ~ \E g : Doubles(g, n)}
<1> SUFFICES ASSUME T # {} PROVE FALSE
  OBVIOUS
<1>1. PICK x \in T : \A y \in T : x <= y
  <2>1. T \subseteq Nat
    OBVIOUS
  <2> HIDE DEF T
  <2> QED BY <2>1, LeastNatural
<1>2. CASE x = 0
  <2>1. Doubles([r \in 0 .. 0 |-> 1], 0)
    BY DEF Doubles
  <2> QED BY <1>1, <1>2, <2>1
<1>3. CASE x # 0
  <2>1. x \in Nat /\ x - 1 \in Nat /\ x - 1 \notin T
    BY <1>1, <1>3
  <2>2. PICK g : Doubles(g, x - 1)
    BY <2>1
  <2> DEFINE h == [r \in 0 .. x |-> IF r = x THEN g[x - 1] * 2 ELSE g[r]]
  <2>3. \A r \in 0 .. x - 1 : g[r] \in Nat /\ h[r] = g[r]
    BY <2>1, <2>2 DEF Doubles
  <2>4. h[x] = g[x - 1] * 2
    BY <2>1
  <2>5. h \in [0 .. x -> Nat]
    <3>1. \A r \in 0 .. x : h[r] \in Nat
      <4>1. x - 1 \in 0 .. x - 1 /\ \A r \in 0 .. x : r # x => r \in 0 .. x - 1
        BY <2>1
      <4> HIDE DEF h
      <4>2. g[x - 1] \in Nat
        BY <2>3, <4>1
      <4>3. g[x - 1] * 2 \in Nat
        BY <4>2
      <4> QED BY <2>3, <2>4, <4>1, <4>3
    <3> QED BY <3>1
  <2> HIDE DEF h
  <2>6. h[0] = 1
    BY <1>3, <2>1, <2>2, <2>3 DEF Doubles
  <2>7. ASSUME NEW r \in 1 .. x PROVE h[r] = h[r - 1] * 2
    <3>1. CASE r = x
      BY <2>1, <2>3, <2>4, <3>1
    <3>2. CASE r # x
      <4>1. r \in 1 .. x - 1 /\ r - 1 \in 0 .. x - 1 /\ r \in 0 .. x - 1
        BY <2>1, <3>2
      <4>2. g[r] = g[r - 1] * 2
        BY <2>2, <4>1 DEF Doubles
      <4> QED BY <2>3, <4>1, <4>2
    <3> QED BY <3>1, <3>2
  <2>8. Doubles(h, x)
    BY <2>5, <2>6, <2>7 DEF Doubles
  <2> QED BY <1>1, <2>8
<1> QED BY <1>2, <1>3

\* The values of step do not depend on the number of rounds.
LEMMA DoublesUnique ==
  ASSUME NEW n \in Nat, NEW m \in Nat, NEW g, NEW h, Doubles(g, n), Doubles(h, m),
         NEW k \in Nat, k <= n, k <= m
  PROVE  g[k] = h[k]
<1> DEFINE T == {r \in Nat : r <= n /\ r <= m /\ g[r] # h[r]}
<1> SUFFICES ASSUME T # {} PROVE FALSE
  OBVIOUS
<1>1. PICK x \in T : \A y \in T : x <= y
  <2>1. T \subseteq Nat
    OBVIOUS
  <2> HIDE DEF T
  <2> QED BY <2>1, LeastNatural
<1>2. x # 0
  BY <1>1 DEF Doubles
<1>3. x - 1 \in Nat /\ x - 1 <= n /\ x - 1 <= m /\ g[x - 1] = h[x - 1]
  <2>1. x - 1 \notin T
    BY <1>1
  <2> QED BY <1>1, <1>2, <2>1
<1>4. x \in 1 .. n /\ x \in 1 .. m
  BY <1>1, <1>2
<1>5. g[x] = g[x - 1] * 2 /\ h[x] = h[x - 1] * 2
  BY <1>4 DEF Doubles
<1> QED BY <1>1, <1>3, <1>5

\* StepIn is what its definition says.
LEMMA StepInDoubles ==
  /\ StepIn[0] = 1
  /\ \A r \in Nat : StepIn[r] \in Nat /\ StepIn[r + 1] = StepIn[r] * 2
<1> DEFINE G(n) == CHOOSE g : Doubles(g, n)
           f == [n \in Nat |-> G(n)[n]]
<1>1. \A n \in Nat : Doubles(G(n), n)
  BY DoublesExists
<1> HIDE DEF G
<1>2. \A n \in Nat : f[n] = G(n)[n]
  OBVIOUS
<1>3. f[0] = 1
  BY <1>1, <1>2 DEF Doubles
<1>4. ASSUME NEW n \in Nat PROVE f[n] \in Nat /\ f[n + 1] = f[n] * 2
  <2>1. G(n)[n] \in Nat
    BY <1>1 DEF Doubles
  <2>2. Doubles(G(n + 1), n + 1) /\ Doubles(G(n), n) /\ n + 1 \in Nat
    BY <1>1
  <2>3. G(n + 1)[n] = G(n)[n]
    <3>1. n <= n /\ n <= n + 1
      OBVIOUS
    <3> QED BY <2>2, <3>1, DoublesUnique
  <2>4. G(n + 1)[n + 1] = G(n + 1)[n] * 2
    <3>1. n + 1 \in 1 .. n + 1 /\ (n + 1) - 1 = n
      OBVIOUS
    <3> QED BY <2>2, <3>1 DEF Doubles
  <2> QED BY <1>2, <2>1, <2>2, <2>3, <2>4
<1>5. f = [r \in Nat |-> IF r = 0 THEN 1 ELSE f[r - 1] * 2]
  <2>1. ASSUME NEW r \in Nat PROVE f[r] = IF r = 0 THEN 1 ELSE f[r - 1] * 2
    <3>1. CASE r = 0
      BY <1>3, <3>1
    <3>2. CASE r # 0
      <4>1. r - 1 \in Nat /\ (r - 1) + 1 = r
        BY <3>2
      <4>2. f[(r - 1) + 1] = f[r - 1] * 2
        BY <1>4, <4>1
      <4> HIDE DEF f
      <4> QED BY <3>2, <4>1, <4>2
    <3> QED BY <3>1, <3>2
  <2> QED BY <2>1
<1> HIDE DEF f
<1>6. StepIn = [r \in Nat |-> IF r = 0 THEN 1 ELSE StepIn[r - 1] * 2]
  BY <1>5 DEF StepIn
<1> HIDE DEF StepIn
<1>7. \A r \in Nat : StepIn[r] = IF r = 0 THEN 1 ELSE StepIn[r - 1] * 2
  BY <1>6
<1>8. StepIn[0] = 1 /\ \A r \in Nat : StepIn[r + 1] = StepIn[r] * 2
  <2>1. \A r \in Nat : r + 1 \in Nat /\ r + 1 # 0 /\ (r + 1) - 1 = r
    OBVIOUS
  <2> QED BY <1>7, <2>1
<1>9. \A r \in Nat : StepIn[r] \in Nat
  <2> DEFINE T == {r \in Nat : StepIn[r] \notin Nat}
  <2> SUFFICES ASSUME T # {} PROVE FALSE
    OBVIOUS
  <2>1. PICK x \in T : \A y \in T : x <= y
    <3>1. T \subseteq Nat
      OBVIOUS
    <3> HIDE DEF T
    <3> QED BY <3>1, LeastNatural
  <2>2. x # 0 /\ x - 1 \in Nat /\ StepIn[x - 1] \in Nat
    BY <1>8, <2>1
  <2> QED BY <1>7, <2>1, <2>2
<1> QED BY <1>8, <1>9

\* The values of step grow.
LEMMA StepInGrows ==
  /\ \A r \in Nat : StepIn[r] > r
  /\ \A r, q \in Nat : r < q => StepIn[r] < StepIn[q]
<1> USE StepInDoubles
<1>1. \A r \in Nat : StepIn[r] > r
  <2> DEFINE T == {r \in Nat : ~(StepIn[r] > r)}
  <2> SUFFICES ASSUME T # {} PROVE FALSE
    OBVIOUS
  <2>1. PICK x \in T : \A y \in T : x <= y
    <3>1. T \subseteq Nat
      OBVIOUS
    <3> HIDE DEF T
    <3> QED BY <3>1, LeastNatural
  <2>2. PICK y \in Nat : x = y + 1
    <3>1. x # 0 /\ x \in Nat
      BY <2>1
    <3>2. x - 1 \in Nat /\ x = (x - 1) + 1
      BY <3>1
    <3> QED BY <3>2
  <2>3. y \notin T
    BY <2>1, <2>2
  <2> QED BY <2>1, <2>2, <2>3
<1>2. ASSUME NEW r \in Nat PROVE \A q \in Nat : r < q => StepIn[r] < StepIn[q]
  <2> DEFINE T == {q \in Nat : r < q /\ ~(StepIn[r] < StepIn[q])}
  <2> SUFFICES ASSUME T # {} PROVE FALSE
    OBVIOUS
  <2>1. PICK x \in T : \A y \in T : x <= y
    <3>1. T \subseteq Nat
      OBVIOUS
    <3> HIDE DEF T
    <3> QED BY <3>1, LeastNatural
  <2>2. PICK y \in Nat : x = y + 1
    <3>1. x # 0 /\ x \in Nat
      BY <2>1
    <3>2. x - 1 \in Nat /\ x = (x - 1) + 1
      BY <3>1
    <3> QED BY <3>2
  <2>3. y \notin T
    BY <2>1, <2>2
  <2>4. StepIn[y] > y /\ StepIn[r] > r
    BY <1>1
  <2> QED BY <2>1, <2>2, <2>3, <2>4
<1> QED BY <1>1, <1>2

\* There is a least number of rounds after which step is at least num_threads.
LEMMA RoundsFacts ==
  /\ NumThreads \in Nat \ {0} /\ Capacity \in Nat \ {0} /\ MaxEpisodes \in Nat
  /\ Rounds \in Nat
  /\ NumThreads <= StepIn[Rounds]
  /\ \A r \in Nat : r < Rounds => StepIn[r] \in 1 .. NumThreads - 1
<1>1. NumThreads \in Nat \ {0} /\ Capacity \in Nat \ {0} /\ MaxEpisodes \in Nat
  BY DissemAssumption DEF DissemAssumption
<1> DEFINE Enough(r) == NumThreads <= StepIn[r] /\ \A q \in 0 .. r - 1 : StepIn[q] < NumThreads
<1>2. \E r \in 0 .. NumThreads : Enough(r)
  <2> DEFINE T == {r \in Nat : NumThreads <= StepIn[r]}
  <2>1. NumThreads \in T
    BY <1>1, StepInDoubles, StepInGrows
  <2>2. PICK x \in T : \A y \in T : x <= y
    <3>1. T \subseteq Nat
      OBVIOUS
    <3> HIDE DEF T
    <3> QED BY <2>1, <3>1, LeastNatural
  <2>3. x \in 0 .. NumThreads
    BY <1>1, <2>1, <2>2
  <2>4. ASSUME NEW q \in 0 .. x - 1 PROVE StepIn[q] < NumThreads
    <3>1. q \in Nat /\ q \notin T
      BY <2>2
    <3> QED BY <1>1, <3>1, StepInDoubles
  <2> QED BY <2>2, <2>3, <2>4
<1>3. Rounds \in 0 .. NumThreads /\ Enough(Rounds)
  BY <1>2 DEF Rounds
<1>4. ASSUME NEW r \in Nat, r < Rounds PROVE StepIn[r] \in 1 .. NumThreads - 1
  <2>1. r \in 0 .. Rounds - 1
    BY <1>1, <1>3, <1>4
  <2>2. StepIn[r] < NumThreads
    BY <1>3, <2>1
  <2> QED BY <1>1, <2>2, StepInDoubles, StepInGrows
<1> QED BY <1>1, <1>3, <1>4

-----------------------------------------------------------------------------
(* The peers.                                                              *)

\* how many places after thread j thread i comes
Dist(j, i) == IF j <= i THEN i - j ELSE i - j + NumThreads

\* A number has one remainder.
LEMMA Remainder ==
  ASSUME NEW a \in Nat, a < 2 * NumThreads
  PROVE  a % NumThreads = IF a < NumThreads THEN a ELSE a - NumThreads
BY RoundsFacts

\* The peer to notify is step places further, the peer to wait for step places
\* before.
LEMMA Peers ==
  ASSUME NEW i \in Threads, round[i] \in Nat, round[i] < Rounds
  PROVE  /\ SendPeer(i) \in Threads /\ Dist(i, SendPeer(i)) = StepIn[round[i]]
         /\ RecvPeer(i) \in Threads /\ Dist(RecvPeer(i), i) = StepIn[round[i]]
<1>1. /\ NumThreads \in Nat \ {0} /\ i \in 0 .. NumThreads - 1
      /\ StepIn[round[i]] \in 1 .. NumThreads - 1
  BY RoundsFacts DEF Threads
<1> PICK s \in 1 .. NumThreads - 1 : s = StepIn[round[i]]
  BY <1>1
<1>2. SendPeer(i) = IF i + s < NumThreads THEN i + s ELSE i + s - NumThreads
  <2>1. PICK a \in Nat : a = i + s /\ a < 2 * NumThreads
    BY <1>1
  <2>2. a % NumThreads = IF a < NumThreads THEN a ELSE a - NumThreads
    BY <2>1, Remainder
  <2>3. SendPeer(i) = a % NumThreads
    BY <2>1 DEF SendPeer, Step
  <2>4. SendPeer(i) = IF a < NumThreads THEN a ELSE a - NumThreads
    BY <2>2, <2>3, Zenon
  <2> QED BY <1>1, <2>1, <2>4
<1>3. SendPeer(i) \in Threads /\ Dist(i, SendPeer(i)) = s
  BY <1>1, <1>2 DEF Threads, Dist
<1> DEFINE Before(p) == \E k \in 0 .. NumThreads : p + s = i + k * NumThreads
<1>4. \E p \in Threads : Before(p)
  <2>1. CASE s <= i
    <3>1. i - s \in Threads /\ 0 \in 0 .. NumThreads /\ (i - s) + s = i + 0 * NumThreads
      BY <1>1, <2>1 DEF Threads
    <3> QED BY <3>1
  <2>2. CASE s > i
    <3>1. /\ i - s + NumThreads \in Threads /\ 1 \in 0 .. NumThreads
          /\ (i - s + NumThreads) + s = i + 1 * NumThreads
      BY <1>1, <2>2 DEF Threads
    <3> QED BY <3>1
  <2> QED BY <1>1, <2>1, <2>2
<1>5. RecvPeer(i) \in Threads /\ Before(RecvPeer(i))
  BY <1>4 DEF RecvPeer, Step
<1>6. ASSUME NEW p \in Threads, Before(p) PROVE Dist(p, i) = s
  <2>1. PICK k \in 0 .. NumThreads : p + s = i + k * NumThreads
    BY <1>6
  <2>2. /\ k \in Nat /\ p \in Nat /\ i \in Nat /\ s \in Nat
        /\ p < NumThreads /\ i < NumThreads /\ s < NumThreads /\ s > 0
    BY <1>1, <2>1 DEF Threads
  <2>3. CASE k = 0
    BY <1>1, <2>1, <2>2, <2>3 DEF Dist
  <2>4. CASE k = 1
    BY <1>1, <2>1, <2>2, <2>4 DEF Dist
  <2>5. CASE k > 1
    <3>1. k * NumThreads >= 2 * NumThreads
      BY <1>1, <2>2, <2>5
    <3> QED BY <1>1, <2>1, <2>2, <3>1
  <2> QED BY <2>2, <2>3, <2>4, <2>5
<1> QED BY <1>3, <1>5, <1>6

\* Whoever is less than two steps before a thread is less than a step before it,
\* or less than a step before the peer that the thread waits for.
LEMMA Halves ==
  ASSUME NEW i \in Threads, NEW j \in Threads, NEW p \in Threads,
         ~(Dist(j, i) < Dist(p, i)), Dist(j, i) < Dist(p, i) * 2
  PROVE  Dist(j, p) < Dist(p, i)
BY RoundsFacts DEF Threads, Dist

\* Nobody is num_threads or more before a thread.
LEMMA DistType ==
  ASSUME NEW i \in Threads, NEW j \in Threads
  PROVE  Dist(j, i) \in 0 .. NumThreads - 1 /\ (Dist(j, i) = 0 <=> i = j)
BY RoundsFacts DEF Threads, Dist

\* A distance tells threads apart.
LEMMA DistUnique ==
  ASSUME NEW i \in Threads, NEW j \in Threads, NEW p \in Threads
  PROVE  /\ Dist(j, i) = Dist(p, i) => j = p
         /\ Dist(i, j) = Dist(i, p) => j = p
BY RoundsFacts DEF Threads, Dist

-----------------------------------------------------------------------------
(* The inductive invariant.                                                *)

\* episodes in which thread i has sent the notification of round r, and in which
\* thread j has received it
Sent(i, r) ==
  IF pc[i] = "out" \/ r < round[i] \/ (r = round[i] /\ pc[i] = "recv")
  THEN episode[i] ELSE episode[i] - 1
Recvd(j, r) == IF pc[j] = "out" \/ r < round[j] THEN episode[j] ELSE episode[j] - 1

Types ==
  /\ queue \in [Threads -> [Threads -> Nat]]
  /\ round \in [Threads -> 0 .. Rounds]
  /\ pc \in [Threads -> {"out", "send", "recv"}]
  /\ episode \in [Threads -> 0 .. MaxEpisodes]

\* a thread in a barrier has entered it, and waits only in one of the rounds
Place ==
  \A i \in Threads :
    /\ pc[i] # "out" => episode[i] > 0
    /\ pc[i] = "recv" => round[i] < Rounds

\* the queue between two threads a step of round r apart holds the notifications
\* of round r sent and not received
Traffic ==
  \A i, j \in Threads : \A r \in 0 .. Rounds - 1 :
    Dist(i, j) = StepIn[r] => queue[i][j] = Sent(i, r) - Recvd(j, r)

\* and no other queue is used
Unused ==
  \A i, j \in Threads :
    (\A r \in 0 .. Rounds - 1 : Dist(i, j) # StepIn[r]) => queue[i][j] = 0

\* everybody has entered the barriers that thread i has left, and those less than
\* step places before thread i the one it is in
Heard ==
  \A i, j \in Threads :
    /\ episode[j] >= Left(i)
    /\ pc[i] # "out" /\ Dist(j, i) < StepIn[round[i]] => episode[j] >= episode[i]

IndInv == Types /\ Place /\ Traffic /\ Unused /\ Heard

-----------------------------------------------------------------------------
(* Initial states and steps.                                               *)

\* Nobody has called the barrier.
LEMMA InitInv == Init => IndInv
<1> SUFFICES ASSUME Init PROVE IndInv
  OBVIOUS
<1> USE RoundsFacts DEF Init
<1>1. Types /\ Place
  BY DEF Types, Place
<1>2. Traffic /\ Unused
  BY DEF Traffic, Unused, Sent, Recvd
<1>3. Heard
  BY DEF Heard, Left
<1> QED BY <1>1, <1>2, <1>3 DEF IndInv

\* The types of one thread's variables.
LEMMA TypesAt ==
  ASSUME Types, NEW i \in Threads
  PROVE  /\ round[i] \in Nat /\ round[i] <= Rounds
         /\ pc[i] \in {"out", "send", "recv"}
         /\ episode[i] \in Nat /\ episode[i] <= MaxEpisodes
         /\ \A j \in Threads : queue[i][j] \in Nat
BY RoundsFacts DEF Types

\* Entering begins with round 0, in which a thread knows of itself only.
LEMMA EnterInv ==
  ASSUME IndInv, NEW t \in Threads, Enter(t)
  PROVE  IndInv'
<1> USE RoundsFacts DEF Enter
<1>1. Types'
  BY DEF IndInv, Types
<1>2. /\ \A i \in Threads \ {t} : /\ pc'[i] = pc[i] /\ round'[i] = round[i]
                                  /\ episode'[i] = episode[i]
      /\ pc'[t] = "send" /\ round'[t] = 0 /\ episode'[t] = episode[t] + 1 /\ queue' = queue
      /\ pc[t] = "out"
  BY DEF IndInv, Types
<1> USE TypesAt
<1>3. Place'
  BY <1>2 DEF IndInv, Place
<1>4. \A i \in Threads, r \in 0 .. Rounds - 1 :
        Sent(i, r)' = Sent(i, r) /\ Recvd(i, r)' = Recvd(i, r)
  BY <1>2 DEF IndInv, Sent, Recvd
<1>5. Traffic' /\ Unused'
  BY <1>2, <1>4 DEF IndInv, Traffic, Unused, Dist
<1>6. Heard'
  <2> SUFFICES ASSUME NEW i \in Threads, NEW j \in Threads
               PROVE  /\ episode'[j] >= Left(i)'
                      /\ pc'[i] # "out" /\ Dist(j, i)' < StepIn[round'[i]]
                           => episode'[j] >= episode'[i]
    BY DEF Heard
  <2>1. episode'[j] >= episode[j] /\ Left(i)' = Left(i) /\ Dist(j, i)' = Dist(j, i)
    BY <1>2 DEF IndInv, Left, Dist
  <2>2. episode'[j] >= Left(i)'
    BY <1>2, <2>1 DEF IndInv, Heard, Left
  <2>3. ASSUME pc'[i] # "out", Dist(j, i) < StepIn[round'[i]]
        PROVE  episode'[j] >= episode'[i]
    <3>1. CASE i = t
      BY <1>2, <2>3, <3>1, StepInDoubles, DistType DEF IndInv
    <3>2. CASE i # t
      BY <1>2, <2>1, <2>3, <3>2 DEF IndInv, Heard
    <3> QED BY <3>1, <3>2
  <2> QED BY <2>1, <2>2, <2>3
<1> QED BY <1>1, <1>3, <1>5, <1>6 DEF IndInv

\* What a queue of round r holds does not depend on another round.
LEMMA OneRound ==
  ASSUME NEW r \in 0 .. Rounds - 1, NEW q \in 0 .. Rounds - 1, StepIn[r] = StepIn[q]
  PROVE  r = q
<1>1. r \in Nat /\ q \in Nat /\ StepIn[r] \in Nat /\ StepIn[q] \in Nat
  BY RoundsFacts, StepInDoubles
<1>2. ~(r < q) /\ ~(q < r)
  BY <1>1, StepInGrows
<1> QED BY <1>1, <1>2

\* The notification adds one to the queue of the round the thread is in.
LEMMA NotifyInv ==
  ASSUME IndInv, NEW t \in Threads, Notify(t)
  PROVE  IndInv'
<1> USE RoundsFacts
<1>1. PICK r \in 0 .. Rounds - 1 : r = round[t]
  BY TypesAt DEF IndInv, Notify
<1>2. PICK s \in Threads : s = SendPeer(t) /\ Dist(t, s) = StepIn[r]
  BY <1>1, Peers
<1>3. /\ Types /\ pc[t] = "send" /\ round' = round /\ episode' = episode
      /\ pc' = [pc EXCEPT ![t] = "recv"]
      /\ queue' = [queue EXCEPT ![t][s] = @ + 1]
  BY <1>2 DEF IndInv, Notify
<1>4. Types'
  BY <1>3 DEF Types
<1>5. /\ \A i \in Threads \ {t} : pc'[i] = pc[i]
      /\ pc'[t] = "recv"
      /\ queue'[t][s] = queue[t][s] + 1
      /\ \A i, j \in Threads : ~(i = t /\ j = s) => queue'[i][j] = queue[i][j]
  BY <1>3 DEF Types
<1>6. Place'
  BY <1>1, <1>3, <1>5 DEF IndInv, Place
<1>7. \A i \in Threads, q \in 0 .. Rounds - 1 :
        /\ Recvd(i, q)' = Recvd(i, q)
        /\ Sent(i, q)' = IF i = t /\ q = r THEN Sent(i, q) + 1 ELSE Sent(i, q)
  BY <1>1, <1>3, <1>5, TypesAt DEF Sent, Recvd
<1>8. Traffic'
  <2> SUFFICES ASSUME NEW i \in Threads, NEW j \in Threads, NEW q \in 0 .. Rounds - 1,
                      Dist(i, j) = StepIn[q]
               PROVE  queue'[i][j] = Sent(i, q)' - Recvd(j, q)'
    BY DEF Traffic, Dist
  <2>1. queue[i][j] = Sent(i, q) - Recvd(j, q)
    BY DEF IndInv, Traffic
  <2>2. i = t => (j = s <=> q = r)
    BY <1>2, OneRound, DistUnique
  <2>3. Sent(i, q) \in Int /\ Recvd(j, q) \in Int
    BY <1>3, TypesAt DEF Sent, Recvd
  <2> QED BY <1>5, <1>7, <2>1, <2>2, <2>3
<1>9. Unused'
  BY <1>2, <1>5 DEF IndInv, Unused, Dist
<1>10. Heard'
  BY <1>3, <1>5 DEF IndInv, Heard, Left, Dist
<1> QED BY <1>4, <1>6, <1>8, <1>9, <1>10 DEF IndInv

\* The notification was sent by the peer in the same episode or a later one, after
\* it had heard from those less than step places before it.
LEMMA RecvNotificationInv ==
  ASSUME IndInv, NEW t \in Threads, RecvNotification(t)
  PROVE  IndInv'
<1> USE RoundsFacts
<1>1. PICK r \in 0 .. Rounds - 1 : r = round[t]
  BY TypesAt DEF IndInv, Place, RecvNotification
<1>2. PICK p \in Threads : p = RecvPeer(t) /\ Dist(p, t) = StepIn[r]
  BY <1>1, Peers
<1>3. /\ Types /\ pc[t] = "recv" /\ episode' = episode /\ queue[p][t] > 0
      /\ round' = [round EXCEPT ![t] = @ + 1]
      /\ pc' = [pc EXCEPT ![t] = "send"]
      /\ queue' = [queue EXCEPT ![p][t] = @ - 1]
  BY <1>2 DEF IndInv, RecvNotification, CanRecv
<1>4. Types'
  <2>1. queue' \in [Threads -> [Threads -> Nat]]
    BY <1>3 DEF Types
  <2>2. round' \in [Threads -> 0 .. Rounds]
    BY <1>1, <1>3 DEF Types
  <2> QED BY <1>3, <2>1, <2>2 DEF Types
<1>5. /\ \A i \in Threads \ {t} : pc'[i] = pc[i] /\ round'[i] = round[i]
      /\ pc'[t] = "send" /\ round'[t] = r + 1
      /\ queue'[p][t] = queue[p][t] - 1
      /\ \A i, j \in Threads : ~(i = p /\ j = t) => queue'[i][j] = queue[i][j]
  BY <1>1, <1>3 DEF Types
<1>6. Place'
  BY <1>3, <1>5 DEF IndInv, Place
<1>7. \A i \in Threads, q \in 0 .. Rounds - 1 :
        /\ Sent(i, q)' = Sent(i, q)
        /\ Recvd(i, q)' = IF i = t /\ q = r THEN Recvd(i, q) + 1 ELSE Recvd(i, q)
  BY <1>1, <1>3, <1>5, TypesAt DEF Sent, Recvd
<1>8. Traffic'
  <2> SUFFICES ASSUME NEW i \in Threads, NEW j \in Threads, NEW q \in 0 .. Rounds - 1,
                      Dist(i, j) = StepIn[q]
               PROVE  queue'[i][j] = Sent(i, q)' - Recvd(j, q)'
    BY DEF Traffic, Dist
  <2>1. queue[i][j] = Sent(i, q) - Recvd(j, q)
    BY DEF IndInv, Traffic
  <2>2. j = t => (i = p <=> q = r)
    BY <1>2, OneRound, DistUnique
  <2>3. Sent(i, q) \in Int /\ Recvd(j, q) \in Int
    BY <1>3, TypesAt DEF Sent, Recvd
  <2> QED BY <1>5, <1>7, <2>1, <2>2, <2>3
<1>9. Unused'
  BY <1>2, <1>5 DEF IndInv, Unused, Dist
<1>10. ASSUME NEW j \in Threads, Dist(j, t) < StepIn[r + 1]
       PROVE  episode[j] >= episode[t]
  <2>1. StepIn[r + 1] = Dist(p, t) * 2 /\ StepIn[r] \in Nat /\ r \in Nat
    BY <1>2, StepInDoubles
  <2>2. CASE Dist(j, t) < StepIn[r]
    BY <1>1, <1>3, <2>2 DEF IndInv, Heard
  <2>3. CASE ~(Dist(j, t) < StepIn[r])
    <3>1. Dist(j, p) < StepIn[r]
      BY <1>2, <1>10, <2>1, <2>3, Halves
    <3>2. queue[p][t] = Sent(p, r) - Recvd(t, r)
      BY <1>2 DEF IndInv, Traffic
    <3>3. Recvd(t, r) = episode[t] - 1
      BY <1>1, <1>3 DEF Recvd
    <3>4. /\ episode[p] \in Nat /\ episode[t] \in Nat /\ episode[j] \in Nat
          /\ round[p] \in Nat /\ Sent(p, r) \in Int
      BY <1>3, TypesAt DEF Sent
    <3>5. Sent(p, r) >= episode[t]
      BY <1>3, <3>2, <3>3, <3>4
    <3>6. CASE episode[p] > episode[t]
      BY <3>4, <3>6 DEF IndInv, Heard, Left
    <3>7. CASE ~(episode[p] > episode[t])
      <4>1. episode[p] = episode[t] /\ (pc[p] = "out" \/ r <= round[p])
        BY <3>4, <3>5, <3>7 DEF Sent
      <4>2. CASE pc[p] = "out"
        BY <4>1, <4>2 DEF IndInv, Heard, Left
      <4>3. CASE pc[p] # "out"
        <5>1. StepIn[r] <= StepIn[round[p]] /\ StepIn[round[p]] \in Nat
          <6>1. r < round[p] \/ r = round[p]
            BY <2>1, <3>4, <4>1, <4>3
          <6>2. StepIn[r] \in Nat /\ StepIn[round[p]] \in Nat
            BY <2>1, <3>4, StepInDoubles
          <6>3. r < round[p] => StepIn[r] < StepIn[round[p]]
            BY <2>1, <3>4, StepInGrows
          <6> QED BY <6>1, <6>2, <6>3
        <5>2. Dist(j, p) < StepIn[round[p]]
          BY <2>1, <3>1, <5>1, DistType
        <5> QED BY <4>1, <4>3, <5>2 DEF IndInv, Heard
      <4> QED BY <4>2, <4>3
    <3> QED BY <3>6, <3>7
  <2> QED BY <2>2, <2>3
<1>11. Heard'
  <2>1. \A i \in Threads : Left(i)' = Left(i)
    BY <1>3, <1>5 DEF Left
  <2>2. \A i, j \in Threads : Dist(j, i)' = Dist(j, i)
    BY DEF Dist
  <2>3. \A i, j \in Threads : episode'[j] >= Left(i)'
    BY <1>3, <2>1 DEF IndInv, Heard
  <2>4. ASSUME NEW i \in Threads, NEW j \in Threads,
               pc'[i] # "out", Dist(j, i) < StepIn[round'[i]]
        PROVE  episode'[j] >= episode'[i]
    <3>1. CASE i = t
      BY <1>3, <1>5, <1>10, <2>4, <3>1
    <3>2. CASE i # t
      BY <1>3, <1>5, <2>4, <3>2 DEF IndInv, Heard
    <3> QED BY <3>1, <3>2
  <2> QED BY <2>2, <2>3, <2>4 DEF Heard
<1> QED BY <1>4, <1>6, <1>8, <1>9, <1>11 DEF IndInv

\* After the last round a thread has heard from all.
LEMMA LeaveInv ==
  ASSUME IndInv, NEW t \in Threads, Leave(t)
  PROVE  IndInv' /\ \A j \in Threads : episode[j] >= episode[t]
<1> USE RoundsFacts
<1>1. /\ Types /\ pc[t] = "send" /\ round[t] = Rounds
      /\ pc' = [pc EXCEPT ![t] = "out"]
      /\ queue' = queue /\ round' = round /\ episode' = episode
  BY DEF IndInv, Leave
<1>2. Types'
  BY <1>1 DEF Types
<1>3. pc'[t] = "out" /\ \A i \in Threads \ {t} : pc'[i] = pc[i]
  BY <1>1 DEF Types
<1>4. Place'
  BY <1>1, <1>3 DEF IndInv, Place
<1>5. \A i \in Threads, q \in 0 .. Rounds - 1 :
        Sent(i, q)' = Sent(i, q) /\ Recvd(i, q)' = Recvd(i, q)
  BY <1>1, <1>3, TypesAt DEF Sent, Recvd
<1>6. Traffic' /\ Unused'
  BY <1>1, <1>5 DEF IndInv, Traffic, Unused, Dist
<1>7. ASSUME NEW j \in Threads PROVE episode[j] >= episode[t]
  <2>1. Dist(j, t) < StepIn[round[t]]
    BY <1>1, StepInDoubles, DistType
  <2> QED BY <1>1, <2>1 DEF IndInv, Heard
<1>8. Heard'
  BY <1>1, <1>3, <1>7 DEF IndInv, Heard, Left, Dist
<1> QED BY <1>2, <1>4, <1>6, <1>7, <1>8 DEF IndInv

\* Every step keeps the invariant.
LEMMA NextInv == IndInv /\ [Next]_vars => IndInv'
<1> SUFFICES ASSUME IndInv, [Next]_vars PROVE IndInv'
  OBVIOUS
<1>1. CASE UNCHANGED vars
  BY <1>1 DEF vars, IndInv, Types, Place, Traffic, Unused, Heard, Sent, Recvd, Left, Dist
<1>2. ASSUME NEW t \in Threads, Enter(t) \/ Wait(t) PROVE IndInv'
  BY <1>2, EnterInv, NotifyInv, RecvNotificationInv, LeaveInv DEF Wait
<1> QED BY <1>1, <1>2 DEF Next

\* What the queues hold and who has heard from whom, at all times.
THEOREM Invariance == Spec => []IndInv
BY InitInv, NextInv, PTL DEF Spec

-----------------------------------------------------------------------------
(* What follows from the invariant.                                        *)

\* smlt_dissem_barrier_wait never has more than two notifications in a queue: a
\* thread is at most one barrier ahead of another.
THEOREM QueuesStayShort == Spec => []QueueBound
<1>1. IndInv => QueueBound
  <2> SUFFICES ASSUME IndInv PROVE QueueBound
    OBVIOUS
  <2>1. ASSUME NEW i \in Threads, NEW j \in Threads PROVE queue[i][j] \in 0 .. 2
    <3>1. /\ queue[i][j] \in Nat /\ episode[i] \in Nat /\ episode[j] \in Nat
          /\ episode[j] >= episode[i] - 1
      BY TypesAt DEF IndInv, Heard, Left
    <3>2. CASE \A r \in 0 .. Rounds - 1 : Dist(i, j) # StepIn[r]
      BY <3>2 DEF IndInv, Unused
    <3>3. CASE \E r \in 0 .. Rounds - 1 : Dist(i, j) = StepIn[r]
      <4>1. PICK r \in 0 .. Rounds - 1 : Dist(i, j) = StepIn[r]
        BY <3>3
      <4>2. queue[i][j] = Sent(i, r) - Recvd(j, r)
        BY <4>1 DEF IndInv, Traffic
      <4> QED BY <3>1, <4>2 DEF Sent, Recvd
    <3> QED BY <3>2, <3>3
  <2>2. queue \in [Threads -> [Threads -> 0 .. 2]]
    BY <2>1 DEF IndInv, Types
  <2> QED BY <2>2 DEF IndInv, Types, QueueBound
<1> QED BY <1>1, Invariance, PTL

\* Nobody has entered or left.
LEMMA RefineInit == Init => Abstract!Init
BY DEF Init, Abstract!Init, Left

\* Entering is the abstract Enter, and leaving, after everybody has entered, the
\* abstract Leave; notifications are no steps of the barrier.
LEMMA RefineNext == IndInv /\ [Next]_vars => [Abstract!Next]_(Abstract!vars)
<1> SUFFICES ASSUME IndInv, [Next]_vars
             PROVE  Abstract!Next \/ UNCHANGED Abstract!vars
  OBVIOUS
<1>1. CASE UNCHANGED vars
  BY <1>1 DEF vars, Abstract!vars, Left
<1>2. ASSUME NEW t \in Threads, Enter(t) PROVE Abstract!Enter(t)
  <2>1. Types /\ pc[t] = "out" /\ pc' = [pc EXCEPT ![t] = "send"]
        /\ episode' = [episode EXCEPT ![t] = @ + 1]
    BY <1>2 DEF IndInv, Enter
  <2>2. \A i \in Threads : Left(i)' = Left(i)
    BY <2>1, TypesAt DEF Types, Left
  <2>3. Left(t) = episode[t]
    BY <2>1 DEF Left
  <2> QED BY <2>1, <2>2, <2>3 DEF Abstract!Enter
<1>3. ASSUME NEW t \in Threads, Notify(t) \/ RecvNotification(t)
      PROVE  UNCHANGED Abstract!vars
  <2>1. Types /\ pc[t] # "out" /\ pc'[t] # "out" /\ episode' = episode
        /\ \A i \in Threads \ {t} : pc'[i] = pc[i]
    BY <1>3 DEF IndInv, Types, Notify, RecvNotification
  <2>2. \A i \in Threads : Left(i)' = Left(i)
    BY <2>1 DEF Left
  <2> QED BY <2>1, <2>2 DEF Abstract!vars
<1>4. ASSUME NEW t \in Threads, Leave(t) PROVE Abstract!Leave(t)
  <2>1. Types /\ pc[t] = "send" /\ pc' = [pc EXCEPT ![t] = "out"] /\ episode' = episode
    BY <1>4 DEF IndInv, Leave
  <2>2. \A j \in Threads : episode[j] >= episode[t]
    BY <1>4, LeaveInv
  <2>3. Left(t) = episode[t] - 1 /\ Left(t)' = episode[t] /\ episode[t] \in Nat
    BY <2>1, TypesAt DEF Types, Left
  <2>4. \A i \in Threads \ {t} : Left(i)' = Left(i)
    BY <2>1 DEF Types, Left
  <2>5. [i \in Threads |-> Left(i)]' = [[i \in Threads |-> Left(i)] EXCEPT ![t] = @ + 1]
    <3>1. Left(t)' = Left(t) + 1
      BY <2>3
    <3> QED BY <2>4, <3>1
  <2> QED BY <2>1, <2>2, <2>3, <2>5 DEF Abstract!Leave
<1> QED BY <1>1, <1>2, <1>3, <1>4 DEF Next, Wait, Abstract!Next

\* smlt_dissem_barrier_wait is a barrier, for any number of threads.
THEOREM Refinement == Spec => ImplementsBarrier
BY RefineInit, RefineNext, Invariance, PTL DEF Spec, ImplementsBarrier, Abstract!Spec

=============================================================================
