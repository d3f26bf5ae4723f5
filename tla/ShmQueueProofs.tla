--------------------------- MODULE ShmQueueProofs ---------------------------
(***************************************************************************)
(* Proofs about ShmQueue, for every ring size and every width of the       *)
(* message numbers that ShmAssumption admits, whether the writer polls     *)
(* can_send first or not.                                                  *)
(***************************************************************************)
EXTENDS ShmQueue, TLAPS

-----------------------------------------------------------------------------
(* The arithmetic of message numbers.                                      *)

\* Incrementing and subtracting stay inside the type.
LEMMA IdxType ==
  ASSUME NEW a \in Idx, NEW b \in Idx
  PROVE  /\ IdxInc(a) \in Idx
         /\ IdxSub(a, b) \in Idx
         /\ IdxSub(a, a) = 0
BY CyclicAssumption DEF CyclicAssumption, Idx, IdxInc, IdxSub

\* Publishing a message adds one to every distance from an older number, as
\* long as the distance does not fill the whole type.
LEMMA IdxSubIncLeft ==
  ASSUME NEW a \in Idx, NEW b \in Idx, IdxSub(a, b) + 1 < IdxMod
  PROVE  IdxSub(IdxInc(a), b) = IdxSub(a, b) + 1
BY CyclicAssumption DEF CyclicAssumption, Idx, IdxInc, IdxSub

\* Receiving a message takes one from the distance.
LEMMA IdxSubIncRight ==
  ASSUME NEW a \in Idx, NEW b \in Idx, IdxSub(a, b) > 0
  PROVE  IdxSub(a, IdxInc(b)) = IdxSub(a, b) - 1
BY CyclicAssumption DEF CyclicAssumption, Idx, IdxInc, IdxSub

\* Two numbers at the same distance from a third are the same.
LEMMA IdxSubInjective ==
  ASSUME NEW a \in Idx, NEW b \in Idx, NEW c \in Idx,
         IdxSub(a, c) = IdxSub(b, c)
  PROVE  a = b
BY CyclicAssumption DEF CyclicAssumption, Idx, IdxSub

\* Different numbers are at a distance.
LEMMA IdxSubPositive ==
  ASSUME NEW a \in Idx, NEW b \in Idx, a # b
  PROVE  IdxSub(a, b) > 0
BY CyclicAssumption DEF Idx, IdxSub

\* Distances add up when their sum does not wrap.
LEMMA IdxSubSplit ==
  ASSUME NEW a \in Idx, NEW b \in Idx, NEW c \in Idx,
         IdxSub(b, c) <= IdxSub(a, c)
  PROVE  IdxSub(a, b) = IdxSub(a, c) - IdxSub(b, c)
BY CyclicAssumption DEF CyclicAssumption, Idx, IdxSub

\* A number added and taken away again.
LEMMA IdxAddSub ==
  ASSUME NEW a \in Idx, NEW n \in Idx
  PROVE  IdxAdd(a, n) \in Idx /\ IdxSub(IdxAdd(a, n), a) = n
BY CyclicAssumption DEF Idx, IdxAdd, IdxSub

-----------------------------------------------------------------------------
(* Positions in a ring of n slots.                                         *)

\* the position after p: ++pos == num
RingInc(p, n) == IF p + 1 = n THEN 0 ELSE p + 1

\* how many slots after position p slot i comes
RingDist(p, i, n) == IF i >= p THEN i - p ELSE i - p + n

\* the slot k slots after position p
RingNth(p, k, n) == IF p + k < n THEN p + k ELSE p + k - n

\* A distance is less than the size of the ring, and tells slots apart.
LEMMA RingDistType ==
  ASSUME NEW n \in Nat, NEW p \in 0 .. n - 1, NEW i \in 0 .. n - 1
  PROVE  /\ RingDist(p, i, n) \in 0 .. n - 1
         /\ RingDist(p, p, n) = 0
         /\ \A j \in 0 .. n - 1 : RingDist(p, i, n) = RingDist(p, j, n) => i = j
BY DEF RingDist

\* When the reader's position moves on, every slot comes one closer, but for the
\* one it leaves, which is the last now.
LEMMA RingDistReader ==
  ASSUME NEW n \in Nat, NEW p \in 0 .. n - 1, NEW i \in 0 .. n - 1
  PROVE  /\ RingInc(p, n) \in 0 .. n - 1
         /\ RingDist(RingInc(p, n), p, n) = n - 1
         /\ i # p => RingDist(RingInc(p, n), i, n) = RingDist(p, i, n) - 1
BY DEF RingInc, RingDist

\* The slots of a queue that begins at position p.
LEMMA RingNthDist ==
  ASSUME NEW n \in Nat, NEW p \in 0 .. n - 1, NEW k \in 0 .. n - 1
  PROVE  /\ RingNth(p, k, n) \in 0 .. n - 1
         /\ RingDist(p, RingNth(p, k, n), n) = k
BY DEF RingNth, RingDist

\* The second slot of a queue is the first one after a receive.
LEMMA RingNthReader ==
  ASSUME NEW n \in Nat, NEW p \in 0 .. n - 1, NEW k \in 0 .. n - 2
  PROVE  RingNth(RingInc(p, n), k, n) = RingNth(p, k + 1, n)
BY DEF RingInc, RingNth

\* The slot after the last one of a queue is the last one after a send.
LEMMA RingNthWriter ==
  ASSUME NEW n \in Nat, NEW p \in 0 .. n - 1, NEW k \in 0 .. n - 1
  PROVE  RingInc(RingNth(p, k, n), n) = RingNth(p, k + 1, n)
BY DEF RingInc, RingNth

-----------------------------------------------------------------------------
(* A queue given by its length and its elements.                           *)

\* One more element at the end is a send.
LEMMA QueueAppend ==
  ASSUME NEW S, NEW q \in Seq(S), NEW r \in Seq(S), NEW x \in S,
         Len(r) = Len(q) + 1,
         \A k \in 1 .. Len(q) : r[k] = q[k],
         r[Len(q) + 1] = x
  PROVE  r = Append(q, x)
OBVIOUS

\* The same elements without the first are what a receive leaves.
LEMMA QueueTail ==
  ASSUME NEW S, NEW q \in Seq(S), NEW r \in Seq(S),
         Len(q) > 0,
         Len(r) = Len(q) - 1,
         \A k \in 1 .. Len(q) - 1 : r[k] = q[k + 1]
  PROVE  q # <<>> /\ Head(q) = q[1] /\ r = Tail(q)
OBVIOUS

-----------------------------------------------------------------------------
(* The invariant.                                                          *)

\* the writer's position, which wraps only in the next send
WriterSlot == IF wPos = NumSlots THEN 0 ELSE wPos

\* how many messages ago, at most, slot i was written
Age(i) == NumSlots - RingDist(WriterSlot, i, NumSlots)

(* The position the writer last read, plus the distance to the sync point, *)
(* never reaches the reader's position; the numbers in slots without a     *)
(* message are from the lap before.                                        *)
Positions ==
  /\ IdxInc(readerPos) = rSeq
  /\ InFlight + IdxSub(wSync, wSeq) <= NumSlots - 2
  /\ wpc \in {"payload", "header"} => wSeq # wSync
  /\ wpc # "idle" => wPos < NumSlots
  /\ WriterSlot = RingNth(rPos, InFlight, NumSlots)
  /\ rpc # "idle" => InFlight > 0
  /\ wpc = "header" /\ op = "send" => data[wPos] = wSeq
  /\ \A i \in Slots : IdxSub(wSeq, header[i]) \in 1 .. Age(i)

\* a message that was sent and not received is in its slot, number and payload
Unread ==
  \A i \in Slots : Ahead(i) < InFlight =>
    /\ IdxSub(header[i], rSeq) = Ahead(i)
    /\ kind[i] = "send" => data[i] = header[i]

IndInv == TypeOK /\ Positions /\ Unread

-----------------------------------------------------------------------------
\* The constants, in plain arithmetic.
LEMMA Constants ==
  NumSlots \in Nat /\ NumSlots > 2 /\ IdxMod \in Nat /\ IdxMod > NumSlots
BY ShmAssumption, CyclicAssumption

\* Fresh memory and the two contexts of shm_init_context satisfy the invariant.
LEMMA InitInv == Init => IndInv
<1> SUFFICES ASSUME Init PROVE IndInv
  OBVIOUS
<1> USE Constants DEF Init
<1>1. TypeOK
  BY DEF TypeOK, Slots, Idx, Calls
<1>2. InFlight = 0 /\ WriterSlot = 0 /\ \A i \in Slots : Ahead(i) = i /\ Age(i) = NumSlots - i
  BY DEF InFlight, IdxSub, Ahead, Age, WriterSlot, RingDist, Slots
<1>3. Positions
  <2>1. IdxInc(readerPos) = rSeq /\ IdxSub(wSync, wSeq) = NumSlots - 2
    BY DEF IdxInc, IdxSub
  <2>2. \A i \in Slots : IdxSub(wSeq, header[i]) \in 1 .. Age(i)
    BY <1>2 DEF IdxSub, Slots
  <2> QED BY <1>2, <2>1, <2>2 DEF Positions, RingNth
<1>4. Unread
  BY <1>2 DEF Unread, Slots
<1> QED BY <1>1, <1>3, <1>4 DEF IndInv

-----------------------------------------------------------------------------
\* Where the two ends stand, in terms of distances in the ring.
LEMMA Distances ==
  ASSUME IndInv
  PROVE  /\ InFlight \in 0 .. NumSlots - 2
         /\ IdxSub(wSync, wSeq) \in 0 .. NumSlots - 2
         /\ wpc \in {"payload", "header"} => InFlight < NumSlots - 2
         /\ \A i \in Slots : Ahead(i) = RingDist(rPos, i, NumSlots)
         /\ \A i \in Slots : Ahead(i) \in 0 .. NumSlots - 1
         /\ \A i, j \in Slots : Ahead(i) = Ahead(j) => i = j
         /\ Ahead(rPos) = 0
         /\ WriterSlot \in Slots
         /\ Ahead(WriterSlot) = InFlight
         /\ wpc # "idle" => wPos = WriterSlot
<1>1. /\ wSeq \in Idx /\ rSeq \in Idx /\ wSync \in Idx
      /\ rPos \in 0 .. NumSlots - 1 /\ wPos \in 0 .. NumSlots
  BY DEF IndInv, TypeOK, Slots
<1>2. InFlight \in Nat /\ IdxSub(wSync, wSeq) \in Nat
  BY <1>1, IdxType DEF InFlight, Idx
<1>3. InFlight + IdxSub(wSync, wSeq) <= NumSlots - 2
  BY DEF IndInv, Positions
<1>4. wpc \in {"payload", "header"} => IdxSub(wSync, wSeq) > 0
  BY <1>1, IdxSubPositive DEF IndInv, Positions
<1>5. /\ InFlight \in 0 .. NumSlots - 2
      /\ IdxSub(wSync, wSeq) \in 0 .. NumSlots - 2
      /\ wpc \in {"payload", "header"} => InFlight < NumSlots - 2
  BY <1>2, <1>3, <1>4, Constants
<1>6. \A i \in Slots : Ahead(i) = RingDist(rPos, i, NumSlots)
  BY DEF Ahead, RingDist
<1>7. \A i, j \in Slots :
        /\ RingDist(rPos, i, NumSlots) \in 0 .. NumSlots - 1
        /\ RingDist(rPos, i, NumSlots) = RingDist(rPos, j, NumSlots) => i = j
  BY <1>1, RingDistType, Constants DEF Slots
<1>8. Ahead(rPos) = 0
  BY <1>1 DEF Ahead
<1>9. WriterSlot \in Slots /\ Ahead(WriterSlot) = InFlight
  <2>1. InFlight \in 0 .. NumSlots - 1
    BY <1>5, Constants
  <2>2. WriterSlot = RingNth(rPos, InFlight, NumSlots)
    BY DEF IndInv, Positions
  <2>3. WriterSlot \in Slots /\ RingDist(rPos, WriterSlot, NumSlots) = InFlight
    BY <1>1, <2>1, <2>2, RingNthDist, Constants DEF Slots
  <2> QED BY <1>6, <2>3
<1>10. wpc # "idle" => wPos = WriterSlot
  BY <1>1, Constants DEF IndInv, Positions, WriterSlot
<1> QED BY <1>5, <1>6, <1>7, <1>8, <1>9, <1>10

\* shm_q_can_recv is right: a slot without a message shows the number of an
\* older one, never the one the reader waits for.
LEMMA CanRecvRight ==
  ASSUME IndInv
  PROVE  CanRecv <=> InFlight > 0
<1>1. rPos \in Slots /\ header[rPos] \in Idx /\ rSeq \in Idx /\ wSeq \in Idx
  BY DEF IndInv, TypeOK
<1>2. ASSUME InFlight > 0 PROVE CanRecv
  <2>1. IdxSub(header[rPos], rSeq) = 0
    BY <1>1, <1>2, Distances DEF IndInv, Unread
  <2> QED BY <1>1, <2>1, IdxType, IdxSubInjective DEF CanRecv
<1>3. ASSUME InFlight = 0 PROVE ~CanRecv
  <2>1. wSeq = rSeq
    BY <1>1, <1>3, IdxSubPositive DEF InFlight
  <2>2. IdxSub(wSeq, header[rPos]) >= 1
    BY <1>1, Constants DEF IndInv, Positions
  <2> QED BY <1>1, <2>1, <2>2, IdxType DEF CanRecv
<1> QED BY <1>2, <1>3, Distances

-----------------------------------------------------------------------------
(* One lemma per action.                                                   *)

\* The beginning of shm_q_send and shm_q_send0 only wraps the position.
LEMMA SendInv ==
  ASSUME IndInv, NEW o \in Calls, Send(o)
  PROVE  IndInv'
<1> USE DEF Send, Store, sharedVars, rVars
<1>1. TypeOK'
  BY Constants DEF IndInv, TypeOK
<1>2. /\ InFlight' = InFlight /\ WriterSlot' = WriterSlot
      /\ \A i \in Slots : Ahead(i)' = Ahead(i) /\ Age(i)' = Age(i)
  BY Constants DEF InFlight, WriterSlot, Ahead, Age
<1>3. Positions'
  <2>1. wPos' < NumSlots
    BY Constants DEF IndInv, TypeOK
  <2>2. wpc' \in {"payload", "header"} => wSeq # wSync
    BY DEF CanSend
  <2>3. wpc' = "header" /\ op' = "send" => FALSE
    BY DEF Calls
  <2> QED BY <1>2, <2>1, <2>2, <2>3 DEF IndInv, Positions
<1>4. Unread'
  BY <1>2 DEF IndInv, Unread
<1> QED BY <1>1, <1>3, <1>4 DEF IndInv

\* get_next_sync allows for NumSlots - 2 messages after the position published
\* last, however far the reader has got since.
LEMMA SyncInv ==
  ASSUME IndInv, Sync
  PROVE  IndInv'
<1> USE DEF Sync, Store, sharedVars, rVars
<1>1. /\ wSeq \in Idx /\ rSeq \in Idx /\ readerPos \in Idx
      /\ NumSlots - 1 \in Idx /\ IdxInc(readerPos) = rSeq
  BY Constants DEF IndInv, TypeOK, Positions, Idx
<1>2. NextSync \in Idx /\ IdxSub(NextSync, readerPos) = NumSlots - 1
  BY <1>1, IdxAddSub DEF NextSync
<1>3. TypeOK'
  BY <1>2 DEF IndInv, TypeOK
<1>4. /\ InFlight' = InFlight /\ WriterSlot' = WriterSlot
      /\ \A i \in Slots : Ahead(i)' = Ahead(i) /\ Age(i)' = Age(i)
  BY DEF InFlight, WriterSlot, Ahead, Age
<1>5. IdxSub(NextSync, wSeq) = NumSlots - 2 - InFlight
  <2>1. IdxSub(NextSync, rSeq) = NumSlots - 2
    BY <1>1, <1>2, IdxSubIncRight, Constants
  <2>2. IdxSub(wSeq, rSeq) <= NumSlots - 2
    BY Distances, Constants DEF InFlight
  <2> QED BY <1>1, <1>2, <2>1, <2>2, IdxSubSplit DEF InFlight
<1>6. Positions'
  <2>1. InFlight' + IdxSub(wSync', wSeq') <= NumSlots - 2
    BY <1>4, <1>5, Distances, Constants
  <2>2. wpc' \in {"payload", "header"} => wSeq' # wSync'
    OBVIOUS
  <2>3. wpc' = "header" /\ op' = "send" => FALSE
    BY DEF IndInv, TypeOK
  <2> QED BY <1>4, <2>1, <2>2, <2>3 DEF IndInv, Positions
<1>7. Unread'
  BY <1>4 DEF IndInv, Unread
<1> QED BY <1>3, <1>6, <1>7 DEF IndInv

\* The payload goes to the slot after the last message, which holds none.
LEMMA WritePayloadInv ==
  ASSUME IndInv, WritePayload
  PROVE  IndInv'
<1> USE DEF WritePayload, rVars
<1>1. TypeOK'
  BY Constants DEF IndInv, TypeOK, Positions, Slots
<1>2. /\ InFlight' = InFlight /\ WriterSlot' = WriterSlot
      /\ \A i \in Slots : Ahead(i)' = Ahead(i) /\ Age(i)' = Age(i)
  BY DEF InFlight, WriterSlot, Ahead, Age
<1>3. Positions'
  <2>1. wPos \in Slots
    BY Distances
  <2>2. data'[wPos] = wSeq
    BY <2>1 DEF IndInv, TypeOK
  <2> QED BY <1>2, <2>2 DEF IndInv, Positions
<1>4. Unread'
  <2>1. \A i \in Slots : Ahead(i) < InFlight => i # wPos
    BY Distances
  <2>2. \A i \in Slots : i # wPos => data'[i] = data[i]
    BY DEF IndInv, TypeOK
  <2> QED BY <1>2, <2>1, <2>2 DEF IndInv, Unread
<1> QED BY <1>1, <1>3, <1>4 DEF IndInv

\* Storing the header makes the slot the last message, and every other slot one
\* message older.
LEMMA WriteHeaderInv ==
  ASSUME IndInv, WriteHeader
  PROVE  IndInv'
<1> USE DEF WriteHeader, rVars
<1>1. /\ wSeq \in Idx /\ rSeq \in Idx /\ wSync \in Idx
      /\ wPos \in Slots /\ WriterSlot = wPos /\ Ahead(wPos) = InFlight
      /\ InFlight \in 0 .. NumSlots - 3
      /\ header \in [Slots -> Idx] /\ kind \in [Slots -> Calls]
  BY Distances, Constants DEF IndInv, TypeOK
<1>2. TypeOK'
  <2>1. wSeq' \in Idx
    BY <1>1, IdxType
  <2>2. wPos' \in 0 .. NumSlots
    BY <1>1, Constants DEF Slots
  <2> QED BY <1>1, <2>1, <2>2 DEF IndInv, TypeOK
<1>3. InFlight' = InFlight + 1
  BY <1>1, IdxSubIncLeft, Constants DEF InFlight
<1>4. WriterSlot' = RingInc(wPos, NumSlots)
  BY DEF WriterSlot, RingInc
<1>5. \A i \in Slots : Ahead(i)' = Ahead(i)
  BY DEF Ahead
<1>6. \A i \in Slots : IdxSub(wSeq', header'[i]) \in 1 .. Age(i)'
  <2> TAKE i \in Slots
  <2>1. Age(i)' = NumSlots - RingDist(RingInc(wPos, NumSlots), i, NumSlots)
    BY <1>4 DEF Age
  <2>2. CASE i = wPos
    <3>1. header'[i] = wSeq
      BY <1>1, <2>2
    <3>2. IdxSub(wSeq', wSeq) = 1
      BY <1>1, IdxType, IdxSubIncLeft, Constants
    <3>3. Age(i)' = 1
      BY <1>1, <2>1, <2>2, RingDistReader, Constants DEF Slots
    <3> QED BY <3>1, <3>2, <3>3
  <2>3. CASE i # wPos
    <3>1. header'[i] = header[i] /\ header[i] \in Idx
      BY <1>1, <2>3
    <3>2. RingDist(wPos, i, NumSlots) \in 1 .. NumSlots - 1
      <4>1. wPos \in 0 .. NumSlots - 1 /\ i \in 0 .. NumSlots - 1
        BY <1>1 DEF Slots
      <4>2. /\ RingDist(wPos, i, NumSlots) \in 0 .. NumSlots - 1
            /\ RingDist(wPos, i, NumSlots) # RingDist(wPos, wPos, NumSlots)
            /\ RingDist(wPos, wPos, NumSlots) = 0
        BY <2>3, <4>1, RingDistType, Constants
      <4> QED BY <4>2, Constants
    <3>3. Age(i) = NumSlots - RingDist(wPos, i, NumSlots)
      BY <1>1 DEF Age
    <3>4. Age(i)' = Age(i) + 1 /\ Age(i) \in 1 .. NumSlots - 1
      <4>1. RingDist(RingInc(wPos, NumSlots), i, NumSlots) =
              RingDist(wPos, i, NumSlots) - 1
        BY <1>1, <2>3, RingDistReader, Constants DEF Slots
      <4> QED BY <2>1, <3>2, <3>3, <4>1, Constants
    <3>5. IdxSub(wSeq, header[i]) \in 1 .. Age(i)
      BY DEF IndInv, Positions
    <3>6. IdxSub(wSeq', header[i]) = IdxSub(wSeq, header[i]) + 1
      BY <1>1, <3>1, <3>4, <3>5, IdxSubIncLeft, Constants
    <3> QED BY <3>1, <3>4, <3>5, <3>6
  <2> QED BY <2>2, <2>3
<1>7. Positions'
  <2>1. IdxSub(wSync, wSeq') = IdxSub(wSync, wSeq) - 1
    BY <1>1, IdxSubPositive, IdxSubIncRight DEF IndInv, Positions
  <2>2. InFlight' + IdxSub(wSync', wSeq') <= NumSlots - 2
    BY <1>3, <2>1, Distances, Constants DEF IndInv, Positions
  <2>3. WriterSlot' = RingNth(rPos, InFlight + 1, NumSlots)
    <3>1. rPos \in 0 .. NumSlots - 1 /\ wPos = RingNth(rPos, InFlight, NumSlots)
      BY <1>1 DEF IndInv, TypeOK, Positions, Slots
    <3> QED BY <1>1, <1>4, <3>1, RingNthWriter, Constants
  <2> QED BY <1>1, <1>3, <1>6, <2>2, <2>3 DEF IndInv, Positions
<1>8. Unread'
  <2> SUFFICES ASSUME NEW i \in Slots, Ahead(i) < InFlight + 1
               PROVE  /\ IdxSub(header'[i], rSeq) = Ahead(i)
                      /\ kind'[i] = "send" => data[i] = header'[i]
    BY <1>3, <1>5 DEF Unread
  <2>1. CASE i = wPos
    BY <1>1, <2>1 DEF IndInv, Positions, InFlight
  <2>2. CASE i # wPos
    <3>1. Ahead(i) < InFlight
      BY <1>1, <2>2, Distances
    <3> QED BY <1>1, <2>2, <3>1 DEF IndInv, Unread
  <2> QED BY <2>1, <2>2
<1> QED BY <1>2, <1>7, <1>8 DEF IndInv

\* Polling and copying change nothing shared.
LEMMA ReadInv ==
  ASSUME IndInv, ReadPayload \/ \E then \in {"copy", "advance"} : Receive(then)
  PROVE  IndInv'
<1>1. /\ UNCHANGED <<sharedVars, wVars, rPos, rSeq, kind>>
      /\ rpc' \in {"copy", "advance"}
      /\ rpc # "idle" \/ CanRecv
  BY DEF ReadPayload, Receive
<1>2. InFlight > 0
  BY <1>1, CanRecvRight DEF IndInv, Positions
<1> USE <1>1 DEF sharedVars, wVars
<1>3. TypeOK'
  BY DEF IndInv, TypeOK
<1>4. /\ InFlight' = InFlight /\ WriterSlot' = WriterSlot
      /\ \A i \in Slots : Ahead(i)' = Ahead(i) /\ Age(i)' = Age(i)
  BY DEF InFlight, WriterSlot, Ahead, Age
<1>5. Positions'
  BY <1>2, <1>4 DEF IndInv, Positions
<1>6. Unread'
  BY <1>4 DEF IndInv, Unread
<1> QED BY <1>3, <1>5, <1>6 DEF IndInv

\* Publishing the position gives the oldest slot back.
LEMMA AdvanceInv ==
  ASSUME IndInv, Advance
  PROVE  IndInv'
<1> USE DEF Advance, wVars
<1>1. /\ wSeq \in Idx /\ rSeq \in Idx /\ rPos \in 0 .. NumSlots - 1
      /\ header \in [Slots -> Idx] /\ InFlight \in 1 .. NumSlots - 2
  <2>1. InFlight > 0 /\ InFlight \in 0 .. NumSlots - 2
    BY Distances DEF IndInv, Positions
  <2>2. InFlight \in 1 .. NumSlots - 2
    BY <2>1, Constants
  <2> QED BY <2>2 DEF IndInv, TypeOK, Slots
<1>2. rPos' = RingInc(rPos, NumSlots) /\ rPos' \in Slots
  BY <1>1, Constants DEF PosInc, RingInc, Slots
<1>3. TypeOK'
  BY <1>1, <1>2, IdxType DEF IndInv, TypeOK
<1>4. InFlight' = InFlight - 1
  BY <1>1, IdxSubIncRight DEF InFlight
<1>5. WriterSlot' = WriterSlot /\ \A i \in Slots : Age(i)' = Age(i)
  BY DEF WriterSlot, Age
<1>6. \A i \in Slots : Ahead(i)' = IF i = rPos THEN NumSlots - 1 ELSE Ahead(i) - 1
  <2> TAKE i \in Slots
  <2>1. Ahead(i)' = RingDist(RingInc(rPos, NumSlots), i, NumSlots)
    BY <1>2 DEF Ahead, RingDist
  <2>2. i \in 0 .. NumSlots - 1 /\ Ahead(i) = RingDist(rPos, i, NumSlots)
    BY Distances DEF Slots
  <2> QED BY <1>1, <2>1, <2>2, RingDistReader, Constants
<1>7. Positions'
  <2>1. WriterSlot = RingNth(rPos', InFlight', NumSlots)
    <3>1. InFlight - 1 \in 0 .. NumSlots - 2 /\ (InFlight - 1) + 1 = InFlight
      BY <1>1, Constants
    <3>2. RingNth(RingInc(rPos, NumSlots), InFlight - 1, NumSlots) =
            RingNth(rPos, InFlight, NumSlots)
      BY <1>1, <3>1, RingNthReader, Constants
    <3> QED BY <1>2, <1>4, <3>2 DEF IndInv, Positions
  <2>2. InFlight' + IdxSub(wSync', wSeq') <= NumSlots - 2
    BY <1>1, <1>4, Distances, Constants DEF IndInv, Positions
  <2> QED BY <1>5, <2>1, <2>2 DEF IndInv, Positions
<1>8. Unread'
  <2> SUFFICES ASSUME NEW i \in Slots, Ahead(i)' < InFlight'
               PROVE  /\ IdxSub(header[i], IdxInc(rSeq)) = Ahead(i)'
                      /\ kind[i] = "send" => data[i] = header[i]
    BY DEF Unread
  <2>1. i # rPos /\ Ahead(i) < InFlight /\ Ahead(i)' = Ahead(i) - 1 /\ Ahead(i) > 0
    <3>1. Ahead(i) \in 0 .. NumSlots - 1 /\ (Ahead(i) = 0 => i = rPos)
      BY Distances DEF IndInv, TypeOK
    <3>2. i # rPos
      BY <1>1, <1>4, <1>6, Constants
    <3> QED BY <1>1, <1>4, <1>6, <3>1, <3>2, Constants
  <2>2. /\ IdxSub(header[i], rSeq) = Ahead(i)
        /\ kind[i] = "send" => data[i] = header[i]
    BY <2>1 DEF IndInv, Unread
  <2> QED BY <1>1, <2>1, <2>2, IdxSubIncRight
<1> QED BY <1>3, <1>7, <1>8 DEF IndInv

\* Every step of either end preserves the invariant.
LEMMA NextInv == IndInv /\ [Next]_vars => IndInv'
<1> SUFFICES ASSUME IndInv, [Next]_vars PROVE IndInv'
  OBVIOUS
<1>1. ASSUME NEW o \in Calls, Send(o) PROVE IndInv'
  BY <1>1, SendInv
<1>2. CASE Writer
  BY <1>2, SyncInv, WritePayloadInv, WriteHeaderInv DEF Writer
<1>3. CASE Reader
  BY <1>3, ReadInv, AdvanceInv DEF Reader
<1>4. CASE Poll \/ UNCHANGED vars
  BY <1>4 DEF Poll, vars, sharedVars, wVars, rVars, IndInv, TypeOK, Positions, Unread,
     InFlight, Ahead, Age, WriterSlot
<1> QED BY <1>1, <1>2, <1>3, <1>4 DEF Next

\* The invariant holds in every reachable state of a SHM queue.
THEOREM Invariance == Spec => []IndInv
BY InitInv, NextInv, PTL DEF Spec

\* Positions stay inside the ring and numbers in their type.
THEOREM TypeCorrect == Spec => []TypeOK
<1>1. IndInv => TypeOK
  BY DEF IndInv
<1> QED BY <1>1, Invariance, PTL

\* For every ring size, the poll of shm_q_can_recv finds a message exactly when
\* there is one, messages stay in their slots until the reader is done with
\* them, and the writer, on a position that get_next_sync read long ago, never
\* fills a slot the reader still has to read.
THEOREM MessagesIntact == Spec => []Intact
<1>1. ASSUME IndInv PROVE Intact
  BY <1>1, CanRecvRight, Distances, Constants DEF IndInv, Unread, Intact
<1> QED BY <1>1, Invariance, PTL

-----------------------------------------------------------------------------
(* The ring implements the FIFO channel.                                   *)

\* the messages of the abstract channel are the numbers in the headers, in order
RingContents ==
  /\ RingQueue \in Seq(Idx)
  /\ Len(RingQueue) = InFlight
  /\ \A k \in 1 .. InFlight : RingQueue[k] = header[RingSlot(k)]

\* The k-th message in flight is k - 1 slots after the reader's position.
LEMMA RingSlots ==
  ASSUME IndInv, NEW k \in 1 .. NumSlots
  PROVE  /\ RingSlot(k) = RingNth(rPos, k - 1, NumSlots)
         /\ RingSlot(k) \in Slots
         /\ Ahead(RingSlot(k)) = k - 1
<1>1. rPos \in 0 .. NumSlots - 1 /\ k - 1 \in 0 .. NumSlots - 1
  BY Constants DEF IndInv, TypeOK, Slots
<1>2. RingSlot(k) = RingNth(rPos, k - 1, NumSlots)
  BY <1>1, Constants DEF RingSlot, RingNth
<1>3. RingSlot(k) \in Slots
  BY <1>1, <1>2, RingNthDist, Constants DEF Slots
<1>4. Ahead(RingSlot(k)) = RingDist(rPos, RingSlot(k), NumSlots)
  BY <1>3, Distances
<1> QED BY <1>1, <1>2, <1>3, <1>4, RingNthDist, Constants

\* The invariant makes the refinement mapping well defined.
LEMMA RingType == IndInv => RingContents
<1> SUFFICES ASSUME IndInv PROVE RingContents
  OBVIOUS
<1>1. InFlight \in Nat /\ InFlight <= NumSlots
  BY Distances, Constants
<1>2. \A k \in 1 .. InFlight : RingSlot(k) \in Slots
  BY <1>1, RingSlots, Constants
<1>3. \A k \in 1 .. InFlight : header[RingSlot(k)] \in Idx
  BY <1>2 DEF IndInv, TypeOK
<1> QED BY <1>1, <1>3 DEF RingContents, RingQueue

\* The same of the next state.
LEMMA RingTypeNext == IndInv' => RingContents'
BY RingType, PTL

\* Fresh memory is the empty channel.
LEMMA RefineInit == Init => Fifo!Init
<1> SUFFICES ASSUME Init PROVE Fifo!Init
  OBVIOUS
<1>1. InFlight = 0 /\ readerPos = 0 /\ wSeq = 1
  BY DEF Init, InFlight, IdxSub
<1>2. RingQueue = <<>>
  BY <1>1 DEF RingQueue
<1> QED BY <1>1, <1>2 DEF Fifo!Init

\* Storing the header is the abstract Send.
LEMMA RefineWriteHeader ==
  ASSUME IndInv, IndInv', WriteHeader
  PROVE  Fifo!Send
<1>1. /\ InFlight \in Nat /\ InFlight < NumSlots - 2 /\ Ahead(wPos) = InFlight
      /\ wPos \in Slots /\ wSeq \in Idx /\ rSeq \in Idx
  BY Distances DEF IndInv, TypeOK, WriteHeader
<1>2. InFlight' = InFlight + 1
  BY <1>1, IdxSubIncLeft, Constants DEF InFlight, WriteHeader, rVars
<1>3. \A k \in 1 .. InFlight + 1 : RingSlot(k)' = RingSlot(k)
  BY DEF RingSlot, WriteHeader, rVars
<1>4. RingSlot(InFlight + 1) = wPos
  <2>1. InFlight + 1 \in 1 .. NumSlots
    BY <1>1, Constants
  <2>2. RingSlot(InFlight + 1) \in Slots /\ Ahead(RingSlot(InFlight + 1)) = InFlight
    BY <1>1, <2>1, RingSlots
  <2> QED BY <1>1, <2>2, Distances
<1>5. \A k \in 1 .. InFlight : RingSlot(k) \in Slots /\ RingSlot(k) # wPos
  <2> TAKE k \in 1 .. InFlight
  <2>1. k \in 1 .. NumSlots /\ k - 1 < InFlight
    BY <1>1, Constants
  <2> QED BY <1>1, <2>1, RingSlots
<1>6. RingQueue' = Append(RingQueue, wSeq)
  <2>1. /\ RingQueue \in Seq(Idx) /\ Len(RingQueue) = InFlight
        /\ \A k \in 1 .. InFlight : RingQueue[k] = header[RingSlot(k)]
    BY RingType DEF RingContents
  <2>2. /\ RingQueue' \in Seq(Idx) /\ Len(RingQueue') = InFlight + 1
        /\ \A k \in 1 .. InFlight + 1 : RingQueue'[k] = header'[RingSlot(k)]
    BY <1>2, <1>3, RingTypeNext DEF RingContents
  <2>3. \A i \in Slots : header'[i] = IF i = wPos THEN wSeq ELSE header[i]
    BY <1>1 DEF IndInv, TypeOK, WriteHeader
  <2>4. \A k \in 1 .. InFlight : RingQueue'[k] = RingQueue[k]
    BY <1>1, <1>5, <2>1, <2>2, <2>3
  <2>5. RingQueue'[InFlight + 1] = wSeq
    BY <1>1, <1>4, <2>2, <2>3
  <2> QED BY <1>1, <2>1, <2>2, <2>4, <2>5, QueueAppend
<1>7. Len(RingQueue) < NumSlots - 2
  BY <1>1, RingType DEF RingContents
<1>8. wSeq' = Fifo!IdxInc(wSeq)
  BY DEF WriteHeader, IdxInc, Fifo!IdxInc
<1> QED BY <1>6, <1>7, <1>8 DEF Fifo!Send, WriteHeader

\* Publishing the position is the abstract Recv.
LEMMA RefineAdvance ==
  ASSUME IndInv, IndInv', Advance
  PROVE  Fifo!Recv
<1>1. /\ InFlight \in Nat /\ InFlight > 0 /\ InFlight <= NumSlots
      /\ rPos \in 0 .. NumSlots - 1 /\ wSeq \in Idx /\ rSeq \in Idx
  <2>1. InFlight > 0 /\ InFlight \in 0 .. NumSlots - 2
    BY Distances DEF IndInv, Positions, Advance
  <2>2. InFlight \in Nat /\ InFlight <= NumSlots
    BY <2>1, Constants
  <2> QED BY <2>1, <2>2 DEF IndInv, TypeOK, Slots
<1>2. InFlight' = InFlight - 1
  BY <1>1, IdxSubIncRight DEF InFlight, Advance, wVars
<1>3. \A k \in 1 .. InFlight - 1 : RingSlot(k)' = RingSlot(k + 1)
  <2> TAKE k \in 1 .. InFlight - 1
  <2>1. k \in 1 .. NumSlots /\ k + 1 \in 1 .. NumSlots /\ k - 1 \in 0 .. NumSlots - 2
    BY <1>1, Constants
  <2>2. rPos' = RingInc(rPos, NumSlots) /\ rPos' \in 0 .. NumSlots - 1
    BY <1>1, Constants DEF Advance, PosInc, RingInc
  <2>3. RingSlot(k)' = RingNth(RingInc(rPos, NumSlots), k - 1, NumSlots)
    BY <2>1, <2>2, Constants DEF RingSlot, RingNth
  <2>4. RingSlot(k + 1) = RingNth(rPos, (k - 1) + 1, NumSlots)
    BY <2>1, RingSlots
  <2> QED BY <1>1, <2>1, <2>3, <2>4, RingNthReader, Constants
<1>4. /\ RingQueue \in Seq(Idx) /\ Len(RingQueue) = InFlight
      /\ \A k \in 1 .. InFlight : RingQueue[k] = header[RingSlot(k)]
  BY RingType DEF RingContents
<1>5. /\ RingQueue' \in Seq(Idx) /\ Len(RingQueue') = InFlight - 1
      /\ \A k \in 1 .. InFlight - 1 : RingQueue'[k] = header[RingSlot(k + 1)]
  BY <1>2, <1>3, RingTypeNext DEF RingContents, Advance
<1>6. RingQueue # <<>> /\ RingQueue' = Tail(RingQueue) /\ Head(RingQueue) = RingQueue[1]
  <2>1. \A k \in 1 .. InFlight - 1 : RingQueue'[k] = RingQueue[k + 1]
    BY <1>1, <1>4, <1>5
  <2> QED BY <1>1, <1>4, <1>5, <2>1, QueueTail
<1>7. RingQueue[1] = rSeq
  <2>1. RingSlot(1) = rPos
    BY <1>1, Constants DEF RingSlot
  <2>2. header[rPos] = rSeq
    BY <1>1, CanRecvRight DEF CanRecv
  <2> QED BY <1>1, <1>4, <2>1, <2>2
<1> QED BY <1>6, <1>7 DEF Fifo!Recv, Advance, wVars

\* Every step of the ring is a step of the channel or a stutter.
LEMMA RefineNext == IndInv /\ IndInv' /\ [Next]_vars => [Fifo!Next]_(Fifo!vars)
<1> SUFFICES ASSUME IndInv, IndInv', [Next]_vars
             PROVE  Fifo!Next \/ UNCHANGED Fifo!vars
  OBVIOUS
<1>1. ASSUME UNCHANGED <<header, readerPos, wSeq, rPos, rSeq>>
      PROVE  UNCHANGED Fifo!vars
  BY <1>1 DEF Fifo!vars, RingQueue, RingSlot, InFlight
<1>2. ASSUME NEW o \in Calls, Send(o) PROVE UNCHANGED Fifo!vars
  BY <1>1, <1>2 DEF Send, sharedVars, rVars
<1>3. CASE Sync \/ WritePayload
  BY <1>1, <1>3 DEF Sync, WritePayload, sharedVars, rVars
<1>4. CASE WriteHeader
  BY <1>4, RefineWriteHeader DEF Fifo!Next
<1>5. CASE Receive("copy") \/ Receive("advance") \/ ReadPayload
  BY <1>1, <1>5 DEF Receive, ReadPayload, sharedVars, wVars
<1>6. CASE Advance
  BY <1>6, RefineAdvance DEF Fifo!Next
<1>7. CASE Poll \/ UNCHANGED vars
  BY <1>1, <1>7 DEF Poll, vars, sharedVars, wVars, rVars
<1> QED BY <1>2, <1>3, <1>4, <1>5, <1>6, <1>7 DEF Next, Writer, Reader

\* A SHM queue of any size is a bounded FIFO channel of num_slots - 2 messages.
THEOREM Refinement == Spec => ImplementsFifo
BY RefineInit, RefineNext, Invariance, PTL DEF Spec, ImplementsFifo, Fifo!Spec

=============================================================================
