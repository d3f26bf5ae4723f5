--------------------------- MODULE FfqQueueProofs ---------------------------
(***************************************************************************)
(* Proofs about FfqQueue, for every ring size and every width of the       *)
(* words, as long as the application sends no EMPTY as its first word      *)
(* (AppAssumption): such a message would not be seen.                      *)
(***************************************************************************)
EXTENDS FfqQueue, TLAPS

-----------------------------------------------------------------------------
(* The arithmetic of message numbers.                                      *)

\* Incrementing and subtracting stay inside the type.
LEMMA IdxType ==
  ASSUME NEW a \in Idx, NEW b \in Idx
  PROVE  /\ IdxInc(a) \in Idx
         /\ IdxSub(a, b) \in Idx
         /\ IdxSub(a, a) = 0
BY CyclicAssumption DEF CyclicAssumption, Idx, IdxInc, IdxSub

\* Publishing a message adds one to every distance from an older number, as
\* long as the distance does not fill the whole type.
LEMMA IdxSubIncLeft ==
  ASSUME NEW a \in Idx, NEW b \in Idx, IdxSub(a, b) + 1 < IdxMod
  PROVE  IdxSub(IdxInc(a), b) = IdxSub(a, b) + 1
BY CyclicAssumption DEF CyclicAssumption, Idx, IdxInc, IdxSub

\* Receiving a message takes one from the distance.
LEMMA IdxSubIncRight ==
  ASSUME NEW a \in Idx, NEW b \in Idx, IdxSub(a, b) > 0
  PROVE  IdxSub(a, IdxInc(b)) = IdxSub(a, b) - 1
BY CyclicAssumption DEF CyclicAssumption, Idx, IdxInc, IdxSub

\* The number before the next one.
LEMMA IdxPred ==
  ASSUME NEW a \in Idx
  PROVE  IdxSub(IdxInc(a), 1) = a
BY CyclicAssumption DEF CyclicAssumption, Idx, IdxInc, IdxSub

\* Two numbers at the same distance from a third are the same.
LEMMA IdxSubInjective ==
  ASSUME NEW a \in Idx, NEW b \in Idx, NEW c \in Idx,
         IdxSub(a, c) = IdxSub(b, c)
  PROVE  a = b
BY CyclicAssumption DEF CyclicAssumption, Idx, IdxSub

-----------------------------------------------------------------------------
(* Positions in a ring of n slots.                                         *)

\* the position after p: ++pos == num
RingInc(p, n) == IF p + 1 = n THEN 0 ELSE p + 1

\* how many slots after position p slot i comes
RingDist(p, i, n) == IF i >= p THEN i - p ELSE i - p + n

\* the slot k slots after position p
RingNth(p, k, n) == IF p + k < n THEN p + k ELSE p + k - n

\* A distance is less than the size of the ring, and tells slots apart.
LEMMA RingDistType ==
  ASSUME NEW n \in Nat, NEW p \in 0 .. n - 1, NEW i \in 0 .. n - 1
  PROVE  /\ RingDist(p, i, n) \in 0 .. n - 1
         /\ RingDist(p, p, n) = 0
         /\ \A j \in 0 .. n - 1 : RingDist(p, i, n) = RingDist(p, j, n) => i = j
BY DEF RingDist

\* When the reader's position moves on, every slot comes one closer, but for the
\* one it leaves, which is the last now.
LEMMA RingDistReader ==
  ASSUME NEW n \in Nat, NEW p \in 0 .. n - 1, NEW i \in 0 .. n - 1
  PROVE  /\ RingInc(p, n) \in 0 .. n - 1
         /\ RingDist(RingInc(p, n), p, n) = n - 1
         /\ i # p => RingDist(RingInc(p, n), i, n) = RingDist(p, i, n) - 1
BY DEF RingInc, RingDist

\* When the writer's position moves on it is one slot further away, or back at
\* the reader's.
LEMMA RingDistWriter ==
  ASSUME NEW n \in Nat, NEW p \in 0 .. n - 1, NEW i \in 0 .. n - 1
  PROVE  RingDist(p, RingInc(i, n), n) =
           IF RingDist(p, i, n) + 1 = n THEN 0 ELSE RingDist(p, i, n) + 1
BY DEF RingInc, RingDist

\* The slots of a queue that begins at position p.
LEMMA RingNthDist ==
  ASSUME NEW n \in Nat, NEW p \in 0 .. n - 1, NEW k \in 0 .. n - 1
  PROVE  /\ RingNth(p, k, n) \in 0 .. n - 1
         /\ RingDist(p, RingNth(p, k, n), n) = k
BY DEF RingNth, RingDist

\* The second slot of a queue is the first one after a receive.
LEMMA RingNthReader ==
  ASSUME NEW n \in Nat, NEW p \in 0 .. n - 1, NEW k \in 0 .. n - 2
  PROVE  RingNth(RingInc(p, n), k, n) = RingNth(p, k + 1, n)
BY DEF RingInc, RingNth

-----------------------------------------------------------------------------
(* A queue given by its length and its elements.                           *)

\* One more element at the end is a send.
LEMMA QueueAppend ==
  ASSUME NEW S, NEW q \in Seq(S), NEW r \in Seq(S), NEW x \in S,
         Len(r) = Len(q) + 1,
         \A k \in 1 .. Len(q) : r[k] = q[k],
         r[Len(q) + 1] = x
  PROVE  r = Append(q, x)
OBVIOUS

\* The same elements without the first are what a receive leaves.
LEMMA QueueTail ==
  ASSUME NEW S, NEW q \in Seq(S), NEW r \in Seq(S),
         Len(q) > 0,
         Len(r) = Len(q) - 1,
         \A k \in 1 .. Len(q) - 1 : r[k] = q[k + 1]
  PROVE  q # <<>> /\ Head(q) = q[1] /\ r = Tail(q)
OBVIOUS

-----------------------------------------------------------------------------
(* The invariant.                                                          *)

\* what the callers of smlt_ffq_queue_send_raw have to keep to
AppAssumption == EMPTY \notin AppWords

(* The two ends share no index, but the sender's position is InFlight      *)
(* slots after the receiver's, and what each end found in a slot it is at  *)
(* work on stays so until it is done.                                      *)
Positions ==
  /\ InFlight <= Size
  /\ InFlight < Size => Ahead(txPos) = InFlight
  /\ InFlight = Size => txPos = rxPos
  /\ spc # "idle" => InFlight < Size /\ msg # EMPTY
  /\ spc = "send" => word1[txPos] = txSeq
  /\ rpc # "idle" => InFlight > 0
  /\ \A i \in Slots : Ahead(i) < InFlight => IdxSub(sent[i].num, rxSeq) = Ahead(i)

IndInv == TypeOK /\ SlotState /\ Intact /\ Positions

-----------------------------------------------------------------------------
\* The constants, in plain arithmetic.
LEMMA Constants ==
  /\ Size \in Nat /\ Size > 0
  /\ IdxMod \in Nat /\ IdxMod > Size
  /\ EMPTY \in Words /\ NOTIFY \in Words /\ EMPTY # NOTIFY /\ NOTIFY = 0
  /\ AppWords \subseteq Words
BY FfqAssumption, CyclicAssumption DEF EMPTY, NOTIFY, Words

\* A position that moves on stays inside the ring.
LEMMA PosType ==
  ASSUME NEW p \in Slots
  PROVE  PosInc(p) \in Slots /\ PosInc(p) = RingInc(p, Size)
BY Constants DEF Slots, PosInc, RingInc

\* The slots that smlt_ffq_queue_init_tx marks free satisfy the invariant.
LEMMA InitInv == Init => IndInv
<1> SUFFICES ASSUME Init PROVE IndInv
  OBVIOUS
<1> USE Constants, CyclicAssumption DEF Init, InitialWord
<1>1. TypeOK
  <2>1. 0 \in Words /\ 0 \in Slots /\ 0 \in Idx /\ 1 \in Idx
    BY DEF Slots, Idx
  <2>2. [word |-> 0, num |-> 0, call |-> "notify"] \in Sent
    BY <2>1 DEF Sent
  <2> QED BY <2>1, <2>2 DEF TypeOK
<1>2. InFlight = 0 /\ rxPos = 0 /\ \A i \in Slots : Ahead(i) = i
  BY DEF InFlight, IdxSub, Ahead, Slots
<1>3. SlotState
  BY <1>2 DEF SlotState, Slots
<1>4. Intact
  BY <1>2 DEF Intact, Slots
<1>5. Positions
  BY <1>2 DEF Positions, Slots
<1> QED BY <1>1, <1>3, <1>4, <1>5 DEF IndInv

-----------------------------------------------------------------------------
\* Where the two ends stand, in terms of distances in the ring.
LEMMA Distances ==
  ASSUME IndInv
  PROVE  /\ InFlight \in 0 .. Size
         /\ \A i \in Slots : Ahead(i) = RingDist(rxPos, i, Size)
         /\ \A i \in Slots : Ahead(i) \in 0 .. Size - 1
         /\ \A i, j \in Slots : Ahead(i) = Ahead(j) => i = j
         /\ Ahead(rxPos) = 0
<1>1. txSeq \in Idx /\ rxSeq \in Idx /\ txPos \in Slots /\ rxPos \in Slots
  BY DEF IndInv, TypeOK
<1>2. InFlight \in 0 .. Size
  BY <1>1, IdxType, Constants DEF IndInv, Positions, InFlight, Idx
<1>3. \A i \in Slots : Ahead(i) = RingDist(rxPos, i, Size)
  BY DEF Ahead, RingDist
<1>4. \A i, j \in Slots :
        /\ RingDist(rxPos, i, Size) \in 0 .. Size - 1
        /\ RingDist(rxPos, i, Size) = RingDist(rxPos, j, Size) => i = j
  BY <1>1, RingDistType, Constants DEF Slots
<1>5. RingDist(rxPos, rxPos, Size) = 0
  BY <1>1, RingDistType, Constants DEF Slots
<1> QED BY <1>1, <1>2, <1>3, <1>4, <1>5

\* The slot the sender is at is free exactly when there is room.
LEMMA CanSendRight ==
  ASSUME IndInv
  PROVE  CanSend <=> InFlight < Size
<1>1. txPos \in Slots
  BY DEF IndInv, TypeOK
<1>2. CASE InFlight < Size
  BY <1>1, <1>2, Distances DEF IndInv, SlotState, Positions, CanSend
<1>3. CASE InFlight = Size
  BY <1>1, <1>3, Distances, Constants DEF IndInv, SlotState, Positions, CanSend
<1> QED BY <1>2, <1>3, Distances, Constants

\* The slot the receiver is at holds a message exactly when there is one.
LEMMA CanRecvRight ==
  ASSUME IndInv
  PROVE  CanRecv <=> InFlight > 0
BY Distances DEF IndInv, TypeOK, SlotState, CanRecv

-----------------------------------------------------------------------------
(* One lemma per action.                                                   *)

\* A check that succeeds changes nothing shared, and the sender's slot is free.
LEMMA PrepareInv ==
  ASSUME IndInv, spc = "idle", CanSend, spc' \in {"words", "notify"},
         msg' \in Words \ {EMPTY},
         UNCHANGED <<sharedVars, txPos, txSeq, sent, rxVars>>
  PROVE  IndInv'
<1> USE DEF sharedVars, rxVars
<1>1. TypeOK'
  BY DEF IndInv, TypeOK
<1>2. InFlight' = InFlight /\ \A i \in Slots : Ahead(i)' = Ahead(i)
  BY DEF InFlight, Ahead
<1>3. InFlight < Size
  BY CanSendRight
<1>4. SlotState'
  <2>1. txPos = rxPos => rpc = "idle"
    BY <1>3, Distances DEF IndInv, TypeOK, Positions
  <2> QED BY <1>2, <2>1 DEF IndInv, SlotState
<1>5. Intact'
  BY <1>2 DEF IndInv, Intact
<1>6. Positions'
  <2>1. Ahead(txPos)' = Ahead(txPos)
    BY DEF Ahead
  <2> QED BY <1>2, <1>3, <2>1 DEF IndInv, Positions
<1> QED BY <1>1, <1>4, <1>5, <1>6 DEF IndInv

\* The copy loop of smlt_ffq_queue_send_raw writes to the slot after the last
\* message, which holds none.
LEMMA WriteWordsInv ==
  ASSUME IndInv, WriteWords
  PROVE  IndInv'
<1> USE DEF WriteWords, WordsSlot, rxVars
<1>1. TypeOK'
  BY DEF IndInv, TypeOK
<1>2. /\ InFlight' = InFlight
      /\ Ahead(txPos)' = Ahead(txPos)
      /\ \A i \in Slots : Ahead(i)' = Ahead(i)
  BY DEF InFlight, Ahead
<1>3. SlotState'
  BY <1>2 DEF IndInv, SlotState
<1>4. ~(Ahead(txPos) < InFlight)
  BY Distances DEF IndInv, Positions, TypeOK
<1>5. Intact'
  <2>1. ASSUME NEW i \in Slots, Ahead(i) < InFlight
        PROVE  /\ word0[i] = sent[i].word
               /\ sent[i].call = "send" => word1'[i] = sent[i].num
    BY <1>4, <2>1 DEF IndInv, TypeOK, Intact
  <2> QED BY <1>2, <2>1 DEF IndInv, Intact
<1>6. Positions'
  BY <1>2 DEF IndInv, TypeOK, Positions
<1> QED BY <1>1, <1>3, <1>5, <1>6 DEF IndInv

\* Storing the first word turns the free slot after the last message into the
\* last message.
LEMMA PublishInv ==
  ASSUME IndInv, Publish
  PROVE  IndInv'
<1> USE DEF Publish, rxVars
<1>1. TypeOK'
  <2>1. txSeq' \in Idx /\ txPos' \in Slots
    BY IdxType, PosType DEF IndInv, TypeOK
  <2>2. sent' \in [Slots -> Sent]
    BY DEF IndInv, TypeOK, Sent
  <2>3. msg' \in Words
    BY Constants DEF NOTIFY
  <2> QED BY <2>1, <2>2, <2>3 DEF IndInv, TypeOK
<1>2. /\ InFlight < Size /\ Ahead(txPos) = InFlight /\ msg # EMPTY
      /\ txPos \in Slots /\ rxPos \in Slots /\ txSeq \in Idx /\ rxSeq \in Idx
  BY DEF IndInv, TypeOK, Positions
<1>3. InFlight' = InFlight + 1
  BY <1>2, IdxSubIncLeft, Constants, Distances DEF InFlight
<1>4. \A i \in Slots : Ahead(i)' = Ahead(i)
  BY DEF Ahead
<1>5. \A i \in Slots : Ahead(i) < InFlight' <=> (i = txPos \/ Ahead(i) < InFlight)
  BY <1>2, <1>3, Distances
<1>6. SlotState'
  <2>1. \A i \in Slots : (word0'[i] # EMPTY) <=> (i = txPos \/ word0[i] # EMPTY)
    BY <1>2 DEF IndInv, TypeOK
  <2> QED BY <1>4, <1>5, <2>1 DEF IndInv, SlotState
<1>7. Intact'
  <2>1. ASSUME NEW i \in Slots, Ahead(i) < InFlight'
        PROVE  /\ word0'[i] = sent'[i].word
               /\ sent'[i].call = "send" => word1[i] = sent'[i].num
    <3>1. CASE i = txPos
      BY <3>1 DEF IndInv, TypeOK, Positions
    <3>2. CASE i # txPos
      BY <1>5, <2>1, <3>2 DEF IndInv, TypeOK, Intact
    <3> QED BY <3>1, <3>2
  <2>2. rpc = "copied" => sent'[rxPos] = sent[rxPos]
    BY <1>2, Distances DEF IndInv, TypeOK, Positions
  <2> QED BY <1>4, <2>1, <2>2 DEF IndInv, Intact
<1>8. Positions'
  <2>1. txPos' \in Slots /\ Ahead(txPos') = RingDist(rxPos, RingInc(txPos, Size), Size)
    BY <1>2, PosType, Distances
  <2>2. Ahead(txPos') = IF InFlight + 1 = Size THEN 0 ELSE InFlight + 1
    BY <1>2, <2>1, RingDistWriter, Distances, Constants DEF Slots
  <2>3. Ahead(txPos)' = Ahead(txPos')
    BY DEF Ahead
  <2>4. InFlight' = Size => txPos' = rxPos
    BY <1>2, <1>3, <2>1, <2>2, Distances
  <2>5. \A i \in Slots : Ahead(i) < InFlight' => IdxSub(sent'[i].num, rxSeq) = Ahead(i)
    BY <1>2, <1>5 DEF IndInv, TypeOK, Positions, InFlight
  <2> QED BY <1>2, <1>3, <1>4, <2>2, <2>3, <2>4, <2>5, Distances, Constants DEF Positions
<1> QED BY <1>1, <1>6, <1>7, <1>8 DEF IndInv

\* Finding a message claims the slot for the receiver; the sender is not there.
LEMMA ReceiveInv ==
  ASSUME IndInv, NEW then \in {"copy", "free"}, Receive(then)
  PROVE  IndInv'
<1> USE DEF Receive, sharedVars, txVars
<1>1. TypeOK'
  BY DEF IndInv, TypeOK
<1>2. /\ InFlight' = InFlight
      /\ Ahead(txPos)' = Ahead(txPos)
      /\ \A i \in Slots : Ahead(i)' = Ahead(i)
  BY DEF InFlight, Ahead
<1>3. InFlight > 0
  BY CanRecvRight
<1>4. SlotState'
  <2>1. spc # "idle" => txPos # rxPos
    BY <1>3, Distances DEF IndInv, TypeOK, Positions
  <2> QED BY <1>2, <2>1 DEF IndInv, SlotState
<1>5. Intact'
  BY <1>2 DEF IndInv, Intact
<1>6. Positions'
  BY <1>2, <1>3 DEF IndInv, Positions
<1> QED BY <1>1, <1>4, <1>5, <1>6 DEF IndInv

\* The words the copy loop of smlt_ffq_queue_recv_raw reads are those sent.
LEMMA CopyWordsInv ==
  ASSUME IndInv, CopyWords
  PROVE  IndInv'
<1> USE DEF CopyWords, sharedVars, txVars
<1>1. TypeOK'
  BY DEF IndInv, TypeOK
<1>2. /\ InFlight' = InFlight
      /\ Ahead(txPos)' = Ahead(txPos)
      /\ \A i \in Slots : Ahead(i)' = Ahead(i)
  BY DEF InFlight, Ahead
<1>3. SlotState'
  BY <1>2 DEF IndInv, SlotState
<1>4. Intact'
  <2>1. rxPos \in Slots /\ rxSeq \in Idx /\ sent[rxPos] \in Sent
    BY DEF IndInv, TypeOK
  <2>2. InFlight > 0 /\ Ahead(rxPos) = 0
    BY Distances DEF IndInv, Positions
  <2>3. /\ word0[rxPos] = sent[rxPos].word
        /\ sent[rxPos].call = "send" => word1[rxPos] = sent[rxPos].num
        /\ IdxSub(sent[rxPos].num, rxSeq) = 0
    BY <2>1, <2>2 DEF IndInv, Intact, Positions
  <2>4. sent[rxPos].num = rxSeq
    BY <2>1, <2>3, IdxType, IdxSubInjective DEF Sent
  <2> QED BY <1>2, <2>3, <2>4 DEF IndInv, Intact
<1>5. Positions'
  BY <1>2 DEF IndInv, Positions
<1> QED BY <1>1, <1>3, <1>4, <1>5 DEF IndInv

\* Giving the slot back makes the next message the oldest one.
LEMMA FreeSlotInv ==
  ASSUME IndInv, FreeSlot
  PROVE  IndInv'
<1> USE DEF FreeSlot, txVars
<1>1. TypeOK'
  <2>1. rxSeq' \in Idx /\ rxPos' \in Slots
    BY IdxType, PosType DEF IndInv, TypeOK
  <2>2. EMPTY \in Words /\ 0 \in Words /\ 0 \in Idx
    BY Constants DEF Idx
  <2> QED BY <2>1, <2>2 DEF IndInv, TypeOK
<1>2. /\ InFlight > 0
      /\ txPos \in Slots /\ rxPos \in Slots /\ txSeq \in Idx /\ rxSeq \in Idx
  BY DEF IndInv, TypeOK, Positions
<1>3. InFlight' = InFlight - 1
  BY <1>2, IdxSubIncRight DEF InFlight
<1>4. \A i \in Slots : Ahead(i)' = IF i = rxPos THEN Size - 1 ELSE Ahead(i) - 1
  <2> TAKE i \in Slots
  <2>1. Ahead(i)' = RingDist(RingInc(rxPos, Size), i, Size)
    BY <1>2, PosType DEF Ahead, RingDist
  <2> QED BY <1>2, <2>1, RingDistReader, Distances, Constants DEF Slots
<1>5. \A i \in Slots : Ahead(i)' < InFlight' <=> (i # rxPos /\ Ahead(i) < InFlight)
  BY <1>2, <1>3, <1>4, Distances, Constants
<1>6. SlotState'
  <2>1. \A i \in Slots : (word0'[i] # EMPTY) <=> (i # rxPos /\ word0[i] # EMPTY)
    BY <1>2 DEF IndInv, TypeOK
  <2> QED BY <1>5, <2>1 DEF IndInv, SlotState
<1>7. Intact'
  <2>1. ASSUME NEW i \in Slots, Ahead(i)' < InFlight'
        PROVE  /\ word0'[i] = sent[i].word
               /\ sent[i].call = "send" => word1[i] = sent[i].num
    BY <1>5, <2>1 DEF IndInv, TypeOK, Intact
  <2> QED BY <2>1 DEF Intact
<1>8. Positions'
  <2>1. InFlight < Size => Ahead(txPos) = InFlight
    BY DEF IndInv, Positions
  <2>2. Ahead(txPos)' = InFlight'
    <3>1. CASE InFlight = Size
      BY <1>2, <1>3, <1>4, <3>1 DEF IndInv, Positions
    <3>2. CASE InFlight < Size
      BY <1>2, <1>3, <1>4, <2>1, <3>2, Distances
    <3> QED BY <3>1, <3>2, Distances, Constants
  <2>3. \A i \in Slots : Ahead(i)' < InFlight' => IdxSub(sent[i].num, rxSeq') = Ahead(i)'
    <3> SUFFICES ASSUME NEW i \in Slots, Ahead(i)' < InFlight'
                 PROVE  IdxSub(sent[i].num, IdxInc(rxSeq)) = Ahead(i) - 1
      BY <1>4, <1>5
    <3>1. i # rxPos /\ Ahead(i) < InFlight
      BY <1>5
    <3>2. Ahead(i) > 0
      BY <1>2, <3>1, Distances
    <3>3. IdxSub(sent[i].num, rxSeq) = Ahead(i) /\ sent[i].num \in Idx
      BY <3>1 DEF IndInv, TypeOK, Positions, Sent
    <3> QED BY <1>2, <3>2, <3>3, IdxSubIncRight
  <2> QED BY <1>2, <1>3, <2>2, <2>3, Distances, Constants DEF IndInv, Positions
<1> QED BY <1>1, <1>6, <1>7, <1>8 DEF IndInv

\* Every step of either end preserves the invariant.
LEMMA NextInv ==
  ASSUME AppAssumption
  PROVE  IndInv /\ [Next]_vars => IndInv'
<1> SUFFICES ASSUME IndInv, [Next]_vars PROVE IndInv'
  OBVIOUS
<1>1. ASSUME NEW w \in AppWords, PrepareSend(w) PROVE IndInv'
  BY <1>1, PrepareInv, Constants DEF PrepareSend, AppAssumption
<1>2. CASE PrepareNotify
  BY <1>2, PrepareInv, Constants DEF PrepareNotify
<1>3. CASE WriteWords
  BY <1>3, WriteWordsInv
<1>4. CASE Publish
  BY <1>4, PublishInv
<1>5. CASE Receive("copy") \/ Receive("free")
  BY <1>5, ReceiveInv
<1>6. CASE CopyWords
  BY <1>6, CopyWordsInv
<1>7. CASE FreeSlot
  BY <1>7, FreeSlotInv
<1>8. CASE UNCHANGED vars
  BY <1>8 DEF vars, sharedVars, txVars, rxVars, IndInv, TypeOK, SlotState, Intact,
     Positions, InFlight, Ahead
<1> QED BY <1>1, <1>2, <1>3, <1>4, <1>5, <1>6, <1>7, <1>8 DEF Next, Sender, Receiver

\* The invariant holds in every reachable state of a FFQ queue.
THEOREM Invariance ==
  ASSUME AppAssumption
  PROVE  Spec => []IndInv
<1>1. IndInv /\ [Next]_vars => IndInv'
  BY NextInv
<1> QED BY <1>1, InitInv, PTL DEF Spec

\* Words, positions and message numbers stay in their types.
THEOREM TypeCorrect ==
  ASSUME AppAssumption
  PROVE  Spec => []TypeOK
<1>1. IndInv => TypeOK
  BY DEF IndInv
<1> QED BY <1>1, Invariance, PTL

\* Without any shared index, smlt_ffq_queue_can_send and smlt_ffq_queue_can_recv
\* answer right, and the two ends never work on the same slot, for every ring
\* size and as long as the application does not send the word that marks a free
\* slot.
THEOREM SlotStateRight ==
  ASSUME AppAssumption
  PROVE  Spec => []SlotState
<1>1. IndInv => SlotState
  BY DEF IndInv
<1> QED BY <1>1, Invariance, PTL

\* What smlt_ffq_queue_recv_raw copies out of a slot is what
\* smlt_ffq_queue_send_raw put into it.
THEOREM MessagesIntact ==
  ASSUME AppAssumption
  PROVE  Spec => []Intact
<1>1. IndInv => Intact
  BY DEF IndInv
<1> QED BY <1>1, Invariance, PTL

-----------------------------------------------------------------------------
(* The ring implements the FIFO channel.                                   *)

\* the messages of the abstract channel are the numbers sent, in order
RingContents ==
  /\ RingQueue \in Seq(Idx)
  /\ Len(RingQueue) = InFlight
  /\ \A k \in 1 .. InFlight : RingQueue[k] = sent[RingSlot(k)].num

\* The k-th message in flight is k - 1 slots after the receiver's position.
LEMMA RingSlots ==
  ASSUME IndInv, NEW k \in 1 .. Size
  PROVE  /\ RingSlot(k) = RingNth(rxPos, k - 1, Size)
         /\ RingSlot(k) \in Slots
         /\ Ahead(RingSlot(k)) = k - 1
<1>1. rxPos \in 0 .. Size - 1 /\ k - 1 \in 0 .. Size - 1
  BY Constants DEF IndInv, TypeOK, Slots
<1>2. RingSlot(k) = RingNth(rxPos, k - 1, Size)
  BY <1>1, Constants DEF RingSlot, RingNth
<1>3. RingSlot(k) \in Slots
  BY <1>1, <1>2, RingNthDist, Constants DEF Slots
<1>4. Ahead(RingSlot(k)) = RingDist(rxPos, RingSlot(k), Size)
  BY <1>3, Distances
<1> QED BY <1>1, <1>2, <1>3, <1>4, RingNthDist, Constants

\* The invariant makes the refinement mapping well defined.
LEMMA RingType == IndInv => RingContents
<1> SUFFICES ASSUME IndInv PROVE RingContents
  OBVIOUS
<1>1. InFlight \in Nat /\ InFlight <= Size
  BY Distances, Constants
<1>2. \A k \in 1 .. InFlight : RingSlot(k) \in Slots
  BY <1>1, RingSlots, Constants
<1>3. \A k \in 1 .. InFlight : sent[RingSlot(k)].num \in Idx
  BY <1>2 DEF IndInv, TypeOK, Sent
<1> QED BY <1>1, <1>3 DEF RingContents, RingQueue

\* The same of the next state.
LEMMA RingTypeNext == IndInv' => RingContents'
BY RingType, PTL

\* The ring of free slots is the empty channel.
LEMMA RefineInit == Init => Fifo!Init
<1> SUFFICES ASSUME Init PROVE Fifo!Init
  OBVIOUS
<1>1. InFlight = 0 /\ IdxSub(rxSeq, 1) = 0 /\ txSeq = 1
  BY DEF Init, InFlight, IdxSub
<1>2. RingQueue = <<>>
  BY <1>1 DEF RingQueue
<1> QED BY <1>1, <1>2 DEF Fifo!Init

\* Storing the first word is the abstract Send.
LEMMA RefinePublish ==
  ASSUME IndInv, IndInv', Publish
  PROVE  Fifo!Send
<1>1. /\ InFlight \in Nat /\ InFlight < Size /\ Ahead(txPos) = InFlight
      /\ txPos \in Slots /\ txSeq \in Idx /\ rxSeq \in Idx
  BY Distances DEF IndInv, TypeOK, Positions, Publish
<1>2. InFlight' = InFlight + 1
  BY <1>1, IdxSubIncLeft, Constants DEF InFlight, Publish, rxVars
<1>3. \A k \in 1 .. InFlight + 1 : RingSlot(k)' = RingSlot(k)
  BY DEF RingSlot, Publish, rxVars
<1>4. RingSlot(InFlight + 1) = txPos
  <2>1. InFlight + 1 \in 1 .. Size
    BY <1>1, Constants
  <2>2. RingSlot(InFlight + 1) \in Slots /\ Ahead(RingSlot(InFlight + 1)) = InFlight
    BY <1>1, <2>1, RingSlots
  <2> QED BY <1>1, <2>2, Distances
<1>5. \A k \in 1 .. InFlight : RingSlot(k) \in Slots /\ RingSlot(k) # txPos
  <2> TAKE k \in 1 .. InFlight
  <2>1. k \in 1 .. Size /\ k - 1 < InFlight
    BY <1>1, Constants
  <2> QED BY <1>1, <2>1, RingSlots
<1>6. RingQueue' = Append(RingQueue, txSeq)
  <2>1. /\ RingQueue \in Seq(Idx) /\ Len(RingQueue) = InFlight
        /\ \A k \in 1 .. InFlight : RingQueue[k] = sent[RingSlot(k)].num
    BY RingType DEF RingContents
  <2>2. /\ RingQueue' \in Seq(Idx) /\ Len(RingQueue') = InFlight + 1
        /\ \A k \in 1 .. InFlight + 1 : RingQueue'[k] = sent'[RingSlot(k)].num
    BY <1>2, <1>3, RingTypeNext DEF RingContents
  <2>3. \A i \in Slots : sent'[i] = IF i = txPos
                                    THEN [word |-> msg, num |-> txSeq, call |-> spc]
                                    ELSE sent[i]
    BY <1>1 DEF IndInv, TypeOK, Publish
  <2>4. \A k \in 1 .. InFlight : RingQueue'[k] = RingQueue[k]
    BY <1>1, <1>5, <2>1, <2>2, <2>3
  <2>5. RingQueue'[InFlight + 1] = txSeq
    BY <1>1, <1>4, <2>2, <2>3
  <2> QED BY <1>1, <2>1, <2>2, <2>4, <2>5, QueueAppend
<1>7. Len(RingQueue) < Size
  BY <1>1, RingType DEF RingContents
<1>8. txSeq' = Fifo!IdxInc(txSeq)
  BY DEF Publish, IdxInc, Fifo!IdxInc
<1> QED BY <1>6, <1>7, <1>8 DEF Fifo!Send, Publish, rxVars

\* Giving a slot back is the abstract Recv.
LEMMA RefineFreeSlot ==
  ASSUME IndInv, IndInv', FreeSlot
  PROVE  Fifo!Recv
<1>1. /\ InFlight \in 1 .. Size /\ rxPos \in Slots
      /\ txSeq \in Idx /\ rxSeq \in Idx
  BY Distances, Constants DEF IndInv, TypeOK, Positions, FreeSlot
<1>2. InFlight' = InFlight - 1
  BY <1>1, IdxSubIncRight DEF InFlight, FreeSlot, txVars
<1>3. \A k \in 1 .. InFlight - 1 : RingSlot(k)' = RingSlot(k + 1)
  <2> TAKE k \in 1 .. InFlight - 1
  <2>1. k \in 1 .. Size /\ k + 1 \in 1 .. Size /\ k - 1 \in 0 .. Size - 2
    BY <1>1, Constants
  <2>2. RingSlot(k)' = RingNth(RingInc(rxPos, Size), k - 1, Size)
    BY <1>1, <2>1, PosType, Constants DEF RingSlot, RingNth, FreeSlot, Slots
  <2>3. RingSlot(k + 1) = RingNth(rxPos, (k - 1) + 1, Size)
    BY <2>1, RingSlots
  <2> QED BY <1>1, <2>1, <2>2, <2>3, RingNthReader, Constants DEF Slots
<1>4. /\ RingQueue \in Seq(Idx) /\ Len(RingQueue) = InFlight
      /\ \A k \in 1 .. InFlight : RingQueue[k] = sent[RingSlot(k)].num
  BY RingType DEF RingContents
<1>5. /\ RingQueue' \in Seq(Idx) /\ Len(RingQueue') = InFlight - 1
      /\ \A k \in 1 .. InFlight - 1 : RingQueue'[k] = sent[RingSlot(k + 1)].num
  BY <1>2, <1>3, RingTypeNext DEF RingContents, FreeSlot, txVars
<1>6. RingQueue # <<>> /\ RingQueue' = Tail(RingQueue) /\ Head(RingQueue) = RingQueue[1]
  <2>1. \A k \in 1 .. InFlight - 1 : RingQueue'[k] = RingQueue[k + 1]
    BY <1>1, <1>4, <1>5
  <2> QED BY <1>1, <1>4, <1>5, <2>1, QueueTail
<1>7. RingQueue[1] = rxSeq
  <2>1. RingSlot(1) \in Slots /\ Ahead(RingSlot(1)) = 0
    BY <1>1, RingSlots, Constants
  <2>2. /\ sent[RingSlot(1)].num \in Idx
        /\ IdxSub(sent[RingSlot(1)].num, rxSeq) = 0
    BY <1>1, <2>1 DEF IndInv, TypeOK, Positions, Sent
  <2> QED BY <1>1, <1>4, <2>2, IdxType, IdxSubInjective
<1>8. IdxSub(rxSeq, 1)' = rxSeq
  BY <1>1, IdxPred DEF FreeSlot
<1> QED BY <1>6, <1>7, <1>8 DEF Fifo!Recv, FreeSlot, txVars

\* Every step of the ring is a step of the channel or a stutter.
LEMMA RefineNext == IndInv /\ IndInv' /\ [Next]_vars => [Fifo!Next]_(Fifo!vars)
<1> SUFFICES ASSUME IndInv, IndInv', [Next]_vars
             PROVE  Fifo!Next \/ UNCHANGED Fifo!vars
  OBVIOUS
<1>1. ASSUME UNCHANGED <<txSeq, sent, rxPos, rxSeq>>
      PROVE  UNCHANGED Fifo!vars
  BY <1>1 DEF Fifo!vars, RingQueue, RingSlot, InFlight
<1>2. ASSUME NEW w \in AppWords, PrepareSend(w) PROVE UNCHANGED Fifo!vars
  BY <1>1, <1>2 DEF PrepareSend, rxVars
<1>3. CASE PrepareNotify \/ WriteWords
  BY <1>1, <1>3 DEF PrepareNotify, WriteWords, rxVars
<1>4. CASE Publish
  BY <1>4, RefinePublish DEF Fifo!Next
<1>5. CASE Receive("copy") \/ Receive("free") \/ CopyWords
  BY <1>1, <1>5 DEF Receive, CopyWords, txVars
<1>6. CASE FreeSlot
  BY <1>6, RefineFreeSlot DEF Fifo!Next
<1>7. CASE UNCHANGED vars
  BY <1>1, <1>7 DEF vars, txVars, rxVars
<1> QED BY <1>2, <1>3, <1>4, <1>5, <1>6, <1>7 DEF Next, Sender, Receiver

\* A FFQ queue of any size is a bounded FIFO channel that can use all its slots,
\* as long as the application does not send the word that marks a free one.
THEOREM Refinement ==
  ASSUME AppAssumption
  PROVE  Spec => ImplementsFifo
BY RefineInit, RefineNext, Invariance, PTL DEF Spec, ImplementsFifo, Fifo!Spec

=============================================================================
