--------------------------- MODULE UmpQueueProofs ---------------------------
(***************************************************************************)
(* Proofs about UmpQueue, for every ring size and every width of the       *)
(* sequence numbers that UmpAssumption admits.                             *)
(***************************************************************************)
EXTENDS UmpQueue, TLAPS

-----------------------------------------------------------------------------
(* The arithmetic of message numbers.                                      *)

\* Incrementing and subtracting stay inside the type.
LEMMA IdxType ==
  ASSUME NEW a \in Idx, NEW b \in Idx
  PROVE  /\ IdxInc(a) \in Idx
         /\ IdxSub(a, b) \in Idx
         /\ IdxSub(a, a) = 0
BY CyclicAssumption DEF CyclicAssumption, Idx, IdxInc, IdxSub

\* Publishing a message adds one to every distance from an older number, as
\* long as the distance does not fill the whole type.
LEMMA IdxSubIncLeft ==
  ASSUME NEW a \in Idx, NEW b \in Idx, IdxSub(a, b) + 1 < IdxMod
  PROVE  IdxSub(IdxInc(a), b) = IdxSub(a, b) + 1
BY CyclicAssumption DEF CyclicAssumption, Idx, IdxInc, IdxSub

\* Receiving a message takes one from the distance.
LEMMA IdxSubIncRight ==
  ASSUME NEW a \in Idx, NEW b \in Idx, IdxSub(a, b) > 0
  PROVE  IdxSub(a, IdxInc(b)) = IdxSub(a, b) - 1
BY CyclicAssumption DEF CyclicAssumption, Idx, IdxInc, IdxSub

\* The number before the next one.
LEMMA IdxPred ==
  ASSUME NEW a \in Idx
  PROVE  IdxSub(IdxInc(a), 1) = a
BY CyclicAssumption DEF CyclicAssumption, Idx, IdxInc, IdxSub

\* Two numbers at the same distance from a third are the same.
LEMMA IdxSubInjective ==
  ASSUME NEW a \in Idx, NEW b \in Idx, NEW c \in Idx,
         IdxSub(a, c) = IdxSub(b, c)
  PROVE  a = b
BY CyclicAssumption DEF CyclicAssumption, Idx, IdxSub

-----------------------------------------------------------------------------
(* The invariant.                                                          *)

IndInv == TypeOK /\ FlowControl /\ UnreadIntact /\ CopyExposure

-----------------------------------------------------------------------------
\* A position that moves on stays inside the ring.
LEMMA PosType ==
  ASSUME NEW p \in Slots
  PROVE  PosInc(p) \in Slots
BY UmpAssumption, CyclicAssumption DEF UmpAssumption, CyclicAssumption, Slots, PosInc

-----------------------------------------------------------------------------
\* The initial state of smlt_ump_queuepair_init satisfies the invariant.
LEMMA InitInv == Init => IndInv
<1> SUFFICES ASSUME Init PROVE IndInv
  OBVIOUS
<1> USE UmpAssumption, CyclicAssumption DEF UmpAssumption, CyclicAssumption, Init, InitWith
<1>1. TypeOK
  BY DEF TypeOK, Slots, Idx, Epoch, Kind
<1>2. FlowControl
  BY DEF FlowControl, InFlight, PosInFlight, IdxSub, Unacked, Middle, Slots
<1>3. UnreadIntact
  BY DEF UnreadIntact, InFlight, IdxSub, Ahead, Slots
<1>4. CopyExposure
  BY DEF CopyExposure
<1> QED BY <1>1, <1>2, <1>3, <1>4 DEF IndInv

-----------------------------------------------------------------------------
\* What the flow control bounds: at most NumMsg messages are in flight, and
\* together with the ones read and not acknowledged they leave a slot free
\* whenever the sender holds a credit.
LEMMA Bounds ==
  ASSUME IndInv
  PROVE  /\ InFlight \in 0 .. NumMsg
         /\ Unacked \in Nat
         /\ InFlight + Unacked <= NumMsg
         /\ spc # "idle" => InFlight + Unacked < NumMsg
         /\ IdxSub(seqId, lastAck) \in 1 .. NumMsg + 1
         /\ IdxSub(seqId, ackWord) \in 1 .. NumMsg + 1
<1> USE UmpAssumption, CyclicAssumption DEF UmpAssumption, CyclicAssumption, IndInv
<1>1. /\ InFlight \in Nat
      /\ IdxSub(seqId, lastAck) \in Nat
      /\ IdxSub(seqId, ackWord) \in Nat
  BY DEF TypeOK, InFlight, Idx, IdxSub
<1>2. Unacked \in Nat
  BY DEF TypeOK, Slots, Unacked, Middle
<1>3. /\ IdxSub(seqId, ackWord) = InFlight + Unacked + 1
      /\ IdxSub(seqId, ackWord) <= IdxSub(seqId, lastAck)
      /\ IdxSub(seqId, lastAck) <= NumMsg + 1
      /\ spc # "idle" => IdxSub(seqId, lastAck) <= NumMsg
  BY DEF FlowControl, Credit
<1> QED BY <1>1, <1>2, <1>3

\* Where the two threads stand, in plain arithmetic: both positions are inside
\* the ring, and they and the epoch bits say how many messages lie between.
LEMMA Positions ==
  ASSUME IndInv
  PROVE  /\ NumMsg \in Nat
         /\ rxPos \in Nat /\ rxPos < NumMsg
         /\ txPos \in Nat /\ txPos < NumMsg
         /\ txEpoch = rxEpoch => InFlight = txPos - rxPos
         /\ txEpoch # rxEpoch => InFlight = txPos + NumMsg - rxPos
<1>1. /\ NumMsg \in Nat
      /\ rxPos \in Nat /\ rxPos < NumMsg
      /\ txPos \in Nat /\ txPos < NumMsg
  BY UmpAssumption DEF UmpAssumption, IndInv, TypeOK, Slots
<1>2. /\ txEpoch = rxEpoch => InFlight = txPos - rxPos
      /\ txEpoch # rxEpoch => InFlight = txPos + NumMsg - rxPos
  BY DEF IndInv, FlowControl, PosInFlight
<1> QED BY <1>1, <1>2

\* The sender's position is InFlight slots after the receiver's.
LEMMA TxAhead ==
  ASSUME IndInv
  PROVE  /\ InFlight < NumMsg => Ahead(txPos) = InFlight
         /\ InFlight = NumMsg => txPos = rxPos
         /\ \A i \in Slots : Ahead(i) \in Slots
         /\ \A i \in Slots : Ahead(i) = Ahead(txPos) => i = txPos
<1>1. InFlight < NumMsg => Ahead(txPos) = InFlight
  BY Bounds, Positions DEF Ahead
<1>2. InFlight = NumMsg => txPos = rxPos
  BY Positions
<1>3. \A i \in Slots : Ahead(i) \in Slots
  BY Positions DEF Ahead, Slots
<1>4. \A i \in Slots : Ahead(i) = Ahead(txPos) => i = txPos
  BY Positions DEF Ahead, Slots
<1> QED BY <1>1, <1>2, <1>3, <1>4

\* smlt_ump_queue_can_recv is right.
LEMMA CanRecvRight ==
  ASSUME IndInv
  PROVE  /\ CanRecv <=> InFlight > 0
         /\ CanRecv => slotSeq[rxPos] = rxSeq
<1> USE UmpAssumption, CyclicAssumption DEF UmpAssumption, CyclicAssumption, IndInv
<1>1. CanRecv <=> InFlight > 0
  <2>1. rxPos \in Slots /\ txEpoch \in {0, 1} /\ rxEpoch \in {0, 1}
    BY DEF TypeOK, Epoch
  <2>2. slotEpoch[rxPos] = (IF rxPos < txPos THEN txEpoch ELSE 1 - txEpoch)
    BY <2>1 DEF FlowControl
  <2>3. CanRecv <=> txEpoch # rxEpoch \/ rxPos < txPos
    <3>1. CASE txEpoch = rxEpoch
      BY <2>1, <2>2, <3>1 DEF CanRecv
    <3>2. CASE txEpoch # rxEpoch
      <4>1. ~(rxPos < txPos)
        BY <3>2, Positions, Bounds
      <4> QED BY <2>1, <2>2, <3>2, <4>1 DEF CanRecv
    <3> QED BY <3>1, <3>2
  <2> QED BY <2>3, Positions
<1>2. ASSUME InFlight > 0 PROVE slotSeq[rxPos] = rxSeq
  <2>1. rxPos \in Slots /\ Ahead(rxPos) = 0
    BY DEF TypeOK, Ahead, Slots
  <2>2. IdxSub(slotSeq[rxPos], rxSeq) = 0
    BY <1>2, <2>1 DEF UnreadIntact
  <2> QED BY <2>1, <2>2, IdxType, IdxSubInjective DEF TypeOK
<1> QED BY <1>1, <1>2

-----------------------------------------------------------------------------
(* One lemma per action.                                                   *)

\* Looking for credit only refreshes the private copy, which the shared word
\* is never behind.
LEMMA CheckInv ==
  ASSUME IndInv, lastAck' = AckAfterCheck,
         UNCHANGED <<sharedVars, slotKind, txPos, txEpoch, seqId, rxVars>>,
         \/ spc' = spc /\ spc = "idle"
         \/ spc' \in {"send", "notify"} /\ Credit(AckAfterCheck)
  PROVE  IndInv'
<1> USE UmpAssumption, CyclicAssumption DEF UmpAssumption, CyclicAssumption, sharedVars, rxVars
<1>1. TypeOK'
  BY DEF IndInv, TypeOK, AckAfterCheck
<1>2. /\ IdxSub(seqId, ackWord) <= IdxSub(seqId, AckAfterCheck)
      /\ IdxSub(seqId, AckAfterCheck) <= NumMsg + 1
  BY Bounds DEF IndInv, FlowControl, AckAfterCheck
<1>3. FlowControl'
  BY <1>2 DEF IndInv, FlowControl, InFlight, PosInFlight, Unacked, Credit
<1>4. UnreadIntact'
  BY DEF IndInv, UnreadIntact, InFlight, Ahead
<1>5. CopyExposure'
  BY DEF IndInv, CopyExposure
<1> QED BY <1>1, <1>3, <1>4, <1>5 DEF IndInv

\* The copy loop of try_send writes to the slot after the last message, which
\* is free and is not the one the receiver may be copying from, unless that
\* one is acknowledged already.
LEMMA WritePayloadInv ==
  ASSUME IndInv, WritePayload
  PROVE  IndInv'
<1> USE UmpAssumption, CyclicAssumption DEF UmpAssumption, CyclicAssumption, WritePayload, rxVars
<1>1. TypeOK'
  BY DEF IndInv, TypeOK
<1>2. FlowControl'
  BY DEF IndInv, TypeOK, FlowControl, InFlight, PosInFlight, Unacked, Credit
<1>3. UnreadIntact'
  <2> SUFFICES ASSUME NEW i \in Slots, Ahead(i) < InFlight
               PROVE  /\ IdxSub(slotSeq[i], rxSeq) = Ahead(i)
                      /\ slotKind[i] = "send" => slotData'[i] = slotSeq[i]
    BY DEF UnreadIntact, InFlight, Ahead
  <2>1. i # txPos
    BY Bounds, TxAhead
  <2> QED BY <2>1 DEF IndInv, TypeOK, UnreadIntact
<1>4. CopyExposure'
  <2> SUFFICES ASSUME rpc = "copy", rkind = "send",
                      rptr \notin {Middle, NumMsg - 1}
               PROVE  slotData'[rptr] = IdxSub(rxSeq, 1)
    BY DEF CopyExposure
  <2>1. PosInc(rptr) = rxPos
    BY DEF IndInv, FlowControl
  <2>2. Unacked > 0
    BY <2>1 DEF IndInv, TypeOK, Unacked, PosInc, Slots, Middle
  <2>3. InFlight < NumMsg - 1
    BY <2>2, Bounds
  <2>4. rptr # txPos
    BY <2>1, <2>3, TxAhead, Bounds DEF IndInv, TypeOK, Ahead, PosInc, Slots
  <2> QED BY <2>4 DEF IndInv, TypeOK, CopyExposure
<1> QED BY <1>1, <1>2, <1>3, <1>4 DEF IndInv

\* Publishing a message puts the next sequence number into the next slot, on
\* both counts.
LEMMA PublishInv ==
  ASSUME IndInv, NEW kind \in Kind, Publish(kind),
         \/ spc = "written" /\ kind = "send"
         \/ spc = "notify" /\ kind = "notify"
  PROVE  IndInv'
<1> USE UmpAssumption, CyclicAssumption DEF UmpAssumption, CyclicAssumption, Publish, rxVars
<1>1. TypeOK'
  <2>1. seqId' \in Idx /\ txPos' \in Slots
    BY IdxType, PosType DEF IndInv, TypeOK
  <2>2. txEpoch' \in Epoch
    BY DEF IndInv, TypeOK, EpochInc, Epoch
  <2> QED BY <2>1, <2>2 DEF IndInv, TypeOK, Kind
<1>2. /\ InFlight' = InFlight + 1
      /\ IdxSub(seqId', ackWord) = IdxSub(seqId, ackWord) + 1
      /\ IdxSub(seqId', lastAck) = IdxSub(seqId, lastAck) + 1
  <2>1. /\ InFlight + 1 < IdxMod
        /\ IdxSub(seqId, ackWord) + 1 < IdxMod
        /\ IdxSub(seqId, lastAck) + 1 < IdxMod
    BY Bounds DEF IndInv, FlowControl, Credit
  <2> QED BY <2>1, IdxSubIncLeft DEF IndInv, TypeOK, InFlight
<1>3. FlowControl'
  <2>1. PosInFlight' = InFlight'
    <3>1. InFlight < NumMsg /\ InFlight >= 0
      BY Bounds
    <3>2. txEpoch \in {0, 1} /\ rxEpoch \in {0, 1}
      BY DEF IndInv, TypeOK, Epoch
    <3>3. rxPos' = rxPos /\ rxEpoch' = rxEpoch
      OBVIOUS
    <3>4. CASE txPos + 1 = NumMsg
      <4>1. txPos' = 0 /\ txEpoch' = 1 - txEpoch
        BY <3>4 DEF PosInc, EpochInc
      <4>2. txEpoch = rxEpoch
        BY <3>1, <3>2, <3>4, Positions
      <4> QED BY <4>1, <4>2, <3>2, <3>3, <3>4, <1>2, Positions DEF PosInFlight
    <3>5. CASE txPos + 1 # NumMsg
      <4>1. txPos' = txPos + 1 /\ txEpoch' = txEpoch
        BY <3>5 DEF PosInc, EpochInc
      <4> QED BY <4>1, <3>3, <1>2, Positions DEF PosInFlight
    <3> QED BY <3>4, <3>5
  <2>2. \A i \in Slots : slotEpoch'[i] =
                            (IF i < txPos' THEN txEpoch' ELSE 1 - txEpoch')
    BY DEF IndInv, TypeOK, FlowControl, PosInc, EpochInc, Slots, Epoch
  <2>3. Unacked' = Unacked
    BY DEF Unacked
  <2>4. /\ IdxSub(seqId', ackWord) = InFlight' + Unacked + 1
        /\ IdxSub(seqId', ackWord) <= IdxSub(seqId', lastAck)
        /\ IdxSub(seqId', lastAck) <= NumMsg + 1
    BY <1>2, Bounds DEF IndInv, FlowControl, Credit
  <2> QED BY <2>1, <2>2, <2>3, <2>4 DEF IndInv, FlowControl
<1>4. UnreadIntact'
  <2> SUFFICES ASSUME NEW i \in Slots, Ahead(i) < InFlight'
               PROVE  /\ IdxSub(slotSeq'[i], rxSeq) = Ahead(i)
                      /\ slotKind'[i] = "send" => slotData[i] = slotSeq'[i]
    BY DEF UnreadIntact, Ahead
  <2>1. CASE i = txPos
    BY <2>1, Bounds, TxAhead DEF IndInv, TypeOK, FlowControl, InFlight
  <2>2. CASE i # txPos
    <3>1. Ahead(i) < InFlight
      BY <2>2, <1>2, Bounds, TxAhead DEF Slots
    <3> QED BY <2>2, <3>1 DEF IndInv, TypeOK, UnreadIntact
  <2> QED BY <2>1, <2>2
<1>5. CopyExposure'
  BY DEF IndInv, CopyExposure
<1> QED BY <1>1, <1>3, <1>4, <1>5 DEF IndInv

\* Receiving a message takes the oldest one; when it acknowledges, it
\* acknowledges everything received so far.
LEMMA RecvInv ==
  ASSUME IndInv, TryRecv \/ RecvNotify
  PROVE  IndInv'
<1> USE UmpAssumption, CyclicAssumption DEF UmpAssumption, CyclicAssumption, txVars
<1>1. RecvRaw
  BY DEF TryRecv, RecvNotify
<1>2. InFlight > 0 /\ slotSeq[rxPos] = rxSeq
  BY <1>1, CanRecvRight DEF RecvRaw
<1>3. TypeOK'
  <2>1. rxSeq' \in Idx /\ rxPos' \in Slots
    BY <1>1, IdxType, PosType DEF RecvRaw, IndInv, TypeOK
  <2>2. rxEpoch' \in Epoch
    BY <1>1 DEF RecvRaw, IndInv, TypeOK, EpochInc, Epoch
  <2>3. ackWord' \in Idx
    BY <1>1 DEF RecvRaw, AckAfterRecv, IndInv, TypeOK
  <2> QED BY <2>1, <2>2, <2>3, <1>1
          DEF RecvRaw, TryRecv, RecvNotify, IndInv, TypeOK
<1>4. InFlight' = InFlight - 1
  BY <1>1, <1>2, IdxSubIncRight DEF RecvRaw, IndInv, TypeOK, InFlight
<1>5. IdxSub(seqId, ackWord') = InFlight' + Unacked' + 1
  <2>1. CASE rxPos = Middle \/ rxPos + 1 = NumMsg
    <3>1. ackWord' = rxSeq
      BY <1>1, <1>2, <2>1 DEF RecvRaw, AckAfterRecv
    <3>2. Unacked' = 0
      BY <1>1, <2>1 DEF RecvRaw, PosInc, Unacked, Middle, IndInv, TypeOK, Slots
    <3> QED BY <3>1, <3>2, <1>4, Bounds DEF InFlight
  <2>2. CASE ~(rxPos = Middle \/ rxPos + 1 = NumMsg)
    <3>1. ackWord' = ackWord
      BY <1>1, <2>2 DEF RecvRaw, AckAfterRecv
    <3>2. Unacked' = Unacked + 1
      BY <1>1, <2>2 DEF RecvRaw, PosInc, Unacked, Middle, IndInv, TypeOK, Slots
    <3> QED BY <3>1, <3>2, <1>4, Bounds DEF IndInv, FlowControl
  <2> QED BY <2>1, <2>2
<1>6. FlowControl'
  <2>1. PosInFlight' = InFlight'
    <3>1. InFlight <= NumMsg /\ InFlight > 0
      BY <1>2, Bounds
    <3>2. txEpoch \in {0, 1} /\ rxEpoch \in {0, 1}
      BY DEF IndInv, TypeOK, Epoch
    <3>3. txPos' = txPos /\ txEpoch' = txEpoch
      BY <1>1 DEF RecvRaw
    <3>4. CASE rxPos + 1 = NumMsg
      <4>1. rxPos' = 0 /\ rxEpoch' = 1 - rxEpoch
        BY <1>1, <3>4 DEF RecvRaw, PosInc, EpochInc
      <4>2. txEpoch # rxEpoch
        BY <3>1, <3>4, Positions
      <4> QED BY <4>1, <4>2, <3>2, <3>3, <3>4, <1>4, Positions DEF PosInFlight
    <3>5. CASE rxPos + 1 # NumMsg
      <4>1. rxPos' = rxPos + 1 /\ rxEpoch' = rxEpoch
        BY <1>1, <3>5 DEF RecvRaw, PosInc, EpochInc
      <4> QED BY <4>1, <3>3, <1>4, Positions DEF PosInFlight
    <3> QED BY <3>4, <3>5
  <2>2. \A i \in Slots : slotEpoch'[i] =
                            (IF i < txPos' THEN txEpoch' ELSE 1 - txEpoch')
    BY <1>1 DEF RecvRaw, IndInv, FlowControl
  <2>3. IdxSub(seqId, ackWord') <= IdxSub(seqId, lastAck)
    <3>1. InFlight' + Unacked' <= InFlight + Unacked
      <4>1. rxPos' = (IF rxPos + 1 = NumMsg THEN 0 ELSE rxPos + 1)
        BY <1>1 DEF RecvRaw, PosInc
      <4>2. Unacked' <= Unacked + 1 /\ Unacked' \in Int
        BY <4>1, Positions DEF Unacked, Middle
      <4> QED BY <4>2, <1>4, Bounds
    <3>2. InFlight' \in Nat
      BY <1>2, <1>4, Bounds
    <3>3. Unacked' \in Nat
      BY <1>1 DEF RecvRaw, PosInc, Unacked, Middle, IndInv, TypeOK, Slots
    <3> QED BY <3>1, <3>2, <3>3, <1>5, Bounds DEF IndInv, FlowControl
  <2>4. rpc' = "copy" => PosInc(rptr') = rxPos'
    BY <1>1 DEF RecvRaw, TryRecv, RecvNotify
  <2>5. /\ IdxSub(seqId, lastAck) <= NumMsg + 1
        /\ spc # "idle" => Credit(lastAck)
        /\ spc = "written" => slotData[txPos] = seqId
    BY DEF IndInv, FlowControl
  <2> QED BY <2>1, <2>2, <2>3, <2>4, <2>5, <1>1, <1>5
          DEF FlowControl, RecvRaw, Credit
<1>7. UnreadIntact'
  <2> SUFFICES ASSUME NEW i \in Slots, Ahead(i)' < InFlight'
               PROVE  /\ IdxSub(slotSeq[i], rxSeq') = Ahead(i)'
                      /\ slotKind[i] = "send" => slotData[i] = slotSeq[i]
    BY <1>1 DEF UnreadIntact, RecvRaw
  <2>a. rxPos' = (IF rxPos + 1 = NumMsg THEN 0 ELSE rxPos + 1)
    BY <1>1 DEF RecvRaw, PosInc
  <2>b. InFlight' <= NumMsg - 1
    BY <1>4, Bounds
  <2>c. i \in Nat /\ i < NumMsg
    BY DEF Slots
  <2>1. Ahead(i) = Ahead(i)' + 1
    <3>1. CASE rxPos + 1 = NumMsg
      <4>1. rxPos' = 0 /\ Ahead(i)' = i
        BY <2>a, <2>c, <3>1 DEF Ahead
      <4>2. i # NumMsg - 1
        BY <4>1, <2>b, <2>c, Positions, <1>4, Bounds
      <4> QED BY <4>1, <4>2, <3>1, <2>c, Positions DEF Ahead
    <3>2. CASE rxPos + 1 # NumMsg
      <4>1. rxPos' = rxPos + 1
        BY <2>a, <3>2
      <4>2. Ahead(i)' = (IF i >= rxPos + 1 THEN i - (rxPos + 1)
                                           ELSE i - (rxPos + 1) + NumMsg)
        BY <4>1 DEF Ahead
      <4>3. Ahead(i)' < NumMsg - 1
        BY <2>b, <4>2, <2>c, Positions, <1>4, Bounds
      <4>4. i # rxPos
        BY <4>2, <4>3, <2>c, Positions
      <4> QED BY <4>2, <4>4, <2>c, Positions DEF Ahead
    <3> QED BY <3>1, <3>2
  <2>2. Ahead(i) < InFlight /\ Ahead(i) > 0
    <3>1. Ahead(i)' \in Nat
      BY <2>a, <2>c, Positions DEF Ahead
    <3> QED BY <2>1, <3>1, <1>4, Bounds
  <2>3. /\ IdxSub(slotSeq[i], rxSeq) = Ahead(i)
        /\ slotKind[i] = "send" => slotData[i] = slotSeq[i]
    BY <2>2 DEF IndInv, UnreadIntact
  <2>4. IdxSub(slotSeq[i], IdxInc(rxSeq)) = Ahead(i) - 1
    BY <2>2, <2>3, IdxSubIncRight DEF IndInv, TypeOK
  <2>5. Ahead(i)' = Ahead(i) - 1
    <3>1. Ahead(i)' \in Int
      BY <2>a, <2>c, Positions DEF Ahead
    <3> QED BY <2>1, <3>1
  <2> QED BY <2>3, <2>4, <2>5, <1>1 DEF RecvRaw
<1>8. CopyExposure'
  <2>1. CASE RecvNotify
    BY <2>1 DEF RecvNotify, RecvRaw, CopyExposure
  <2>2. CASE TryRecv
    <3> SUFFICES ASSUME slotKind[rxPos] = "send"
                 PROVE  slotData[rxPos] = IdxSub(rxSeq', 1)
      BY <2>2 DEF TryRecv, RecvRaw, CopyExposure
    <3>1. rxPos \in Slots /\ Ahead(rxPos) = 0
      BY DEF IndInv, TypeOK, Ahead, Slots
    <3>2. slotData[rxPos] = rxSeq
      BY <3>1, <1>2 DEF IndInv, UnreadIntact
    <3> QED BY <3>2, <1>1, IdxPred DEF RecvRaw, IndInv, TypeOK
  <2> QED BY <2>1, <2>2
<1> QED BY <1>3, <1>6, <1>7, <1>8 DEF IndInv

\* Finishing the copy gives up the pointer.
LEMMA CopyPayloadInv ==
  ASSUME IndInv, CopyPayload
  PROVE  IndInv'
<1> USE UmpAssumption, CyclicAssumption DEF UmpAssumption, CyclicAssumption, CopyPayload, sharedVars, txVars
<1>1. TypeOK'
  BY DEF IndInv, TypeOK, Slots, Kind
<1>2. FlowControl'
  BY DEF IndInv, FlowControl, InFlight, PosInFlight, Unacked, Credit
<1>3. UnreadIntact'
  BY DEF IndInv, UnreadIntact, InFlight, Ahead
<1>4. CopyExposure'
  BY DEF CopyExposure
<1> QED BY <1>1, <1>2, <1>3, <1>4 DEF IndInv

\* Every step of either thread preserves the invariant.
LEMMA NextInv == IndInv /\ [Next]_vars => IndInv'
<1> SUFFICES ASSUME IndInv, [Next]_vars PROVE IndInv'
  OBVIOUS
<1>1. CASE CanSend
  BY <1>1, CheckInv DEF CanSend
<1>2. CASE PrepareSend("send") \/ PrepareSend("notify")
  BY <1>2, CheckInv DEF PrepareSend
<1>3. CASE WritePayload
  BY <1>3, WritePayloadInv
<1>4. CASE SendRaw \/ NotifyRaw
  BY <1>4, PublishInv DEF SendRaw, NotifyRaw, Kind
<1>5. CASE TryRecv \/ RecvNotify
  BY <1>5, RecvInv
<1>6. CASE CopyPayload
  BY <1>6, CopyPayloadInv
<1>7. CASE UNCHANGED vars
  BY <1>7 DEF vars, sharedVars, txVars, rxVars, IndInv, TypeOK, FlowControl,
     UnreadIntact, CopyExposure, InFlight, PosInFlight, Unacked, Credit, Ahead
<1> QED BY <1>1, <1>2, <1>3, <1>4, <1>5, <1>6, <1>7
        DEF Next, Sender, Receiver

\* The invariant holds in every reachable state, and with it the flow control
\* of smlt_ump_queuepair_can_send_raw and smlt_ump_queue_recv_raw.
THEOREM Invariance == Spec => []IndInv
BY InitInv, NextInv, PTL DEF Spec

\* Positions, epochs and sequence numbers stay in their types.
THEOREM TypeCorrect == Spec => []TypeOK
<1>1. IndInv => TypeOK
  BY DEF IndInv
<1> QED BY <1>1, Invariance, PTL

\* For every ring size and width of the sequence numbers, what smlt_ump_queue_
\* recv_raw returns is the oldest message not received yet, and it returns one
\* whenever there is one.
THEOREM InOrderDelivery == Spec => []InOrder
<1>1. IndInv => InOrder
  BY CanRecvRight DEF InOrder
<1> QED BY <1>1, Invariance, PTL

\* A credit granted by smlt_ump_queuepair_can_send_raw is never wrong.
THEOREM CreditIsRoom == Spec => []NoOverrun
<1>1. IndInv => NoOverrun
  BY Bounds, UmpAssumption, CyclicAssumption DEF UmpAssumption, CyclicAssumption, NoOverrun
<1> QED BY <1>1, Invariance, PTL

\* Messages published and not received yet keep their number and payload.
THEOREM UnreadStaysIntact == Spec => []UnreadIntact
<1>1. IndInv => UnreadIntact
  BY DEF IndInv
<1> QED BY <1>1, Invariance, PTL

\* The positions, the epoch bits and the sequence numbers of the two threads
\* count the same messages, and the acknowledgement word is exactly what the
\* receiver owes, whatever the ring size.
THEOREM FlowControlHolds == Spec => []FlowControl
<1>1. IndInv => FlowControl
  BY DEF IndInv
<1> QED BY <1>1, Invariance, PTL

\* The payload can change under smlt_ump_queuepair_try_recv only for messages
\* in the middle or at the end of the ring.
THEOREM ExposureIsBounded == Spec => []CopyExposure
<1>1. IndInv => CopyExposure
  BY DEF IndInv
<1> QED BY <1>1, Invariance, PTL

-----------------------------------------------------------------------------
(* The ring implements the FIFO channel.                                   *)

\* the messages of the abstract channel are the published numbers in order
RingContents ==
  /\ RingQueue \in Seq(Idx)
  /\ Len(RingQueue) = InFlight
  /\ \A k \in 1 .. InFlight : RingQueue[k] = slotSeq[RingSlot(k)]

\* The invariant makes the refinement mapping well defined.
LEMMA RingType == IndInv => RingContents
<1> SUFFICES ASSUME IndInv PROVE RingContents
  OBVIOUS
<1>1. InFlight \in Nat /\ PosInFlight = InFlight
  BY Bounds DEF IndInv, FlowControl
<1>2. \A k \in 1 .. InFlight : RingSlot(k) \in Slots
  BY Bounds, UmpAssumption, CyclicAssumption DEF UmpAssumption, CyclicAssumption, RingSlot, IndInv, TypeOK, Slots
<1>3. RingQueue = [k \in 1 .. InFlight |-> slotSeq[RingSlot(k)]]
  BY <1>1 DEF RingQueue
<1>4. \A k \in 1 .. InFlight : slotSeq[RingSlot(k)] \in Idx
  BY <1>2 DEF IndInv, TypeOK
<1> QED BY <1>1, <1>2, <1>3, <1>4 DEF RingContents

\* The same of the next state.
LEMMA RingTypeNext == IndInv' => RingContents'
BY RingType, PTL

\* The cleared ring is the empty channel.
LEMMA RefineInit == Init => Fifo!Init
<1> SUFFICES ASSUME Init PROVE Fifo!Init
  OBVIOUS
<1>1. PosInFlight = 0
  BY DEF Init, InitWith, PosInFlight
<1>2. RingQueue = <<>>
  BY <1>1 DEF RingQueue
<1>3. IdxSub(rxSeq, 1) = 0 /\ seqId = 1
  BY DEF Init, InitWith, IdxSub
<1> QED BY <1>2, <1>3 DEF Fifo!Init

\* Storing the control word is the abstract Send.
LEMMA RefinePublish ==
  ASSUME IndInv, IndInv', spc # "idle", NEW kind, Publish(kind)
  PROVE  Fifo!Send
<1> USE UmpAssumption, CyclicAssumption DEF UmpAssumption, CyclicAssumption
<1>1. InFlight' = InFlight + 1
  <2>1. seqId \in Idx /\ rxSeq \in Idx
    BY DEF IndInv, TypeOK
  <2>2. IdxSub(seqId, rxSeq) + 1 < IdxMod
    BY Bounds DEF InFlight
  <2>3. seqId' = IdxInc(seqId) /\ rxSeq' = rxSeq
    BY DEF Publish, rxVars
  <2> QED BY <2>1, <2>2, <2>3, IdxSubIncLeft DEF InFlight
<1>2. Len(RingQueue) < NumMsg
  <2>1. Len(RingQueue) = InFlight
    BY RingType DEF RingContents
  <2> QED BY <2>1, Bounds
<1>3. RingQueue' = Append(RingQueue, seqId)
  <2>1. RingSlot(InFlight + 1) = txPos
    BY Bounds, Positions DEF RingSlot
  <2>2. \A k \in 1 .. InFlight : RingSlot(k) # txPos
    <3> TAKE k \in 1 .. InFlight
    <3>1. InFlight \in Nat /\ InFlight < NumMsg
      BY Bounds
    <3>2. k \in Nat /\ 1 <= k /\ k <= InFlight
      BY <3>1
    <3>3. RingSlot(k) # RingSlot(InFlight + 1)
      <4> DEFINE f == InFlight
      <4> HIDE DEF f
      <4>1. RingSlot(k) # RingSlot(f + 1)
        BY <3>1, <3>2, Positions DEF RingSlot, f
      <4> QED BY <4>1 DEF f
    <3> QED BY <2>1, <3>3
  <2>3. \A k \in 1 .. InFlight + 1 : RingSlot(k)' = RingSlot(k)
    BY DEF RingSlot, Publish, rxVars
  <2>4. /\ RingQueue' \in Seq(Idx)
        /\ Len(RingQueue') = InFlight + 1
        /\ \A k \in 1 .. InFlight + 1 : RingQueue'[k] = slotSeq'[RingSlot(k)]
    BY <1>1, <2>3, RingTypeNext DEF RingContents
  <2>5. slotSeq' = [slotSeq EXCEPT ![txPos] = seqId]
    BY DEF Publish
  <2>8. /\ seqId \in Idx
        /\ txPos \in Slots
        /\ DOMAIN slotSeq = Slots
        /\ InFlight \in Nat
    BY Bounds DEF IndInv, TypeOK
  <2>6. RingQueue'[InFlight + 1] = seqId
    <3>1. InFlight + 1 \in 1 .. InFlight + 1
      BY <2>8
    <3>2. RingQueue'[InFlight + 1] = slotSeq'[txPos]
      BY <2>1, <2>4, <3>1
    <3> QED BY <2>5, <2>8, <3>2
  <2>7. \A k \in 1 .. InFlight : RingQueue'[k] = RingQueue[k]
    <3> TAKE k \in 1 .. InFlight
    <3>1. k \in 1 .. InFlight + 1
      BY <2>8
    <3>2. RingQueue'[k] = slotSeq'[RingSlot(k)]
      BY <2>4, <3>1
    <3>3. RingQueue[k] = slotSeq[RingSlot(k)] /\ RingSlot(k) # txPos
      BY <2>2, RingType DEF RingContents
    <3>4. RingSlot(k) \in Slots
      BY Bounds, Positions DEF RingSlot, Slots
    <3> QED BY <2>5, <2>8, <3>2, <3>3, <3>4
  <2>9. /\ RingQueue \in Seq(Idx)
        /\ Len(RingQueue) = InFlight
    BY RingType DEF RingContents
  <2> QED BY <2>4, <2>6, <2>7, <2>8, <2>9
<1>4. seqId' = Fifo!IdxInc(seqId)
  BY DEF Publish, IdxInc, Fifo!IdxInc
<1> QED BY <1>2, <1>3, <1>4 DEF Fifo!Send, Publish, rxVars

\* Taking a slot is the abstract Recv.
LEMMA RefineRecv ==
  ASSUME IndInv, IndInv', RecvRaw
  PROVE  Fifo!Recv
<1> USE UmpAssumption, CyclicAssumption DEF UmpAssumption, CyclicAssumption
<1>1. InFlight > 0 /\ slotSeq[rxPos] = rxSeq
  BY CanRecvRight DEF RecvRaw
<1>2. InFlight' = InFlight - 1
  BY <1>1, IdxSubIncRight DEF RecvRaw, txVars, IndInv, TypeOK, InFlight
<1>3. RingQueue # <<>> /\ Head(RingQueue) = rxSeq
  <2>1. RingSlot(1) = rxPos
    BY DEF RingSlot, IndInv, TypeOK, Slots
  <2> QED BY <2>1, <1>1, RingType, Bounds DEF RingContents
<1>4. RingQueue' = Tail(RingQueue)
  <2>1. \A k \in 1 .. InFlight - 1 : RingSlot(k)' = RingSlot(k + 1)
    <3> TAKE k \in 1 .. InFlight - 1
    <3>1. k \in Nat /\ 1 <= k /\ k < NumMsg
      BY Bounds
    <3>2. rxPos' = (IF rxPos + 1 = NumMsg THEN 0 ELSE rxPos + 1)
      BY DEF RecvRaw, PosInc
    <3> QED BY <3>1, <3>2, Positions DEF RingSlot
  <2>2. /\ RingQueue' \in Seq(Idx)
        /\ Len(RingQueue') = InFlight - 1
        /\ \A k \in 1 .. InFlight - 1 :
              RingQueue'[k] = slotSeq[RingSlot(k + 1)]
    BY <1>2, <2>1, RingTypeNext DEF RingContents, RecvRaw
  <2>3. \A k \in 1 .. InFlight - 1 : RingQueue'[k] = RingQueue[k + 1]
    <3> TAKE k \in 1 .. InFlight - 1
    <3>1. k + 1 \in 1 .. InFlight
      BY Bounds
    <3> QED BY <2>2, <3>1, RingType DEF RingContents
  <2>4. /\ RingQueue \in Seq(Idx)
        /\ Len(RingQueue) = InFlight
        /\ InFlight \in Nat
    BY RingType, Bounds DEF RingContents
  <2> QED BY <2>2, <2>3, <2>4, <1>1
<1>5. IdxSub(rxSeq, 1)' = rxSeq
  BY IdxPred DEF RecvRaw, IndInv, TypeOK
<1> QED BY <1>3, <1>4, <1>5 DEF Fifo!Recv, RecvRaw, txVars

\* Every step of the ring is a step of the channel or a stutter.
LEMMA RefineNext ==
  IndInv /\ IndInv' /\ [Next]_vars => [Fifo!Next]_(Fifo!vars)
<1> SUFFICES ASSUME IndInv, IndInv', [Next]_vars
             PROVE  Fifo!Next \/ UNCHANGED Fifo!vars
  OBVIOUS
<1> USE DEF Fifo!vars
<1>1. ASSUME UNCHANGED <<slotSeq, txPos, txEpoch, seqId, rxPos, rxEpoch, rxSeq>>
      PROVE  UNCHANGED Fifo!vars
  BY <1>1 DEF RingQueue, RingSlot, PosInFlight
<1>2. CASE CanSend \/ PrepareSend("send") \/ PrepareSend("notify")
  BY <1>1, <1>2 DEF CanSend, PrepareSend, sharedVars, rxVars
<1>3. CASE WritePayload
  BY <1>1, <1>3 DEF WritePayload, rxVars
<1>4. CASE SendRaw \/ NotifyRaw
  BY <1>4, RefinePublish DEF SendRaw, NotifyRaw, Fifo!Next
<1>5. CASE TryRecv \/ RecvNotify
  BY <1>5, RefineRecv DEF TryRecv, RecvNotify, Fifo!Next
<1>6. CASE CopyPayload
  BY <1>1, <1>6 DEF CopyPayload, sharedVars, txVars
<1>7. CASE UNCHANGED vars
  BY <1>1, <1>7 DEF vars, sharedVars, txVars, rxVars
<1> QED BY <1>2, <1>3, <1>4, <1>5, <1>6, <1>7 DEF Next, Sender, Receiver

\* A UMP queue of any size is a bounded FIFO channel of num_msg messages.
THEOREM Refinement == Spec => ImplementsFifo
BY RefineInit, RefineNext, Invariance, PTL DEF Spec, ImplementsFifo, Fifo!Spec

=============================================================================
