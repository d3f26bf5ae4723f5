------------------------------ MODULE UmpQueue ------------------------------
(***************************************************************************)
(* One direction of a UMP queuepair: a ring of NumMsg message slots in     *)
(* shared memory, written by the sending thread and read by the receiving  *)
(* thread, without locks.                                                  *)
(*                                                                         *)
(*  - A slot is a control word (epoch bit, sequence number) and a payload. *)
(*    The sender writes the payload, then the control word; the epoch bit  *)
(*    it writes flips on every lap, and the receiver takes a slot for full *)
(*    when its epoch bit is the one of the receiver's own lap.             *)
(*  - Flow control is by credits.  The receiver stores the sequence number *)
(*    of a message in the shared word *last_ack when that message sits in  *)
(*    the middle or at the end of the ring.  The sender keeps a private    *)
(*    copy and reads the shared word only when the copy grants no credit.  *)
(*                                                                         *)
(* Sequence numbers are unsigned integers of IdxMod values (2^16 in the    *)
(* code, smlt_ump_idx_t).  The payload of a message is one word; the model *)
(* lets the sender put the message's own sequence number into it, so that  *)
(* a payload tells which message it belongs to.  The two directions of a   *)
(* queuepair share no state: a queuepair is two copies of this module.     *)
(*                                                                         *)
(* On x86-64 stores become visible in program order, and every shared word *)
(* is read and written by single instructions, so each access is one step. *)
(***************************************************************************)
EXTENDS Cyclic, Sequences

CONSTANT NumMsg     \* tx.num_msg: slots of the ring that carry messages

(***************************************************************************)
(* smlt_ump_queuepair_init refuses fewer than 2 slots and check_alignment  *)
(* more than UINT16_MAX; one slot is used for *last_ack.  Hence            *)
(* 1 <= num_msg <= 65534, and a sequence-number distance of num_msg + 1    *)
(* still fits.                                                             *)
(***************************************************************************)
ASSUME UmpAssumption ==
  /\ NumMsg \in Nat \ {0}
  /\ IdxMod > NumMsg + 1

VARIABLES
  \* shared memory
  slotEpoch,   \* epoch bit of each slot's control word
  slotSeq,     \* sequence number of each slot's control word
  slotData,    \* payload word of each slot
  ackWord,     \* *last_ack, written by the receiver
  \* the sending thread: struct smlt_ump_queuepair and its tx queue
  txPos, txEpoch, seqId, lastAck,
  spc,         \* what the sender is doing
  \* the receiving thread: the rx queue of the other end
  rxPos, rxEpoch,
  rpc,         \* what the receiver is doing
  rptr,        \* the slot the receiver holds a pointer to
  \* history, read by no action
  rxSeq,       \* number of the next message in sending order
  slotKind,    \* how the message in the slot was sent
  rkind        \* how the message the receiver is copying was sent

sharedVars == <<slotEpoch, slotSeq, slotData, ackWord>>
txVars     == <<txPos, txEpoch, seqId, lastAck, spc>>
rxVars     == <<rxPos, rxEpoch, rpc, rptr, rxSeq, rkind>>
vars       == <<sharedVars, txVars, rxVars, slotKind>>

Slots == 0 .. NumMsg - 1
Epoch == {0, 1}
Kind  == {"send", "notify"}

\* the middle of the ring, num_msg >> 1
Middle == NumMsg \div 2

-----------------------------------------------------------------------------
(* ++pos == num_msg, with the wrap to the next lap *)
PosInc(p) == IF p + 1 = NumMsg THEN 0 ELSE p + 1

EpochInc(p, e) == IF p + 1 = NumMsg THEN 1 - e ELSE e

-----------------------------------------------------------------------------
(* smlt_ump_queue_init_tx clears the buffer, so every epoch bit is 0; the  *)
(* receiver starts in epoch 1 and the first message carries number 1.      *)
InitWith(txe) ==
  /\ slotEpoch = [i \in Slots |-> 0]
  /\ slotSeq   = [i \in Slots |-> 0]
  /\ slotData  = [i \in Slots |-> 0]
  /\ slotKind  = [i \in Slots |-> "notify"]
  /\ ackWord = 0
  /\ txPos = 0 /\ txEpoch = txe /\ seqId = 1 /\ lastAck = 0
  /\ spc = "idle"
  /\ rxPos = 0 /\ rxEpoch = 1
  /\ rpc = "idle" /\ rptr = 0
  /\ rxSeq = 1 /\ rkind = "notify"

\* mutant: the sender starts in the epoch of the cleared buffer
Init_TxEpochZero == InitWith(0)

(* Both ends start in epoch 1.                                             *)
Init == InitWith(1)

-----------------------------------------------------------------------------
(* The sender.                                                             *)

\* mutant: the difference is not cut back to smlt_ump_idx_t
Credit_Promoted(ack) == seqId - ack <= NumMsg

\* mutant: one message too many
Credit_OffByOne(ack) == IdxSub(seqId, ack) <= NumMsg + 1

\* the test at both ends of smlt_ump_queuepair_can_send_raw
Credit(ack) == IdxSub(seqId, ack) <= NumMsg

\* the private copy after smlt_ump_queuepair_can_send_raw: it is replaced by
\* the shared word only when it grants no credit
AckAfterCheck == IF Credit(lastAck) THEN lastAck ELSE ackWord

(* smlt_ump_queuepair_can_send, and every turn of a blocking send or       *)
(* notify that finds the queue full.                                       *)
CanSend ==
  /\ spc = "idle"
  /\ lastAck' = AckAfterCheck
  /\ UNCHANGED <<sharedVars, slotKind, txPos, txEpoch, seqId, spc, rxVars>>

(* The check succeeds: try_send goes on to fill the slot, notify goes on   *)
(* to publish it as it is.                                                 *)
PrepareSend(what) ==
  /\ spc = "idle"
  /\ lastAck' = AckAfterCheck
  /\ Credit(AckAfterCheck)
  /\ spc' = what
  /\ UNCHANGED <<sharedVars, slotKind, txPos, txEpoch, seqId, rxVars>>

(* The copy loop of smlt_ump_queuepair_try_send.                           *)
WritePayload ==
  /\ spc = "send"
  /\ slotData' = [slotData EXCEPT ![txPos] = seqId]
  /\ spc' = "written"
  /\ UNCHANGED <<slotEpoch, slotSeq, ackWord, slotKind, txPos, txEpoch,
                 seqId, lastAck, rxVars>>

(* smlt_ump_queuepair_send_raw and smlt_ump_queuepair_notify_raw: the      *)
(* control word is stored in one go, which publishes the message.          *)
Publish(kind) ==
  /\ slotEpoch' = [slotEpoch EXCEPT ![txPos] = txEpoch]
  /\ slotSeq'   = [slotSeq EXCEPT ![txPos] = seqId]
  /\ slotKind'  = [slotKind EXCEPT ![txPos] = kind]
  /\ seqId'     = IdxInc(seqId)
  /\ txPos'     = PosInc(txPos)
  /\ txEpoch'   = EpochInc(txPos, txEpoch)
  /\ spc'       = "idle"
  /\ UNCHANGED <<slotData, ackWord, lastAck, rxVars>>

\* mutant: the control word is stored before the payload
SendRaw_Early == spc = "send" /\ Publish("send")

SendRaw   == spc = "written" /\ Publish("send")
NotifyRaw == spc = "notify"  /\ Publish("notify")

-----------------------------------------------------------------------------
(* The receiver.                                                           *)

\* smlt_ump_queue_can_recv
CanRecv == slotEpoch[rxPos] = rxEpoch

\* mutant: every message is acknowledged at once
AckAfterRecv_Each == slotSeq[rxPos]

\* mutant: no acknowledgement at the end of the ring
AckAfterRecv_MiddleOnly ==
  IF rxPos = Middle THEN slotSeq[rxPos] ELSE ackWord

\* the store to *last_ack of smlt_ump_queue_recv_raw: in the middle of the
\* ring and when the position wraps
AckAfterRecv ==
  IF rxPos = Middle \/ rxPos + 1 = NumMsg THEN slotSeq[rxPos] ELSE ackWord

(* smlt_ump_queuepair_recv_raw.  The epoch bit it polls cannot change      *)
(* again before the control word is read, as the sender may not reuse the  *)
(* slot, so both reads are one step.  Returning the pointer leaves the     *)
(* payload to be copied by the caller.                                     *)
RecvRaw ==
  /\ rpc = "idle"
  /\ CanRecv
  /\ ackWord' = AckAfterRecv
  /\ rxPos'   = PosInc(rxPos)
  /\ rxEpoch' = EpochInc(rxPos, rxEpoch)
  /\ rxSeq'   = IdxInc(rxSeq)
  /\ UNCHANGED <<slotEpoch, slotSeq, slotData, slotKind, txVars>>

(* smlt_ump_queuepair_try_recv up to its copy loop                         *)
TryRecv ==
  /\ RecvRaw
  /\ rpc'   = "copy"
  /\ rptr'  = rxPos
  /\ rkind' = slotKind[rxPos]

(* smlt_ump_queuepair_recv_notify asks for no pointer and copies nothing   *)
RecvNotify == RecvRaw /\ UNCHANGED <<rpc, rptr, rkind>>

(* The copy loop of smlt_ump_queuepair_try_recv.                           *)
CopyPayload ==
  /\ rpc = "copy"
  /\ rpc' = "idle"
  /\ rptr' = 0 /\ rkind' = "notify"
  /\ UNCHANGED <<sharedVars, slotKind, txVars, rxPos, rxEpoch, rxSeq>>

-----------------------------------------------------------------------------
Sender ==
  \/ PrepareSend("send")
  \/ PrepareSend("notify")
  \/ WritePayload
  \/ SendRaw
  \/ NotifyRaw

Receiver == TryRecv \/ RecvNotify \/ CopyPayload

Next == CanSend \/ Sender \/ Receiver

Spec == Init /\ [][Next]_vars

(***************************************************************************)
(* smlt_queuepair_send, _notify and _recv spin until they succeed, so a    *)
(* thread inside them keeps taking steps while it is scheduled.            *)
(***************************************************************************)
Fairness == WF_vars(Sender) /\ WF_vars(Receiver)

FairSpec == Spec /\ Fairness

-----------------------------------------------------------------------------
(* Properties.                                                             *)

\* messages published and not received yet
InFlight == IdxSub(seqId, rxSeq)

\* the same from what the two threads hold: their positions and epochs
PosInFlight ==
  IF txEpoch = rxEpoch THEN txPos - rxPos ELSE txPos + NumMsg - rxPos

\* how many slots after the receiver's position slot i comes
Ahead(i) == IF i >= rxPos THEN i - rxPos ELSE i - rxPos + NumMsg

(* Every variable stays in its type: positions inside the ring, sequence   *)
(* numbers inside smlt_ump_idx_t.                                          *)
TypeOK ==
  /\ slotEpoch \in [Slots -> Epoch]
  /\ slotSeq \in [Slots -> Idx]
  /\ slotData \in [Slots -> Idx]
  /\ slotKind \in [Slots -> Kind]
  /\ ackWord \in Idx
  /\ txPos \in Slots /\ txEpoch \in Epoch
  /\ seqId \in Idx /\ lastAck \in Idx
  /\ spc \in {"idle", "send", "written", "notify"}
  /\ rxPos \in Slots /\ rxEpoch \in Epoch
  /\ rpc \in {"idle", "copy"}
  /\ rptr \in Slots
  /\ rxSeq \in Idx /\ rkind \in Kind

(* The epoch bit polled by smlt_ump_queue_can_recv tells the truth on      *)
(* every lap: the poll succeeds exactly when a message is waiting, and the *)
(* slot then holds the oldest one.  No message is lost, received twice or  *)
(* received out of order.                                                  *)
InOrder ==
  /\ CanRecv <=> InFlight > 0
  /\ CanRecv => slotSeq[rxPos] = rxSeq

(* A sender that smlt_ump_queuepair_can_send_raw let through, possibly on  *)
(* a stale copy of the acknowledgement and across a wrap of the sequence   *)
(* numbers, never writes to a slot whose message has not been received.    *)
NoOverrun == spc # "idle" => InFlight < NumMsg

(* A published message stays in its slot, number and payload, until it is  *)
(* received: the payload is complete before the control word of            *)
(* smlt_ump_queue_send publishes it, and nobody writes to it afterwards.   *)
UnreadIntact ==
  \A i \in Slots : Ahead(i) < InFlight =>
    /\ IdxSub(slotSeq[i], rxSeq) = Ahead(i)
    /\ slotKind[i] = "send" => slotData[i] = slotSeq[i]

(* While smlt_ump_queuepair_try_recv copies a message out, the payload is  *)
(* still the one that was sent, unless the message is at one of the two    *)
(* positions whose receipt is acknowledged before the copy: only there may *)
(* the sender reuse the slot under the receiver.  (At those two it may,    *)
(* against the comment on smlt_ump_queuepair_recv_raw: the payload is to   *)
(* be "consumed or copied to stable storage beforehand".)                  *)
CopyExposure ==
  rpc = "copy" /\ rkind = "send" /\ rptr \notin {Middle, NumMsg - 1}
    => slotData[rptr] = IdxSub(rxSeq, 1)

\* messages received since the last acknowledgement
Unacked == IF rxPos > Middle THEN rxPos - Middle - 1 ELSE rxPos

(* The flow control, and with it the inductive invariant of the ring.  The *)
(* positions and epochs of smlt_ump_queue count the same messages as the   *)
(* sequence numbers of smlt_ump_queuepair; the shared acknowledgement is   *)
(* exactly the last one the receiver owes, and the sender's copy is never  *)
(* ahead of it.                                                            *)
FlowControl ==
  /\ InFlight = PosInFlight
  /\ \A i \in Slots : slotEpoch[i] = (IF i < txPos THEN txEpoch ELSE 1 - txEpoch)
  /\ IdxSub(seqId, ackWord) = InFlight + Unacked + 1
  /\ IdxSub(seqId, ackWord) <= IdxSub(seqId, lastAck)
  /\ IdxSub(seqId, lastAck) <= NumMsg + 1
  /\ spc # "idle" => Credit(lastAck)
  /\ spc = "written" => slotData[txPos] = seqId
  /\ rpc = "copy" => PosInc(rptr) = rxPos

(* Whatever has been published is received, and a thread blocked in        *)
(* smlt_queuepair_send or _notify on a full queue gets through as long as  *)
(* the other end keeps receiving: the two acknowledgements per lap are     *)
(* enough, for every ring size.                                            *)
Delivery ==
  /\ \A k \in Idx : seqId = k ~> rxSeq = k
  /\ []<>(spc # "idle")

\* the slot of the k-th message in flight, and the messages in flight
RingSlot(k) ==
  IF rxPos + k - 1 < NumMsg THEN rxPos + k - 1 ELSE rxPos + k - 1 - NumMsg

RingQueue == [k \in 1 .. PosInFlight |-> slotSeq[RingSlot(k)]]

Fifo == INSTANCE FifoChannel WITH
  Capacity <- NumMsg,
  queue    <- RingQueue,
  next     <- seqId,
  received <- IdxSub(rxSeq, 1)

(* The ring implements the bounded FIFO channel of capacity num_msg: each  *)
(* step of either thread sends the next message, receives the oldest one,  *)
(* or does neither.                                                        *)
ImplementsFifo == Fifo!Spec

=============================================================================
