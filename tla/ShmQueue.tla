------------------------------ MODULE ShmQueue ------------------------------
(***************************************************************************)
(* One direction of a SHM queuepair: a ring of NumSlots slots between one  *)
(* writer and one reader.  A slot is a header, the number of the message   *)
(* in it, and a payload; the reader waits for the header to show the       *)
(* number it expects and publishes its position after every message.  The  *)
(* writer runs freely up to next_sync and reads the published position     *)
(* only there.                                                             *)
(*                                                                         *)
(* The payload is one word holding the number of the message.              *)
(***************************************************************************)
EXTENDS Cyclic, Sequences

CONSTANTS NumSlots,   \* q->num_slots
          Polls       \* does the writer send only after can_send said yes

ASSUME ShmAssumption ==
  /\ NumSlots \in Nat /\ NumSlots > 2
  /\ IdxMod > NumSlots
  /\ Polls \in BOOLEAN

VARIABLES
  header, data, readerPos,   \* shared memory
  wPos, wSeq, wSync, wpc,    \* the writer's context, and where it is
  op,                        \* the call in progress, send or send0
  rPos, rSeq, rpc,           \* the reader's context, and where it is
  kind                       \* history: how each slot's message was sent

sharedVars == <<header, data, readerPos>>
wVars      == <<wPos, wSeq, wSync, wpc, op>>
rVars      == <<rPos, rSeq, rpc>>
vars       == <<sharedVars, wVars, rVars, kind>>

Slots == 0 .. NumSlots - 1
Calls == {"send", "send0"}

-----------------------------------------------------------------------------
(* shm_init_context, for both ends of fresh memory *)
Init ==
  /\ header = [i \in Slots |-> 0]
  /\ data = [i \in Slots |-> 0]
  /\ readerPos = 0
  /\ wPos = 0 /\ wSeq = 1 /\ wSync = NumSlots - 1
  /\ wpc = "idle" /\ op = "send0"
  /\ rPos = 0 /\ rSeq = 1 /\ rpc = "idle"
  /\ kind = [i \in Slots |-> "send0"]

-----------------------------------------------------------------------------
(* The writer.                                                             *)

\* shm_q_can_send
CanSend == wSeq # wSync

\* what follows once there is room: send0 writes no payload
Store(o) == IF o = "send" THEN "payload" ELSE "header"

(* A call of can_send changes nothing: a FALSE is final until a send       *)
(* passes the sync point.                                                  *)
Poll == wpc = "idle" /\ UNCHANGED vars

(* shm_q_send and shm_q_send0 up to the sync point *)
Send(o) ==
  /\ wpc = "idle"
  /\ Polls => CanSend
  /\ op' = o
  /\ wPos' = IF wPos = NumSlots THEN 0 ELSE wPos
  /\ wpc' = IF CanSend THEN Store(o) ELSE "sync"
  /\ UNCHANGED <<sharedVars, wSeq, wSync, rVars, kind>>

\* mutant: the distance between the position and the sync point is too long
NextSync_TooFar == IdxAdd(readerPos, NumSlots - 1 + 3)

\* mutant: the sync point is computed from the old one
NextSync_Stale == wSync

\* get_next_sync
NextSync == IdxAdd(readerPos, NumSlots - 1)

(* One turn of the loop around get_next_sync.                              *)
Sync ==
  /\ wpc = "sync"
  /\ wSync' = NextSync
  /\ wpc' = IF wSeq = NextSync THEN "sync" ELSE Store(op)
  /\ UNCHANGED <<sharedVars, wPos, wSeq, op, rVars, kind>>

WritePayload ==
  /\ wpc = "payload"
  /\ data' = [data EXCEPT ![wPos] = wSeq]
  /\ wpc' = "header"
  /\ UNCHANGED <<header, readerPos, wPos, wSeq, wSync, op, rVars, kind>>

(* Storing the header publishes the message.                               *)
WriteHeader ==
  /\ wpc = "header"
  /\ header' = [header EXCEPT ![wPos] = wSeq]
  /\ kind' = [kind EXCEPT ![wPos] = op]
  /\ wSeq' = IdxInc(wSeq)
  /\ wPos' = wPos + 1
  /\ wpc' = "idle"
  /\ UNCHANGED <<data, readerPos, wSync, op, rVars>>

-----------------------------------------------------------------------------
(* The reader.                                                             *)

\* shm_q_can_recv
CanRecv == header[rPos] = rSeq

(* The poll of shm_receive_non_blocking (then = "copy") and of             *)
(* shm_receive_non_blocking0 (then = "advance"), when it finds a message.  *)
Receive(then) ==
  /\ rpc = "idle"
  /\ CanRecv
  /\ rpc' = then
  /\ UNCHANGED <<sharedVars, wVars, rPos, rSeq, kind>>

ReadPayload ==
  /\ rpc = "copy"
  /\ rpc' = "advance"
  /\ UNCHANGED <<sharedVars, wVars, rPos, rSeq, kind>>

\* mutant: the position does not wrap
PosInc_NoWrap(p) == p + 1

\* mutant: the position wraps one slot early
PosInc_Short(p) == IF p + 2 = NumSlots THEN 0 ELSE p + 1

\* l_pos after a receive
PosInc(p) == IF p + 1 = NumSlots THEN 0 ELSE p + 1

(* The rest of both receive functions: the position moves on and is        *)
(* published.                                                              *)
Advance ==
  /\ rpc = "advance"
  /\ rPos' = PosInc(rPos)
  /\ rSeq' = IdxInc(rSeq)
  /\ readerPos' = rSeq
  /\ rpc' = "idle"
  /\ UNCHANGED <<header, data, wVars, kind>>

-----------------------------------------------------------------------------
Writer == Sync \/ WritePayload \/ WriteHeader
Reader == Receive("copy") \/ Receive("advance") \/ ReadPayload \/ Advance

Next == Poll \/ (\E o \in Calls : Send(o)) \/ Writer \/ Reader

Spec == Init /\ [][Next]_vars

(***************************************************************************)
(* Both loops spin: a send that has begun and a reader keep taking steps   *)
(* while they are scheduled, and the writer always has one more message.   *)
(***************************************************************************)
FairSpec ==
  /\ Spec
  /\ WF_vars((\E o \in Calls : Send(o)) \/ Writer)
  /\ WF_vars(Reader)

-----------------------------------------------------------------------------
(* Properties.                                                             *)

(* Positions stay inside the ring, numbers in their range.                 *)
TypeOK ==
  /\ header \in [Slots -> Idx]
  /\ data \in [Slots -> Idx]
  /\ readerPos \in Idx
  /\ wPos \in 0 .. NumSlots /\ wSeq \in Idx /\ wSync \in Idx
  /\ wpc \in {"idle", "sync", "payload", "header"}
  /\ op \in Calls
  /\ rPos \in Slots /\ rSeq \in Idx
  /\ rpc \in {"idle", "copy", "advance"}
  /\ kind \in [Slots -> Calls]

\* messages published and not finished with by the reader
InFlight == IdxSub(wSeq, rSeq)

\* how many slots after the reader's position slot i comes
Ahead(i) == IF i >= rPos THEN i - rPos ELSE i - rPos + NumSlots

(* Until the reader is done with it a message stays in its slot, number    *)
(* and payload; the poll finds a message exactly when there is one; and    *)
(* the slot the writer is about to fill, on a position read long ago, is   *)
(* not one the reader still has to read or is reading.                     *)
Intact ==
  /\ CanRecv <=> InFlight > 0
  /\ \A i \in Slots : Ahead(i) < InFlight =>
       /\ IdxSub(header[i], rSeq) = Ahead(i)
       /\ kind[i] = "send" => data[i] = header[i]
  /\ wpc \in {"payload", "header"} => InFlight < NumSlots

(* A writer blocked on a full queue in shm_q_send gets through.            *)
WriterProgress == []<>(wpc = "header")

(* What smlt_queuepair_can_send says it returns ("TRUE if the operation    *)
(* can be executed FALSE otherwise"): a writer that polls it while the     *)
(* reader drains the queue is told sooner or later that it may send.       *)
PollProgress == []<>CanSend

\* the slot of the k-th message in flight, and the messages in flight
RingSlot(k) ==
  IF rPos + k - 1 < NumSlots THEN rPos + k - 1 ELSE rPos + k - 1 - NumSlots

RingQueue == [k \in 1 .. InFlight |-> header[RingSlot(k)]]

Fifo == INSTANCE FifoChannel WITH
  Capacity <- NumSlots - 2,
  queue    <- RingQueue,
  next     <- wSeq,
  received <- readerPos

(* The ring implements a bounded FIFO channel.  Two slots are never used:  *)
(* next_sync stops the writer NumSlots - 2 messages ahead of the reader.   *)
ImplementsFifo == Fifo!Spec

=============================================================================
