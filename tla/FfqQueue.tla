------------------------------ MODULE FfqQueue ------------------------------
(***************************************************************************)
(* One direction of a FFQ (FastForward) queuepair: a ring of Size slots    *)
(* without any shared index.  The first payload word of a slot doubles as  *)
(* its state: a slot whose first word is EMPTY is free, any other value    *)
(* means a message.  The sender writes the other words, then the first;    *)
(* the receiver copies the words, then stores EMPTY.                       *)
(*                                                                         *)
(* The first word is the application's, from AppWords.  The other words    *)
(* are one, and hold the number of the message.                            *)
(***************************************************************************)
EXTENDS Cyclic, Sequences

CONSTANTS Size,      \* q->size
          WordMod,   \* values of smlt_ffq_payload_t, 2^64
          AppWords   \* the first words the application sends

\* SMLT_FFQ_SLOT_EMPTY, (uint64_t)-1, and SMLT_FFQ_SLOT_NOTIFY
EMPTY  == WordMod - 1
NOTIFY == 0

Words == 0 .. WordMod - 1

ASSUME FfqAssumption ==
  /\ Size \in Nat \ {0}
  /\ WordMod \in Nat /\ WordMod > 1
  /\ IdxMod > Size
  /\ AppWords \subseteq Words

VARIABLES
  word0, word1,            \* shared memory: the slots
  txPos, spc, msg,         \* the sender: position, where it is, first word
  rxPos, rpc, got,         \* the receiver: position, where it is, what it copied
  \* history, read by no action
  txSeq, rxSeq,            \* number of the next message sent and received
  sent                     \* the message last sent through each slot

sharedVars == <<word0, word1>>
txVars     == <<txPos, spc, msg, txSeq, sent>>
rxVars     == <<rxPos, rpc, got, rxSeq>>
vars       == <<sharedVars, txVars, rxVars>>

Slots == 0 .. Size - 1

Sent == [word : Words, num : Idx, call : {"send", "notify"}]

-----------------------------------------------------------------------------
\* mutant: the slots keep the zeros they were allocated with
InitialWord_Zero == NOTIFY

\* smlt_ffq_queue_init_tx marks every slot free
InitialWord == EMPTY

Init ==
  /\ word0 = [i \in Slots |-> InitialWord]
  /\ word1 = [i \in Slots |-> 0]
  /\ txPos = 0 /\ spc = "idle" /\ msg = 0 /\ txSeq = 1
  /\ rxPos = 0 /\ rpc = "idle" /\ got = <<0, 0>> /\ rxSeq = 1
  /\ sent = [i \in Slots |-> [word |-> 0, num |-> 0, call |-> "notify"]]

\* mutant: pos++ == size
PosInc_NoWrap(p) == IF p = Size THEN 0 ELSE p + 1

\* ++pos == size
PosInc(p) == IF p + 1 = Size THEN 0 ELSE p + 1

-----------------------------------------------------------------------------
(* The sender.                                                             *)

\* mutant: the slot is not looked at
CanSend_Always == TRUE

\* smlt_ffq_queue_can_send
CanSend == word0[txPos] = EMPTY

(* The check of smlt_ffq_queue_send_raw succeeds for a message with first  *)
(* word w.                                                                 *)
PrepareSend(w) ==
  /\ spc = "idle"
  /\ CanSend
  /\ spc' = "words"
  /\ msg' = w
  /\ UNCHANGED <<sharedVars, txPos, txSeq, sent, rxVars>>

(* The check of smlt_ffq_queue_notify succeeds.                            *)
PrepareNotify ==
  /\ spc = "idle"
  /\ CanSend
  /\ spc' = "notify"
  /\ msg' = NOTIFY
  /\ UNCHANGED <<sharedVars, txPos, txSeq, sent, rxVars>>

\* mutant: the other words are stored into the slot after this one
WordsSlot_Next == PosInc(txPos)

\* slots + pos
WordsSlot == txPos

(* The copy loop, words 1 and up.                                          *)
WriteWords ==
  /\ spc = "words"
  /\ word1' = [word1 EXCEPT ![WordsSlot] = txSeq]
  /\ spc' = "send"
  /\ UNCHANGED <<word0, txPos, msg, txSeq, sent, rxVars>>

(* Storing the first word publishes the message.                           *)
Publish ==
  /\ spc \in {"send", "notify"}
  /\ word0' = [word0 EXCEPT ![txPos] = msg]
  /\ txPos' = PosInc(txPos)
  /\ txSeq' = IdxInc(txSeq)
  /\ sent' = [sent EXCEPT ![txPos] = [word |-> msg, num |-> txSeq, call |-> spc]]
  /\ spc' = "idle"
  /\ msg' = 0
  /\ UNCHANGED <<word1, rxVars>>

-----------------------------------------------------------------------------
(* The receiver.                                                           *)

\* smlt_ffq_queue_can_recv
CanRecv == word0[rxPos] # EMPTY

(* smlt_ffq_queue_recv_raw finds a message, to be copied (then = "copy")   *)
(* or, called without a buffer, not (then = "free").                       *)
Receive(then) ==
  /\ rpc = "idle"
  /\ CanRecv
  /\ rpc' = then
  /\ UNCHANGED <<sharedVars, txVars, rxPos, got, rxSeq>>

(* The copy loop reads the first word again, and the others.               *)
CopyWords ==
  /\ rpc = "copy"
  /\ got' = <<word0[rxPos], word1[rxPos]>>
  /\ rpc' = "copied"
  /\ UNCHANGED <<sharedVars, txVars, rxPos, rxSeq>>

\* mutant: the slot is left as it was
FreeSlot_NotCleared ==
  /\ rpc \in {"copied", "free"}
  /\ rxPos' = PosInc(rxPos)
  /\ rxSeq' = IdxInc(rxSeq)
  /\ rpc' = "idle"
  /\ got' = <<0, 0>>
  /\ UNCHANGED <<word0, word1, txVars>>

(* The slot is given back to the sender.                                   *)
FreeSlot ==
  /\ rpc \in {"copied", "free"}
  /\ word0' = [word0 EXCEPT ![rxPos] = EMPTY]
  /\ rxPos' = PosInc(rxPos)
  /\ rxSeq' = IdxInc(rxSeq)
  /\ rpc' = "idle"
  /\ got' = <<0, 0>>
  /\ UNCHANGED <<word1, txVars>>

-----------------------------------------------------------------------------
Sender ==
  \/ \E w \in AppWords : PrepareSend(w)
  \/ PrepareNotify
  \/ WriteWords
  \/ Publish

Receiver == Receive("copy") \/ Receive("free") \/ CopyWords \/ FreeSlot

Next == Sender \/ Receiver

Spec == Init /\ [][Next]_vars

(***************************************************************************)
(* smlt_queuepair_send and smlt_queuepair_recv call again until they       *)
(* succeed, and a call that has passed its check runs to its end.          *)
(***************************************************************************)
FairSpec == Spec /\ WF_vars(Sender) /\ WF_vars(Receiver)

-----------------------------------------------------------------------------
(* Properties.                                                             *)

(* Every variable stays in the range of its C type.                        *)
TypeOK ==
  /\ word0 \in [Slots -> Words]
  /\ word1 \in [Slots -> Idx]
  /\ txPos \in Slots /\ txSeq \in Idx /\ msg \in Words
  /\ spc \in {"idle", "words", "send", "notify"}
  /\ rxPos \in Slots /\ rxSeq \in Idx /\ got \in Words \X Idx
  /\ rpc \in {"idle", "copy", "copied", "free"}
  /\ sent \in [Slots -> Sent]

\* messages sent and not received yet
InFlight == IdxSub(txSeq, rxSeq)

\* how many slots after the receiver's position slot i comes
Ahead(i) == IF i >= rxPos THEN i - rxPos ELSE i - rxPos + Size

(* A slot shows a message exactly when it holds one that was sent and not  *)
(* received: smlt_ffq_queue_can_send and smlt_ffq_queue_can_recv ("TRUE if *)
(* there is a pending message, false otherwise") answer right although     *)
(* neither end knows the other's position.  And the two ends are never at  *)
(* work on the same slot: the sender has not passed its check on a slot    *)
(* the receiver is still copying or freeing.  This holds for words other   *)
(* than EMPTY.                                                             *)
SlotState ==
  /\ \A i \in Slots : (word0[i] # EMPTY) <=> (Ahead(i) < InFlight)
  /\ ~(spc # "idle" /\ rpc # "idle" /\ txPos = rxPos)

(* A message in flight keeps every word that was sent until its slot is    *)
(* given back, and what smlt_ffq_queue_recv_raw has copied is what was     *)
(* sent.  (A notification has a first word only.)                          *)
Intact ==
  /\ \A i \in Slots : Ahead(i) < InFlight =>
       /\ word0[i] = sent[i].word
       /\ sent[i].call = "send" => word1[i] = sent[i].num
  /\ rpc = "copied" =>
       /\ got[1] = sent[rxPos].word
       /\ sent[rxPos].call = "send" => got[2] = rxSeq

(* A message that was sent is received, and a sender that waits for a free *)
(* slot gets one.                                                          *)
Delivery ==
  /\ \A k \in Idx : txSeq = k ~> rxSeq = k
  /\ []<>(spc # "idle")

-----------------------------------------------------------------------------
\* the slot of the k-th message in flight, and the messages in flight
RingSlot(k) == IF rxPos + k - 1 < Size THEN rxPos + k - 1 ELSE rxPos + k - 1 - Size

RingQueue == [k \in 1 .. InFlight |-> sent[RingSlot(k)].num]

Fifo == INSTANCE FifoChannel WITH
  Capacity <- Size,
  queue    <- RingQueue,
  next     <- txSeq,
  received <- IdxSub(rxSeq, 1)

(* The ring implements a bounded FIFO channel that can use all its slots.  *)
ImplementsFifo == Fifo!Spec

=============================================================================
