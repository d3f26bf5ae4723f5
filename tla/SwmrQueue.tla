------------------------------ MODULE SwmrQueue ------------------------------
(***************************************************************************)
(* The single-writer multi-reader queue of the 1:n channels: a ring of     *)
(* NumSlots slots in shared memory which one thread writes and every       *)
(* reader reads in full.                                                   *)
(*                                                                         *)
(*  - A slot is a header, the number of the message in it, and a payload.  *)
(*    Messages are numbered from 1; a reader takes a slot for its next     *)
(*    message when the header shows the number it waits for.               *)
(*  - A reader publishes how far it got only now and then (readers_pos).   *)
(*  - The writer runs freely up to next_sync.  There it scans the readers' *)
(*    published positions, one load at a time, for their minimum, and      *)
(*    scans again until the minimum allows for one more message.           *)
(*                                                                         *)
(* The payload is one word holding the number of the message it belongs    *)
(* to.  Readers are identified by their index in readers_pos.              *)
(***************************************************************************)
EXTENDS Naturals

CONSTANTS NumSlots,    \* context->num_slots
          NumReaders,  \* context->num_readers
          PubBit,      \* the bit of next_seq that holds publishing back, 0x20
          MinInit,     \* where the minimum starts, 0xFFFFFFFF
          MaxMsgs      \* bound: messages the writer sends

ASSUME SwmrAssumption ==
  /\ NumSlots \in Nat /\ NumSlots > 2
  /\ NumReaders \in Nat \ {0}
  /\ PubBit \in Nat \ {0}
  /\ MinInit \in Nat
  /\ MaxMsgs \in Nat

VARIABLES
  \* shared memory
  header, data,       \* the slots
  readersPos,         \* the positions the readers published
  \* the writer's context, and where it is
  wPos, wSeq, wSync, wpc,
  scanIdx, scanMin,   \* the loop of swmr_get_next_sync
  op,                 \* the call in progress, send or send0
  \* the readers' contexts, and where they are
  rPos, rSeq, rpc,
  \* history, read by no action
  kind,               \* how the message in each slot was sent
  torn                \* did a second load ever raise the minimum

sharedVars == <<header, data, readersPos>>
wVars      == <<wPos, wSeq, wSync, wpc, scanIdx, scanMin, op>>
rVars      == <<rPos, rSeq, rpc>>
vars       == <<sharedVars, wVars, rVars, kind, torn>>

Slots   == 0 .. NumSlots - 1
Readers == 0 .. NumReaders - 1

-----------------------------------------------------------------------------
Init ==
  /\ header = [i \in Slots |-> 0]
  /\ data = [i \in Slots |-> 0]
  /\ readersPos = [r \in Readers |-> 0]
  /\ wPos = 0 /\ wSeq = 1 /\ wSync = NumSlots - 1
  /\ wpc = "idle" /\ scanIdx = 0 /\ scanMin = 0 /\ op = "send0"
  /\ rPos = [r \in Readers |-> 0]
  /\ rSeq = [r \in Readers |-> 1]
  /\ rpc = [r \in Readers |-> "idle"]
  /\ kind = [i \in Slots |-> "send0"]
  /\ torn = FALSE

-----------------------------------------------------------------------------
(* The writer.                                                             *)

\* what follows once there is room: send0 writes no payload
Store(o) == IF o = "send" THEN "payload" ELSE "header"

(* swmr_send_raw and swmr_send_raw0 up to the sync point *)
Send(o) ==
  /\ wpc = "idle"
  /\ wSeq <= MaxMsgs
  /\ op' = o
  /\ wPos' = IF wPos = NumSlots THEN 0 ELSE wPos
  /\ IF wSeq = wSync
     THEN /\ wpc' = "scan"
          /\ scanIdx' = 0 /\ scanMin' = MinInit
     ELSE /\ wpc' = Store(o)
          /\ UNCHANGED <<scanIdx, scanMin>>
  /\ UNCHANGED <<sharedVars, wSeq, wSync, rVars, kind, torn>>

\* mutant: the comparison is the wrong way round
Below_Inverted(pos) == scanMin < pos

\* the comparison of swmr_get_next_sync
Below(pos) == scanMin > pos

(* swmr_get_next_sync, the first load of a reader's position: is it below  *)
(* the minimum found so far?                                               *)
ScanCompare ==
  /\ wpc = "scan"
  /\ scanIdx < NumReaders
  /\ IF Below(readersPos[scanIdx])
     THEN wpc' = "scanLoad" /\ UNCHANGED scanIdx
     ELSE scanIdx' = scanIdx + 1 /\ UNCHANGED wpc
  /\ UNCHANGED <<sharedVars, wPos, wSeq, wSync, scanMin, op, rVars, kind, torn>>

(* swmr_get_next_sync, the second load: readers_pos is volatile, and the   *)
(* position may have moved since the comparison.                           *)
ScanLoad ==
  /\ wpc = "scanLoad"
  /\ scanMin' = readersPos[scanIdx]
  /\ scanIdx' = scanIdx + 1
  /\ wpc' = "scan"
  /\ torn' = (torn \/ readersPos[scanIdx] > scanMin)
  /\ UNCHANGED <<sharedVars, wPos, wSeq, wSync, op, rVars, kind>>

\* what the scan returns
NextSync == scanMin + NumSlots - 1

(* The end of a scan: go on when there is an empty slot, else scan again.  *)
ScanDone ==
  /\ wpc = "scan"
  /\ scanIdx = NumReaders
  /\ IF wSeq = NextSync
     THEN /\ scanIdx' = 0 /\ scanMin' = MinInit
          /\ UNCHANGED <<wSync, wpc>>
     ELSE /\ wSync' = NextSync
          /\ wpc' = Store(op)
          /\ scanIdx' = 0 /\ scanMin' = 0
  /\ UNCHANGED <<sharedVars, wPos, wSeq, op, rVars, kind, torn>>

WritePayload ==
  /\ wpc = "payload"
  /\ data' = [data EXCEPT ![wPos] = wSeq]
  /\ wpc' = "header"
  /\ UNCHANGED <<header, readersPos, wPos, wSeq, wSync, scanIdx, scanMin, op,
                 rVars, kind, torn>>

(* Storing the header publishes the message.                               *)
WriteHeader ==
  /\ wpc = "header"
  /\ header' = [header EXCEPT ![wPos] = wSeq]
  /\ kind' = [kind EXCEPT ![wPos] = op]
  /\ wSeq' = wSeq + 1
  /\ wPos' = wPos + 1
  /\ wpc' = "idle"
  /\ UNCHANGED <<data, readersPos, wSync, scanIdx, scanMin, op, rVars, torn>>

-----------------------------------------------------------------------------
(* Reader r.                                                               *)

\* swmr_can_receive
CanReceive(r) == header[rPos[r]] = rSeq[r]

(* The poll of swmr_receive_non_blocking (then = "copy") and of            *)
(* swmr_receive_non_blocking0 (then = "advance"), when it finds a message. *)
Receive(r, then) ==
  /\ rpc[r] = "idle"
  /\ CanReceive(r)
  /\ rpc' = [rpc EXCEPT ![r] = then]
  /\ UNCHANGED <<sharedVars, wVars, rPos, rSeq, kind, torn>>

ReadPayload(r) ==
  /\ rpc[r] = "copy"
  /\ rpc' = [rpc EXCEPT ![r] = "advance"]
  /\ UNCHANGED <<sharedVars, wVars, rPos, rSeq, kind, torn>>

\* mutant: a second bit holds publishing back as well
Publishes_Rarely(seq) == (seq \div PubBit) % 4 = 0

\* (next_seq & 0x20) == 0
Publishes(seq) == (seq \div PubBit) % 2 = 0

\* mutant: the position wraps one slot early
PosInc_Short(p) == IF p + 2 = NumSlots THEN 0 ELSE p + 1

\* l_pos after a receive
PosInc(p) == IF p + 1 = NumSlots THEN 0 ELSE p + 1

(* The rest of both receive functions: the position moves on, and is       *)
(* published unless the bit of the new sequence number says otherwise.     *)
Advance(r) ==
  /\ rpc[r] = "advance"
  /\ rPos' = [rPos EXCEPT ![r] = PosInc(@)]
  /\ rSeq' = [rSeq EXCEPT ![r] = @ + 1]
  /\ readersPos' = IF Publishes(rSeq[r] + 1)
                   THEN [readersPos EXCEPT ![r] = rSeq[r]]
                   ELSE readersPos
  /\ rpc' = [rpc EXCEPT ![r] = "idle"]
  /\ UNCHANGED <<header, data, wVars, kind, torn>>

-----------------------------------------------------------------------------
Scan   == ScanCompare \/ ScanLoad \/ ScanDone
Writer == Scan \/ WritePayload \/ WriteHeader

Reader(r) ==
  \/ Receive(r, "copy")
  \/ Receive(r, "advance")
  \/ ReadPayload(r)
  \/ Advance(r)

(* The writer has sent its MaxMsgs messages and everybody has read them.   *)
Done ==
  /\ wpc = "idle" /\ wSeq > MaxMsgs
  /\ \A r \in Readers : rpc[r] = "idle" /\ ~CanReceive(r)
  /\ UNCHANGED vars

Next ==
  \/ Send("send")
  \/ Send("send0")
  \/ Writer
  \/ \E r \in Readers : Reader(r)
  \/ Done

Spec == Init /\ [][Next]_vars

(***************************************************************************)
(* A send, once begun, spins until it is through, and readers poll: both   *)
(* keep taking steps while they are scheduled.  No fairness makes the      *)
(* writer begin another send.                                              *)
(***************************************************************************)
FairSpec == Spec /\ WF_vars(Writer) /\ \A r \in Readers : WF_vars(Reader(r))

-----------------------------------------------------------------------------
(* Properties.                                                             *)

\* the slot message s goes to
SlotOf(s) == (s - 1) % NumSlots

(* The slot the writer is about to fill holds a message that every reader  *)
(* is done with: the minimum that swmr_get_next_sync computes ("get the    *)
(* minimum of the readers pointer") never lets the writer lap a reader.    *)
NoOverrun ==
  wpc \in {"payload", "header"} => \A r \in Readers : wSeq < rSeq[r] + NumSlots

(* Every message sent and not yet received by a reader is found by it in   *)
(* its slot, payload included.                                             *)
Intact ==
  \A r \in Readers : \A s \in rSeq[r] .. wSeq - 1 :
    /\ header[SlotOf(s)] = s
    /\ kind[SlotOf(s)] = "send" => data[SlotOf(s)] = s

(* Up to a scan in which some reader's position passed the minimum found   *)
(* so far between its two loads the writer of swmr_send_raw laps nobody,   *)
(* and no reader loses a message or reads a wrong payload.                 *)
SafeUnlessTorn == torn \/ (NoOverrun /\ Intact)

(* Reader r waits for a message that has been overwritten, and will wait   *)
(* for ever.  SafeUnlessTorn: only a torn scan can bring it there.         *)
Lapped(r) == rSeq[r] < wSeq /\ header[SlotOf(rSeq[r])] # rSeq[r]

(* A writer blocked in a send ("block if there is no empty slot") gets     *)
(* through as long as the readers read, although they publish their        *)
(* positions only now and then.  The exception is a reader that was lapped *)
(* after a torn scan: it publishes nothing any more.  A torn scan alone    *)
(* does not block the writer.                                              *)
WriterProgress == wpc # "idle" ~> (wpc = "idle" \/ \E r \in Readers : Lapped(r))

(* Every reader that is not lapped catches up with the writer, which stops *)
(* after MaxMsgs messages at the latest: torn scans and the lapping of     *)
(* other readers do not keep it from its messages.  A reader that is       *)
(* lapped, which takes a torn scan, never sees the message it waits for.   *)
Delivery == \A r \in Readers : []<>(rSeq[r] = wSeq \/ Lapped(r))

=============================================================================
