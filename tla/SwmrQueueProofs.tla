--------------------------- MODULE SwmrQueueProofs ---------------------------
(***************************************************************************)
(* Proofs about SwmrQueue, for every ring size, number of readers and      *)
(* messages, wherever the scan's minimum starts and however rarely the     *)
(* readers publish.                                                        *)
(*                                                                         *)
(* Until a second load raises the minimum (torn), the sync point is at     *)
(* most NumSlots - 1 after the published position of every reader: it was  *)
(* computed from a minimum over positions that have only grown since.      *)
(***************************************************************************)
EXTENDS SwmrQueue, Integers, TLAPS

Places == {"idle", "scan", "scanLoad", "payload", "header"}

SharedTypes ==
  /\ header \in [Slots -> Nat] /\ data \in [Slots -> Nat]
  /\ kind \in [Slots -> {"send", "send0"}]
  /\ readersPos \in [Readers -> Nat]

WriterTypes ==
  /\ wPos \in Nat /\ wPos <= NumSlots /\ wSeq \in Nat \ {0} /\ wSync \in Nat
  /\ wpc \in Places /\ op \in {"send", "send0"}
  /\ scanIdx \in Nat /\ scanIdx <= NumReaders /\ scanMin \in Nat
  /\ wpc # "idle" => wPos < NumSlots
  /\ wpc = "scanLoad" => scanIdx < NumReaders

ReaderTypes ==
  /\ rPos \in [Readers -> Slots] /\ rSeq \in [Readers -> Nat \ {0}]
  /\ rpc \in [Readers -> {"idle", "copy", "advance"}]

Types == SharedTypes /\ WriterTypes /\ ReaderTypes /\ torn \in BOOLEAN

\* the sync point is due to a minimum that was right, and still is
SyncPoint ==
  /\ wSeq <= wSync
  /\ wSync <= MinInit + NumSlots - 1
  /\ \A r \in Readers : wSync <= readersPos[r] + NumSlots - 1
  /\ wpc \in {"payload", "header"} => wSeq < wSync

\* the loop of swmr_get_next_sync has a minimum of the positions it has passed,
\* and a minimum not below the one of the scan before
Scanning ==
  wpc \in {"scan", "scanLoad"} =>
    /\ wSeq = wSync
    /\ wSync <= scanMin + NumSlots - 1
    /\ scanMin <= MinInit
    /\ \A r \in Readers : r < scanIdx => scanMin <= readersPos[r]

\* positions and message numbers go together
Positions ==
  /\ (IF wPos = NumSlots THEN 0 ELSE wPos) = SlotOf(wSeq)
  /\ wpc = "header" /\ op = "send" => data[wPos] = wSeq
  /\ \A i \in Slots : header[i] < wSeq
  /\ \A r \in Readers :
       /\ rPos[r] = SlotOf(rSeq[r])
       /\ readersPos[r] < rSeq[r] /\ rSeq[r] <= wSeq
       /\ rpc[r] # "idle" => rSeq[r] < wSeq

Safe == SyncPoint /\ Scanning /\ Positions /\ Intact

IndInv == Types /\ (torn \/ Safe)

-----------------------------------------------------------------------------
(* The slots of consecutive messages.                                      *)

\* Quotient and remainder are unique.
LEMMA DivisionUnique ==
  ASSUME NEW n \in Nat, n > 0, NEW q \in Int, NEW p \in Int,
         NEW a \in 0 .. n - 1, NEW b \in 0 .. n - 1, n * q + a = n * p + b
  PROVE  q = p /\ a = b
OBVIOUS

\* Messages fill the slots in turn: the slot after the one of message s, or the
\* first one, is the slot of the next message.
LEMMA SlotOfNext ==
  ASSUME NEW s \in Nat \ {0}
  PROVE  /\ SlotOf(s) \in Slots
         /\ SlotOf(s + 1) = IF SlotOf(s) + 1 = NumSlots THEN 0 ELSE SlotOf(s) + 1
<1> DEFINE n == NumSlots
           q == (s - 1) \div n
           a == (s - 1) % n
           p == s \div n
           b == s % n
<1>1. n \in Nat /\ n > 0
  BY SwmrAssumption
<1>2. SlotOf(s) = a /\ SlotOf(s + 1) = b
  BY DEF SlotOf
<1>3. /\ q \in Int /\ a \in 0 .. n - 1 /\ s - 1 = n * q + a
      /\ p \in Int /\ b \in 0 .. n - 1 /\ s = n * p + b
  BY <1>1
<1>4. Slots = 0 .. n - 1
  BY DEF Slots
<1> HIDE DEF n, q, a, p, b
<1>5. CASE a + 1 = n
  <2>1. n * (q + 1) + 0 = n * p + b
    BY <1>1, <1>3, <1>5
  <2>2. b = 0
    BY <1>1, <1>3, <2>1, DivisionUnique
  <2> QED BY <1>2, <1>3, <1>4, <1>5, <2>2 DEF n
<1>6. CASE a + 1 # n
  <2>1. n * q + (a + 1) = n * p + b /\ a + 1 \in 0 .. n - 1
    BY <1>1, <1>3, <1>6
  <2>2. b = a + 1
    BY <1>1, <1>3, <2>1, DivisionUnique
  <2> QED BY <1>2, <1>3, <1>4, <1>6, <2>2 DEF n
<1> QED BY <1>5, <1>6

\* Two messages less than a lap apart are in different slots.
LEMMA SlotOfDistinct ==
  ASSUME NEW s \in Nat \ {0}, NEW t \in Nat \ {0}, s < t, t < s + NumSlots
  PROVE  SlotOf(s) # SlotOf(t)
<1> DEFINE n == NumSlots
           q == (s - 1) \div n
           a == (s - 1) % n
           p == (t - 1) \div n
           b == (t - 1) % n
<1>1. n \in Nat /\ n > 0 /\ t < s + n
  BY SwmrAssumption
<1>2. SlotOf(s) = a /\ SlotOf(t) = b
  BY DEF SlotOf
<1>3. /\ q \in Int /\ a \in 0 .. n - 1 /\ s - 1 = n * q + a
      /\ p \in Int /\ b \in 0 .. n - 1 /\ t - 1 = n * p + b
  BY <1>1
<1> HIDE DEF n, q, a, p, b
<1>4. ASSUME a = b PROVE FALSE
  <2>1. n * (p - q) > 0 /\ n * (p - q) < n
    BY <1>1, <1>3, <1>4
  <2> QED BY <1>1, <1>3, <2>1
<1> QED BY <1>2, <1>4

-----------------------------------------------------------------------------
\* The constants, in plain arithmetic.
LEMMA Constants ==
  NumSlots \in Nat /\ NumSlots > 2 /\ NumReaders \in Nat \ {0} /\ MinInit \in Nat
BY SwmrAssumption

\* The types do not depend on the scan being right.
LEMMA TypesInv == Types /\ [Next]_vars => Types'
<1> SUFFICES ASSUME SharedTypes, WriterTypes, ReaderTypes, torn \in BOOLEAN, [Next]_vars
             PROVE  SharedTypes' /\ WriterTypes' /\ ReaderTypes' /\ torn' \in BOOLEAN
  BY DEF Types
<1>1. ASSUME NEW o \in {"send", "send0"}, Send(o)
      PROVE  SharedTypes' /\ WriterTypes' /\ ReaderTypes' /\ torn' \in BOOLEAN
  <2>1. SharedTypes' /\ ReaderTypes' /\ torn' \in BOOLEAN
    BY <1>1 DEF Send, SharedTypes, ReaderTypes, sharedVars, rVars
  <2>2. WriterTypes'
    BY <1>1, Constants DEF Send, Store, WriterTypes, Places
  <2> QED BY <2>1, <2>2
<1>2. CASE ScanCompare
  <2>1. SharedTypes' /\ ReaderTypes' /\ torn' \in BOOLEAN
    BY <1>2 DEF ScanCompare, SharedTypes, ReaderTypes, sharedVars, rVars
  <2>2. WriterTypes'
    BY <1>2, Constants DEF ScanCompare, WriterTypes, Places
  <2> QED BY <2>1, <2>2
<1>3. CASE ScanLoad
  <2>1. SharedTypes' /\ ReaderTypes' /\ torn' \in BOOLEAN
    BY <1>3 DEF ScanLoad, SharedTypes, ReaderTypes, sharedVars, rVars
  <2>2. scanIdx \in Readers
    BY <1>3, Constants DEF ScanLoad, WriterTypes, Readers
  <2>3. scanMin' \in Nat
    BY <1>3, <2>2 DEF ScanLoad, SharedTypes
  <2>4. WriterTypes'
    BY <1>3, <2>3, Constants DEF ScanLoad, WriterTypes, Places
  <2> QED BY <2>1, <2>4
<1>4. CASE ScanDone
  <2>1. SharedTypes' /\ ReaderTypes' /\ torn' \in BOOLEAN
    BY <1>4 DEF ScanDone, SharedTypes, ReaderTypes, sharedVars, rVars
  <2>2. WriterTypes'
    BY <1>4, Constants DEF ScanDone, NextSync, Store, WriterTypes, Places
  <2> QED BY <2>1, <2>2
<1>5. CASE WritePayload \/ WriteHeader
  <2>1. SharedTypes' /\ ReaderTypes' /\ torn' \in BOOLEAN
    BY <1>5 DEF WritePayload, WriteHeader, SharedTypes, WriterTypes, ReaderTypes, rVars
  <2>2. WriterTypes'
    BY <1>5, Constants DEF WritePayload, WriteHeader, WriterTypes, Places
  <2> QED BY <2>1, <2>2
<1>6. ASSUME NEW r \in Readers,
             Receive(r, "copy") \/ Receive(r, "advance") \/ ReadPayload(r)
      PROVE  SharedTypes' /\ WriterTypes' /\ ReaderTypes' /\ torn' \in BOOLEAN
  <2>1. SharedTypes' /\ WriterTypes' /\ torn' \in BOOLEAN
    BY <1>6 DEF Receive, ReadPayload, SharedTypes, WriterTypes, sharedVars, wVars
  <2>2. ReaderTypes'
    BY <1>6 DEF Receive, ReadPayload, ReaderTypes
  <2> QED BY <2>1, <2>2
<1>7. ASSUME NEW r \in Readers, Advance(r)
      PROVE  SharedTypes' /\ WriterTypes' /\ ReaderTypes' /\ torn' \in BOOLEAN
  <2>1. WriterTypes' /\ torn' \in BOOLEAN
    BY <1>7 DEF Advance, WriterTypes, wVars
  <2>2. rSeq[r] \in Nat \ {0} /\ rPos[r] \in Slots
    BY DEF ReaderTypes
  <2>3. PosInc(rPos[r]) \in Slots
    BY <2>2, Constants DEF PosInc, Slots
  <2>4. SharedTypes'
    BY <1>7, <2>2 DEF Advance, SharedTypes
  <2>5. ReaderTypes'
    BY <1>7, <2>2, <2>3 DEF Advance, ReaderTypes
  <2> QED BY <2>1, <2>4, <2>5
<1>8. CASE Done \/ UNCHANGED vars
  BY <1>8 DEF Done, vars, sharedVars, wVars, rVars, SharedTypes, WriterTypes, ReaderTypes
<1> QED BY <1>1, <1>2, <1>3, <1>4, <1>5, <1>6, <1>7, <1>8
        DEF Next, Writer, Scan, Reader

\* Fresh memory and the contexts of the writer and the readers.
LEMMA InitInv == Init => IndInv
<1> SUFFICES ASSUME Init PROVE Types /\ Safe
  BY DEF IndInv
<1>1. 0 \in Slots
  BY Constants DEF Slots
<1>2. Types
  <2>1. SharedTypes /\ torn \in BOOLEAN
    BY DEF Init, SharedTypes
  <2>2. WriterTypes
    BY Constants DEF Init, WriterTypes, Places
  <2>3. ReaderTypes
    BY <1>1 DEF Init, ReaderTypes
  <2> QED BY <2>1, <2>2, <2>3 DEF Types
<1>3. SlotOf(1) = 0
  BY Constants DEF SlotOf
<1>4. SyncPoint /\ Scanning
  BY Constants DEF Init, SyncPoint, Scanning
<1>5. Positions
  BY <1>3, Constants DEF Init, Positions
<1>6. Intact
  BY DEF Init, Intact
<1> QED BY <1>2, <1>4, <1>5, <1>6 DEF Safe

-----------------------------------------------------------------------------
(* The steps of the writer.                                                *)

\* A send begins: at the sync point with a scan that knows no position yet.
LEMMA SendSafe ==
  ASSUME Types, Safe, NEW o \in {"send", "send0"}, Send(o)
  PROVE  Safe'
<1> USE DEF Send, Types, WriterTypes
<1>1. SyncPoint'
  BY DEF Safe, SyncPoint, Store, sharedVars
<1>2. Scanning'
  BY Constants DEF Safe, SyncPoint, Scanning, Store, Readers
<1>3. Positions'
  BY Constants DEF Safe, Positions, Store, sharedVars, rVars, SlotOf
<1>4. Intact'
  BY DEF Safe, Intact, sharedVars, rVars, SlotOf
<1> QED BY <1>1, <1>2, <1>3, <1>4 DEF Safe

\* A position that is not below the minimum is passed.
LEMMA ScanCompareSafe ==
  ASSUME Types, Safe, ScanCompare
  PROVE  Safe'
<1> USE DEF ScanCompare, Types, WriterTypes
<1>1. SyncPoint'
  BY DEF Safe, SyncPoint, sharedVars
<1>2. Scanning'
  <2>1. readersPos' = readersPos /\ scanMin' = scanMin /\ wSeq' = wSeq /\ wSync' = wSync
    BY DEF sharedVars
  <2>2. \A r \in Readers : r < scanIdx' => scanMin <= readersPos[r]
    <3> SUFFICES ASSUME NEW r \in Readers, r < scanIdx' PROVE scanMin <= readersPos[r]
      OBVIOUS
    <3>1. r \in Int /\ readersPos[r] \in Nat
      BY Constants DEF SharedTypes, Readers
    <3>2. CASE r < scanIdx
      BY <3>2 DEF Safe, Scanning
    <3>3. CASE ~(r < scanIdx)
      BY <3>1, <3>3 DEF Below
    <3> QED BY <3>2, <3>3
  <2> QED BY <2>1, <2>2 DEF Safe, Scanning
<1>3. Positions'
  BY DEF Safe, Positions, sharedVars, rVars, SlotOf
<1>4. Intact'
  BY DEF Safe, Intact, sharedVars, rVars, SlotOf
<1> QED BY <1>1, <1>2, <1>3, <1>4 DEF Safe

\* A second load that does not raise the minimum lowers it to a published position.
LEMMA ScanLoadSafe ==
  ASSUME Types, Safe, ScanLoad, ~torn'
  PROVE  Safe'
<1> USE DEF ScanLoad, Types, WriterTypes
<1>1. SyncPoint'
  BY DEF Safe, SyncPoint, sharedVars
<1>2. Scanning'
  <2>1. scanIdx \in Readers
    BY Constants DEF Readers
  <2>2. readersPos[scanIdx] \in Nat /\ readersPos[scanIdx] <= scanMin
    <3>1. readersPos[scanIdx] \in Nat
      BY <2>1 DEF SharedTypes
    <3>2. ~(readersPos[scanIdx] > scanMin)
      BY Zenon
    <3> QED BY <3>1, <3>2
  <2>3. readersPos' = readersPos /\ wSeq' = wSeq /\ wSync' = wSync
    BY DEF sharedVars
  <2>4. /\ wSeq = wSync
        /\ wSync <= readersPos[scanIdx] + NumSlots - 1
        /\ readersPos[scanIdx] <= MinInit
    BY <2>1, <2>2, Constants DEF Safe, SyncPoint, Scanning
  <2>5. \A r \in Readers : r < scanIdx + 1 => readersPos[scanIdx] <= readersPos[r]
    <3> SUFFICES ASSUME NEW r \in Readers, r < scanIdx + 1
                 PROVE  readersPos[scanIdx] <= readersPos[r]
      OBVIOUS
    <3>1. r \in Int /\ readersPos[r] \in Nat
      BY Constants DEF SharedTypes, Readers
    <3>2. CASE r < scanIdx
      <4>1. scanMin <= readersPos[r]
        BY <3>2 DEF Safe, Scanning
      <4> QED BY <2>2, <3>1, <4>1
    <3>3. CASE ~(r < scanIdx)
      BY <2>2, <3>1, <3>3
    <3> QED BY <3>2, <3>3
  <2> QED BY <2>3, <2>4, <2>5 DEF Scanning
<1>3. Positions'
  BY DEF Safe, Positions, sharedVars, rVars, SlotOf
<1>4. Intact'
  BY DEF Safe, Intact, sharedVars, rVars, SlotOf
<1> QED BY <1>1, <1>2, <1>3, <1>4 DEF Safe

\* The scan ends with a minimum over all readers, and none below the one before:
\* a sync point that differs from the old one is a later one.
LEMMA ScanDoneSafe ==
  ASSUME Types, Safe, ScanDone
  PROVE  Safe'
<1> USE DEF ScanDone, Types, WriterTypes
<1>1. readersPos' = readersPos /\ wSeq' = wSeq
  BY DEF sharedVars
<1>2. /\ wSeq = wSync /\ wSync <= NextSync
      /\ NextSync \in Nat /\ NextSync <= MinInit + NumSlots - 1
  BY Constants DEF Safe, Scanning, NextSync
<1>3. \A r \in Readers : NextSync <= readersPos[r] + NumSlots - 1
  <2> SUFFICES ASSUME NEW r \in Readers PROVE NextSync <= readersPos[r] + NumSlots - 1
    OBVIOUS
  <2>1. r < scanIdx /\ readersPos[r] \in Nat
    BY Constants DEF SharedTypes, Readers
  <2>2. scanMin <= readersPos[r]
    BY <2>1 DEF Safe, Scanning
  <2> QED BY <2>1, <2>2, Constants DEF NextSync
<1>4. SyncPoint'
  <2>1. CASE wSeq = NextSync
    BY <1>1, <2>1 DEF Safe, SyncPoint
  <2>2. CASE wSeq # NextSync
    BY <1>1, <1>2, <1>3, <2>2 DEF SyncPoint
  <2> QED BY <2>1, <2>2
<1>5. Scanning'
  <2>1. CASE wSeq = NextSync
    BY <1>1, <1>2, <2>1, Constants DEF Scanning, NextSync, Readers
  <2>2. CASE wSeq # NextSync
    BY <2>2 DEF Scanning, Store
  <2> QED BY <2>1, <2>2
<1>6. Positions'
  <2>1. wpc' = "header" /\ op' = "send" => FALSE
    BY DEF Store
  <2> QED BY <2>1 DEF Safe, Positions, sharedVars, rVars, SlotOf
<1>7. Intact'
  BY DEF Safe, Intact, sharedVars, rVars, SlotOf
<1> QED BY <1>4, <1>5, <1>6, <1>7 DEF Safe

\* In the midst of a send the writer stands at the slot of its message, which is
\* the slot of no message that a reader has yet to receive.
LEMMA WriterSlot ==
  ASSUME Types, Safe, wpc \in {"payload", "header"}
  PROVE  /\ wPos = SlotOf(wSeq) /\ wPos \in Slots
         /\ \A r \in Readers : \A s \in rSeq[r] .. wSeq - 1 :
              SlotOf(s) \in Slots /\ SlotOf(s) # wPos
<1>1. wPos \in Slots
  BY Constants DEF Types, WriterTypes, Slots
<1>2. wPos = SlotOf(wSeq)
  BY <1>1, Constants DEF Types, WriterTypes, Safe, Positions
<1>3. ASSUME NEW r \in Readers, NEW s \in rSeq[r] .. wSeq - 1
      PROVE  SlotOf(s) \in Slots /\ SlotOf(s) # wPos
  <2>1. /\ rSeq[r] \in Nat \ {0} /\ readersPos[r] \in Nat
        /\ wSeq \in Nat \ {0} /\ wSync \in Nat
    BY DEF Types, SharedTypes, WriterTypes, ReaderTypes
  <2>2. /\ wSeq < wSync /\ wSync <= readersPos[r] + NumSlots - 1
        /\ readersPos[r] < rSeq[r]
    BY DEF Safe, SyncPoint, Positions
  <2>3. s \in Nat \ {0} /\ s < wSeq /\ wSeq < s + NumSlots
    BY <2>1, <2>2, Constants
  <2> QED BY <1>2, <2>1, <2>3, SlotOfNext, SlotOfDistinct
<1> QED BY <1>1, <1>2, <1>3

\* The payload goes to a slot that nobody reads.
LEMMA WritePayloadSafe ==
  ASSUME Types, Safe, WritePayload
  PROVE  Safe'
<1>1. /\ wPos \in Slots
      /\ \A r \in Readers : \A s \in rSeq[r] .. wSeq - 1 : SlotOf(s) # wPos
  BY WriterSlot DEF WritePayload
<1>2. data' = [data EXCEPT ![wPos] = wSeq] /\ data \in [Slots -> Nat]
  BY DEF WritePayload, Types, SharedTypes
<1>3. SyncPoint' /\ Scanning'
  BY DEF WritePayload, Safe, SyncPoint, Scanning
<1>4. Positions'
  BY <1>1, <1>2 DEF WritePayload, Safe, Positions, SlotOf, rVars
<1>5. Intact'
  <2> SUFFICES ASSUME NEW r \in Readers, NEW s \in rSeq[r] .. wSeq - 1
               PROVE  /\ header[SlotOf(s)] = s
                      /\ kind[SlotOf(s)] = "send" => data'[SlotOf(s)] = s
    BY DEF WritePayload, Intact, SlotOf, rVars
  <2>1. SlotOf(s) \in Slots /\ SlotOf(s) # wPos
    BY WriterSlot DEF WritePayload
  <2>2. data'[SlotOf(s)] = data[SlotOf(s)]
    BY <1>2, <2>1
  <2> QED BY <2>2 DEF Safe, Intact
<1> QED BY <1>3, <1>4, <1>5 DEF Safe

\* The header publishes the message.
LEMMA WriteHeaderSafe ==
  ASSUME Types, Safe, WriteHeader
  PROVE  Safe'
<1>1. /\ wPos = SlotOf(wSeq) /\ wPos \in Slots
      /\ wpc = "header"
  BY WriterSlot DEF WriteHeader
<1>2. /\ header' = [header EXCEPT ![wPos] = wSeq] /\ kind' = [kind EXCEPT ![wPos] = op]
      /\ wSeq' = wSeq + 1 /\ wPos' = wPos + 1 /\ wpc' = "idle" /\ data' = data
      /\ readersPos' = readersPos /\ wSync' = wSync /\ rPos' = rPos /\ rSeq' = rSeq
      /\ rpc' = rpc
  BY DEF WriteHeader, rVars
<1>3. /\ header \in [Slots -> Nat] /\ kind \in [Slots -> {"send", "send0"}]
      /\ wSeq \in Nat \ {0} /\ wSync \in Nat /\ wPos \in Nat
  BY DEF Types, SharedTypes, WriterTypes
<1>4. SyncPoint'
  BY <1>1, <1>2, <1>3 DEF Safe, SyncPoint
<1>5. Scanning'
  BY <1>2 DEF Scanning
<1>6. Positions'
  <2>1. (IF wPos' = NumSlots THEN 0 ELSE wPos') = SlotOf(wSeq')
    BY <1>1, <1>2, <1>3, SlotOfNext
  <2>2. \A i \in Slots : header'[i] < wSeq'
    BY <1>1, <1>2, <1>3 DEF Safe, Positions
  <2>3. ASSUME NEW r \in Readers
        PROVE  /\ rPos[r] = SlotOf(rSeq[r])
               /\ readersPos[r] < rSeq[r] /\ rSeq[r] <= wSeq + 1
               /\ rpc[r] # "idle" => rSeq[r] < wSeq + 1
    <3>1. rSeq[r] \in Nat
      BY DEF Types, ReaderTypes
    <3> QED BY <1>3, <3>1 DEF Safe, Positions
  <2> QED BY <1>2, <2>1, <2>2, <2>3 DEF Positions, SlotOf
<1>7. Intact'
  <2> SUFFICES ASSUME NEW r \in Readers, NEW s \in rSeq[r] .. wSeq
               PROVE  /\ header'[SlotOf(s)] = s
                      /\ kind'[SlotOf(s)] = "send" => data[SlotOf(s)] = s
    BY <1>2, <1>3 DEF Intact, SlotOf
  <2>1. CASE s = wSeq
    BY <1>1, <1>2, <1>3, <2>1 DEF Safe, Positions
  <2>2. CASE s # wSeq
    <3>1. rSeq[r] \in Nat
      BY DEF Types, ReaderTypes
    <3>2. s \in rSeq[r] .. wSeq - 1
      BY <1>3, <2>2, <3>1
    <3>3. SlotOf(s) \in Slots /\ SlotOf(s) # wPos
      BY <1>1, <3>2, WriterSlot
    <3>4. header'[SlotOf(s)] = header[SlotOf(s)] /\ kind'[SlotOf(s)] = kind[SlotOf(s)]
      BY <1>2, <1>3, <3>3
    <3> QED BY <3>2, <3>4 DEF Safe, Intact
  <2> QED BY <2>1, <2>2
<1> QED BY <1>4, <1>5, <1>6, <1>7 DEF Safe

-----------------------------------------------------------------------------
(* The steps of the readers.                                               *)

\* A header with the number a reader waits for is one the writer stored.
LEMMA ReceiveSafe ==
  ASSUME Types, Safe, NEW r \in Readers,
         Receive(r, "copy") \/ Receive(r, "advance") \/ ReadPayload(r)
  PROVE  Safe'
<1> USE DEF Receive, ReadPayload
<1>1. SyncPoint' /\ Scanning' /\ Intact'
  BY DEF Safe, SyncPoint, Scanning, Intact, SlotOf, sharedVars, wVars
<1>2. rSeq[r] < wSeq
  BY DEF CanReceive, Safe, Positions, Types, ReaderTypes
<1>3. rpc \in [Readers -> {"idle", "copy", "advance"}]
  BY DEF Types, ReaderTypes
<1>4. Positions'
  BY <1>2, <1>3 DEF Safe, Positions, SlotOf, sharedVars, wVars
<1> QED BY <1>1, <1>4 DEF Safe

\* A reader moves on to its next message, and may publish the number of the last.
LEMMA AdvanceSafe ==
  ASSUME Types, Safe, NEW r \in Readers, Advance(r)
  PROVE  Safe'
<1>1. /\ rPos[r] \in Slots /\ rSeq[r] \in Nat \ {0} /\ readersPos[r] \in Nat
      /\ wSeq \in Nat \ {0} /\ wSync \in Nat /\ scanMin \in Nat
  BY DEF Types, SharedTypes, WriterTypes, ReaderTypes
<1>2. /\ wPos' = wPos /\ wSeq' = wSeq /\ wSync' = wSync /\ wpc' = wpc /\ op' = op
      /\ scanIdx' = scanIdx /\ scanMin' = scanMin
      /\ header' = header /\ data' = data /\ kind' = kind
  BY DEF Advance, wVars
<1>3. rSeq[r] < wSeq /\ readersPos[r] < rSeq[r] /\ rPos[r] = SlotOf(rSeq[r])
  BY DEF Advance, Safe, Positions
<1>4. /\ rSeq'[r] = rSeq[r] + 1 /\ rPos'[r] = PosInc(rPos[r]) /\ rpc'[r] = "idle"
      /\ readersPos'[r] \in {readersPos[r], rSeq[r]}
      /\ \A q \in Readers \ {r} : /\ rSeq'[q] = rSeq[q] /\ rPos'[q] = rPos[q]
                                   /\ rpc'[q] = rpc[q] /\ readersPos'[q] = readersPos[q]
  BY DEF Advance, Types, SharedTypes, ReaderTypes
<1>5. \A q \in Readers : readersPos[q] \in Nat /\ readersPos'[q] \in Nat
                         /\ readersPos[q] <= readersPos'[q]
  BY <1>1, <1>3, <1>4 DEF Types, SharedTypes
<1>6. SyncPoint'
  BY <1>1, <1>2, <1>5, Constants DEF Safe, SyncPoint
<1>7. Scanning'
  BY <1>1, <1>2, <1>5 DEF Safe, Scanning
<1>8. Positions'
  <2>1. rPos'[r] = SlotOf(rSeq'[r])
    BY <1>1, <1>3, <1>4, SlotOfNext DEF PosInc
  <2>2. readersPos'[r] < rSeq'[r] /\ rSeq'[r] <= wSeq
    BY <1>1, <1>3, <1>4
  <2> QED BY <1>2, <1>4, <2>1, <2>2 DEF Safe, Positions, SlotOf
<1>9. Intact'
  <2> SUFFICES ASSUME NEW q \in Readers, NEW s \in rSeq'[q] .. wSeq - 1
               PROVE  /\ header[SlotOf(s)] = s
                      /\ kind[SlotOf(s)] = "send" => data[SlotOf(s)] = s
    BY <1>2 DEF Intact, SlotOf
  <2>1. s \in rSeq[q] .. wSeq - 1
    BY <1>1, <1>4
  <2> QED BY <2>1 DEF Safe, Intact
<1> QED BY <1>6, <1>7, <1>8, <1>9 DEF Safe

-----------------------------------------------------------------------------
\* Every step keeps the invariant: what holds before the first torn scan is kept
\* by every step but such a scan, and after it only the types are claimed.
LEMMA NextInv == IndInv /\ [Next]_vars => IndInv'
<1> SUFFICES ASSUME IndInv, [Next]_vars PROVE IndInv'
  OBVIOUS
<1>1. Types /\ Types'
  BY TypesInv DEF IndInv
<1>2. torn => torn'
  BY DEF Next, Send, Writer, Scan, ScanCompare, ScanLoad, ScanDone, WritePayload,
         WriteHeader, Reader, Receive, ReadPayload, Advance, Done, vars
<1>3. ASSUME ~torn' PROVE Safe'
  <2>1. Safe
    BY <1>2, <1>3 DEF IndInv
  <2>2. ASSUME NEW o \in {"send", "send0"}, Send(o) PROVE Safe'
    BY <1>1, <2>1, <2>2, SendSafe
  <2>3. CASE ScanCompare
    BY <1>1, <2>1, <2>3, ScanCompareSafe
  <2>4. CASE ScanLoad
    BY <1>1, <1>3, <2>1, <2>4, ScanLoadSafe
  <2>5. CASE ScanDone
    BY <1>1, <2>1, <2>5, ScanDoneSafe
  <2>6. CASE WritePayload
    BY <1>1, <2>1, <2>6, WritePayloadSafe
  <2>7. CASE WriteHeader
    BY <1>1, <2>1, <2>7, WriteHeaderSafe
  <2>8. ASSUME NEW r \in Readers, Reader(r) PROVE Safe'
    BY <1>1, <2>1, <2>8, ReceiveSafe, AdvanceSafe DEF Reader
  <2>9. CASE Done \/ UNCHANGED vars
    BY <2>1, <2>9 DEF Done, vars, sharedVars, wVars, rVars, Safe, SyncPoint, Scanning,
                      Positions, Intact, SlotOf
  <2> QED BY <2>2, <2>3, <2>4, <2>5, <2>6, <2>7, <2>8, <2>9 DEF Next, Writer, Scan
<1> QED BY <1>1, <1>3 DEF IndInv

\* The invariant holds in every state the writer and the readers of
\* backends/shm/swmr_queue.c reach.
THEOREM Invariance == Spec => []IndInv
BY InitInv, NextInv, PTL DEF Spec

\* Until a reader's position passes the minimum between the two loads of
\* swmr_get_next_sync, swmr_send_raw laps no reader and every message is found
\* intact in its slot, however many readers there are and however rarely they
\* publish their positions.
THEOREM SafeUntilTorn == Spec => []SafeUnlessTorn
<1>1. IndInv => SafeUnlessTorn
  <2> SUFFICES ASSUME Types, Safe PROVE NoOverrun /\ Intact
    BY DEF IndInv, SafeUnlessTorn
  <2>1. ASSUME wpc \in {"payload", "header"}, NEW r \in Readers
        PROVE  wSeq < rSeq[r] + NumSlots
    <3>1. rSeq[r] \in Nat /\ readersPos[r] \in Nat /\ wSeq \in Nat /\ wSync \in Nat
      BY DEF Types, SharedTypes, WriterTypes, ReaderTypes
    <3>2. /\ wSeq < wSync /\ wSync <= readersPos[r] + NumSlots - 1
          /\ readersPos[r] < rSeq[r]
      BY <2>1 DEF Safe, SyncPoint, Positions
    <3> QED BY <3>1, <3>2, Constants
  <2> QED BY <2>1 DEF NoOverrun, Safe
<1> QED BY <1>1, Invariance, PTL

=============================================================================
