------------------------- MODULE FrameTransferProofs -------------------------
(***************************************************************************)
(* Proofs about FrameTransfer for every pool size and every bound: its     *)
(* type invariant, that no published capture is lost or stored wrong or    *)
(* out of order, that the host never refuses a record, and that the        *)
(* transfer implements CaptureDelivery.                                    *)
(***************************************************************************)
EXTENDS FrameTransfer, TLAPS

-----------------------------------------------------------------------------
(* The inductive invariant.                                                *)

(* The slots that hold a published capture.                                *)
InUse == {i \in Slot : state[i] \in {"READY", "SENDING"}}

(* Frames in the stream to the host.                                       *)
Frames(s) == {s[k].cap : k \in {j \in DOMAIN s : s[j].kind = "frame"}}
Transit == Frames(toHost)

(* A slot is FILLING or SENDING exactly when its owner points at it.       *)
SlotOwners ==
  /\ \A i \in Slot : state[i] = "FILLING" <=> i = filling
  /\ \A i \in Slot : state[i] = "SENDING" <=> i = sending
  /\ sending # NoSlot <=> bphase \in {"send", "ack"}

(* The recording under way carries the number `shot' and will carry        *)
(* `cycle'; what was published before it is older.                         *)
History ==
  /\ filling # NoSlot => data[filling] = shot /\ cycle >= 1
  /\ \A c \in published :
       /\ c.boot \in 1 .. boot
       /\ c.seq >= 1
       /\ c.data <= shot
       /\ filling # NoSlot => c.data < shot
       /\ c.boot = boot => c.seq <= cycle
       /\ c.boot = boot /\ filling # NoSlot => c.seq < cycle

(* Neither the wire identity nor the samples of two captures coincide.     *)
Distinct ==
  \A c, d \in published :
    (c.boot = d.boot /\ c.seq = d.seq) \/ c.data = d.data => c = d

(* A slot in use holds a published capture of this boot; two slots never   *)
(* hold the same, and the one being sent is the oldest.                    *)
PoolContents ==
  /\ \A i \in InUse : CaptureOf(i) \in published /\ meta[i].boot = boot
  /\ \A i, j \in InUse : i # j => meta[i].seq # meta[j].seq
  /\ \A j \in InUse :
       sending # NoSlot /\ j # sending => meta[sending].seq < meta[j].seq

(* Everything published before c in the same boot is on the disk.          *)
EarlierStored(c) ==
  \A d \in published : d.boot = c.boot /\ d.seq < c.seq => d \in described

(* What is on its way to the disk is published and next in turn.           *)
InTurn ==
  \A c \in Transit \cup payloads : c \in published /\ EarlierStored(c)

HostProgress ==
  /\ hphase \in {"save", "describe"} =>
       hrec \in published /\ EarlierStored(hrec)
  /\ hphase = "describe" => hrec \in payloads
  /\ hphase = "ack" => hrec = NoCapture \/ hrec \in described
  /\ described \subseteq payloads

(* An ACK for a frame is written only when the frame is stored.            *)
AckMeansStored ==
  toBoard.kind = "ack" =>
    \/ toBoard.seq = 0
    \/ \E c \in described : c.seq = toBoard.seq /\ c.data = toBoard.crc

(* Every frame of one socket comes from one boot.                          *)
OneBoot ==
  /\ hphase = "down" => bound = 0
  /\ \E b \in 0 .. boot :
       /\ bound \in {0, b}
       /\ \A c \in Transit : c.boot = b
       /\ bphase # "listen" => b = boot

Inv ==
  /\ TypeOK
  /\ SlotOwners
  /\ History
  /\ Distinct
  /\ PoolContents
  /\ InTurn
  /\ HostProgress
  /\ AckMeansStored
  /\ OneBoot
  /\ NoCaptureLost

-----------------------------------------------------------------------------
LEMMA SlotFacts == NoSlot \notin Slot /\ Slot \subseteq Nat /\ Slot \subseteq Int
  BY PoolCountAssumption DEF Slot, NoSlot

LEMMA MessageTypes ==
  /\ NoCapture \in Capture
  /\ Record("ready", NoCapture) \in HostMessage
  /\ Record("marker", NoCapture) \in HostMessage
  /\ \A c \in Capture : Record("frame", c) \in HostMessage
  /\ NoReply \in BoardMessage /\ Hello \in BoardMessage
  /\ \A c \in Capture : Ack(c) \in BoardMessage
  BY DEF NoCapture, Capture, Record, HostMessage, NoReply, Hello, Ack, BoardMessage

LEMMA CaptureType ==
  ASSUME TypeOK, NEW i \in Slot
  PROVE  CaptureOf(i) \in Capture
  BY DEF TypeOK, CaptureOf, Capture

LEMMA StreamFacts ==
  /\ <<>> \in Seq(HostMessage)
  /\ \A s \in Seq(HostMessage) :
       s # <<>> => Tail(s) \in Seq(HostMessage) /\ Head(s) \in HostMessage
  /\ \A s \in Seq(HostMessage), m \in HostMessage :
       Append(s, m) \in Seq(HostMessage)
  OBVIOUS

LEMMA InitType == Init => TypeOK
  BY SlotFacts, MessageTypes, PoolCountAssumption
  DEF Init, TypeOK, FrameState, BoardPhase, HostPhase, NoSlot

(* Types, one step per action.                                             *)
LEMMA TypeStep == TypeOK /\ SlotOwners /\ [Next]_vars => TypeOK'
<1> SUFFICES ASSUME TypeOK, SlotOwners, [Next]_vars PROVE TypeOK'
  OBVIOUS
<1> USE DEF TypeOK
<1>1. ASSUME NEW i \in Slot, StartCapture(i) PROVE TypeOK'
  BY <1>1 DEF StartCapture, Acquired, FrameState, hostVars
<1>2. CASE PublishCapture
  <2>1. filling \in Slot
    BY <1>2 DEF PublishCapture
  <2>2. [boot |-> boot, seq |-> cycle, data |-> data[filling]] \in Capture
    BY <2>1 DEF Capture
  <2>3. published' \in SUBSET Capture
    BY <1>2, <2>2 DEF PublishCapture
  <2>4. state' \in [Slot -> FrameState] /\ meta' \in [Slot -> [boot : Nat, seq : Nat]]
    BY <1>2, <2>1 DEF PublishCapture, Published, FrameState
  <2>5. QED
    BY <1>2, <2>3, <2>4 DEF PublishCapture, hostVars
<1>3. CASE DiscardCapture
  <2>1. filling \in Slot
    BY <1>3 DEF DiscardCapture
  <2>2. state' \in [Slot -> FrameState]
    BY <1>3, <2>1 DEF DiscardCapture, FrameState
  <2>3. QED
    BY <1>3, <2>2 DEF DiscardCapture, hostVars
<1>4. CASE Connect
  BY <1>4, MessageTypes, StreamFacts DEF Connect, boardVars, BoardPhase, HostPhase
<1>5. CASE BoardHandshake
  BY <1>5, MessageTypes, StreamFacts DEF BoardHandshake, SendToHost, boardVars, hostVars, BoardPhase
<1>6. CASE BoardNotices
  BY <1>6, MessageTypes, SlotFacts DEF BoardNotices, CloseBoard, Finished, FrameState, hostVars, BoardPhase
<1>7. CASE \E n \in {0} \cup {meta[i].seq : i \in Slot} : BeginBatch(n)
  BY <1>7, MessageTypes, StreamFacts DEF BeginBatch, SendToHost, boardVars, hostVars, BoardPhase
<1>8. CASE MarkerAcknowledged
  BY <1>8, MessageTypes DEF MarkerAcknowledged, boardVars, hostVars, BoardPhase
<1>9. CASE \E i \in Slot : TakeFrame(i)
  BY <1>9 DEF TakeFrame, Taken, FrameState, hostVars, BoardPhase
<1>10. CASE EndBatch
  BY <1>10 DEF EndBatch, boardVars, hostVars, BoardPhase
<1>11. CASE SendFrame
  <2>1. Record("frame", CaptureOf(sending)) \in HostMessage
    BY <1>11, CaptureType, MessageTypes DEF SendFrame, SlotOwners
  <2>2. QED
    BY <1>11, <2>1, StreamFacts DEF SendFrame, SendToHost, boardVars, hostVars, BoardPhase
<1>12. CASE FrameAcknowledged
  <2>1. state' \in [Slot -> FrameState]
    BY <1>12 DEF FrameAcknowledged, Finished, FrameState, SlotOwners
  <2>2. QED
    BY <1>12, <2>1, MessageTypes DEF FrameAcknowledged, hostVars, BoardPhase
<1>13. CASE HostHandshake
  BY <1>13, StreamFacts DEF HostHandshake, Arrives, boardVars, HostPhase
<1>14. CASE HostNotices
  BY <1>14, MessageTypes DEF HostNotices, CloseHost, boardVars, HostPhase
<1>15. CASE ReceiveMarker
  <2>1. Tail(toHost) \in Seq(HostMessage) /\ Head(toHost) \in HostMessage
    BY <1>15, StreamFacts DEF ReceiveMarker, Arrives
  <2>2. Head(toHost).cap \in Capture
    BY <2>1, MessageTypes DEF HostMessage
  <2>3. QED
    BY <1>15, <2>1, <2>2 DEF ReceiveMarker, boardVars, HostPhase
<1>16. CASE ReceiveFrame
  <2>1. Tail(toHost) \in Seq(HostMessage) /\ Head(toHost).cap \in Capture
    BY <1>16, StreamFacts, MessageTypes DEF ReceiveFrame, Arrives, HostMessage
  <2>2. Head(toHost).cap.boot \in Nat
    BY <2>1 DEF Capture
  <2>3. CASE Conflicting(Head(toHost).cap)
    BY <1>16, <2>1, <2>3, MessageTypes, SMTT(30) DEF ReceiveFrame, CloseHost, boardVars, HostPhase
  <2>4. CASE ~Conflicting(Head(toHost).cap)
    BY <1>16, <2>1, <2>2, <2>4 DEF ReceiveFrame, boardVars, HostPhase
  <2>5. QED
    BY <2>3, <2>4
<1>17. CASE WritePayload
  BY <1>17 DEF WritePayload, boardVars, HostPhase
<1>18. CASE WriteDescription
  BY <1>18 DEF WriteDescription, boardVars, HostPhase
<1>19. CASE Acknowledge
  BY <1>19, MessageTypes DEF Acknowledge, SendToBoard, CloseHost, boardVars, HostPhase
<1>20. CASE BoardFails
  <2>1. toHost' \in Seq(HostMessage)
    BY <1>20, StreamFacts DEF BoardFails
  <2>2. state' \in [Slot -> FrameState]
    BY <1>20 DEF BoardFails, CloseBoard, Finished, FrameState
  <2>3. faults' \in Nat /\ CloseBoard
    BY <1>20 DEF BoardFails
  <2>4. QED
    BY <2>1, <2>2, <2>3, MessageTypes DEF CloseBoard, hostVars, BoardPhase
<1>21. CASE HostFails
  BY <1>21, MessageTypes, StreamFacts DEF HostFails, CloseHost, boardVars, HostPhase
<1>22. CASE ResetBoard
  <2>1. toHost' \in Seq(HostMessage)
    BY <1>22, StreamFacts DEF ResetBoard, NewBoot
  <2>2. state' \in [Slot -> FrameState] /\ meta' \in [Slot -> [boot : Nat, seq : Nat]]
    BY <1>22 DEF ResetBoard, NewBoot, FrameState
  <2>3. boot' \in Nat \ {0}
    BY <1>22 DEF ResetBoard, NewBoot
  <2>4. QED
    BY <1>22, <2>1, <2>2, <2>3, MessageTypes DEF ResetBoard, NewBoot, hostVars, BoardPhase
<1>23. CASE UNCHANGED vars
  BY <1>23 DEF vars, boardVars, hostVars
<1>24. QED
  BY <1>1, <1>2, <1>3, <1>4, <1>5, <1>6, <1>7, <1>8, <1>9, <1>10, <1>11, <1>12,
     <1>13, <1>14, <1>15, <1>16, <1>17, <1>18, <1>19, <1>20, <1>21, <1>22, <1>23
  DEF Next, Producer, BoardStep, HostStep

-----------------------------------------------------------------------------
(* Who owns which slot.                                                    *)

(* A closing board returns the slot it was sending to READY.               *)
LEMMA CloseOwners ==
  ASSUME TypeOK, SlotOwners, CloseBoard
  PROVE  SlotOwners'
<1>1. CASE sending = NoSlot
  BY <1>1, SlotFacts DEF CloseBoard, SlotOwners
<1>2. CASE sending # NoSlot
  <2>1. sending \in Slot /\ state[sending] = "SENDING"
    BY <1>2 DEF TypeOK, SlotOwners
  <2>2. state' = [state EXCEPT ![sending] = "READY"]
    BY <1>2, <2>1 DEF CloseBoard, Finished
  <2>3. QED
    BY <2>1, <2>2, SlotFacts DEF CloseBoard, SlotOwners, TypeOK
<1>3. QED
  BY <1>1, <1>2

LEMMA SlotOwnersStep == TypeOK /\ SlotOwners /\ [Next]_vars => SlotOwners'
<1> SUFFICES ASSUME TypeOK, SlotOwners, [Next]_vars PROVE SlotOwners'
  OBVIOUS
<1>1. ASSUME NEW i \in Slot, StartCapture(i) PROVE SlotOwners'
  BY <1>1, SlotFacts DEF StartCapture, FirstFree, Acquired, SlotOwners, TypeOK
<1>2. CASE PublishCapture
  BY <1>2, SlotFacts DEF PublishCapture, Publishable, Published, SlotOwners, TypeOK
<1>3. CASE DiscardCapture
  BY <1>3, SlotFacts DEF DiscardCapture, SlotOwners, TypeOK
<1>4. CASE BoardNotices \/ BoardFails
  BY <1>4, CloseOwners DEF BoardNotices, BoardFails
<1>5. ASSUME NEW i \in Slot, TakeFrame(i) PROVE SlotOwners'
  BY <1>5, SlotFacts
  DEF TakeFrame, OldestSendable, Sendable, Taken, SlotOwners, TypeOK
<1>6. CASE FrameAcknowledged
  <2>1. sending \in Slot /\ state[sending] = "SENDING"
    BY <1>6, SlotFacts DEF FrameAcknowledged, SlotOwners, TypeOK
  <2>2. state' = [state EXCEPT ![sending] = "FREE"]
    BY <1>6, <2>1 DEF FrameAcknowledged, Finished
  <2>3. QED
    BY <1>6, <2>1, <2>2, SlotFacts DEF FrameAcknowledged, SlotOwners, TypeOK
<1>7. CASE ResetBoard
  BY <1>7, SlotFacts DEF ResetBoard, NewBoot, SlotOwners
<1>8. CASE SendFrame
  BY <1>8 DEF SendFrame, boardVars, SlotOwners
<1>9. CASE \/ Connect \/ BoardHandshake \/ MarkerAcknowledged \/ EndBatch
           \/ \E n \in {0} \cup {meta[i].seq : i \in Slot} : BeginBatch(n)
  BY <1>9
  DEF Connect, BoardHandshake, MarkerAcknowledged, EndBatch, BeginBatch,
      boardVars, SlotOwners
<1>10. CASE HostStep \/ HostFails \/ UNCHANGED vars
  BY <1>10
  DEF HostStep, HostHandshake, HostNotices, ReceiveMarker, ReceiveFrame,
      WritePayload, WriteDescription, Acknowledge, HostFails, vars,
      boardVars, SlotOwners
<1>11. QED
  BY <1>1, <1>2, <1>3, <1>4, <1>5, <1>6, <1>7, <1>8, <1>9, <1>10
  DEF Next, Producer, BoardStep

-----------------------------------------------------------------------------
(* What a step can do to the pool, seen from the captures in it: nothing,  *)
(* add the capture just recorded, drop the acknowledged one, or drop all.  *)
PoolUnchanged ==
  /\ InUse' = InUse
  /\ \A i \in InUse : data'[i] = data[i] /\ meta'[i] = meta[i]
  /\ published' = published
  /\ boot' = boot

LEMMA PoolStep ==
  ASSUME TypeOK, SlotOwners, [Next]_vars
  PROVE  \/ PoolUnchanged
         \/ PublishCapture
         \/ FrameAcknowledged
         \/ ResetBoard
<1>1. ASSUME NEW i \in Slot, StartCapture(i) PROVE PoolUnchanged
  BY <1>1 DEF StartCapture, FirstFree, Acquired, PoolUnchanged, InUse, TypeOK
<1>2. CASE DiscardCapture
  BY <1>2 DEF DiscardCapture, SlotOwners, PoolUnchanged, InUse, TypeOK
<1>3. CASE BoardNotices \/ BoardFails
  <2>1. CloseBoard
    BY <1>3 DEF BoardNotices, BoardFails
  <2>2. InUse' = InUse
    <3>1. CASE sending = NoSlot
      BY <2>1, <3>1 DEF CloseBoard, InUse
    <3>2. CASE sending # NoSlot
      BY <2>1, <3>2 DEF CloseBoard, Finished, SlotOwners, InUse, TypeOK
    <3>3. QED
      BY <3>1, <3>2
  <2>3. QED
    BY <2>1, <2>2 DEF CloseBoard, PoolUnchanged
<1>4. ASSUME NEW i \in Slot, TakeFrame(i) PROVE PoolUnchanged
  BY <1>4 DEF TakeFrame, OldestSendable, Sendable, Taken, PoolUnchanged, InUse, TypeOK
<1>5. CASE \/ Connect \/ BoardHandshake \/ MarkerAcknowledged \/ EndBatch
           \/ \E n \in {0} \cup {meta[i].seq : i \in Slot} : BeginBatch(n)
           \/ SendFrame
  BY <1>5
  DEF Connect, BoardHandshake, MarkerAcknowledged, EndBatch, BeginBatch,
      SendFrame, boardVars, PoolUnchanged, InUse
<1>6. CASE HostStep \/ HostFails \/ UNCHANGED vars
  BY <1>6
  DEF HostStep, HostHandshake, HostNotices, ReceiveMarker, ReceiveFrame,
      WritePayload, WriteDescription, Acknowledge, HostFails, vars,
      boardVars, PoolUnchanged, InUse
<1>7. QED
  BY <1>1, <1>2, <1>3, <1>4, <1>5, <1>6 DEF Next, Producer, BoardStep

-----------------------------------------------------------------------------
(* The history of recordings.                                              *)

HistoryVars == <<filling, data, shot, cycle, boot, published>>

LEMMA HistoryStep ==
  ASSUME TypeOK, SlotOwners, History, Distinct, [Next]_vars
  PROVE  History' /\ Distinct'
<1> USE DEF TypeOK
<1>1. ASSUME NEW i \in Slot, StartCapture(i) PROVE History' /\ Distinct'
  <2>1. /\ filling = NoSlot /\ filling' = i
        /\ data'[i] = shot + 1 /\ shot' = shot + 1 /\ cycle' = cycle + 1
        /\ UNCHANGED <<boot, published>>
    BY <1>1 DEF StartCapture
  <2>2. \A c \in published : c.data \in Nat /\ c.seq \in Nat
    BY DEF Capture
  <2>3. \A c \in published : c.data < shot' /\ (c.boot = boot => c.seq < cycle')
    BY <2>1, <2>2 DEF History
  <2>4. History'
    BY <2>1, <2>2, <2>3 DEF History
  <2>5. QED
    BY <2>1, <2>4 DEF Distinct
<1>2. CASE PublishCapture
  <2> DEFINE new == [boot |-> boot, seq |-> cycle, data |-> data[filling]]
  <2>1. filling \in Slot /\ data[filling] = shot /\ cycle >= 1
    BY <1>2 DEF PublishCapture, History
  <2>2. new \in Capture /\ new.boot = boot /\ new.seq = cycle /\ new.data = shot
    BY <2>1 DEF Capture
  <2>3. published' = published \cup {new} /\ filling' = NoSlot /\ UNCHANGED <<boot, shot, cycle>>
    BY <1>2 DEF PublishCapture
  <2> HIDE DEF new
  <2>4. \A c \in published' :
          /\ c.boot \in 1 .. boot
          /\ c.seq >= 1
          /\ c.data <= shot
          /\ c.boot = boot => c.seq <= cycle
    BY <2>1, <2>2, <2>3 DEF History
  <2>5. History'
    BY <2>3, <2>4 DEF History
  <2>6. \A c \in published : c.data # new.data /\ ~(c.boot = new.boot /\ c.seq = new.seq)
    BY <2>1, <2>2, SlotFacts, SMTT(30) DEF History, Capture
  <2>7. Distinct'
    BY <2>2, <2>3, <2>6 DEF Distinct
  <2>8. QED
    BY <2>5, <2>7
<1>3. CASE DiscardCapture
  BY <1>3 DEF DiscardCapture, History, Distinct, Capture
<1>4. CASE ResetBoard
  <2>1. Distinct'
    BY <1>4 DEF ResetBoard, NewBoot, Distinct
  <2>2. \A c \in published : c.boot \in 1 .. boot' /\ c.boot # boot'
    BY <1>4 DEF ResetBoard, NewBoot, History, Capture
  <2>3. filling' = NoSlot /\ published' = published /\ shot' = shot
    BY <1>4 DEF ResetBoard, NewBoot
  <2>4. QED
    BY <2>1, <2>2, <2>3 DEF History
<1>5. CASE UNCHANGED HistoryVars
  BY <1>5 DEF HistoryVars, History, Distinct
<1>6. UNCHANGED HistoryVars \/ ResetBoard \/ Producer
  BY DEF Next, BoardStep, HostStep, Connect, BoardHandshake, BoardNotices,
     BeginBatch, MarkerAcknowledged, TakeFrame, EndBatch, SendFrame,
     FrameAcknowledged, HostHandshake, HostNotices, ReceiveMarker,
     ReceiveFrame, WritePayload, WriteDescription, Acknowledge, BoardFails,
     HostFails, CloseBoard, boardVars, HistoryVars, vars
<1>7. QED
  BY <1>1, <1>2, <1>3, <1>4, <1>5, <1>6 DEF Producer

-----------------------------------------------------------------------------
(* The captures in the pool.                                               *)

(* The frame just taken is the oldest in the pool: a READY one that is not *)
(* in this batch is newer than the last of the batch.                      *)
LEMMA TakeOldest ==
  ASSUME TypeOK, SlotOwners, PoolContents, NEW i \in Slot, TakeFrame(i)
  PROVE  \A j \in InUse : j # i => meta[i].seq < meta[j].seq
<1> SUFFICES ASSUME NEW j \in InUse, j # i PROVE meta[i].seq < meta[j].seq
  OBVIOUS
<1>1. j \in Slot /\ state[j] = "READY" /\ i \in InUse
  BY SlotFacts DEF TakeFrame, OldestSendable, Sendable, SlotOwners, InUse
<1>2. meta[i].seq \in Nat /\ meta[j].seq \in Nat /\ through \in Nat
  BY <1>1 DEF TypeOK
<1>3. meta[i].seq # meta[j].seq
  BY <1>1 DEF PoolContents
<1>4. meta[i].seq <= through
  BY DEF TakeFrame, OldestSendable, Sendable, Sequence
<1>5. CASE meta[j].seq <= through
  <2>1. Sendable(state, Sequence, through, j)
    BY <1>1, <1>5 DEF Sendable, Sequence
  <2>2. Sequence[i] < Sequence[j] \/ Sequence[i] = Sequence[j]
    BY <1>1, <2>1 DEF TakeFrame, OldestSendable
  <2>3. QED
    BY <1>1, <1>2, <1>3, <2>2 DEF Sequence
<1>6. CASE ~(meta[j].seq <= through)
  BY <1>2, <1>4, <1>6
<1>7. QED
  BY <1>5, <1>6

LEMMA PoolContentsStep ==
  ASSUME TypeOK, SlotOwners, History, PoolContents, [Next]_vars
  PROVE  PoolContents'
<1>1. CASE PoolUnchanged
  <2>1. \A i \in InUse : CaptureOf(i)' = CaptureOf(i)
    BY <1>1 DEF PoolUnchanged, CaptureOf
  <2>2. /\ \A i \in InUse' : CaptureOf(i)' \in published' /\ meta'[i].boot = boot'
        /\ \A i, j \in InUse' : i # j => meta'[i].seq # meta'[j].seq
    BY <1>1, <2>1 DEF PoolUnchanged, PoolContents
  <2>3. ASSUME sending' # NoSlot
        PROVE  \A j \in InUse' : j # sending' => meta'[sending'].seq < meta'[j].seq
    <3>1. CASE \E i \in Slot : TakeFrame(i)
      <4>1. PICK i \in Slot : TakeFrame(i)
        BY <3>1
      <4>2. sending' = i /\ meta' = meta
        BY <4>1 DEF TakeFrame
      <4>3. QED
        BY <1>1, <4>1, <4>2, TakeOldest DEF PoolUnchanged
    <3>2. CASE sending' = sending
      <4>1. sending \in InUse
        BY <2>3, <3>2 DEF TypeOK, SlotOwners, InUse
      <4>2. QED
        BY <1>1, <2>3, <3>2, <4>1 DEF PoolUnchanged, PoolContents
    <3>3. (\E i \in Slot : TakeFrame(i)) \/ sending' = sending
      BY <2>3
      DEF Next, Producer, BoardStep, HostStep, StartCapture, PublishCapture,
          DiscardCapture, Connect, BoardHandshake, BoardNotices, BeginBatch,
          MarkerAcknowledged, EndBatch, SendFrame, FrameAcknowledged,
          HostHandshake, HostNotices, ReceiveMarker, ReceiveFrame,
          WritePayload, WriteDescription, Acknowledge, BoardFails, HostFails,
          ResetBoard, NewBoot, CloseBoard, vars
    <3>4. QED
      BY <3>1, <3>2, <3>3
  <2>4. QED
    BY <2>2, <2>3 DEF PoolContents
<1>2. CASE PublishCapture
  <2>1. PICK f \in Slot : f = filling /\ state[f] = "FILLING" /\ f \notin InUse
    BY <1>2 DEF PublishCapture, Publishable, TypeOK, SlotOwners, InUse
  <2>2. InUse' = InUse \cup {f}
    BY <1>2, <2>1 DEF PublishCapture, Published, InUse, TypeOK
  <2>3. /\ meta'[f] = [boot |-> boot, seq |-> cycle]
        /\ \A i \in InUse : meta'[i] = meta[i]
        /\ UNCHANGED <<data, boot, sending>>
        /\ published' = published \cup {[boot |-> boot, seq |-> cycle, data |-> data[f]]}
    BY <1>2, <2>1 DEF PublishCapture, TypeOK, InUse
  <2>4. meta'[f].boot = boot /\ meta'[f].seq = cycle
    BY <2>3
  <2>5. CaptureOf(f)' \in published'
    BY <2>3, <2>4 DEF CaptureOf
  <2>6. \A i \in InUse : CaptureOf(i)' \in published'
    <3>1. \A i \in InUse : CaptureOf(i)' = CaptureOf(i)
      BY <2>3 DEF CaptureOf
    <3>2. QED
      BY <2>3, <3>1 DEF PoolContents
  <2>7. \A i \in InUse : meta[i].seq < cycle /\ meta[i].seq \in Nat
    <3>1. TAKE i \in InUse
    <3>2. CaptureOf(i) \in published /\ CaptureOf(i).boot = boot /\ CaptureOf(i).seq = meta[i].seq
      BY DEF PoolContents, CaptureOf
    <3>3. meta[i].seq \in Nat
      BY DEF TypeOK, InUse
    <3>4. QED
      BY <2>1, <3>2, <3>3, SlotFacts DEF History
  <2>8. (sending # NoSlot => sending \in InUse) /\ cycle \in Nat
    BY DEF TypeOK, SlotOwners, InUse
  <2>9. \A j \in InUse' :
          sending' # NoSlot /\ j # sending' => meta'[sending'].seq < meta'[j].seq
    BY <2>2, <2>3, <2>4, <2>7, <2>8 DEF PoolContents
  <2>10. \A i, j \in InUse' : i # j => meta'[i].seq # meta'[j].seq
    BY <2>2, <2>3, <2>4, <2>7, <2>8 DEF PoolContents
  <2>11. \A i \in InUse' : CaptureOf(i)' \in published' /\ meta'[i].boot = boot'
    BY <2>2, <2>3, <2>4, <2>5, <2>6 DEF PoolContents
  <2>12. QED
    BY <2>9, <2>10, <2>11 DEF PoolContents
<1>3. CASE FrameAcknowledged
  <2>1. InUse' = InUse \ {sending}
    BY <1>3 DEF FrameAcknowledged, Finished, SlotOwners, InUse, TypeOK
  <2>2. sending' = NoSlot /\ UNCHANGED <<meta, data, boot, published>>
    BY <1>3 DEF FrameAcknowledged
  <2>3. QED
    BY <2>1, <2>2 DEF PoolContents, CaptureOf
<1>4. CASE ResetBoard
  <2>1. InUse' = {}
    BY <1>4 DEF ResetBoard, NewBoot, InUse
  <2>2. QED
    BY <2>1 DEF PoolContents
<1>5. QED
  BY <1>1, <1>2, <1>3, <1>4, PoolStep

-----------------------------------------------------------------------------
(* The stream to the host.                                                 *)

LEMMA FramesFacts ==
  /\ Frames(<<>>) = {}
  /\ \A s \in Seq(HostMessage) : s # <<>> =>
       /\ Frames(Tail(s)) \subseteq Frames(s)
       /\ Head(s).kind = "frame" => Head(s).cap \in Frames(s)
  /\ \A s \in Seq(HostMessage), m \in HostMessage :
       /\ Frames(Append(s, m)) \subseteq Frames(s) \cup {m.cap}
       /\ m.kind # "frame" => Frames(Append(s, m)) \subseteq Frames(s)
<1>1. Frames(<<>>) = {}
  BY DEF Frames
<1>2. ASSUME NEW s \in Seq(HostMessage), s # <<>>
      PROVE  /\ Frames(Tail(s)) \subseteq Frames(s)
             /\ Head(s).kind = "frame" => Head(s).cap \in Frames(s)
  <2>1. \A k \in DOMAIN Tail(s) : k + 1 \in DOMAIN s /\ Tail(s)[k] = s[k + 1]
    BY <1>2
  <2>2. 1 \in DOMAIN s /\ Head(s) = s[1]
    BY <1>2
  <2>3. QED
    BY <2>1, <2>2 DEF Frames
<1>3. ASSUME NEW s \in Seq(HostMessage), NEW m \in HostMessage
      PROVE  /\ Frames(Append(s, m)) \subseteq Frames(s) \cup {m.cap}
             /\ m.kind # "frame" => Frames(Append(s, m)) \subseteq Frames(s)
  <2>1. \A k \in DOMAIN Append(s, m) :
          \/ k \in DOMAIN s /\ Append(s, m)[k] = s[k]
          \/ Append(s, m)[k] = m
    OBVIOUS
  <2>2. QED
    BY <2>1 DEF Frames
<1>4. QED
  BY <1>1, <1>2, <1>3

(* Only send_record() puts a frame in the stream.                          *)
LEMMA TransitStep ==
  ASSUME TypeOK, SlotOwners, [Next]_vars
  PROVE  \/ Transit' \subseteq Transit
         \/ SendFrame /\ Transit' \subseteq Transit \cup {CaptureOf(sending)}
<1> USE DEF Transit
<1>1. CASE SendFrame
  <2>1. Record("frame", CaptureOf(sending)) \in HostMessage
    BY <1>1, CaptureType, MessageTypes DEF SendFrame, SlotOwners, TypeOK
  <2>2. Record("frame", CaptureOf(sending)).cap = CaptureOf(sending)
    BY DEF Record
  <2>3. toHost' = <<>> \/ toHost' = Append(toHost, Record("frame", CaptureOf(sending)))
    BY <1>1 DEF SendFrame, SendToHost
  <2>4. QED
    BY <1>1, <2>1, <2>2, <2>3, FramesFacts DEF TypeOK
<1>2. CASE BoardHandshake \/ \E n \in {0} \cup {meta[i].seq : i \in Slot} : BeginBatch(n)
  <2>1. PICK m \in HostMessage :
          m.kind # "frame" /\ (toHost' = <<>> \/ toHost' = Append(toHost, m))
    BY <1>2, MessageTypes DEF BoardHandshake, BeginBatch, SendToHost, Record
  <2>2. QED
    BY <2>1, FramesFacts DEF TypeOK
<1>3. CASE HostHandshake \/ ReceiveMarker \/ ReceiveFrame
  <2>1. toHost # <<>> /\ toHost' = Tail(toHost)
    BY <1>3 DEF HostHandshake, ReceiveMarker, ReceiveFrame, Arrives
  <2>2. QED
    BY <2>1, FramesFacts DEF TypeOK
<1>4. CASE toHost' = toHost
  BY <1>4
<1>5. CASE toHost' = <<>>
  BY <1>5, FramesFacts
<1>6. \/ SendFrame
      \/ BoardHandshake \/ \E n \in {0} \cup {meta[i].seq : i \in Slot} : BeginBatch(n)
      \/ HostHandshake \/ ReceiveMarker \/ ReceiveFrame
      \/ toHost' = toHost
      \/ toHost' = <<>>
  BY DEF Next, Producer, BoardStep, HostStep, StartCapture, PublishCapture,
         DiscardCapture, Connect, BoardNotices, MarkerAcknowledged, TakeFrame,
         EndBatch, FrameAcknowledged, HostNotices, WritePayload,
         WriteDescription, Acknowledge, BoardFails, HostFails, ResetBoard, NewBoot, vars
<1>7. QED
  BY <1>1, <1>2, <1>3, <1>4, <1>5, <1>6

-----------------------------------------------------------------------------
(* What the disk gains, and what published captures it presupposes.        *)

(* A step adds at most one payload or one description, each of the record  *)
(* that the receiver is storing.                                           *)
LEMMA DiskStep ==
  ASSUME [Next]_vars
  PROVE  \/ UNCHANGED <<payloads, described>>
         \/ /\ WritePayload
            /\ payloads' = payloads \cup {hrec} /\ described' = described
         \/ /\ WriteDescription
            /\ described' = described \cup {hrec} /\ payloads' = payloads
  BY DEF Next, Producer, BoardStep, HostStep, StartCapture, PublishCapture,
         DiscardCapture, Connect, BoardHandshake, BoardNotices, BeginBatch,
         MarkerAcknowledged, TakeFrame, EndBatch, SendFrame, FrameAcknowledged,
         HostHandshake, HostNotices, ReceiveMarker, ReceiveFrame, WritePayload,
         WriteDescription, Acknowledge, BoardFails, HostFails, ResetBoard, NewBoot,
         CloseBoard, hostVars, vars

LEMMA PublishedStep ==
  ASSUME [Next]_vars
  PROVE  \/ published' = published
         \/ /\ PublishCapture
            /\ published' = published \cup
                 {[boot |-> boot, seq |-> cycle, data |-> data[filling]]}
  BY DEF Next, Producer, BoardStep, HostStep, StartCapture, PublishCapture,
         DiscardCapture, Connect, BoardHandshake, BoardNotices, BeginBatch,
         MarkerAcknowledged, TakeFrame, EndBatch, SendFrame, FrameAcknowledged,
         HostHandshake, HostNotices, ReceiveMarker, ReceiveFrame, WritePayload,
         WriteDescription, Acknowledge, BoardFails, HostFails, ResetBoard, NewBoot,
         CloseBoard, vars

(* A capture published later is no earlier one.                            *)
LEMMA EarlierKept ==
  ASSUME TypeOK, History, [Next]_vars,
         NEW c \in published, EarlierStored(c)
  PROVE  c \in published' /\ EarlierStored(c)'
<1>1. described \subseteq described'
  BY DiskStep
<1>2. CASE published' = published
  BY <1>1, <1>2 DEF EarlierStored
<1>3. CASE PublishCapture
  <2> DEFINE new == [boot |-> boot, seq |-> cycle, data |-> data[filling]]
  <2>1. filling # NoSlot /\ published' = published \cup {new}
    BY <1>3 DEF PublishCapture
  <2>2. new.boot = boot /\ new.seq = cycle
    OBVIOUS
  <2>3. c.boot = boot => c.seq < cycle
    BY <2>1 DEF History
  <2>4. c.seq \in Nat /\ cycle \in Nat
    BY DEF TypeOK, Capture
  <2>5. ~(new.boot = c.boot /\ new.seq < c.seq)
    BY <2>2, <2>3, <2>4
  <2> HIDE DEF new
  <2>6. QED
    BY <1>1, <2>1, <2>5 DEF EarlierStored
<1>4. QED
  BY <1>2, <1>3, PublishedStep

(* The frame being sent is the oldest one not yet stored.                  *)
LEMMA SendingInTurn ==
  ASSUME TypeOK, SlotOwners, PoolContents, NoCaptureLost, sending # NoSlot
  PROVE  CaptureOf(sending) \in published /\ EarlierStored(CaptureOf(sending))
<1>1. sending \in InUse
  BY DEF TypeOK, SlotOwners, InUse
<1>2. /\ CaptureOf(sending) \in published
      /\ CaptureOf(sending).boot = boot
      /\ CaptureOf(sending).seq = meta[sending].seq
  BY <1>1 DEF PoolContents, CaptureOf
<1>3. ASSUME NEW d \in published, d.boot = boot, d.seq < meta[sending].seq
      PROVE  d \in described
  <2>1. SUFFICES ASSUME d \in InPool PROVE FALSE
    BY <1>3 DEF NoCaptureLost
  <2>2. PICK j \in InUse : d = CaptureOf(j)
    BY <2>1 DEF InPool, InUse
  <2>3. d.seq = meta[j].seq /\ meta[j].seq \in Nat /\ meta[sending].seq \in Nat
    BY <1>1, <2>2 DEF CaptureOf, TypeOK, InUse
  <2>4. j = sending \/ meta[sending].seq < meta[j].seq
    BY <2>2 DEF PoolContents
  <2>5. QED
    BY <1>3, <2>3, <2>4
<1>4. QED
  BY <1>2, <1>3 DEF EarlierStored

LEMMA InTurnStep ==
  ASSUME TypeOK, SlotOwners, History, PoolContents, InTurn, HostProgress,
         NoCaptureLost, [Next]_vars
  PROVE  InTurn'
<1>1. \A c \in published : EarlierStored(c) => c \in published' /\ EarlierStored(c)'
  BY EarlierKept
<1>2. ASSUME NEW c \in Transit' PROVE c \in published /\ EarlierStored(c)
  <2>1. CASE c \in Transit
    BY <2>1 DEF InTurn
  <2>2. CASE SendFrame /\ c = CaptureOf(sending)
    BY <2>2, SendingInTurn DEF SendFrame, SlotOwners
  <2>3. QED
    BY <1>2, <2>1, <2>2, TransitStep
<1>3. ASSUME NEW c \in payloads' PROVE c \in published /\ EarlierStored(c)
  <2>1. CASE c \in payloads
    BY <2>1 DEF InTurn
  <2>2. CASE WritePayload /\ c = hrec
    BY <2>2 DEF WritePayload, HostProgress
  <2>3. QED
    BY <1>3, <2>1, <2>2, DiskStep
<1>4. QED
  BY <1>1, <1>2, <1>3 DEF InTurn
-----------------------------------------------------------------------------
(* The receiver, the answers and the boot binding.                         *)

LEMMA HostProgressStep ==
  ASSUME TypeOK, SlotOwners, History, InTurn, HostProgress, [Next]_vars
  PROVE  HostProgress'
<1>1. \A c \in published : EarlierStored(c) => c \in published' /\ EarlierStored(c)'
  BY EarlierKept
<1>2. described \subseteq described' /\ payloads \subseteq payloads'
  BY DiskStep
<1>3. described' \subseteq payloads'
  BY DiskStep DEF HostProgress, WriteDescription
<1>4. CASE hphase' \notin {"save", "describe", "ack"}
  BY <1>3, <1>4 DEF HostProgress
<1>5. CASE UNCHANGED <<hphase, hrec>>
  BY <1>1, <1>2, <1>3, <1>5 DEF HostProgress
<1>6. CASE ReceiveMarker
  <2>1. hphase' = "ack" /\ hrec' = Head(toHost).cap
    BY <1>6 DEF ReceiveMarker
  <2>2. Head(toHost) \in HostMessage /\ Head(toHost).kind = "marker"
    BY <1>6, StreamFacts DEF ReceiveMarker, Arrives, TypeOK
  <2>3. Head(toHost).cap = NoCapture
    BY <2>2 DEF HostMessage
  <2>4. QED
    BY <1>3, <2>1, <2>3 DEF HostProgress
<1>7. CASE ReceiveFrame /\ hphase' = "save"
  <2>1. hrec' = Head(toHost).cap /\ Head(toHost).cap \in Transit
    BY <1>7, FramesFacts DEF ReceiveFrame, Arrives, CloseHost, Transit, TypeOK
  <2>2. PICK c \in published : c = Head(toHost).cap /\ EarlierStored(c)
    BY <2>1 DEF InTurn
  <2>3. hrec' = c /\ c \in published' /\ EarlierStored(c)'
    BY <1>1, <2>1, <2>2
  <2>4. QED
    BY <1>3, <1>7, <2>3 DEF HostProgress, EarlierStored
<1>8. CASE WritePayload
  <2>1. hphase = "save" /\ hphase' = "describe" /\ hrec' = hrec /\ payloads' = payloads \cup {hrec}
    BY <1>8 DEF WritePayload
  <2>2. PICK c \in published : c = hrec /\ EarlierStored(c)
    BY <2>1 DEF HostProgress
  <2>3. c \in published' /\ EarlierStored(c)'
    BY <1>1, <2>2
  <2>4. QED
    BY <1>3, <2>1, <2>2, <2>3 DEF HostProgress, EarlierStored
<1>9. CASE WriteDescription
  BY <1>3, <1>9 DEF WriteDescription, HostProgress
<1>10. \/ hphase' \notin {"save", "describe", "ack"}
       \/ UNCHANGED <<hphase, hrec>>
       \/ ReceiveMarker
       \/ ReceiveFrame /\ hphase' = "save"
       \/ WritePayload
       \/ WriteDescription
  BY DEF Next, Producer, BoardStep, HostStep, StartCapture, PublishCapture,
         DiscardCapture, Connect, BoardHandshake, BoardNotices, BeginBatch,
         MarkerAcknowledged, TakeFrame, EndBatch, SendFrame, FrameAcknowledged,
         HostHandshake, HostNotices, ReceiveFrame, Acknowledge, BoardFails,
         HostFails, ResetBoard, NewBoot, CloseBoard, CloseHost, hostVars, vars
<1>11. QED
  BY <1>4, <1>5, <1>6, <1>7, <1>8, <1>9, <1>10

LEMMA AckMeansStoredStep ==
  ASSUME TypeOK, HostProgress, AckMeansStored, [Next]_vars
  PROVE  AckMeansStored'
<1>1. described \subseteq described'
  BY DiskStep
<1>2. CASE toBoard' = toBoard
  BY <1>1, <1>2 DEF AckMeansStored
<1>3. CASE toBoard' \in {NoReply, Hello}
  BY <1>3 DEF AckMeansStored, NoReply, Hello
<1>4. CASE Acknowledge /\ toBoard' = Ack(hrec)
  <2>1. hrec = NoCapture \/ hrec \in described
    BY <1>4 DEF Acknowledge, HostProgress
  <2>2. toBoard'.seq = hrec.seq /\ toBoard'.crc = hrec.data
    BY <1>4 DEF Ack
  <2>3. QED
    BY <1>1, <2>1, <2>2 DEF AckMeansStored, NoCapture
<1>5. \/ toBoard' = toBoard
      \/ toBoard' \in {NoReply, Hello}
      \/ Acknowledge /\ toBoard' = Ack(hrec)
  BY DEF Next, Producer, BoardStep, HostStep, StartCapture, PublishCapture,
         DiscardCapture, Connect, BoardHandshake, BoardNotices, BeginBatch,
         MarkerAcknowledged, TakeFrame, EndBatch, SendFrame, FrameAcknowledged,
         HostHandshake, HostNotices, ReceiveMarker, ReceiveFrame, WritePayload,
         WriteDescription, Acknowledge, SendToBoard, BoardFails, HostFails,
         ResetBoard, NewBoot, CloseBoard, vars
<1>6. QED
  BY <1>2, <1>3, <1>4, <1>5

LEMMA OneBootStep ==
  ASSUME TypeOK, SlotOwners, PoolContents, OneBoot, [Next]_vars
  PROVE  OneBoot'
<1>1. PICK b \in 0 .. boot :
        /\ bound \in {0, b}
        /\ \A c \in Transit : c.boot = b
        /\ bphase # "listen" => b = boot
  BY DEF OneBoot
<1>2. boot' = boot \/ ResetBoard
  BY DEF Next, Producer, BoardStep, HostStep, StartCapture, PublishCapture,
         DiscardCapture, Connect, BoardHandshake, BoardNotices, BeginBatch,
         MarkerAcknowledged, TakeFrame, EndBatch, SendFrame, FrameAcknowledged,
         HostHandshake, HostNotices, ReceiveMarker, ReceiveFrame, WritePayload,
         WriteDescription, Acknowledge, BoardFails, HostFails, CloseBoard,
         boardVars, vars
<1>3. b \in 0 .. boot'
  BY <1>1, <1>2 DEF ResetBoard, NewBoot, TypeOK
<1>4. hphase' = "down" => bound' = 0
  BY DEF OneBoot, Next, Producer, BoardStep, HostStep, StartCapture,
         PublishCapture, DiscardCapture, Connect, BoardHandshake, BoardNotices,
         BeginBatch, MarkerAcknowledged, TakeFrame, EndBatch, SendFrame,
         FrameAcknowledged, HostHandshake, HostNotices, ReceiveMarker,
         ReceiveFrame, WritePayload, WriteDescription, Acknowledge, BoardFails,
         HostFails, ResetBoard, NewBoot, CloseBoard, CloseHost, hostVars, vars
<1>5. CASE Connect
  <2>1. Transit' = {} /\ bound' = 0 /\ boot' = boot
    BY <1>5, FramesFacts DEF Connect, Transit, OneBoot, boardVars
  <2>2. boot' \in 0 .. boot'
    BY <2>1 DEF TypeOK
  <2>3. QED
    BY <1>4, <2>1, <2>2 DEF OneBoot
<1>6. CASE ~Connect
  <2>1. \A c \in Transit' : c.boot = b
    <3>1. CASE Transit' \subseteq Transit
      BY <1>1, <3>1
    <3>2. CASE SendFrame /\ Transit' \subseteq Transit \cup {CaptureOf(sending)}
      <4>1. bphase = "send" /\ sending \in InUse
        BY <3>2 DEF SendFrame, SlotOwners, TypeOK, InUse
      <4>2. CaptureOf(sending).boot = b
        BY <1>1, <4>1 DEF PoolContents, CaptureOf
      <4>3. QED
        BY <1>1, <3>2, <4>2
    <3>3. QED
      BY <3>1, <3>2, TransitStep
  <2>2. bphase' # "listen" => bphase # "listen" /\ boot' = boot
    BY <1>2, <1>6
    DEF Next, Producer, BoardStep, HostStep, StartCapture, PublishCapture,
        DiscardCapture, BoardHandshake, BoardNotices, BeginBatch,
        MarkerAcknowledged, TakeFrame, EndBatch, SendFrame, FrameAcknowledged,
        HostHandshake, HostNotices, ReceiveMarker, ReceiveFrame, WritePayload,
        WriteDescription, Acknowledge, BoardFails, HostFails, ResetBoard, NewBoot,
        CloseBoard, vars
  <2>3. bound' \in {0, b}
    <3>1. CASE ReceiveFrame
      <4>1. Head(toHost).cap \in Transit
        BY <3>1, FramesFacts DEF ReceiveFrame, Arrives, Transit, TypeOK
      <4>2. QED
        BY <1>1, <3>1, <4>1 DEF ReceiveFrame, CloseHost
    <3>2. CASE bound' \in {0, bound}
      BY <1>1, <3>2
    <3>3. ReceiveFrame \/ bound' \in {0, bound}
      BY DEF Next, Producer, BoardStep, HostStep, StartCapture, PublishCapture,
         DiscardCapture, Connect, BoardHandshake, BoardNotices, BeginBatch,
         MarkerAcknowledged, TakeFrame, EndBatch, SendFrame, FrameAcknowledged,
         HostHandshake, HostNotices, ReceiveMarker, WritePayload,
         WriteDescription, Acknowledge, BoardFails, HostFails, ResetBoard, NewBoot,
         CloseBoard, CloseHost, hostVars, vars
    <3>4. QED
      BY <3>1, <3>2, <3>3
  <2>4. QED
    BY <1>1, <1>3, <1>4, <2>1, <2>2, <2>3 DEF OneBoot
<1>7. QED
  BY <1>5, <1>6

-----------------------------------------------------------------------------
(* No capture leaves the pool before it is stored.                         *)

LEMMA InPoolDef == InPool = {CaptureOf(i) : i \in InUse}
  BY DEF InPool, InUse

(* The ACK that frees a slot proves that its capture is stored.            *)
LEMMA AcknowledgedIsStored ==
  ASSUME TypeOK, SlotOwners, History, Distinct, PoolContents, InTurn,
         HostProgress, AckMeansStored, FrameAcknowledged
  PROVE  sending \in InUse /\ CaptureOf(sending) \in described
<1>1. sending \in InUse
  BY DEF FrameAcknowledged, SlotOwners, TypeOK, InUse
<1>2. CaptureOf(sending) \in published
  BY <1>1 DEF PoolContents
<1>3. toBoard = Ack(CaptureOf(sending))
  BY DEF FrameAcknowledged, Expected
<1>4. /\ toBoard.kind = "ack"
      /\ toBoard.seq = CaptureOf(sending).seq
      /\ toBoard.crc = CaptureOf(sending).data
  BY <1>3 DEF Ack
<1>5. toBoard.seq # 0
  BY <1>2, <1>4 DEF History
<1>6. PICK c \in described : c.data = toBoard.crc
  BY <1>4, <1>5 DEF AckMeansStored
<1>7. c \in published
  BY DEF HostProgress, InTurn
<1>8. c = CaptureOf(sending)
  BY <1>2, <1>4, <1>6, <1>7 DEF Distinct
<1>9. QED
  BY <1>1, <1>8

(* What a step does to the captures in the pool.                           *)
LEMMA InPoolStep ==
  ASSUME TypeOK, SlotOwners, PoolContents, [Next]_vars
  PROVE  \/ InPool' = InPool /\ published' = published /\ boot' = boot
         \/ /\ PublishCapture
            /\ \E c : /\ c.boot = boot /\ c.seq = cycle
                      /\ published' = published \cup {c}
                      /\ InPool' = InPool \cup {c}
         \/ /\ FrameAcknowledged
            /\ InPool' = InPool \ {CaptureOf(sending)}
         \/ ResetBoard /\ InPool' = {}
<1>1. CASE PoolUnchanged
  <2>1. \A i \in InUse : CaptureOf(i)' = CaptureOf(i)
    BY <1>1 DEF PoolUnchanged, CaptureOf
  <2>2. InPool' = {CaptureOf(i)' : i \in InUse'}
    BY DEF InPool, InUse
  <2>3. QED
    BY <1>1, <2>1, <2>2, InPoolDef DEF PoolUnchanged
<1>2. CASE PublishCapture
  <2>1. PICK f \in Slot : f = filling /\ f \notin InUse /\ state[f] = "FILLING"
    BY <1>2 DEF PublishCapture, Publishable, TypeOK, SlotOwners, InUse
  <2> DEFINE c == [boot |-> boot, seq |-> cycle, data |-> data[f]]
  <2>2. InUse' = InUse \cup {f}
    BY <1>2, <2>1 DEF PublishCapture, Published, InUse, TypeOK
  <2>3. /\ meta'[f] = [boot |-> boot, seq |-> cycle]
        /\ \A i \in InUse : meta'[i] = meta[i]
        /\ data' = data
        /\ published' = published \cup {c}
    BY <1>2, <2>1 DEF PublishCapture, TypeOK, InUse
  <2>4. CaptureOf(f)' = c /\ \A i \in InUse : CaptureOf(i)' = CaptureOf(i)
    BY <2>3 DEF CaptureOf
  <2>5. InPool' = {CaptureOf(i)' : i \in InUse'}
    BY DEF InPool, InUse
  <2>6. c.boot = boot /\ c.seq = cycle
    OBVIOUS
  <2> HIDE DEF c
  <2>7. InPool' = InPool \cup {c}
    BY <2>2, <2>4, <2>5, InPoolDef
  <2>8. QED
    BY <1>2, <2>3, <2>6, <2>7
<1>3. CASE FrameAcknowledged
  <2>1. sending \in InUse
    BY <1>3 DEF FrameAcknowledged, SlotOwners, TypeOK, InUse
  <2>2. InUse' = InUse \ {sending}
    BY <1>3 DEF FrameAcknowledged, Finished, SlotOwners, InUse, TypeOK
  <2>3. \A i \in InUse : CaptureOf(i)' = CaptureOf(i)
    BY <1>3 DEF FrameAcknowledged, CaptureOf
  <2>4. \A i \in InUse : i # sending => CaptureOf(i) # CaptureOf(sending)
    <3>1. \A i \in InUse : CaptureOf(i).seq = meta[i].seq
      BY DEF CaptureOf
    <3>2. QED
      BY <2>1, <3>1 DEF PoolContents
  <2>5. InPool' = {CaptureOf(i)' : i \in InUse'}
    BY DEF InPool, InUse
  <2>6. InPool' = InPool \ {CaptureOf(sending)}
    BY <2>1, <2>2, <2>3, <2>4, <2>5, InPoolDef
  <2>7. QED
    BY <1>3, <2>6
<1>4. CASE ResetBoard
  BY <1>4 DEF ResetBoard, NewBoot, InPool
<1>5. QED
  BY <1>1, <1>2, <1>3, <1>4, PoolStep

LEMMA NoCaptureLostStep ==
  ASSUME TypeOK, SlotOwners, History, Distinct, PoolContents, InTurn,
         HostProgress, AckMeansStored, NoCaptureLost, [Next]_vars
  PROVE  NoCaptureLost'
<1>1. described \subseteq described'
  BY DiskStep
<1>2. CASE InPool' = InPool /\ published' = published /\ boot' = boot
  BY <1>1, <1>2 DEF NoCaptureLost
<1>3. CASE PublishCapture /\ \E c : /\ c.boot = boot /\ c.seq = cycle
                                    /\ published' = published \cup {c}
                                    /\ InPool' = InPool \cup {c}
  <2>1. boot' = boot
    BY <1>3 DEF PublishCapture
  <2>2. QED
    BY <1>1, <1>3, <2>1 DEF NoCaptureLost
<1>4. CASE FrameAcknowledged /\ InPool' = InPool \ {CaptureOf(sending)}
  <2>1. published' = published /\ boot' = boot
    BY <1>4 DEF FrameAcknowledged
  <2>2. CaptureOf(sending) \in described
    BY <1>4, AcknowledgedIsStored
  <2>3. QED
    BY <1>1, <1>4, <2>1, <2>2 DEF NoCaptureLost
<1>5. CASE ResetBoard
  <2>1. published' = published /\ \A c \in published : c.boot # boot'
    BY <1>5 DEF ResetBoard, NewBoot, History, TypeOK, Capture
  <2>2. QED
    BY <2>1 DEF NoCaptureLost
<1>6. QED
  BY <1>2, <1>3, <1>4, <1>5, InPoolStep

-----------------------------------------------------------------------------
(* The theorems.                                                           *)

LEMMA InitInv == Init => Inv
<1> SUFFICES ASSUME Init PROVE Inv
  OBVIOUS
<1>1. TypeOK
  BY InitType
<1>2. InUse = {} /\ Transit = {}
  BY FramesFacts DEF Init, InUse, Transit
<1>3. SlotOwners /\ History
  BY SlotFacts DEF Init, SlotOwners, History
<1>4. Distinct /\ PoolContents /\ InTurn /\ HostProgress /\ NoCaptureLost
  BY <1>2 DEF Init, Distinct, PoolContents, InTurn, HostProgress, NoCaptureLost
<1>5. AckMeansStored
  BY DEF Init, AckMeansStored, NoReply
<1>6. OneBoot
  <2>1. 0 \in 0 .. boot /\ bound = 0 /\ bphase = "listen"
    BY DEF Init
  <2>2. QED
    BY <1>2, <2>1 DEF OneBoot
<1>7. QED
  BY <1>1, <1>3, <1>4, <1>5, <1>6 DEF Inv

LEMMA InvStep == Inv /\ [Next]_vars => Inv'
  BY TypeStep, SlotOwnersStep, HistoryStep, PoolContentsStep, InTurnStep,
     HostProgressStep, AckMeansStoredStep, OneBootStep, NoCaptureLostStep
  DEF Inv

THEOREM Invariance == Spec => []Inv
  BY InitInv, InvStep, PTL DEF Spec

(* Types: every reachable state has the declared types, whatever the size  *)
(* of the pool.                                                            *)
THEOREM TypeCorrect == Spec => []TypeOK
<1>1. Inv => TypeOK
  BY DEF Inv
<1>2. QED
  BY <1>1, Invariance, PTL

(* The ACK discipline of serve(): a published capture of this boot is in   *)
(* the pool or on the disk, in every state of every run.                   *)
THEOREM NothingIsLost == Spec => []NoCaptureLost
<1>1. Inv => NoCaptureLost
  BY DEF Inv
<1>2. QED
  BY <1>1, Invariance, PTL

(* No slot is overwritten between its trigger and its ACK, so a stored     *)
(* capture is the one recorded under its name.                             *)
THEOREM NothingIsMixed == Spec => []StoredIntact
<1>1. Inv => StoredIntact
  BY DEF Inv, StoredIntact, HostProgress, InTurn, Distinct
<1>2. QED
  BY <1>1, Invariance, PTL

(* sonar_frames_take() sends the oldest first across batches and retries.  *)
THEOREM NothingOvertakes == Spec => []StoredInOrder
<1>1. Inv => StoredInOrder
  BY DEF Inv, StoredInOrder, InTurn, EarlierStored
<1>2. QED
  BY <1>1, Invariance, PTL

(* The host's conflict check and BootBoundStore never fire.                *)
THEOREM NothingIsRefused == Spec => []NeverRefused
<1>1. Inv => NeverRefused
  <2> SUFFICES ASSUME Inv, hphase = "up", Arrives("frame"), Conflicting(Head(toHost).cap)
               PROVE  FALSE
    BY DEF NeverRefused
  <2> DEFINE c == Head(toHost).cap
  <2>1. c \in Transit
    BY FramesFacts DEF Arrives, Transit, Inv, TypeOK
  <2>2. \A d \in payloads : d.boot = c.boot /\ d.seq = c.seq => d = c
    BY <2>1 DEF Inv, InTurn, Distinct
  <2>3. bound \in {0, c.boot}
    BY <2>1 DEF Inv, OneBoot
  <2>4. QED
    BY <2>2, <2>3 DEF Conflicting
<1>2. QED
  BY <1>1, Invariance, PTL

-----------------------------------------------------------------------------
(* Every step of the transfer is a step of CaptureDelivery or none.        *)
LEMMA DeliveryStep ==
  ASSUME Inv, [Next]_vars
  PROVE  [Delivery!Next]_<<published, InPool, described>>
<1> USE DEF Inv
<1>1. CASE InPool' = InPool /\ published' = published
  <2>1. CASE described' = described
    BY <1>1, <2>1
  <2>2. CASE WriteDescription /\ described' = described \cup {hrec}
    <3>1. hrec \in published /\ EarlierStored(hrec)
      BY <2>2 DEF WriteDescription, HostProgress
    <3>2. Delivery!Deliver(hrec)
      BY <1>1, <2>2, <3>1 DEF Delivery!Deliver, EarlierStored
    <3>3. QED
      BY <3>1, <3>2 DEF Delivery!Next
  <2>3. QED
    BY <2>1, <2>2, DiskStep
<1>2. CASE PublishCapture /\ \E c : /\ c.boot = boot /\ c.seq = cycle
                                    /\ published' = published \cup {c}
                                    /\ InPool' = InPool \cup {c}
  <2>1. PICK c : /\ c.boot = boot /\ c.seq = cycle
                 /\ published' = published \cup {c}
                 /\ InPool' = InPool \cup {c}
    BY <1>2
  <2>2. described' = described /\ filling # NoSlot
    BY <1>2 DEF PublishCapture, hostVars
  <2>3. \A d \in published : d.boot = c.boot => d.seq < c.seq
    BY <2>1, <2>2 DEF History
  <2>4. Delivery!Publish(c)
    BY <2>1, <2>2, <2>3 DEF Delivery!Publish
  <2>5. QED
    BY <2>1, <2>4 DEF Delivery!Next
<1>3. CASE FrameAcknowledged /\ InPool' = InPool \ {CaptureOf(sending)}
  <2>1. UNCHANGED <<published, described>>
    BY <1>3 DEF FrameAcknowledged, hostVars
  <2>2. CaptureOf(sending) \in described /\ CaptureOf(sending) \in InPool
    BY <1>3, AcknowledgedIsStored, InPoolDef
  <2>3. Delivery!Release(CaptureOf(sending))
    BY <1>3, <2>1, <2>2 DEF Delivery!Release
  <2>4. QED
    BY <2>2, <2>3 DEF Delivery!Next
<1>4. CASE ResetBoard /\ InPool' = {}
  <2>1. Delivery!Forget
    BY <1>4 DEF ResetBoard, NewBoot, hostVars, Delivery!Forget
  <2>2. QED
    BY <2>1 DEF Delivery!Next
<1>5. QED
  BY <1>1, <1>2, <1>3, <1>4, InPoolStep

(* The transfer implements CaptureDelivery: pending is what the pool holds, *)
(* delivered what has a description on the disk.                           *)
THEOREM Refinement == Spec => DeliverySpec
<1>1. Init => Delivery!Init
  BY DEF Init, Delivery!Init, InPool
<1>2. Inv /\ [Next]_vars => [Delivery!Next]_<<published, InPool, described>>
  BY DeliveryStep
<1>3. QED
  BY <1>1, <1>2, Invariance, PTL DEF Spec, DeliverySpec, Delivery!Spec
=============================================================================
