---------------------------- MODULE FrameTransfer ----------------------------
(***************************************************************************)
(* Captures on their way from the microphone buffers to the host's disk:   *)
(* the producing side of the frame pool (experiment task), the Ethernet    *)
(* task of sonar_ethernet.c that sends one record at a time and frees a    *)
(* slot only on a matching ACK, the TCP link that can break at any moment, *)
(* and the host receiver that makes a record durable before it sends the   *)
(* ACK. The board can reset and the host can crash between any two steps.  *)
(***************************************************************************)
EXTENDS FramePool, Sequences

CONSTANTS
  MaxSequence,                  \* UINT32_MAX of the cycle counter
  MaxBoot,                      \* bound: board boots explored
  MaxFaults                     \* bound: link breaks, host crashes, failures

ASSUME TransferAssumption ==
  /\ MaxSequence \in Nat /\ MaxBoot \in Nat /\ MaxFaults \in Nat

VARIABLES
  \* --- board RAM ---
  state, meta, data,            \* slot states, their metadata, the DDR buffers
  filling,                      \* the slot the experiment task records into
  cycle,                        \* c->cycle: sequence number of the last trigger
  boot,                         \* boot_id, a fresh one after every reset
  shot,                         \* how many recordings were ever made (history)
  bphase,                       \* where the Ethernet task is in serve()
  sending,                      \* slot in send_record(), or NoSlot
  through,                      \* last sequence number of the current batch
  \* --- the link ---
  toHost,                       \* the stream of records not yet read
  toBoard,                      \* the answer not yet read
  \* --- host ---
  hphase,                       \* where the receiver is in receive_record()
  hrec,                         \* the record it is storing
  bound,                        \* BootBoundStore.boot_id of this socket, 0 = None
  payloads, described,          \* durable: payload files, description files
  \* --- history and bounds ---
  published,                    \* every capture ever published
  faults

boardVars == <<state, meta, data, filling, cycle, boot, shot>>
hostVars == <<hphase, hrec, bound, payloads, described>>
vars == <<boardVars, bphase, sending, through, toHost, toBoard, hostVars,
          published, faults>>

-----------------------------------------------------------------------------
(* A capture is identified on the wire by the boot and sequence number of  *)
(* its header; `data' stands for the recorded samples, and for their CRC:  *)
(* two recordings never have the same.                                     *)
Capture == [boot : Nat, seq : Nat, data : Nat]
NoCapture == [boot |-> 0, seq |-> 0, data |-> 0]
CaptureOf(i) == [boot |-> meta[i].boot, seq |-> meta[i].seq, data |-> data[i]]
Sequence == [i \in Slot |-> meta[i].seq]

HostMessage == [kind : {"ready", "marker"}, cap : {NoCapture}]
               \cup [kind : {"frame"}, cap : Capture]
BoardMessage == [kind : {"none", "hello", "ack"}, seq : Nat, crc : Nat]
NoReply == [kind |-> "none", seq |-> 0, crc |-> 0]
Hello == [kind |-> "hello", seq |-> 0, crc |-> 0]
Record(kind, cap) == [kind |-> kind, cap |-> cap]
Ack(cap) == [kind |-> "ack", seq |-> cap.seq, crc |-> cap.data]

BoardPhase == {"listen", "hello", "batch", "marker", "take", "send", "ack"}
HostPhase == {"down", "hello", "up", "save", "describe", "ack"}

(* The answer serve() accepts in this phase: the hello, nothing between    *)
(* batches, and an ACK that repeats sequence number and payload CRC.       *)
Expected ==
  CASE bphase = "hello" -> Hello
    [] bphase = "marker" -> Ack(NoCapture)
    [] bphase = "ack" -> Ack(CaptureOf(sending))
    [] OTHER -> NoReply

(* Bytes written to a link whose other end is gone never arrive.           *)
SendToHost(m) == toHost' = IF hphase = "down" THEN <<>> ELSE Append(toHost, m)
SendToBoard(m) == toBoard' = IF bphase = "listen" THEN NoReply ELSE m

Arrives(kind) == toHost # <<>> /\ Head(toHost).kind = kind

-----------------------------------------------------------------------------
Init ==
  /\ state = [i \in Slot |-> "FREE"]
  /\ meta = [i \in Slot |-> [boot |-> 0, seq |-> 0]]
  /\ data = [i \in Slot |-> 0]
  /\ filling = NoSlot
  /\ cycle = 0
  /\ boot = 1
  /\ shot = 0
  /\ bphase = "listen"
  /\ sending = NoSlot
  /\ through = 0
  /\ toHost = <<>>
  /\ toBoard = NoReply
  /\ hphase = "down"
  /\ hrec = NoCapture
  /\ bound = 0
  /\ payloads = {}
  /\ described = {}
  /\ published = {}
  /\ faults = 0

-----------------------------------------------------------------------------
(* The experiment task.                                                    *)

(* capture(): take a slot, trigger, and let the DMA overwrite its buffer.  *)
(* A counter at its limit ends in SEQUENCE_EXHAUSTED, a full pool in       *)
(* waiting_for_buffer: neither starts a recording. One cancelled before    *)
(* its trigger gives the slot back within the call and is left out.        *)
StartCapture(i) ==
  /\ filling = NoSlot
  /\ cycle < MaxSequence
  /\ FirstFree(state, i)
  /\ state' = Acquired(state, i)
  /\ data' = [data EXCEPT ![i] = shot + 1]
  /\ shot' = shot + 1
  /\ filling' = i
  /\ cycle' = cycle + 1
  /\ UNCHANGED <<meta, boot, bphase, sending, through, toHost, toBoard,
                 hostVars, published, faults>>

(* RX and TX complete: the metadata is stored and the slot is READY.       *)
PublishCapture ==
  /\ filling # NoSlot
  /\ Publishable(state, filling)
  /\ meta' = [meta EXCEPT ![filling] = [boot |-> boot, seq |-> cycle]]
  /\ state' = Published(state, filling)
  /\ published' = published \cup
       {[boot |-> boot, seq |-> cycle, data |-> data[filling]]}
  /\ filling' = NoSlot
  /\ UNCHANGED <<data, cycle, boot, shot, bphase, sending, through, toHost,
                 toBoard, hostVars, faults>>

(* A stopped run drains the recording and drops it: the sequence number is *)
(* used up, the slot is free again.                                        *)
DiscardCapture ==
  /\ filling # NoSlot
  /\ state' = [state EXCEPT ![filling] = "FREE"]
  /\ filling' = NoSlot
  /\ UNCHANGED <<meta, data, cycle, boot, shot, bphase, sending, through,
                 toHost, toBoard, hostVars, published, faults>>

-----------------------------------------------------------------------------
(* Connections.                                                            *)

(* The host connects and sends SONAR3 while the board sits in accept(). A  *)
(* host that connects earlier waits in the listen backlog.                 *)
Connect ==
  /\ bphase = "listen"
  /\ hphase = "down"
  /\ bphase' = "hello"
  /\ hphase' = "hello"
  /\ toBoard' = Hello
  /\ toHost' = <<>>
  /\ UNCHANGED <<boardVars, sending, through, hrec, bound, payloads,
                 described, published, faults>>

BoardHandshake ==
  /\ bphase = "hello"
  /\ toBoard = Expected
  /\ toBoard' = NoReply
  /\ SendToHost(Record("ready", NoCapture))
  /\ bphase' = "batch"
  /\ UNCHANGED <<boardVars, sending, through, hostVars, published, faults>>

HostHandshake ==
  /\ hphase = "hello"
  /\ Arrives("ready")
  /\ toHost' = Tail(toHost)
  /\ hphase' = "up"
  /\ UNCHANGED <<boardVars, bphase, sending, through, toBoard, hrec, bound,
                 payloads, described, published, faults>>

(* serve() returns: a frame in flight goes back to READY, the socket is    *)
(* closed. What the host has not read yet may still reach it.              *)
CloseBoard ==
  /\ state' = IF sending = NoSlot THEN state
              ELSE Finished(state, sending, FALSE)
  /\ sending' = NoSlot
  /\ through' = 0
  /\ bphase' = "listen"
  /\ toBoard' = NoReply
  /\ UNCHANGED <<meta, data, filling, cycle, boot, shot, hostVars, published>>

(* The peer is gone (read or write fails, the peek between batches returns *)
(* 0), or it has sent something else.                                      *)
BoardNotices ==
  /\ bphase \in {"hello", "batch", "marker", "ack"}
  /\ IF toBoard = NoReply THEN hphase = "down" ELSE toBoard # Expected
  /\ CloseBoard
  /\ UNCHANGED <<toHost, faults>>

(* The record deadline expires or the socket fails although the host is    *)
(* there, or PDM-to-WAV processing fails.                                  *)
BoardFails ==
  /\ bphase \in {"hello", "batch", "marker", "send", "ack"}
  /\ faults < MaxFaults
  /\ faults' = faults + 1
  /\ CloseBoard
  /\ toHost' \in {toHost, <<>>}

(* The receive loop drops the socket and the store bound to it.            *)
CloseHost ==
  /\ hphase' = "down"
  /\ hrec' = NoCapture
  /\ bound' = 0

(* The receiver sees the end of the stream after the last record in it.    *)
HostNotices ==
  /\ hphase \in {"hello", "up"}
  /\ bphase = "listen"
  /\ toHost = <<>>
  /\ CloseHost
  /\ UNCHANGED <<boardVars, bphase, sending, through, toHost, toBoard,
                 payloads, described, published, faults>>

(* The receiver fails or the PC crashes, anywhere, also between the two    *)
(* files of one capture. An ACK already written may still arrive.          *)
HostFails ==
  /\ hphase # "down"
  /\ faults < MaxFaults
  /\ faults' = faults + 1
  /\ CloseHost
  /\ toHost' = <<>>
  /\ toBoard' \in {toBoard, NoReply}
  /\ UNCHANGED <<boardVars, bphase, sending, through, payloads, described,
                 published>>

-----------------------------------------------------------------------------
(* serve(): one batch.                                                     *)

(* The interval is over: remember the latest frame, send the batch marker. *)
BeginBatch(n) ==
  /\ bphase = "batch"
  /\ hphase # "down"
  /\ toBoard = NoReply
  /\ IsLatest(state, Sequence, n)
  /\ through' = n
  /\ SendToHost(Record("marker", NoCapture))
  /\ bphase' = "marker"
  /\ UNCHANGED <<boardVars, sending, toBoard, hostVars, published, faults>>

MarkerAcknowledged ==
  /\ bphase = "marker"
  /\ toBoard = Expected
  /\ toBoard' = NoReply
  /\ bphase' = "take"
  /\ UNCHANGED <<boardVars, sending, through, toHost, hostVars, published,
                 faults>>

TakeFrame(i) ==
  /\ bphase = "take"
  /\ OldestSendable(state, Sequence, through, i)
  /\ state' = Taken(state, i)
  /\ sending' = i
  /\ bphase' = "send"
  /\ UNCHANGED <<meta, data, filling, cycle, boot, shot, through, toHost,
                 toBoard, hostVars, published, faults>>

EndBatch ==
  /\ bphase = "take"
  /\ \A i \in Slot : ~Sendable(state, Sequence, through, i)
  /\ bphase' = "batch"
  /\ through' = 0
  /\ UNCHANGED <<boardVars, sending, toHost, toBoard, hostVars, published,
                 faults>>

(* send_record(): the WAV is made from the DDR buffer now, not at publish. *)
SendFrame ==
  /\ bphase = "send"
  /\ SendToHost(Record("frame", CaptureOf(sending)))
  /\ bphase' = "ack"
  /\ UNCHANGED <<boardVars, sending, through, toBoard, hostVars, published,
                 faults>>

FrameAcknowledged ==
  /\ bphase = "ack"
  /\ toBoard = Expected
  /\ state' = Finished(state, sending, TRUE)
  /\ sending' = NoSlot
  /\ bphase' = "take"
  /\ toBoard' = NoReply
  /\ UNCHANGED <<meta, data, filling, cycle, boot, shot, through, toHost,
                 hostVars, published, faults>>

-----------------------------------------------------------------------------
(* receive_record() and the capture store.                                 *)

(* Variant with a bug: a repetition counts as a conflict.                  *)
NameTaken(c) ==
  \/ \E d \in payloads : d.boot = c.boot /\ d.seq = c.seq
  \/ bound # 0 /\ bound # c.boot

(* A second recording under the same name, or one of another boot on this  *)
(* socket, is refused: the socket is closed without an ACK.                *)
Conflicting(c) ==
  \/ \E d \in payloads : d.boot = c.boot /\ d.seq = c.seq /\ d.data # c.data
  \/ bound # 0 /\ bound # c.boot

ReceiveMarker ==
  /\ hphase = "up"
  /\ Arrives("marker")
  /\ toHost' = Tail(toHost)
  /\ hrec' = Head(toHost).cap
  /\ hphase' = "ack"
  /\ UNCHANGED <<boardVars, bphase, sending, through, toBoard, bound,
                 payloads, described, published, faults>>

ReceiveFrame ==
  /\ hphase = "up"
  /\ Arrives("frame")
  /\ toHost' = Tail(toHost)
  /\ IF Conflicting(Head(toHost).cap)
     THEN CloseHost
     ELSE /\ hrec' = Head(toHost).cap
          /\ bound' = Head(toHost).cap.boot
          /\ hphase' = "save"
  /\ UNCHANGED <<boardVars, bphase, sending, through, toBoard, payloads,
                 described, published, faults>>

(* CaptureStore.save: first the payload file, then its description, each   *)
(* flushed and renamed into place.                                         *)
WritePayload ==
  /\ hphase = "save"
  /\ payloads' = payloads \cup {hrec}
  /\ hphase' = "describe"
  /\ UNCHANGED <<boardVars, bphase, sending, through, toHost, toBoard, hrec,
                 bound, described, published, faults>>

WriteDescription ==
  /\ hphase = "describe"
  /\ described' = described \cup {hrec}
  /\ hphase' = "ack"
  /\ UNCHANGED <<boardVars, bphase, sending, through, toHost, toBoard, hrec,
                 bound, payloads, published, faults>>

Acknowledge ==
  /\ hphase = "ack"
  /\ SendToBoard(Ack(hrec))
  /\ IF bphase = "listen"
     THEN CloseHost
     ELSE /\ hphase' = "up"
          /\ hrec' = NoCapture
          /\ UNCHANGED bound
  /\ UNCHANGED <<boardVars, bphase, sending, through, toHost, payloads,
                 described, published, faults>>

-----------------------------------------------------------------------------
(* Variant with a bug: no identity after a reset.                          *)
NoBoot == 0

(* The laptop supplies a fresh boot identity after every reset.            *)
NewBoot == boot + 1

(* The watchdog or the operator resets the board and clears its RAM.       *)
ResetBoard ==
  /\ boot < MaxBoot
  /\ boot' = NewBoot
  /\ state' = [i \in Slot |-> "FREE"]
  /\ meta' = [i \in Slot |-> [boot |-> 0, seq |-> 0]]
  /\ filling' = NoSlot
  /\ cycle' = 0
  /\ bphase' = "listen"
  /\ sending' = NoSlot
  /\ through' = 0
  /\ toBoard' = NoReply
  /\ toHost' \in {toHost, <<>>}
  /\ UNCHANGED <<data, shot, hostVars, published, faults>>

BoardStep ==
  \/ BoardHandshake
  \/ BoardNotices
  \/ \E n \in {0} \cup {meta[i].seq : i \in Slot} : BeginBatch(n)
  \/ MarkerAcknowledged
  \/ \E i \in Slot : TakeFrame(i)
  \/ EndBatch
  \/ SendFrame
  \/ FrameAcknowledged

HostStep ==
  \/ HostHandshake
  \/ HostNotices
  \/ ReceiveMarker
  \/ ReceiveFrame
  \/ WritePayload
  \/ WriteDescription
  \/ Acknowledge

Producer ==
  \/ \E i \in Slot : StartCapture(i)
  \/ PublishCapture
  \/ DiscardCapture

Next ==
  \/ Producer
  \/ Connect
  \/ BoardStep
  \/ HostStep
  \/ BoardFails
  \/ HostFails
  \/ ResetBoard

Spec == Init /\ [][Next]_vars

(* The Ethernet task and the receiver keep running and the receiver keeps  *)
(* reconnecting; recordings, failures and resets are never promised.       *)
Fairness == WF_vars(BoardStep) /\ WF_vars(HostStep) /\ WF_vars(Connect)

FairSpec == Spec /\ Fairness

-----------------------------------------------------------------------------
(* The captures the board still holds.                                     *)
InPool ==
  {CaptureOf(i) : i \in {j \in Slot : state[j] \in {"READY", "SENDING"}}}

(* The types of all variables.                                             *)
TypeOK ==
  /\ state \in [Slot -> FrameState]
  /\ meta \in [Slot -> [boot : Nat, seq : Nat]]
  /\ data \in [Slot -> Nat]
  /\ filling \in Slot \cup {NoSlot}
  /\ cycle \in Nat /\ boot \in Nat \ {0} /\ shot \in Nat
  /\ bphase \in BoardPhase
  /\ sending \in Slot \cup {NoSlot}
  /\ through \in Nat
  /\ toHost \in Seq(HostMessage) /\ toBoard \in BoardMessage
  /\ hphase \in HostPhase /\ hrec \in Capture /\ bound \in Nat
  /\ payloads \in SUBSET Capture /\ described \in SUBSET Capture
  /\ published \in SUBSET Capture
  /\ faults \in Nat

(* sonar_ethernet.c promises "ACK required before buffer reuse": every     *)
(* capture published in this boot is still in the pool or durably stored   *)
(* with its description on the host, whatever broke in between.            *)
NoCaptureLost ==
  \A c \in published : c.boot = boot => c \in InPool \/ c \in described

(* A stored capture is one that was published, with the samples recorded   *)
(* for that sequence number of that boot: no buffer is overwritten between *)
(* its trigger and its ACK, and every description has its payload.         *)
StoredIntact ==
  /\ described \subseteq payloads
  /\ payloads \subseteq published
  /\ \A c, d \in payloads : c.boot = d.boot /\ c.seq = d.seq => c = d

(* Recordings reach the disk in the order they were made: when one is      *)
(* stored, every earlier published one of that boot already is.            *)
StoredInOrder ==
  \A d \in payloads : \A c \in published :
    c.boot = d.boot /\ c.seq < d.seq => c \in described

(* The host never refuses a record as a conflicting duplicate: a refused   *)
(* one would stay in its slot and block the batch for ever.                *)
NeverRefused ==
  hphase = "up" /\ Arrives("frame") => ~Conflicting(Head(toHost).cap)

(* The capture with sequence number s of this boot is not stored yet.      *)
Awaited(s) == \E c \in published \ described : c.boot = boot /\ c.seq = s

(* Every published capture is eventually stored, unless the board resets:  *)
(* broken links, crashed hosts and failed conversions are retried.         *)
EventuallyStored == \A s \in 1 .. MaxSequence : Awaited(s) ~> ~Awaited(s)

(* An acquisition that waits in WAIT_BUFFER for a full pool is not stuck:  *)
(* a slot becomes free again.                                              *)
BufferComesBack == PoolFull(state) /\ filling = NoSlot ~> ~PoolFull(state)

(* The transfer implements the abstract delivery of captures.              *)
Delivery == INSTANCE CaptureDelivery WITH pending <- InPool, delivered <- described

DeliverySpec == Delivery!Spec
=============================================================================
