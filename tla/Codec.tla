-------------------------------- MODULE Codec --------------------------------
(***************************************************************************)
(* The start-up of the audio codec: the service of sonar_codec_service.c   *)
(* over the AXI IIC controller of sonar_codec_bus.c, joined by             *)
(* sonar_codec_board.c and polled by the experiment task until the service *)
(* is READY or in FAULT (sonar_experiment_coordinator.c).                  *)
(*                                                                         *)
(* The controller works on its own between any two register accesses of    *)
(* the driver; its behaviour is taken from what the driver expects of it.  *)
(* `elapsed` stands for now - phase_tick. Only one write is under way, so  *)
(* its token always matches and is left out. A GPIO update cannot fail     *)
(* after its initialization: a mute is always confirmed. An error on the   *)
(* bus fails the service at once, so that `terminal` is never looked at.   *)
(***************************************************************************)
EXTENDS Naturals

CONSTANTS
  Writes,                       \* SONAR_CODEC_WRITES
  VmidBefore,                   \* the write that waits for VMID, index 8
  PowerTicks, VmidTicks,        \* powerup_ticks, vmid_ticks
  WriteTicks                    \* write_timeout_ticks

ASSUME CodecAssumption ==
  /\ Writes \in Nat \ {0} /\ VmidBefore \in 1 .. Writes - 1
  /\ PowerTicks \in Nat \ {0} /\ VmidTicks \in Nat \ {0}
  /\ WriteTicks \in Nat \ {0}

VARIABLES
  speaker,                      \* the service
  bus,                          \* the driver of the controller
  iic,                          \* the controller and the codec behind it
  poll                          \* the task in sonar_speaker_board_poll

codecVars == <<speaker, bus, iic, poll>>

CodecMax(S) == CHOOSE n \in S : \A m \in S : m <= n
MaxElapsed == CodecMax({PowerTicks, VmidTicks, WriteTicks})

NewBus ==
  [active |-> FALSE, waiting |-> FALSE, quarantined |-> FALSE]

(* The controller: `fifo` words to send, `got` bytes of this write that the *)
(* codec has, `written` whole writes that it has, the interrupt bits of an  *)
(* error and of Bus Not Busy.                                               *)
NewIic(written) ==
  [phase |-> "IDLE", fifo |-> 0, got |-> 0, error |-> FALSE, bnb |-> FALSE,
   written |-> written]

(* Where the task is, the interrupt bits that it has read, and the ticks   *)
(* since it read `now`.                                                    *)
NoPoll == [at |-> "DELAY", error |-> FALSE, bnb |-> FALSE, late |-> 0]

(* sonar_speaker_board_init: muted, the bus reset.                         *)
CodecInit ==
  /\ speaker = [state |-> "OFF", phase |-> "WAIT_POWER", elapsed |-> 0,
                index |-> 0, owned |-> FALSE, output |-> FALSE]
  /\ bus = NewBus /\ iic = NewIic(0) /\ poll = NoPoll

-----------------------------------------------------------------------------
(* The driver *)

BusBusy == iic.phase # "IDLE"
StatusIdle == ~BusBusy /\ iic.fifo = 0          \* SR = 0xc0

(* sonar_codec_bus_abort: a reset, or a bus that stays held.               *)
BusAborts ==
  {[ok |-> TRUE, bus |-> [bus EXCEPT !.active = FALSE],
    iic |-> NewIic(iic.written)],
   [ok |-> FALSE, bus |-> [bus EXCEPT !.quarantined = TRUE],
    iic |-> [NewIic(iic.written) EXCEPT !.phase = "STUCK"]]}

(* sonar_codec_bus_write: every interrupt cleared, the address queued.     *)
Writable(b) == ~b.active /\ ~b.quarantined /\ StatusIdle
Claimed(b) == [b EXCEPT !.active = TRUE, !.waiting = TRUE]
Addressed(c) == [c EXCEPT !.error = FALSE, !.bnb = FALSE, !.fifo = 1]

(* Variant with a bug: a Bus Not Busy from before the START is kept.       *)
KeptBnb(c) == c

ClearedBnb(c) == [c EXCEPT !.bnb = FALSE]

-----------------------------------------------------------------------------
(* The service *)

(* fail, always of a write that was given to the bus: mute, and take the   *)
(* bus back.                                                               *)
SpeakerFails ==
  \E a \in BusAborts :
    /\ bus' = a.bus /\ iic' = a.iic
    /\ speaker' = [speaker EXCEPT !.state = "FAULT", !.output = FALSE,
                                  !.owned = ~a.ok]

(* issue_write of write number index, by a task that read `now` some ticks *)
(* ago. A write that the driver does not take is a failure.                *)
IssueWrite(index, b, late) ==
  /\ Writable(b)
  /\ speaker' = [speaker EXCEPT !.phase = "WAIT_ACK", !.elapsed = late,
                                !.index = index, !.owned = TRUE]
  /\ bus' = Claimed(b) /\ iic' = Addressed(iic)

(* sonar_speaker_begin                                                     *)
CodecBegin ==
  /\ speaker.state = "OFF"
  /\ speaker' = [speaker EXCEPT !.state = "CONFIGURING"]
  /\ UNCHANGED <<bus, iic, poll>>

(* Variant with a bug: a write that is never acknowledged is waited for.   *)
NeverLate == FALSE

WriteLate == speaker.phase = "WAIT_ACK" /\ speaker.elapsed >= WriteTicks

Powered ==
  \/ speaker.phase = "WAIT_POWER" /\ speaker.elapsed >= PowerTicks
  \/ speaker.phase = "WAIT_VMID" /\ speaker.elapsed >= VmidTicks

(* sonar_speaker_board_poll: first sonar_speaker_poll.                     *)
PollSpeaker ==
  /\ speaker.state = "CONFIGURING" /\ poll.at = "DELAY"
  /\ poll' = [NoPoll EXCEPT !.at = "IRQ"]
  /\ \/ WriteLate /\ SpeakerFails
     \/ Powered /\ Writable(bus) /\ IssueWrite(speaker.index, bus, 0)
     \/ Powered /\ ~Writable(bus) /\ SpeakerFails
     \/ ~WriteLate /\ ~Powered /\ UNCHANGED <<speaker, bus, iic>>

(* sonar_codec_bus_event: the interrupts are read, then the status.        *)
ReadIrq ==
  /\ poll.at = "IRQ"
  /\ poll' = IF bus.active
             THEN [poll EXCEPT !.at = "STATUS", !.error = iic.error,
                               !.bnb = iic.bnb]
             ELSE NoPoll
  /\ UNCHANGED <<speaker, bus, iic>>

(* An error ends the write: the service fails.                             *)
ReadError ==
  /\ poll.at = "STATUS" /\ poll.error
  /\ poll' = NoPoll /\ SpeakerFails

(* The START has made the bus busy: the two bytes can be queued.           *)
ReadBusy ==
  /\ poll.at = "STATUS" /\ ~poll.error /\ bus.waiting
  /\ poll' = IF BusBusy THEN [poll EXCEPT !.at = "QUEUE"] ELSE NoPoll
  /\ UNCHANGED <<speaker, bus, iic>>

QueueBytes ==
  /\ poll.at = "QUEUE"
  /\ iic' = [ClearedBnb(iic) EXCEPT !.fifo = @ + 2]
  /\ bus' = [bus EXCEPT !.waiting = FALSE]
  /\ poll' = NoPoll /\ UNCHANGED speaker

(* Both bytes sent and the bus free: sonar_speaker_event goes on with the  *)
(* next write, or waits for VMID, or is READY.                             *)
Acknowledged ==
  LET free == [bus EXCEPT !.active = FALSE]
      index == speaker.index + 1
      done == [speaker EXCEPT !.index = index, !.owned = FALSE]
  IN \/ /\ index = Writes
        /\ speaker' = [done EXCEPT !.state = "READY"]
        /\ bus' = free /\ UNCHANGED iic
     \/ /\ index = VmidBefore
        /\ speaker' = [done EXCEPT !.phase = "WAIT_VMID", !.elapsed = poll.late]
        /\ bus' = free /\ UNCHANGED iic
     \/ index \notin {VmidBefore, Writes} /\ IssueWrite(index, free, poll.late)

ReadDone ==
  /\ poll.at = "STATUS" /\ ~poll.error /\ ~bus.waiting
  /\ poll' = NoPoll
  /\ IF poll.bnb /\ iic.fifo = 0 /\ ~BusBusy THEN Acknowledged
     ELSE UNCHANGED <<speaker, bus, iic>>

(* sonar_speaker_enable, at a trigger and at a stop.                       *)
SpeakerEnable ==
  /\ speaker.state = "READY"
  /\ \E enabled \in BOOLEAN : speaker' = [speaker EXCEPT !.output = enabled]
  /\ UNCHANGED <<bus, iic, poll>>

-----------------------------------------------------------------------------
(* The controller and the codec. Bus Not Busy is latched whenever the bus  *)
(* is idle; an error ends with the release of the bus, and the controller  *)
(* sends nothing more before its interrupt is cleared or it is reset.      *)

IicDoes(c) == iic' = c /\ UNCHANGED <<speaker, bus, poll>>

Latch == iic.phase = "IDLE" /\ ~iic.bnb /\ IicDoes([iic EXCEPT !.bnb = TRUE])

SendStart ==
  /\ iic.phase = "IDLE" /\ iic.fifo > 0 /\ ~iic.error
  /\ IicDoes([iic EXCEPT !.phase = "ADDRESS", !.fifo = @ - 1, !.got = 0])

AddressTaken ==
  iic.phase = "ADDRESS" /\ IicDoes([iic EXCEPT !.phase = "BYTES"])

ByteTaken ==
  /\ iic.phase = "BYTES" /\ iic.got < 2 /\ iic.fifo > 0
  /\ IicDoes([iic EXCEPT !.got = @ + 1, !.fifo = @ - 1])

SendStop ==
  /\ iic.phase = "BYTES" /\ iic.got = 2
  /\ IicDoes([iic EXCEPT !.phase = "IDLE", !.bnb = TRUE, !.written = @ + 1])

(* No acknowledgment, of the address or of the byte that is sent next.     *)
Nack ==
  /\ iic.phase = "ADDRESS" \/ (iic.phase = "BYTES" /\ iic.got < 2 /\ iic.fifo > 0)
  /\ \E fifo \in {0, iic.fifo} :
       IicDoes([iic EXCEPT !.phase = "NACKED", !.error = TRUE, !.fifo = fifo])

Release ==
  /\ iic.phase = "NACKED"
  /\ IicDoes([iic EXCEPT !.phase = "IDLE", !.bnb = TRUE])

(* The codec, or a fault, holds an idle bus.                               *)
Hold ==
  iic.phase = "IDLE" /\ iic.fifo = 0 /\ IicDoes([iic EXCEPT !.phase = "STUCK"])

Controller ==
  \/ Latch \/ SendStart \/ AddressTaken \/ ByteTaken \/ SendStop
  \/ Nack \/ Release \/ Hold

(* A tick of the clock, also while the task is between two accesses.       *)
CodecTick ==
  /\ speaker.state = "CONFIGURING" /\ speaker.elapsed < MaxElapsed
  /\ speaker' = [speaker EXCEPT !.elapsed = @ + 1]
  /\ poll' = [poll EXCEPT !.late = IF poll.at = "DELAY" THEN 0 ELSE @ + 1]
  /\ UNCHANGED <<bus, iic>>

CodecTask ==
  \/ CodecBegin \/ PollSpeaker \/ ReadIrq \/ ReadError \/ ReadBusy \/ QueueBytes
  \/ ReadDone

CodecNext == CodecTask \/ SpeakerEnable \/ Controller \/ CodecTick

(* The experiment task polls after every tick; the controller may hang.    *)
CodecFairness == WF_codecVars(CodecTask) /\ WF_codecVars(CodecTick)

CodecSpec == CodecInit /\ [][CodecNext]_codecVars /\ CodecFairness

-----------------------------------------------------------------------------
(* Properties *)

(* Every variable has its type.                                            *)
CodecTypeOK ==
  /\ speaker \in [state : {"OFF", "CONFIGURING", "READY", "FAULT"},
                   phase : {"WAIT_POWER", "WAIT_ACK", "WAIT_VMID"},
                   elapsed : 0 .. MaxElapsed, index : 0 .. Writes,
                   owned : BOOLEAN, output : BOOLEAN]
  /\ bus \in [active : BOOLEAN, waiting : BOOLEAN, quarantined : BOOLEAN]
  /\ iic \in [phase : {"IDLE", "ADDRESS", "BYTES", "NACKED", "STUCK"},
               fifo : Nat, got : 0 .. 2, error : BOOLEAN, bnb : BOOLEAN,
               written : Nat]
  /\ poll \in [at : {"DELAY", "IRQ", "STATUS", "QUEUE"}, error : BOOLEAN,
                bnb : BOOLEAN, late : 0 .. MaxElapsed]

(* What counts as acknowledged has reached the codec, although the         *)
(* interrupt and the status register are read one after the other and a    *)
(* NACK may come in between: the output is switched on only behind a codec *)
(* that has every write.                                                   *)
WritesAreReal ==
  /\ speaker.index <= iic.written
  /\ speaker.output => iic.written = Writes
=============================================================================
