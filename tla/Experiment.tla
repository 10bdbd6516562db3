----------------------------- MODULE Experiment -----------------------------
(***************************************************************************)
(* The experiment task of sonar_experiment_coordinator.c with everything   *)
(* it drives: the measurement cycle, the microphone DMA, the transmitter,  *)
(* the speaker, the stepper and the frame pool. One iteration of its loop  *)
(* is split where another task, an interrupt or the hardware can act: the  *)
(* flags are read, a Stop is carried out, one control request and up to    *)
(* KeyBudget keys are handled, the motor is polled, a finished capture is  *)
(* published or dropped, the cycle advances, the tail reacts to it.        *)
(*                                                                         *)
(* Muting and the PL GPIO cannot fail once initialization has succeeded:   *)
(* the speaker stays READY and the shadow register merge only rejects bad  *)
(* masks. I2C to the motor, the DMA and the transmitter can.               *)
(***************************************************************************)
EXTENDS FramePool, MeasurementCycle, Scan360, Sequences

CONSTANTS
  Requests,                     \* the signed position counts users enter
  KeyQueue,                     \* length of the key queue, 64 in the code
  KeyBudget,                    \* keys handled per iteration, 16 in the code
  MaxTests                      \* bound: test identities prepared

ASSUME ExperimentAssumption ==
  /\ Requests \subseteq Int
  /\ KeyQueue \in Nat /\ KeyBudget \in Nat \ {0}
  /\ MaxTests \in Nat

VARIABLES
  \* --- shared with other tasks ---
  stop_requested, inhibited,    \* set by console and supervisor
  keys,                         \* the key queue
  slots,                        \* the frame pool
  \* --- owned by the experiment task ---
  pc, loc,                      \* where it is in the loop, its local variables
  c,                            \* the measurement cycle
  plan,                         \* scan360
  prompt,                       \* which number is being entered
  filling, metadata,            \* the slot being recorded and its metadata
  mic,                          \* sonar_mic_t.state
  tx, txFault,                  \* sonar_tx_control.c: phase and latched fault
  audio,                        \* a valid audio configuration is applied
  running,                      \* sonar_experiment_running
  test, armed,                  \* sonar_identity.c: test_id, prepared
  motor, cause,                 \* stepper state, fault_reason # NULL
  target,                       \* stepper target, relative to the run's start
  \* --- hardware and clock ---
  dma, playing, speaker, turning,
  travel,                       \* plate position relative to the run's start
  expired,                      \* deadlines that have passed
  \* --- history and bounds ---
  frames,                       \* recordings published in this run
  cut,                          \* was this recording stopped, or a Stop tried?
  since,                        \* outputs started since a Stop was requested
  stale                         \* last test that a Stop or a run used up

shared == <<stop_requested, inhibited, keys>>
cycleVars == <<c, plan, prompt, running>>
captureVars == <<filling, metadata, mic, dma>>
outputVars == <<tx, txFault, playing, speaker, motor, cause, turning>>
moveVars == <<target, travel>>
identityVars == <<test, armed, audio>>
history == <<frames, cut, since, stale>>
vars == <<shared, slots, pc, loc, cycleVars, captureVars, outputVars, moveVars,
          identityVars, expired, history>>

-----------------------------------------------------------------------------
Phase ==
  {"top", "stop", "control", "keys", "motor", "capture", "poll", "trigger", "tail"}

(* stop, fatal: the flags taken at the top; captured: a capture was        *)
(* finished in this iteration; before: the cycle state the poll started    *)
(* from; budget: keys still allowed.                                       *)
Locals ==
  [stop : BOOLEAN, fatal : BOOLEAN, captured : BOOLEAN,
   before : CycleState, budget : 0 .. KeyBudget]

(* What the metadata of a recording says about it: position and test.      *)
Metadata == [index : 0 .. MaxPositions, test : 0 .. MaxTests]
NoMetadata == [index |-> 0, test |-> 0]

NoStop == -1

(* "line" is a number with its Enter, valid or not.                        *)
Key == {"n", "v", "line", "r"}

(* Between iterations the locals of the last one are gone.                 *)
NewIteration ==
  [stop |-> FALSE, fatal |-> FALSE, captured |-> FALSE,
   before |-> "IDLE", budget |-> 0]

Idle == IsIdle(c)
Energized == motor \in {"MOVING", "DONE"}
TxDone == ~txFault /\ tx \in {"completed", "aborted"}
(* Variant with a bug: the inhibit flag is only taken as a Stop.           *)
UnhealthyHardware == txFault \/ motor = "FAULT" \/ mic = "FAULT"

Unhealthy == loc.fatal \/ txFault \/ motor = "FAULT" \/ mic = "FAULT"

Goto(phase) == pc' = phase

-----------------------------------------------------------------------------
Init ==
  /\ stop_requested = FALSE /\ inhibited = FALSE /\ keys = <<>>
  /\ slots = [i \in Slot |-> "FREE"]
  /\ pc = "top"
  /\ loc = NewIteration
  /\ c = NewCycle
  /\ plan = NoPlan
  /\ prompt = "none"
  /\ filling = NoSlot /\ metadata = NoMetadata
  /\ mic = "IDLE" /\ dma = "off"
  /\ tx = "idle" /\ txFault = FALSE /\ playing = FALSE /\ speaker = FALSE
  /\ audio = FALSE
  /\ running = FALSE
  /\ test = 0 /\ armed = FALSE
  /\ motor = "IDLE" /\ cause = FALSE /\ turning = FALSE
  /\ target = 0 /\ travel = 0
  /\ expired = {}
  /\ frames = <<>> /\ cut = "none" /\ since = NoStop /\ stale = 0

-----------------------------------------------------------------------------
(* Output callbacks.                                                       *)

(* sonar_stepper_stop: halt, disable, confirm. On a broken bus the motor   *)
(* may or may not have stopped.                                            *)
StepperStop(ok) ==
  IF ok
  THEN /\ motor' = IF cause THEN "FAULT" ELSE "IDLE"
       /\ turning' = FALSE
  ELSE /\ motor' = "FAULT"
       /\ turning' \in {turning, FALSE}

(* sonar_chirp_abort: mute and wait until the hardware has finished; a     *)
(* transmitter that stays active past the deadline latches the fault.      *)
ChirpAbort(ok) ==
  IF ok
  THEN /\ ~txFault
       /\ playing => tx = "running"
       /\ tx' = "aborted"
       /\ playing' = FALSE
       /\ UNCHANGED txFault
  ELSE /\ txFault \/ playing
       /\ txFault' = TRUE
       /\ \/ playing' = FALSE /\ tx' = "idle"
          \/ playing' = playing /\ tx' = IF tx = "prepared" THEN "idle" ELSE tx

(* sonar_identity_disarm, sonar_identity_consume_test: the prepared test   *)
(* cannot be used any more. Variant with a bug: it can.                    *)
StillArmed == stale' = test /\ UNCHANGED armed

Disarm == stale' = test /\ armed' = FALSE

(* stop_outputs: disarm the test, mute, stop the motor, abort the          *)
(* transmission; every one is attempted whatever the others answer.        *)
StopOutputs(ok) ==
  /\ Disarm
  /\ speaker' = FALSE
  /\ \E stopped, aborted \in BOOLEAN :
       /\ StepperStop(stopped)
       /\ ChirpAbort(aborted)
       /\ ok = (stopped /\ aborted)

(* Variant with a bug: the outputs are left alone.                         *)
FailQuietly ==
  /\ c' = CycleFailed(c)
  /\ UNCHANGED <<armed, stale, speaker, motor, turning, tx, txFault, playing>>

(* fail() in the cycle: the state is FAULT before the outputs are stopped, *)
(* and the answer is ignored.                                              *)
FailCycle ==
  /\ c' = CycleFailed(c)
  /\ \E ok \in BOOLEAN : StopOutputs(ok)

(* fail() in the microphone: reset the DMA, which may not end.             *)
MicFails ==
  /\ mic' = "FAULT"
  /\ dma' \in {"off", dma}

-----------------------------------------------------------------------------
(* One iteration of the loop.                                              *)

TakeFlags ==
  /\ pc = "top"
  /\ loc' = [stop |-> stop_requested, fatal |-> inhibited, captured |-> FALSE,
             before |-> c.state, budget |-> KeyBudget]
  /\ stop_requested' = FALSE
  /\ Goto(IF stop_requested THEN "stop" ELSE "control")
  /\ UNCHANGED <<inhibited, keys, slots, cycleVars, captureVars, outputVars,
                 moveVars, identityVars, expired, history>>

(* Every key typed before the Stop was carried out is dropped with it.     *)
StopRun ==
  /\ pc = "stop"
  /\ \E ok \in BOOLEAN :
       /\ StopOutputs(ok)
       /\ c' = CycleStopped(c, ok)
       /\ cut' = IF filling = NoSlot THEN cut
                 ELSE IF ok THEN "stopped"
                 ELSE IF cut = "none" THEN "failed" ELSE cut
  /\ prompt' = "none"
  /\ keys' = <<>>
  /\ Goto("control")
  /\ UNCHANGED <<stop_requested, inhibited, slots, loc, plan, running,
                 captureVars, cause, moveVars, test, audio, expired, frames,
                 since>>

(* The end of a run unlocks the configuration.                             *)
ReleaseRun == running' = IF Idle /\ filling = NoSlot THEN FALSE ELSE running

(* sonar_control_poll with no request, or one that changes nothing here.   *)
ControlIdle ==
  /\ pc = "control"
  /\ ReleaseRun
  /\ Goto("keys")
  /\ UNCHANGED <<shared, slots, loc, c, plan, prompt, captureVars, outputVars,
                 moveVars, identityVars, expired, history>>

Mutable == ~loc.fatal /\ ~loc.stop /\ Idle /\ filling = NoSlot

(* PREPARE_TEST with a fresh test identity for the applied configuration.  *)
PrepareTest ==
  /\ pc = "control"
  /\ ReleaseRun
  /\ Mutable /\ ~running'
  /\ audio
  /\ test < MaxTests
  /\ test' = test + 1
  /\ armed' = TRUE
  /\ Goto("keys")
  /\ UNCHANGED <<shared, slots, loc, c, plan, prompt, captureVars, outputVars,
                 moveVars, audio, expired, history>>

(* APPLY: the transmitter takes the staged configuration, or refuses it    *)
(* and leaves none.                                                        *)
ApplyConfiguration ==
  /\ pc = "control"
  /\ ReleaseRun
  /\ Mutable /\ ~running'
  /\ armed' = FALSE
  /\ audio' = (~txFault /\ ~playing /\ tx \notin {"running", "prepared"})
  /\ tx' = IF audio' THEN "idle" ELSE tx
  /\ Goto("keys")
  /\ UNCHANGED <<shared, slots, loc, c, plan, prompt, captureVars, txFault,
                 playing, speaker, motor, cause, turning, moveVars, test,
                 expired, history>>

-----------------------------------------------------------------------------
(* Keys.                                                                   *)

TakeKey(k) ==
  /\ pc = "keys"
  /\ loc.budget > 0
  /\ keys # <<>>
  /\ Head(keys) = k
  /\ keys' = Tail(keys)
  /\ loc' = [loc EXCEPT !.budget = @ - 1]
  /\ UNCHANGED <<stop_requested, inhibited, slots, pc, captureVars, tx,
                 txFault, playing, speaker, expired>>

(* Nothing reads loc.stop and loc.budget after the keys. The poll of a     *)
(* motor that is not energized does nothing.                               *)
NoMoreKeys ==
  /\ pc = "keys"
  /\ keys = <<>> \/ loc.budget = 0
  /\ loc' = [loc EXCEPT !.stop = FALSE, !.budget = 0]
  /\ Goto(IF Energized THEN "motor" ELSE "capture")
  /\ UNCHANGED <<shared, slots, cycleVars, captureVars, outputVars,
                 moveVars, identityVars, expired, history>>

(* n or v opens a prompt when nothing runs; typed into a prompt it only    *)
(* makes the number invalid.                                               *)
OpenPrompt(k) ==
  /\ TakeKey(k)
  /\ prompt' = IF prompt = "none" /\ Idle THEN k ELSE prompt
  /\ UNCHANGED <<c, plan, running, motor, cause, turning, moveVars,
                 identityVars, history>>

(* A completed number: a signed position count ...                         *)
EnterPositions(request) ==
  /\ prompt = "n"
  /\ TakeKey("line")
  /\ prompt' = "none"
  /\ plan' = IF Configurable(request) THEN Configured(request) ELSE plan
  /\ UNCHANGED <<c, running, motor, cause, turning, moveVars, identityVars,
                 history>>

(* ... or a step divisor, which a disconnected motor cannot take: then it  *)
(* is stopped as far as possible and faulty from now on.                   *)
EnterDivisor ==
  /\ prompt = "v"
  /\ prompt' = "none"
  /\ TakeKey("line")
  /\ \/ UNCHANGED <<motor, cause, turning>>
     \/ motor = "IDLE" /\ motor' = "FAULT" /\ cause' = TRUE /\ turning' = turning
  /\ UNCHANGED <<c, plan, running, moveVars, identityVars, history>>

(* Digits and Enter without a prompt, r typed into a number.               *)
IgnoreKey ==
  /\ \/ prompt = "none" /\ TakeKey("line")
     \/ prompt # "none" /\ TakeKey("r")
  /\ UNCHANGED <<c, plan, prompt, running, motor, cause, turning, moveVars,
                 identityVars, history>>

CanStart ==
  ~loc.fatal /\ plan.positions # 0 /\ Idle /\ audio /\ ~running /\ armed

Run ==
  /\ prompt = "none"
  /\ TakeKey("r")
  /\ IF CanStart
     THEN /\ plan' = Begun(plan)
          /\ c' = CycleStarted(c)
          /\ Disarm
          /\ running' = TRUE
          /\ travel' = 0 /\ target' = 0
          /\ frames' = <<>>
          /\ since' = IF stop_requested THEN 0 ELSE NoStop
     ELSE UNCHANGED <<plan, c, armed, running, moveVars, frames, stale, since>>
  /\ UNCHANGED <<prompt, motor, cause, turning, test, audio, cut>>

-----------------------------------------------------------------------------
(* The motor, polled every 20 ms while it is energized.                    *)

MotorNotDue ==
  /\ pc = "motor"
  /\ Goto("capture")
  /\ UNCHANGED <<shared, slots, loc, cycleVars, captureVars, outputVars,
                 moveVars, identityVars, expired, history>>

MotorDone ==
  /\ pc = "motor"
  /\ motor = "MOVING" /\ ~turning
  /\ motor' = "DONE"
  /\ Goto("capture")
  /\ UNCHANGED <<shared, slots, loc, cycleVars, captureVars, tx, txFault,
                 playing, speaker, cause, turning, moveVars, identityVars,
                 expired, history>>

(* A missed keepalive, a bus or controller error, a wrong target, a late   *)
(* arrival: the stepper stops itself and stays faulty.                     *)
MotorFails ==
  /\ pc = "motor"
  /\ motor' = "FAULT" /\ cause' = TRUE
  /\ turning' \in {turning, FALSE}
  /\ Goto("capture")
  /\ UNCHANGED <<shared, slots, loc, cycleVars, captureVars, tx, txFault,
                 playing, speaker, moveVars, identityVars, expired, history>>

-----------------------------------------------------------------------------
(* The end of a recording.                                                 *)

Recording == filling # NoSlot /\ mic = "CAPTURING"

(* The terminal DMA event, then the deadline: a transfer that ended late,   *)
(* short or with an error is a fault.                                      *)
GoodEvent == Recording /\ dma = "done" /\ "rx" \notin expired
BadEvent == Recording /\ ~GoodEvent /\ (dma \in {"done", "error"} \/ "rx" \in expired)

(* poll_tx: completion is what the hardware says, the deadline only a      *)
(* fault.                                                                  *)
PollTx ==
  IF tx = "running" /\ ~playing
  THEN tx' = (IF txFault THEN "idle" ELSE "completed") /\ UNCHANGED txFault
  ELSE /\ txFault' = (txFault \/ (tx = "running" /\ "tx" \in expired))
       /\ UNCHANGED tx

AwaitCapture ==
  /\ pc = "capture"
  /\ \/ BadEvent /\ MicFails
     \/ GoodEvent /\ mic' = "READY" /\ dma' = "off"
     \/ ~BadEvent /\ ~GoodEvent /\ UNCHANGED <<mic, dma>>
  /\ PollTx
  /\ ~(filling # NoSlot /\ mic' = "READY" /\ TxDone')
  /\ Goto("poll")
  /\ UNCHANGED <<shared, slots, loc, cycleVars, filling, metadata, playing,
                 speaker, motor, cause, turning, moveVars, identityVars,
                 expired, history>>

(* Where the finished slot goes: a stopped recording is dropped, any other *)
(* one published. Variant with a bug: the dropped slot is not given back.  *)
DroppedForGood ==
  IF ~c.stopping /\ Publishable(slots, filling) THEN Published(slots, filling)
  ELSE slots

Disposed ==
  IF c.stopping THEN [slots EXCEPT ![filling] = "FREE"]
  ELSE IF Publishable(slots, filling) THEN Published(slots, filling)
  ELSE slots

(* The slot is kept until reception and transmission are both over.        *)
FinishCapture ==
  /\ pc = "capture"
  /\ filling # NoSlot
  /\ mic = "READY" \/ GoodEvent
  /\ PollTx
  /\ TxDone'
  /\ slots' = Disposed
  /\ frames' = IF c.stopping THEN frames
               ELSE Append(frames, [about |-> metadata, stopped |-> cut])
  /\ loc' = [loc EXCEPT !.captured = TRUE,
                        !.fatal = @ \/ (~c.stopping /\ ~Publishable(slots, filling))]
  /\ filling' = NoSlot
  /\ mic' = "IDLE" /\ dma' = "off"
  /\ Goto("poll")
  /\ UNCHANGED <<shared, cycleVars, metadata, playing, speaker, motor, cause,
                 turning, moveVars, identityVars, expired, cut, since, stale>>

-----------------------------------------------------------------------------
(* sonar_cycle_poll.                                                       *)

(* One case of the poll: the cycle is in `state' and nothing is wrong.     *)
Poll(state) ==
  /\ pc = "poll"
  /\ c.state = state
  /\ ~Unhealthy
  /\ loc' = [loc EXCEPT !.before = state]

(* What no poll and no callback of it changes.                             *)
pollUnchanged == <<shared, prompt, running, audio, test, frames>>

PollDormant ==
  /\ pc = "poll"
  /\ c.state = "FAULT" \/ (Idle /\ ~Unhealthy)
  /\ loc' = [loc EXCEPT !.before = c.state]
  /\ Goto("tail")
  /\ UNCHANGED <<shared, slots, cycleVars, captureVars, outputVars, moveVars,
                 identityVars, expired, history>>

(* PERIPHERAL_OR_HEALTH, in whatever state.                                *)
PollUnhealthy ==
  /\ pc = "poll"
  /\ c.state # "FAULT"
  /\ Unhealthy
  /\ FailCycle
  /\ loc' = [loc EXCEPT !.before = c.state]
  /\ Goto("tail")
  /\ UNCHANGED <<pollUnchanged, slots, plan, captureVars, cause, moveVars,
                 expired, cut, since>>

SequenceExhausted ==
  /\ Poll("WAIT_BUFFER")
  /\ c.cycle = MaxSequence
  /\ FailCycle
  /\ Goto("tail")
  /\ UNCHANGED <<pollUnchanged, slots, plan, captureVars, cause, moveVars,
                 expired, cut, since>>

(* capture(): no free slot, try again in the next iteration.               *)
WaitForBuffer ==
  /\ Poll("WAIT_BUFFER")
  /\ c.cycle # MaxSequence
  /\ PoolFull(slots)
  /\ Goto("tail")
  /\ UNCHANGED <<shared, slots, cycleVars, captureVars, outputVars, moveVars,
                 identityVars, expired, history>>

(* sonar_chirp_prepare refuses while anything is still being transmitted.  *)
CanPrepare ==
  audio /\ ~txFault /\ ~playing /\ tx \notin {"running", "prepared"}

(* capture(): take a slot and prepare the transmitter. A Stop that came in *)
(* before the check gives both back; one after the check comes too late.   *)
PrepareCapture ==
  /\ Poll("WAIT_BUFFER")
  /\ c.cycle # MaxSequence
  /\ \E i \in Slot :
       /\ FirstFree(slots, i)
       /\ IF ~CanPrepare
          THEN FailCycle /\ slots' = Acquired(slots, i) /\ filling' = i /\ Goto("tail")
          ELSE /\ UNCHANGED <<c, armed, speaker, stale, motor, turning,
                              txFault, playing>>
               /\ IF stop_requested \/ inhibited
                  THEN tx' = "aborted" /\ UNCHANGED <<slots, filling>> /\ Goto("tail")
                  ELSE /\ tx' = "prepared"
                       /\ slots' = Acquired(slots, i)
                       /\ filling' = i
                       /\ Goto("trigger")
  /\ UNCHANGED <<pollUnchanged, plan, metadata, mic, dma, cause, moveVars,
                 expired, cut, since>>

Counted == IF since = NoStop THEN NoStop ELSE since + 1

(* capture(): speaker on, DMA armed, the common trigger of transmitter and *)
(* receiver pulsed.                                                        *)
Trigger ==
  /\ pc = "trigger"
  /\ speaker' = TRUE
  /\ metadata' = [index |-> CaptureIndex(plan), test |-> test]
  /\ mic' = "CAPTURING" /\ dma' = "running"
  /\ tx' = "running" /\ playing' = TRUE
  /\ c' = CycleTriggered(c)
  /\ expired' = {}
  /\ cut' = "none"
  /\ since' = Counted
  /\ Goto("tail")
  /\ UNCHANGED <<pollUnchanged, slots, loc, plan, filling, txFault, motor,
                 cause, turning, moveVars, armed, stale>>

(* The DMA cannot be prepared or armed: nothing has been triggered. The    *)
(* slot stays with the microphone, because an arm that failed after a      *)
(* partial register write, and a reset that failed too, leave it running.  *)
TriggerFails ==
  /\ pc = "trigger"
  /\ metadata' = [index |-> CaptureIndex(plan), test |-> test]
  /\ mic' = "FAULT" /\ dma' \in {"off", "running"}
  /\ FailCycle
  /\ Goto("tail")
  /\ UNCHANGED <<pollUnchanged, slots, loc, plan, filling, cause, moveVars,
                 expired, cut, since>>

AcquirePoll ==
  /\ Poll("ACQUIRE")
  /\ c' = CycleAdvanced(CycleNoted(c, loc.captured, TxDone),
                        "rx" \in expired, "tx" \in expired)
  /\ IF c'.state = "FAULT"
     THEN \E ok \in BOOLEAN : StopOutputs(ok)
     ELSE UNCHANGED <<armed, speaker, stale, motor, turning, tx, txFault, playing>>
  /\ Goto("tail")
  /\ UNCHANGED <<pollUnchanged, slots, plan, captureVars, cause, moveVars,
                 expired, cut, since>>

(* PRE_MOVE until motor_start_us after the trigger, MOVING until the motor *)
(* is done, SETTLING for settle_us.                                        *)
KeepWaiting ==
  /\ \/ Poll("PRE_MOVE") /\ "wait" \notin expired
     \/ Poll("MOVING") /\ "wait" \notin expired /\ motor # "DONE"
     \/ Poll("SETTLING") /\ "wait" \notin expired
  /\ Goto("tail")
  /\ UNCHANGED <<shared, slots, cycleVars, captureVars, outputVars, moveVars,
                 identityVars, expired, history>>

(* move_motor: the next relative move of the plan.                         *)
CanMove ==
  CaptureIndex(plan) # 0 /\ NextDelta(plan) # 0 /\ motor \in {"IDLE", "DONE"}

Move ==
  /\ Poll("PRE_MOVE")
  /\ "wait" \in expired
  /\ CanMove
  /\ target' = travel + NextDelta(plan)
  /\ motor' = "MOVING" /\ turning' = TRUE
  /\ plan' = MoveMarked(plan)
  /\ c' = [c EXCEPT !.state = "MOVING"]
  /\ since' = Counted
  /\ expired' = {}
  /\ Goto("tail")
  /\ UNCHANGED <<pollUnchanged, slots, captureVars, tx, txFault, playing,
                 speaker, cause, travel, armed, cut, stale>>

(* A move the stepper refuses or cannot complete commanding. It has been   *)
(* stopped twice then, by the stepper and by the cycle, each as far as the *)
(* bus allowed.                                                            *)
MoveFails ==
  /\ Poll("PRE_MOVE")
  /\ "wait" \in expired
  /\ c' = CycleFailed(c)
  /\ \E ok \in BOOLEAN : ChirpAbort(ok)
  /\ Disarm /\ speaker' = FALSE
  /\ motor' = "FAULT" /\ cause' = TRUE
  /\ turning' \in BOOLEAN
  /\ Goto("tail")
  /\ UNCHANGED <<pollUnchanged, slots, plan, captureVars, moveVars, expired,
                 cut, since>>

MotorTimeout ==
  /\ Poll("MOVING")
  /\ "wait" \in expired
  /\ FailCycle
  /\ Goto("tail")
  /\ UNCHANGED <<pollUnchanged, slots, plan, captureVars, cause, moveVars,
                 expired, cut, since>>

(* The end of a move and the end of the settling pause.                    *)
Arrived ==
  /\ \/ /\ Poll("MOVING") /\ "wait" \notin expired /\ motor = "DONE"
        /\ c' = [c EXCEPT !.state = "SETTLING"]
     \/ /\ Poll("SETTLING") /\ "wait" \in expired
        /\ c' = [c EXCEPT !.state = "WAIT_BUFFER"]
  /\ expired' = {}
  /\ Goto("tail")
  /\ UNCHANGED <<shared, slots, plan, prompt, running, captureVars, outputVars,
                 moveVars, identityVars, history>>

-----------------------------------------------------------------------------
(* The tail reacts to what the poll has changed.                           *)

(* The receive and the transmit deadline of a capture, and the end of the  *)
(* waiting state the cycle is in. One that nobody waits for is forgotten.  *)
Deadline == {"rx", "tx", "wait"}

(* Variant with a bug: the motion deadline does not run.                   *)
NoMotionDeadline(d) ==
  CASE d = "rx" -> c.state = "ACQUIRE"
    [] d = "tx" -> c.state = "ACQUIRE" \/ tx = "running"
    [] d = "wait" -> c.state \in {"PRE_MOVE", "SETTLING"}

Runs(d) ==
  CASE d = "rx" -> c.state = "ACQUIRE"
    [] d = "tx" -> c.state = "ACQUIRE" \/ tx = "running"
    [] d = "wait" -> c.state \in {"PRE_MOVE", "MOVING", "SETTLING"}

EndIteration ==
  /\ loc' = NewIteration
  /\ expired' = {d \in expired : Runs(d)}
  /\ Goto("top")

ScanComplete ==
  loc.before = "SETTLING" /\ c.state = "WAIT_BUFFER" /\ Complete(plan)

(* A microphone still capturing in a fault is cancelled; the fault is      *)
(* reported only once, but no capture starts after it.                     *)
React ==
  /\ pc = "tail"
  /\ ~ScanComplete
  /\ speaker' = (speaker /\ ~(loc.before = "ACQUIRE" /\ c.state # "ACQUIRE"))
  /\ IF c.state = "FAULT" /\ mic = "CAPTURING" THEN MicFails ELSE UNCHANGED <<mic, dma>>
  /\ EndIteration
  /\ UNCHANGED <<shared, slots, cycleVars, filling, metadata, tx, txFault,
                 playing, motor, cause, turning, moveVars, identityVars,
                 history>>

(* One revolution is over: the run stops itself.                           *)
FinishScan ==
  /\ pc = "tail"
  /\ ScanComplete
  /\ \E ok \in BOOLEAN : StopOutputs(ok) /\ c' = CycleStopped(c, ok)
  /\ EndIteration
  /\ UNCHANGED <<shared, slots, plan, prompt, running, captureVars, cause,
                 moveVars, test, audio, frames, cut, since>>

-----------------------------------------------------------------------------
(* The other tasks, the hardware and the clock.                            *)

taskVars == <<pc, loc, cycleVars, filling, metadata, mic, tx, txFault, speaker,
              motor, cause, target, identityVars, frames, cut, stale>>

(* sonar_sequencer_key: a key the full queue cannot take is a Stop.        *)
StopRequested ==
  /\ stop_requested' = TRUE
  /\ since' = IF since = NoStop /\ ~Idle THEN 0 ELSE since

KeyArrives(k) ==
  /\ IF Len(keys) < KeyQueue
     THEN keys' = Append(keys, k) /\ UNCHANGED <<stop_requested, since>>
     ELSE StopRequested /\ UNCHANGED keys
  /\ UNCHANGED <<taskVars, inhibited, slots, dma, playing, turning, travel, expired>>

StopKey ==
  /\ StopRequested
  /\ UNCHANGED <<taskVars, inhibited, keys, slots, dma, playing, turning, travel, expired>>

(* sonar_sequencer_inhibit, called by the supervisor.                      *)
Inhibit ==
  /\ inhibited' = TRUE
  /\ StopRequested
  /\ UNCHANGED <<taskVars, keys, slots, dma, playing, turning, travel, expired>>

TxFinishes ==
  /\ playing
  /\ playing' = FALSE
  /\ UNCHANGED <<taskVars, shared, slots, dma, turning, travel, expired, since>>

DmaFinishes ==
  /\ dma = "running"
  /\ dma' \in {"done", "error"}
  /\ UNCHANGED <<taskVars, shared, slots, playing, turning, travel, expired, since>>

MotorArrives ==
  /\ turning
  /\ turning' = FALSE
  /\ travel' = target
  /\ UNCHANGED <<taskVars, shared, slots, dma, playing, expired, since>>

(* A deadline passes while it is running.                                  *)
Expire(d) ==
  /\ Runs(d)
  /\ d \notin expired
  /\ expired' = expired \cup {d}
  /\ UNCHANGED <<taskVars, shared, slots, dma, playing, turning, travel, since>>

(* The Ethernet task has delivered a frame and got its ACK (FrameTransfer).*)
FrameSent(i) ==
  /\ slots[i] = "READY"
  /\ slots' = [slots EXCEPT ![i] = "FREE"]
  /\ UNCHANGED <<taskVars, shared, dma, playing, turning, travel, expired, since>>

-----------------------------------------------------------------------------
HandleKey ==
  \/ \E k \in {"n", "v"} : OpenPrompt(k)
  \/ \E request \in Requests : EnterPositions(request)
  \/ EnterDivisor
  \/ IgnoreKey
  \/ Run

CyclePoll ==
  \/ PollDormant \/ PollUnhealthy \/ SequenceExhausted \/ WaitForBuffer
  \/ PrepareCapture \/ Trigger \/ TriggerFails \/ AcquirePoll
  \/ KeepWaiting \/ Move \/ MoveFails \/ MotorTimeout \/ Arrived

Task ==
  \/ TakeFlags \/ StopRun
  \/ ControlIdle \/ PrepareTest \/ ApplyConfiguration
  \/ HandleKey \/ NoMoreKeys
  \/ MotorNotDue \/ MotorDone \/ MotorFails
  \/ AwaitCapture \/ FinishCapture
  \/ CyclePoll
  \/ React \/ FinishScan

Environment ==
  \/ \E k \in Key : KeyArrives(k)
  \/ StopKey \/ Inhibit
  \/ TxFinishes \/ DmaFinishes \/ MotorArrives
  \/ \E d \in Deadline : Expire(d)
  \/ \E i \in Slot : FrameSent(i)

Next == Task \/ Environment

Spec == Init /\ [][Next]_vars

(* The scheduler runs the experiment task and time passes. Nothing is      *)
(* assumed of the hardware, the host or the user.                          *)
Fairness ==
  /\ WF_vars(Task)
  /\ WF_vars(\E d \in Deadline : Expire(d))

FairSpec == Spec /\ Fairness
-----------------------------------------------------------------------------
TypeOK ==
  /\ stop_requested \in BOOLEAN /\ inhibited \in BOOLEAN
  /\ keys \in Seq(Key) /\ Len(keys) <= KeyQueue
  /\ slots \in [Slot -> FrameState]
  /\ pc \in Phase /\ loc \in Locals
  /\ c \in Cycle
  /\ plan \in Plan
  /\ prompt \in {"none", "n", "v"}
  /\ filling \in Slot \cup {NoSlot} /\ metadata \in Metadata
  /\ mic \in {"IDLE", "CAPTURING", "READY", "FAULT"}
  /\ dma \in {"off", "running", "done", "error"}
  /\ tx \in {"idle", "prepared", "running", "completed", "aborted"}
  /\ txFault \in BOOLEAN /\ playing \in BOOLEAN /\ speaker \in BOOLEAN
  /\ audio \in BOOLEAN /\ running \in BOOLEAN /\ armed \in BOOLEAN
  /\ test \in 0 .. MaxTests /\ stale \in 0 .. test
  /\ motor \in {"IDLE", "MOVING", "DONE", "FAULT"} /\ cause \in BOOLEAN
  /\ turning \in BOOLEAN /\ target \in Int /\ travel \in Int
  /\ expired \subseteq Deadline
  /\ frames \in Seq([about : Metadata, stopped : {"none", "stopped", "failed"}])
  /\ cut \in {"none", "stopped", "failed"}
  /\ since \in Nat \cup {NoStop}

(* The experiment task owns exactly the slot it says it fills, and an idle *)
(* system owns none: a slot lost by a Stop or a cancelled trigger would    *)
(* shrink the pool for good. (After a fault the slot stays with the        *)
(* microphone, whose DMA may still write it.)                              *)
SlotOwned ==
  /\ \A i \in Slot : slots[i] = "FILLING" <=> i = filling
  /\ pc = "top" /\ Idle => filling = NoSlot

(* A recording during which a Stop was carried out is never published,     *)
(* however late its DMA completes.                                         *)
StoppedIsDiscarded == \A k \in DOMAIN frames : frames[k].stopped # "stopped"

(* What the comment at coordinator.c:456 promises: "Stop drains RX but     *)
(* discards that interrupted capture", whether or not the outputs confirm  *)
(* the Stop.                                                               *)
StopDiscards == \A k \in DOMAIN frames : frames[k].stopped = "none"

(* A run publishes position 1, 2, 3, ... of its revolution, each once and  *)
(* all under the test they were prepared for, whatever waits for buffers,  *)
(* cancelled triggers and Stops come between.                              *)
EachPositionOnce ==
  \A k \in DOMAIN frames :
    /\ frames[k].about.index = k
    /\ frames[k].about.test = frames[1].about.test

(* Whenever the next capture is due, every earlier position has been       *)
(* published and the plate stands where the plan wants it: no capture is   *)
(* labelled with a position the plate has not reached.                     *)
ScanInStep ==
  c.state = "WAIT_BUFFER" /\ pc # "tail" =>
    /\ Len(frames) = plan.moves
    /\ travel = plan.direction * Target(plan.positions, plan.moves)

(* The plate never turns while the speaker plays or the DMA records: the   *)
(* move waits for both ends of the capture, also after a Stop, a fault or  *)
(* a restart of the run.                                                   *)
NeverMoveWhileRecording == turning => ~playing /\ dma # "running"

(* A Stop that arrives at any point of the iteration lets through at most  *)
(* the one output, a trigger or a move, that the task was about to start.  *)
OneOutputAfterStop == since <= 1

(* Between iterations the outputs agree with the state: the speaker is on  *)
(* in a capture only, and a fault has muted it, cancelled the recording    *)
(* and left the motor stopped or known to be faulty.                       *)
OutputsMatchState ==
  pc = "top" =>
    /\ speaker => c.state = "ACQUIRE"
    /\ c.state = "FAULT" =>
         ~speaker /\ mic # "CAPTURING" /\ motor \in {"IDLE", "FAULT"}

(* Every run needs a test prepared after the last run and the last Stop:   *)
(* a Stop, also one in an idle system, withdraws the identity.             *)
FreshTest == [][~running /\ running' => test > stale]_vars

(* A Stop ends in STOPPED or, if the outputs do not confirm it, in FAULT,  *)
(* also while the pool is full and no host reads it.                       *)
StopEnds == stop_requested ~> c.state \in {"STOPPED", "FAULT"}

(* An inhibited experiment task ends in FAULT.                             *)
InhibitEnds == inhibited ~> c.state = "FAULT"

(* A run comes to an end as long as the host goes on storing frames: its   *)
(* revolution is complete, or it faults. No lost event leaves it hanging.  *)
RunEnds ==
  []<>(\A i \in Slot : slots[i] # "READY") =>
    (c.state = "WAIT_BUFFER" ~> (Idle \/ c.state = "FAULT"))
=============================================================================
