# Verification of the Airborne Circular Sonar

TLA+ models of the firmware and of the host program of this repository, the
TLC configurations that check them on small instances, and TLAPS proofs of the
results that matter most for every size. Paths below are relative to the
repository; `fw/` stands for `firmware/src/sonar_`, `host/` for `gui/host/`.

Run a check with `tlc -config MCFrameTransfer.cfg MCFrameTransfer`, a proof with
`tlapm FrameTransferProofs.tla`. `PROJECT.json` lists the runs, the lines each
definition models, the hazards the properties are aimed at and the findings.

## 1. The system

A plate with 16 microphones turns in N steps through one revolution. At every
position the board plays a chirp and records it into one slot of a frame pool in
DDR; a second task sends finished slots to a host, which stores them durably and
acknowledges them. Five FreeRTOS tasks (experiment and supervisor at priority 3,
network, control server and console below), one DMA interrupt and the FPGA run
concurrently.

```
 console key / Stop --> key queue, stop flag --+
 control server --request queue--> [experiment task] <--inhibit-- [supervisor]
                                     |  measurement cycle               ^  |
                                     |  scan planner       heartbeat ---+  +--> watchdog
                    prepare/trigger  |  test identity
          transmitter, mic DMA, stepper (I2C), speaker
                                     v publish
                              frame pool (DDR) --take/finish--> [network task]
                                                                  | TCP, record / ACK
                                                             [host receiver] --> disk
```

### Inventory

| Component (code) | State | Operations | What makes it correct | Modelled |
|---|---|---|---|---|
| Frame pool (`fw/frames`) | a state per slot, metadata | acquire, publish, take, finish, latest | one owner per slot; oldest frame first; none reused before its ACK | FramePool |
| Network task (`fw/ethernet`) | phase of the connection, batch limit, slot being sent | accept, handshake, batch, marker, send, ACK, close | no capture lost or reordered, no one blocks the others for ever | FrameTransfer |
| Host receiver and store (`host/receive_ethernet.py`, `sonar_gui_transport.py`, `capture_store.py`) | socket, boot bound to it, files | read record, write payload, write description, ACK, reconnect | ACK only what is durable; repetitions accepted; boots never mixed | FrameTransfer |
| Scan planner (`fw/scan360`) | positions, direction, moves, commanded | configure, begin, next delta, mark, complete | rounded moves sum to one revolution | Scan360, RevolutionScan |
| Measurement cycle (`fw/measurement_cycle`) | state, sequence, stopping, received, transmitted, deadlines | start, stop, poll | motor only after both completions; every wait ends | MeasurementCycle, Experiment |
| Experiment coordinator (`fw/experiment_coordinator`) | flags, key queue, prompt, slot in use, all drivers | one loop, `sonar_sequencer_key`, `_inhibit` | a Stop stops; recordings carry the right position and test | Experiment |
| Microphone DMA (`fw/mic`, `fw/mic_zynq`) | state, single event, cache lines, buffer | start, event, poll, release; interrupt | a finished frame is whole and its own | Capture; outcomes in Experiment |
| Transmitter (`fw/tx_control`, `fw/pcm_playback_control`, `fw/tx_bram`) | phase, latched fault, deadline | apply, prepare, trigger, poll, abort | what plays is what was applied; a deadline only a fault | ControlService, WaveformUpload; outcomes in Experiment |
| Stepper and I2C (`fw/stepper`, `fw/motor_zynq`, `fw/ps_i2c`) | state, fault, keepalive, bus quarantine | move, poll, stop, mode | DONE is where the move was to end; a fault stops the motor; renewed in time | Stepper; outcomes in Experiment |
| Test identity (`fw/identity`) | boot, test, prepared | set boot, prepare, consume, disarm | a recording belongs to the test it was prepared for | ControlService, Experiment, FrameTransfer |
| Control server and service (`fw/control_server`, `fw/control_service`, `fw/control_protocol`, `fw/experiment_config`) | session, two queues, token, staged configuration | connect, request, answer, timeout, END_SESSION | an answer belongs to its request; a session leaves nothing behind | ControlServer, ControlService; PREPARE_TEST and APPLY in Experiment |
| Waveform upload (`fw/waveform_upload`) | transfer id, received count, lock | begin, chunk, commit, cancel | a run uses a complete waveform or none | WaveformUpload, ControlService |
| Supervisor, health, halt (`fw/supervisor`, `fw/health`, `fw/fault`) | heartbeat queue, health, watchdog | heartbeat, monitor, inhibit, halt | a stall is found in time, a living task never inhibited | Supervisor |
| Console (`fw/tcp_console`, `fw/console_buffer`, `fw/console`) | ring, one client | write, drain, key | output never blocks a task | no (section 7) |
| Codec (`fw/codec_service`, `fw/codec_board`, `fw/codec_bus`) | start-up step, mute | start, poll, mute | silent unless every write has arrived | Codec |
| Host control client (`host/sonar_gui_control.py`, `host/sonar_configure.py`) | session, outstanding request | connect, begin, configure, retry | a test is begun with the configuration that was set | no (section 7) |
| Host test archive (`host/sonar_test_store.py`) | index of tests, captures | begin, save, recover | a capture is filed under its own test | no (section 7) |
| Signal processing, WAV, GUI, BSP checks, clocks, RTL arithmetic | | | numeric or presentational | no (section 7) |

### What is hard

- **Interleaving.** A Stop, an inhibit, the DMA interrupt and the network task can
  act between any two steps of the experiment loop; the flags are read and
  cleared in one place and acted on in another.
- **Ordering and time-outs.** DMA completion, the end of the transmission, the end
  of a move and four deadlines race; a late completion follows a fault.
- **Loss and crash.** The TCP link breaks around an ACK, the host dies between two
  files, the board resets and numbers its captures from 1 again.
- **Bounds.** A pool of 32 slots that no host empties, a key queue that is full, tick
  counters that wrap, a 32-bit capture sequence that ends.
- **Delay.** A request is answered TIMEOUT while it is still queued, its answer comes
  when the next client is connected; a keep-alive is issued by a task that was kept
  away from its loop.
- **Partial failure.** A stop consists of four outputs, a move of several I2C
  writes, any of which may fail after another has had its effect.

## 2. The modules

| Module | Role | Lines of code it stands for |
|---|---|---|
| `FramePool` | the five pool operations as pure operators on the slot states | `fw/frames.c` |
| `FrameTransfer` | experiment task's side of the pool, network task, TCP link, host receiver, resets and crashes | `fw/ethernet.c`, `host/*.py` |
| `CaptureDelivery` | **abstract**: what the transfer promises, without slots, sockets, files or ACKs | - |
| `FrameTransferProofs` | the invariant, the safety theorems, the refinement | - |
| `Scan360` | the planner's arithmetic, exact | `fw/scan360.c` |
| `RevolutionScan` | the planner in use: configure, begin, move | `fw/experiment_coordinator.c:89-109, 394-401` |
| `RevolutionScanProofs` | division lemmas, the planner's theorems | - |
| `MeasurementCycle` | the cycle's transitions as operators | `fw/measurement_cycle.c` |
| `Experiment` | composes FramePool, MeasurementCycle and Scan360 with the drivers in the experiment loop | `fw/experiment_coordinator.c` and drivers |
| `WaveformUpload` | the upload with its byte parser, and the playback buffer, as operators | `fw/waveform_upload.c`, `fw/tx_bram.c` |
| `ControlService` | every control request with all its outcomes; what the registers of the transmitter hold | `fw/control_service.c`, `fw/experiment_config.c`, `fw/tx_control.c`, `fw/pcm_playback_control.c`, `fw/identity.c` |
| `ControlServer` | extends `ControlService` by connections, the two queues, the call that times out | `fw/control_server.c` |
| `Codec` | start-up of the codec over the IIC controller | `fw/codec_service.c`, `fw/codec_bus.c`, `fw/codec_board.c` |
| `Capture` | one frame from start to publication over DMA, interrupt and CPU cache | `fw/mic.c`, `fw/mic_zynq.c`, `fw/experiment_coordinator.c` |
| `Stepper` | the motor, command by command over I2C, against the Tic controller | `fw/stepper.c`, `fw/ps_i2c.c` |
| `Supervisor` | heartbeat, health, watchdog, halt | `fw/supervisor.c`, `fw/health.c`, `fw/fault.c` |
| `SupervisorProofs` | stalls are found, living tasks are left alone, only a halt lets the watchdog reset the board | - |
| `ExperimentProofs` | all safety properties of `Experiment` | - |
| `WaveformUploadProofs` | what the byte parser makes of a file, by induction over its bytes | - |
| `ControlServerProofs` | the service: types, what is committed, what a run plays; the server: queues and answers, and that it refines `ControlService` | - |
| `DriverProofs` | the invariants of `Codec` and `Capture` | - |
| `StepperProofs` | the invariants of the motor driver | - |
| `MC*` | instances for TLC; `MCDrivers` runs `Codec`, `Capture` and `Stepper`, which share no state, one per behaviour | - |

Operators named "Variant with a bug" stand next to the definition they vary. No
specification uses them; each is a plausible mistake in that code, and putting it
in the place of the original makes the property listed with it in `PROJECT.json`
(`mutants`) fail.

### FrameTransfer

State: per slot its state, metadata and samples (`data`, a number per recording,
which also stands for the CRC); `cycle`; the boot identity; the position of the
network task in `serve()` (`bphase`) and of the receiver (`hphase`); the two
directions of the stream; the durable files. `StartCapture`, `PublishCapture` and
`DiscardCapture` are the experiment task's pool operations; `BeginBatch`,
`MarkerAcknowledged`, `TakeFrame`, `SendFrame`, `FrameAcknowledged` and `EndBatch` are
`serve()` from one blocking call to the next; `ReceiveFrame`, `WritePayload`,
`WriteDescription` and `Acknowledge` are the receiver, split where a crash leaves a
different disk. Either end can close at any point (`BoardFails`, `HostFails`, a
crash is a close that forgets memory); `BoardNotices` and `HostNotices` see it later.
`ResetBoard` empties RAM and takes a boot identity that was not used before: the
host supplies one at random (`sonar_identity_set_boot`, accepted once per boot).

The stream is a sequence of whole records. A record cut in two makes the
receiver close the connection (`read_exact` raises), which is `HostFails`.

### Experiment

One iteration of `experiment_task` is split where somebody else can act: flags
(`TakeFlags`), Stop (`StopRun`), one control request, up to `KeyBudget` keys, motor
poll, end of a capture, `sonar_cycle_poll` with its callbacks, tail. Inside such a
step nothing another task does can be seen by the code, except in `capture()`,
which checks the stop flag once more between `PrepareCapture` and `Trigger`: that is a
step boundary too. Callbacks that talk to hardware answer both ways whenever the
code has a failure path; a failed one leaves the hardware in any state it may be
in (`StepperStop`, `ChirpAbort`, `MicFails`, `MoveFails`, `TriggerFails`). A deadline is an
element of `expired`: it can pass at any time while its clock runs, so any order of
deadlines and completions is explored and no duration is needed.

Abstractions: `sonar_chirp_error()` and `sonar_chirp_done()`, which both poll the
transmitter, are one poll per iteration, and the poll inside a control reply
(`sonar_chirp_status`) is left out, because each has the effect the next iteration's
has; staging a configuration is not represented, so `PrepareTest` may follow an
`ApplyConfiguration` that the service would call stale: runs start in more
situations than in the code; a failed initialization, after which the loop
accepts nothing, is not modelled.

### WaveformUpload and ControlService

`wave` holds the statics of the upload (its parser included) and the buffer, a pair of
the uploaded sample and the scaled copy per word. Each function of `feed` is an
operator (`FedRiff`, `FedChunk`, `FedFormat`, `FedData`, `FedSkip`, `FedPad`) from the state and a
byte to the state after it. Widths are scaled: a RIFF or chunk header is two bytes, a
format body one, a sample one byte of one channel; every length, overrun, padding and
once-only check is kept, the 8 to 32 bit sample formats are not told apart. The CRC
is that every byte is the announced file's. What the whole file contains (`pcm`) is told
without the parser: `WavFile` reads a file as a set of places where chunks begin, each
where the one before ends, and takes the samples of its one data chunk.
`RequestAssumption` demands this of every file a request announces; TLC evaluates it for the
files of the instance, where `pcm` is written out.

`Command` has one disjunct per request, each with every result the code gives.
`mutable` is what the coordinator says of its own state; `StartRun`, `Transmit`,
`TransmissionEnds`, `TransmissionLate` and `EndRun` are the run around it. The registers
that `sonar_chirp_apply` and the player leave are `tx`; `ChirpApplyFails` is the output
register that does not read back. Frequencies, durations and phase widths are scaled
with the rounding the code has. The contents of a reply are not modelled, only its
result; a payload of a wrong length, which is refused before anything else, is left out.

### ControlServer

`phase` is the position of the server task in `serve` and `rpc`: `ACCEPT`, `RECEIVE`, waiting
for room in the queue (`SEND`), testing the deadline (`TEST`), waiting for an answer (`WAIT`),
answering (`RESPOND`), and the same for END_SESSION, of which nobody reads the answer. `rpc` tests
the deadline before each receive and not after it, and a receive may take 20 ms
(`fw/control_server.c:59-64`): an answer is taken up to 20 ms after RPC_MS, the TIMEOUT that
the poll gives to the request included, and the connection then goes on. `Poll` is
`sonar_control_poll`: one step, because the experiment task has a higher priority than the server
on the only core that runs the firmware. `RunStep` is the rest of that task's loop: runs start,
transmit and end between the polls. Ages stand for the time stamps of call and request, and stop at
RPC_MS. A client sends any request, closes or breaks off at any point. Session numbers are never
reused: after the last one every connection is refused until a reset
(`fw/control_server.c:149-152`).

### Codec, Capture, Stepper

Three drivers against a device that acts on its own between any two accesses.

- `Codec`: `poll.at` is where the task stands between reading the interrupts, reading the
  status and acting on both. The controller (`iic`) starts, takes the address and bytes,
  stops, is not acknowledged, releases the bus or hangs; its behaviour is what
  `fw/codec_bus.c` expects of it. The register values are left out.
- `Capture`: `loop` is the position of the experiment task; `dma`, `hardware` (what the
  interrupt left), `memory` and `cache` are the rest. The cache fills and drops a line at
  any time. `lag` is the time the task has been kept from its next step; `MaxLag` bounds it.
  Every fault aborts the engine if the driver owns the memory, and the abort may fail or be
  confirmed too late: an engine that a failed start has set running in part, or a capture that
  `CancelCapture` gives up because the cycle is in fault, then goes on writing.
- `Stepper`: `routine` and `todo` are a stepper function and the commands it still has to
  send. Each transfer may wait for the bus, be delivered and not confirmed, time out,
  and leave a bus that cannot be taken back, which quarantines the driver. `tic`
  is the controller: it steps, and stops at its command timeout. `quiet` and `run`
  are the time since the last keep-alive and since the start of the move.

GPIO updates cannot fail after their initialization and are part of the action they
belong to. `sonar_speaker_cancel` has no caller. `sonar_mic_init` runs for
every capture, so that the generation is always 1 and filters nothing. A task that is
preempted between the return of a transfer and the next statement is taken to go on
within the same tick.

### Supervisor

Time is a tick counter that wraps; the watchdog counts the same ticks. `Called` in
its three forms is `sonar_rtos_heartbeat`; `StartMonitoring`, `Monitor` and `KeepServing`
are the parts of `supervisor_task` between two blocking calls. `MaxLag` bounds how many
ticks a runnable supervisor may wait for the processor: nothing in the code states
it, but without a bound no deadline of that task means anything. `Halt` is enabled
everywhere: `sonar_halt`, an assertion, a stack overflow or a failed allocation.
Since nothing reads the program's memory after it, the model forgets it.

## 3. Properties

Every module with variables has one type invariant (`TypeOK`, `CodecTypeOK`, `CaptureTypeOK`,
`StepperTypeOK`); those of `FrameTransfer` and `Supervisor` are also run, and those of
`FrameTransfer`, `RevolutionScan`, `Supervisor`, `Experiment`, `ControlService` and the three
drivers are proved. The others:

| Module | Property | In words |
|---|---|---|
| FrameTransfer | `NoCaptureLost` | a capture published in this boot is in the pool or on the disk |
| | `StoredIntact` | what is stored was published, with its own samples; a name has one content |
| | `StoredInOrder` | the captures of a boot reach the disk in sequence order, none skipped |
| | `NeverRefused` | no record is refused as a conflicting duplicate (it would block the queue for ever) |
| | `DeliverySpec` | the protocol implements `CaptureDelivery` |
| | `EventuallyStored`, `BufferComesBack` | every published capture of a board that stays up is stored; a full pool gets a free slot |
| RevolutionScan | `OnTarget`, `FullTurn`, `NextMoveIsReal` | no rounding error accumulates; a scan turns by exactly one revolution; no planned move is empty or more than one step off the even spacing |
| Experiment | `SlotOwned` | a filling slot always has its owner, an idle system owns none |
| | `StoppedIsDiscarded` | a recording during which a Stop was carried out is never published |
| | `EachPositionOnce` | a run publishes positions 1, 2, 3, ... once each and under one test |
| | `ScanInStep` | when a capture is due, all earlier positions are published and the plate stands where the plan wants it |
| | `NeverMoveWhileRecording` | the plate never turns while the speaker plays or the DMA records |
| | `OneOutputAfterStop` | after a Stop at most one output still starts |
| | `OutputsMatchState` | between iterations, speaker, microphone and motor agree with the cycle's state |
| | `FreshTest` | a run starts only with a test prepared after the last run and the last Stop |
| | `StopEnds`, `InhibitEnds`, `RunEnds` | a Stop, an inhibit and a run come to their end |
| ControlService | `CommittedIsFile` | a waveform that can be selected is the announced file, however its pieces were cut, repeated, skipped or mixed |
| | `PlaysWhatWasApplied` | what a run plays is what was applied, whatever was uploaded, staged or refused since |
| | `TestMatchesConfiguration` | a prepared test is for the last configuration that was given a number, the one in force if any, also when the hardware refuses |
| ControlServer | `AnswerIsOwn` | the answer a client reads is the result of its own request, or tells it that nothing was done |
| | `NothingInherited` | a closed connection leaves nothing to the next: what it holds is its own and its END_SESSION is queued |
| | `NotAfterTimeout` | a request answered TIMEOUT changes nothing when it is reached |
| | `Released` | what a closed connection holds is set free |
| Codec | `WritesAreReal` | what counts as acknowledged has reached the codec; output only behind a complete start-up |
| Capture | `FrameIsWhole` | the CPU reads of a finished or published frame exactly the frame of that capture |
| | `TimeoutIsLate` | a capture is given up as late only when it is (violated: finding 3) |
| Stepper | `DoneIsThere` | DONE means that the plate stands where the move was to bring it |
| | `RenewedInTime` | a poll's keep-alive renews a running motor or becomes a fault before the Tic gives up |
| | `FaultStopsMotor` | after a fault the motor comes to a stop and stays stopped, also with a dead bus |
| MCDrivers | `NothingHangs` | no device keeps the experiment task waiting |
| Supervisor | `NoFalseAlarm` | the experiment is inhibited only if its task was late |
| | `StallDetected` | a stalled task is inhibited within timeout + period + lag |
| | `OnlyHaltResets` | the watchdog resets only a halted board |
| | `WatchedHaltResets` | a halt with the watchdog running ends in a reset |

## 4. Runs, bounds and what they show

| Run | Instance | Why it is enough |
|---|---|---|
| `transfer_safety` | 2 slots, 3 captures per boot, 2 boots, 2 faults | two slots let one be sent while the other is recorded, and three captures force reuse and every order of slots; two boots repeat sequence numbers; a second fault can hit the recovery from the first |
| `transfer_liveness` | the same with one fault | one break, crash or failed conversion anywhere, then the system must recover |
| `revolution_scan` | the code's 88,000 steps and limit 1,000; 13 accepted and 2 refused counts | divisors, non-divisors and extremes in both directions; the proofs cover the rest |
| `experiment_safety` | 1 slot, 3 recordings, revolution of 3 steps, requests 3 (refused) and -2, key queue 1, budget 1, 2 tests | one free slot is what the code's 32 are when the host has stopped storing: every capture after the first waits for it (several slots at once are `transfer_safety`'s subject); a revolution of three steps in two moves is rounded (2, then 1); three recordings allow a whole run and a second one, and exhaust the sequence; a queue of one overflows at once |
| `experiment_liveness` | 1 slot, 2 recordings, 2 positions, 1 test | a whole run, whose second capture waits for the host |
| `supervision` | period 2, timeout 6, watchdog 5, 12 ticks, 3 numbers, queue 2, lag 1 | the code's proportions (100 ms, 1,000 ms, 2,000 ms, 4) shrunk as far as the configuration checks allow; the tick counter and the heartbeat number wrap many times |
| `control_service` | 2 sessions, 3 files of 12 to 16 bytes in pieces of 9 bytes with a shorter last one, the mono one also in pieces of 6, and one damaged piece, a buffer of 4 samples, 1 accepted (falling) and 1 refused chirp, 2 boot identities, 1 test, 2 configurations | two sessions contend for what is staged; mono with an odd count, stereo behind a skipped chunk, and a file that fails after its samples reach every case of the parser; every file can be sent to its end, and mono and stereo are committed; the cuts lie inside a chunk header, between chunks and inside the samples, and pieces of different files and sizes can follow each other; a second configuration can replace the first while it plays |
| `control_rpc` | 3 connections in a row, 2 requests each, 5 kinds of request (a chirp set, applied and prepared for, and an upload), queues of 2 (the code's), a time-out of 1 tick | a queue of two fills with one request and one clean-up; the answer of the first connection can arrive in the third; one tick tells just queued from too old; an applied chirp is played behind the server, and a whole run fits between two polls. The waveforms are `control_service`'s subject |
| `drivers` | codec: 3 writes, VMID after the second; capture: 2 buffers, 2 captures of 2 words, deadline 3, lag 1; stepper: keep-alive 3, watchdog 10, move 4, transfer 1, positions up to 2 | three writes give one before and one after the pause; two captures reuse memory that the cache has seen; keep-alive and watchdog in about the code's proportion (250 ms, 1,000 ms), a transfer of up to a tick in each of its phases, so that slow transfers and a late poll together can use up the margin |
| `stop_not_confirmed` | violation run, 1 recording | finding 1 |
| `halt_not_reset` | violation run | finding 2 |
| `stale_tick` | violation run, the instance of `drivers` | finding 3 |

Every bound is a constant: `MaxSequence` is also the code's limit (`UINT32_MAX`), made
small; `MaxBoot`, `MaxFaults`, `MaxTests` and `Requests` only bound the exploration,
`MaxLag` is an assumption about scheduling; the others are configuration values.
`MaxConfig` and `MaxToken` are also the code's limits (`UINT32_MAX`); `Sessions`, `Boots`, `Tests`
and `MaxCaptures` bound the exploration, `MaxPosition` and `Deltas` the plate.
Deadlock is checked except in `supervision` and `halt_not_reset`, where a board that
halts before its watchdog runs stops for ever (finding 2), in `control_rpc`, which stops
when its last session number is used, and in `drivers` and `stale_tick`, where a fault of
codec or microphone is final until a reset.

### Fairness

- *FrameTransfer*: weak fairness of the network task's steps, of the receiver's
  steps and of connecting. The network task never blocks for ever (its sockets
  do not block and every transfer has a deadline, `fw/ethernet.c:88-100`), the host's
  reads time out and its receive loop reconnects
  (`host/sonar_gui_transport.py:69-115`).
  Recording, faults and resets are never promised.
- *Experiment*: weak fairness of the task and of time, that is, of some running
  deadline passing. Nothing is assumed of DMA, transmitter, motor, user or host; a
  run waits in `WAIT_BUFFER` while no frame is stored, so `RunEnds` has the premise
  that the host again and again has no frame left to take.
- *ControlServer*: weak fairness of the experiment task's poll (once per loop), of time,
  and of the server's own steps that do not wait for a client. Which alternative of a
  step is taken is never promised: the experiment may answer BUSY for ever.
- *Codec, Capture, Stepper*: weak fairness of the task, which polls in every iteration of
  its loop, and of the clock. For the motor the clock is strongly fair: it is stopped
  while a routine is between two transfers, which takes no time, and a caller that keeps
  asking for stops must not stop the clock with it. Nothing is assumed of the IIC
  controller, the DMA, the bus, the Tic or the motor.
- *Supervisor*: only the watchdog, which counts on a clock of its own. What the
  supervisor must do in time is stated as safety under `MaxLag` instead.

## 5. Proofs

TLC sees one instance; these hold for every value of the constants that satisfies
the named assumptions of the modules (`PoolCountAssumption`, `TransferAssumption`,
`ScanAssumption`, `ExperimentAssumption`, `SupervisorAssumption`, `WaveformAssumption`,
`ServiceAssumption`, `RequestAssumption`, `ServerAssumption`, `CodecAssumption`, `CaptureAssumption`, `StepperAssumption` and those they
extend), which the code or its static assertions check and TLC evaluates in the runs.
What a theorem assumes beyond them stands in its ASSUME and is named below. All safety
properties that a passing run checks are theorems. Every inductive
invariant was also checked by TLC on the instance of its component; for the parser's, with the
beginnings of chunks drawn from those of the files.

**FrameTransferProofs** proves `TypeOK`, `NoCaptureLost`, `StoredIntact`, `StoredInOrder`,
`NeverRefused` and the refinement of `CaptureDelivery`. None of them is inductive: that a
frame is not lost when its slot is freed depends on the ACK, which depends on what
the receiver stored two steps earlier. The invariant `Inv` says where everything on
its way is:

- `SlotOwners`: a slot is FILLING or SENDING exactly when its owner points at it;
- `History`, `Distinct`: the recording under way is newer than everything
  published, so neither an identity nor samples repeat;
- `PoolContents`: a slot in use holds a published capture of this boot, no two the
  same, and the one being sent is the oldest;
- `InTurn`: whatever is in the stream or on the disk is published and everything
  before it is stored;
- `HostProgress`, `AckMeansStored`: the receiver acknowledges what is stored, and an ACK
  in the stream names something stored;
- `OneBoot`: all frames of a connection come from one boot.

Each conjunct has one lemma, with one step per action that can disturb it. An ACK
frees the right slot because its sequence number and CRC identify one stored
capture (`Distinct`) and the oldest is the only one being sent (`PoolContents`). The
refinement maps what the pool holds to `pending` and the description files to
`delivered`: writing a description is the abstract `Deliver`, which must be in turn
(`InTurn`), and freeing a slot is `Release`, which needs `AckMeansStored`.

**RevolutionScanProofs** proves `OnTarget`, `FullTurn` and `NextMoveIsReal` for every
revolution and every position count up to it. The only arithmetic needed is that
of a rounded quotient (`Division`, `Quotient`, `Half`); `TargetEnds` says that the last target
is the revolution, `TargetStep` that two targets differ by the even spacing or one more.

**ExperimentProofs** proves `TypeOK`, `SlotOwned`, `StoppedIsDiscarded`, `EachPositionOnce`,
`ScanInStep`, `NeverMoveWhileRecording`, `OneOutputAfterStop`, `OutputsMatchState` and the action
property `FreshTest`, for any pool, plan, key queue and set of requests. None is
inductive alone; `Inv` has eleven conjuncts, each with one lemma per action that can
disturb it:

- `Ownership`: a recording is under way only in a capture that owns its slot, or between
  its preparation and its trigger;
- `Position`: what the locals of the loop say (the Stop taken, the poll's outcome) is still
  true where they are used, although the flags behind them have changed since;
- `Transmission`, `Plate`: the speaker is on only for the capture that waits for it, the plate
  turns only in a move or after a fault;
- `Planned`, `PlateOnPlan`, `InOrder`: positions planned, commanded and published count
  together, and the plate stands on the rounded target (from the lemmas of the planner);
- `Marked`, `StopComing`: a recording that was stopped cannot be published any more, and a
  Stop that was requested is on its way to every output but at most one.

**WaveformUploadProofs** holds the lemmas about the upload, for a file of any length and content,
in pieces of any size. A piece is read by a fold over its bytes, so the argument is an
induction over them. The library's induction rule takes an operator and cannot be
instantiated; `SetInduction` gives the same for a set, from the well-foundedness of `<` on
the natural numbers, and `FedInOrder` unfolds the fold one byte at a time. `FedByteStep` says
that a byte is a step of one of seven kinds, and one lemma per kind shows that it keeps
`Sound` (counts, states and the buffer fit together) and, while every byte was the announced
file's, `Parsed`: the parser knows which chunks it has met and that they follow each other,
the channels, and the samples found so far. At the end of the file (`WholeIsRead`) this is
what `WavFile` says of it. `WaveInv` adds what is true between requests, and that the
buffer is scaled only as a whole.

**ControlServerProofs** proves of `ControlService` `TypeOK`, `CommittedIsFile`, `PlaysWhatWasApplied` and
`TestMatchesConfiguration`. `ServiceInv` adds to `WaveInv` that a configuration in force is `Loaded`:
its values are those the code calculates, the registers hold them, and the buffer holds
the samples of its waveform at its amplitude. It is inductive because an upload that begins
or is committed puts a waveform out of force, a run locks the upload, and when APPLY writes the
registers, either all of them fit the new configuration or none is in force. That a sweep
misses its last increment by at most half a step per sample rests on `Nearest` (a rounded
quotient is the closest one); `IncrementBelow` says that an increment fits the phase accumulator for
every frequency that is accepted.
`TestMatchesConfiguration` needs `PreparedFor`: every APPLY that uses up a configuration number
clears what was prepared, also one that the hardware refuses.

Of `ControlServer` it proves `AnswerIsOwn`, `NotAfterTimeout`, `NothingInherited` and the refinement
`ServerServes`. The invariant
orders the two queues: requests stand in the order of their connections with END_SESSION
last (`InLine`), a connection has at most one before it (`OneQueued`), a call under way finds
in a queue either its request, not carried out yet, or an answer that is its result or a
TIMEOUT for which nothing was done (`Waiting`, `NotYet`), answers bear numbers of earlier calls
or the current one (`Numbered`), and a queued request is at least as old as the call under way
(`Older`), so that one that was given up is too old when it is reached (`GivenUp`).
`ServerServes` says that the server drives the service only in ways `ControlService` allows; so
what holds there for every order of requests holds behind the server (`TestSurvivesServer`,
`CommittedIsFileOnServer`, `PlaysOnServer`). Runs change the service between two polls (`RunStep`),
so `ServiceInv` is a part of the server's invariant, and `PlaysOnServer` speaks of runs that do
happen: `control_rpc` reaches them. It needs END_SESSION among the requests of the service.
`NothingLeftBehind` needs room for two requests: with a queue of one, a request that was
given up keeps END_SESSION out until that is given up too, and what the connection staged
earlier stays its own (TLC finds this). The code has queues of two (`fw/control_server.c:29`),
and nothing in it says that this is why.

**DriverProofs** proves `WritesAreReal` of `Codec`: interrupt and status bits read one after the other still
speak of the same write when they are used (`ReadIsTrue`), because the driver clears Bus Not
Busy with the address and again with the bytes.

It proves `FrameIsWhole` of `Capture`: the engine writes only the buffer the driver holds
(`Filling`), its one event reports what is in memory (`Written`, `OneEvent`), and after the
invalidation the cache can only fetch lines that nobody writes (`Finished`, `Published`). An arm
that failed half-way, or an abort that failed, may leave the engine running; it then writes
only the buffer of the capture that failed, which is given to nobody until a board reset.

**StepperProofs** proves `DoneIsThere`: a motor that was read to stand on its target stays there
while a routine only reads (`MotionIsTrue`, `PlanIsTrue`), until the next command
(`DoneStands`). `KeepaliveInTime` proves `RenewedInTime` if two transfers that time out fit into
a keep-alive period and one tick (`2 * BusTicks <= KeepaliveTicks + 1`; 200 and 251 in the code,
`fw/motor_config.h:8,12`). The bound is tight: with `BusTicks` and `KeepaliveTicks` 2 and
`WatchdogTicks` 7 TLC violates it, and these pass the only check in the code,
`3 * keepalive < watchdog` in `sonar_stepper_init`, which does not know the transfer time.

**SupervisorProofs** proves `TypeOK` and three results about a supervisor that is less than one
of its periods late (`MaxLag < Heartbeat`):

- `OnlyHaltResets`: a running watchdog has counted no more than the supervisor has been
  blocked and then kept waiting (`Served`: `dog <= waited + overdue`), which is less than the
  two periods the static assertion at `fw/supervisor.c:37` demands of the watchdog.
- `StallDetected`: the last accepted heartbeat is older than the last call and all that is
  queued, and younger than the timeout and the time since the last check (`Silence`). The
  bound keeps every age below the wrap of the tick counter, so that differences of ticks
  are ages (`AgeFacts`).
- `NoFalseAlarm`: numbers follow each other through queue and health (`Numbered`), and a
  heartbeat is taken within a bound that depends on its number (`Prompt`, `Bound`): number 0 is
  not rate-limited and may wait behind another one, and every further one catches up. This
  needs the rest of `Margins`: `3 * MaxLag < Timeout`, `MaxLag + 1 < Numbers`, `QueueLength > 1`. TLC
  violates the property as soon as one of them fails (`Heartbeat` 4, `Timeout` 9, `MaxLag` 3; `MaxLag`
  2 with 3 numbers; a queue of 1). The code has 100 ms, 1,000 ms, 2^32 and 4, but its own checks
  (timeout above two periods, a queue that is not empty) do not imply them.

**Only model-checked**, and why:

- all liveness (`EventuallyStored`, `BufferComesBack`, `StopEnds`, `InhibitEnds`, `RunEnds`, `Released`,
  `FaultStopsMotor`, `NothingHangs`, `WatchedHaltResets`): the prover has no rules for fairness
  and ENABLED that these would need;
- the three expected violations, which are not theorems.

## 6. Findings

1. **A stop that the motor does not confirm publishes the interrupted recording.**
   `sonar_cycle_stop` (`fw/measurement_cycle.c:40-47`) fails before it sets `stopping`,
   while the microphone finishes normally; `fw/experiment_coordinator.c:459` then
   publishes the recording. The comment at line 456 says a Stop "discards that
   interrupted capture". (`stop_not_confirmed`; `StoppedIsDiscarded` shows that it
   holds whenever the outputs confirm.)
2. **A halt before the first heartbeat is final.** The comment at
   `fw/supervisor.c:91` says "sonar_halt() also ends in that reset", but the watchdog is
   started only after the experiment task's first heartbeat (lines 105-109), and
   a failed start halts itself. (`halt_not_reset`; `WatchedHaltResets` shows the claim
   once the watchdog runs.)

3. **A frame that arrives in time can be refused as late.** `fw/experiment_coordinator.c`
   reads `tick` at line 442 and uses it at line 447 for an event taken in between. When the
   clock ticks and the DMA interrupt comes between the two, the event is one tick
   younger than `tick`, `now - event->tick` wraps, and `fw/mic.c:87` makes it MIC_TIMEOUT: the
   run ends in FAULT with a complete frame. The second reading is there against
   exactly that ("I2C can yield while DMA completes", line 442), and narrows the window
   without closing it. The microphone is right to call a stamp from the future a time-out
   (`firmware/tests/sonar_mic_selftest.c:215-230` asserts it); the race is the coordinator's, which
   hands it a real event with an older clock. (`stale_tick`.)

A limit of what is shown about the motor: `RenewedInTime` is about the keep-alives of
`sonar_stepper_poll`. The first one after the start of a move is measured from a time stamp
(`fw/stepper.c:133`) that is taken up to three transfers after the Tic began to count;
with transfers that all take their full time-out this alone can use up the
margin.

Also seen in the model: a heartbeat number that wraps to 0 switches the rate limit
off for one call (`fw/supervisor.c:54`), which can place two heartbeats in the queue
in one tick. The queue has room for it; it happens once in 13 years.

## 7. Not modelled

- **Signal processing** (`pdm_decimator`, `rx_processing`, the FIR tables, `wav_writer`) and chirp
  synthesis in the FPGA: numeric functions of private buffers with no state that
  another part sees. `SendFrame` takes the samples of a recording as one value.
- **TCP console** (`tcp_console`, `console_buffer`, `console`): a ring that overwrites what a slow
  client has not read and reports the gap. It reaches the experiment by keys and by the
  Stop when its client is lost, and `Experiment` has both at any time; what is
  lost otherwise is text.
- **Host programs** beyond the receiver: the control client is a sequential caller of
  a blocking socket, and `ControlServer` lets a client send anything; the archive of
  tests is an index of folders, each entry on the disk before the first capture of its
  test, and a capture is acknowledged only after both; `FrameTransfer` has the store of
  one folder; console client,
  GUI widgets, plots and WAV reading present what others store.
- **FPGA**: clocked logic. Packer, chirp generator and player
  appear only as what the drivers see of them: an end of packet that may come early,
  late, never or with an error, a transmission that may not end. Back-pressure and overflow inside the
  packer are not modelled: the firmware does not observe them.
- **Start-up and checks**: `main.c`, BSP checks, clocks, the GPIO shadow register, the digit automaton
  of the number prompt, the diagnosis of the motor at start-up: sequential,
  without state afterwards. UDP discovery; reports and wording; byte layouts and wrong
  payload lengths.
- Vendor drivers, lwIP, FreeRTOS, the Tic, the AXI DMA and the IIC controller are external: the
  models use what their callers rely on.

## 8. Plan

| # | Module | Question | State |
|---|---|---|---|
| 1 | FrameTransfer, FramePool | is any capture lost, mixed up or stuck? | checked; safety and the refinement of `CaptureDelivery` proved |
| 2 | Scan360, RevolutionScan | do rounded moves close the circle? | checked and proved |
| 3 | Experiment, MeasurementCycle | Stop, faults and deadlines in any order | checked; all safety proved |
| 4 | Supervisor | stall found in time, no false alarm | checked; all safety proved |
| 5 | ControlServer | late answers, late requests, dead sessions | checked; safety and the refinement of `ControlService` proved |
| 6 | ControlService, WaveformUpload | is what plays what was applied? | checked; all safety proved, also behind the server |
| 7 | Capture | is a published frame whole? | checked; proved |
| 8 | Stepper | where does the plate stand, does a fault stop it? | checked; safety proved |
| 9 | Codec | is the output on only behind a complete start-up? | checked; proved |

No safety property of a passing run is left to prove. Composing `Capture` and `Stepper` with
`Experiment` in place of its outcomes is left out: the product is out of reach for TLC, and
`Experiment` lets either of them succeed or fail wherever the coordinator can tell the
difference.
