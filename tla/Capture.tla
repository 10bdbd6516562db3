------------------------------- MODULE Capture -------------------------------
(***************************************************************************)
(* The recording of one microphone frame: sonar_mic.c over the AXI DMA and *)
(* its interrupt of sonar_mic_zynq.c, with the part of the experiment loop *)
(* that starts a capture, takes its event and publishes its buffer         *)
(* (sonar_experiment_coordinator.c).                                       *)
(*                                                                         *)
(* The DMA writes memory behind the CPU cache, and its interrupt may come  *)
(* between any two steps of the task. The time stamps are kept as ages;    *)
(* the task may be kept from its next step for some ticks, by the I2C bus  *)
(* or by other tasks of its priority. A GPIO update cannot fail after its  *)
(* initialization. sonar_mic_init runs for every capture, so its           *)
(* generation is always 1 and filters nothing; it is left out, with the    *)
(* overflow flag, which this hardware does not report. The measurement     *)
(* cycle is outside: it may fail at any time, which cancels a capture.     *)
(***************************************************************************)
EXTENDS Naturals, Sequences

CONSTANTS
  Buffers,                      \* the slots of the frame pool, from 1
  MaxCaptures,                  \* bound on the captures of a behaviour
  Words,                        \* SONAR_ACQ_BYTES, the length of a frame
  CaptureTicks,                 \* timeout_ticks
  MaxLag                        \* ticks from reading the clock to its use

ASSUME CaptureAssumption ==
  /\ Words \in Nat \ {0} /\ CaptureTicks \in Nat \ {0} /\ MaxLag \in Nat
  /\ MaxCaptures \in Nat /\ Buffers \subseteq Nat \ {0}

VARIABLES
  mic,                          \* sonar_mic_t, and the buffer being filled
  hardware,                     \* the interrupt and its single event
  dma,                          \* the DMA engine
  memory, cache,                \* what DRAM holds, what the CPU cache holds
  pool,                         \* who has a buffer, and which frame it is
  captures,                     \* number of captures begun
  loop, lag                     \* the experiment task, the age of its `tick`

captureVars ==
  <<mic, hardware, dma, memory, cache, pool, captures, loop, lag>>

NoBuffer == 0
Empty == [capture |-> 0, words |-> 0]
Whole(n) == [capture |-> n, words |-> Words]
MaxAge == CaptureTicks + MaxLag + 1

Contents == [capture : 0 .. MaxCaptures, words : 0 .. Words]
(* A line of the cache: invalid, or a copy of what memory held.            *)
Line == {<<>>} \cup {<<c>> : c \in Contents}

CaptureInit ==
  /\ mic = [state |-> "IDLE", fault |-> "OK", owned |-> FALSE,
            buffer |-> NoBuffer, age |-> 0]
  /\ hardware = [enabled |-> FALSE, pending |-> FALSE, flag |-> "DONE",
                 words |-> 0, age |-> 0]
  /\ dma = [state |-> "HALTED", error |-> FALSE, irq |-> FALSE, words |-> 0]
  /\ memory = [b \in Buffers |-> Empty] /\ cache = [b \in Buffers |-> <<>>]
  /\ pool = [b \in Buffers |-> [state |-> "FREE", frame |-> 0]]
  /\ captures = 0 /\ loop = "CYCLE" /\ lag = 0

(* What the CPU reads: the cache if it has the line, else memory.          *)
ReadByCpu(b) == IF cache[b] = <<>> THEN memory[b] ELSE cache[b][1]

task(next) == loop' = next /\ UNCHANGED <<captures, lag>>

-----------------------------------------------------------------------------
(* fail, with the engine in state d. abort_dma resets the engine if it owns *)
(* the memory; it may see the end of the reset too late, or the engine goes *)
(* on. The interrupt is off in either case. A fault is final until a board  *)
(* reset, so nobody asks for an event that is still pending: it is dropped. *)

Reset(d) == [d EXCEPT !.state = "HALTED", !.error = FALSE, !.irq = FALSE]

MicFails(m, d, fault) ==
  LET failed == [m EXCEPT !.state = "FAULT", !.fault = fault]
  IN /\ hardware' = [hardware EXCEPT !.enabled = FALSE, !.pending = FALSE,
                                         !.age = 0]
     /\ \/ /\ m.owned /\ dma' = Reset(d)
           /\ mic' \in {failed, [failed EXCEPT !.owned = FALSE]}
        \/ mic' = failed /\ dma' = d

(* finish_buffer: the engine idle, then the stale lines dropped.           *)

(* Variant with a bug: the cache is not invalidated.                       *)
KeptLines(b) == cache

Invalidated(b) == [cache EXCEPT ![b] = <<>>]

Finishable == dma.state = "IDLE" /\ ~dma.error

-----------------------------------------------------------------------------
(* The task. A capture starts in a free buffer: sonar_mic_init, and        *)
(* sonar_mic_start with prepare_buffer, arm_dma and trigger_capture.       *)

FirstFree(b) ==
  pool[b].state = "FREE" /\ \A c \in 1 .. b - 1 : pool[c].state # "FREE"

Started(b) ==
  [state |-> "CAPTURING", fault |-> "OK", owned |-> TRUE, buffer |-> b, age |-> 0]

Prepared == dma.state \in {"HALTED", "IDLE"} /\ ~dma.error

Running == [dma EXCEPT !.state = "RUN", !.irq = FALSE, !.words = 0]

(* The old interrupt is acknowledged before the engine is armed. Registers *)
(* written in part may leave it halted or set it running.                  *)
PartlyArmed == {[dma EXCEPT !.irq = FALSE], Running}

StartCapture(b) ==
  /\ loop = "CYCLE" /\ mic.state = "IDLE"
  /\ FirstFree(b) /\ captures < MaxCaptures
  /\ pool' = [pool EXCEPT ![b].state = "FILLING"]
  /\ captures' = captures + 1 /\ UNCHANGED <<lag, memory>>
  /\ \/ /\ Prepared
        /\ mic' = Started(b) /\ loop' = "PULSE"
        /\ hardware' = [hardware EXCEPT !.pending = FALSE, !.enabled = TRUE]
        /\ dma' = Running
        /\ cache' = [cache EXCEPT ![b] = <<>>]
     \/ /\ Prepared
        /\ \E d \in PartlyArmed : MicFails(Started(b), d, "ARM_FAILED")
        /\ cache' = [cache EXCEPT ![b] = <<>>] /\ loop' = "TOP"
     \/ /\ ~Prepared
        /\ MicFails([Started(b) EXCEPT !.owned = FALSE], dma, "PREPARE_FAILED")
        /\ UNCHANGED cache /\ loop' = "TOP"

NoCapture == loop = "CYCLE" /\ task("TOP")
             /\ UNCHANGED <<mic, hardware, dma, memory, cache, pool>>

(* The trigger is high for one tick at least.                              *)
EndPulse ==
  /\ loop = "PULSE" /\ mic.age > 0 /\ task("TOP")
  /\ UNCHANGED <<mic, hardware, dma, memory, cache, pool>>

(* sonar_mic_cancel at the end of an iteration: the cycle is in fault, for *)
(* whatever reason, while the microphone records.                          *)
CancelCapture ==
  /\ loop = "TOP" /\ mic.state = "CAPTURING"
  /\ MicFails(mic, dma, "CANCELLED")
  /\ UNCHANGED <<memory, cache, pool, captures, loop, lag>>

(* The clock is read for the microphone.                                   *)
ReadTick ==
  /\ loop = "TOP" /\ loop' = "EVENT" /\ lag' = 0
  /\ UNCHANGED <<mic, hardware, dma, memory, cache, pool, captures>>

(* now - started and event->tick - started reach the deadline; an event    *)
(* that is younger than `now` is from the future.                          *)
Overdue == mic.age - lag >= CaptureTicks

EventLate ==
  \/ Overdue
  \/ mic.age - hardware.age >= CaptureTicks
  \/ hardware.age < lag

RightLength == hardware.words = Words

(* sonar_mic_event                                                         *)
Event ==
  \/ hardware.flag = "ERROR" /\ MicFails(mic, dma, "DMA_ERROR") /\ UNCHANGED cache
  \/ /\ hardware.flag = "DONE" /\ EventLate
     /\ MicFails(mic, dma, "TIMEOUT") /\ UNCHANGED cache
  \/ /\ hardware.flag = "DONE" /\ ~EventLate /\ ~RightLength
     /\ MicFails(mic, dma, "BAD_LENGTH") /\ UNCHANGED cache
  \/ /\ hardware.flag = "DONE" /\ ~EventLate /\ RightLength /\ ~Finishable
     /\ MicFails(mic, dma, "FINISH_FAILED") /\ UNCHANGED cache
  \/ /\ hardware.flag = "DONE" /\ ~EventLate /\ RightLength /\ Finishable
     /\ mic' = [mic EXCEPT !.state = "READY", !.owned = FALSE, !.age = 0]
     /\ cache' = Invalidated(mic.buffer)
     /\ hardware' = [hardware EXCEPT !.pending = FALSE, !.age = 0]
     /\ UNCHANGED dma

(* sonar_mic_zynq_take_event, sonar_mic_event and sonar_mic_poll.          *)
TakeEvent ==
  /\ loop = "EVENT" /\ mic.state = "CAPTURING" /\ hardware.pending
  /\ Event /\ task("FINISH")
  /\ UNCHANGED <<memory, pool>>

NoEvent ==
  /\ loop = "EVENT" /\ ~(mic.state = "CAPTURING" /\ hardware.pending)
  /\ task("FINISH")
  /\ IF mic.state = "CAPTURING" /\ Overdue THEN MicFails(mic, dma, "TIMEOUT")
     ELSE UNCHANGED <<mic, hardware, dma>>
  /\ UNCHANGED <<memory, cache, pool>>

(* The frame is published, or after a Stop discarded, when the transmitter *)
(* is done too; sonar_mic_release gives the microphone back.               *)
Finish(state) ==
  /\ loop = "FINISH" /\ mic.state = "READY" /\ task("CYCLE")
  /\ pool' = [pool EXCEPT ![mic.buffer] = [state |-> state, frame |-> captures]]
  /\ mic' = [mic EXCEPT !.state = "IDLE", !.buffer = NoBuffer]
  /\ UNCHANGED <<hardware, dma, memory, cache>>

Publish == Finish("READY")
Discard == Finish("FREE")

KeepFilling ==
  /\ loop = "FINISH" /\ task("CYCLE")
  /\ UNCHANGED <<mic, hardware, dma, memory, cache, pool>>

CaptureTask ==
  \/ \E b \in Buffers : StartCapture(b)
  \/ NoCapture \/ EndPulse \/ CancelCapture \/ ReadTick \/ TakeEvent \/ NoEvent
  \/ Publish \/ Discard \/ KeepFilling

-----------------------------------------------------------------------------
(* dma_interrupt: one event, the rest is left to the task.                 *)
Interrupt ==
  /\ hardware.enabled /\ dma.irq
  /\ dma' = [dma EXCEPT !.irq = FALSE]
  /\ hardware' = [enabled |-> FALSE, pending |-> TRUE,
                  flag |-> IF dma.error THEN "ERROR" ELSE "DONE",
                  words |-> dma.words, age |-> 0]
  /\ UNCHANGED <<mic, memory, cache, pool, captures, loop, lag>>

(* The engine: it writes the frame piece by piece and raises its interrupt *)
(* at the end of the packet, which may come early, and with an error.      *)
engine(d) ==
  dma' = d /\ UNCHANGED <<mic, hardware, cache, pool, captures, loop, lag>>

DmaWrites ==
  /\ dma.state = "RUN" /\ dma.words < Words
  /\ engine([dma EXCEPT !.words = @ + 1])
  /\ memory' = [memory EXCEPT ![mic.buffer] =
                  [capture |-> captures, words |-> dma.words + 1]]

DmaEnds ==
  /\ dma.state = "RUN" /\ dma.words > 0
  /\ engine([dma EXCEPT !.state = "IDLE", !.irq = TRUE]) /\ UNCHANGED memory

DmaError ==
  /\ ~dma.error
  /\ engine([dma EXCEPT !.state = "HALTED", !.error = TRUE, !.irq = TRUE])
  /\ UNCHANGED memory

(* The CPU fills a line when the Ethernet task reads a frame, and          *)
(* speculatively at any time; it may also drop one.                        *)
FillLine(b) ==
  /\ cache[b] = <<>> /\ cache' = [cache EXCEPT ![b] = <<memory[b]>>]
  /\ UNCHANGED <<mic, hardware, dma, memory, pool, captures, loop, lag>>

EvictLine(b) ==
  /\ cache[b] # <<>> /\ cache' = [cache EXCEPT ![b] = <<>>]
  /\ UNCHANGED <<mic, hardware, dma, memory, pool, captures, loop, lag>>

(* The Ethernet task has sent a frame.                                     *)
FrameSent(b) ==
  /\ pool[b].state = "READY" /\ pool' = [pool EXCEPT ![b].state = "FREE"]
  /\ UNCHANGED <<mic, hardware, dma, memory, cache, captures, loop, lag>>

CaptureTick ==
  /\ mic.state = "CAPTURING" /\ mic.age < MaxAge
  /\ loop = "EVENT" => lag < MaxLag
  /\ mic' = [mic EXCEPT !.age = @ + 1]
  /\ hardware' = IF hardware.pending THEN [hardware EXCEPT !.age = @ + 1]
                                     ELSE hardware
  /\ lag' = IF loop = "EVENT" THEN lag + 1 ELSE 0
  /\ UNCHANGED <<dma, memory, cache, pool, captures, loop>>

Surroundings ==
  \/ Interrupt \/ DmaWrites \/ DmaEnds \/ DmaError \/ CaptureTick
  \/ \E b \in Buffers : FillLine(b) \/ EvictLine(b) \/ FrameSent(b)

CaptureNext == CaptureTask \/ Surroundings

(* The task runs on every tick; the DMA and its interrupt may never come.  *)
CaptureFairness ==
  /\ WF_captureVars(CaptureTask) /\ WF_captureVars(CaptureTick)

CaptureSpec == CaptureInit /\ [][CaptureNext]_captureVars /\ CaptureFairness

-----------------------------------------------------------------------------
(* Properties *)

(* Every variable has its type.                                            *)
CaptureTypeOK ==
  /\ mic \in [state : {"IDLE", "CAPTURING", "READY", "FAULT"},
              fault : {"OK", "PREPARE_FAILED", "ARM_FAILED", "DMA_ERROR",
                       "BAD_LENGTH", "TIMEOUT", "FINISH_FAILED", "CANCELLED"},
              owned : BOOLEAN, buffer : Buffers \cup {NoBuffer},
              age : 0 .. MaxAge]
  /\ hardware \in [enabled : BOOLEAN, pending : BOOLEAN,
                   flag : {"DONE", "ERROR"}, words : 0 .. Words,
                   age : 0 .. MaxAge]
  /\ dma \in [state : {"HALTED", "IDLE", "RUN"}, error : BOOLEAN,
              irq : BOOLEAN, words : 0 .. Words]
  /\ memory \in [Buffers -> Contents] /\ cache \in [Buffers -> Line]
  /\ pool \in [Buffers -> [state : {"FREE", "FILLING", "READY"},
                           frame : 0 .. MaxCaptures]]
  /\ captures \in 0 .. MaxCaptures /\ lag \in 0 .. MaxLag
  /\ loop \in {"CYCLE", "PULSE", "TOP", "EVENT", "FINISH"}

(* What the CPU reads of a finished or published frame is the whole frame  *)
(* of its own capture, whatever the cache held before and however the      *)
(* engine ended; the engine is done with the buffer. It stays so while     *)
(* later captures fill other buffers.                                      *)
FrameIsWhole ==
  /\ mic.state = "READY" =>
       ReadByCpu(mic.buffer) = Whole(captures) /\ dma.state # "RUN"
  /\ \A b \in Buffers :
       pool[b].state = "READY" => ReadByCpu(b) = Whole(pool[b].frame)

(* A capture is given up as late only when its time is really over.        *)
TimeoutIsLate == mic.fault = "TIMEOUT" => mic.age >= CaptureTicks
=============================================================================
