---------------------------- MODULE DriverProofs ----------------------------
(***************************************************************************)
(* Proofs about the two drivers whose hardware writes behind their backs:  *)
(* the microphone capture and the start-up of the codec.                   *)
(*                                                                         *)
(* Capture: the types, and that a finished or published frame is the whole *)
(* frame of its own capture as the CPU reads it, for every number of       *)
(* buffers and captures and every frame length. The invariant CaptureInv   *)
(* follows a frame through memory: the engine writes only the buffer that  *)
(* the driver holds (Filling), what it has counted is what it has written  *)
(* (Written), the one interrupt of a capture reports that count after the  *)
(* end of the run (OneEvent), and from the invalidation on every line that *)
(* the cache fetches is the memory of a buffer that no one writes          *)
(* (Finished, Published).                                                  *)
(*                                                                         *)
(* Codec: the types, and that a write that counts as acknowledged has      *)
(* reached the codec, for every number of writes and every time limit. The *)
(* invariant CodecInv says where the controller can be while a write is    *)
(* under way (UnderWay) and while none is (AtRest), and that the interrupt *)
(* bits and the status that the task read one after the other still tell   *)
(* about the write when it uses them (ReadIsTrue): a Bus Not Busy bit      *)
(* means the end of this write, because the driver clears it with the      *)
(* address and again with the bytes.                                       *)
(***************************************************************************)
EXTENDS Codec, Capture, TLAPS

-----------------------------------------------------------------------------
(* The microphone capture *)

(* The DMA engine is behind the driver, and the buffer that it fills is    *)
(* the one that the driver has taken from the pool.                        *)
Filling ==
  /\ mic.state = "IDLE" => mic.buffer = NoBuffer
  /\ mic.state # "IDLE" =>
       mic.buffer \in Buffers /\ pool[mic.buffer].state = "FILLING"
  /\ dma.state = "RUN" => mic.state \in {"CAPTURING", "FAULT"}

(* What the engine counts is what it has written of this capture.          *)
Written ==
  mic.state = "CAPTURING" /\ dma.words > 0 =>
    memory[mic.buffer] = [capture |-> captures, words |-> dma.words]

(* There is one interrupt for a capture, at the end of the engine's run,   *)
(* and its event tells how far the engine came.                            *)
OneEvent ==
  /\ dma.irq => dma.state # "RUN"
  /\ hardware.enabled => mic.state = "CAPTURING" /\ ~hardware.pending
  /\ hardware.pending =>
       /\ mic.state = "CAPTURING" /\ dma.state # "RUN"
       /\ hardware.words = dma.words /\ hardware.age <= mic.age
  /\ ~hardware.pending => hardware.age = 0

(* A line of the cache is as it is in memory, or is not there.             *)
Fresh(b) == cache[b] = <<>> \/ cache[b] = <<memory[b]>>

(* A finished frame is in memory, and no stale line of it in the cache.    *)
Finished ==
  mic.state = "READY" => memory[mic.buffer] = Whole(captures) /\ Fresh(mic.buffer)

(* So is a published one.                                                  *)
Published ==
  \A b \in Buffers :
    pool[b].state = "READY" => memory[b] = Whole(pool[b].frame) /\ Fresh(b)

CaptureInv ==
  /\ CaptureTypeOK /\ Filling /\ Written /\ OneEvent /\ Finished /\ Published

-----------------------------------------------------------------------------
(* Numbers and types *)

(* What the assumptions on the constants give.                             *)
LEMMA CaptureNumbers ==
  /\ Words \in Nat /\ Words > 0 /\ MaxCaptures \in Nat /\ MaxLag \in Nat
  /\ CaptureTicks \in Nat /\ MaxAge \in Nat /\ MaxAge > 0
  /\ NoBuffer \notin Buffers
BY CaptureAssumption DEF MaxAge, NoBuffer

(* The types of the parts, by name.                                        *)
Faults ==
  {"OK", "PREPARE_FAILED", "ARM_FAILED", "DMA_ERROR", "BAD_LENGTH", "TIMEOUT",
   "FINISH_FAILED", "CANCELLED"}
MicKind ==
  [state : {"IDLE", "CAPTURING", "READY", "FAULT"}, fault : Faults,
   owned : BOOLEAN, buffer : Buffers \cup {NoBuffer}, age : 0 .. MaxAge]
HardwareKind ==
  [enabled : BOOLEAN, pending : BOOLEAN, flag : {"DONE", "ERROR"},
   words : 0 .. Words, age : 0 .. MaxAge]
DmaKind ==
  [state : {"HALTED", "IDLE", "RUN"}, error : BOOLEAN, irq : BOOLEAN,
   words : 0 .. Words]
PoolKind ==
  [Buffers -> [state : {"FREE", "FILLING", "READY"}, frame : 0 .. MaxCaptures]]
Stored == memory \in [Buffers -> Contents] /\ cache \in [Buffers -> Line]
Task ==
  /\ captures \in 0 .. MaxCaptures /\ lag \in 0 .. MaxLag
  /\ loop \in {"CYCLE", "PULSE", "TOP", "EVENT", "FINISH"}

(* The type invariant by its parts, now and in the next state.             *)
LEMMA CaptureTypes ==
  CaptureTypeOK <=>
    /\ mic \in MicKind /\ hardware \in HardwareKind /\ dma \in DmaKind
    /\ pool \in PoolKind /\ Stored /\ Task
BY DEF CaptureTypeOK, MicKind, Faults, HardwareKind, DmaKind, PoolKind, Stored, Task

LEMMA CaptureTypesNext ==
  CaptureTypeOK' <=>
    /\ mic' \in MicKind /\ hardware' \in HardwareKind /\ dma' \in DmaKind
    /\ pool' \in PoolKind /\ Stored' /\ Task'
BY DEF CaptureTypeOK, MicKind, Faults, HardwareKind, DmaKind, PoolKind, Stored, Task

(* Initially there is no frame and no interrupt.                           *)
LEMMA CaptureStarts == CaptureInit => CaptureInv
<1> SUFFICES ASSUME CaptureInit PROVE CaptureInv
  OBVIOUS
<1>1. mic \in MicKind /\ hardware \in HardwareKind /\ dma \in DmaKind
  <2>1. 0 \in 0 .. MaxAge /\ 0 \in 0 .. Words /\ NoBuffer \in Buffers \cup {NoBuffer}
    BY CaptureNumbers
  <2>2. QED
    BY <2>1 DEF CaptureInit, MicKind, Faults, HardwareKind, DmaKind
<1>2. pool \in PoolKind
  BY CaptureNumbers DEF CaptureInit, PoolKind
<1>3. Stored /\ Task
  BY CaptureNumbers DEF CaptureInit, Stored, Task, Line, Contents, Empty
<1>4. Filling /\ Written /\ OneEvent /\ Finished /\ Published
  BY DEF CaptureInit, Filling, Written, OneEvent, Finished, Published
<1>5. QED
  BY <1>1, <1>2, <1>3, <1>4, CaptureTypes DEF CaptureInv

-----------------------------------------------------------------------------
(* The task *)

(* A failure leaves no interrupt and no event behind, whatever the engine  *)
(* was left in.                                                            *)
LEMMA FailureIsFinal ==
  ASSUME CaptureTypeOK, NEW m \in MicKind, NEW fault \in Faults,
         NEW d \in DmaKind, d.irq => d.state # "RUN",
         MicFails(m, d, fault), m.buffer \in Buffers,
         pool'[m.buffer].state = "FILLING"
  PROVE  /\ mic' \in MicKind /\ hardware' \in HardwareKind /\ dma' \in DmaKind
         /\ Filling' /\ Written' /\ OneEvent' /\ Finished'
<1>1. hardware \in HardwareKind
  BY CaptureTypes
<1>2. hardware' = [hardware EXCEPT !.enabled = FALSE, !.pending = FALSE, !.age = 0]
  BY DEF MicFails
<1>3. hardware' \in HardwareKind
  <2>1. 0 \in 0 .. MaxAge
    BY CaptureNumbers
  <2>2. QED
    BY <1>1, <1>2, <2>1 DEF HardwareKind
<1>4. /\ hardware'.enabled = FALSE /\ hardware'.pending = FALSE
      /\ hardware'.age = 0
  BY <1>1, <1>2 DEF HardwareKind
<1> DEFINE failed == [m EXCEPT !.state = "FAULT", !.fault = fault]
<1>5. /\ failed \in MicKind /\ failed.state = "FAULT" /\ failed.buffer = m.buffer
  BY DEF MicKind
<1>6. /\ mic' \in {failed, [failed EXCEPT !.owned = FALSE]}
      /\ dma' \in {d, Reset(d)}
  BY DEF MicFails
<1>7. /\ mic' \in MicKind /\ mic'.state = "FAULT" /\ mic'.buffer = m.buffer
  <2>1. mic' = failed \/ mic' = [failed EXCEPT !.owned = FALSE]
    BY <1>6
  <2> HIDE DEF failed
  <2>2. QED
    BY <1>5, <2>1 DEF MicKind
<1>8. dma' \in DmaKind /\ (dma'.irq => dma'.state # "RUN")
  <2>1. CASE dma' = Reset(d)
    BY <2>1 DEF DmaKind, Reset
  <2>2. CASE dma' = d
    BY <2>2
  <2>3. QED
    BY <1>6, <2>1, <2>2
<1>9. Filling' /\ Written' /\ OneEvent' /\ Finished'
  BY <1>4, <1>7, <1>8 DEF Filling, Written, OneEvent, Finished
<1>10. QED
  BY <1>3, <1>7, <1>8, <1>9

(* sonar_mic_init and sonar_mic_start, in a free buffer.                   *)
LEMMA StartKeeps ==
  ASSUME CaptureInv, NEW b \in Buffers, StartCapture(b)
  PROVE  CaptureInv'
<1> CaptureTypeOK /\ OneEvent
  BY DEF CaptureInv
<1>1. /\ pool' = [pool EXCEPT ![b].state = "FILLING"] /\ captures' = captures + 1
      /\ memory' = memory /\ lag' = lag /\ captures < MaxCaptures
      /\ mic.state = "IDLE" /\ pool[b].state = "FREE"
  BY DEF StartCapture, FirstFree
<1>2. Started(b) \in MicKind /\ Started(b).buffer = b
  BY CaptureNumbers DEF Started, MicKind, Faults
<1>3. pool' \in PoolKind /\ pool'[b].state = "FILLING"
  BY <1>1, CaptureTypes DEF PoolKind
<1>4. \A c \in Buffers : c # b => pool'[c] = pool[c]
  BY <1>1, CaptureTypes DEF PoolKind
<1>5. cache' = cache \/ cache' = [cache EXCEPT ![b] = <<>>]
  BY DEF StartCapture
<1>6. Stored'
  BY <1>1, <1>5 DEF CaptureTypeOK, Stored, Line
<1>7. Task'
  <2>1. loop' \in {"PULSE", "TOP"}
    BY DEF StartCapture
  <2>2. captures + 1 \in 0 .. MaxCaptures
    BY <1>1, CaptureNumbers DEF CaptureTypeOK
  <2>3. QED
    BY <1>1, <2>1, <2>2 DEF CaptureTypeOK, Task
<1>8. Published'
  <2> SUFFICES ASSUME NEW c \in Buffers, pool'[c].state = "READY"
               PROVE  memory'[c] = Whole(pool'[c].frame) /\ Fresh(c)'
    BY DEF Published
  <2>1. c # b /\ pool'[c] = pool[c]
    BY <1>3, <1>4
  <2>2. memory[c] = Whole(pool[c].frame) /\ Fresh(c)
    BY <2>1 DEF CaptureInv, Published
  <2>3. cache'[c] = cache[c]
    BY <1>5, <2>1 DEF CaptureTypeOK
  <2>4. QED
    BY <1>1, <2>1, <2>2, <2>3 DEF Fresh
<1>9. ASSUME NEW d \in PartlyArmed, MicFails(Started(b), d, "ARM_FAILED")
      PROVE  CaptureInv'
  <2>1. "ARM_FAILED" \in Faults
    BY DEF Faults
  <2>4. d \in DmaKind /\ ~d.irq
    <3>1. 0 \in 0 .. Words
      BY CaptureNumbers
    <3>2. dma \in DmaKind
      BY CaptureTypes
    <3>3. QED
      BY <3>1, <3>2 DEF DmaKind, PartlyArmed, Running
  <2>2. /\ mic' \in MicKind /\ hardware' \in HardwareKind /\ dma' \in DmaKind
        /\ Filling' /\ Written' /\ OneEvent' /\ Finished'
    BY <1>2, <1>3, <1>9, <2>1, <2>4, FailureIsFinal
  <2>3. QED
    BY <1>3, <1>6, <1>7, <1>8, <2>2, CaptureTypesNext DEF CaptureInv
<1>10. CASE MicFails([Started(b) EXCEPT !.owned = FALSE], dma, "PREPARE_FAILED")
  <2>1. "PREPARE_FAILED" \in Faults
    BY DEF Faults
  <2>2. /\ [Started(b) EXCEPT !.owned = FALSE] \in MicKind
        /\ [Started(b) EXCEPT !.owned = FALSE].buffer = b
    BY <1>2 DEF MicKind
  <2>3. /\ mic' \in MicKind /\ hardware' \in HardwareKind /\ dma' \in DmaKind
        /\ Filling' /\ Written' /\ OneEvent' /\ Finished'
    <3>1. dma \in DmaKind /\ (dma.irq => dma.state # "RUN")
      BY CaptureTypes DEF OneEvent
    <3>2. QED
      BY <1>3, <1>10, <2>1, <2>2, <3>1, FailureIsFinal
  <2>4. QED
    BY <1>3, <1>6, <1>7, <1>8, <2>3, CaptureTypesNext DEF CaptureInv
<1>11. CASE /\ mic' = Started(b)
            /\ hardware' = [hardware EXCEPT !.pending = FALSE, !.enabled = TRUE]
            /\ dma' = Running
  <2>1. mic' \in MicKind /\ mic'.state = "CAPTURING" /\ mic'.buffer = b
    BY <1>2, <1>11 DEF Started
  <2>2. ~hardware.pending /\ hardware.age = 0
    BY <1>1 DEF OneEvent, CaptureTypeOK
  <2>3. hardware' \in HardwareKind /\ ~hardware'.pending /\ hardware'.age = 0
    BY <1>11, <2>2, CaptureTypes DEF HardwareKind
  <2>4. dma' \in DmaKind /\ ~dma'.irq /\ dma'.words = 0
    <3>1. 0 \in 0 .. Words
      BY CaptureNumbers
    <3>2. dma \in DmaKind
      BY CaptureTypes
    <3>3. QED
      BY <1>11, <3>1, <3>2 DEF DmaKind, Running
  <2>5. Filling' /\ Written' /\ OneEvent' /\ Finished'
    BY <1>3, <2>1, <2>3, <2>4 DEF Filling, Written, OneEvent, Finished
  <2>6. QED
    BY <1>3, <1>6, <1>7, <1>8, <2>1, <2>3, <2>4, <2>5, CaptureTypesNext DEF CaptureInv
<1>12. QED
  BY <1>9, <1>10, <1>11 DEF StartCapture

(* Steps of the loop that touch nothing of the capture.                    *)
LEMMA LoopKeeps ==
  ASSUME CaptureInv, NoCapture \/ EndPulse \/ ReadTick \/ KeepFilling
  PROVE  CaptureInv'
<1>1. /\ mic' = mic /\ hardware' = hardware /\ dma' = dma /\ memory' = memory
      /\ cache' = cache /\ pool' = pool /\ captures' = captures
  BY DEF NoCapture, EndPulse, ReadTick, KeepFilling, task
<1>2. /\ lag' = lag \/ lag' = 0
      /\ loop' \in {"CYCLE", "TOP", "EVENT"}
  BY DEF NoCapture, EndPulse, ReadTick, KeepFilling, task
<1>3. CaptureTypeOK'
  BY <1>1, <1>2, CaptureNumbers DEF CaptureInv, CaptureTypeOK
<1>4. Filling' /\ Written' /\ OneEvent' /\ Finished' /\ Published'
  BY <1>1 DEF CaptureInv, Filling, Written, OneEvent, Finished, Published, Fresh
<1>5. QED
  BY <1>3, <1>4 DEF CaptureInv

(* A capture under way fails: memory, cache and pool stay as they are.     *)
LEMMA FailedCaptureKeeps ==
  ASSUME CaptureInv, mic.state = "CAPTURING", NEW fault \in Faults,
         MicFails(mic, dma, fault), loop' \in {loop, "FINISH"},
         UNCHANGED <<captures, lag, memory, cache, pool>>
  PROVE  CaptureInv'
<1> CaptureTypeOK /\ OneEvent
  BY DEF CaptureInv
<1>1. mic \in MicKind /\ mic.buffer \in Buffers /\ pool[mic.buffer].state = "FILLING"
  BY CaptureTypes DEF CaptureInv, Filling
<1>2. pool'[mic.buffer].state = "FILLING"
  BY <1>1
<1>3. /\ mic' \in MicKind /\ hardware' \in HardwareKind /\ dma' \in DmaKind
      /\ Filling' /\ Written' /\ OneEvent' /\ Finished'
  <2>1. dma \in DmaKind /\ (dma.irq => dma.state # "RUN")
    BY CaptureTypes DEF OneEvent
  <2>2. QED
    BY <1>1, <1>2, <2>1, FailureIsFinal
<1>4. pool' \in PoolKind /\ Stored' /\ Task'
  BY CaptureTypes DEF Stored, Task
<1>5. Published'
  BY DEF CaptureInv, Published, Fresh
<1>6. QED
  BY <1>3, <1>4, <1>5, CaptureTypesNext DEF CaptureInv

(* The event of the end: the frame is finished only with every word of it, *)
(* an idle engine and no stale line.                                       *)
LEMMA TakeEventKeeps ==
  ASSUME CaptureInv, TakeEvent
  PROVE  CaptureInv'
<1> CaptureTypeOK
  BY DEF CaptureInv
<1>1. /\ mic.state = "CAPTURING" /\ hardware.pending /\ loop' = "FINISH"
      /\ captures' = captures /\ lag' = lag /\ memory' = memory /\ pool' = pool
  BY DEF TakeEvent, task
<1>2. ASSUME NEW fault \in Faults, MicFails(mic, dma, fault), UNCHANGED cache
      PROVE  CaptureInv'
  BY <1>1, <1>2, FailedCaptureKeeps
<1>3. CASE /\ RightLength /\ Finishable
           /\ mic' = [mic EXCEPT !.state = "READY", !.owned = FALSE, !.age = 0]
           /\ cache' = Invalidated(mic.buffer)
           /\ hardware' = [hardware EXCEPT !.pending = FALSE, !.age = 0]
           /\ UNCHANGED dma
  <2>1. mic.buffer \in Buffers /\ pool[mic.buffer].state = "FILLING"
    BY <1>1 DEF CaptureInv, Filling
  <2>2. 0 \in 0 .. MaxAge
    BY CaptureNumbers
  <2>3. mic' \in MicKind /\ mic'.state = "READY" /\ mic'.buffer = mic.buffer
    BY <1>3, <2>2, CaptureTypes DEF MicKind
  <2>4. hardware.enabled = FALSE
    BY <1>1 DEF CaptureInv, OneEvent, CaptureTypeOK
  <2>5. /\ hardware' \in HardwareKind /\ hardware'.enabled = FALSE
        /\ hardware'.pending = FALSE /\ hardware'.age = 0
    BY <1>3, <2>2, <2>4, CaptureTypes DEF HardwareKind
  <2>6. cache' = [cache EXCEPT ![mic.buffer] = <<>>]
    BY <1>3 DEF Invalidated
  <2>7. Stored'
    BY <1>1, <2>6 DEF CaptureTypeOK, Stored, Line
  <2>8. Task'
    BY <1>1 DEF CaptureTypeOK, Task
  <2>9. dma.state = "IDLE" /\ dma' = dma
    BY <1>3 DEF Finishable
  <2>10. CaptureTypeOK'
    BY <1>1, <2>3, <2>5, <2>7, <2>8, <2>9, CaptureTypes, CaptureTypesNext
  <2>11. memory[mic.buffer] = Whole(captures)
    <3>1. hardware.words = dma.words /\ hardware.words = Words
      BY <1>1, <1>3 DEF CaptureInv, OneEvent, RightLength
    <3>2. QED
      BY <1>1, <3>1, CaptureNumbers DEF CaptureInv, Written, Whole
  <2>12. Filling' /\ Written' /\ OneEvent' /\ Finished'
    <3>1. cache'[mic.buffer] = <<>>
      BY <2>1, <2>6 DEF CaptureTypeOK
    <3>2. dma'.irq => dma'.state # "RUN"
      BY <2>9
    <3>3. QED
      BY <1>1, <2>1, <2>3, <2>5, <2>9, <2>11, <3>1, <3>2
      DEF Filling, Written, OneEvent, Finished, Fresh
  <2>13. Published'
    <3> SUFFICES ASSUME NEW c \in Buffers, pool[c].state = "READY"
                 PROVE  memory[c] = Whole(pool[c].frame) /\ Fresh(c)'
      BY <1>1 DEF Published
    <3>1. cache'[c] = cache[c]
      BY <2>1, <2>6 DEF CaptureTypeOK
    <3>2. QED
      BY <1>1, <3>1 DEF CaptureInv, Published, Fresh
  <2>14. QED
    BY <2>10, <2>12, <2>13 DEF CaptureInv
<1>4. QED
  BY <1>2, <1>3 DEF TakeEvent, Event, Faults

(* The cycle is in fault, for whatever reason.                             *)
LEMMA CancelKeeps ==
  ASSUME CaptureInv, CancelCapture
  PROVE  CaptureInv'
BY FailedCaptureKeeps DEF CancelCapture, Faults

(* No event: a capture that is overdue fails.                              *)
LEMMA NoEventKeeps ==
  ASSUME CaptureInv, NoEvent
  PROVE  CaptureInv'
<1> CaptureTypeOK
  BY DEF CaptureInv
<1>1. /\ loop' = "FINISH" /\ captures' = captures /\ lag' = lag
      /\ memory' = memory /\ cache' = cache /\ pool' = pool
  BY DEF NoEvent, task
<1>2. CASE mic.state = "CAPTURING" /\ MicFails(mic, dma, "TIMEOUT")
  BY <1>1, <1>2, FailedCaptureKeeps DEF Faults
<1>3. CASE UNCHANGED <<mic, hardware, dma>>
  <2>1. CaptureTypeOK'
    BY <1>1, <1>3 DEF CaptureTypeOK
  <2>2. Filling' /\ Written' /\ OneEvent' /\ Finished' /\ Published'
    BY <1>1, <1>3 DEF CaptureInv, Filling, Written, OneEvent, Finished, Published, Fresh
  <2>3. QED
    BY <2>1, <2>2 DEF CaptureInv
<1>4. QED
  BY <1>2, <1>3 DEF NoEvent

(* The finished frame is published, or discarded.                          *)
LEMMA FinishKeeps ==
  ASSUME CaptureInv, NEW state \in {"READY", "FREE"}, Finish(state)
  PROVE  CaptureInv'
<1> CaptureTypeOK
  BY DEF CaptureInv
<1>1. /\ mic.state = "READY" /\ loop' = "CYCLE" /\ captures' = captures /\ lag' = lag
      /\ pool' = [pool EXCEPT ![mic.buffer] = [state |-> state, frame |-> captures]]
      /\ mic' = [mic EXCEPT !.state = "IDLE", !.buffer = NoBuffer]
      /\ hardware' = hardware /\ dma' = dma /\ memory' = memory /\ cache' = cache
  BY DEF Finish, task
<1>2. mic.buffer \in Buffers /\ dma.state # "RUN"
  BY <1>1 DEF CaptureInv, Filling
<1>3. mic' \in MicKind /\ mic'.state = "IDLE" /\ mic'.buffer = NoBuffer
  BY <1>1, CaptureTypes DEF MicKind
<1>4. /\ pool' \in PoolKind
      /\ pool'[mic.buffer] = [state |-> state, frame |-> captures]
      /\ \A c \in Buffers : c # mic.buffer => pool'[c] = pool[c]
  BY <1>1, <1>2, CaptureTypes DEF PoolKind, Task
<1>5. CaptureTypeOK'
  <2>1. Stored' /\ Task'
    BY <1>1 DEF CaptureTypeOK, Stored, Task
  <2>2. QED
    BY <1>1, <1>3, <1>4, <2>1, CaptureTypes, CaptureTypesNext
<1>6. Filling' /\ Written' /\ Finished'
  BY <1>1, <1>2, <1>3 DEF Filling, Written, Finished
<1>7. OneEvent'
  BY <1>1, <1>3 DEF CaptureInv, OneEvent
<1>8. Published'
  <2> SUFFICES ASSUME NEW c \in Buffers, pool'[c].state = "READY"
               PROVE  memory[c] = Whole(pool'[c].frame) /\ Fresh(c)
    BY <1>1 DEF Published, Fresh
  <2>1. CASE c = mic.buffer
    BY <1>1, <1>4, <2>1 DEF CaptureInv, Finished
  <2>2. CASE c # mic.buffer
    BY <1>4, <2>2 DEF CaptureInv, Published
  <2>3. QED
    BY <2>1, <2>2
<1>9. QED
  BY <1>5, <1>6, <1>7, <1>8 DEF CaptureInv

-----------------------------------------------------------------------------
(* The engine, its interrupt and the cache *)

(* The interrupt reports how far the engine came.                          *)
LEMMA InterruptKeeps ==
  ASSUME CaptureInv, Interrupt
  PROVE  CaptureInv'
<1> CaptureTypeOK
  BY DEF CaptureInv
<1>1. /\ hardware.enabled /\ dma.irq /\ mic' = mic /\ memory' = memory
      /\ dma' = [dma EXCEPT !.irq = FALSE]
      /\ cache' = cache /\ pool' = pool /\ captures' = captures /\ loop' = loop
      /\ lag' = lag
  BY DEF Interrupt
<1>2. mic.state = "CAPTURING" /\ dma.state # "RUN"
  BY <1>1 DEF CaptureInv, OneEvent
<1>3. /\ dma' \in DmaKind /\ dma'.irq = FALSE /\ dma'.state = dma.state
      /\ dma'.words = dma.words
  BY <1>1, CaptureTypes DEF DmaKind
<1>4. /\ hardware' \in HardwareKind /\ hardware'.enabled = FALSE
      /\ hardware'.pending = TRUE /\ hardware'.words = dma.words
      /\ hardware'.age = 0
  <2>1. 0 \in 0 .. MaxAge /\ dma.words \in 0 .. Words
    BY CaptureNumbers DEF CaptureTypeOK
  <2>2. PICK flag \in {"DONE", "ERROR"} :
          hardware' = [enabled |-> FALSE, pending |-> TRUE, flag |-> flag,
                       words |-> dma.words, age |-> 0]
    BY DEF Interrupt
  <2>3. QED
    BY <2>1, <2>2 DEF HardwareKind
<1>5. CaptureTypeOK'
  BY <1>1, <1>3, <1>4, CaptureTypes, CaptureTypesNext DEF Stored, Task
<1>6. Filling' /\ Written' /\ Finished' /\ Published'
  BY <1>1, <1>3
  DEF CaptureInv, Filling, Written, Finished, Published, Fresh
<1>7. OneEvent'
  <2>1. 0 <= mic.age
    BY DEF CaptureTypeOK
  <2>2. QED
    BY <1>1, <1>2, <1>3, <1>4, <2>1 DEF OneEvent
<1>8. QED
  BY <1>5, <1>6, <1>7 DEF CaptureInv

(* The engine writes a piece, into a buffer that nobody else has.          *)
LEMMA DmaWritesKeeps ==
  ASSUME CaptureInv, DmaWrites
  PROVE  CaptureInv'
<1> CaptureTypeOK
  BY DEF CaptureInv
<1> DEFINE piece == [capture |-> captures, words |-> dma.words + 1]
<1>1. /\ dma.state = "RUN" /\ dma.words < Words
      /\ dma' = [dma EXCEPT !.words = dma.words + 1]
      /\ memory' = [memory EXCEPT ![mic.buffer] = piece]
      /\ mic' = mic /\ hardware' = hardware /\ cache' = cache /\ pool' = pool
      /\ captures' = captures /\ loop' = loop /\ lag' = lag
  BY DEF DmaWrites, engine
<1>2. /\ mic.state \in {"CAPTURING", "FAULT"} /\ mic.buffer \in Buffers
      /\ pool[mic.buffer].state = "FILLING"
  BY <1>1 DEF CaptureInv, Filling
<1>3. dma.words + 1 \in 0 .. Words
  BY <1>1, CaptureNumbers DEF CaptureTypeOK
<1>4. /\ dma' \in DmaKind /\ dma'.state = dma.state /\ dma'.irq = dma.irq
      /\ dma'.words = dma.words + 1
  BY <1>1, <1>3, CaptureTypes DEF DmaKind
<1>5. /\ memory'[mic.buffer] = piece
      /\ \A c \in Buffers : c # mic.buffer => memory'[c] = memory[c]
  BY <1>1, <1>2 DEF CaptureTypeOK
<1>6. Stored'
  <2>1. piece \in Contents
    BY <1>3 DEF CaptureTypeOK, Contents
  <2> HIDE DEF piece
  <2>2. QED
    BY <1>1, <2>1 DEF CaptureTypeOK, Stored
<1>7. CaptureTypeOK'
  BY <1>1, <1>4, <1>6, CaptureTypes, CaptureTypesNext DEF Task
<1>8. ~hardware.pending
  BY <1>1 DEF CaptureInv, OneEvent
<1>9. Filling' /\ Written' /\ OneEvent' /\ Finished'
  BY <1>1, <1>2, <1>4, <1>5, <1>8
  DEF CaptureInv, Filling, Written, OneEvent, Finished
<1>10. Published'
  <2> SUFFICES ASSUME NEW c \in Buffers, pool[c].state = "READY"
               PROVE  memory'[c] = Whole(pool[c].frame) /\ Fresh(c)'
    BY <1>1 DEF Published
  <2>1. memory'[c] = memory[c]
    BY <1>2, <1>5
  <2>2. QED
    BY <1>1, <2>1 DEF CaptureInv, Published, Fresh
<1>11. QED
  BY <1>7, <1>9, <1>10 DEF CaptureInv

(* The engine ends its run, well or not.                                   *)
LEMMA DmaStopsKeeps ==
  ASSUME CaptureInv, DmaEnds \/ DmaError
  PROVE  CaptureInv'
<1> CaptureTypeOK
  BY DEF CaptureInv
<1>1. /\ mic' = mic /\ hardware' = hardware /\ memory' = memory /\ cache' = cache
      /\ pool' = pool /\ captures' = captures /\ loop' = loop /\ lag' = lag
      /\ \/ dma' = [dma EXCEPT !.state = "IDLE", !.irq = TRUE]
         \/ dma' = [dma EXCEPT !.state = "HALTED", !.error = TRUE, !.irq = TRUE]
  BY DEF DmaEnds, DmaError, engine
<1>2. dma' \in DmaKind /\ dma'.state # "RUN" /\ dma'.words = dma.words
  BY <1>1, CaptureTypes DEF DmaKind
<1>3. CaptureTypeOK'
  BY <1>1, <1>2, CaptureTypes, CaptureTypesNext DEF Stored, Task
<1>4. Filling' /\ Written' /\ OneEvent' /\ Finished' /\ Published'
  BY <1>1, <1>2
  DEF CaptureInv, Filling, Written, OneEvent, Finished, Published, Fresh
<1>5. QED
  BY <1>3, <1>4 DEF CaptureInv

(* A line comes into the cache or goes.                                    *)
LEMMA LineKeeps ==
  ASSUME CaptureInv, NEW b \in Buffers, FillLine(b) \/ EvictLine(b)
  PROVE  CaptureInv'
<1> CaptureTypeOK
  BY DEF CaptureInv
<1>1. /\ mic' = mic /\ hardware' = hardware /\ dma' = dma /\ memory' = memory
      /\ pool' = pool /\ captures' = captures /\ loop' = loop /\ lag' = lag
      /\ \/ cache' = [cache EXCEPT ![b] = <<memory[b]>>]
         \/ cache' = [cache EXCEPT ![b] = <<>>]
  BY DEF FillLine, EvictLine
<1>2. <<memory[b]>> \in Line /\ <<>> \in Line
  BY DEF CaptureTypeOK, Line
<1>3. cache' \in [Buffers -> Line]
  BY <1>1, <1>2 DEF CaptureTypeOK
<1>4. CaptureTypeOK'
  BY <1>1, <1>3, CaptureTypes, CaptureTypesNext DEF Stored, Task
<1>5. \A c \in Buffers : Fresh(c) => Fresh(c)'
  <2> TAKE c \in Buffers
  <2>1. CASE c = b
    BY <1>1, <2>1 DEF Fresh, CaptureTypeOK
  <2>2. CASE c # b
    BY <1>1, <2>2 DEF Fresh, CaptureTypeOK
  <2>3. QED
    BY <2>1, <2>2
<1>6. Filling' /\ Written' /\ OneEvent'
  BY <1>1 DEF CaptureInv, Filling, Written, OneEvent
<1>7. Finished' /\ Published'
  <2>1. mic.state = "READY" => mic.buffer \in Buffers
    BY DEF CaptureInv, Filling
  <2>2. Finished'
    BY <1>1, <1>5, <2>1 DEF CaptureInv, Finished, Fresh
  <2>3. Published'
    BY <1>1, <1>5 DEF CaptureInv, Published
  <2>4. QED
    BY <2>2, <2>3
<1>8. QED
  BY <1>4, <1>6, <1>7 DEF CaptureInv

(* A frame has been sent.                                                  *)
LEMMA SentKeeps ==
  ASSUME CaptureInv, NEW b \in Buffers, FrameSent(b)
  PROVE  CaptureInv'
<1> CaptureTypeOK
  BY DEF CaptureInv
<1>1. /\ mic' = mic /\ hardware' = hardware /\ dma' = dma /\ memory' = memory
      /\ cache' = cache /\ captures' = captures /\ loop' = loop /\ lag' = lag
      /\ pool[b].state = "READY" /\ pool' = [pool EXCEPT ![b].state = "FREE"]
  BY DEF FrameSent
<1>2. /\ pool' \in PoolKind /\ pool'[b].state = "FREE"
      /\ \A c \in Buffers : c # b => pool'[c] = pool[c]
  BY <1>1, CaptureTypes DEF PoolKind
<1>3. CaptureTypeOK'
  BY <1>1, <1>2, CaptureTypes, CaptureTypesNext DEF Stored, Task
<1>4. Filling' /\ Written' /\ OneEvent' /\ Finished' /\ Published'
  BY <1>1, <1>2
  DEF CaptureInv, Filling, Written, OneEvent, Finished, Published, Fresh
<1>5. QED
  BY <1>3, <1>4 DEF CaptureInv

(* The clock goes on while a capture is under way.                         *)
LEMMA TickKeeps ==
  ASSUME CaptureInv, CaptureTick
  PROVE  CaptureInv'
<1> CaptureTypeOK
  BY DEF CaptureInv
<1>1. /\ mic.state = "CAPTURING" /\ mic.age < MaxAge
      /\ mic' = [mic EXCEPT !.age = mic.age + 1]
      /\ dma' = dma /\ memory' = memory /\ cache' = cache /\ pool' = pool
      /\ captures' = captures /\ loop' = loop
  BY DEF CaptureTick
<1>2. mic.age + 1 \in 0 .. MaxAge
  BY <1>1, CaptureNumbers DEF CaptureTypeOK
<1>3. /\ mic' \in MicKind /\ mic'.state = mic.state /\ mic'.buffer = mic.buffer
      /\ mic'.age = mic.age + 1
  BY <1>1, <1>2, CaptureTypes DEF MicKind
<1>4. hardware.age + 1 \in 0 .. MaxAge \/ ~hardware.pending
  BY <1>1, CaptureNumbers DEF CaptureInv, OneEvent, CaptureTypeOK
<1>5. \/ /\ hardware.pending
         /\ hardware' = [hardware EXCEPT !.age = hardware.age + 1]
      \/ ~hardware.pending /\ hardware' = hardware
  BY DEF CaptureTick
<1>6. hardware' \in HardwareKind
  BY <1>4, <1>5, CaptureTypes DEF HardwareKind
<1>7. /\ hardware'.enabled = hardware.enabled /\ hardware'.pending = hardware.pending
      /\ hardware'.words = hardware.words
      /\ hardware'.age = IF hardware.pending THEN hardware.age + 1 ELSE hardware.age
  BY <1>5 DEF CaptureTypeOK
<1>8. lag' \in 0 .. MaxLag
  BY CaptureNumbers DEF CaptureTick, CaptureTypeOK
<1>9. CaptureTypeOK'
  BY <1>1, <1>3, <1>6, <1>8, CaptureTypes, CaptureTypesNext DEF Stored, Task
<1>10. Filling' /\ Written' /\ Finished' /\ Published'
  BY <1>1, <1>3
  DEF CaptureInv, Filling, Written, Finished, Published, Fresh
<1>11. OneEvent'
  BY <1>1, <1>3, <1>7 DEF CaptureInv, OneEvent, CaptureTypeOK
<1>12. QED
  BY <1>9, <1>10, <1>11 DEF CaptureInv

-----------------------------------------------------------------------------
(* Theorems *)

(* Every step keeps the invariant.                                         *)
LEMMA CaptureInvInductive ==
  CaptureInv /\ [CaptureNext]_captureVars => CaptureInv'
<1> SUFFICES ASSUME CaptureInv, [CaptureNext]_captureVars PROVE CaptureInv'
  OBVIOUS
<1>1. CASE UNCHANGED captureVars
  BY <1>1
  DEF captureVars, CaptureInv, CaptureTypeOK, Filling, Written, OneEvent, Finished,
      Published, Fresh
<1>2. CASE CaptureTask
  <2>1. CASE Publish \/ Discard
    BY <2>1, FinishKeeps DEF Publish, Discard
  <2>2. QED
    BY <1>2, <2>1, StartKeeps, LoopKeeps, CancelKeeps, TakeEventKeeps, NoEventKeeps
    DEF CaptureTask
<1>3. CASE Surroundings
  BY <1>3, InterruptKeeps, DmaWritesKeeps, DmaStopsKeeps, TickKeeps, LineKeeps,
     SentKeeps
  DEF Surroundings
<1>4. QED
  BY <1>1, <1>2, <1>3 DEF CaptureNext

(* Every variable of the capture has its type.                             *)
THEOREM CaptureTypeCorrect == CaptureSpec => []CaptureTypeOK
<1>1. CaptureInv => CaptureTypeOK
  BY DEF CaptureInv
<1>2. QED
  BY <1>1, CaptureStarts, CaptureInvInductive, PTL DEF CaptureSpec

(* A finished frame is whole and the engine is done with it, and it stays  *)
(* whole when published, for any number of buffers and captures, any frame *)
(* length and any lines that the CPU caches in between.                    *)
THEOREM CaptureDelivers == CaptureSpec => []FrameIsWhole
<1>1. CaptureInv => FrameIsWhole
  <2> SUFFICES ASSUME CaptureInv PROVE FrameIsWhole
    OBVIOUS
  <2>1. \A b \in Buffers : Fresh(b) => ReadByCpu(b) = memory[b]
    BY DEF Fresh, ReadByCpu
  <2>2. ASSUME mic.state = "READY"
        PROVE  ReadByCpu(mic.buffer) = Whole(captures) /\ dma.state # "RUN"
    BY <2>1, <2>2 DEF CaptureInv, Filling, Finished
  <2>3. ASSUME NEW b \in Buffers, pool[b].state = "READY"
        PROVE  ReadByCpu(b) = Whole(pool[b].frame)
    BY <2>1, <2>3 DEF CaptureInv, Published
  <2>4. QED
    BY <2>2, <2>3 DEF FrameIsWhole
<1>2. QED
  BY <1>1, CaptureStarts, CaptureInvInductive, PTL DEF CaptureSpec

-----------------------------------------------------------------------------
(* The codec *)

(* The codec has n writes more than are acknowledged.                       *)
Sent(n) == iic.written = speaker.index + n

(* No write is under way: the codec has every write that is acknowledged.  *)
AtRest ==
  ~bus.active /\ speaker.state # "FAULT" =>
    iic.fifo = 0 /\ iic.phase \in {"IDLE", "STUCK"} /\ Sent(0)

(* A write is under way: it has failed; or the controller has the address, *)
(* or the bytes too, and no Bus Not Busy yet; or the codec has it all.     *)
Failed == iic.error /\ Sent(0) /\ iic.phase \in {"NACKED", "IDLE", "STUCK"}
AddressOut ==
  /\ bus.waiting /\ Sent(0) /\ ~iic.error
  /\ \/ iic.phase = "IDLE" /\ iic.fifo = 1
     \/ iic.phase \in {"ADDRESS", "BYTES"} /\ iic.fifo = 0 /\ iic.got = 0
BytesOut ==
  /\ ~bus.waiting /\ Sent(0) /\ ~iic.error /\ ~iic.bnb
  /\ \/ iic.phase = "ADDRESS" /\ iic.fifo = 2 /\ iic.got = 0
     \/ iic.phase = "BYTES" /\ iic.fifo + iic.got = 2
Complete ==
  /\ ~bus.waiting /\ Sent(1) /\ ~iic.error
  /\ iic.fifo = 0 /\ iic.phase \in {"IDLE", "STUCK"}

UnderWay ==
  bus.active /\ speaker.state # "FAULT" =>
    /\ speaker.state = "CONFIGURING"
    /\ Failed \/ AddressOut \/ BytesOut \/ Complete

(* What the task has read still tells about the write when it is used.     *)
ReadIsTrue ==
  /\ poll.at \in {"STATUS", "QUEUE"} => bus.active
  /\ poll.at = "QUEUE" /\ speaker.state # "FAULT" =>
       bus.waiting /\ (iic.error \/ iic.phase # "IDLE")
  /\ poll.at = "STATUS" /\ ~poll.error /\ poll.bnb /\ ~bus.waiting
     /\ speaker.state # "FAULT" => Sent(1)

(* After a failure nothing more is sent.                                   *)
AfterFault ==
  speaker.state = "FAULT" =>
    /\ speaker.index <= iic.written /\ ~speaker.output
    /\ \/ iic.phase = "STUCK"
       \/ iic.phase = "IDLE" /\ iic.fifo = 0 /\ ~bus.active

(* The output is on only when the last write is acknowledged.              *)
OutputReady ==
  /\ speaker.output => speaker.state = "READY"
  /\ speaker.state = "READY" => speaker.index = Writes
  /\ speaker.state \in {"OFF", "CONFIGURING"} => speaker.index < Writes

(* Time since the clock was read is not longer than the phase.             *)
LagIsPart == poll.late <= speaker.elapsed

CodecInv ==
  /\ CodecTypeOK /\ AtRest /\ UnderWay /\ ReadIsTrue /\ AfterFault
  /\ OutputReady /\ LagIsPart

-----------------------------------------------------------------------------
(* Numbers and types *)

(* The longest wait is not shorter than any of the three.                  *)
LEMMA CodecNumbers ==
  /\ MaxElapsed \in Nat /\ PowerTicks <= MaxElapsed /\ VmidTicks <= MaxElapsed
  /\ WriteTicks <= MaxElapsed
  /\ Writes \in Nat /\ Writes > 0 /\ VmidBefore \in Nat /\ VmidBefore < Writes
  /\ VmidBefore > 0
<1> DEFINE S == {PowerTicks, VmidTicks, WriteTicks}
<1>1. PowerTicks \in Nat /\ VmidTicks \in Nat /\ WriteTicks \in Nat
  BY CodecAssumption
<1>2. \E n \in S : \A m \in S : m <= n
  <2>1. CASE PowerTicks <= WriteTicks /\ VmidTicks <= WriteTicks
    BY <1>1, <2>1
  <2>2. CASE PowerTicks <= VmidTicks /\ WriteTicks <= VmidTicks
    BY <1>1, <2>2
  <2>3. CASE VmidTicks <= PowerTicks /\ WriteTicks <= PowerTicks
    BY <1>1, <2>3
  <2>4. QED
    BY <1>1, <2>1, <2>2, <2>3
<1>3. MaxElapsed \in S /\ \A m \in S : m <= MaxElapsed
  BY <1>2 DEF MaxElapsed, CodecMax
<1>4. QED
  BY <1>1, <1>3, CodecAssumption

(* The types of the parts, by name.                                        *)
SpeakerKind ==
  [state : {"OFF", "CONFIGURING", "READY", "FAULT"},
   phase : {"WAIT_POWER", "WAIT_ACK", "WAIT_VMID"},
   elapsed : 0 .. MaxElapsed, index : 0 .. Writes,
   owned : BOOLEAN, output : BOOLEAN]
BusKind == [active : BOOLEAN, waiting : BOOLEAN, quarantined : BOOLEAN]
IicKind ==
  [phase : {"IDLE", "ADDRESS", "BYTES", "NACKED", "STUCK"},
   fifo : Nat, got : 0 .. 2, error : BOOLEAN, bnb : BOOLEAN, written : Nat]
PollKind ==
  [at : {"DELAY", "IRQ", "STATUS", "QUEUE"}, error : BOOLEAN,
   bnb : BOOLEAN, late : 0 .. MaxElapsed]

(* The type invariant by its parts, now and in the next state.             *)
LEMMA TypeParts ==
  CodecTypeOK <=> /\ speaker \in SpeakerKind /\ bus \in BusKind
                  /\ iic \in IicKind /\ poll \in PollKind
BY DEF CodecTypeOK, SpeakerKind, BusKind, IicKind, PollKind

LEMMA TypePartsNext ==
  CodecTypeOK' <=> /\ speaker' \in SpeakerKind /\ bus' \in BusKind
                   /\ iic' \in IicKind /\ poll' \in PollKind
BY DEF CodecTypeOK, SpeakerKind, BusKind, IicKind, PollKind

LEMMA PollStarts ==
  NoPoll \in PollKind /\ [NoPoll EXCEPT !.at = "IRQ"] \in PollKind
<1>1. 0 \in 0 .. MaxElapsed
  BY CodecNumbers
<1>2. NoPoll \in PollKind
  BY <1>1 DEF NoPoll, PollKind
<1>3. QED
  BY <1>2 DEF PollKind

(* Initially nothing is under way.                                         *)
LEMMA CodecStarts == CodecInit => CodecInv
BY CodecNumbers
DEF CodecInit, CodecInv, CodecTypeOK, AtRest, UnderWay, ReadIsTrue, AfterFault,
    OutputReady, LagIsPart, NewBus, NewIic, NoPoll, Sent

(* The bus is taken back, or stays held: nothing more is sent.             *)
LEMMA FailureKeeps ==
  ASSUME CodecInv, SpeakerFails, poll' \in {NoPoll, [NoPoll EXCEPT !.at = "IRQ"]}
  PROVE  CodecInv'
<1> CodecTypeOK
  BY DEF CodecInv
<1>1. PICK a \in BusAborts :
        /\ bus' = a.bus /\ iic' = a.iic
        /\ speaker' = [speaker EXCEPT !.state = "FAULT", !.output = FALSE,
                                      !.owned = ~a.ok]
  BY DEF SpeakerFails
<1>2. /\ speaker'.state = "FAULT" /\ speaker'.output = FALSE
      /\ speaker'.index = speaker.index /\ speaker'.elapsed = speaker.elapsed
      /\ speaker'.phase = speaker.phase
  BY <1>1 DEF CodecTypeOK
<1>3. /\ iic'.written = iic.written /\ iic'.fifo = 0
      /\ iic'.phase = "STUCK" \/ (iic'.phase = "IDLE" /\ ~bus'.active)
  BY <1>1 DEF BusAborts, NewIic, CodecTypeOK
<1>4. CodecTypeOK'
  <2>1. speaker \in SpeakerKind /\ bus \in BusKind /\ iic \in IicKind
    BY TypeParts
  <2>2. a = [ok |-> TRUE, bus |-> [bus EXCEPT !.active = FALSE],
             iic |-> NewIic(iic.written)]
        \/ a = [ok |-> FALSE, bus |-> [bus EXCEPT !.quarantined = TRUE],
                iic |-> [NewIic(iic.written) EXCEPT !.phase = "STUCK"]]
    BY DEF BusAborts
  <2>3. NewIic(iic.written) \in IicKind
        /\ [NewIic(iic.written) EXCEPT !.phase = "STUCK"] \in IicKind
    <3>1. iic.written \in Nat
      BY <2>1 DEF IicKind
    <3>2. NewIic(iic.written) \in IicKind
      BY <3>1 DEF NewIic, IicKind
    <3>3. QED
      BY <3>2 DEF IicKind
  <2>4. [bus EXCEPT !.active = FALSE] \in BusKind
        /\ [bus EXCEPT !.quarantined = TRUE] \in BusKind
    BY <2>1 DEF BusKind
  <2>5. bus' \in BusKind /\ iic' \in IicKind
    <3>1. a.bus \in BusKind
      <4>1. CASE a = [ok |-> TRUE, bus |-> [bus EXCEPT !.active = FALSE],
                      iic |-> NewIic(iic.written)]
        BY <2>4, <4>1
      <4>2. CASE a = [ok |-> FALSE, bus |-> [bus EXCEPT !.quarantined = TRUE],
                      iic |-> [NewIic(iic.written) EXCEPT !.phase = "STUCK"]]
        BY <2>4, <4>2
      <4>3. QED
        BY <2>2, <4>1, <4>2
    <3>2. a.iic \in IicKind
      BY <2>2, <2>3
    <3>3. QED
      BY <1>1, <3>1, <3>2
  <2>7. (~a.ok) \in BOOLEAN
    OBVIOUS
  <2>8. speaker' \in SpeakerKind
    BY <1>1, <2>1, <2>7 DEF SpeakerKind
  <2>9. QED
    BY <2>5, <2>8, PollStarts, TypePartsNext
<1>5. speaker.index <= iic.written
  BY CodecNumbers DEF CodecInv, AtRest, UnderWay, AfterFault, Sent, Failed, AddressOut,
     BytesOut, Complete, CodecTypeOK
<1>6. poll'.at \in {"DELAY", "IRQ"} /\ poll'.late = 0
  BY DEF NoPoll
<1>7. AtRest' /\ UnderWay' /\ ReadIsTrue' /\ AfterFault' /\ OutputReady' /\ LagIsPart'
  BY <1>2, <1>3, <1>5, <1>6, CodecNumbers
  DEF AtRest, UnderWay, ReadIsTrue, AfterFault, OutputReady, LagIsPart, CodecTypeOK
<1>8. QED
  BY <1>4, <1>7 DEF CodecInv

(* A write is given to a bus at rest.                                      *)
LEMMA IssueKeeps ==
  ASSUME CodecInv, NEW i \in Nat, i < Writes, NEW b, NEW late \in 0 .. MaxElapsed,
         IssueWrite(i, b, late), iic.written = i,
         b = [bus EXCEPT !.active = FALSE] \/ b = bus,
         speaker.state = "CONFIGURING",
         poll' \in {NoPoll, [NoPoll EXCEPT !.at = "IRQ"]}
  PROVE  CodecInv'
<1> CodecTypeOK /\ ~speaker.output
  BY DEF CodecInv, OutputReady
<1>1. /\ speaker'.state = "CONFIGURING" /\ speaker'.output = FALSE
      /\ speaker'.index = i /\ speaker'.elapsed = late
  BY DEF IssueWrite, CodecTypeOK
<1>2. bus'.active /\ bus'.waiting
  BY DEF IssueWrite, Claimed, CodecTypeOK
<1>3. /\ iic'.fifo = 1 /\ iic'.written = i /\ iic'.phase = "IDLE" /\ ~iic'.error
  BY DEF IssueWrite, Writable, StatusIdle, BusBusy, Addressed, CodecTypeOK
<1>4. CodecTypeOK'
  <2>1. speaker \in SpeakerKind /\ bus \in BusKind /\ iic \in IicKind
    BY TypeParts
  <2>2. bus' \in BusKind
    BY <2>1 DEF IssueWrite, Claimed, BusKind
  <2>3. iic' \in IicKind
    BY <2>1 DEF IssueWrite, Addressed, IicKind
  <2>4. i \in 0 .. Writes
    BY CodecNumbers
  <2>5. speaker' \in SpeakerKind
    BY <2>1, <2>4 DEF IssueWrite, SpeakerKind
  <2>6. QED
    BY <2>2, <2>3, <2>5, PollStarts, TypePartsNext
<1>5. poll'.at \in {"DELAY", "IRQ"} /\ poll'.late = 0
  BY DEF NoPoll
<1>6. AtRest' /\ UnderWay' /\ ReadIsTrue' /\ AfterFault' /\ OutputReady' /\ LagIsPart'
  BY <1>1, <1>2, <1>3, <1>5, CodecNumbers
  DEF AtRest, UnderWay, ReadIsTrue, AfterFault, OutputReady, LagIsPart, CodecTypeOK,
      AddressOut, Sent
<1>7. QED
  BY <1>4, <1>6 DEF CodecInv

(* sonar_speaker_begin.                                                    *)
LEMMA BeginKeeps ==
  ASSUME CodecInv, CodecBegin
  PROVE  CodecInv'
<1> CodecTypeOK
  BY DEF CodecInv
<1>1. /\ speaker'.state = "CONFIGURING" /\ speaker'.output = speaker.output
      /\ speaker'.index = speaker.index /\ speaker'.elapsed = speaker.elapsed
      /\ speaker.state = "OFF" /\ bus' = bus /\ iic' = iic /\ poll' = poll
  BY DEF CodecBegin, CodecTypeOK
<1>2. CodecTypeOK'
  <2>1. speaker \in SpeakerKind /\ bus \in BusKind /\ iic \in IicKind /\ poll \in PollKind
    BY TypeParts
  <2>2. speaker' \in SpeakerKind
    BY <2>1 DEF SpeakerKind, CodecBegin
  <2>3. QED
    BY <1>1, <2>1, <2>2, TypePartsNext
<1>3. ~bus.active
  BY <1>1 DEF CodecInv, UnderWay
<1>4. AtRest' /\ UnderWay' /\ AfterFault' /\ LagIsPart'
  BY <1>1, <1>3
  DEF CodecInv, AtRest, UnderWay, AfterFault, LagIsPart, CodecTypeOK, Sent
<1>5. OutputReady'
  BY <1>1 DEF CodecInv, OutputReady, CodecTypeOK
<1>6. ReadIsTrue'
  BY <1>1, <1>3 DEF CodecInv, ReadIsTrue
<1>7. QED
  BY <1>2, <1>4, <1>5, <1>6 DEF CodecInv

(* sonar_speaker_poll.                                                     *)
LEMMA PollKeeps ==
  ASSUME CodecInv, PollSpeaker
  PROVE  CodecInv'
<1> CodecTypeOK
  BY DEF CodecInv
<1>1. /\ speaker.state = "CONFIGURING" /\ poll.at = "DELAY"
      /\ poll' = [NoPoll EXCEPT !.at = "IRQ"]
  BY DEF PollSpeaker
<1>2. CASE SpeakerFails
  BY <1>1, <1>2, FailureKeeps
<1>3. CASE Writable(bus) /\ IssueWrite(speaker.index, bus, 0)
  <2>1. iic.written = speaker.index /\ speaker.index \in Nat /\ speaker.index < Writes
    BY <1>1, <1>3, CodecNumbers
    DEF CodecInv, AtRest, Sent, OutputReady, Writable, CodecTypeOK
  <2>2. 0 \in 0 .. MaxElapsed
    BY CodecNumbers
  <2>3. QED
    BY <1>1, <1>3, <2>1, <2>2, IssueKeeps
<1>4. CASE UNCHANGED <<speaker, bus, iic>>
  <2>1. poll'.at = "IRQ" /\ poll'.late = 0 /\ poll' \in PollKind
    BY <1>1, PollStarts DEF NoPoll
  <2>2. CodecTypeOK'
    BY <1>4, <2>1, TypeParts, TypePartsNext
  <2>3. AtRest' /\ UnderWay' /\ AfterFault' /\ OutputReady'
    BY <1>4
    DEF CodecInv, AtRest, UnderWay, AfterFault, OutputReady, Sent, Failed,
        AddressOut, BytesOut, Complete
  <2>4. ReadIsTrue' /\ LagIsPart'
    BY <1>4, <2>1 DEF ReadIsTrue, LagIsPart, CodecTypeOK
  <2>5. QED
    BY <2>2, <2>3, <2>4 DEF CodecInv
<1>5. QED
  BY <1>2, <1>3, <1>4 DEF PollSpeaker

(* The interrupts are read.                                                *)
LEMMA ReadIrqKeeps ==
  ASSUME CodecInv, ReadIrq
  PROVE  CodecInv'
<1> CodecTypeOK
  BY DEF CodecInv
<1>1. speaker' = speaker /\ bus' = bus /\ iic' = iic
  BY DEF ReadIrq
<1>2. AtRest' /\ UnderWay' /\ AfterFault' /\ OutputReady'
  BY <1>1
  DEF CodecInv, AtRest, UnderWay, AfterFault, OutputReady, Sent, Failed,
      AddressOut, BytesOut, Complete
<1>3. CASE bus.active
  <2>1. poll' = [poll EXCEPT !.at = "STATUS", !.error = iic.error, !.bnb = iic.bnb]
    BY <1>3 DEF ReadIrq
  <2>2. poll' \in PollKind
    BY <2>1, TypeParts DEF PollKind, IicKind
  <2>3. poll'.at = "STATUS" /\ poll'.error = iic.error /\ poll'.bnb = iic.bnb
        /\ poll'.late = poll.late
    BY <2>1 DEF CodecTypeOK
  <2>4. CodecTypeOK'
    BY <1>1, <2>2, TypeParts, TypePartsNext
  <2>5. ReadIsTrue'
    BY <1>1, <1>3, <2>3
    DEF ReadIsTrue, CodecInv, UnderWay, Failed, AddressOut, BytesOut, Complete, Sent
  <2>6. LagIsPart'
    BY <1>1, <2>3 DEF CodecInv, LagIsPart
  <2>7. QED
    BY <1>2, <2>4, <2>5, <2>6 DEF CodecInv
<1>4. CASE ~bus.active
  <2>1. poll' = NoPoll
    BY <1>4 DEF ReadIrq
  <2>2. poll'.at = "DELAY" /\ poll'.late = 0 /\ poll' \in PollKind
    BY <2>1, PollStarts DEF NoPoll
  <2>3. CodecTypeOK'
    BY <1>1, <2>2, TypeParts, TypePartsNext
  <2>4. ReadIsTrue' /\ LagIsPart'
    BY <1>1, <2>2 DEF ReadIsTrue, LagIsPart, CodecTypeOK
  <2>5. QED
    BY <1>2, <2>3, <2>4 DEF CodecInv
<1>5. QED
  BY <1>3, <1>4

(* The status is read: an error.                                           *)
LEMMA ReadErrorKeeps ==
  ASSUME CodecInv, ReadError
  PROVE  CodecInv'
BY FailureKeeps DEF ReadError

(* The status is read: is the bus busy?                                    *)
LEMMA ReadBusyKeeps ==
  ASSUME CodecInv, ReadBusy
  PROVE  CodecInv'
<1> CodecTypeOK
  BY DEF CodecInv
<1>1. speaker' = speaker /\ bus' = bus /\ iic' = iic
  BY DEF ReadBusy
<1>2. AtRest' /\ UnderWay' /\ AfterFault' /\ OutputReady'
  BY <1>1
  DEF CodecInv, AtRest, UnderWay, AfterFault, OutputReady, Sent, Failed,
      AddressOut, BytesOut, Complete
<1>3. CASE BusBusy
  <2>1. poll' = [poll EXCEPT !.at = "QUEUE"]
    BY <1>3 DEF ReadBusy
  <2>2. poll' \in PollKind
    BY <2>1, TypeParts DEF PollKind
  <2>3. poll'.at = "QUEUE" /\ poll'.late = poll.late
    BY <2>1 DEF CodecTypeOK
  <2>4. CodecTypeOK'
    BY <1>1, <2>2, TypeParts, TypePartsNext
  <2>5. bus.active /\ bus.waiting
    BY DEF ReadBusy, CodecInv, ReadIsTrue
  <2>6. ReadIsTrue'
    BY <1>1, <1>3, <2>3, <2>5 DEF ReadIsTrue, BusBusy
  <2>7. LagIsPart'
    BY <1>1, <2>3 DEF CodecInv, LagIsPart
  <2>8. QED
    BY <1>2, <2>4, <2>6, <2>7 DEF CodecInv
<1>4. CASE ~BusBusy
  <2>1. poll' = NoPoll
    BY <1>4 DEF ReadBusy
  <2>2. poll'.at = "DELAY" /\ poll'.late = 0 /\ poll' \in PollKind
    BY <2>1, PollStarts DEF NoPoll
  <2>3. CodecTypeOK'
    BY <1>1, <2>2, TypeParts, TypePartsNext
  <2>4. ReadIsTrue' /\ LagIsPart'
    BY <1>1, <2>2 DEF ReadIsTrue, LagIsPart, CodecTypeOK
  <2>5. QED
    BY <1>2, <2>3, <2>4 DEF CodecInv
<1>5. QED
  BY <1>3, <1>4

(* The two bytes are queued: the write that they belong to has failed, or  *)
(* has a busy bus and waits for them.                                      *)
LEMMA QueueKeeps ==
  ASSUME CodecInv, QueueBytes
  PROVE  CodecInv'
<1> CodecTypeOK
  BY DEF CodecInv
<1>1. /\ speaker' = speaker /\ poll' = NoPoll
      /\ iic' = [iic EXCEPT !.bnb = FALSE, !.fifo = iic.fifo + 2]
      /\ bus' = [bus EXCEPT !.waiting = FALSE]
  BY DEF QueueBytes, ClearedBnb, CodecTypeOK
<1>2. /\ iic'.fifo = iic.fifo + 2 /\ iic'.bnb = FALSE /\ iic'.phase = iic.phase
      /\ iic'.written = iic.written /\ iic'.error = iic.error /\ iic'.got = iic.got
  BY <1>1 DEF CodecTypeOK
<1>3. bus'.active = bus.active /\ bus'.waiting = FALSE
  BY <1>1 DEF CodecTypeOK
<1>4. poll'.at = "DELAY" /\ poll'.late = 0 /\ poll' \in PollKind
  BY <1>1, PollStarts DEF NoPoll
<1>5. CodecTypeOK'
  <2>1. speaker \in SpeakerKind /\ bus \in BusKind /\ iic \in IicKind
    BY TypeParts
  <2>2. bus' \in BusKind
    BY <1>1, <2>1 DEF BusKind
  <2>3. iic.fifo + 2 \in Nat
    BY <2>1 DEF IicKind
  <2>4. iic' \in IicKind
    BY <1>1, <2>1, <2>3 DEF IicKind
  <2>5. QED
    BY <1>1, <1>4, <2>1, <2>2, <2>4, TypePartsNext
<1>6. bus.active /\ poll.at = "QUEUE"
  BY DEF CodecInv, ReadIsTrue, QueueBytes
<1>7. speaker.state = "FAULT" => iic.phase = "STUCK"
  BY <1>6 DEF CodecInv, AfterFault
<1>8. AtRest' /\ AfterFault' /\ ReadIsTrue' /\ LagIsPart' /\ OutputReady'
  BY <1>1, <1>2, <1>3, <1>4, <1>6, <1>7
  DEF CodecInv, AtRest, AfterFault, OutputReady, ReadIsTrue, LagIsPart, CodecTypeOK
<1>9. UnderWay'
  <2> SUFFICES ASSUME speaker.state # "FAULT"
               PROVE  /\ speaker.state = "CONFIGURING"
                      /\ Failed' \/ BytesOut'
    BY <1>1 DEF UnderWay
  <2>1. bus.waiting /\ (iic.error \/ iic.phase # "IDLE")
    BY <1>6 DEF CodecInv, ReadIsTrue
  <2>2. speaker.state = "CONFIGURING" /\ (Failed \/ AddressOut)
    BY <1>6, <2>1 DEF CodecInv, UnderWay, BytesOut, Complete
  <2>3. CASE Failed
    BY <1>1, <1>2, <2>2, <2>3 DEF Failed, Sent
  <2>4. CASE AddressOut
    BY <1>1, <1>2, <1>3, <2>1, <2>2, <2>4 DEF AddressOut, BytesOut, Sent, CodecTypeOK
  <2>5. QED
    BY <2>2, <2>3, <2>4
<1>10. QED
  BY <1>5, <1>8, <1>9 DEF CodecInv

(* Both bytes are sent and the bus is free: the codec has the write, and   *)
(* the next one can be given to the bus.                                   *)
LEMMA DoneKeeps ==
  ASSUME CodecInv, ReadDone
  PROVE  CodecInv'
<1> CodecTypeOK
  BY DEF CodecInv
<1>1. /\ poll' = NoPoll /\ poll.at = "STATUS" /\ ~poll.error /\ ~bus.waiting
  BY DEF ReadDone
<1>2. poll'.at = "DELAY" /\ poll'.late = 0 /\ poll' \in PollKind
  BY <1>1, PollStarts DEF NoPoll
<1>3. bus.active
  BY <1>1 DEF CodecInv, ReadIsTrue
<1>4. CASE UNCHANGED <<speaker, bus, iic>>
  <2>1. CodecTypeOK'
    BY <1>2, <1>4, TypeParts, TypePartsNext
  <2>2. AtRest' /\ UnderWay' /\ AfterFault' /\ OutputReady'
    BY <1>4
    DEF CodecInv, AtRest, UnderWay, AfterFault, OutputReady, Sent, Failed,
        AddressOut, BytesOut, Complete
  <2>3. ReadIsTrue' /\ LagIsPart'
    BY <1>2, <1>4 DEF ReadIsTrue, LagIsPart, CodecTypeOK
  <2>4. QED
    BY <2>1, <2>2, <2>3 DEF CodecInv
<1>5. CASE poll.bnb /\ iic.fifo = 0 /\ ~BusBusy /\ Acknowledged
  <2>1. speaker.state # "FAULT"
    <3>1. iic.phase = "IDLE"
      BY <1>5 DEF BusBusy
    <3>2. QED
      BY <1>3, <3>1 DEF CodecInv, AfterFault
  <2>2. speaker.state = "CONFIGURING" /\ Sent(1)
    BY <1>1, <1>3, <1>5, <2>1 DEF CodecInv, UnderWay, ReadIsTrue
  <2>3. ~speaker.output /\ speaker.index < Writes /\ speaker.index \in Nat
    BY <2>2, CodecNumbers DEF CodecInv, OutputReady, CodecTypeOK
  <2> DEFINE index == speaker.index + 1
             free == [bus EXCEPT !.active = FALSE]
             done == [speaker EXCEPT !.index = index, !.owned = FALSE]
  <2>4. index \in 0 .. Writes /\ index \in Nat
    BY <2>3, CodecNumbers
  <2>5. iic.written = index
    BY <2>2 DEF Sent
  <2>6. free \in BusKind /\ ~free.active
    BY DEF CodecTypeOK, BusKind
  <2>7. done \in SpeakerKind
    BY <2>4, TypeParts DEF SpeakerKind
  <2>8. /\ done.state = "CONFIGURING" /\ done.index = index
        /\ done.elapsed = speaker.elapsed /\ done.output = speaker.output
    BY <2>2 DEF CodecTypeOK
  <2>9. poll.late \in 0 .. MaxElapsed
    BY DEF CodecTypeOK
  <2>10. CASE /\ index = Writes /\ speaker' = [done EXCEPT !.state = "READY"]
              /\ bus' = free /\ UNCHANGED iic
    <3>1. speaker' \in SpeakerKind
      BY <2>7, <2>10 DEF SpeakerKind
    <3>2. /\ speaker'.state = "READY" /\ speaker'.index = index
          /\ speaker'.elapsed = speaker.elapsed /\ speaker'.output = speaker.output
      BY <2>7, <2>8, <2>10 DEF SpeakerKind
    <3>3. CodecTypeOK'
      BY <1>2, <2>6, <2>10, <3>1, TypeParts, TypePartsNext
    <3>4. ~bus'.active /\ iic' = iic
      BY <2>6, <2>10
    <3>5. AtRest' /\ UnderWay' /\ AfterFault' /\ OutputReady' /\ ReadIsTrue'
      BY <1>2, <1>5, <2>3, <2>5, <2>10, <3>2, <3>4
      DEF AtRest, UnderWay, AfterFault, OutputReady, ReadIsTrue, Sent, BusBusy
    <3>6. LagIsPart'
      BY <1>2, <3>2 DEF LagIsPart, CodecTypeOK
    <3>7. QED
      BY <3>3, <3>5, <3>6 DEF CodecInv
  <2>11. CASE /\ index = VmidBefore
              /\ speaker' = [done EXCEPT !.phase = "WAIT_VMID", !.elapsed = poll.late]
              /\ bus' = free /\ UNCHANGED iic
    <3>1. speaker' \in SpeakerKind
      BY <2>7, <2>9, <2>11 DEF SpeakerKind
    <3>2. /\ speaker'.state = "CONFIGURING" /\ speaker'.index = index
          /\ speaker'.elapsed = poll.late /\ speaker'.output = speaker.output
      BY <2>7, <2>8, <2>11 DEF SpeakerKind
    <3>3. CodecTypeOK'
      BY <1>2, <2>6, <2>11, <3>1, TypeParts, TypePartsNext
    <3>4. ~bus'.active /\ iic' = iic
      BY <2>6, <2>11
    <3>5. AtRest' /\ UnderWay' /\ AfterFault' /\ OutputReady' /\ ReadIsTrue'
      BY <1>2, <1>5, <2>3, <2>5, <2>11, <3>2, <3>4, CodecNumbers
      DEF AtRest, UnderWay, AfterFault, OutputReady, ReadIsTrue, Sent, BusBusy
    <3>6. LagIsPart'
      BY <1>2, <2>9, <3>2 DEF LagIsPart
    <3>7. QED
      BY <3>3, <3>5, <3>6 DEF CodecInv
  <2>12. CASE index \notin {VmidBefore, Writes} /\ IssueWrite(index, free, poll.late)
    <3>1. index < Writes
      BY <2>3, <2>4, <2>12, CodecNumbers
    <3>2. QED
      BY <1>1, <2>2, <2>4, <2>5, <2>9, <2>12, <3>1, IssueKeeps
  <2>13. QED
    BY <1>5, <2>10, <2>11, <2>12 DEF Acknowledged
<1>6. QED
  BY <1>4, <1>5 DEF ReadDone

(* The output is switched.                                                 *)
LEMMA EnableKeeps ==
  ASSUME CodecInv, SpeakerEnable
  PROVE  CodecInv'
<1> CodecTypeOK
  BY DEF CodecInv
<1>1. speaker.state = "READY" /\ bus' = bus /\ iic' = iic /\ poll' = poll
  BY DEF SpeakerEnable
<1>2. PICK enabled \in BOOLEAN : speaker' = [speaker EXCEPT !.output = enabled]
  BY DEF SpeakerEnable
<1>3. /\ speaker'.state = speaker.state /\ speaker'.index = speaker.index
      /\ speaker'.elapsed = speaker.elapsed
  BY <1>2 DEF CodecTypeOK
<1>4. CodecTypeOK'
  <2>1. speaker' \in SpeakerKind
    BY <1>2, TypeParts DEF SpeakerKind
  <2>2. QED
    BY <1>1, <2>1, TypeParts, TypePartsNext
<1>5. QED
  BY <1>1, <1>3, <1>4
  DEF CodecInv, AtRest, UnderWay, AfterFault, OutputReady, ReadIsTrue, LagIsPart,
      Sent, Failed, AddressOut, BytesOut, Complete

(* A tick.                                                                 *)
LEMMA CodecTickKeeps ==
  ASSUME CodecInv, CodecTick
  PROVE  CodecInv'
<1> CodecTypeOK
  BY DEF CodecInv
<1>1. /\ speaker.elapsed < MaxElapsed /\ bus' = bus /\ iic' = iic
      /\ speaker' = [speaker EXCEPT !.elapsed = speaker.elapsed + 1]
  BY DEF CodecTick
<1>2. PICK late : /\ poll' = [poll EXCEPT !.late = late]
                  /\ late = 0 \/ late = poll.late + 1
  BY DEF CodecTick
<1>3. /\ speaker'.state = speaker.state /\ speaker'.index = speaker.index
      /\ speaker'.elapsed = speaker.elapsed + 1 /\ speaker'.output = speaker.output
  BY <1>1 DEF CodecTypeOK
<1>4. late \in 0 .. MaxElapsed /\ late <= speaker.elapsed + 1
      /\ speaker.elapsed + 1 \in 0 .. MaxElapsed
  BY <1>1, <1>2, CodecNumbers DEF CodecInv, LagIsPart, CodecTypeOK
<1>5. /\ poll'.at = poll.at /\ poll'.error = poll.error /\ poll'.bnb = poll.bnb
      /\ poll'.late = late
  BY <1>2 DEF CodecTypeOK
<1>6. CodecTypeOK'
  <2>1. speaker' \in SpeakerKind
    BY <1>1, <1>4, TypeParts DEF SpeakerKind
  <2>2. poll' \in PollKind
    BY <1>2, <1>4, TypeParts DEF PollKind
  <2>3. QED
    BY <1>1, <2>1, <2>2, TypeParts, TypePartsNext
<1>7. LagIsPart'
  BY <1>3, <1>4, <1>5 DEF LagIsPart
<1>8. QED
  BY <1>1, <1>3, <1>5, <1>6, <1>7
  DEF CodecInv, AtRest, UnderWay, AfterFault, OutputReady, ReadIsTrue, Sent, Failed,
      AddressOut, BytesOut, Complete

(* The controller moves: what is known of the service, of the driver and   *)
(* of what the task has read stays true of the new state of the bus.       *)
LEMMA ControllerKeeps ==
  ASSUME CodecInv, Controller
  PROVE  CodecInv'
<1> CodecTypeOK
  BY DEF CodecInv
<1>1. speaker' = speaker /\ bus' = bus /\ poll' = poll
  BY DEF Controller, IicDoes, Latch, SendStart, AddressTaken, ByteTaken, SendStop,
     Nack, Release, Hold
<1>2. /\ iic.fifo \in Nat /\ iic.got \in 0 .. 2 /\ iic.written \in Nat
      /\ speaker.index \in 0 .. Writes /\ Writes \in Nat
  BY CodecNumbers DEF CodecTypeOK
<1>3. ASSUME iic' \in IicKind, AtRest', UnderWay', AfterFault', ReadIsTrue'
      PROVE  CodecInv'
  <2>1. CodecTypeOK'
    BY <1>1, <1>3, TypeParts, TypePartsNext
  <2>2. OutputReady' /\ LagIsPart'
    BY <1>1 DEF CodecInv, OutputReady, LagIsPart
  <2>3. QED
    BY <1>3, <2>1, <2>2 DEF CodecInv
<1>4. CASE Latch
  <2>1. iic' = [iic EXCEPT !.bnb = TRUE]
    BY <1>4 DEF Latch, IicDoes
  <2>2. /\ iic'.phase = "IDLE" /\ iic'.fifo = iic.fifo /\ iic'.got = iic.got
        /\ iic'.error = iic.error /\ iic'.bnb = TRUE
        /\ iic'.written = iic.written
    BY <1>4, <2>1 DEF Latch, CodecTypeOK
  <2>3. iic.phase = "IDLE"
    BY <1>4 DEF Latch
  <2>4. iic' \in IicKind
    BY <2>1, TypeParts DEF IicKind
  <2>5. AtRest' /\ AfterFault'
    BY <1>1, <1>2, <2>2, <2>3 DEF CodecInv, AtRest, AfterFault, Sent
  <2>6. UnderWay'
    BY <1>1, <1>2, <2>2, <2>3
    DEF CodecInv, UnderWay, AfterFault, AtRest, Failed, AddressOut, BytesOut,
        Complete, Sent
  <2>7. ReadIsTrue'
    BY <1>1, <1>2, <2>2, <2>3
    DEF CodecInv, ReadIsTrue, UnderWay, Failed, AddressOut, BytesOut, Complete, Sent
  <2>8. QED
    BY <1>3, <2>4, <2>5, <2>6, <2>7
<1>5. CASE SendStart
  <2>1. iic' = [iic EXCEPT !.phase = "ADDRESS", !.fifo = iic.fifo - 1, !.got = 0]
    BY <1>5 DEF SendStart, IicDoes
  <2>2. /\ iic'.phase = "ADDRESS" /\ iic'.fifo = iic.fifo - 1 /\ iic'.got = 0
        /\ iic'.error = iic.error /\ iic'.bnb = iic.bnb
        /\ iic'.written = iic.written
    BY <1>5, <2>1 DEF SendStart, CodecTypeOK
  <2>3. iic.phase = "IDLE" /\ iic.fifo > 0 /\ ~iic.error
    BY <1>5 DEF SendStart
  <2>4. /\ iic.fifo - 1 \in Nat /\ 0 \in 0 .. 2
        /\ iic.written \in Nat
    BY <1>2, <2>3
  <2>5. iic' \in IicKind
    BY <2>1, <2>4, TypeParts DEF IicKind
  <2>6. AtRest' /\ AfterFault'
    BY <1>1, <1>2, <2>2, <2>3 DEF CodecInv, AtRest, AfterFault, Sent
  <2>7. UnderWay'
    BY <1>1, <1>2, <2>2, <2>3
    DEF CodecInv, UnderWay, AfterFault, AtRest, Failed, AddressOut, BytesOut,
        Complete, Sent
  <2>8. ReadIsTrue'
    BY <1>1, <1>2, <2>2, <2>3
    DEF CodecInv, ReadIsTrue, UnderWay, Failed, AddressOut, BytesOut, Complete, Sent
  <2>9. QED
    BY <1>3, <2>5, <2>6, <2>7, <2>8
<1>6. CASE AddressTaken
  <2>1. iic' = [iic EXCEPT !.phase = "BYTES"]
    BY <1>6 DEF AddressTaken, IicDoes
  <2>2. /\ iic'.phase = "BYTES" /\ iic'.fifo = iic.fifo /\ iic'.got = iic.got
        /\ iic'.error = iic.error /\ iic'.bnb = iic.bnb
        /\ iic'.written = iic.written
    BY <1>6, <2>1 DEF AddressTaken, CodecTypeOK
  <2>3. iic.phase = "ADDRESS"
    BY <1>6 DEF AddressTaken
  <2>4. iic' \in IicKind
    BY <2>1, TypeParts DEF IicKind
  <2>5. AtRest' /\ AfterFault'
    BY <1>1, <1>2, <2>2, <2>3 DEF CodecInv, AtRest, AfterFault, Sent
  <2>6. UnderWay'
    BY <1>1, <1>2, <2>2, <2>3
    DEF CodecInv, UnderWay, AfterFault, AtRest, Failed, AddressOut, BytesOut,
        Complete, Sent
  <2>7. ReadIsTrue'
    BY <1>1, <1>2, <2>2, <2>3
    DEF CodecInv, ReadIsTrue, UnderWay, Failed, AddressOut, BytesOut, Complete, Sent
  <2>8. QED
    BY <1>3, <2>4, <2>5, <2>6, <2>7
<1>7. CASE ByteTaken
  <2>1. iic' = [iic EXCEPT !.got = iic.got + 1, !.fifo = iic.fifo - 1]
    BY <1>7 DEF ByteTaken, IicDoes
  <2>2. /\ iic'.phase = iic.phase /\ iic'.fifo = iic.fifo - 1 /\ iic'.got = iic.got + 1
        /\ iic'.error = iic.error /\ iic'.bnb = iic.bnb
        /\ iic'.written = iic.written
    BY <1>7, <2>1 DEF ByteTaken, CodecTypeOK
  <2>3. iic.phase = "BYTES" /\ iic.got < 2 /\ iic.fifo > 0
    BY <1>7 DEF ByteTaken
  <2>4. /\ iic.fifo - 1 \in Nat /\ iic.got + 1 \in 0 .. 2
        /\ iic.written \in Nat
    BY <1>2, <2>3
  <2>5. iic' \in IicKind
    BY <2>1, <2>4, TypeParts DEF IicKind
  <2>6. AtRest' /\ AfterFault'
    BY <1>1, <1>2, <2>2, <2>3 DEF CodecInv, AtRest, AfterFault, Sent
  <2>7. UnderWay'
    BY <1>1, <1>2, <2>2, <2>3
    DEF CodecInv, UnderWay, AfterFault, AtRest, Failed, AddressOut, BytesOut,
        Complete, Sent
  <2>8. ReadIsTrue'
    BY <1>1, <1>2, <2>2, <2>3
    DEF CodecInv, ReadIsTrue, UnderWay, Failed, AddressOut, BytesOut, Complete, Sent
  <2>9. QED
    BY <1>3, <2>5, <2>6, <2>7, <2>8
<1>8. CASE SendStop
  <2>1. iic' = [iic EXCEPT !.phase = "IDLE", !.bnb = TRUE, !.written = iic.written + 1]
    BY <1>8 DEF SendStop, IicDoes
  <2>2. /\ iic'.phase = "IDLE" /\ iic'.fifo = iic.fifo /\ iic'.got = iic.got
        /\ iic'.error = iic.error /\ iic'.bnb = TRUE
        /\ iic'.written = iic.written + 1
    BY <1>8, <2>1 DEF SendStop, CodecTypeOK
  <2>3. iic.phase = "BYTES" /\ iic.got = 2
    BY <1>8 DEF SendStop
  <2>4. /\ iic.fifo \in Nat /\ iic.got \in 0 .. 2
        /\ iic.written + 1 \in Nat
    BY <1>2, <2>3
  <2>5. iic' \in IicKind
    BY <2>1, <2>4, TypeParts DEF IicKind
  <2>6. AtRest' /\ AfterFault'
    BY <1>1, <1>2, <2>2, <2>3 DEF CodecInv, AtRest, AfterFault, Sent
  <2>7. UnderWay'
    BY <1>1, <1>2, <2>2, <2>3
    DEF CodecInv, UnderWay, AfterFault, AtRest, Failed, AddressOut, BytesOut,
        Complete, Sent
  <2>8. ReadIsTrue'
    BY <1>1, <1>2, <2>2, <2>3
    DEF CodecInv, ReadIsTrue, UnderWay, Failed, AddressOut, BytesOut, Complete, Sent
  <2>9. QED
    BY <1>3, <2>5, <2>6, <2>7, <2>8
<1>9. CASE Release
  <2>1. iic' = [iic EXCEPT !.phase = "IDLE", !.bnb = TRUE]
    BY <1>9 DEF Release, IicDoes
  <2>2. /\ iic'.phase = "IDLE" /\ iic'.fifo = iic.fifo /\ iic'.got = iic.got
        /\ iic'.error = iic.error /\ iic'.bnb = TRUE
        /\ iic'.written = iic.written
    BY <1>9, <2>1 DEF Release, CodecTypeOK
  <2>3. iic.phase = "NACKED"
    BY <1>9 DEF Release
  <2>4. iic' \in IicKind
    BY <2>1, TypeParts DEF IicKind
  <2>5. AtRest' /\ AfterFault'
    BY <1>1, <1>2, <2>2, <2>3 DEF CodecInv, AtRest, AfterFault, Sent
  <2>6. UnderWay'
    BY <1>1, <1>2, <2>2, <2>3
    DEF CodecInv, UnderWay, AfterFault, AtRest, Failed, AddressOut, BytesOut,
        Complete, Sent
  <2>7. ReadIsTrue'
    BY <1>1, <1>2, <2>2, <2>3
    DEF CodecInv, ReadIsTrue, UnderWay, Failed, AddressOut, BytesOut, Complete, Sent
  <2>8. QED
    BY <1>3, <2>4, <2>5, <2>6, <2>7
<1>10. CASE Hold
  <2>1. iic' = [iic EXCEPT !.phase = "STUCK"]
    BY <1>10 DEF Hold, IicDoes
  <2>2. /\ iic'.phase = "STUCK" /\ iic'.fifo = iic.fifo /\ iic'.got = iic.got
        /\ iic'.error = iic.error /\ iic'.bnb = iic.bnb
        /\ iic'.written = iic.written
    BY <1>10, <2>1 DEF Hold, CodecTypeOK
  <2>3. iic.phase = "IDLE" /\ iic.fifo = 0
    BY <1>10 DEF Hold
  <2>4. iic' \in IicKind
    BY <2>1, TypeParts DEF IicKind
  <2>5. AtRest' /\ AfterFault'
    BY <1>1, <1>2, <2>2, <2>3 DEF CodecInv, AtRest, AfterFault, Sent
  <2>6. UnderWay'
    BY <1>1, <1>2, <2>2, <2>3
    DEF CodecInv, UnderWay, AfterFault, AtRest, Failed, AddressOut, BytesOut,
        Complete, Sent
  <2>7. ReadIsTrue'
    BY <1>1, <1>2, <2>2, <2>3
    DEF CodecInv, ReadIsTrue, UnderWay, Failed, AddressOut, BytesOut, Complete, Sent
  <2>8. QED
    BY <1>3, <2>4, <2>5, <2>6, <2>7
<1>11. CASE Nack
  <2>1. PICK fifo \in {0, iic.fifo} :
          iic' = [iic EXCEPT !.phase = "NACKED", !.error = TRUE, !.fifo = fifo]
    BY <1>11 DEF Nack, IicDoes
  <2>2. fifo \in Nat
    BY <1>2
  <2>3. /\ iic'.phase = "NACKED" /\ iic'.fifo = fifo /\ iic'.error = TRUE
        /\ iic'.bnb = iic.bnb /\ iic'.written = iic.written
    BY <2>1 DEF CodecTypeOK
  <2>4. iic.phase = "ADDRESS" \/ (iic.phase = "BYTES" /\ iic.got < 2)
    BY <1>11 DEF Nack
  <2>5. iic' \in IicKind
    BY <2>1, <2>2, TypeParts DEF IicKind
  <2>6. AtRest' /\ AfterFault'
    BY <1>1, <1>2, <2>3, <2>4 DEF CodecInv, AtRest, AfterFault, Sent
  <2>7. UnderWay'
    BY <1>1, <1>2, <2>3, <2>4
    DEF CodecInv, UnderWay, Failed, AddressOut, BytesOut, Complete, Sent
  <2>8. ReadIsTrue'
    BY <1>1, <1>2, <2>3, <2>4 DEF CodecInv, ReadIsTrue, UnderWay, Sent
  <2>9. QED
    BY <1>3, <2>5, <2>6, <2>7, <2>8
<1>12. QED
  BY <1>4, <1>5, <1>6, <1>7, <1>8, <1>9, <1>10, <1>11 DEF Controller

(* Every step keeps the invariant.                                         *)
LEMMA CodecInvInductive ==
  CodecInv /\ [CodecNext]_codecVars => CodecInv'
<1> SUFFICES ASSUME CodecInv, [CodecNext]_codecVars PROVE CodecInv'
  OBVIOUS
<1>1. CASE UNCHANGED codecVars
  BY <1>1
  DEF codecVars, CodecInv, CodecTypeOK, AtRest, UnderWay, AfterFault, OutputReady,
      ReadIsTrue, LagIsPart, Sent, Failed, AddressOut, BytesOut, Complete
<1>2. CASE CodecTask
  BY <1>2, BeginKeeps, PollKeeps, ReadIrqKeeps, ReadErrorKeeps, ReadBusyKeeps,
     QueueKeeps, DoneKeeps
  DEF CodecTask
<1>3. QED
  BY <1>1, <1>2, EnableKeeps, ControllerKeeps, CodecTickKeeps DEF CodecNext

-----------------------------------------------------------------------------
(* Theorems *)

(* Every variable of the start-up of the codec has its type.               *)
THEOREM CodecTypeCorrect == CodecSpec => []CodecTypeOK
<1>1. CodecInv => CodecTypeOK
  BY DEF CodecInv
<1>2. QED
  BY <1>1, CodecStarts, CodecInvInductive, PTL DEF CodecSpec

(* What the service counts as acknowledged has reached the codec, and the  *)
(* output is on only behind a codec that has every write: for any number   *)
(* of writes, any time limits, NACKs, held buses and late polls.           *)
THEOREM CodecHasEveryWrite == CodecSpec => []WritesAreReal
<1>1. CodecInv => WritesAreReal
  <2> SUFFICES ASSUME CodecInv PROVE WritesAreReal
    OBVIOUS
  <2>1. speaker.index \in Nat /\ iic.written \in Nat
    BY CodecNumbers DEF CodecInv, CodecTypeOK
  <2>2. CASE speaker.state = "FAULT"
    BY <2>2 DEF CodecInv, AfterFault, WritesAreReal
  <2>3. CASE speaker.state = "READY"
    <3>1. ~bus.active
      BY <2>3 DEF CodecInv, UnderWay
    <3>2. QED
      BY <2>1, <2>3, <3>1 DEF CodecInv, AtRest, Sent, OutputReady, WritesAreReal
  <2>4. CASE speaker.state \in {"OFF", "CONFIGURING"}
    BY <2>1, <2>4
    DEF CodecInv, AtRest, UnderWay, Failed, AddressOut, BytesOut, Complete, Sent,
        OutputReady, WritesAreReal
  <2>5. QED
    BY <2>2, <2>3, <2>4 DEF CodecInv, CodecTypeOK
<1>2. QED
  BY <1>1, CodecStarts, CodecInvInductive, PTL DEF CodecSpec

=============================================================================
