--------------------------- MODULE MeasurementCycle ---------------------------
(***************************************************************************)
(* The state of one measurement cycle, sonar_measurement_cycle.c: capture, *)
(* move, settle, again. A cycle is the part of sonar_cycle_t that decides; *)
(* the io callbacks and the clock belong to the caller (Experiment).       *)
(***************************************************************************)
EXTENDS Integers

CONSTANT MaxSequence            \* UINT32_MAX: the last sequence number

ASSUME SequenceAssumption == MaxSequence \in Nat

CycleState ==
  {"IDLE", "WAIT_BUFFER", "ACQUIRE", "PRE_MOVE", "MOVING", "SETTLING",
   "STOPPED", "FAULT"}

Cycle ==
  [state : CycleState, cycle : 0 .. MaxSequence,
   stopping : BOOLEAN, received : BOOLEAN, transmitted : BOOLEAN]

NewCycle ==
  [state |-> "IDLE", cycle |-> 0,
   stopping |-> FALSE, received |-> FALSE, transmitted |-> FALSE]

IsIdle(c) == c.state \in {"IDLE", "STOPPED"}

(* sonar_cycle_start, which refuses a cycle that is not idle. The sequence *)
(* counter continues over runs.                                            *)
CycleStarted(c) ==
  [c EXCEPT !.state = "WAIT_BUFFER", !.stopping = FALSE,
            !.received = FALSE, !.transmitted = FALSE]

CycleFailed(c) == [c EXCEPT !.state = "FAULT"]

(* Variants with a bug: the capture in flight is not marked as stopped, a  *)
(* waiting cycle goes on waiting.                                          *)
StoppedUnmarked(c, ok) ==
  IF ~ok THEN CycleFailed(c)
  ELSE [c EXCEPT !.state = IF @ \in {"ACQUIRE", "FAULT"} THEN @ ELSE "STOPPED"]
StoppedLater(c, ok) ==
  IF ~ok THEN CycleFailed(c)
  ELSE [c EXCEPT !.stopping = TRUE,
                 !.state = IF IsIdle(c) THEN "STOPPED" ELSE @]

(* sonar_cycle_stop, after io.stop answered `ok'. A capture in flight is   *)
(* drained first; a fault stays a fault.                                   *)
CycleStopped(c, ok) ==
  IF ~ok THEN CycleFailed(c)
  ELSE [c EXCEPT !.stopping = TRUE,
                 !.state = IF @ \in {"ACQUIRE", "FAULT"} THEN @ ELSE "STOPPED"]

(* sonar_cycle_poll in WAIT_BUFFER, after io.capture has triggered.        *)
CycleTriggered(c) ==
  [c EXCEPT !.state = "ACQUIRE", !.cycle = @ + 1,
            !.received = FALSE, !.transmitted = FALSE]

(* sonar_cycle_poll in ACQUIRE: note what has completed ...                *)
CycleNoted(c, captured, transmitted) ==
  [c EXCEPT !.received = @ \/ captured, !.transmitted = @ \/ transmitted]

(* Variant with a bug: reception is not waited for.                        *)
AdvancedEarly(c, rxLate, txLate) ==
  IF c.transmitted THEN [c EXCEPT !.state = IF c.stopping THEN "STOPPED" ELSE "PRE_MOVE"]
  ELSE IF txLate THEN CycleFailed(c)
  ELSE c

(* ... then the receive and the transmit deadline, then the way on.        *)
CycleAdvanced(c, rxLate, txLate) ==
  CASE ~c.received /\ rxLate -> CycleFailed(c)
    [] ~c.transmitted /\ txLate -> CycleFailed(c)
    [] c.received /\ c.transmitted ->
         [c EXCEPT !.state = IF c.stopping THEN "STOPPED" ELSE "PRE_MOVE"]
    [] OTHER -> c
=============================================================================
