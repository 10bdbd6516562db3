------------------------------- MODULE Scan360 -------------------------------
(***************************************************************************)
(* The scan planner of sonar_scan360.c: N capture positions over one       *)
(* revolution, each reached by a relative move. The moves are differences  *)
(* of rounded cumulative targets, so that they add up to one revolution    *)
(* also when it is not divisible by N.                                     *)
(*                                                                         *)
(* A plan is the struct sonar_scan360_t. Products stay far below the 64    *)
(* bits the code computes them in.                                         *)
(***************************************************************************)
EXTENDS Integers

CONSTANTS
  Revolution,                   \* SONAR_SCAN360_REVOLUTION_STEPS
  MaxPositions                  \* SONAR_SCAN360_MAX_POSITIONS

(* Every plan has at most one position per motor step.                     *)
ASSUME ScanAssumption ==
  /\ Revolution \in Nat /\ MaxPositions \in Nat \ {0}
  /\ MaxPositions <= Revolution

Plan == [positions : 0 .. MaxPositions, moves : 0 .. MaxPositions, direction : {-1, 1}]

(* The zero-initialised struct; its direction is never read.               *)
NoPlan == [positions |-> 0, moves |-> 0, direction |-> 1]

Configurable(request) == request # 0 /\ -MaxPositions <= request /\ request <= MaxPositions

Configured(request) ==
  [positions |-> IF request < 0 THEN -request ELSE request,
   moves |-> 0,
   direction |-> IF request < 0 THEN -1 ELSE 1]

(* Variant with a bug: the last scan's moves still count.                  *)
NotBegun(plan) == plan

Begun(plan) == [plan EXCEPT !.moves = 0]

Exhausted(plan) == plan.moves >= plan.positions

(* The 1-based position the next capture belongs to, 0 when there is none. *)
CaptureIndex(plan) == IF Exhausted(plan) THEN 0 ELSE plan.moves + 1

(* Distance of position k from the start, rounded to the nearest step.     *)
Target(n, k) == (k * Revolution + n \div 2) \div n

(* Variants with a bug: the remainder of the division is lost in every     *)
(* move; the target itself is taken for the relative move.                 *)
TruncatedDelta(plan) ==
  IF Exhausted(plan) THEN 0 ELSE plan.direction * (Revolution \div plan.positions)
AbsoluteDelta(plan) ==
  IF Exhausted(plan) THEN 0
  ELSE plan.direction * Target(plan.positions, plan.moves + 1)

NextDelta(plan) ==
  IF Exhausted(plan) THEN 0
  ELSE plan.direction *
         (Target(plan.positions, plan.moves + 1) - Target(plan.positions, plan.moves))

MoveMarked(plan) ==
  IF Exhausted(plan) THEN plan ELSE [plan EXCEPT !.moves = @ + 1]

Complete(plan) == plan.positions # 0 /\ Exhausted(plan)
=============================================================================
