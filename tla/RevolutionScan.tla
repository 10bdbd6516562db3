---------------------------- MODULE RevolutionScan ----------------------------
(***************************************************************************)
(* The scan planner in use: the plan is reconfigured or begun at any time  *)
(* no run is in progress, and every move that was commanded is marked and  *)
(* turns the plate by the delta the planner returned.                      *)
(***************************************************************************)
EXTENDS Scan360

CONSTANT Requests               \* bound: the signed position counts entered

ASSUME RequestsAssumption == Requests \subseteq Int

VARIABLES
  plan,                         \* the scan360 struct
  travel                        \* net plate movement since the scan began

vars == <<plan, travel>>

Init == plan = NoPlan /\ travel = 0

(* An out-of-range request leaves the plan as it is.                       *)
Configure(request) ==
  /\ Configurable(request)
  /\ plan' = Configured(request)
  /\ travel' = 0

Begin ==
  /\ plan.positions # 0
  /\ plan' = Begun(plan)
  /\ travel' = 0

(* move_motor(): refused when there is no position left or nothing to do.  *)
Move ==
  /\ CaptureIndex(plan) # 0
  /\ NextDelta(plan) # 0
  /\ travel' = travel + NextDelta(plan)
  /\ plan' = MoveMarked(plan)

Next ==
  \/ \E request \in Requests : Configure(request)
  \/ Begin
  \/ Move

Spec == Init /\ [][Next]_vars

-----------------------------------------------------------------------------
(* The types of the variables; a scan never has more moves than positions. *)
TypeOK ==
  /\ plan \in Plan
  /\ plan.moves <= plan.positions
  /\ travel \in Int

(* After k moves the plate is where the k-th rounded target is: rounding   *)
(* errors do not accumulate, in either direction.                          *)
OnTarget ==
  plan.positions # 0 => travel = plan.direction * Target(plan.positions, plan.moves)

(* A complete scan turned the plate by exactly one revolution.             *)
FullTurn == Complete(plan) => travel = plan.direction * Revolution

(* move_motor() takes a zero delta for a failure and ends the run in       *)
(* FAULT: a scan that is not complete always has a move to make, of the    *)
(* even spacing or one step more.                                          *)
NextMoveIsReal ==
  CaptureIndex(plan) # 0 =>
    LET distance == plan.direction * NextDelta(plan)
        even == Revolution \div plan.positions
    IN  distance \in {even, even + 1} /\ distance # 0
=============================================================================
