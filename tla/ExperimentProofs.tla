--------------------------- MODULE ExperimentProofs ---------------------------
(***************************************************************************)
(* The safety properties of Experiment for every size of the pool, of the  *)
(* key queue and of the plan: what a Stop, an inhibit, a late completion   *)
(* or a failed output at any point of the loop cannot do.                  *)
(*                                                                         *)
(* The inductive invariant Inv says what the code takes for granted at     *)
(* each of its steps: who owns the slot and the recording (Ownership), what *)
(* the locals of the loop still say when they are used (Position), when    *)
(* the speaker plays and the plate turns (Transmission, Plate), how the    *)
(* plan counts moves and positions (Planned, PlateOnPlan, InOrder), and    *)
(* what a Stop that is under way will still do (Marked, StopComing).       *)
(***************************************************************************)
EXTENDS Experiment, TLAPS

-----------------------------------------------------------------------------
(* The operators of the parts keep their types.                            *)

LEMMA SlotFacts == NoSlot \notin Slot
  BY PoolCountAssumption DEF Slot, NoSlot

LEMMA CycleTypes ==
  ASSUME NEW d \in Cycle, NEW ok \in BOOLEAN, NEW p \in BOOLEAN, NEW q \in BOOLEAN
  PROVE  /\ CycleStarted(d) \in Cycle /\ CycleFailed(d) \in Cycle
         /\ CycleStopped(d, ok) \in Cycle
         /\ d.cycle # MaxSequence => CycleTriggered(d) \in Cycle
         /\ CycleNoted(d, p, q) \in Cycle /\ CycleAdvanced(d, p, q) \in Cycle
<1> USE DEF Cycle, CycleState
<1>1. CycleStarted(d) \in Cycle /\ CycleFailed(d) \in Cycle
  BY DEF CycleStarted, CycleFailed
<1>2. CycleStopped(d, ok) \in Cycle
  BY <1>1 DEF CycleStopped, CycleFailed
<1>3. d.cycle # MaxSequence => CycleTriggered(d) \in Cycle
  <2>1. d.cycle # MaxSequence => d.cycle + 1 \in 0 .. MaxSequence
    BY SequenceAssumption DEF SequenceAssumption
  <2> QED
    BY <2>1 DEF CycleTriggered
<1>4. CycleNoted(d, p, q) \in Cycle
  BY DEF CycleNoted
<1>5. CycleAdvanced(d, p, q) \in Cycle
  BY <1>1 DEF CycleAdvanced, CycleFailed
<1> QED
  BY <1>1, <1>2, <1>3, <1>4, <1>5

LEMMA PlanTypes ==
  /\ NoPlan \in Plan
  /\ \A request \in Int : Configurable(request) => Configured(request) \in Plan
  /\ \A p \in Plan : /\ Begun(p) \in Plan /\ MoveMarked(p) \in Plan
                     /\ CaptureIndex(p) \in 0 .. MaxPositions
<1> USE ScanAssumption DEF ScanAssumption, Plan
<1>1. NoPlan \in Plan
  BY DEF NoPlan
<1>2. ASSUME NEW request \in Int, Configurable(request)
      PROVE  Configured(request) \in Plan
  BY <1>2 DEF Configurable, Configured
<1>3. ASSUME NEW p \in Plan
      PROVE  /\ Begun(p) \in Plan /\ MoveMarked(p) \in Plan
             /\ CaptureIndex(p) \in 0 .. MaxPositions
  BY DEF Begun, MoveMarked, CaptureIndex, Exhausted
<1> QED
  BY <1>1, <1>2, <1>3

(* Targets are whole steps, and the first is the start.                    *)
LEMMA TargetFacts ==
  ASSUME NEW n \in Nat \ {0}, NEW k \in Nat
  PROVE  Target(n, k) \in Int /\ Target(n, 0) = 0
<1>1. k * Revolution + n \div 2 \in Int
  BY ScanAssumption DEF ScanAssumption
<1>2. Target(n, k) \in Int
  BY <1>1 DEF Target
<1>3. 0 * Revolution = 0
  BY ScanAssumption DEF ScanAssumption
<1>4. n \div 2 \in 0 .. n - 1
  OBVIOUS
<1>5. \A m \in 0 .. n - 1 : m \div n = 0
  OBVIOUS
<1> QED
  BY <1>2, <1>3, <1>4, <1>5 DEF Target

LEMMA DeltaType ==
  ASSUME NEW p \in Plan
  PROVE  NextDelta(p) \in Int
<1>1. CASE Exhausted(p)
  BY <1>1 DEF NextDelta
<1>2. CASE ~Exhausted(p)
  <2>1. /\ p.positions \in Nat \ {0} /\ p.moves \in Nat /\ p.moves + 1 \in Nat
        /\ p.direction \in {-1, 1}
    BY <1>2, ScanAssumption DEF ScanAssumption, Exhausted, Plan
  <2>2. /\ Target(p.positions, p.moves) \in Int
        /\ Target(p.positions, p.moves + 1) \in Int
    BY <2>1, TargetFacts
  <2> QED
    BY <1>2, <2>1, <2>2 DEF NextDelta
<1> QED
  BY <1>1, <1>2
-----------------------------------------------------------------------------
(* Which steps can change what.                                            *)

Fails ==
  PollUnhealthy \/ SequenceExhausted \/ PrepareCapture \/ TriggerFails
    \/ AcquirePoll \/ MoveFails \/ MotorTimeout

Stops == StopRun \/ FinishScan

KeyTaken ==
  \/ \E k \in {"n", "v"} : OpenPrompt(k)
  \/ \E request \in Requests : EnterPositions(request)
  \/ EnterDivisor \/ IgnoreKey

StopAsked == (\E k \in Key : KeyArrives(k)) \/ StopKey \/ Inhibit

LEMMA Changes ==
  ASSUME [Next]_vars
  PROVE  /\ UNCHANGED c \/ Stops \/ Fails \/ Run \/ Trigger \/ Move \/ Arrived
         /\ \/ UNCHANGED plan
            \/ Run \/ Move \/ \E request \in Requests : EnterPositions(request)
         /\ UNCHANGED prompt \/ KeyTaken \/ StopRun
         /\ UNCHANGED running \/ Run \/ ReleaseRun
         /\ UNCHANGED filling \/ PrepareCapture \/ FinishCapture
         /\ \/ UNCHANGED slots \/ PrepareCapture \/ FinishCapture
            \/ \E i \in Slot : FrameSent(i)
         /\ UNCHANGED metadata \/ Trigger \/ TriggerFails
         /\ \/ UNCHANGED <<mic, dma>>
            \/ AwaitCapture \/ FinishCapture \/ Trigger \/ TriggerFails \/ React
            \/ DmaFinishes
         /\ \/ UNCHANGED <<tx, txFault, playing>>
            \/ Stops \/ Fails \/ ApplyConfiguration \/ Trigger
            \/ AwaitCapture \/ FinishCapture \/ TxFinishes
         /\ UNCHANGED speaker \/ Stops \/ Fails \/ Trigger \/ React
         /\ \/ UNCHANGED <<motor, cause, turning>>
            \/ Stops \/ Fails \/ EnterDivisor \/ MotorDone \/ MotorFails \/ Move
            \/ MotorArrives
         /\ UNCHANGED target \/ Run \/ Move
         /\ UNCHANGED travel \/ Run \/ MotorArrives
         /\ UNCHANGED test \/ PrepareTest
         /\ UNCHANGED <<armed, stale>> \/ Stops \/ Fails \/ Run \/ PrepareTest
              \/ ApplyConfiguration
         /\ UNCHANGED frames \/ Run \/ FinishCapture
         /\ UNCHANGED cut \/ StopRun \/ Trigger
         /\ UNCHANGED since \/ StopAsked \/ Run \/ Trigger \/ Move
         /\ UNCHANGED stop_requested \/ StopAsked \/ TakeFlags
         /\ UNCHANGED expired \/ Trigger \/ Move \/ Arrived \/ React \/ FinishScan
              \/ \E d \in Deadline : Expire(d)
         /\ UNCHANGED keys \/ StopRun \/ KeyTaken \/ Run \/ StopAsked
<1> USE DEF shared, cycleVars, captureVars, outputVars, moveVars, identityVars,
            history, pollUnchanged, taskVars, vars,
            Next, Task, HandleKey, CyclePoll, Environment,
            Fails, Stops, KeyTaken, StopAsked
<1>1. UNCHANGED c \/ Stops \/ Fails \/ Run \/ Trigger \/ Move \/ Arrived
  BY Zenon DEF TakeFlags, ControlIdle, PrepareTest, ApplyConfiguration,
     OpenPrompt, EnterPositions, EnterDivisor, IgnoreKey, TakeKey, NoMoreKeys,
     MotorNotDue, MotorDone, MotorFails, AwaitCapture, FinishCapture,
     PollDormant, WaitForBuffer, KeepWaiting, React, KeyArrives, StopKey,
     Inhibit, TxFinishes, DmaFinishes, MotorArrives, Expire, FrameSent
<1>2. \/ UNCHANGED plan
      \/ Run \/ Move \/ \E request \in Requests : EnterPositions(request)
  BY Zenon DEF TakeFlags, StopRun, ControlIdle, PrepareTest, ApplyConfiguration,
     OpenPrompt, EnterDivisor, IgnoreKey, TakeKey, NoMoreKeys, MotorNotDue,
     MotorDone, MotorFails, AwaitCapture, FinishCapture, PollDormant,
     PollUnhealthy, SequenceExhausted, WaitForBuffer, PrepareCapture, Trigger,
     TriggerFails, AcquirePoll, KeepWaiting, MoveFails, MotorTimeout, Arrived,
     React, FinishScan, KeyArrives, StopKey, Inhibit, TxFinishes, DmaFinishes,
     MotorArrives, Expire, FrameSent
<1>3. UNCHANGED prompt \/ KeyTaken \/ StopRun
  BY Zenon DEF TakeFlags, ControlIdle, PrepareTest, ApplyConfiguration, TakeKey,
     Run, NoMoreKeys, MotorNotDue, MotorDone, MotorFails, AwaitCapture,
     FinishCapture, PollDormant, PollUnhealthy, SequenceExhausted,
     WaitForBuffer, PrepareCapture, Trigger, TriggerFails, AcquirePoll,
     KeepWaiting, Move, MoveFails, MotorTimeout, Arrived, React, FinishScan,
     KeyArrives, StopKey, Inhibit, TxFinishes, DmaFinishes, MotorArrives,
     Expire, FrameSent
<1>4. UNCHANGED running \/ Run \/ ReleaseRun
  BY Zenon DEF TakeFlags, StopRun, ControlIdle, PrepareTest, ApplyConfiguration,
     OpenPrompt, EnterPositions, EnterDivisor, IgnoreKey, TakeKey, NoMoreKeys,
     MotorNotDue, MotorDone, MotorFails, AwaitCapture, FinishCapture,
     PollDormant, PollUnhealthy, SequenceExhausted, WaitForBuffer,
     PrepareCapture, Trigger, TriggerFails, AcquirePoll, KeepWaiting, Move,
     MoveFails, MotorTimeout, Arrived, React, FinishScan, KeyArrives, StopKey,
     Inhibit, TxFinishes, DmaFinishes, MotorArrives, Expire, FrameSent
<1>5. UNCHANGED filling \/ PrepareCapture \/ FinishCapture
  BY Zenon DEF TakeFlags, StopRun, ControlIdle, PrepareTest, ApplyConfiguration,
     OpenPrompt, EnterPositions, EnterDivisor, IgnoreKey, TakeKey, Run,
     NoMoreKeys, MotorNotDue, MotorDone, MotorFails, AwaitCapture, PollDormant,
     PollUnhealthy, SequenceExhausted, WaitForBuffer, Trigger, TriggerFails,
     AcquirePoll, KeepWaiting, Move, MoveFails, MotorTimeout, Arrived, React,
     FinishScan, KeyArrives, StopKey, Inhibit, TxFinishes, DmaFinishes,
     MotorArrives, Expire, FrameSent
<1>6. \/ UNCHANGED slots \/ PrepareCapture \/ FinishCapture
      \/ \E i \in Slot : FrameSent(i)
  BY Zenon DEF TakeFlags, StopRun, ControlIdle, PrepareTest, ApplyConfiguration,
     OpenPrompt, EnterPositions, EnterDivisor, IgnoreKey, TakeKey, Run,
     NoMoreKeys, MotorNotDue, MotorDone, MotorFails, AwaitCapture, PollDormant,
     PollUnhealthy, SequenceExhausted, WaitForBuffer, Trigger, TriggerFails,
     AcquirePoll, KeepWaiting, Move, MoveFails, MotorTimeout, Arrived, React,
     FinishScan, KeyArrives, StopKey, Inhibit, TxFinishes, DmaFinishes,
     MotorArrives, Expire
<1>7. UNCHANGED metadata \/ Trigger \/ TriggerFails
  BY Zenon DEF TakeFlags, StopRun, ControlIdle, PrepareTest, ApplyConfiguration,
     OpenPrompt, EnterPositions, EnterDivisor, IgnoreKey, TakeKey, Run,
     NoMoreKeys, MotorNotDue, MotorDone, MotorFails, AwaitCapture,
     FinishCapture, PollDormant, PollUnhealthy, SequenceExhausted,
     WaitForBuffer, PrepareCapture, AcquirePoll, KeepWaiting, Move, MoveFails,
     MotorTimeout, Arrived, React, FinishScan, KeyArrives, StopKey, Inhibit,
     TxFinishes, DmaFinishes, MotorArrives, Expire, FrameSent
<1>8. \/ UNCHANGED <<mic, dma>>
      \/ AwaitCapture \/ FinishCapture \/ Trigger \/ TriggerFails \/ React
      \/ DmaFinishes
  BY Zenon DEF TakeFlags, StopRun, ControlIdle, PrepareTest, ApplyConfiguration,
     OpenPrompt, EnterPositions, EnterDivisor, IgnoreKey, TakeKey, Run,
     NoMoreKeys, MotorNotDue, MotorDone, MotorFails, PollDormant, PollUnhealthy,
     SequenceExhausted, WaitForBuffer, PrepareCapture, AcquirePoll, KeepWaiting,
     Move, MoveFails, MotorTimeout, Arrived, FinishScan, KeyArrives, StopKey,
     Inhibit, TxFinishes, MotorArrives, Expire, FrameSent
<1>9. \/ UNCHANGED <<tx, txFault, playing>>
      \/ Stops \/ Fails \/ ApplyConfiguration \/ Trigger
      \/ AwaitCapture \/ FinishCapture \/ TxFinishes
  BY Zenon DEF TakeFlags, ControlIdle, PrepareTest, OpenPrompt, EnterPositions,
     EnterDivisor, IgnoreKey, TakeKey, Run, NoMoreKeys, MotorNotDue, MotorDone,
     MotorFails, PollDormant, WaitForBuffer, KeepWaiting, Move, Arrived, React,
     KeyArrives, StopKey, Inhibit, DmaFinishes, MotorArrives, Expire, FrameSent
<1>10. UNCHANGED speaker \/ Stops \/ Fails \/ Trigger \/ React
  BY Zenon DEF TakeFlags, ControlIdle, PrepareTest, ApplyConfiguration,
     OpenPrompt, EnterPositions, EnterDivisor, IgnoreKey, TakeKey, Run,
     NoMoreKeys, MotorNotDue, MotorDone, MotorFails, AwaitCapture,
     FinishCapture, PollDormant, WaitForBuffer, KeepWaiting, Move, Arrived,
     KeyArrives, StopKey, Inhibit, TxFinishes, DmaFinishes, MotorArrives,
     Expire, FrameSent
<1>11. \/ UNCHANGED <<motor, cause, turning>>
      \/ Stops \/ Fails \/ EnterDivisor \/ MotorDone \/ MotorFails \/ Move
      \/ MotorArrives
  BY Zenon DEF TakeFlags, ControlIdle, PrepareTest, ApplyConfiguration,
     OpenPrompt, EnterPositions, IgnoreKey, TakeKey, Run, NoMoreKeys,
     MotorNotDue, AwaitCapture, FinishCapture, PollDormant, WaitForBuffer,
     Trigger, KeepWaiting, Arrived, React, KeyArrives, StopKey, Inhibit,
     TxFinishes, DmaFinishes, Expire, FrameSent
<1>12. UNCHANGED target \/ Run \/ Move
  BY Zenon DEF TakeFlags, StopRun, ControlIdle, PrepareTest, ApplyConfiguration,
     OpenPrompt, EnterPositions, EnterDivisor, IgnoreKey, TakeKey, NoMoreKeys,
     MotorNotDue, MotorDone, MotorFails, AwaitCapture, FinishCapture,
     PollDormant, PollUnhealthy, SequenceExhausted, WaitForBuffer,
     PrepareCapture, Trigger, TriggerFails, AcquirePoll, KeepWaiting, MoveFails,
     MotorTimeout, Arrived, React, FinishScan, KeyArrives, StopKey, Inhibit,
     TxFinishes, DmaFinishes, MotorArrives, Expire, FrameSent
<1>13. UNCHANGED travel \/ Run \/ MotorArrives
  BY Zenon DEF TakeFlags, StopRun, ControlIdle, PrepareTest, ApplyConfiguration,
     OpenPrompt, EnterPositions, EnterDivisor, IgnoreKey, TakeKey, NoMoreKeys,
     MotorNotDue, MotorDone, MotorFails, AwaitCapture, FinishCapture,
     PollDormant, PollUnhealthy, SequenceExhausted, WaitForBuffer,
     PrepareCapture, Trigger, TriggerFails, AcquirePoll, KeepWaiting, Move,
     MoveFails, MotorTimeout, Arrived, React, FinishScan, KeyArrives, StopKey,
     Inhibit, TxFinishes, DmaFinishes, Expire, FrameSent
<1>14. UNCHANGED test \/ PrepareTest
  BY Zenon DEF TakeFlags, StopRun, ControlIdle, ApplyConfiguration, OpenPrompt,
     EnterPositions, EnterDivisor, IgnoreKey, TakeKey, Run, NoMoreKeys,
     MotorNotDue, MotorDone, MotorFails, AwaitCapture, FinishCapture,
     PollDormant, PollUnhealthy, SequenceExhausted, WaitForBuffer,
     PrepareCapture, Trigger, TriggerFails, AcquirePoll, KeepWaiting, Move,
     MoveFails, MotorTimeout, Arrived, React, FinishScan, KeyArrives, StopKey,
     Inhibit, TxFinishes, DmaFinishes, MotorArrives, Expire, FrameSent
<1>15. UNCHANGED <<armed, stale>> \/ Stops \/ Fails \/ Run \/ PrepareTest
        \/ ApplyConfiguration
  BY Zenon DEF TakeFlags, ControlIdle, OpenPrompt, EnterPositions, EnterDivisor,
     IgnoreKey, TakeKey, NoMoreKeys, MotorNotDue, MotorDone, MotorFails,
     AwaitCapture, FinishCapture, PollDormant, WaitForBuffer, Trigger,
     KeepWaiting, Move, Arrived, React, KeyArrives, StopKey, Inhibit,
     TxFinishes, DmaFinishes, MotorArrives, Expire, FrameSent
<1>16. UNCHANGED frames \/ Run \/ FinishCapture
  BY Zenon DEF TakeFlags, StopRun, ControlIdle, PrepareTest, ApplyConfiguration,
     OpenPrompt, EnterPositions, EnterDivisor, IgnoreKey, TakeKey, NoMoreKeys,
     MotorNotDue, MotorDone, MotorFails, AwaitCapture, PollDormant,
     PollUnhealthy, SequenceExhausted, WaitForBuffer, PrepareCapture, Trigger,
     TriggerFails, AcquirePoll, KeepWaiting, Move, MoveFails, MotorTimeout,
     Arrived, React, FinishScan, KeyArrives, StopKey, Inhibit, TxFinishes,
     DmaFinishes, MotorArrives, Expire, FrameSent
<1>17. UNCHANGED cut \/ StopRun \/ Trigger
  BY Zenon DEF TakeFlags, ControlIdle, PrepareTest, ApplyConfiguration,
     OpenPrompt, EnterPositions, EnterDivisor, IgnoreKey, TakeKey, Run,
     NoMoreKeys, MotorNotDue, MotorDone, MotorFails, AwaitCapture,
     FinishCapture, PollDormant, PollUnhealthy, SequenceExhausted,
     WaitForBuffer, PrepareCapture, TriggerFails, AcquirePoll, KeepWaiting,
     Move, MoveFails, MotorTimeout, Arrived, React, FinishScan, KeyArrives,
     StopKey, Inhibit, TxFinishes, DmaFinishes, MotorArrives, Expire, FrameSent
<1>18. UNCHANGED since \/ StopAsked \/ Run \/ Trigger \/ Move
  BY Zenon DEF TakeFlags, StopRun, ControlIdle, PrepareTest, ApplyConfiguration,
     OpenPrompt, EnterPositions, EnterDivisor, IgnoreKey, TakeKey, NoMoreKeys,
     MotorNotDue, MotorDone, MotorFails, AwaitCapture, FinishCapture,
     PollDormant, PollUnhealthy, SequenceExhausted, WaitForBuffer,
     PrepareCapture, TriggerFails, AcquirePoll, KeepWaiting, MoveFails,
     MotorTimeout, Arrived, React, FinishScan, TxFinishes, DmaFinishes,
     MotorArrives, Expire, FrameSent
<1>19. UNCHANGED stop_requested \/ StopAsked \/ TakeFlags
  BY Zenon DEF StopRun, ControlIdle, PrepareTest, ApplyConfiguration,
     OpenPrompt, EnterPositions, EnterDivisor, IgnoreKey, TakeKey, Run,
     NoMoreKeys, MotorNotDue, MotorDone, MotorFails, AwaitCapture,
     FinishCapture, PollDormant, PollUnhealthy, SequenceExhausted,
     WaitForBuffer, PrepareCapture, Trigger, TriggerFails, AcquirePoll,
     KeepWaiting, Move, MoveFails, MotorTimeout, Arrived, React, FinishScan,
     TxFinishes, DmaFinishes, MotorArrives, Expire, FrameSent
<1>20. UNCHANGED expired \/ Trigger \/ Move \/ Arrived \/ React \/ FinishScan
        \/ \E d \in Deadline : Expire(d)
  BY Zenon DEF TakeFlags, StopRun, ControlIdle, PrepareTest, ApplyConfiguration,
     OpenPrompt, EnterPositions, EnterDivisor, IgnoreKey, TakeKey, Run,
     NoMoreKeys, MotorNotDue, MotorDone, MotorFails, AwaitCapture,
     FinishCapture, PollDormant, PollUnhealthy, SequenceExhausted,
     WaitForBuffer, PrepareCapture, TriggerFails, AcquirePoll, KeepWaiting,
     MoveFails, MotorTimeout, KeyArrives, StopKey, Inhibit, TxFinishes,
     DmaFinishes, MotorArrives, FrameSent
<1>21. UNCHANGED keys \/ StopRun \/ KeyTaken \/ Run \/ StopAsked
  BY Zenon DEF TakeFlags, ControlIdle, PrepareTest, ApplyConfiguration, TakeKey,
     NoMoreKeys, MotorNotDue, MotorDone, MotorFails, AwaitCapture,
     FinishCapture, PollDormant, PollUnhealthy, SequenceExhausted,
     WaitForBuffer, PrepareCapture, Trigger, TriggerFails, AcquirePoll,
     KeepWaiting, Move, MoveFails, MotorTimeout, Arrived, React, FinishScan,
     TxFinishes, DmaFinishes, MotorArrives, Expire, FrameSent
<1> QED
  BY <1>1, <1>2, <1>3, <1>4, <1>5, <1>6, <1>7, <1>8, <1>9, <1>10, <1>11, <1>12,
     <1>13, <1>14, <1>15, <1>16, <1>17, <1>18, <1>19, <1>20, <1>21
-----------------------------------------------------------------------------
(* What the code is entitled to assume at each of its steps.               *)

(* No recording of its own is under way but in a capture, in one that has  *)
(* failed, or between its preparation and its trigger; what it waits for   *)
(* is armed only while it owns a slot.                                     *)
Ownership ==
  /\ \A i \in Slot : slots[i] = "FILLING" <=> i = filling
  /\ filling # NoSlot => \/ c.state \in {"ACQUIRE", "FAULT"}
                         \/ pc = "trigger"
  /\ mic # "IDLE" \/ dma # "off" => filling # NoSlot
  /\ c.state = "WAIT_BUFFER" => mic = "IDLE"

(* Where the loop is and what its locals say.                              *)
Position ==
  /\ pc = "trigger" =>
       /\ c.state = "WAIT_BUFFER" /\ c.cycle # MaxSequence
       /\ filling # NoSlot
  /\ loc.captured => /\ pc \in {"poll", "tail"} /\ filling = NoSlot
                     /\ pc = "poll" => c.state \in {"ACQUIRE", "FAULT"}
  /\ c.state = "ACQUIRE" /\ c.received => filling = NoSlot
  /\ prompt # "none" => (Idle \/ c.state = "FAULT") /\ filling = NoSlot

(* A transmission belongs to a capture that waits for its end; the speaker *)
(* is on for as long.                                                      *)
Transmission ==
  /\ playing => tx = "running"
  /\ tx = "running" => \/ c.state = "FAULT"
                       \/ c.state = "ACQUIRE" /\ ~c.transmitted
  /\ speaker => \/ c.state = "ACQUIRE"
                \/ /\ pc = "tail" /\ loc.before = "ACQUIRE"
                   /\ c.state \in {"PRE_MOVE", "STOPPED"}

(* The plate turns only in a move or after a fault, and stands on target   *)
(* everywhere else; a fault leaves no motor that counts as moving.         *)
Plate ==
  /\ turning => c.state \in {"MOVING", "FAULT"} /\ ~playing /\ dma # "running"
  /\ motor = "DONE" => ~turning
  /\ c.state = "FAULT" => motor \in {"IDLE", "FAULT"}
  /\ c.state = "FAULT" /\ pc = "top" => mic # "CAPTURING"

(* How many positions are planned, commanded and published.                *)
Planned ==
  /\ c.state \in {"WAIT_BUFFER", "ACQUIRE", "PRE_MOVE", "MOVING", "SETTLING"} =>
       /\ plan.positions # 0 /\ plan.moves <= plan.positions
       /\ c.stopping => c.state = "ACQUIRE"
  /\ c.state \in {"ACQUIRE", "PRE_MOVE"} => ~Exhausted(plan)
  /\ c.state = "WAIT_BUFFER" /\ Exhausted(plan) =>
       pc = "tail" /\ loc.before = "SETTLING"

OnPlan == plan.direction * Target(plan.positions, plan.moves)

PlateOnPlan ==
  /\ c.state \in {"WAIT_BUFFER", "ACQUIRE", "PRE_MOVE", "SETTLING"} =>
       travel = OnPlan
  /\ c.state = "MOVING" =>
       /\ target = OnPlan
       /\ motor \in {"MOVING", "DONE"} /\ ~turning => travel = target

Underway == mic \in {"CAPTURING", "READY"}

InOrder ==
  /\ c.state \in {"WAIT_BUFFER", "MOVING", "SETTLING"} => Len(frames) = plan.moves
  /\ c.state = "ACQUIRE" /\ filling # NoSlot => Len(frames) = plan.moves
  /\ \/ c.state = "PRE_MOVE"
     \/ c.state = "ACQUIRE" /\ filling = NoSlot /\ ~c.stopping
     => Len(frames) = plan.moves + 1
  /\ Underway => metadata.index = Len(frames) + 1 /\ metadata.test = test
  /\ Underway \/ ~(Idle \/ c.state = "FAULT") =>
       \A k \in DOMAIN frames : frames[k].about.test = test
  /\ EachPositionOnce

(* What a Stop has marked as stopped is on its way to the bin.             *)
Marked ==
  /\ Underway /\ cut = "stopped" => c.stopping
  /\ StoppedIsDiscarded

(* A Stop that was requested is on its way, and an output that was started *)
(* since then was the last.                                                *)
Quiet == Idle \/ c.state = "FAULT" \/ (c.state = "ACQUIRE" /\ c.stopping)
StopComing ==
  /\ since # NoStop => Quiet \/ pc = "stop" \/ stop_requested
  /\ since = 1 => Quiet \/ pc = "stop" \/ (stop_requested /\ pc \in {"tail", "top"})
  /\ since <= 1

Prepared == armed => test > stale

(* Where the loop goes: only the task moves it, and one action or two each *)
(* leave and enter a phase.                                                *)
LEMMA Phases ==
  ASSUME [Next]_vars
  PROVE  /\ UNCHANGED taskVars \/ Task
         /\ pc = "top" => UNCHANGED taskVars \/ TakeFlags
         /\ pc' = "top" => UNCHANGED taskVars \/ React \/ FinishScan
         /\ pc = "stop" => UNCHANGED taskVars \/ StopRun
         /\ pc' = "stop" => UNCHANGED taskVars \/ TakeFlags
         /\ pc = "trigger" => UNCHANGED taskVars \/ Trigger \/ TriggerFails
         /\ pc' = "trigger" => UNCHANGED taskVars \/ PrepareCapture
         /\ pc = "poll" => UNCHANGED taskVars \/ CyclePoll
         /\ pc' = "poll" => UNCHANGED taskVars \/ AwaitCapture \/ FinishCapture
         /\ pc = "tail" => UNCHANGED taskVars \/ React \/ FinishScan
         /\ pc' = "tail" => UNCHANGED taskVars \/ CyclePoll
<1> USE DEF shared, cycleVars, captureVars, outputVars, moveVars, identityVars,
            history, pollUnchanged, vars, taskVars
<1>1. UNCHANGED taskVars \/ Task
  BY Zenon DEF Next, Environment, KeyArrives, StopKey, Inhibit, TxFinishes,
     DmaFinishes, MotorArrives, Expire, FrameSent
<1>2. ASSUME Task PROVE 
         /\ pc = "top" => TakeFlags
         /\ pc = "stop" =>  StopRun
         /\ pc = "trigger" => Trigger \/ TriggerFails
         /\ pc = "poll" =>  CyclePoll
         /\ pc = "tail" =>  React \/ FinishScan
  BY <1>2, ZenonT(40) DEF Task, HandleKey, CyclePoll, TakeFlags, StopRun,
     ControlIdle, PrepareTest, ApplyConfiguration, OpenPrompt, EnterPositions,
     EnterDivisor, IgnoreKey, TakeKey, Run, NoMoreKeys, MotorNotDue, MotorDone,
     MotorFails, AwaitCapture, FinishCapture, React, FinishScan, Poll,
     PollDormant, PollUnhealthy, SequenceExhausted, WaitForBuffer,
     PrepareCapture, Trigger, TriggerFails, AcquirePoll, KeepWaiting, Move,
     MoveFails, MotorTimeout, Arrived
<1>3. ASSUME Task PROVE 
         /\ pc' = "top" =>  React \/ FinishScan
         /\ pc' = "stop" =>  TakeFlags
         /\ pc' = "trigger" =>  PrepareCapture
         /\ pc' = "poll" =>  AwaitCapture \/ FinishCapture
         /\ pc' = "tail" =>  CyclePoll
  BY <1>3, ZenonT(40) DEF Task, Goto, EndIteration, HandleKey, CyclePoll, TakeFlags,
     StopRun, ControlIdle, PrepareTest, ApplyConfiguration, OpenPrompt,
     EnterPositions, EnterDivisor, IgnoreKey, TakeKey, Run, NoMoreKeys,
     MotorNotDue, MotorDone, MotorFails, AwaitCapture, FinishCapture, React,
     FinishScan, Poll, PollDormant, PollUnhealthy, SequenceExhausted,
     WaitForBuffer, PrepareCapture, Trigger, TriggerFails, AcquirePoll,
     KeepWaiting, Move, MoveFails, MotorTimeout, Arrived
<1> QED
  BY <1>1, <1>2, <1>3

(* What stopping the outputs leaves of them, whatever it could confirm.    *)
LEMMA StopEffect ==
  ASSUME TypeOK, NEW ok \in BOOLEAN, StopOutputs(ok)
  PROVE  /\ stale' = test /\ armed' = FALSE /\ speaker' = FALSE
         /\ motor' \in {"IDLE", "FAULT"}
         /\ turning' = FALSE \/ turning' = turning
         /\ playing' = FALSE \/ (playing' = playing /\ tx' = IF tx = "prepared" THEN "idle" ELSE tx)
         /\ tx' \in {"idle", "running", "completed", "aborted"}
         /\ txFault' \in BOOLEAN
         /\ ok = TRUE => tx' = "aborted" /\ playing' = FALSE /\ turning' = FALSE
<1> USE DEF StopOutputs, Disarm
<1>1. stale' = test /\ armed' = FALSE /\ speaker' = FALSE
  OBVIOUS
<1>2. PICK stopped \in BOOLEAN, aborted \in BOOLEAN :
        StepperStop(stopped) /\ ChirpAbort(aborted) /\ ok = (stopped /\ aborted)
  BY Zenon
<1>3. motor' \in {"IDLE", "FAULT"} /\ (turning' = FALSE \/ turning' = turning)
      /\ (stopped => turning' = FALSE)
  BY <1>2 DEF StepperStop
<1>4. txFault' \in BOOLEAN
  BY <1>2, Zenon DEF ChirpAbort, TypeOK
<1>5. playing' = FALSE \/ (playing' = playing /\ tx' = IF tx = "prepared" THEN "idle" ELSE tx)
  <2>1. CASE aborted
    BY <1>2, <2>1, Zenon DEF ChirpAbort
  <2>2. CASE ~aborted
    BY <1>2, <2>2, SMT DEF ChirpAbort
  <2> QED
    BY <2>1, <2>2
<1>6. tx' \in {"idle", "running", "completed", "aborted"}
  <2>1. tx \in {"idle", "prepared", "running", "completed", "aborted"}
    BY DEF TypeOK
  <2> HIDE DEF TypeOK
  <2> QED
    BY <1>2, <2>1 DEF ChirpAbort
<1>7. aborted => tx' = "aborted" /\ playing' = FALSE
  BY <1>2, Zenon DEF ChirpAbort
<1> QED
  BY <1>1, <1>2, <1>3, <1>4, <1>5, <1>6, <1>7, Zenon

(* What stopping the outputs, and failing, leave of them.                  *)
Halted ==
  /\ armed' = FALSE /\ stale' = test /\ speaker' = FALSE
  /\ motor' \in {"IDLE", "FAULT"}

AsBefore == UNCHANGED <<armed, stale, speaker, motor, turning, playing, txFault>>

Fading ==
  /\ playing' = FALSE \/ playing' = playing
  /\ txFault' \in BOOLEAN
  /\ tx' \in {"idle", "running", "completed", "aborted"}
  /\ tx' = "running" => tx = "running"
  /\ playing' = FALSE \/ (tx = "running" => tx' = "running")

Silent == tx' = "aborted" /\ playing' = FALSE /\ turning' = FALSE

(* Every Stop and every failure leaves the outputs stopped as far as they  *)
(* answered; the two polls that need not fail may leave them alone.        *)
LEMMA Outputs ==
  ASSUME TypeOK, Stops \/ Fails
  PROVE  \/ /\ Halted /\ Fading /\ (turning' = FALSE \/ turning' = turning)
            /\ c'.state = "FAULT" \/ Silent
         \/ MoveFails /\ Halted /\ Fading /\ turning' \in BOOLEAN /\ c'.state = "FAULT"
         \/ AcquirePoll /\ AsBefore /\ tx' = tx /\ c'.state # "FAULT"
         \/ /\ PrepareCapture /\ AsBefore /\ c' = c /\ CanPrepare
            /\ tx' \in {"prepared", "aborted"} /\ c.state = "WAIT_BUFFER"
<1>1. ASSUME NEW ok \in BOOLEAN, StopOutputs(ok)
      PROVE  /\ Halted /\ Fading /\ (turning' = FALSE \/ turning' = turning)
             /\ ok = TRUE => Silent
  <2>1. /\ Halted /\ (turning' = FALSE \/ turning' = turning)
        /\ ok = TRUE => Silent
    BY <1>1, StopEffect, Zenon DEF Halted, Silent
  <2>2. /\ playing' = FALSE \/ playing' = playing
        /\ txFault' \in BOOLEAN
        /\ tx' \in {"idle", "running", "completed", "aborted"}
    BY <1>1, StopEffect, Zenon
  <2>3. /\ tx' = "running" => tx = "running"
        /\ playing' = FALSE \/ (tx = "running" => tx' = "running")
    <3>1. PICK stopped \in BOOLEAN, aborted \in BOOLEAN :
            StepperStop(stopped) /\ ChirpAbort(aborted)
      BY <1>1, Zenon DEF StopOutputs
    <3> QED
      BY <3>1, SMT DEF ChirpAbort
  <2> QED
    BY <2>1, <2>2, <2>3, Zenon DEF Fading
<1>2. c \in Cycle
  BY DEF TypeOK
<1>3. CycleFailed(c).state = "FAULT"
  BY <1>2 DEF CycleFailed, Cycle
<1>4. FailCycle => /\ Halted /\ Fading /\ (turning' = FALSE \/ turning' = turning)
                   /\ c'.state = "FAULT"
  BY <1>1, <1>3, Zenon DEF FailCycle
<1>5. CASE StopRun
  <2>1. PICK ok \in BOOLEAN : StopOutputs(ok) /\ c' = CycleStopped(c, ok)
    BY <1>5, Zenon DEF StopRun
  <2>2. ok = FALSE => c'.state = "FAULT"
    BY <2>1, <1>3, Zenon DEF CycleStopped
  <2> QED
    BY <2>1, <2>2, <1>1, Zenon
<1>6. CASE FinishScan
  <2>1. PICK ok \in BOOLEAN : StopOutputs(ok) /\ c' = CycleStopped(c, ok)
    BY <1>6, Zenon DEF FinishScan
  <2>2. ok = FALSE => c'.state = "FAULT"
    BY <2>1, <1>3, Zenon DEF CycleStopped
  <2> QED
    BY <2>1, <2>2, <1>1, Zenon
<1>7. CASE PollUnhealthy \/ SequenceExhausted \/ TriggerFails \/ MotorTimeout
  BY <1>7, <1>4, Zenon DEF PollUnhealthy, SequenceExhausted, TriggerFails,
     MotorTimeout
<1>8. CASE MoveFails
  <2>1. PICK ok \in BOOLEAN : ChirpAbort(ok)
    BY <1>8, Zenon DEF MoveFails
  <2>2. Halted /\ turning' \in BOOLEAN /\ c' = CycleFailed(c)
    BY <1>8, Zenon DEF MoveFails, Disarm, Halted
  <2>3. /\ playing' = FALSE \/ playing' = playing
        /\ txFault' \in BOOLEAN
    BY <2>1, Zenon DEF ChirpAbort, TypeOK
  <2>4. tx \in {"idle", "prepared", "running", "completed", "aborted"}
    BY DEF TypeOK
  <2>5. /\ tx' \in {"idle", "running", "completed", "aborted"}
        /\ tx' = "running" => tx = "running"
        /\ playing' = FALSE \/ (tx = "running" => tx' = "running")
    BY <2>1, <2>4, SMT DEF ChirpAbort
  <2> QED
    BY <1>8, <1>3, <2>2, <2>3, <2>5, Zenon DEF Fading
<1>9. CASE AcquirePoll
  <2>1. CASE c'.state = "FAULT"
    BY <2>1, <1>9, <1>1, Zenon DEF AcquirePoll
  <2>2. CASE c'.state # "FAULT"
    BY <2>2, <1>9, Zenon DEF AcquirePoll, AsBefore
  <2> QED
    BY <2>1, <2>2, Zenon
<1>10. CASE PrepareCapture
  <2>1. CASE CanPrepare
    BY <2>1, <1>10, Zenon DEF PrepareCapture, Poll, AsBefore
  <2>2. CASE ~CanPrepare
    BY <2>2, <1>10, <1>4, Zenon DEF PrepareCapture
  <2> QED
    BY <2>1, <2>2, Zenon
<1> QED
  BY <1>5, <1>6, <1>7, <1>8, <1>9, <1>10, Zenon DEF Stops, Fails

-----------------------------------------------------------------------------
(* Type correctness.                                                       *)

(* The poll of the transmitter, which only ever ends a transmission.       *)
LEMMA TxPolled ==
  ASSUME TypeOK, PollTx
  PROVE  /\ txFault' \in BOOLEAN
         /\ tx' \in {"idle", "prepared", "running", "completed", "aborted"}
         /\ tx' = "running" => tx = "running"
         /\ tx' = tx \/ playing = FALSE
<1>1. CASE tx = "running" /\ ~playing
  <2>1. txFault' = txFault /\ playing = FALSE
    BY <1>1, Zenon DEF PollTx, TypeOK
  <2>2. tx' \in {"idle", "completed"}
    BY <1>1, SMT DEF PollTx
  <2> QED
    BY <1>1, <2>1, <2>2, Zenon DEF TypeOK
<1>2. CASE ~(tx = "running" /\ ~playing)
  <2>1. tx' = tx /\ txFault' = (txFault \/ (tx = "running" /\ "tx" \in expired))
    BY <1>2, Zenon DEF PollTx
  <2> QED
    BY <2>1, Zenon DEF TypeOK
<1> QED
  BY <1>1, <1>2, Zenon

(* Flags stay flags.                                                       *)
LEMMA FlagsKept ==
  ASSUME TypeOK, [Next]_vars
  PROVE  /\ stop_requested' \in BOOLEAN /\ inhibited' \in BOOLEAN
         /\ txFault' \in BOOLEAN /\ playing' \in BOOLEAN /\ speaker' \in BOOLEAN
         /\ audio' \in BOOLEAN /\ running' \in BOOLEAN /\ armed' \in BOOLEAN
         /\ cause' \in BOOLEAN /\ turning' \in BOOLEAN
<1> USE DEF shared, cycleVars, captureVars, outputVars, moveVars, identityVars,
            history, pollUnchanged, vars, taskVars
<1>1. stop_requested' \in BOOLEAN
  BY Changes, Zenon DEF StopAsked, KeyArrives, StopKey, Inhibit, StopRequested,
     TakeFlags, TypeOK
<1>2. inhibited' \in BOOLEAN
  <2>1. UNCHANGED inhibited \/ Inhibit
    BY Zenon DEF Next, Task, HandleKey, CyclePoll, Environment, TakeFlags,
       StopRun, ControlIdle, PrepareTest, ApplyConfiguration, OpenPrompt,
       EnterPositions, EnterDivisor, IgnoreKey, TakeKey, Run, NoMoreKeys,
       MotorNotDue, MotorDone, MotorFails, AwaitCapture, FinishCapture,
       PollDormant, PollUnhealthy, SequenceExhausted, WaitForBuffer,
       PrepareCapture, Trigger, TriggerFails, AcquirePoll, KeepWaiting, Move,
       MoveFails, MotorTimeout, Arrived, React, FinishScan, KeyArrives, StopKey,
       TxFinishes, DmaFinishes, MotorArrives, Expire, FrameSent
  <2> QED
    BY <2>1, Zenon DEF Inhibit, TypeOK
<1>3. txFault' \in BOOLEAN /\ playing' \in BOOLEAN
  <2>1. CASE UNCHANGED <<tx, txFault, playing>>
    BY <2>1, Zenon DEF TypeOK
  <2>2. CASE Stops \/ Fails
    BY <2>2, Outputs, Zenon DEF TypeOK, Fading, AsBefore
  <2>3. CASE ApplyConfiguration \/ Trigger \/ TxFinishes
    BY <2>3, Zenon DEF ApplyConfiguration, Trigger, TxFinishes, TypeOK
  <2>4. CASE AwaitCapture \/ FinishCapture
    BY <2>4, TxPolled, Zenon DEF AwaitCapture, FinishCapture, TypeOK
  <2> QED
    BY Changes, <2>1, <2>2, <2>3, <2>4, Zenon
<1>4. speaker' \in BOOLEAN /\ armed' \in BOOLEAN
  <2>1. CASE Stops \/ Fails
    BY <2>1, Outputs, Zenon DEF TypeOK, Halted, AsBefore
  <2>2. speaker' \in BOOLEAN
    BY <2>1, Changes, Zenon DEF Trigger, React, TypeOK
  <2>3. armed' \in BOOLEAN
    BY <2>1, Changes, Zenon DEF Run, Disarm, PrepareTest, ApplyConfiguration,
       TypeOK
  <2> QED
    BY <2>2, <2>3
<1>5. audio' \in BOOLEAN
  <2>1. UNCHANGED audio \/ ApplyConfiguration
    BY Zenon DEF Next, Task, HandleKey, CyclePoll, Environment, TakeFlags,
       StopRun, ControlIdle, PrepareTest, OpenPrompt, EnterPositions,
       EnterDivisor, IgnoreKey, TakeKey, Run, NoMoreKeys, MotorNotDue,
       MotorDone, MotorFails, AwaitCapture, FinishCapture, PollDormant,
       PollUnhealthy, SequenceExhausted, WaitForBuffer, PrepareCapture, Trigger,
       TriggerFails, AcquirePoll, KeepWaiting, Move, MoveFails, MotorTimeout,
       Arrived, React, FinishScan, KeyArrives, StopKey, Inhibit, TxFinishes,
       DmaFinishes, MotorArrives, Expire, FrameSent
  <2> QED
    BY <2>1, Zenon DEF ApplyConfiguration, TypeOK
<1>6. running' \in BOOLEAN
  <2>1. ReleaseRun => running' = FALSE \/ running' = running
    BY Zenon DEF ReleaseRun
  <2>2. Run => running' = TRUE \/ running' = running
    BY Zenon DEF Run
  <2> QED
    BY <2>1, <2>2, Changes, Zenon DEF TypeOK
<1>7. cause' \in BOOLEAN /\ turning' \in BOOLEAN
  <2>1. CASE Stops \/ Fails
    <3>1. cause' = cause \/ cause' = TRUE
      BY <2>1, Zenon DEF Stops, Fails, StopRun, FinishScan, PollUnhealthy,
         SequenceExhausted, PrepareCapture, TriggerFails, AcquirePoll,
         MoveFails, MotorTimeout
    <3>2. turning' \in BOOLEAN
      BY <2>1, Outputs, Zenon DEF AsBefore, TypeOK
    <3> QED
      BY <3>1, <3>2, Zenon DEF TypeOK
  <2>2. CASE EnterDivisor
    BY <2>2, Zenon DEF EnterDivisor, TypeOK
  <2>3. CASE MotorDone \/ MotorFails \/ Move \/ MotorArrives
    BY <2>3, Zenon DEF MotorDone, MotorFails, Move, MotorArrives, TypeOK
  <2> QED
    BY <2>1, <2>2, <2>3, Changes, Zenon DEF TypeOK
<1> QED
  BY <1>1, <1>2, <1>3, <1>4, <1>5, <1>6, <1>7

(* So do the values of everything else.                                    *)
LEMMA QueueKept ==
  ASSUME TypeOK, [Next]_vars
  PROVE  keys' \in Seq(Key) /\ Len(keys') <= KeyQueue
<1>1. keys \in Seq(Key) /\ Len(keys) <= KeyQueue /\ KeyQueue \in Nat
  BY ExperimentAssumption DEF ExperimentAssumption, TypeOK
<1>2. KeyTaken \/ Run => keys # <<>> /\ keys' = Tail(keys)
  BY Zenon DEF KeyTaken, OpenPrompt, EnterPositions, EnterDivisor, IgnoreKey,
     Run, TakeKey
<1>3. StopAsked => \/ keys' = keys
                   \/ Len(keys) < KeyQueue /\ \E k \in Key : keys' = Append(keys, k)
  BY Zenon DEF StopAsked, KeyArrives, StopKey, Inhibit
<1>4. StopRun => keys' = <<>>
  BY Zenon DEF StopRun
<1>5. \/ keys' = keys \/ keys' = <<>>
      \/ keys # <<>> /\ keys' = Tail(keys)
      \/ Len(keys) < KeyQueue /\ \E k \in Key : keys' = Append(keys, k)
  BY <1>2, <1>3, <1>4, Changes, Zenon
<1>6. keys # <<>> => Tail(keys) \in Seq(Key) /\ Len(Tail(keys)) = Len(keys) - 1
  BY <1>1
<1>7. \A k \in Key : Append(keys, k) \in Seq(Key) /\ Len(Append(keys, k)) = Len(keys) + 1
  BY <1>1
<1>8. <<>> \in Seq(Key) /\ Len(<<>>) <= KeyQueue /\ Len(keys) \in Nat
  BY <1>1
<1>9. CASE keys' = keys \/ keys' = <<>>
  BY <1>1, <1>8, <1>9, Zenon
<1>10. CASE keys # <<>> /\ keys' = Tail(keys)
  BY <1>1, <1>6, <1>8, <1>10
<1>11. CASE Len(keys) < KeyQueue /\ \E k \in Key : keys' = Append(keys, k)
  BY <1>1, <1>7, <1>8, <1>11
<1> QED
  BY <1>5, <1>9, <1>10, <1>11, Zenon

LEMMA SlotsKept ==
  ASSUME TypeOK, [Next]_vars
  PROVE  slots' \in [Slot -> FrameState] /\ filling' \in Slot \cup {NoSlot}
<1>1. slots \in [Slot -> FrameState] /\ filling \in Slot \cup {NoSlot}
  BY DEF TypeOK
<1>2. PrepareCapture =>
        \/ UNCHANGED <<slots, filling>>
        \/ \E i \in Slot : slots' = Acquired(slots, i) /\ filling' = i
  BY Zenon DEF PrepareCapture
<1>3. FinishCapture => filling \in Slot /\ filling' = NoSlot /\ slots' = Disposed
  BY <1>1, Zenon DEF FinishCapture
<1>4. (\E i \in Slot : FrameSent(i)) =>
         \E i \in Slot : slots' = [slots EXCEPT ![i] = "FREE"]
  BY Zenon DEF FrameSent
<1>5. filling' \in Slot \cup {NoSlot}
  BY <1>1, <1>2, <1>3, Changes, Zenon
<1>6. CASE FinishCapture
  BY <1>1, <1>3, <1>5, <1>6 DEF Disposed, Published, FrameState
<1>7. CASE PrepareCapture
  BY <1>1, <1>2, <1>5, <1>7 DEF Acquired, FrameState
<1>8. CASE \E i \in Slot : FrameSent(i)
  BY <1>1, <1>4, <1>5, <1>8 DEF FrameState
<1> QED
  BY <1>1, <1>5, <1>6, <1>7, <1>8, Changes, Zenon

LEMMA CycleKept ==
  ASSUME TypeOK, Position, [Next]_vars
  PROVE  c' \in Cycle
<1>1. c \in Cycle
  BY DEF TypeOK
<1>2. FailCycle => c' \in Cycle
  BY <1>1, CycleTypes DEF FailCycle
<1>3. CASE Stops
  <2>1. \E ok \in BOOLEAN : c' = CycleStopped(c, ok)
    BY <1>3, Zenon DEF Stops, StopRun, FinishScan
  <2> QED
    BY <2>1, <1>1, CycleTypes
<1>4. CASE Fails
  <2>1. CASE AcquirePoll
    <3>1. loc.captured \in BOOLEAN /\ TxDone \in BOOLEAN
      BY DEF TypeOK, Locals, TxDone
    <3>2. CycleNoted(c, loc.captured, TxDone) \in Cycle
      BY <1>1, <3>1, CycleTypes, Zenon
    <3>3. c' = CycleAdvanced(CycleNoted(c, loc.captured, TxDone), "rx" \in expired, "tx" \in expired)
      BY <2>1 DEF AcquirePoll
    <3>4. ("rx" \in expired) \in BOOLEAN /\ ("tx" \in expired) \in BOOLEAN
      OBVIOUS
    <3> QED
      BY <3>2, <3>3, <3>4, CycleTypes, Zenon
  <2>2. CASE ~AcquirePoll
    <3>1. FailCycle \/ c' = c \/ c' = CycleFailed(c)
      BY <1>4, <2>2, Zenon DEF Fails, PollUnhealthy, SequenceExhausted,
         PrepareCapture, TriggerFails, MoveFails, MotorTimeout
    <3> QED
      BY <3>1, <1>1, <1>2, CycleTypes
  <2> QED
    BY <2>1, <2>2
<1>5. CASE Run
  BY <1>5, <1>1, CycleTypes DEF Run
<1>6. CASE Trigger
  BY <1>6, <1>1, CycleTypes DEF Trigger, Position
<1>7. CASE Move \/ Arrived
  <2>1. \E s \in CycleState : c' = [c EXCEPT !.state = s]
    BY <1>7 DEF Move, Arrived, CycleState
  <2> QED
    BY <2>1, <1>1 DEF Cycle
<1> QED
  BY <1>1, <1>3, <1>4, <1>5, <1>6, <1>7, Changes, Zenon

LEMMA PlanKept ==
  ASSUME TypeOK, [Next]_vars
  PROVE  /\ plan' \in Plan
         /\ target' \in Int /\ travel' \in Int
         /\ metadata' \in Metadata
<1>1. plan \in Plan /\ target \in Int /\ travel \in Int /\ metadata \in Metadata
      /\ test \in 0 .. MaxTests
  BY DEF TypeOK
<1>2. plan' \in Plan
  <2>1. ASSUME NEW request \in Requests, EnterPositions(request)
        PROVE  plan' \in Plan
    BY <2>1, <1>1, PlanTypes, ExperimentAssumption
       DEF EnterPositions, ExperimentAssumption
  <2>2. Run \/ Move => plan' \in Plan
    BY <1>1, PlanTypes DEF Run, Move
  <2> QED
    BY <1>1, <2>1, <2>2, Changes, Zenon
<1>3. target' \in Int /\ travel' \in Int
  <2>1. Run => (target' = 0 /\ travel' = 0) \/ UNCHANGED <<target, travel>>
    BY Zenon DEF Run, moveVars
  <2>2. Move => target' = travel + NextDelta(plan) /\ travel' = travel
    BY Zenon DEF Move
  <2>3. MotorArrives => travel' = target /\ target' = target
    BY Zenon DEF MotorArrives, taskVars
  <2>4. \/ target' = 0 /\ travel' = 0
        \/ target' = target /\ travel' = travel
        \/ target' = travel + NextDelta(plan) /\ travel' = travel
        \/ travel' = target /\ target' = target
    BY <2>1, <2>2, <2>3, Changes, Zenon
  <2> QED
    BY <1>1, <2>4, DeltaType
<1>4. metadata' \in Metadata
  <2>1. \/ metadata' = metadata
        \/ metadata' = [index |-> CaptureIndex(plan), test |-> test]
    BY Changes, Zenon DEF Trigger, TriggerFails
  <2>2. CaptureIndex(plan) \in 0 .. MaxPositions
    BY <1>1, PlanTypes, Zenon
  <2> QED
    BY <1>1, <2>1, <2>2 DEF Metadata
<1> QED
  BY <1>2, <1>3, <1>4

LEMMA HistoryKept ==
  ASSUME TypeOK, [Next]_vars
  PROVE  /\ test' \in 0 .. MaxTests /\ stale' \in 0 .. test'
         /\ frames' \in Seq([about : Metadata, stopped : {"none", "stopped", "failed"}])
         /\ cut' \in {"none", "stopped", "failed"}
         /\ since' \in Nat \cup {NoStop}
         /\ expired' \subseteq Deadline
<1>1. /\ test \in 0 .. MaxTests /\ stale \in 0 .. test
      /\ metadata \in Metadata /\ cut \in {"none", "stopped", "failed"}
      /\ frames \in Seq([about : Metadata, stopped : {"none", "stopped", "failed"}])
      /\ since \in Nat \cup {NoStop}
      /\ expired \subseteq Deadline
      /\ MaxTests \in Nat
  BY ExperimentAssumption DEF ExperimentAssumption, TypeOK
<1>2. test' \in 0 .. MaxTests /\ stale' \in 0 .. test'
  <2>1. Stops \/ Fails => stale' = stale \/ stale' = test
    BY Outputs, Zenon DEF Halted, AsBefore
  <2>2. Run => stale' = stale \/ stale' = test
    BY Zenon DEF Run, Disarm
  <2>3. PrepareTest => test' = test + 1 /\ test < MaxTests /\ stale' = stale
    BY Zenon DEF PrepareTest, history
  <2>4. ApplyConfiguration => stale' = stale
    BY Zenon DEF ApplyConfiguration, history
  <2>5. \/ test' = test /\ (stale' = stale \/ stale' = test)
        \/ test' = test + 1 /\ test < MaxTests /\ stale' = stale
    BY <2>1, <2>2, <2>3, <2>4, Changes, Zenon
  <2> QED
    BY <1>1, <2>5
<1>3. frames' \in Seq([about : Metadata, stopped : {"none", "stopped", "failed"}])
  <2>1. \/ frames' = frames \/ frames' = <<>>
        \/ frames' = Append(frames, [about |-> metadata, stopped |-> cut])
    BY Changes, Zenon DEF Run, FinishCapture
  <2>2. [about |-> metadata, stopped |-> cut]
          \in [about : Metadata, stopped : {"none", "stopped", "failed"}]
    BY <1>1
  <2> DEFINE Kind == [about : Metadata, stopped : {"none", "stopped", "failed"}]
  <2>3. frames \in Seq(Kind) /\ [about |-> metadata, stopped |-> cut] \in Kind
    BY <1>1, <2>2
  <2> HIDE DEF Kind
  <2>4. <<>> \in Seq(Kind)
    OBVIOUS
  <2>5. \A f \in Kind : Append(frames, f) \in Seq(Kind)
    BY <2>3
  <2>6. frames' \in Seq(Kind)
    BY <2>1, <2>3, <2>4, <2>5, Zenon
  <2> QED
    BY <2>6 DEF Kind
<1>4. cut' \in {"none", "stopped", "failed"}
  BY <1>1, Changes DEF StopRun, Trigger
<1>5. since' \in Nat \cup {NoStop}
  <2>1. since' = since \/ since' = 0 \/ since' = NoStop \/ (since # NoStop /\ since' = since + 1)
    BY Changes, Zenon DEF StopAsked, KeyArrives, StopKey, Inhibit,
       StopRequested, Run, Trigger, Move, Counted
  <2> QED
    BY <1>1, <2>1
<1>6. expired' \subseteq Deadline
  <2>1. \/ expired' = expired \/ expired' = {}
        \/ expired' = {d \in expired : Runs(d)}
        \/ \E d \in Deadline : expired' = expired \cup {d}
    BY Changes, Zenon DEF Trigger, Move, Arrived, React, FinishScan,
       EndIteration, Expire
  <2> QED
    BY <1>1, <2>1, Zenon
<1> QED
  BY <1>2, <1>3, <1>4, <1>5, <1>6

LEMMA DevicesKept ==
  ASSUME TypeOK, [Next]_vars
  PROVE  /\ prompt' \in {"none", "n", "v"}
         /\ mic' \in {"IDLE", "CAPTURING", "READY", "FAULT"}
         /\ dma' \in {"off", "running", "done", "error"}
         /\ tx' \in {"idle", "prepared", "running", "completed", "aborted"}
         /\ motor' \in {"IDLE", "MOVING", "DONE", "FAULT"}
<1>1. /\ prompt \in {"none", "n", "v"}
      /\ mic \in {"IDLE", "CAPTURING", "READY", "FAULT"}
      /\ dma \in {"off", "running", "done", "error"}
      /\ tx \in {"idle", "prepared", "running", "completed", "aborted"}
      /\ motor \in {"IDLE", "MOVING", "DONE", "FAULT"}
  BY DEF TypeOK
<1>2. prompt' \in {"none", "n", "v"}
  <2>1. KeyTaken \/ StopRun => prompt' \in {prompt, "none", "n", "v"}
    BY Zenon DEF KeyTaken, OpenPrompt, EnterPositions, EnterDivisor, IgnoreKey,
       StopRun
  <2> QED
    BY <1>1, <2>1, Changes
<1>3. mic' \in {"IDLE", "CAPTURING", "READY", "FAULT"} /\ dma' \in {"off", "running", "done", "error"}
  <2>1. AwaitCapture \/ React =>
          \/ UNCHANGED <<mic, dma>>
          \/ mic' = "FAULT" /\ dma' \in {"off", dma}
          \/ mic' = "READY" /\ dma' = "off"
    BY Zenon DEF AwaitCapture, React, MicFails
  <2>2. FinishCapture => mic' = "IDLE" /\ dma' = "off"
    BY Zenon DEF FinishCapture
  <2>3. Trigger => mic' = "CAPTURING" /\ dma' = "running"
    BY Zenon DEF Trigger
  <2>4. TriggerFails => mic' = "FAULT" /\ dma' \in {"off", "running"}
    BY Zenon DEF TriggerFails
  <2>5. DmaFinishes => mic' = mic /\ dma' \in {"done", "error"}
    BY Zenon DEF DmaFinishes, taskVars
  <2> QED
    BY <1>1, <2>1, <2>2, <2>3, <2>4, <2>5, Changes
<1>4. tx' \in {"idle", "prepared", "running", "completed", "aborted"}
  <2>1. CASE Stops \/ Fails
    BY <2>1, <1>1, Outputs DEF Fading
  <2>2. ApplyConfiguration => tx' \in {tx, "idle"}
    BY Zenon DEF ApplyConfiguration
  <2>3. AwaitCapture \/ FinishCapture => tx' \in {"idle", "prepared", "running", "completed", "aborted"}
    BY TxPolled, Zenon DEF AwaitCapture, FinishCapture
  <2>4. Trigger => tx' = "running"
    BY Zenon DEF Trigger
  <2>5. TxFinishes => tx' = tx
    BY Zenon DEF TxFinishes, taskVars
  <2> QED
    BY <1>1, <2>1, <2>2, <2>3, <2>4, <2>5, Changes
<1>5. motor' \in {"IDLE", "MOVING", "DONE", "FAULT"}
  <2>1. CASE Stops \/ Fails
    BY <2>1, <1>1, Outputs DEF Halted, AsBefore
  <2>2. EnterDivisor \/ MotorDone \/ MotorFails \/ Move \/ MotorArrives
          => motor' \in {motor, "FAULT", "DONE", "MOVING"}
    BY Zenon DEF EnterDivisor, MotorDone, MotorFails, Move, MotorArrives,
       taskVars
  <2> QED
    BY <1>1, <2>1, <2>2, Changes
<1> QED
  BY <1>2, <1>3, <1>4, <1>5

(* What the locals of the loop are set to.                                 *)
LEMMA LocalsKept ==
  ASSUME TypeOK, [Next]_vars
  PROVE  pc' \in Phase /\ loc' \in Locals
<1> USE DEF shared, cycleVars, captureVars, outputVars, moveVars, identityVars,
            history, pollUnchanged, vars, taskVars
<1>1. pc \in Phase /\ loc \in Locals /\ c.state \in CycleState
      /\ stop_requested \in BOOLEAN /\ inhibited \in BOOLEAN
  BY DEF TypeOK, Cycle
<1>2. pc' \in Phase
  <2>1. CASE Task
    <3> USE DEF Phase
    <3>1. CASE \/ TakeFlags \/ StopRun \/ ControlIdle \/ PrepareTest
               \/ ApplyConfiguration \/ NoMoreKeys
      BY <3>1, Zenon DEF TakeFlags, StopRun, ControlIdle, PrepareTest,
         ApplyConfiguration, NoMoreKeys, Goto
    <3>2. CASE HandleKey
      BY <1>1, <3>2, Zenon DEF HandleKey, OpenPrompt, EnterPositions,
         EnterDivisor, IgnoreKey, Run, TakeKey
    <3>3. CASE MotorNotDue \/ MotorDone \/ MotorFails \/ AwaitCapture \/ FinishCapture
      BY <3>3, Zenon DEF MotorNotDue, MotorDone, MotorFails, AwaitCapture,
         FinishCapture, Goto
    <3>4. CASE CyclePoll
      BY <3>4, Zenon DEF CyclePoll, PollDormant, PollUnhealthy,
         SequenceExhausted, WaitForBuffer, PrepareCapture, Trigger,
         TriggerFails, AcquirePoll, KeepWaiting, Move, MoveFails, MotorTimeout,
         Arrived, Goto
    <3>5. CASE React \/ FinishScan
      BY <3>5, Zenon DEF React, FinishScan, EndIteration, Goto
    <3> QED
      BY <2>1, <3>1, <3>2, <3>3, <3>4, <3>5, Zenon DEF Task
  <2> QED
    BY <1>1, <2>1, Phases, Zenon
<1>3. loc' \in Locals
  <2>0. KeyBudget \in Nat \ {0}
    BY ExperimentAssumption DEF ExperimentAssumption
  <2>1. CASE TakeFlags
    BY <2>1, <2>0, <1>1 DEF TakeFlags, Locals
  <2>2. CASE HandleKey
    <3>1. loc.budget > 0 /\ loc' = [loc EXCEPT !.budget = @ - 1]
      BY <2>2, Zenon DEF HandleKey, OpenPrompt, EnterPositions, EnterDivisor,
         IgnoreKey, Run, TakeKey
    <3> QED
      BY <1>1, <2>0, <3>1 DEF Locals
  <2>3. CASE NoMoreKeys
    <3>1. loc' = [loc EXCEPT !.stop = FALSE, !.budget = 0]
      BY <2>3, Zenon DEF NoMoreKeys
    <3>2. 0 \in 0 .. KeyBudget
      BY <2>0
    <3>3. \A p \in BOOLEAN, b \in 0 .. KeyBudget :
            [loc EXCEPT !.stop = p, !.budget = b] \in Locals
      BY <1>1 DEF Locals
    <3> QED
      BY <3>1, <3>2, <3>3, Zenon
  <2>4. CASE FinishCapture
    <3>1. \E p \in BOOLEAN : loc' = [loc EXCEPT !.captured = TRUE, !.fatal = p]
      <4>1. loc' = [loc EXCEPT !.captured = TRUE,
                        !.fatal = loc.fatal \/ (~c.stopping /\ ~Publishable(slots, filling))]
        BY <2>4 DEF FinishCapture
      <4> QED
        BY <4>1
    <3> QED
      BY <1>1, <3>1 DEF Locals
  <2>5. CASE CyclePoll
    <3>1. loc' = loc \/ \E s \in CycleState : loc' = [loc EXCEPT !.before = s]
      <4>1. \/ loc' = loc
            \/ loc' = [loc EXCEPT !.before = c.state]
            \/ \E s \in {"WAIT_BUFFER", "ACQUIRE", "PRE_MOVE", "MOVING", "SETTLING"} :
                  loc' = [loc EXCEPT !.before = s]
        BY <2>5, Zenon DEF CyclePoll, PollDormant, PollUnhealthy,
           SequenceExhausted, WaitForBuffer, PrepareCapture, Trigger,
           TriggerFails, AcquirePoll, KeepWaiting, Move, MoveFails,
           MotorTimeout, Arrived, Poll
      <4> QED
        BY <1>1, <4>1 DEF CycleState
    <3> QED
      BY <1>1, <3>1 DEF Locals
  <2>6. CASE React \/ FinishScan
    <3>1. loc' = NewIteration
      BY <2>6, Zenon DEF React, FinishScan, EndIteration
    <3> QED
      BY <3>1, <2>0 DEF NewIteration, Locals, CycleState
  <2>7. CASE UNCHANGED loc
    BY <2>7, <1>1
  <2>8. StopRun \/ ControlIdle \/ PrepareTest \/ ApplyConfiguration \/
        MotorNotDue \/ MotorDone \/ MotorFails \/ AwaitCapture \/ UNCHANGED taskVars
        => UNCHANGED loc
    BY Zenon DEF StopRun, ControlIdle, PrepareTest, ApplyConfiguration,
       MotorNotDue, MotorDone, MotorFails, AwaitCapture
  <2> QED
    BY <2>1, <2>2, <2>3, <2>4, <2>5, <2>6, <2>7, <2>8, Phases, Zenon DEF Task
<1> QED
  BY <1>2, <1>3

LEMMA TypesKept ==
  ASSUME TypeOK, Position, [Next]_vars
  PROVE  TypeOK'
  BY FlagsKept, QueueKept, SlotsKept, CycleKept, PlanKept, HistoryKept,
     DevicesKept, LocalsKept, Zenon
     DEF TypeOK

-----------------------------------------------------------------------------
(* The parts of the invariant, one by one.                                 *)

(* How a step takes the measurement cycle on.                              *)
ToFault ==
  /\ Stops \/ Fails
  /\ c'.state = "FAULT" /\ (c'.stopping <=> c.stopping)
  /\ Halted /\ Fading

ToStop ==
  /\ Stops /\ Silent /\ Halted
  /\ c'.stopping = TRUE
  /\ (c'.received <=> c.received) /\ (c'.transmitted <=> c.transmitted)
  /\ c'.state = IF c.state \in {"ACQUIRE", "FAULT"} THEN c.state ELSE "STOPPED"

ToNext ==
  /\ AcquirePoll /\ c.state = "ACQUIRE"
  /\ (c'.stopping <=> c.stopping)
  /\ c'.received <=> (c.received \/ loc.captured)
  /\ c'.transmitted <=> (c.transmitted \/ TxDone)
  /\ c'.state = IF c'.received /\ c'.transmitted
                THEN IF c.stopping THEN "STOPPED" ELSE "PRE_MOVE"
                ELSE "ACQUIRE"

ToRun ==
  /\ Run /\ CanStart /\ c'.state = "WAIT_BUFFER"
  /\ ~c'.stopping /\ ~c'.received /\ ~c'.transmitted

ToCapture ==
  /\ Trigger /\ c'.state = "ACQUIRE"
  /\ (c'.stopping <=> c.stopping) /\ ~c'.received /\ ~c'.transmitted

ToMove ==
  /\ \/ Move /\ c.state = "PRE_MOVE" /\ c'.state = "MOVING"
     \/ Arrived /\ c.state = "MOVING" /\ c'.state = "SETTLING"
     \/ Arrived /\ c.state = "SETTLING" /\ c'.state = "WAIT_BUFFER"
  /\ (c'.stopping <=> c.stopping)

(* There is no other way.                                                  *)
LEMMA CycleSteps ==
  ASSUME TypeOK, [Next]_vars
  PROVE  /\ c' = c \/ ToFault \/ ToStop \/ ToNext \/ ToRun \/ ToCapture \/ ToMove
         /\ Stops => ToFault \/ ToStop
         /\ AcquirePoll => ToFault \/ ToNext
         /\ PollUnhealthy \/ SequenceExhausted \/ TriggerFails \/ MoveFails \/ MotorTimeout
              => ToFault
         /\ PrepareCapture => ToFault \/ c' = c
         /\ Run => ToRun \/ (~CanStart /\ c' = c)
         /\ Trigger => ToCapture
         /\ Move \/ Arrived => ToMove
<1>1. c \in Cycle
  BY DEF TypeOK
<1>2. Stops => ToFault \/ ToStop
  <2> SUFFICES ASSUME Stops PROVE ToFault \/ ToStop
    OBVIOUS
  <2>1. PICK ok \in BOOLEAN : c' = CycleStopped(c, ok) /\ StopOutputs(ok)
    BY Zenon DEF Stops, StopRun, FinishScan
  <2>2. Halted /\ Fading
    BY Outputs, Zenon DEF Stops, StopRun, FinishScan, AcquirePoll,
       PrepareCapture, MoveFails, Poll
  <2>3. CASE ok = FALSE
    <3>1. c' = [c EXCEPT !.state = "FAULT"]
      BY <2>1, <2>3 DEF CycleStopped, CycleFailed
    <3>2. c'.state = "FAULT" /\ c'.stopping = c.stopping
      BY <3>1, <1>1 DEF Cycle
    <3> QED
      BY <2>2, <3>2, Zenon DEF ToFault
  <2>4. CASE ok = TRUE
    <3>1. c' = [c EXCEPT !.stopping = TRUE,
                 !.state = IF @ \in {"ACQUIRE", "FAULT"} THEN @ ELSE "STOPPED"]
      BY <2>1, <2>4 DEF CycleStopped
    <3>2. /\ c'.stopping = TRUE /\ c'.received = c.received /\ c'.transmitted = c.transmitted
          /\ c'.state = IF c.state \in {"ACQUIRE", "FAULT"} THEN c.state ELSE "STOPPED"
      BY <3>1, <1>1 DEF Cycle
    <3>3. Silent
      BY <2>1, <2>4, StopEffect, Zenon DEF Silent
    <3> QED
      BY <2>2, <3>2, <3>3, Zenon DEF ToStop
  <2> QED
    BY <2>3, <2>4, Zenon
<1>3. AcquirePoll => ToFault \/ ToNext
  <2> SUFFICES ASSUME AcquirePoll PROVE ToFault \/ ToNext
    OBVIOUS
  <2> DEFINE d == CycleNoted(c, loc.captured, TxDone)
  <2>1. c' = CycleAdvanced(d, "rx" \in expired, "tx" \in expired) /\ c.state = "ACQUIRE"
    BY DEF AcquirePoll, Poll
  <2>2. /\ d \in Cycle /\ d.state = c.state /\ d.stopping = c.stopping
        /\ d.received <=> (c.received \/ loc.captured)
        /\ d.transmitted <=> (c.transmitted \/ TxDone)
    BY <1>1 DEF CycleNoted, Cycle
  <2> HIDE DEF d
  <2>3. CASE c'.state = "FAULT"
    <3>1. c' = [d EXCEPT !.state = "FAULT"]
      BY <2>1, <2>2, <2>3 DEF CycleAdvanced, CycleFailed, Cycle
    <3>2. c'.stopping = c.stopping
      BY <2>2, <3>1 DEF Cycle
    <3>3. Halted /\ Fading
      BY <2>1, <2>3, Outputs DEF Fails, MoveFails, AcquirePoll, Poll
    <3> QED
      BY <2>3, <3>2, <3>3, Zenon DEF ToFault, Fails
  <2>4. CASE c'.state # "FAULT"
    <3>1. c' = IF d.received /\ d.transmitted
               THEN [d EXCEPT !.state = IF d.stopping THEN "STOPPED" ELSE "PRE_MOVE"]
               ELSE d
      BY <2>1, <2>2, <2>4 DEF CycleAdvanced, CycleFailed, Cycle
    <3>2. /\ c'.stopping = d.stopping
          /\ c'.received = d.received /\ c'.transmitted = d.transmitted
          /\ c'.state = IF d.received /\ d.transmitted
                        THEN IF d.stopping THEN "STOPPED" ELSE "PRE_MOVE"
                        ELSE d.state
      BY <2>2, <3>1 DEF Cycle
    <3> QED
      BY <2>1, <2>2, <3>2, SMT DEF ToNext
  <2> QED
    BY <2>3, <2>4
<1>4. /\ PollUnhealthy \/ SequenceExhausted \/ TriggerFails \/ MoveFails \/ MotorTimeout
         => ToFault
      /\ PrepareCapture => ToFault \/ c' = c
  <2>1. CycleFailed(c).state = "FAULT" /\ CycleFailed(c).stopping = c.stopping
    BY <1>1 DEF CycleFailed, Cycle
  <2>2. ASSUME \/ PollUnhealthy \/ SequenceExhausted \/ TriggerFails \/ MoveFails
               \/ MotorTimeout \/ (PrepareCapture /\ c' # c)
        PROVE  Halted /\ Fading
    BY <2>1, <2>2, Outputs, Zenon DEF Fails, FailCycle, AcquirePoll,
       PollUnhealthy, SequenceExhausted, PrepareCapture, TriggerFails,
       MoveFails, MotorTimeout, Poll
  <2> QED
    BY <2>1, <2>2, Zenon DEF ToFault, Fails, FailCycle, PollUnhealthy,
       SequenceExhausted, PrepareCapture, TriggerFails, MoveFails, MotorTimeout
<1>5. Run => ToRun \/ (~CanStart /\ c' = c)
  <2> SUFFICES ASSUME Run PROVE ToRun \/ (~CanStart /\ c' = c)
    OBVIOUS
  <2>1. (~CanStart /\ c' = c) \/ (c' = CycleStarted(c) /\ CanStart)
    BY Zenon DEF Run
  <2>2. CycleStarted(c).state = "WAIT_BUFFER" /\ ~CycleStarted(c).stopping
        /\ ~CycleStarted(c).received /\ ~CycleStarted(c).transmitted
    BY <1>1 DEF CycleStarted, Cycle
  <2> QED
    BY <2>1, <2>2, Zenon DEF ToRun, CanStart
<1>6. Trigger => ToCapture
  <2> SUFFICES ASSUME Trigger PROVE ToCapture
    OBVIOUS
  <2>1. c' = CycleTriggered(c)
    BY Zenon DEF Trigger
  <2>2. c'.state = "ACQUIRE" /\ c'.stopping = c.stopping /\ ~c'.received /\ ~c'.transmitted
    BY <2>1, <1>1 DEF CycleTriggered, Cycle
  <2> QED
    BY <2>2, Zenon DEF ToCapture
<1>7. Move \/ Arrived => ToMove
  <2> SUFFICES ASSUME Move \/ Arrived PROVE ToMove
    OBVIOUS
  <2>1. \/ Move /\ c.state = "PRE_MOVE" /\ c' = [c EXCEPT !.state = "MOVING"]
        \/ Arrived /\ c.state = "MOVING" /\ c' = [c EXCEPT !.state = "SETTLING"]
        \/ Arrived /\ c.state = "SETTLING" /\ c' = [c EXCEPT !.state = "WAIT_BUFFER"]
    BY Zenon DEF Move, Arrived, Poll
  <2> QED
    BY <2>1, <1>1 DEF ToMove, Cycle
<1> QED
  BY <1>2, <1>3, <1>4, <1>5, <1>6, <1>7, Changes, Zenon DEF Fails

(* How the locals of the loop change: each is set where the code sets it   *)
(* and is gone at the end of the iteration.                                *)
LEMMA LocalSteps ==
  ASSUME TypeOK, [Next]_vars
  PROVE  /\ \/ UNCHANGED loc
            \/ TakeFlags /\ loc'.captured = FALSE
            \/ (HandleKey \/ NoMoreKeys) /\ loc'.captured = loc.captured
            \/ FinishCapture
            \/ CyclePoll /\ loc'.captured = loc.captured /\ loc'.before = c.state
            \/ (React \/ FinishScan) /\ loc'.captured = FALSE
         /\ CyclePoll => loc'.captured = loc.captured
         /\ CyclePoll => Trigger \/ TriggerFails \/ loc'.before = c.state
         /\ React \/ FinishScan => loc'.captured = FALSE
<1> USE DEF shared, cycleVars, captureVars, outputVars, moveVars, identityVars,
            history, pollUnchanged, vars, taskVars
<1>1. loc \in Locals
  BY DEF TypeOK
<1>2. TakeFlags => loc'.captured = FALSE
  BY DEF TakeFlags
<1>3. HandleKey \/ NoMoreKeys => loc'.captured = loc.captured
  <2>1. HandleKey \/ NoMoreKeys =>
          \/ loc' = [loc EXCEPT !.budget = @ - 1]
          \/ loc' = [loc EXCEPT !.stop = FALSE, !.budget = 0]
    BY Zenon DEF HandleKey, OpenPrompt, EnterPositions, EnterDivisor, IgnoreKey,
       Run, TakeKey, NoMoreKeys
  <2> QED
    BY <2>1, <1>1 DEF Locals
<1>4. CyclePoll => /\ loc'.captured = loc.captured
                   /\ Trigger \/ TriggerFails \/ loc'.before = c.state
                   /\ UNCHANGED loc \/ loc'.before = c.state
  <2>1. CyclePoll => \/ Trigger /\ loc' = loc
                     \/ TriggerFails /\ loc' = loc
                     \/ loc' = [loc EXCEPT !.before = c.state]
    <3>1. CyclePoll => \/ Trigger /\ loc' = loc
                       \/ TriggerFails /\ loc' = loc
                       \/ \E s \in {"WAIT_BUFFER", "ACQUIRE", "PRE_MOVE", "MOVING",
                                    "SETTLING", c.state} :
                             c.state = s /\ loc' = [loc EXCEPT !.before = s]
      BY Zenon DEF CyclePoll, PollDormant, PollUnhealthy, SequenceExhausted,
         WaitForBuffer, PrepareCapture, Trigger, TriggerFails, AcquirePoll,
         KeepWaiting, Move, MoveFails, MotorTimeout, Arrived, Poll
    <3> QED
      BY <3>1, Zenon
  <2>2. loc' = [loc EXCEPT !.before = c.state] => loc'.captured = loc.captured /\ loc'.before = c.state
    BY <1>1 DEF Locals
  <2> QED
    BY <2>1, <2>2, Zenon
<1>5. React \/ FinishScan => loc'.captured = FALSE
  <2>1. React \/ FinishScan => loc' = NewIteration
    BY Zenon DEF React, FinishScan, EndIteration
  <2> QED
    BY <2>1 DEF NewIteration
<1>6. StopRun \/ ControlIdle \/ PrepareTest \/ ApplyConfiguration \/
      MotorNotDue \/ MotorDone \/ MotorFails \/ AwaitCapture \/ UNCHANGED taskVars
      => UNCHANGED loc
  BY Zenon DEF StopRun, ControlIdle, PrepareTest, ApplyConfiguration,
     MotorNotDue, MotorDone, MotorFails, AwaitCapture
<1> QED
  BY <1>2, <1>3, <1>4, <1>5, <1>6, Phases, Zenon DEF Task

(* A slot goes to the microphone and back to the pool with it.             *)
LEMMA OwnershipKept ==
  ASSUME TypeOK, Ownership, Position, [Next]_vars
  PROVE  Ownership'
<1> USE DEF shared, cycleVars, captureVars, outputVars, moveVars, identityVars,
            history, pollUnchanged, vars, taskVars
<1>0. /\ slots \in [Slot -> FrameState] /\ filling \in Slot \cup {NoSlot}
      /\ NoSlot \notin Slot
  BY SlotFacts DEF TypeOK
<1>1. \A i \in Slot : slots'[i] = "FILLING" <=> i = filling'
  <2>1. \A i \in Slot : slots[i] = "FILLING" <=> i = filling
    BY DEF Ownership
  <2>2. CASE FinishCapture
    <3>1. filling \in Slot /\ filling' = NoSlot /\ slots' = Disposed
      BY <1>0, <2>2, Zenon DEF FinishCapture
    <3> QED
      BY <1>0, <2>1, <3>1 DEF Disposed, Published, Publishable
  <2>3. CASE PrepareCapture
    <3>1. filling = NoSlot
      BY <2>3, Zenon DEF PrepareCapture, Poll, Ownership
    <3>2. \/ UNCHANGED <<slots, filling>>
          \/ \E i \in Slot : slots' = [slots EXCEPT ![i] = "FILLING"] /\ filling' = i
      BY <2>3, Zenon DEF PrepareCapture, Acquired
    <3> QED
      BY <1>0, <2>1, <3>1, <3>2
  <2>4. CASE \E i \in Slot : FrameSent(i)
    <3>1. PICK i \in Slot : slots[i] = "READY" /\ slots' = [slots EXCEPT ![i] = "FREE"]
                            /\ filling' = filling
      BY <2>4, Zenon DEF FrameSent
    <3> QED
      BY <1>0, <2>1, <3>1
  <2> QED
    BY <2>1, <2>2, <2>3, <2>4, Changes, Zenon
<1>2. filling' # NoSlot => c'.state \in {"ACQUIRE", "FAULT"} \/ pc' = "trigger"
  <2>0. SUFFICES ASSUME filling' # NoSlot, pc' # "trigger" PROVE c'.state \in {"ACQUIRE", "FAULT"}
    OBVIOUS
  <2>1. CASE PrepareCapture
    <3>1. \/ FailCycle \/ UNCHANGED filling \/ pc' = "trigger"
      BY <2>1, Zenon DEF PrepareCapture, Goto
    <3>2. filling = NoSlot
      BY <2>1, Zenon DEF PrepareCapture, Poll, Ownership
    <3>3. FailCycle
      BY <2>0, <3>1, <3>2
    <3> QED
      BY <3>3, CycleTypes DEF FailCycle, CycleFailed, TypeOK, Cycle
  <2>2. CASE ~PrepareCapture
    <3>1. filling' = filling /\ filling # NoSlot
      BY <2>0, <2>2, Changes, Zenon DEF FinishCapture
    <3>2. CASE pc = "trigger"
      BY <2>0, <3>2, Phases, CycleSteps DEF ToFault, ToCapture
    <3>3. CASE pc # "trigger" /\ c.state \in {"ACQUIRE", "FAULT"}
      <4>1. ToNext => c'.state = "ACQUIRE"
        BY <3>1 DEF ToNext, Position
      <4> QED
        BY <3>3, <4>1, CycleSteps DEF ToFault, ToStop, ToNext, ToRun, ToCapture,
           ToMove, CanStart, Idle, IsIdle
    <3> QED
      BY <3>1, <3>2, <3>3, Zenon DEF Ownership
  <2> QED
    BY <2>1, <2>2
<1>3. mic' # "IDLE" \/ dma' # "off" => filling' # NoSlot
  <2>1. CASE UNCHANGED <<mic, dma>>
    <3>1. FinishCapture => mic' = "IDLE" /\ dma' = "off"
      BY Zenon DEF FinishCapture
    <3>2. PrepareCapture => filling' = filling \/ filling' # NoSlot
      BY <1>0, Zenon DEF PrepareCapture
    <3> QED
      BY <2>1, <3>1, <3>2, Changes, Zenon DEF Ownership
  <2>2. CASE AwaitCapture
    BY <2>2, Zenon DEF AwaitCapture, BadEvent, GoodEvent, Recording, Ownership
  <2>3. CASE FinishCapture
    BY <2>3, Zenon DEF FinishCapture
  <2>4. CASE Trigger \/ TriggerFails
    BY <2>4, Zenon DEF Trigger, TriggerFails, Position
  <2>5. CASE React
    BY <2>5, Zenon DEF React, Ownership
  <2>6. CASE DmaFinishes
    BY <2>6, Zenon DEF DmaFinishes, Ownership
  <2> QED
    BY <2>1, <2>2, <2>3, <2>4, <2>5, <2>6, Changes, Zenon
<1>4. c'.state = "WAIT_BUFFER" => mic' = "IDLE"
  <2>0. SUFFICES ASSUME c'.state = "WAIT_BUFFER" PROVE mic' = "IDLE"
    OBVIOUS
  <2>1. mic = "IDLE"
    <3>1. CASE c' = c
      BY <2>0, <3>1, Zenon DEF Ownership
    <3>2. CASE ToRun
      BY <3>2 DEF ToRun, CanStart, Idle, IsIdle, Run, TakeKey, Ownership
    <3>3. CASE ToMove
      BY <3>3, <2>0 DEF ToMove, Arrived, Poll, Ownership
    <3> QED
      BY <2>0, <3>1, <3>2, <3>3, CycleSteps DEF ToFault, ToStop, ToNext,
         ToCapture
  <2>2. AwaitCapture => mic' = mic
    BY <2>1, Zenon DEF AwaitCapture, BadEvent, GoodEvent, Recording
  <2>3. React => mic' = mic
    BY <2>1, Zenon DEF React
  <2>4. FinishCapture => mic' = "IDLE"
    BY Zenon DEF FinishCapture
  <2>5. ~Trigger /\ ~TriggerFails
    BY <2>0, CycleSteps DEF ToCapture, ToFault
  <2>6. DmaFinishes => mic' = mic
    BY Zenon DEF DmaFinishes
  <2> QED
    BY <2>1, <2>2, <2>3, <2>4, <2>5, <2>6, Changes, Zenon
<1> QED
  BY <1>1, <1>2, <1>3, <1>4, Zenon DEF Ownership

(* The trigger follows the preparation; a finished capture is noted once.  *)
LEMMA PositionKept ==
  ASSUME TypeOK, Ownership, Position, [Next]_vars
  PROVE  Position'
<1> USE DEF shared, cycleVars, captureVars, outputVars, moveVars, identityVars,
            history, pollUnchanged, vars, taskVars
<1>0. NoSlot \notin Slot /\ c.state \in CycleState /\ loc.captured \in BOOLEAN
  BY SlotFacts DEF TypeOK, Cycle, Locals
<1>1. pc' = "trigger" => /\ c'.state = "WAIT_BUFFER" /\ c'.cycle # MaxSequence
                         /\ filling' # NoSlot
  <2>1. PrepareCapture /\ pc' = "trigger" =>
           /\ c'.state = "WAIT_BUFFER" /\ c'.cycle # MaxSequence
           /\ filling' # NoSlot
    BY <1>0, Zenon DEF PrepareCapture, Goto, Poll
  <2>2. UNCHANGED taskVars /\ pc' = "trigger" =>
           /\ c'.state = "WAIT_BUFFER" /\ c'.cycle # MaxSequence
           /\ filling' # NoSlot
    BY Zenon DEF Position
  <2> QED
    BY <2>1, <2>2, Phases, Zenon
<1>2. loc'.captured => /\ pc' \in {"poll", "tail"} /\ filling' = NoSlot
                       /\ pc' = "poll" => c'.state \in {"ACQUIRE", "FAULT"}
  <2>0. SUFFICES ASSUME loc'.captured = TRUE
        PROVE  /\ pc' \in {"poll", "tail"} /\ filling' = NoSlot
               /\ pc' = "poll" => c'.state \in {"ACQUIRE", "FAULT"}
    BY <1>0, LocalsKept DEF Locals
  <2>1. CASE FinishCapture
    BY <2>1, Zenon DEF FinishCapture, Goto, Ownership
  <2>2. CASE ~FinishCapture
    <3>1. loc.captured = TRUE
      BY <2>0, <2>2, LocalSteps, Zenon
    <3>2. /\ pc \in {"poll", "tail"} /\ filling = NoSlot
          /\ pc = "poll" => c.state \in {"ACQUIRE", "FAULT"}
      BY <3>1, Zenon DEF Position
    <3>3. UNCHANGED taskVars \/ CyclePoll
      BY <3>2, <2>0, Phases, LocalSteps, Zenon
    <3>4. CASE UNCHANGED taskVars
      BY <3>2, <3>4, Zenon
    <3>5. CASE CyclePoll
      <4>1. ~PrepareCapture /\ ~Trigger /\ ~TriggerFails
        BY <3>2, Zenon DEF PrepareCapture, Poll, Trigger, TriggerFails
      <4>2. pc' = "tail"
        BY <4>1, <3>5, Zenon DEF CyclePoll, PollDormant, PollUnhealthy,
           SequenceExhausted, WaitForBuffer, AcquirePoll, KeepWaiting, Move,
           MoveFails, MotorTimeout, Arrived, Goto
      <4> QED
        BY <2>2, <3>2, <4>1, <4>2, Changes, Zenon
    <3> QED
      BY <3>3, <3>4, <3>5
  <2> QED
    BY <2>1, <2>2
<1>3. c'.state = "ACQUIRE" /\ c'.received => filling' = NoSlot
  <2>0. SUFFICES ASSUME c'.state = "ACQUIRE", c'.received PROVE filling' = NoSlot
    OBVIOUS
  <2>1. ~PrepareCapture
    <3>1. PrepareCapture => c.state = "WAIT_BUFFER"
      BY Zenon DEF PrepareCapture, Poll
    <3> QED
      BY <2>0, <3>1, CycleSteps DEF ToFault
  <2>2. filling' = filling \/ filling' = NoSlot
    BY <2>1, Changes, Zenon DEF FinishCapture
  <2>3. filling = NoSlot
    <3>1. CASE c' = c
      BY <2>0, <3>1, Zenon DEF Position
    <3>2. CASE ToNext
      BY <2>0, <3>2 DEF ToNext, Position
    <3>3. CASE ToStop
      BY <2>0, <3>3 DEF ToStop, Position
    <3> QED
      BY <2>0, <3>1, <3>2, <3>3, CycleSteps DEF ToFault, ToRun, ToCapture,
         ToMove
  <2> QED
    BY <2>2, <2>3
<1>4. prompt' # "none" => (IsIdle(c') \/ c'.state = "FAULT") /\ filling' = NoSlot
  <2>0. SUFFICES ASSUME prompt' # "none"
        PROVE  (IsIdle(c') \/ c'.state = "FAULT") /\ filling' = NoSlot
    OBVIOUS
  <2>1. CASE prompt # "none"
    <3>1. (Idle \/ c.state = "FAULT") /\ filling = NoSlot
      BY <2>1, Zenon DEF Position
    <3>2. ~PrepareCapture /\ ~Trigger
      BY <3>1 DEF PrepareCapture, Poll, Trigger, Position, Idle, IsIdle
    <3>3. filling' = NoSlot
      BY <3>1, <3>2, Changes, Zenon DEF FinishCapture
    <3>4. ~Run
      BY <2>1, Zenon DEF Run
    <3>5. IsIdle(c') \/ c'.state = "FAULT"
      BY <3>1, <3>2, <3>4, CycleSteps DEF ToFault, ToStop, ToNext, ToRun,
         ToCapture, ToMove, Idle, IsIdle
    <3> QED
      BY <3>3, <3>5
  <2>2. CASE prompt = "none"
    <3>1. \E k \in {"n", "v"} : OpenPrompt(k)
      BY <2>0, <2>2, Changes, Zenon DEF KeyTaken, StopRun, EnterPositions,
         EnterDivisor, IgnoreKey
    <3>2. Idle /\ c' = c /\ pc = "keys" /\ filling' = filling
      BY <2>0, <2>2, <3>1, Zenon DEF OpenPrompt, TakeKey
    <3>3. filling = NoSlot
      BY <3>2 DEF Ownership, Idle, IsIdle
    <3> QED
      BY <3>2, <3>3 DEF Idle
  <2> QED
    BY <2>1, <2>2
<1>5. Idle' <=> IsIdle(c')
  BY DEF Idle
<1> QED
  BY <1>1, <1>2, <1>3, <1>4, <1>5, Zenon DEF Position

(* A transmission and the speaker do not outlive the capture.              *)
LEMMA TransmissionKept ==
  ASSUME TypeOK, Position, Transmission, [Next]_vars
  PROVE  Transmission'
<1> USE DEF shared, cycleVars, captureVars, outputVars, moveVars, identityVars,
            history, pollUnchanged, vars, taskVars
<1>0. playing \in BOOLEAN /\ speaker \in BOOLEAN /\ playing' \in BOOLEAN /\ speaker' \in BOOLEAN
  BY FlagsKept DEF TypeOK
<1>1. /\ Stops \/ Fails => /\ tx' = "running" => tx = "running"
                           /\ playing' => playing /\ (tx = "running" => tx' = "running")
  BY <1>0, Outputs, Zenon DEF Fading, AsBefore, CanPrepare
<1>2. ApplyConfiguration => /\ tx' = "running" => tx = "running"
                            /\ playing' => playing /\ (tx = "running" => tx' = "running")
  <2> SUFFICES ASSUME ApplyConfiguration
               PROVE  /\ tx' = "running" => tx = "running"
                      /\ playing' => playing /\ (tx = "running" => tx' = "running")
    OBVIOUS
  <2>1. audio' \in BOOLEAN
    BY FlagsKept
  <2>2. audio' = TRUE => tx # "running"
    BY Zenon DEF ApplyConfiguration
  <2>3. (audio' = TRUE => tx' = "idle") /\ (audio' = FALSE => tx' = tx)
    BY Zenon DEF ApplyConfiguration
  <2>4. playing' = playing
    BY Zenon DEF ApplyConfiguration
  <2>5. tx' = "running" => tx = "running"
    BY <2>1, <2>2, <2>3
  <2>6. tx = "running" => tx' = "running"
    BY <2>1, <2>2, <2>3, Zenon
  <2> QED
    BY <2>4, <2>5, <2>6, Zenon
<1>3. AwaitCapture \/ FinishCapture =>
        /\ tx' = "running" => tx = "running"
        /\ playing' => playing /\ (tx = "running" => tx' = "running")
  <2>1. AwaitCapture \/ FinishCapture => PollTx /\ playing' = playing
    BY Zenon DEF AwaitCapture, FinishCapture
  <2>2. PollTx => /\ tx' = "running" => tx = "running"
                  /\ playing => tx' = tx
    BY TxPolled, Zenon
  <2> QED
    BY <2>1, <2>2, Zenon
<1>4. TxFinishes => playing' = FALSE /\ tx' = tx
  BY Zenon DEF TxFinishes
<1>5. \/ Trigger
      \/ /\ tx' = "running" => tx = "running"
         /\ playing' => playing /\ (tx = "running" => tx' = "running")
  BY <1>0, <1>1, <1>2, <1>3, <1>4, Changes, Zenon
<1>6. playing' => tx' = "running"
  BY <1>5, Zenon DEF Trigger, Transmission
<1>7. tx' = "running" => \/ c'.state = "FAULT"
                         \/ c'.state = "ACQUIRE" /\ ~c'.transmitted
  <2>1. CASE Trigger
    BY <2>1, CycleSteps DEF ToCapture
  <2>2. CASE ~Trigger
    <3> SUFFICES ASSUME tx' = "running"
                 PROVE c'.state = "FAULT" \/ (c'.state = "ACQUIRE" /\ ~c'.transmitted)
      OBVIOUS
    <3>1. tx = "running"
      BY <1>5, <2>2
    <3>2. c.state = "FAULT" \/ (c.state = "ACQUIRE" /\ ~c.transmitted)
      BY <3>1, Zenon DEF Transmission
    <3>3. ~TxDone
      BY <3>1 DEF TxDone
    <3> QED
      BY <2>2, <3>2, <3>3, CycleSteps DEF ToFault, ToStop, Silent, ToNext,
         ToRun, CanStart, Idle, IsIdle, ToCapture, ToMove
  <2> QED
    BY <2>1, <2>2
<1>8. speaker' => \/ c'.state = "ACQUIRE"
                  \/ /\ pc' = "tail" /\ loc'.before = "ACQUIRE"
                     /\ c'.state \in {"PRE_MOVE", "STOPPED"}
  <2> SUFFICES ASSUME speaker' = TRUE
               PROVE  \/ c'.state = "ACQUIRE"
                      \/ /\ pc' = "tail" /\ loc'.before = "ACQUIRE"
                         /\ c'.state \in {"PRE_MOVE", "STOPPED"}
    BY <1>0
  <2>1. CASE Trigger
    BY <2>1, CycleSteps DEF ToCapture
  <2>2. CASE React
    <3>1. speaker /\ ~(loc.before = "ACQUIRE" /\ c.state # "ACQUIRE") /\ c' = c
      BY <2>2, Zenon DEF React
    <3> QED
      BY <3>1, Zenon DEF Transmission
  <2>3. CASE ~Trigger /\ ~React
    <3>1. speaker = TRUE
      <4>1. Stops \/ Fails => speaker' = FALSE \/ speaker' = speaker
        BY Outputs, Zenon DEF Halted, AsBefore
      <4> QED
        BY <2>3, <4>1, Changes, Zenon
    <3>2. ~ToFault /\ ~ToStop
      BY Zenon DEF ToFault, ToStop, Halted
    <3>3. CASE c.state = "ACQUIRE"
      <4>1. CASE ToNext
        <5>1. loc'.before = "ACQUIRE" /\ pc' = "tail"
          BY <2>3, <3>3, <4>1, LocalSteps, Zenon
             DEF ToNext, CyclePoll, AcquirePoll, TriggerFails, Poll, Goto
        <5> QED
          BY <4>1, <5>1 DEF ToNext
      <4> QED
        BY <3>2, <3>3, <4>1, CycleSteps DEF ToRun, CanStart, Idle, IsIdle,
           ToCapture, ToMove
    <3>4. CASE c.state # "ACQUIRE"
      <4>1. pc = "tail" /\ loc.before = "ACQUIRE" /\ c.state \in {"PRE_MOVE", "STOPPED"}
        BY <3>1, <3>4, Zenon DEF Transmission
      <4>2. UNCHANGED taskVars
        BY <2>3, <3>2, <4>1, Phases, CycleSteps, Zenon DEF Stops
      <4> QED
        BY <4>1, <4>2, Zenon
    <3> QED
      BY <3>3, <3>4
  <2> QED
    BY <2>1, <2>2, <2>3
<1> QED
  BY <1>6, <1>7, <1>8, Zenon DEF Transmission

(* The plate is set in motion in PRE_MOVE only.                            *)
LEMMA PlateKept ==
  ASSUME TypeOK, Ownership, Position, Transmission, Plate, [Next]_vars
  PROVE  Plate'
<1> USE DEF shared, cycleVars, captureVars, outputVars, moveVars, identityVars,
            history, pollUnchanged, vars, taskVars
<1>0. /\ playing \in BOOLEAN /\ turning \in BOOLEAN
      /\ playing' \in BOOLEAN /\ turning' \in BOOLEAN
  BY FlagsKept DEF TypeOK
<1>1. ASSUME turning' = TRUE
      PROVE  c'.state \in {"MOVING", "FAULT"} /\ playing' = FALSE /\ dma' # "running"
  <2>1. CASE Move \/ MoveFails
    <3>1. c.state = "PRE_MOVE" /\ pc = "poll" /\ dma' = dma
      BY <2>1, Zenon DEF Move, MoveFails, Poll
    <3>2. playing = FALSE /\ dma = "off"
      BY <1>0, <3>1 DEF Transmission, Ownership
    <3>3. playing' = playing
      BY <2>1, <3>2, CycleSteps, Zenon DEF Move, ToFault, Fading
    <3>4. c'.state \in {"MOVING", "FAULT"}
      BY <2>1, <3>1, CycleSteps DEF ToFault, ToMove
    <3> QED
      BY <3>1, <3>2, <3>3, <3>4
  <2>2. CASE ~Move /\ ~MoveFails
    <3>1. turning = TRUE
      <4>1. Stops \/ Fails => turning' = FALSE \/ turning' = turning
        BY <2>2, Outputs, Zenon DEF AsBefore
      <4>2. EnterDivisor \/ MotorDone \/ MotorFails \/ MotorArrives =>
              turning' = FALSE \/ turning' = turning
        BY Zenon DEF EnterDivisor, MotorDone, MotorFails, MotorArrives
      <4> QED
        BY <1>1, <2>2, <4>1, <4>2, Changes, Zenon
    <3>2. c.state \in {"MOVING", "FAULT"} /\ playing = FALSE /\ dma # "running" /\ motor # "DONE"
      BY <1>0, <3>1, Zenon DEF Plate
    <3>3. ~Trigger /\ ~TriggerFails
      BY <3>2, Zenon DEF Trigger, TriggerFails, Position
    <3>4. ~Arrived
      BY <3>2, Zenon DEF Arrived, Poll
    <3>5. playing' = FALSE
      <4>1. Stops \/ Fails => playing' = FALSE \/ playing' = playing
        BY Outputs, Zenon DEF Fading, AsBefore
      <4> QED
        BY <3>2, <3>3, <4>1, Changes, Zenon DEF ApplyConfiguration,
           AwaitCapture, FinishCapture, TxFinishes
    <3>6. dma' # "running"
      <4>1. AwaitCapture \/ FinishCapture \/ React => dma' \in {"off", dma}
        BY Zenon DEF AwaitCapture, FinishCapture, React, MicFails
      <4>2. DmaFinishes => dma = "running"
        BY Zenon DEF DmaFinishes
      <4> QED
        BY <3>2, <3>3, <4>1, <4>2, Changes
    <3>7. c'.state \in {"MOVING", "FAULT"}
      <4>1. ~ToStop
        BY <1>1, Zenon DEF ToStop, Silent
      <4> QED
        BY <2>2, <3>2, <3>3, <3>4, <4>1, CycleSteps
           DEF ToFault, ToNext, ToRun, CanStart, Idle, IsIdle, ToCapture, ToMove
    <3> QED
      BY <3>5, <3>6, <3>7
  <2> QED
    BY <2>1, <2>2
<1>2. motor' = "DONE" => turning' = FALSE
  <2> SUFFICES ASSUME motor' = "DONE" PROVE turning' = FALSE
    OBVIOUS
  <2>1. CASE UNCHANGED <<motor, cause, turning>>
    BY <1>0, <2>1, Zenon DEF Plate
  <2>2. CASE Stops \/ Fails
    <3>1. ~Halted
      BY DEF Halted
    <3> QED
      BY <1>0, <2>2, <3>1, Outputs, Zenon DEF AsBefore, Plate
  <2>3. CASE EnterDivisor
    BY <1>0, <2>3, Zenon DEF EnterDivisor, Plate
  <2>4. CASE MotorDone \/ MotorFails \/ Move \/ MotorArrives
    BY <1>0, <2>4, Zenon DEF MotorDone, MotorFails, Move, MotorArrives, Plate
  <2> QED
    BY <2>1, <2>2, <2>3, <2>4, Changes, Zenon
<1>3. c'.state = "FAULT" => motor' \in {"IDLE", "FAULT"}
  <2> SUFFICES ASSUME c'.state = "FAULT" PROVE motor' \in {"IDLE", "FAULT"}
    OBVIOUS
  <2>1. CASE ToFault \/ ToStop
    BY <2>1, Zenon DEF ToFault, ToStop, Halted
  <2>2. CASE ~ToFault /\ ~ToStop
    <3>1. c' = c
      BY <2>2, CycleSteps DEF ToNext, ToRun, ToCapture, ToMove
    <3>2. motor \in {"IDLE", "FAULT"} /\ c.state = "FAULT"
      BY <3>1, Zenon DEF Plate
    <3>3. ~(Stops \/ Fails \/ Move)
      BY <2>2, <3>2, CycleSteps, Zenon DEF Fails, AcquirePoll, PrepareCapture,
         Move, Poll
    <3>4. EnterDivisor => motor' = motor \/ motor' = "FAULT"
      BY Zenon DEF EnterDivisor
    <3>5. MotorDone => motor = "MOVING"
      BY Zenon DEF MotorDone
    <3>6. MotorFails => motor' = "FAULT"
      BY Zenon DEF MotorFails
    <3>7. MotorArrives => motor' = motor
      BY Zenon DEF MotorArrives
    <3> QED
      BY <3>2, <3>3, <3>4, <3>5, <3>6, <3>7, Changes
  <2> QED
    BY <2>1, <2>2
<1>4. c'.state = "FAULT" /\ pc' = "top" => mic' # "CAPTURING"
  <2> SUFFICES ASSUME c'.state = "FAULT", pc' = "top" PROVE mic' # "CAPTURING"
    OBVIOUS
  <2>1. CASE UNCHANGED taskVars
    BY <2>1, Zenon DEF Plate
  <2>2. CASE React
    BY <2>2, Zenon DEF React, MicFails
  <2>3. CASE FinishScan
    <3>1. c.state = "WAIT_BUFFER" /\ mic' = mic
      BY <2>3, Zenon DEF FinishScan, ScanComplete
    <3> QED
      BY <3>1 DEF Ownership
  <2> QED
    BY <2>1, <2>2, <2>3, Phases, Zenon
<1> QED
  BY <1>0, <1>1, <1>2, <1>3, <1>4, Zenon DEF Plate

(* In a run the plan is only counted on, by a move.                        *)
LEMMA PlanSteps ==
  ASSUME TypeOK, Position, [Next]_vars,
         c'.state \in {"WAIT_BUFFER", "ACQUIRE", "PRE_MOVE", "MOVING", "SETTLING"}
  PROVE  \/ ToRun /\ plan' = Begun(plan) /\ plan.positions # 0
               /\ frames' = <<>> /\ travel' = 0 /\ mic' = mic /\ armed' = FALSE
         \/ Move /\ plan' = MoveMarked(plan) /\ c'.state = "MOVING"
         \/ plan' = plan /\ c.state \notin {"IDLE", "STOPPED", "FAULT"}
            /\ ~Move /\ ~(Run /\ CanStart)
<1>1. Run => \/ CanStart /\ plan' = Begun(plan) /\ plan.positions # 0
                  /\ frames' = <<>> /\ travel' = 0 /\ mic' = mic /\ armed' = FALSE
             \/ ~CanStart /\ plan' = plan
  BY Zenon DEF Run, CanStart, Disarm, TakeKey, captureVars
<1>2. Move => plan' = MoveMarked(plan) /\ c'.state = "MOVING"
  BY CycleSteps DEF ToMove, Move, Arrived, Poll
<1>3. CASE Run /\ CanStart
  BY <1>1, <1>3, CycleSteps, Zenon
<1>4. CASE Move
  BY <1>2, <1>4
<1>5. CASE ~(Run /\ CanStart) /\ ~Move
  <2>1. c.state \notin {"IDLE", "STOPPED", "FAULT"}
    BY <1>5, CycleSteps DEF ToFault, ToStop, ToNext, ToRun, ToCapture, ToMove,
       Trigger, Position
  <2>2. ~(\E request \in Requests : EnterPositions(request))
    BY <2>1 DEF EnterPositions, Position, Idle, IsIdle
  <2> QED
    BY <1>1, <1>5, <2>1, <2>2, Changes, Zenon
<1> QED
  BY <1>3, <1>4, <1>5

(* A run stays within its plan.                                            *)
LEMMA PlannedKept ==
  ASSUME TypeOK, Position, Planned, [Next]_vars
  PROVE  Planned'
<1> USE DEF shared, cycleVars, captureVars, outputVars, moveVars, identityVars,
            history, pollUnchanged, vars, taskVars
<1>0. plan \in Plan /\ plan' \in Plan /\ c \in Cycle /\ c' \in Cycle
  BY TypesKept DEF TypeOK
<1>1. ASSUME c'.state \in {"WAIT_BUFFER", "ACQUIRE", "PRE_MOVE", "MOVING", "SETTLING"}
      PROVE  /\ plan'.positions # 0 /\ plan'.moves <= plan'.positions
             /\ c'.stopping => c'.state = "ACQUIRE"
  <2>1. CASE ToRun /\ plan' = Begun(plan) /\ plan.positions # 0
    BY <1>0, <2>1 DEF ToRun, Begun, Plan
  <2>2. CASE Move /\ plan' = MoveMarked(plan)
    <3>1. c.state = "PRE_MOVE" /\ ToMove
      BY <2>2, CycleSteps, Zenon DEF Move, Poll
    <3>2. plan.positions # 0 /\ ~Exhausted(plan) /\ ~c.stopping
      BY <3>1, Zenon DEF Planned
    <3> QED
      BY <1>0, <2>2, <3>1, <3>2, ScanAssumption
         DEF ToMove, MoveMarked, Exhausted, Plan, ScanAssumption
  <2>3. CASE plan' = plan /\ c.state \notin {"IDLE", "STOPPED", "FAULT"}
             /\ ~Move /\ ~(Run /\ CanStart)
    <3>1. /\ c.state \in {"WAIT_BUFFER", "ACQUIRE", "PRE_MOVE", "MOVING", "SETTLING"}
          /\ plan.positions # 0 /\ plan.moves <= plan.positions
          /\ c.stopping => c.state = "ACQUIRE"
      BY <1>0, <2>3 DEF Planned, Cycle, CycleState
    <3>2. c'.stopping => c'.state = "ACQUIRE"
      BY <1>1, <2>3, <3>1, CycleSteps DEF ToFault, ToStop, ToNext, ToRun,
         ToCapture, ToMove
    <3> QED
      BY <2>3, <3>1, <3>2
  <2> QED
    BY <1>1, <2>1, <2>2, <2>3, PlanSteps, Zenon
<1>2. ASSUME c'.state \in {"ACQUIRE", "PRE_MOVE"}
      PROVE  ~Exhausted(plan')
  <2>1. plan' = plan /\ c.state \notin {"IDLE", "STOPPED", "FAULT"}
        /\ ~Move /\ ~(Run /\ CanStart)
    BY <1>2, PlanSteps DEF ToRun
  <2>2. CASE ToCapture
    BY <2>1, <2>2, Zenon DEF ToCapture, Trigger, Position, Planned
  <2>3. CASE ~ToCapture
    <3>1. c.state \in {"ACQUIRE", "PRE_MOVE"}
      BY <1>2, <2>1, <2>3, CycleSteps DEF ToFault, ToStop, ToNext, ToRun, ToMove
    <3> QED
      BY <2>1, <3>1, Zenon DEF Planned
  <2> QED
    BY <2>2, <2>3
<1>3. ASSUME c'.state = "WAIT_BUFFER", Exhausted(plan')
      PROVE  pc' = "tail" /\ loc'.before = "SETTLING"
  <2>1. CASE ToRun /\ plan' = Begun(plan) /\ plan.positions # 0
    BY <1>0, <1>3, <2>1 DEF Begun, Exhausted, Plan
  <2>2. CASE Arrived
    <3>1. c.state = "SETTLING" /\ pc' = "tail"
      BY <1>3, <2>2, CycleSteps, Zenon DEF ToMove, Arrived, Goto, Move, Poll
    <3>2. ~Trigger /\ ~TriggerFails
      BY <2>2, Zenon DEF Arrived, Poll, Trigger, TriggerFails
    <3> QED
      BY <2>2, <3>1, <3>2, LocalSteps, Zenon DEF CyclePoll
  <2>3. CASE ~Arrived /\ plan' = plan /\ c.state \notin {"IDLE", "STOPPED", "FAULT"}
             /\ ~Move /\ ~(Run /\ CanStart)
    <3>1. c' = c
      BY <1>3, <2>3, CycleSteps DEF ToFault, ToStop, ToNext, ToRun, ToCapture,
         ToMove
    <3>2. pc = "tail" /\ loc.before = "SETTLING" /\ plan.positions # 0
      BY <1>3, <2>3, <3>1, Zenon DEF Planned
    <3>3. ScanComplete
      BY <1>3, <2>3, <3>1, <3>2, Zenon DEF ScanComplete, Complete
    <3>4. ~Stops
      BY <1>3, CycleSteps DEF ToFault, ToStop
    <3>5. UNCHANGED taskVars
      BY <3>2, <3>3, <3>4, Phases, Zenon DEF React, Stops
    <3> QED
      BY <3>2, <3>5, Zenon
  <2> QED
    BY <1>3, <2>1, <2>2, <2>3, PlanSteps, Zenon DEF Arrived, Move, Poll
<1> QED
  BY <1>1, <1>2, <1>3, Zenon DEF Planned

(* Every move ends on the target of its position.                          *)
LEMMA PlateOnPlanKept ==
  ASSUME TypeOK, Position, Plate, Planned, PlateOnPlan, [Next]_vars
  PROVE  PlateOnPlan'
<1> USE DEF shared, cycleVars, captureVars, outputVars, moveVars, identityVars,
            history, pollUnchanged, vars, taskVars
<1>0. plan \in Plan /\ plan' \in Plan /\ c \in Cycle /\ turning \in BOOLEAN /\ turning' \in BOOLEAN
      /\ travel \in Int
  BY TypesKept DEF TypeOK
<1>1. OnPlan' = plan'.direction * Target(plan'.positions, plan'.moves)
  BY DEF OnPlan
<1>2. ASSUME c'.state \in {"WAIT_BUFFER", "ACQUIRE", "PRE_MOVE", "SETTLING"}
      PROVE  travel' = OnPlan'
  <2>1. CASE ToRun /\ plan' = Begun(plan) /\ plan.positions # 0 /\ travel' = 0
    <3>1. plan'.direction \in Int /\ plan'.positions \in Nat \ {0} /\ plan'.moves = 0
      BY <1>0, <2>1 DEF Begun, Plan
    <3>2. Target(plan'.positions, 0) = 0
      BY <3>1, TargetFacts
    <3>3. OnPlan' = plan'.direction * 0
      BY <1>1, <3>1, <3>2
    <3> QED
      BY <2>1, <3>1, <3>3
  <2>2. CASE plan' = plan /\ c.state \notin {"IDLE", "STOPPED", "FAULT"}
             /\ ~Move /\ ~(Run /\ CanStart)
    <3>1. OnPlan' = OnPlan
      BY <2>2, Zenon DEF OnPlan
    <3>2. CASE c.state = "MOVING"
      <4>1. Arrived
        BY <1>2, <2>2, <3>2, CycleSteps DEF ToFault, ToStop, ToNext, ToRun,
           ToCapture, ToMove, Trigger, Position
      <4>2. motor = "DONE" /\ travel' = travel
        BY <3>2, <4>1, Zenon DEF Arrived, Poll
      <4>3. travel = target /\ target = OnPlan
        BY <3>2, <4>2, Zenon DEF PlateOnPlan, Plate
      <4> QED
        BY <3>1, <4>2, <4>3
    <3>3. CASE c.state # "MOVING"
      <4>1. c.state \in {"WAIT_BUFFER", "ACQUIRE", "PRE_MOVE", "SETTLING"}
        BY <1>0, <2>2, <3>3 DEF Cycle, CycleState
      <4>2. travel = OnPlan
        BY <4>1, Zenon DEF PlateOnPlan
      <4>3. ~MotorArrives
        BY <4>1, Zenon DEF MotorArrives, Plate
      <4>4. travel' = travel
        BY <2>2, <4>3, Changes, Zenon DEF Run
      <4> QED
        BY <3>1, <4>2, <4>4
    <3> QED
      BY <3>2, <3>3
  <2> QED
    BY <1>2, <2>1, <2>2, PlanSteps
<1>3. ASSUME c'.state = "MOVING"
      PROVE  target' = OnPlan' /\ (motor' \in {"MOVING", "DONE"} /\ ~turning' => travel' = target')
  <2>1. CASE Move
    <3>1. target' = travel + NextDelta(plan) /\ turning' = TRUE /\ c.state = "PRE_MOVE"
          /\ plan' = MoveMarked(plan)
      BY <2>1, Zenon DEF Move, Poll
    <3>2. /\ travel = plan.direction * Target(plan.positions, plan.moves)
          /\ ~Exhausted(plan) /\ plan.positions # 0
      BY <3>1, Zenon DEF PlateOnPlan, OnPlan, Planned
    <3>3. /\ plan'.direction = plan.direction /\ plan'.positions = plan.positions
          /\ plan'.moves = plan.moves + 1
      BY <1>0, <3>1, <3>2 DEF MoveMarked, Plan
    <3>4. NextDelta(plan) = plan.direction *
             (Target(plan.positions, plan.moves + 1) - Target(plan.positions, plan.moves))
      BY <3>2 DEF NextDelta
    <3>5. /\ plan.positions \in Nat \ {0} /\ plan.moves \in Nat /\ plan.moves + 1 \in Nat
          /\ plan.direction \in {-1, 1}
      BY <1>0, <3>2 DEF Plan
    <3>6. /\ Target(plan.positions, plan.moves) \in Int
          /\ Target(plan.positions, plan.moves + 1) \in Int
      BY <3>5, TargetFacts
    <3>7. target' = plan.direction * Target(plan.positions, plan.moves + 1)
      BY <3>1, <3>2, <3>4, <3>5, <3>6
    <3>8. target' = OnPlan'
      BY <1>1, <3>3, <3>7
    <3> QED
      BY <3>1, <3>8
  <2>2. CASE ~Move
    <3>1. /\ plan' = plan /\ ~(Run /\ CanStart)
      BY <1>3, <2>2, PlanSteps DEF ToRun
    <3>2. c' = c
      BY <1>3, <2>2, CycleSteps DEF ToFault, ToStop, ToNext, ToRun, ToCapture,
         ToMove
    <3>3. OnPlan' = OnPlan
      BY <3>1, Zenon DEF OnPlan
    <3>4. target' = target
      BY <2>2, <3>1, Changes, Zenon DEF Run
    <3>5. target = OnPlan /\ (motor \in {"MOVING", "DONE"} /\ ~turning => travel = target)
      BY <1>3, <3>2, Zenon DEF PlateOnPlan
    <3>6. CASE MotorArrives
      BY <3>3, <3>4, <3>5, <3>6, Zenon DEF MotorArrives
    <3>7. CASE ~MotorArrives
      <4>1. travel' = travel
        BY <3>1, <3>7, Changes, Zenon DEF Run
      <4>2. motor' \in {"MOVING", "DONE"} /\ ~turning' => motor \in {"MOVING", "DONE"} /\ ~turning
        <5>1. ~Stops /\ ~Fails
          BY <1>3, <3>2, CycleSteps DEF ToFault, ToStop, ToNext, Fails,
             PrepareCapture, Poll
        <5>2. ~EnterDivisor
          BY <1>3, <3>2 DEF EnterDivisor, Position, Idle, IsIdle
        <5>3. MotorDone => motor = "MOVING" /\ ~turning
          BY Zenon DEF MotorDone
        <5>4. MotorFails => motor' = "FAULT"
          BY Zenon DEF MotorFails
        <5> QED
          BY <1>0, <2>2, <3>7, <5>1, <5>2, <5>3, <5>4, Changes
      <4> QED
        BY <3>3, <3>4, <3>5, <4>1, <4>2
    <3> QED
      BY <3>6, <3>7
  <2> QED
    BY <2>1, <2>2
<1> QED
  BY <1>2, <1>3, Zenon DEF PlateOnPlan

(* What a recording that has ended well adds to the published ones.        *)
LEMMA PublishedNext ==
  ASSUME TypeOK, FinishCapture
  PROVE  /\ filling # NoSlot /\ filling' = NoSlot /\ Underway /\ mic' = "IDLE"
         /\ pc = "capture" /\ c' = c /\ plan' = plan /\ test' = test /\ UNCHANGED <<metadata, cut>>
         /\ c.stopping => frames' = frames
         /\ ~c.stopping => /\ Len(frames') = Len(frames) + 1
                           /\ \A k \in DOMAIN frames' : k \in DOMAIN frames \/ k = Len(frames) + 1
                           /\ 1 \in DOMAIN frames'
                           /\ \A k \in DOMAIN frames : frames'[k] = frames[k]
                           /\ frames'[Len(frames) + 1].about = metadata
                           /\ frames'[Len(frames) + 1].stopped = cut
<1>1. /\ filling # NoSlot /\ filling' = NoSlot /\ Underway /\ mic' = "IDLE"
      /\ pc = "capture" /\ c' = c /\ plan' = plan /\ test' = test /\ UNCHANGED <<metadata, cut>>
  BY Zenon DEF FinishCapture, GoodEvent, Recording, Underway, cycleVars,
     identityVars
<1>2. /\ c.stopping => frames' = frames
      /\ ~c.stopping => frames' = Append(frames, [about |-> metadata, stopped |-> cut])
  BY Zenon DEF FinishCapture
<1>3. PICK Kind : frames \in Seq(Kind) /\ [about |-> metadata, stopped |-> cut] \in Kind
  BY Zenon DEF TypeOK
<1>4. frames' = Append(frames, [about |-> metadata, stopped |-> cut]) =>
         /\ Len(frames') = Len(frames) + 1
         /\ \A k \in DOMAIN frames : frames'[k] = frames[k]
         /\ frames'[Len(frames) + 1] = [about |-> metadata, stopped |-> cut]
  BY <1>3
<1>5. frames' = Append(frames, [about |-> metadata, stopped |-> cut]) =>
         DOMAIN frames' = 1 .. Len(frames) + 1
  BY <1>3
<1>6. DOMAIN frames = 1 .. Len(frames) /\ Len(frames) \in Nat
  BY <1>3
<1>7. frames' = Append(frames, [about |-> metadata, stopped |-> cut]) =>
        /\ \A k \in DOMAIN frames' : k \in DOMAIN frames \/ k = Len(frames) + 1
        /\ 1 \in DOMAIN frames'
  BY <1>5, <1>6
<1> QED
  BY <1>1, <1>2, <1>4, <1>7

(* A recording begins with the trigger and ends in the finish or a fault.  *)
LEMMA UnderwaySteps ==
  ASSUME TypeOK, [Next]_vars
  PROVE  /\ mic' \in {"CAPTURING", "READY"} => Trigger \/ Underway
         /\ mic' = "IDLE" => mic = "IDLE" \/ FinishCapture
  <1>1. AwaitCapture => \/ mic' = mic \/ mic' = "FAULT"
                        \/ mic = "CAPTURING" /\ mic' = "READY"
    BY Zenon DEF AwaitCapture, MicFails, GoodEvent, Recording
  <1>2. React => mic' = mic \/ mic' = "FAULT"
    BY Zenon DEF React, MicFails
  <1>3. FinishCapture => mic' = "IDLE"
    BY Zenon DEF FinishCapture
  <1>4. Trigger => mic' = "CAPTURING"
    BY Zenon DEF Trigger
  <1>5. TriggerFails => mic' = "FAULT"
    BY Zenon DEF TriggerFails
  <1>6. DmaFinishes => mic' = mic
    BY Zenon DEF DmaFinishes, taskVars
  <1> QED
    BY <1>1, <1>2, <1>3, <1>4, <1>5, <1>6, Changes DEF Underway

(* The recordings are published in the order of the plan.                  *)
LEMMA InOrderKept ==
  ASSUME TypeOK, Ownership, Position, Planned, InOrder, [Next]_vars
  PROVE  InOrder'
<1> USE DEF shared, cycleVars, captureVars, outputVars, moveVars, identityVars,
            history, pollUnchanged, vars, taskVars
<1>0. /\ plan \in Plan /\ c \in Cycle /\ Len(frames) \in Nat /\ DOMAIN frames = 1 .. Len(frames)
      /\ DOMAIN (frames') = 1 .. Len(frames')
  BY TypesKept DEF TypeOK
<1>a. Run => \/ CanStart /\ frames' = <<>>
             \/ ~CanStart /\ frames' = frames
  BY Zenon DEF Run, CanStart
<1>b. Idle /\ pc # "trigger" => filling = NoSlot /\ mic = "IDLE"
  BY DEF Ownership, Idle, IsIdle
<1>1. c'.state \in {"WAIT_BUFFER", "MOVING", "SETTLING"} => Len(frames') = plan'.moves
  <2> SUFFICES ASSUME c'.state \in {"WAIT_BUFFER", "MOVING", "SETTLING"}
               PROVE  Len(frames') = plan'.moves
    OBVIOUS
  <2>1. CASE ToRun /\ plan' = Begun(plan) /\ frames' = <<>>
    BY <1>0, <2>1 DEF Begun, Plan
  <2>2. CASE Move /\ plan' = MoveMarked(plan)
    <3>1. c.state = "PRE_MOVE" /\ frames' = frames
      BY <2>2, Zenon DEF Move, Poll
    <3>2. Len(frames) = plan.moves + 1 /\ ~Exhausted(plan)
      BY <3>1, Zenon DEF InOrder, Planned
    <3> QED
      BY <1>0, <2>2, <3>1, <3>2 DEF MoveMarked, Plan
  <2>3. CASE plan' = plan /\ c.state \notin {"IDLE", "STOPPED", "FAULT"}
             /\ ~Move /\ ~(Run /\ CanStart)
    <3>1. c.state \in {"WAIT_BUFFER", "MOVING", "SETTLING"}
      BY <2>3, CycleSteps DEF ToFault, ToStop, ToNext, ToRun, ToCapture, ToMove
    <3>2. ~FinishCapture
      BY <3>1, PublishedNext DEF Ownership
    <3>3. frames' = frames
      BY <1>a, <2>3, <3>2, Changes, Zenon
    <3> QED
      BY <2>3, <3>1, <3>3, Zenon DEF InOrder
  <2> QED
    BY <2>1, <2>2, <2>3, PlanSteps
<1>2. /\ c'.state = "ACQUIRE" /\ filling' # NoSlot => Len(frames') = plan'.moves
      /\ \/ c'.state = "PRE_MOVE"
         \/ c'.state = "ACQUIRE" /\ filling' = NoSlot /\ ~c'.stopping
         => Len(frames') = plan'.moves + 1
  <2> SUFFICES ASSUME c'.state \in {"ACQUIRE", "PRE_MOVE"}
               PROVE  /\ c'.state = "ACQUIRE" /\ filling' # NoSlot => Len(frames') = plan'.moves
                      /\ \/ c'.state = "PRE_MOVE"
                         \/ c'.state = "ACQUIRE" /\ filling' = NoSlot /\ ~c'.stopping
                         => Len(frames') = plan'.moves + 1
    OBVIOUS
  <2>1. plan' = plan /\ c.state \notin {"IDLE", "STOPPED", "FAULT"}
        /\ ~Move /\ ~(Run /\ CanStart)
    BY PlanSteps DEF ToRun
  <2>2. CASE ToCapture
    <3>1. c.state = "WAIT_BUFFER" /\ filling # NoSlot /\ filling' = filling /\ frames' = frames
      BY <2>2, Zenon DEF ToCapture, Trigger, Position
    <3>2. Len(frames) = plan.moves
      BY <3>1, Zenon DEF InOrder
    <3> QED
      BY <2>1, <2>2, <3>1, <3>2 DEF ToCapture
  <2>3. CASE FinishCapture
    <3>1. c.state = "ACQUIRE"
      BY <2>1, <2>3, PublishedNext DEF Ownership
    <3>2. Len(frames) = plan.moves
      BY <2>3, <3>1, PublishedNext, Zenon DEF InOrder
    <3> QED
      BY <1>0, <2>1, <2>3, <3>1, <3>2, PublishedNext
  <2>4. CASE ~ToCapture /\ ~FinishCapture
    <3>1. c.state \in {"ACQUIRE", "PRE_MOVE"}
      BY <2>1, <2>4, CycleSteps DEF ToFault, ToStop, ToNext, ToRun, ToMove
    <3>2. ~PrepareCapture
      BY <3>1, Zenon DEF PrepareCapture, Poll
    <3>3. frames' = frames /\ filling' = filling
      BY <1>a, <2>1, <2>4, <3>2, Changes, Zenon
    <3>4. CASE c' = c
      BY <2>1, <3>3, <3>4, Zenon DEF InOrder
    <3>5. CASE ToStop
      BY <2>1, <3>1, <3>3, <3>5 DEF InOrder, ToStop
    <3>6. CASE ToNext
      <4>1. /\ filling # NoSlot => Len(frames) = plan.moves
            /\ filling = NoSlot /\ ~c.stopping => Len(frames) = plan.moves + 1
        BY <3>6, Zenon DEF InOrder, ToNext
      <4>2. c'.state = "PRE_MOVE" => filling = NoSlot /\ ~c.stopping
        BY <3>6 DEF ToNext, Position
      <4> QED
        BY <2>1, <3>3, <3>6, <4>1, <4>2 DEF ToNext
    <3> QED
      BY <2>1, <2>4, <3>1, <3>4, <3>5, <3>6, CycleSteps
         DEF ToFault, ToRun, ToMove
  <2> QED
    BY <2>2, <2>3, <2>4
<1>3. mic' \in {"CAPTURING", "READY"} => metadata'.index = Len(frames') + 1 /\ metadata'.test = test'
  <2> SUFFICES ASSUME mic' \in {"CAPTURING", "READY"}
               PROVE  metadata'.index = Len(frames') + 1 /\ metadata'.test = test'
    OBVIOUS
  <2>1. CASE Trigger
    <3>1. /\ metadata' = [index |-> CaptureIndex(plan), test |-> test]
          /\ frames' = frames /\ test' = test /\ pc = "trigger"
      BY <2>1, Zenon DEF Trigger
    <3>2. c.state = "WAIT_BUFFER" /\ ~Exhausted(plan) /\ Len(frames) = plan.moves
      BY <3>1, Zenon DEF Position, Planned, InOrder
    <3> QED
      BY <1>0, <3>1, <3>2 DEF CaptureIndex
  <2>2. CASE ~Trigger
    <3>1. Underway
      BY <2>2, UnderwaySteps, Zenon
    <3>2. metadata.index = Len(frames) + 1 /\ metadata.test = test
      BY <3>1, Zenon DEF InOrder
    <3>3. filling # NoSlot
      BY <3>1 DEF Underway, Ownership
    <3>4. ~TriggerFails /\ ~FinishCapture
      BY DEF TriggerFails, FinishCapture
    <3>5. ~PrepareTest /\ ~(Run /\ CanStart)
      BY <3>3, <1>b, Zenon DEF PrepareTest, Mutable, Run, TakeKey, CanStart
    <3> QED
      BY <1>a, <2>2, <3>2, <3>4, <3>5, Changes, Zenon
  <2> QED
    BY <2>1, <2>2
<1>4. mic' \in {"CAPTURING", "READY"} \/ c'.state \notin {"IDLE", "STOPPED", "FAULT"} =>
        \A k \in DOMAIN frames' : frames'[k].about.test = test'
  <2> SUFFICES ASSUME mic' \in {"CAPTURING", "READY"} \/ c'.state \notin {"IDLE", "STOPPED", "FAULT"},
                      NEW k \in DOMAIN frames'
               PROVE  frames'[k].about.test = test'
    OBVIOUS
  <2>1. CASE Run /\ CanStart
    <3>1. frames' = <<>>
      BY <1>a, <2>1, Zenon
    <3> QED
      BY <1>0, <3>1
  <2>2. CASE ~(Run /\ CanStart)
    <3>1. Underway \/ c.state \notin {"IDLE", "STOPPED", "FAULT"}
      BY <2>2, UnderwaySteps, CycleSteps DEF Trigger, Position, ToFault, ToStop,
         ToNext, ToRun, ToCapture, ToMove
    <3>2. \A i \in DOMAIN frames : frames[i].about.test = test
      BY <3>1 DEF InOrder, Idle, IsIdle
    <3>3. ~PrepareTest
      BY <3>1, <1>b DEF PrepareTest, Mutable, Idle, IsIdle, Underway
    <3>4. CASE FinishCapture /\ ~c.stopping
      <4>1. metadata.test = test
        BY <3>4, PublishedNext, Zenon DEF InOrder
      <4>2. k \in DOMAIN frames \/ k = Len(frames) + 1
        BY <3>4, PublishedNext, Zenon
      <4> QED
        BY <3>2, <3>4, <4>1, <4>2, PublishedNext, Zenon
    <3>5. CASE ~(FinishCapture /\ ~c.stopping)
      <4>1. frames' = frames
        BY <1>a, <2>2, <3>5, Changes, PublishedNext, Zenon
      <4> QED
        BY <3>2, <3>3, <4>1, Changes, Zenon
    <3> QED
      BY <3>4, <3>5
  <2> QED
    BY <2>1, <2>2
<1>5. EachPositionOnce'
  <2>1. CASE Run /\ CanStart
    <3>1. frames' = <<>>
      BY <1>a, <2>1, Zenon
    <3> QED
      BY <1>0, <3>1 DEF EachPositionOnce
  <2>2. CASE FinishCapture /\ ~c.stopping
    <3>1. Underway /\ (\A k \in DOMAIN frames : frames[k].about.test = test)
          /\ metadata.index = Len(frames) + 1 /\ metadata.test = test
      BY <2>2, PublishedNext, Zenon DEF InOrder
    <3>2. ASSUME NEW k \in DOMAIN frames'
          PROVE  frames'[k].about.index = k /\ frames'[k].about.test = test
      <4>1. CASE k \in DOMAIN frames
        BY <2>2, <3>1, <4>1, PublishedNext, Zenon DEF InOrder, EachPositionOnce
      <4>2. CASE k = Len(frames) + 1
        BY <2>2, <3>1, <4>2, PublishedNext, Zenon
      <4>3. k \in DOMAIN frames \/ k = Len(frames) + 1
        BY <2>2, PublishedNext, Zenon
      <4> QED
        BY <4>1, <4>2, <4>3
    <3>3. 1 \in DOMAIN frames'
      BY <2>2, PublishedNext, Zenon
    <3> QED
      BY <3>2, <3>3, Zenon DEF EachPositionOnce
  <2>3. CASE ~(Run /\ CanStart) /\ ~(FinishCapture /\ ~c.stopping)
    <3>1. frames' = frames
      BY <1>a, <2>3, Changes, PublishedNext, Zenon
    <3> QED
      BY <3>1, Zenon DEF EachPositionOnce, InOrder
  <2> QED
    BY <2>1, <2>2, <2>3
<1>6. /\ Underway' <=> mic' \in {"CAPTURING", "READY"}
      /\ ~(Idle' \/ c'.state = "FAULT") <=> c'.state \notin {"IDLE", "STOPPED", "FAULT"}
  BY DEF Underway, Idle, IsIdle
<1> QED
  BY <1>1, <1>2, <1>3, <1>4, <1>5, <1>6, Zenon DEF InOrder

(* The mark of a Stop stays with the cycle until the recording is dropped. *)
LEMMA MarkedKept ==
  ASSUME TypeOK, Ownership, Position, Marked, [Next]_vars
  PROVE  Marked'
<1> USE DEF shared, cycleVars, captureVars, outputVars, moveVars, identityVars,
            history, pollUnchanged, vars, taskVars
<1>1. ASSUME mic' \in {"CAPTURING", "READY"}, cut' = "stopped"
      PROVE  c'.stopping
  <2>1. ~Trigger
    BY <1>1, Zenon DEF Trigger
  <2>2. Underway /\ filling # NoSlot
    BY <1>1, <2>1, UnderwaySteps DEF Underway, Ownership
  <2>3. ~ToRun
    BY <2>2 DEF ToRun, CanStart, Idle, IsIdle, Ownership, Run, TakeKey
  <2>4. c.stopping => c'.stopping
    BY <2>1, <2>3, CycleSteps, Zenon DEF ToFault, ToStop, ToNext, ToCapture,
       ToMove
  <2>5. CASE cut = "stopped"
    BY <2>2, <2>4, <2>5, Zenon DEF Marked
  <2>6. CASE cut # "stopped"
    <3>1. StopRun
      BY <1>1, <2>1, <2>6, Changes, Zenon
    <3>2. PICK ok \in BOOLEAN :
            /\ c' = CycleStopped(c, ok)
            /\ cut' = IF filling = NoSlot THEN cut
                      ELSE IF ok THEN "stopped"
                      ELSE IF cut = "none" THEN "failed" ELSE cut
      BY <3>1, Zenon DEF StopRun
    <3>3. ok = TRUE
      BY <1>1, <2>2, <2>6, <3>2
    <3>4. c' = [c EXCEPT !.stopping = TRUE,
                 !.state = IF @ \in {"ACQUIRE", "FAULT"} THEN @ ELSE "STOPPED"]
      BY <3>2, <3>3 DEF CycleStopped
    <3> QED
      BY <3>4 DEF TypeOK, Cycle
  <2> QED
    BY <2>5, <2>6
<1>2. StoppedIsDiscarded'
  <2>1. Run => frames' = <<>> \/ frames' = frames
    BY Zenon DEF Run
  <2>2. CASE FinishCapture /\ ~c.stopping
    <3>1. cut # "stopped"
      BY <2>2, PublishedNext, Zenon DEF Marked
    <3>2. ASSUME NEW k \in DOMAIN frames' PROVE frames'[k].stopped # "stopped"
      <4>1. CASE k \in DOMAIN frames
        BY <2>2, <4>1, PublishedNext, Zenon DEF Marked, StoppedIsDiscarded
      <4>2. CASE k = Len(frames) + 1
        BY <2>2, <3>1, <4>2, PublishedNext, Zenon
      <4> QED
        BY <2>2, <4>1, <4>2, PublishedNext, Zenon
    <3> QED
      BY <3>2, Zenon DEF StoppedIsDiscarded
  <2>3. CASE ~(FinishCapture /\ ~c.stopping)
    <3>1. frames' = frames \/ frames' = <<>>
      BY <2>1, <2>3, Changes, PublishedNext, Zenon
    <3>2. frames' = <<>> => StoppedIsDiscarded'
      BY DEF StoppedIsDiscarded
    <3> QED
      BY <3>1, <3>2, Zenon DEF Marked, StoppedIsDiscarded
  <2> QED
    BY <2>2, <2>3
<1>3. Underway' => mic' \in {"CAPTURING", "READY"}
  BY DEF Underway
<1> QED
  BY <1>1, <1>2, <1>3, Zenon DEF Marked

(* A requested Stop is carried out before a second output starts.          *)
LEMMA StopComingKept ==
  ASSUME TypeOK, Position, Planned, StopComing, [Next]_vars
  PROVE  StopComing'
<1> USE DEF shared, cycleVars, captureVars, outputVars, moveVars, identityVars,
            history, pollUnchanged, vars, taskVars
<1>0. since \in Nat \cup {NoStop} /\ stop_requested \in BOOLEAN /\ stop_requested' \in BOOLEAN
  BY FlagsKept DEF TypeOK
<1>1. Quiet' <=> c'.state \in {"IDLE", "STOPPED", "FAULT"} \/ (c'.state = "ACQUIRE" /\ c'.stopping)
  BY DEF Quiet, Idle, IsIdle
<1>2. Quiet => Quiet' \/ ToRun
  <2>1. Quiet /\ c' = c => Quiet'
    BY Zenon DEF Quiet, Idle
  <2>2. Quiet => ~ToCapture
    BY DEF Quiet, Idle, IsIdle, ToCapture, Trigger, Position, Planned
  <2> QED
    BY <1>1, <2>1, <2>2, CycleSteps DEF Quiet, Idle, IsIdle, ToFault, ToStop,
       ToNext, ToMove
<1>3. StopRun => Quiet'
  BY <1>1, CycleSteps DEF Stops, ToFault, ToStop
<1>4. FinishScan => Quiet'
  BY <1>1, CycleSteps DEF Stops, ToFault, ToStop
<1>5. Trigger \/ Move => ~Quiet /\ pc \notin {"stop", "tail", "top"} /\ pc' = "tail"
                         /\ stop_requested' = stop_requested /\ since' = Counted
  <2>1. Trigger \/ Move => c.state \in {"WAIT_BUFFER", "PRE_MOVE"} /\ pc \in {"trigger", "poll"}
                           /\ pc' = "tail" /\ stop_requested' = stop_requested /\ since' = Counted
    BY Zenon DEF Trigger, Move, Poll, Goto, Position
  <2> QED
    BY <2>1 DEF Quiet, Idle, IsIdle
<1>6. ToRun => since' = (IF stop_requested THEN 0 ELSE NoStop) /\ stop_requested' = stop_requested
  BY Zenon DEF ToRun, Run, TakeKey
<1>7. StopAsked => \/ since' = since /\ stop_requested' = stop_requested /\ UNCHANGED taskVars
                   \/ /\ stop_requested' = TRUE /\ UNCHANGED taskVars
                      /\ since' = since \/ (since = NoStop /\ since' = 0)
  BY Zenon DEF StopAsked, KeyArrives, StopKey, Inhibit, StopRequested
<1>8. TakeFlags => /\ stop_requested = TRUE => pc' = "stop"
                   /\ since' = since
  BY Zenon DEF TakeFlags, Goto
<1>9. Run => ToRun \/ since' = since
  BY CycleSteps, Zenon DEF Run
<1>10. CASE Trigger \/ Move
  <2>1. since = NoStop \/ (since = 0 /\ stop_requested = TRUE)
    <3>1. since # NoStop => stop_requested = TRUE
      BY <1>0, <1>5, <1>10, Zenon DEF StopComing
    <3>2. since # 1 /\ since <= 1
      BY <1>5, <1>10, Zenon DEF StopComing
    <3> QED
      BY <1>0, <3>1, <3>2 DEF NoStop
  <2>2. since' = NoStop \/ (since' = 1 /\ stop_requested' = TRUE)
    BY <1>5, <1>10, <2>1 DEF Counted, NoStop
  <2> QED
    BY <1>5, <1>10, <2>2, SMT DEF StopComing, NoStop
<1>11. CASE ToRun
  <2>1. since' = NoStop \/ (since' = 0 /\ stop_requested' = TRUE)
    BY <1>0, <1>6, <1>11, Zenon
  <2> QED
    BY <2>1, SMT DEF StopComing, NoStop
<1>12. CASE StopAsked
  <2>1. Quiet => Quiet'
    BY <1>7, <1>12, Zenon DEF Quiet, Idle
  <2>2. pc' = pc
    BY <1>7, <1>12, Zenon
  <2>3. since' = since \/ since' = 0
    BY <1>7, <1>12, Zenon
  <2>4. stop_requested => stop_requested'
    BY <1>7, <1>12, Zenon
  <2>5. since # NoStop => Quiet' \/ pc' = "stop" \/ stop_requested'
    BY <2>1, <2>2, <2>4, Zenon DEF StopComing
  <2>6. since = NoStop => since' = NoStop \/ stop_requested'
    BY <1>7, <1>12, Zenon
  <2>7. since' = 1 => since = 1
    BY <2>3
  <2>8. since = 1 => Quiet' \/ pc' = "stop" \/ (stop_requested' /\ pc' \in {"tail", "top"})
    BY <2>1, <2>2, <2>4, Zenon DEF StopComing
  <2>9. since' <= 1
    BY <2>3, SMT DEF StopComing
  <2> QED
    BY <2>5, <2>6, <2>7, <2>8, <2>9, <1>0, Zenon DEF StopComing
<1>13. CASE ~Trigger /\ ~Move /\ ~ToRun /\ ~StopAsked
  <2>1. since' = since /\ (stop_requested' = stop_requested \/ TakeFlags)
    BY <1>9, <1>13, Changes, Zenon
  <2>2. Quiet => Quiet'
    BY <1>2, <1>13
  <2>3. pc = "stop" => Quiet' \/ pc' = "stop"
    BY <1>3, Phases, Zenon
  <2>4. stop_requested => stop_requested' \/ pc' = "stop"
    BY <1>0, <1>8, <2>1, Zenon
  <2>5. pc \in {"tail", "top"} /\ stop_requested =>
            Quiet' \/ pc' = "stop" \/ (stop_requested' /\ pc' \in {"tail", "top"})
    <3>1. React => pc' = "top"
      BY Zenon DEF React, EndIteration, Goto
    <3>2. TakeFlags => pc = "top"
      BY Zenon DEF TakeFlags
    <3> QED
      BY <1>4, <1>0, <1>8, <2>1, <3>1, <3>2, Phases, Zenon
  <2> QED
    BY <2>1, <2>2, <2>3, <2>4, <2>5, Zenon DEF StopComing
<1> QED
  BY <1>10, <1>11, <1>12, <1>13

(* A Stop or a run uses the prepared test up.                              *)
LEMMA PreparedKept ==
  ASSUME TypeOK, Prepared, [Next]_vars
  PROVE  Prepared'
<1> SUFFICES ASSUME armed' PROVE test' > stale'
  BY Zenon DEF Prepared
<1>1. test \in Nat /\ stale \in 0 .. test
  BY ExperimentAssumption DEF TypeOK, ExperimentAssumption
<1>2. CASE PrepareTest
  BY <1>1, <1>2 DEF PrepareTest, history
<1>3. CASE ~PrepareTest
  <2>1. test' = test
    BY <1>3, Changes, Zenon
  <2>2. Stops \/ Fails => ~armed' \/ UNCHANGED <<armed, stale>>
    BY Outputs, Zenon DEF Halted, AsBefore
  <2>3. Run => ~armed' \/ UNCHANGED <<armed, stale>>
    BY Zenon DEF Run, Disarm
  <2>4. ApplyConfiguration => ~armed'
    BY Zenon DEF ApplyConfiguration
  <2>5. UNCHANGED <<armed, stale>> \/ Stops \/ Fails \/ Run \/ ApplyConfiguration
    BY <1>3, Changes, Zenon
  <2>6. armed /\ stale' = stale
    BY <2>2, <2>3, <2>4, <2>5, Zenon
  <2> QED
    BY <2>1, <2>6, Zenon DEF Prepared
<1> QED
  BY <1>2, <1>3

-----------------------------------------------------------------------------
(* The theorems.                                                           *)

(* The inductive invariant.                                                *)
Inv ==
  /\ TypeOK /\ Ownership /\ Position /\ Transmission /\ Plate
  /\ Planned /\ PlateOnPlan /\ InOrder /\ Marked /\ StopComing /\ Prepared

(* At power on nothing is under way.                                       *)
LEMMA Initially == Init => Inv
<1> SUFFICES ASSUME Init PROVE Inv
  OBVIOUS
<1>1. TypeOK
  <2>1. keys \in Seq(Key) /\ Len(keys) <= KeyQueue
    <3>1. KeyQueue \in Nat
      BY ExperimentAssumption DEF ExperimentAssumption
    <3>2. keys = <<>>
      BY DEF Init
    <3> QED
      BY <3>1, <3>2
  <2>2. slots \in [Slot -> FrameState] /\ filling \in Slot \cup {NoSlot}
    BY DEF Init, FrameState
  <2>3. pc \in Phase /\ loc \in Locals
    BY ExperimentAssumption DEF Init, Phase, NewIteration, Locals, CycleState,
       ExperimentAssumption
  <2>4. c \in Cycle
    BY SequenceAssumption DEF Init, NewCycle, Cycle, CycleState,
       SequenceAssumption
  <2>5. plan \in Plan
    BY PlanTypes DEF Init
  <2>6. metadata \in Metadata
    BY ExperimentAssumption, ScanAssumption DEF Init, NoMetadata, Metadata,
       ExperimentAssumption, ScanAssumption
  <2>7. test \in 0 .. MaxTests /\ stale \in 0 .. test
    BY ExperimentAssumption DEF Init, ExperimentAssumption
  <2>8. frames \in Seq([about : Metadata, stopped : {"none", "stopped", "failed"}])
    BY DEF Init
  <2>9. /\ stop_requested \in BOOLEAN /\ inhibited \in BOOLEAN
        /\ txFault \in BOOLEAN /\ playing \in BOOLEAN /\ speaker \in BOOLEAN
        /\ audio \in BOOLEAN /\ running \in BOOLEAN /\ armed \in BOOLEAN
        /\ cause \in BOOLEAN /\ turning \in BOOLEAN
    BY Zenon DEF Init
  <2>10. /\ prompt \in {"none", "n", "v"}
         /\ mic \in {"IDLE", "CAPTURING", "READY", "FAULT"}
         /\ dma \in {"off", "running", "done", "error"}
         /\ tx \in {"idle", "prepared", "running", "completed", "aborted"}
         /\ motor \in {"IDLE", "MOVING", "DONE", "FAULT"}
         /\ target \in Int /\ travel \in Int
         /\ expired \subseteq Deadline
         /\ cut \in {"none", "stopped", "failed"}
         /\ since \in Nat \cup {NoStop}
    BY DEF Init
  <2> QED
    BY <2>1, <2>2, <2>3, <2>4, <2>5, <2>6, <2>7, <2>8, <2>9, <2>10, Zenon
       DEF TypeOK
<1>2. Ownership /\ Position
  BY SlotFacts DEF Init, NewCycle, NewIteration, Ownership, Position
<1>3. Transmission /\ Plate
  BY DEF Init, NewCycle, NewIteration, Transmission, Plate
<1>4. Planned /\ PlateOnPlan
  BY DEF Init, NewCycle, NewIteration, Planned, PlateOnPlan
<1>5. InOrder /\ Marked
  BY DEF Init, NewCycle, Underway, Idle, IsIdle, InOrder, EachPositionOnce,
     Marked, StoppedIsDiscarded
<1>6. StopComing /\ Prepared
  BY DEF Init, NoStop, StopComing, Prepared
<1> QED
  BY <1>1, <1>2, <1>3, <1>4, <1>5, <1>6 DEF Inv

(* All parts together are inductive.                                       *)
LEMMA Always == Spec => []Inv
<1>1. Inv /\ [Next]_vars => Inv'
  <2> SUFFICES ASSUME Inv, [Next]_vars PROVE Inv'
    OBVIOUS
  <2>1. TypeOK' /\ Ownership' /\ Position' /\ Transmission' /\ Plate'
    BY TypesKept, OwnershipKept, PositionKept, TransmissionKept, PlateKept,
       Zenon
       DEF Inv
  <2>2. Planned' /\ PlateOnPlan' /\ InOrder'
    BY PlannedKept, PlateOnPlanKept, InOrderKept, Zenon DEF Inv
  <2>3. Marked' /\ StopComing' /\ Prepared'
    BY MarkedKept, StopComingKept, PreparedKept, Zenon DEF Inv
  <2> QED
    BY <2>1, <2>2, <2>3, Zenon DEF Inv
<1> QED
  BY Initially, <1>1, PTL DEF Spec

(* Every variable keeps its type; that the cycle number stays in its 32    *)
(* bits needs the check before the trigger.                                *)
THEOREM TypeCorrect == Spec => []TypeOK
<1>1. Inv => TypeOK
  BY Zenon DEF Inv
<1> QED
  BY Always, <1>1, PTL

(* No frame buffer is ever lost: between iterations an idle system owns    *)
(* none, and the pool knows of no other owner than the task.               *)
THEOREM SlotIsOwned == Spec => []SlotOwned
<1>1. Inv => SlotOwned
  BY DEF Inv, Ownership, SlotOwned, Idle, IsIdle
<1> QED
  BY Always, <1>1, PTL

(* A recording that was interrupted by a Stop is dropped, however late its *)
(* DMA and its transmission end.                                           *)
THEOREM StoppedNeverPublished == Spec => []StoppedIsDiscarded
<1>1. Inv => StoppedIsDiscarded
  BY Zenon DEF Inv, Marked
<1> QED
  BY Always, <1>1, PTL

(* A run publishes every position of its revolution once, in order and     *)
(* under one test.                                                         *)
THEOREM PositionsInOrder == Spec => []EachPositionOnce
<1>1. Inv => EachPositionOnce
  BY Zenon DEF Inv, InOrder
<1> QED
  BY Always, <1>1, PTL

(* Whenever a capture is due, the plate stands on the target of the        *)
(* position and every earlier position has been published.                 *)
THEOREM ScanStaysInStep == Spec => []ScanInStep
<1>1. Inv => ScanInStep
  BY DEF Inv, InOrder, PlateOnPlan, OnPlan, ScanInStep
<1> QED
  BY Always, <1>1, PTL

(* The plate does not turn while the speaker plays or the DMA records.     *)
THEOREM StillWhileRecording == Spec => []NeverMoveWhileRecording
<1>1. Inv => NeverMoveWhileRecording
  BY Zenon DEF Inv, Plate, NeverMoveWhileRecording
<1> QED
  BY Always, <1>1, PTL

(* A requested Stop lets at most the one output through that the task was  *)
(* about to start.                                                         *)
THEOREM StopLetsOneThrough == Spec => []OneOutputAfterStop
<1>1. Inv => OneOutputAfterStop
  BY Zenon DEF Inv, StopComing, OneOutputAfterStop
<1> QED
  BY Always, <1>1, PTL

(* Between iterations a fault has muted the speaker, cancelled the         *)
(* recording and stopped the motor or declared it faulty.                  *)
THEOREM OutputsAgree == Spec => []OutputsMatchState
<1>1. Inv => OutputsMatchState
  BY DEF Inv, Transmission, Plate, OutputsMatchState
<1> QED
  BY Always, <1>1, PTL

(* A run starts only with a test prepared after the last run or Stop.      *)
THEOREM RunsAreFresh == Spec => FreshTest
<1>1. Inv /\ [Next]_vars => [~running /\ running' => test > stale]_vars
  <2> SUFFICES ASSUME Inv, [Next]_vars, ~running, running' PROVE test > stale
    BY Zenon
  <2>1. TypeOK /\ Prepared
    BY Zenon DEF Inv
  <2>2. running = FALSE /\ running' = TRUE
    BY <2>1, FlagsKept, Zenon DEF TypeOK
  <2>3. ~ReleaseRun
    BY <2>2, Zenon DEF ReleaseRun
  <2>4. Run
    BY <2>2, <2>3, Changes, Zenon
  <2>5. armed
    BY <2>2, <2>4, Zenon DEF Run, CanStart
  <2> QED
    BY <2>1, <2>5, Zenon DEF Prepared
<1> QED
  BY Always, <1>1, PTL DEF Spec, FreshTest
=============================================================================
