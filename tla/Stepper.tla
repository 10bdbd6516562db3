------------------------------- MODULE Stepper -------------------------------
(***************************************************************************)
(* The turntable: sonar_stepper.c, over the blocking I2C driver of         *)
(* sonar_ps_i2c.c, commanding a Tic stepper controller that runs on its    *)
(* own and stops the motor when its command timeout passes without a       *)
(* keep-alive.                                                             *)
(*                                                                         *)
(* A routine of the stepper is a list of commands. Each is a transfer that *)
(* takes time, may be delivered without being acknowledged in time, and    *)
(* may leave the bus held by the other side. ASK is the request of         *)
(* read_vars, the read that follows it is named for the variables. Between *)
(* two routines the experiment task may be away for any time. Ages stand   *)
(* for time stamps.                                                        *)
(***************************************************************************)
EXTENDS Integers, Sequences

CONSTANTS
  KeepaliveTicks,               \* SONAR_MOTOR_KEEPALIVE_MS
  WatchdogTicks,                \* SONAR_MOTOR_WATCHDOG_MS, as the Tic is set
  MoveTicks,                    \* operation_timeout_ticks
  BusTicks,                     \* SONAR_MOTOR_I2C_TIMEOUT_MS
  MaxPosition,                  \* INT32_MAX
  Deltas                        \* steps of a move

ASSUME StepperAssumption ==
  /\ KeepaliveTicks \in Nat \ {0} /\ WatchdogTicks \in Nat
  /\ 3 * KeepaliveTicks < WatchdogTicks        \* sonar_stepper_init
  /\ MoveTicks \in Nat \ {0} /\ BusTicks \in Nat \ {0}
  /\ MaxPosition \in Nat /\ Deltas \subseteq Int

VARIABLES
  stepper,                      \* sonar_stepper_t
  routine, todo, good,          \* what the task is doing, all well so far
  i2c,                          \* the bus and its driver
  tic                           \* the Tic and the motor: `normal` is operation
                                \* state 10, `error` the command timeout,
                                \* `silent` the time since the last keep-alive

stepperVars == <<stepper, routine, todo, good, i2c, tic>>

NoStatus ==
  [energized |-> FALSE, normal |-> FALSE, error |-> FALSE, pos |-> 0,
   moving |-> FALSE, target |-> 0]

Commands ==
  {"HALT", "DEENERGIZE", "ASK", "GENERAL", "MOTION", "PLAN", "MODE", "LIMITS",
   "ZERO", "STEP_MODE", "POSITION_HERE", "TARGET_HERE", "KEEPALIVE", "ENERGIZE",
   "EXIT_SAFE_START", "TARGET"}

StopScript == <<"HALT", "DEENERGIZE", "ASK", "GENERAL", "ASK", "MOTION">>
SetupScript == <<"LIMITS", "ZERO">>
ModeScript ==
  <<"STEP_MODE", "ASK", "MODE", "ZERO", "ASK", "GENERAL", "ASK", "MOTION">>
StatusScript == <<"ASK", "GENERAL", "ASK", "MOTION">>
PlanScript == <<"ASK", "PLAN">>
MoveScript ==
  <<"POSITION_HERE", "TARGET_HERE", "KEEPALIVE", "ENERGIZE",
    "EXIT_SAFE_START", "TARGET">>

(* sonar_stepper_init begins with a stop.                                  *)
StepperInit ==
  /\ stepper = [state |-> "IDLE", energized |-> FALSE, faulted |-> FALSE,
                target |-> 0, delta |-> 0, status |-> NoStatus, quiet |-> 0,
                run |-> 0, renewed |-> FALSE, overdue |-> FALSE]
  /\ routine = "INIT_STOP" /\ todo = StopScript /\ good = TRUE
  /\ i2c = [phase |-> "FREE", age |-> 0, delivered |-> FALSE,
            quarantined |-> FALSE]
  /\ tic = [energized |-> FALSE, normal |-> FALSE, error |-> FALSE, pos |-> 0,
            moving |-> FALSE, target |-> 0, silent |-> 0]

-----------------------------------------------------------------------------
(* What a command does to the Tic, and what a read brings.                 *)

AfterCommand(c) ==
  CASE c = "HALT"            -> [tic EXCEPT !.moving = FALSE, !.target = tic.pos]
    [] c = "DEENERGIZE"      -> [tic EXCEPT !.moving = FALSE, !.energized = FALSE,
                                     !.silent = 0, !.error = FALSE]
    [] c = "ZERO"            -> [tic EXCEPT !.pos = 0, !.target = 0]
    [] c = "POSITION_HERE"   -> [tic EXCEPT !.pos = stepper.status.pos]
    [] c = "TARGET_HERE"     -> [tic EXCEPT !.target = stepper.status.pos]
    [] c = "KEEPALIVE"       -> [tic EXCEPT !.silent = 0, !.error = FALSE]
    [] c = "ENERGIZE"        -> [tic EXCEPT !.energized = TRUE]
    [] c = "EXIT_SAFE_START" -> [tic EXCEPT !.normal = ~tic.error]
    [] c = "TARGET"          -> [tic EXCEPT !.target = stepper.target]
    [] OTHER                 -> tic

AfterRead(c) ==
  CASE c = "GENERAL" -> [stepper.status EXCEPT !.energized = tic.energized,
                           !.normal = tic.normal, !.error = tic.error]
    [] c = "MOTION"  -> [stepper.status EXCEPT !.pos = tic.pos,
                           !.moving = tic.moving]
    [] c = "PLAN"    -> [stepper.status EXCEPT !.target = tic.target]
    [] OTHER         -> stepper.status

-----------------------------------------------------------------------------
(* sonar_ps_i2c.c: one transfer, for the first command of the list.        *)

(* A command that fails ends its routine, except that a stop goes on to    *)
(* the de-energize after a failed halt, and to the status after that.      *)
CommandFails ==
  /\ good' = FALSE
  /\ todo' = IF Head(todo) \in {"HALT", "DEENERGIZE"} THEN Tail(todo) ELSE <<>>

(* The bus is idle and the START is sent; or something holds the bus and   *)
(* it is waited for; or the driver is quarantined and does nothing.        *)
BeginTransfer ==
  /\ todo # <<>> /\ i2c.phase = "FREE"
  /\ \/ i2c.quarantined /\ CommandFails /\ UNCHANGED i2c
     \/ /\ ~i2c.quarantined /\ UNCHANGED <<todo, good>>
        /\ \E phase \in {"RUN", "WAIT"} : i2c' = [i2c EXCEPT !.phase = phase]
  /\ UNCHANGED <<stepper, routine, tic>>

BusFreed ==
  /\ i2c.phase = "WAIT" /\ i2c' = [i2c EXCEPT !.phase = "RUN"]
  /\ UNCHANGED <<stepper, routine, todo, good, tic>>

(* The Tic has the whole command; the driver learns of it later, or never. *)
Deliver ==
  /\ i2c.phase = "RUN" /\ ~i2c.delivered
  /\ i2c' = [i2c EXCEPT !.delivered = TRUE]
  /\ tic' = AfterCommand(Head(todo))
  /\ stepper' = [stepper EXCEPT !.status = AfterRead(Head(todo))]
  /\ UNCHANGED <<routine, todo, good>>

FreeBus == [i2c EXCEPT !.phase = "FREE", !.age = 0, !.delivered = FALSE]

TransferDone ==
  /\ i2c.phase = "RUN" /\ i2c.delivered /\ i2c.age < BusTicks
  /\ i2c' = FreeBus /\ todo' = Tail(todo)
  /\ UNCHANGED <<stepper, routine, good, tic>>

(* An error, or the timeout: abort_bus, which waits for an idle bus.       *)
TransferFails ==
  /\ i2c.phase = "RUN" \/ (i2c.phase = "WAIT" /\ i2c.age >= BusTicks)
  /\ i2c' = [FreeBus EXCEPT !.phase = "ABORT"]
  /\ UNCHANGED <<stepper, routine, todo, good, tic>>

AbortDone ==
  /\ i2c.phase = "ABORT" /\ CommandFails
  /\ \/ i2c' = FreeBus
     \/ i2c.age >= BusTicks /\ i2c' = [FreeBus EXCEPT !.quarantined = TRUE]
  /\ UNCHANGED <<stepper, routine, tic>>

Transfer ==
  \/ BeginTransfer \/ BusFreed \/ TransferDone \/ TransferFails \/ AbortDone

-----------------------------------------------------------------------------
(* sonar_stepper.c: what follows when the commands are done. A transfer    *)
(* that returns is followed by the next statement within the same tick.    *)

Enter(r, script) == routine' = r /\ todo' = script /\ good' = TRUE
Leave == Enter("NONE", <<>>)

(* Between two routines nobody looks at the status that was read.          *)
Forgotten(s) == [s EXCEPT !.status = NoStatus]

Reached(r) == routine = r /\ todo = <<>>

(* fault: the reason is latched, then a stop; the state stays FAULT.       *)
Fault(s) ==
  stepper' = [Forgotten(s) EXCEPT !.faulted = TRUE] /\ Enter("FAULT", StopScript)

(* sonar_stepper_stop                                                      *)
StopConfirmed == good /\ ~stepper.status.energized /\ ~stepper.status.moving

(* Variant with a bug: a stop that succeeds forgets the fault.             *)
StopForgives(ok) ==
  [stepper EXCEPT !.energized = FALSE, !.quiet = 0, !.run = 0,
                  !.renewed = FALSE, !.overdue = FALSE, !.status = NoStatus,
                  !.state = IF ok THEN "IDLE" ELSE "FAULT"]

StoppedAs(ok) ==
  [stepper EXCEPT !.energized = FALSE, !.quiet = 0, !.run = 0,
                  !.renewed = FALSE, !.overdue = FALSE, !.status = NoStatus,
                  !.state = IF ok /\ ~stepper.faulted THEN "IDLE" ELSE "FAULT"]

Stopped ==
  /\ Reached("STOP") \/ Reached("FAULT")
  /\ stepper' = StoppedAs(StopConfirmed) /\ Leave

(* sonar_stepper_init                                                      *)
InitStopped ==
  /\ Reached("INIT_STOP")
  /\ \/ StopConfirmed /\ stepper' = StoppedAs(TRUE) /\ Enter("INIT", SetupScript)
     \/ ~StopConfirmed /\ Fault(StoppedAs(FALSE))

InitDone ==
  /\ Reached("INIT")
  /\ \/ good /\ UNCHANGED stepper /\ Enter("MODE", ModeScript)
     \/ ~good /\ Fault(stepper)

(* sonar_stepper_mode: the mode is read back, the origin set anew. A mode  *)
(* that reads back wrong is a failure like a failed transfer.              *)
ModeDone ==
  /\ Reached("MODE")
  /\ \/ good /\ stepper' = Forgotten(stepper) /\ Leave
     \/ Fault(stepper)

(* sonar_stepper_move, when the status has been read.                      *)
MoveChecked ==
  LET target == stepper.status.pos + stepper.delta
  IN /\ Reached("MOVE_CHECK")
     /\ \/ /\ good /\ ~stepper.status.moving /\ target \in -MaxPosition .. MaxPosition
           /\ stepper' = [stepper EXCEPT !.target = target, !.delta = 0]
           /\ Enter("MOVE", MoveScript)
        \/ /\ ~good \/ stepper.status.moving \/ target \notin -MaxPosition .. MaxPosition
           /\ Fault(stepper)

MoveBegun ==
  /\ Reached("MOVE")
  /\ \/ /\ good /\ Leave
        /\ stepper' = [Forgotten(stepper) EXCEPT !.energized = TRUE, !.state = "MOVING",
                         !.quiet = 0, !.run = 0, !.renewed = FALSE]
     \/ ~good /\ Fault(stepper)

(* sonar_stepper_poll                                                      *)

Polled == stepper.state # "FAULT" /\ stepper.energized

(* Variant with a bug: the margin of one keep-alive is forgotten.          *)
LateAtWatchdog == stepper.quiet >= WatchdogTicks

KeepaliveLate == stepper.quiet >= WatchdogTicks - KeepaliveTicks

MoveOverdue == stepper.state = "MOVING" /\ stepper.run >= MoveTicks

Poll ==
  LET s == [stepper EXCEPT !.overdue = MoveOverdue]
  IN /\ routine = "NONE" /\ Polled
     /\ \/ KeepaliveLate /\ Fault(stepper)
        \/ /\ ~KeepaliveLate /\ stepper.quiet >= KeepaliveTicks
           /\ stepper' = s /\ Enter("KEEPALIVE", <<"KEEPALIVE">>)
        \/ /\ stepper.quiet < KeepaliveTicks
           /\ \/ MoveOverdue /\ Fault(stepper)
              \/ ~MoveOverdue /\ stepper' = s /\ Enter("STATUS", StatusScript)

KeptAlive ==
  LET s == [stepper EXCEPT !.quiet = 0, !.renewed = TRUE]
  IN /\ Reached("KEEPALIVE")
     /\ \/ ~good /\ Fault(stepper)
        \/ good /\ stepper.overdue /\ Fault(s)
        \/ good /\ ~stepper.overdue /\ stepper' = s /\ Enter("STATUS", StatusScript)

StatusFine ==
  good /\ ~stepper.status.error /\ stepper.status.normal /\ stepper.status.energized

StatusRead ==
  /\ Reached("STATUS")
  /\ \/ ~StatusFine /\ Fault(stepper)
     \/ /\ StatusFine /\ stepper.state = "MOVING" /\ UNCHANGED stepper
        /\ Enter("PLAN", PlanScript)
     \/ /\ StatusFine /\ stepper.state # "MOVING"
        /\ stepper' = Forgotten(stepper) /\ Leave

(* Variant with a bug: a motor that has not yet started has arrived.       *)
StandsStill == ~stepper.status.moving

Arrived == stepper.status.pos = stepper.target /\ ~stepper.status.moving

PlanRead ==
  /\ Reached("PLAN")
  /\ \/ (~good \/ stepper.status.target # stepper.target) /\ Fault(stepper)
     \/ /\ good /\ stepper.status.target = stepper.target /\ Leave
        /\ stepper' = [Forgotten(stepper) EXCEPT !.state = IF Arrived THEN "DONE" ELSE @]

(* The callers: stop_outputs at any time, the measurement cycle and the    *)
(* console between two routines.                                           *)
StepperStop ==
  /\ routine = "NONE" /\ Enter("STOP", StopScript) /\ UNCHANGED stepper

StepperMove ==
  /\ routine = "NONE" /\ stepper.state \in {"IDLE", "DONE"}
  /\ \E d \in Deltas : stepper' = [stepper EXCEPT !.delta = d]
  /\ Enter("MOVE_CHECK", StatusScript)

StepperMode ==
  /\ routine = "NONE" /\ stepper.state = "IDLE" /\ ~stepper.energized
  /\ Enter("MODE", ModeScript) /\ UNCHANGED stepper

Continue ==
  \/ Stopped \/ InitStopped \/ InitDone \/ ModeDone \/ MoveChecked \/ MoveBegun
  \/ KeptAlive \/ StatusRead \/ PlanRead

StepperRuns == Transfer \/ ((Continue \/ Poll) /\ UNCHANGED <<i2c, tic>>)

StepperTask ==
  \/ StepperRuns
  \/ (StepperStop \/ StepperMove \/ StepperMode) /\ UNCHANGED <<i2c, tic>>

-----------------------------------------------------------------------------
(* The Tic turns the motor one position at a time.                         *)

Turns == tic.energized /\ tic.normal /\ tic.pos # tic.target

TicAccelerates == Turns /\ ~tic.moving /\ tic' = [tic EXCEPT !.moving = TRUE]

TicTurns ==
  /\ Turns /\ tic.moving
  /\ tic' = [tic EXCEPT !.pos = IF tic.target > @ THEN @ + 1 ELSE @ - 1]

TicArrives ==
  /\ tic.moving /\ tic.pos = tic.target /\ tic' = [tic EXCEPT !.moving = FALSE]

Motor ==
  (TicAccelerates \/ TicTurns \/ TicArrives)
    /\ UNCHANGED <<stepper, routine, todo, good, i2c>>

(* A tick. The driver looks at the bus once per tick. The Tic counts too:  *)
(* at the command timeout it stops and needs a new safe start. (While it   *)
(* is not energized there is nothing to stop.)                             *)
Silenced ==
  IF ~tic.energized THEN tic ELSE IF tic.silent + 1 >= WatchdogTicks
  THEN [tic EXCEPT !.silent = WatchdogTicks, !.error = TRUE, !.normal = FALSE,
                   !.moving = FALSE]
  ELSE [tic EXCEPT !.silent = @ + 1]

UpTo(n, limit) == IF n < limit THEN n + 1 ELSE limit

StepperTick ==
  /\ i2c.phase # "FREE" => i2c.age < BusTicks
  /\ routine # "NONE" => i2c.phase # "FREE"
  /\ tic' = Silenced
  /\ i2c' = IF i2c.phase = "FREE" THEN i2c ELSE [i2c EXCEPT !.age = @ + 1]
  /\ stepper' = IF ~stepper.energized THEN stepper
                ELSE [stepper EXCEPT !.quiet = UpTo(@, WatchdogTicks),
                                     !.run = UpTo(@, MoveTicks)]
  /\ UNCHANGED <<routine, todo, good>>

StepperNext ==
  StepperTask \/ Deliver \/ Motor \/ StepperTick

(* The task polls on every tick; nothing is asked of the bus or the motor. *)
(* Time goes on, however often a stop is tried.                            *)
StepperFairness ==
  /\ WF_stepperVars(StepperRuns)
  /\ SF_stepperVars(StepperTick)

StepperSpec ==
  StepperInit /\ [][StepperNext]_stepperVars /\ StepperFairness

-----------------------------------------------------------------------------
(* Properties *)

(* Every variable has its type.                                            *)
StepperTypeOK ==
  /\ stepper \in
       [state : {"IDLE", "MOVING", "DONE", "FAULT"}, energized : BOOLEAN,
        faulted : BOOLEAN, target : Int, delta : Deltas \cup {0},
        status : [energized : BOOLEAN, normal : BOOLEAN, error : BOOLEAN,
                  pos : Int, moving : BOOLEAN, target : Int],
        quiet : 0 .. WatchdogTicks, run : 0 .. MoveTicks,
        renewed : BOOLEAN, overdue : BOOLEAN]
  /\ routine \in {"NONE", "INIT_STOP", "INIT", "MODE", "STOP", "FAULT",
                  "MOVE_CHECK", "MOVE", "KEEPALIVE", "STATUS", "PLAN"}
  /\ todo \in Seq(Commands) /\ good \in BOOLEAN
  /\ i2c \in [phase : {"FREE", "WAIT", "RUN", "ABORT"}, age : 0 .. BusTicks,
              delivered : BOOLEAN, quarantined : BOOLEAN]
  /\ tic \in
       [energized : BOOLEAN, normal : BOOLEAN, error : BOOLEAN, pos : Int,
        moving : BOOLEAN, target : Int, silent : 0 .. WatchdogTicks]

(* DONE means that the plate is where the move was to bring it, and stands *)
(* still there, although the status is read in several transfers while the *)
(* motor turns and its watchdog may fire.                                  *)
DoneIsThere ==
  stepper.state = "DONE" /\ routine \notin {"MOVE", "FAULT", "STOP"} =>
    tic.pos = stepper.target /\ ~tic.moving

(* A keep-alive of the poll never reaches a Tic whose command timeout has  *)
(* passed: it renews a running motor or comes to a fault before. The first *)
(* keep-alive after the start of a move is left out: the code takes its    *)
(* time stamp three transfers after the Tic began to count.                *)
RenewedInTime ==
  [][routine = "KEEPALIVE" /\ tic.error /\ ~tic'.error =>
       ~stepper.renewed]_stepperVars

(* After a fault the motor comes to a stop and stays there, also when no   *)
(* command gets through any more, for nothing keeps the Tic alive, and     *)
(* whatever stops and moves are still asked for.                           *)
FaultStopsMotor == stepper.faulted ~> [](~tic.energized \/ tic.error)
=============================================================================
