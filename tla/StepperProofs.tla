---------------------------- MODULE StepperProofs ----------------------------
(***************************************************************************)
(* Proofs about Stepper: the types; that a move that is done has left the  *)
(* motor standing on its target; and that a keep-alive comes in time.      *)
(*                                                                         *)
(* The first rests on StepperInv: what the status reads bring is true when *)
(* it is used although the motor may turn between two reads, because a     *)
(* motor that stands on its target stays there while a routine only reads  *)
(* (MotionIsTrue, PlanIsTrue, DoneStands). The second rests on KeptInStep: *)
(* how far the time since the last keep-alive in the Tic can be ahead of   *)
(* the time that the stepper counts.                                       *)
(***************************************************************************)
EXTENDS Stepper, TLAPS

(* A transfer is of the first command of the list, and has its effect      *)
(* while the bus runs.                                                     *)
OneTransfer ==
  /\ i2c.phase # "FREE" => todo # <<>>
  /\ i2c.phase = "FREE" => i2c.age = 0
  /\ i2c.delivered => i2c.phase = "RUN"

(* What the routines that leave the motor alone still have to send.        *)
StatusLeft ==
  {StatusScript, <<"GENERAL", "ASK", "MOTION">>, <<"ASK", "MOTION">>,
   <<"MOTION">>, <<>>}
Scripts ==
  /\ routine = "NONE" => todo = <<>>
  /\ routine = "KEEPALIVE" => todo \in {<<"KEEPALIVE">>, <<>>}
  /\ routine \in {"STATUS", "MOVE_CHECK"} => todo \in StatusLeft
  /\ routine = "PLAN" => todo \in {PlanScript, <<"PLAN">>, <<>>}

(* The motor stands on its target; only a command makes it turn again.     *)
Stands == tic.pos = tic.target /\ ~tic.moving

(* What a command of the list has read, or nothing yet.                    *)
ReadOf(c) == good /\ (todo = <<>> \/ (todo = <<c>> /\ i2c.delivered))

(* A motor that was read to stand on its target stands there.              *)
MotionIsTrue ==
  (routine = "STATUS" /\ ReadOf("MOTION")) \/ (routine = "PLAN" /\ good) =>
    (stepper.status.pos = tic.target /\ ~stepper.status.moving => Stands)

PlanIsTrue ==
  routine = "PLAN" /\ ReadOf("PLAN") => stepper.status.target = tic.target

(* A move that is done has left the motor on the target of the move, until *)
(* the next move or a stop.                                                *)
DoneStands ==
  stepper.state = "DONE" /\ routine \notin {"MOVE", "FAULT", "STOP"} =>
    /\ Stands /\ tic.target = stepper.target
    /\ routine \notin {"INIT_STOP", "INIT", "MODE"}

(* The Tic has been without a keep-alive not longer than the stepper       *)
(* believes, but for the rest of the transfer that brought the last one.   *)
InStep ==
  /\ tic.silent <= stepper.quiet + BusTicks - 1
  /\ tic.error => tic.silent = WatchdogTicks

KeptInStep ==
  /\ stepper.renewed => stepper.energized
  /\ routine \in {"INIT", "MODE"} => ~stepper.renewed
  /\ stepper.renewed /\ routine \in {"NONE", "STATUS", "PLAN"} => InStep
  /\ routine = "KEEPALIVE" =>
       /\ stepper.energized
       /\ todo # <<>> /\ i2c.phase \in {"FREE", "WAIT", "RUN"} =>
            stepper.quiet < WatchdogTicks - KeepaliveTicks + i2c.age
       /\ todo # <<>> /\ ~i2c.delivered /\ i2c.phase # "ABORT"
            /\ stepper.renewed => InStep
       /\ i2c.delivered => tic.silent <= i2c.age /\ ~tic.error
       /\ todo = <<>> /\ good => tic.silent <= BusTicks - 1 /\ ~tic.error

StepperInv ==
  /\ StepperTypeOK /\ OneTransfer /\ Scripts /\ MotionIsTrue /\ PlanIsTrue
  /\ DoneStands

-----------------------------------------------------------------------------
(* Numbers, types and lists *)

(* What the assumptions on the constants give.                             *)
LEMMA StepperNumbers ==
  /\ KeepaliveTicks \in Nat /\ KeepaliveTicks > 0 /\ WatchdogTicks \in Nat
  /\ 3 * KeepaliveTicks < WatchdogTicks /\ MoveTicks \in Nat /\ MoveTicks > 0
  /\ BusTicks \in Nat /\ BusTicks > 0 /\ MaxPosition \in Nat /\ Deltas \subseteq Int
BY StepperAssumption

(* The types of the parts, by name.                                        *)
StatusKind ==
  [energized : BOOLEAN, normal : BOOLEAN, error : BOOLEAN, pos : Int,
   moving : BOOLEAN, target : Int]
StepperKind ==
  [state : {"IDLE", "MOVING", "DONE", "FAULT"}, energized : BOOLEAN,
   faulted : BOOLEAN, target : Int, delta : Deltas \cup {0}, status : StatusKind,
   quiet : 0 .. WatchdogTicks, run : 0 .. MoveTicks, renewed : BOOLEAN,
   overdue : BOOLEAN]
Routines ==
  {"NONE", "INIT_STOP", "INIT", "MODE", "STOP", "FAULT", "MOVE_CHECK", "MOVE",
   "KEEPALIVE", "STATUS", "PLAN"}
BusKind ==
  [phase : {"FREE", "WAIT", "RUN", "ABORT"}, age : 0 .. BusTicks,
   delivered : BOOLEAN, quarantined : BOOLEAN]
TicKind ==
  [energized : BOOLEAN, normal : BOOLEAN, error : BOOLEAN, pos : Int,
   moving : BOOLEAN, target : Int, silent : 0 .. WatchdogTicks]

(* The type invariant by its parts, now and in the next state.             *)
LEMMA StepperTypes ==
  StepperTypeOK <=>
    /\ stepper \in StepperKind /\ routine \in Routines /\ todo \in Seq(Commands)
    /\ good \in BOOLEAN /\ i2c \in BusKind /\ tic \in TicKind
BY DEF StepperTypeOK, StepperKind, StatusKind, Routines, BusKind, TicKind

LEMMA StepperTypesNext ==
  StepperTypeOK' <=>
    /\ stepper' \in StepperKind /\ routine' \in Routines /\ todo' \in Seq(Commands)
    /\ good' \in BOOLEAN /\ i2c' \in BusKind /\ tic' \in TicKind
BY DEF StepperTypeOK, StepperKind, StatusKind, Routines, BusKind, TicKind

(* The lists of commands.                                                  *)
LEMMA Lists ==
  /\ StopScript \in Seq(Commands) /\ SetupScript \in Seq(Commands)
  /\ ModeScript \in Seq(Commands) /\ StatusScript \in Seq(Commands)
  /\ PlanScript \in Seq(Commands) /\ MoveScript \in Seq(Commands)
  /\ <<"KEEPALIVE">> \in Seq(Commands) /\ <<>> \in Seq(Commands)
<1>1. StopScript \in Seq(Commands) /\ SetupScript \in Seq(Commands)
  BY DEF StopScript, SetupScript, Commands
<1>2. ModeScript \in Seq(Commands) /\ StatusScript \in Seq(Commands)
  BY DEF ModeScript, StatusScript, Commands
<1>3. PlanScript \in Seq(Commands) /\ MoveScript \in Seq(Commands)
  BY DEF PlanScript, MoveScript, Commands
<1>4. <<"KEEPALIVE">> \in Seq(Commands)
  BY DEF Commands
<1>5. <<>> \in Seq(Commands)
  OBVIOUS
<1>6. QED
  BY <1>1, <1>2, <1>3, <1>4, <1>5

(* What is left of a list after its first command.                         *)
LEMMA RestOfStatus ==
  ASSUME NEW list \in StatusLeft, list # <<>>
  PROVE  /\ Tail(list) \in StatusLeft
         /\ Tail(list) = <<>> => list = <<"MOTION">>
         /\ Head(list) \in {"ASK", "GENERAL", "MOTION"}
         /\ Head(list) = "MOTION" => list = <<"MOTION">>
<1>1. Tail(StatusScript) = <<"GENERAL", "ASK", "MOTION">>
  BY DEF StatusScript
<1>2. Tail(<<"GENERAL", "ASK", "MOTION">>) = <<"ASK", "MOTION">>
  OBVIOUS
<1>3. Tail(<<"ASK", "MOTION">>) = <<"MOTION">>
  OBVIOUS
<1>4. Tail(<<"MOTION">>) = <<>>
  OBVIOUS
<1>5. /\ Head(StatusScript) = "ASK" /\ Head(<<"GENERAL", "ASK", "MOTION">>) = "GENERAL"
      /\ Head(<<"ASK", "MOTION">>) = "ASK" /\ Head(<<"MOTION">>) = "MOTION"
  BY DEF StatusScript
<1>6. /\ Tail(list) \in StatusLeft /\ Head(list) \in {"ASK", "GENERAL", "MOTION"}
  BY <1>1, <1>2, <1>3, <1>4, <1>5 DEF StatusLeft
<1>7. Head(list) = "MOTION" => list = <<"MOTION">>
  BY <1>5 DEF StatusLeft
<1>8. Tail(list) = <<>> => list = <<"MOTION">>
  <2>1. <<"GENERAL", "ASK", "MOTION">> # <<>> /\ <<"ASK", "MOTION">> # <<>>
        /\ <<"MOTION">> # <<>>
    OBVIOUS
  <2>2. QED
    BY <1>1, <1>2, <1>3, <2>1 DEF StatusLeft
<1>9. QED
  BY <1>6, <1>7, <1>8

LEMMA RestOfPlan ==
  /\ PlanScript # <<>> /\ Tail(PlanScript) = <<"PLAN">> /\ Head(PlanScript) = "ASK"
  /\ PlanScript # <<"PLAN">>
  /\ <<"PLAN">> # <<>> /\ Tail(<<"PLAN">>) = <<>> /\ Head(<<"PLAN">>) = "PLAN"
<1>1. Tail(PlanScript) = <<"PLAN">>
  BY DEF PlanScript
<1>2. Tail(<<"PLAN">>) = <<>>
  OBVIOUS
<1>3. Head(PlanScript) = "ASK" /\ Head(<<"PLAN">>) = "PLAN"
  BY DEF PlanScript
<1>4. PlanScript # <<>> /\ <<"PLAN">> # <<>>
  BY DEF PlanScript
<1>5. PlanScript # <<"PLAN">>
  BY <1>3
<1>6. QED
  BY <1>1, <1>2, <1>3, <1>4, <1>5

LEMMA RestOfKeepalive ==
  /\ <<"KEEPALIVE">> # <<>> /\ Tail(<<"KEEPALIVE">>) = <<>>
  /\ Head(<<"KEEPALIVE">>) = "KEEPALIVE"
OBVIOUS

(* The list of a routine gets shorter.                                     *)
LEMMA ListShrinks ==
  ASSUME StepperTypeOK, Scripts, todo # <<>>, routine' = routine,
         todo' = Tail(todo) \/ todo' = <<>>
  PROVE  Scripts' /\ todo' \in Seq(Commands)
<1>1. todo' \in Seq(Commands)
  <2>1. Tail(todo) \in Seq(Commands)
    BY DEF StepperTypeOK
  <2>2. QED
    BY <2>1, Lists
<1>2. Scripts'
  <2>1. CASE routine = "KEEPALIVE"
    BY <2>1, RestOfKeepalive DEF Scripts
  <2>2. CASE routine \in {"STATUS", "MOVE_CHECK"}
    <3>1. todo \in StatusLeft
      BY <2>2 DEF Scripts
    <3>2. Tail(todo) \in StatusLeft /\ <<>> \in StatusLeft
      BY <3>1, RestOfStatus DEF StatusLeft
    <3>3. QED
      BY <2>2, <3>2 DEF Scripts
  <2>3. CASE routine = "PLAN"
    BY <2>3, RestOfPlan DEF Scripts
  <2>4. CASE routine = "NONE"
    BY <2>4 DEF Scripts
  <2>5. QED
    BY <2>1, <2>2, <2>3, <2>4 DEF Scripts
<1>3. QED
  BY <1>1, <1>2

(* What a command does to the Tic, and a read to the status.               *)
LEMMA CommandTyped ==
  ASSUME StepperTypeOK, NEW c \in Commands
  PROVE  AfterCommand(c) \in TicKind
<1>1. tic \in TicKind /\ stepper \in StepperKind
  BY StepperTypes
<1>2. stepper.status.pos \in Int /\ stepper.target \in Int /\ tic.pos \in Int
  BY <1>1 DEF StepperKind, StatusKind, TicKind
<1>3. 0 \in 0 .. WatchdogTicks
  BY StepperNumbers
<1>4. (~tic.error) \in BOOLEAN
  OBVIOUS
<1>5. /\ [tic EXCEPT !.moving = FALSE, !.target = tic.pos] \in TicKind
      /\ [tic EXCEPT !.pos = 0, !.target = 0] \in TicKind
      /\ [tic EXCEPT !.pos = stepper.status.pos] \in TicKind
      /\ [tic EXCEPT !.target = stepper.status.pos] \in TicKind
      /\ [tic EXCEPT !.target = stepper.target] \in TicKind
  <2>1. [tic EXCEPT !.moving = FALSE, !.target = tic.pos] \in TicKind
    BY <1>1, <1>2 DEF TicKind
  <2>2. [tic EXCEPT !.pos = 0, !.target = 0] \in TicKind
    <3>1. \A p \in Int : [tic EXCEPT !.pos = p, !.target = p] \in TicKind
      BY <1>1 DEF TicKind
    <3>2. 0 \in Int
      OBVIOUS
    <3>3. QED
      BY <3>1, <3>2, Zenon
  <2>3. [tic EXCEPT !.pos = stepper.status.pos] \in TicKind
    BY <1>1, <1>2 DEF TicKind
  <2>4. [tic EXCEPT !.target = stepper.status.pos] \in TicKind
    BY <1>1, <1>2 DEF TicKind
  <2>5. [tic EXCEPT !.target = stepper.target] \in TicKind
    BY <1>1, <1>2 DEF TicKind
  <2>6. QED
    BY <2>1, <2>2, <2>3, <2>4, <2>5
<1>6. [tic EXCEPT !.moving = FALSE, !.energized = FALSE, !.silent = 0,
                  !.error = FALSE] \in TicKind
  BY <1>1, <1>3 DEF TicKind
<1>7. [tic EXCEPT !.silent = 0, !.error = FALSE] \in TicKind
  BY <1>1, <1>3 DEF TicKind
<1>8. [tic EXCEPT !.energized = TRUE] \in TicKind
  BY <1>1 DEF TicKind
<1>9. [tic EXCEPT !.normal = ~tic.error] \in TicKind
  BY <1>1, <1>4 DEF TicKind
<1>10. QED
  BY <1>1, <1>5, <1>6, <1>7, <1>8, <1>9 DEF AfterCommand, Commands

(* Questions and keep-alives leave the motor alone.                        *)
LEMMA CommandDoes ==
  ASSUME StepperTypeOK
  PROVE  /\ AfterCommand("ASK") = tic /\ AfterCommand("GENERAL") = tic
         /\ AfterCommand("MOTION") = tic /\ AfterCommand("PLAN") = tic
         /\ AfterCommand("KEEPALIVE") = [tic EXCEPT !.silent = 0, !.error = FALSE]
BY DEF AfterCommand

(* The status after a read has its type.                                   *)
LEMMA ReadTyped ==
  ASSUME StepperTypeOK, NEW c \in Commands
  PROVE  AfterRead(c) \in StatusKind
<1>1. tic \in TicKind /\ stepper.status \in StatusKind
  BY StepperTypes DEF StepperKind
<1>2. [stepper.status EXCEPT !.energized = tic.energized, !.normal = tic.normal,
                             !.error = tic.error] \in StatusKind
  BY <1>1 DEF StatusKind, TicKind
<1>3. [stepper.status EXCEPT !.pos = tic.pos, !.moving = tic.moving] \in StatusKind
  BY <1>1 DEF StatusKind, TicKind
<1>4. [stepper.status EXCEPT !.target = tic.target] \in StatusKind
  BY <1>1 DEF StatusKind, TicKind
<1>5. QED
  BY <1>1, <1>2, <1>3, <1>4 DEF AfterRead

(* What the read of the motion and of the plan brings.                     *)
LEMMA ReadBrings ==
  ASSUME StepperTypeOK
  PROVE  /\ AfterRead("ASK") = stepper.status
         /\ AfterRead("MOTION").pos = tic.pos
         /\ AfterRead("MOTION").moving = tic.moving
         /\ AfterRead("PLAN").target = tic.target
         /\ AfterRead("PLAN").pos = stepper.status.pos
         /\ AfterRead("PLAN").moving = stepper.status.moving
<1>1. stepper.status \in StatusKind
  BY StepperTypes DEF StepperKind
<1>2. AfterRead("MOTION") = [stepper.status EXCEPT !.pos = tic.pos, !.moving = tic.moving]
  BY DEF AfterRead
<1>3. AfterRead("PLAN") = [stepper.status EXCEPT !.target = tic.target]
  BY DEF AfterRead
<1>4. AfterRead("ASK") = stepper.status
  BY DEF AfterRead
<1>5. QED
  BY <1>1, <1>2, <1>3, <1>4 DEF StatusKind

(* The status is forgotten; the outputs are off.                           *)
LEMMA ForgottenTyped ==
  ASSUME NEW s \in StepperKind
  PROVE  /\ Forgotten(s) \in StepperKind
         /\ Forgotten(s).state = s.state /\ Forgotten(s).target = s.target
         /\ Forgotten(s).energized = s.energized /\ Forgotten(s).renewed = s.renewed
         /\ Forgotten(s).quiet = s.quiet
<1>1. NoStatus \in StatusKind
  BY DEF NoStatus, StatusKind
<1>2. QED
  BY <1>1 DEF Forgotten, StepperKind

(* After a stop the outputs are off.                                       *)
LEMMA StoppedTyped ==
  ASSUME StepperTypeOK, NEW ok
  PROVE  /\ StoppedAs(ok) \in StepperKind
         /\ StoppedAs(ok).state \in {"IDLE", "FAULT"}
         /\ StoppedAs(ok).energized = FALSE /\ StoppedAs(ok).renewed = FALSE
<1>1. NoStatus \in StatusKind
  BY DEF NoStatus, StatusKind
<1>2. 0 \in 0 .. WatchdogTicks /\ 0 \in 0 .. MoveTicks
  BY StepperNumbers
<1>3. PICK state \in {"IDLE", "FAULT"} :
        StoppedAs(ok) = [stepper EXCEPT !.energized = FALSE, !.quiet = 0, !.run = 0,
                           !.renewed = FALSE, !.overdue = FALSE, !.status = NoStatus,
                           !.state = state]
  BY DEF StoppedAs
<1>4. stepper \in StepperKind
  BY StepperTypes
<1>5. QED
  BY <1>1, <1>2, <1>3, <1>4 DEF StepperKind

-----------------------------------------------------------------------------
(* Transfers *)

(* A transfer begins, or the quarantined driver fails at once.             *)
LEMMA BeginKeeps ==
  ASSUME StepperInv, BeginTransfer
  PROVE  StepperInv'
<1> StepperTypeOK /\ OneTransfer /\ Scripts
  BY DEF StepperInv
<1>1. /\ todo # <<>> /\ i2c.phase = "FREE" /\ stepper' = stepper
      /\ routine' = routine /\ tic' = tic
  BY DEF BeginTransfer
<1>2. ~i2c.delivered /\ i2c.age = 0
  BY <1>1 DEF OneTransfer
<1>3. CASE CommandFails /\ UNCHANGED i2c
  <2>1. good' = FALSE /\ (todo' = Tail(todo) \/ todo' = <<>>)
    BY <1>3 DEF CommandFails
  <2>2. Scripts' /\ todo' \in Seq(Commands)
    BY <1>1, <2>1, ListShrinks
  <2>3. StepperTypeOK'
    BY <1>1, <1>3, <2>1, <2>2, StepperTypes, StepperTypesNext
  <2>4. OneTransfer' /\ MotionIsTrue' /\ PlanIsTrue'
    BY <1>1, <1>2, <1>3, <2>1
    DEF OneTransfer, MotionIsTrue, PlanIsTrue, ReadOf
  <2>5. DoneStands'
    BY <1>1 DEF StepperInv, DoneStands, Stands
  <2>6. QED
    BY <2>2, <2>3, <2>4, <2>5 DEF StepperInv
<1>4. CASE /\ UNCHANGED <<todo, good>>
           /\ \E phase \in {"RUN", "WAIT"} : i2c' = [i2c EXCEPT !.phase = phase]
  <2>1. /\ i2c' \in BusKind /\ i2c'.phase \in {"RUN", "WAIT"}
        /\ i2c'.delivered = i2c.delivered /\ i2c'.age = i2c.age
    BY <1>4, StepperTypes DEF BusKind
  <2>2. StepperTypeOK'
    BY <1>1, <1>4, <2>1, StepperTypes, StepperTypesNext
  <2>3. OneTransfer' /\ Scripts'
    BY <1>1, <1>2, <1>4, <2>1 DEF OneTransfer, Scripts
  <2>4. MotionIsTrue' /\ PlanIsTrue' /\ DoneStands'
    BY <1>1, <1>4, <2>1
    DEF StepperInv, MotionIsTrue, PlanIsTrue, DoneStands, Stands, ReadOf
  <2>5. QED
    BY <2>2, <2>3, <2>4 DEF StepperInv
<1>5. QED
  BY <1>3, <1>4 DEF BeginTransfer

(* The bus becomes free, or the transfer fails: nothing is delivered.      *)
LEMMA PhaseKeeps ==
  ASSUME StepperInv, BusFreed \/ TransferFails
  PROVE  StepperInv'
<1> StepperTypeOK /\ OneTransfer /\ Scripts
  BY DEF StepperInv
<1>1. /\ stepper' = stepper /\ routine' = routine /\ tic' = tic /\ todo' = todo
      /\ good' = good /\ i2c.phase # "FREE"
      /\ \/ i2c.phase = "WAIT" /\ i2c' = [i2c EXCEPT !.phase = "RUN"]
         \/ i2c' = [i2c EXCEPT !.phase = "ABORT", !.age = 0, !.delivered = FALSE]
  BY DEF BusFreed, TransferFails, FreeBus, StepperTypeOK
<1>2. todo # <<>>
  BY <1>1 DEF OneTransfer
<1>3. i2c' \in BusKind
  <2>1. 0 \in 0 .. BusTicks
    BY StepperNumbers
  <2>2. QED
    BY <1>1, <2>1, StepperTypes DEF BusKind
<1>4. ~i2c'.delivered /\ i2c'.phase # "FREE"
  BY <1>1 DEF OneTransfer, StepperTypeOK
<1>5. StepperTypeOK'
  BY <1>1, <1>3, StepperTypes, StepperTypesNext
<1>6. OneTransfer' /\ Scripts'
  BY <1>1, <1>2, <1>4 DEF OneTransfer, Scripts
<1>7. MotionIsTrue' /\ PlanIsTrue' /\ DoneStands'
  BY <1>1, <1>2, <1>4
  DEF StepperInv, MotionIsTrue, PlanIsTrue, DoneStands, Stands, ReadOf
<1>8. QED
  BY <1>5, <1>6, <1>7 DEF StepperInv

(* The transfer is over: the next command, or none.                        *)
LEMMA TransferDoneKeeps ==
  ASSUME StepperInv, TransferDone
  PROVE  StepperInv'
<1> StepperTypeOK /\ OneTransfer /\ Scripts
  BY DEF StepperInv
<1>1. /\ stepper' = stepper /\ routine' = routine /\ tic' = tic
      /\ todo' = Tail(todo) /\ good' = good /\ i2c.delivered /\ todo # <<>>
      /\ i2c' = [i2c EXCEPT !.phase = "FREE", !.age = 0, !.delivered = FALSE]
  BY DEF TransferDone, FreeBus, OneTransfer
<1>2. i2c' \in BusKind /\ i2c'.phase = "FREE" /\ ~i2c'.delivered /\ i2c'.age = 0
  <2>1. 0 \in 0 .. BusTicks
    BY StepperNumbers
  <2>2. QED
    BY <1>1, <2>1, StepperTypes DEF BusKind
<1>3. Scripts' /\ todo' \in Seq(Commands)
  BY <1>1, ListShrinks
<1>4. StepperTypeOK'
  BY <1>1, <1>2, <1>3, StepperTypes, StepperTypesNext
<1>5. OneTransfer'
  BY <1>2 DEF OneTransfer
<1>6. ASSUME routine = "STATUS", ReadOf("MOTION")' PROVE ReadOf("MOTION")
  <2>1. todo \in StatusLeft /\ Tail(todo) = <<>>
    BY <1>1, <1>2, <1>6 DEF Scripts, ReadOf
  <2>2. todo = <<"MOTION">>
    BY <1>1, <2>1, RestOfStatus
  <2>3. QED
    BY <1>1, <1>6, <2>2 DEF ReadOf
<1>7. ASSUME routine = "PLAN", ReadOf("PLAN")' PROVE ReadOf("PLAN")
  <2>1. todo \in {PlanScript, <<"PLAN">>} /\ Tail(todo) = <<>>
    BY <1>1, <1>2, <1>7 DEF Scripts, ReadOf
  <2>2. todo = <<"PLAN">>
    BY <2>1, RestOfPlan
  <2>3. QED
    BY <1>1, <1>7, <2>2 DEF ReadOf
<1>8. MotionIsTrue' /\ PlanIsTrue' /\ DoneStands'
  BY <1>1, <1>6, <1>7 DEF StepperInv, MotionIsTrue, PlanIsTrue, DoneStands, Stands
<1>9. QED
  BY <1>3, <1>4, <1>5, <1>8 DEF StepperInv

(* A transfer that failed: the rest of the routine is not sent.            *)
LEMMA AbortKeeps ==
  ASSUME StepperInv, AbortDone
  PROVE  StepperInv'
<1> StepperTypeOK /\ OneTransfer /\ Scripts
  BY DEF StepperInv
<1>1. /\ stepper' = stepper /\ routine' = routine /\ tic' = tic
      /\ i2c.phase = "ABORT" /\ good' = FALSE
      /\ todo' = Tail(todo) \/ todo' = <<>>
      /\ \/ i2c' = [i2c EXCEPT !.phase = "FREE", !.age = 0, !.delivered = FALSE]
         \/ i2c' = [i2c EXCEPT !.phase = "FREE", !.age = 0, !.delivered = FALSE,
                               !.quarantined = TRUE]
  BY DEF AbortDone, FreeBus, CommandFails, StepperTypeOK
<1>2. todo # <<>>
  BY <1>1 DEF OneTransfer
<1>3. i2c' \in BusKind /\ i2c'.phase = "FREE" /\ ~i2c'.delivered /\ i2c'.age = 0
  <2>1. 0 \in 0 .. BusTicks
    BY StepperNumbers
  <2>2. QED
    BY <1>1, <2>1, StepperTypes DEF BusKind
<1>4. Scripts' /\ todo' \in Seq(Commands)
  BY <1>1, <1>2, ListShrinks
<1>5. StepperTypeOK'
  BY <1>1, <1>3, <1>4, StepperTypes, StepperTypesNext
<1>6. OneTransfer' /\ MotionIsTrue' /\ PlanIsTrue'
  BY <1>1, <1>3 DEF OneTransfer, MotionIsTrue, PlanIsTrue, ReadOf
<1>7. DoneStands'
  BY <1>1 DEF StepperInv, DoneStands, Stands
<1>8. QED
  BY <1>4, <1>5, <1>6, <1>7 DEF StepperInv

(* A command reaches the Tic.                                              *)
LEMMA DeliverKeeps ==
  ASSUME StepperInv, Deliver
  PROVE  StepperInv'
<1> StepperTypeOK /\ OneTransfer /\ Scripts
  BY DEF StepperInv
<1>1. /\ i2c.phase = "RUN" /\ ~i2c.delivered
      /\ i2c' = [i2c EXCEPT !.delivered = TRUE]
      /\ tic' = AfterCommand(Head(todo))
      /\ stepper' = [stepper EXCEPT !.status = AfterRead(Head(todo))]
      /\ routine' = routine /\ todo' = todo /\ good' = good
  BY DEF Deliver
<1>2. todo # <<>> /\ Head(todo) \in Commands
  BY <1>1 DEF OneTransfer, StepperTypeOK
<1>3. tic' \in TicKind /\ AfterRead(Head(todo)) \in StatusKind
  BY <1>1, <1>2, CommandTyped, ReadTyped
<1>4. /\ stepper' \in StepperKind /\ stepper'.status = AfterRead(Head(todo))
      /\ stepper'.state = stepper.state /\ stepper'.target = stepper.target
  BY <1>1, <1>3, StepperTypes DEF StepperKind
<1>5. i2c' \in BusKind /\ i2c'.phase = "RUN" /\ i2c'.age = i2c.age
  BY <1>1, StepperTypes DEF BusKind
<1>6. StepperTypeOK'
  BY <1>1, <1>3, <1>4, <1>5, StepperTypes, StepperTypesNext
<1>7. OneTransfer' /\ Scripts'
  BY <1>1, <1>2, <1>5 DEF OneTransfer, Scripts
<1>8. tic \in TicKind
  BY StepperTypes
<1>9. MotionIsTrue'
  <2>1. CASE routine = "STATUS"
    <3>1. todo \in StatusLeft
      BY <2>1 DEF Scripts
    <3>2. Head(todo) \in {"ASK", "GENERAL", "MOTION"}
          /\ (todo = <<"MOTION">> => Head(todo) = "MOTION")
      BY <1>2, <3>1, RestOfStatus
    <3>3. tic' = tic
      BY <1>1, <3>2, CommandDoes
    <3>4. ReadOf("MOTION")' => Head(todo) = "MOTION"
      BY <1>1, <1>2, <3>2 DEF ReadOf
    <3>5. Head(todo) = "MOTION" =>
            stepper'.status.pos = tic.pos /\ stepper'.status.moving = tic.moving
      BY <1>4, ReadBrings
    <3>6. QED
      BY <1>1, <2>1, <3>3, <3>4, <3>5 DEF MotionIsTrue, Stands
  <2>2. CASE routine = "PLAN"
    <3>1. Head(todo) \in {"ASK", "PLAN"}
      BY <1>2, <2>2, RestOfPlan DEF Scripts
    <3>2. tic' = tic
      BY <1>1, <3>1, CommandDoes
    <3>3. /\ stepper'.status.pos = stepper.status.pos
          /\ stepper'.status.moving = stepper.status.moving
      BY <1>4, <3>1, ReadBrings
    <3>4. QED
      BY <1>1, <2>2, <3>2, <3>3 DEF StepperInv, MotionIsTrue, Stands
  <2>3. QED
    BY <1>1, <2>1, <2>2 DEF MotionIsTrue
<1>10. PlanIsTrue'
  <2> SUFFICES ASSUME routine = "PLAN", ReadOf("PLAN")'
               PROVE  stepper'.status.target = tic'.target
    BY <1>1 DEF PlanIsTrue
  <2>1. todo = <<"PLAN">>
    BY <1>1, <1>2 DEF ReadOf
  <2>2. Head(todo) = "PLAN"
    BY <2>1, RestOfPlan
  <2>3. tic' = tic
    BY <1>1, <2>2, CommandDoes
  <2>4. QED
    BY <1>4, <2>2, <2>3, ReadBrings
<1>11. DoneStands'
  <2> SUFFICES ASSUME stepper.state = "DONE", routine \notin {"MOVE", "FAULT", "STOP"}
               PROVE  /\ Stands' /\ tic'.target = stepper.target
                      /\ routine \notin {"INIT_STOP", "INIT", "MODE"}
    BY <1>1, <1>4 DEF DoneStands
  <2>1. /\ Stands /\ tic.target = stepper.target
        /\ routine \notin {"INIT_STOP", "INIT", "MODE"}
    BY DEF StepperInv, DoneStands
  <2>2. routine \in {"KEEPALIVE", "STATUS", "MOVE_CHECK", "PLAN"}
    BY <1>2, <2>1 DEF Scripts, StepperTypeOK
  <2>3. Head(todo) \in {"ASK", "GENERAL", "MOTION", "PLAN", "KEEPALIVE"}
    BY <1>2, <2>2, RestOfStatus, RestOfPlan, RestOfKeepalive DEF Scripts
  <2>4. /\ tic'.pos = tic.pos /\ tic'.moving = tic.moving /\ tic'.target = tic.target
    <3>1. tic' = tic \/ tic' = [tic EXCEPT !.silent = 0, !.error = FALSE]
      BY <1>1, <2>3, CommandDoes
    <3>2. QED
      BY <1>8, <3>1 DEF TicKind
  <2>5. QED
    BY <2>1, <2>4 DEF Stands
<1>12. QED
  BY <1>6, <1>7, <1>9, <1>10, <1>11 DEF StepperInv

-----------------------------------------------------------------------------
(* Routines *)

(* One routine is entered when another has ended: no transfer is under     *)
(* way, and the Tic goes on by itself.                                     *)
LEMMA EnterKeeps ==
  ASSUME StepperInv, todo = <<>>, UNCHANGED <<i2c, tic>>,
         NEW r \in Routines, NEW script \in Seq(Commands), Enter(r, script),
         r = "NONE" => script = <<>>,
         r = "KEEPALIVE" => script = <<"KEEPALIVE">>,
         r \in {"STATUS", "MOVE_CHECK"} => script = StatusScript,
         r = "PLAN" =>
           /\ script = PlanScript
           /\ stepper'.status.pos = tic.target /\ ~stepper'.status.moving => Stands,
         stepper' \in StepperKind,
         stepper'.state = "DONE" /\ r \notin {"MOVE", "FAULT", "STOP"} =>
           /\ Stands /\ tic.target = stepper'.target
           /\ r \notin {"INIT_STOP", "INIT", "MODE"}
  PROVE  StepperInv'
<1> StepperTypeOK /\ OneTransfer
  BY DEF StepperInv
<1>1. /\ routine' = r /\ todo' = script /\ good' = TRUE /\ i2c' = i2c /\ tic' = tic
  BY DEF Enter
<1>2. i2c.phase = "FREE" /\ i2c.age = 0 /\ ~i2c.delivered
  BY DEF OneTransfer
<1>3. StepperTypeOK'
  BY <1>1, StepperTypes, StepperTypesNext
<1>4. OneTransfer'
  BY <1>1, <1>2 DEF OneTransfer
<1>5. Scripts'
  BY <1>1 DEF Scripts, StatusLeft
<1>6. StatusScript # <<>> /\ StatusScript # <<"MOTION">>
  BY DEF StatusScript
<1>7. MotionIsTrue'
  BY <1>1, <1>2, <1>6 DEF MotionIsTrue, ReadOf, Stands
<1>8. PlanIsTrue'
  BY <1>1, <1>2, RestOfPlan DEF PlanIsTrue, ReadOf
<1>9. DoneStands'
  BY <1>1 DEF DoneStands, Stands
<1>10. QED
  BY <1>3, <1>4, <1>5, <1>7, <1>8, <1>9 DEF StepperInv

(* A fault begins a stop.                                                  *)
LEMMA FaultKeeps ==
  ASSUME StepperInv, todo = <<>>, UNCHANGED <<i2c, tic>>, NEW s \in StepperKind,
         Fault(s)
  PROVE  StepperInv'
<1>1. stepper' = [Forgotten(s) EXCEPT !.faulted = TRUE] /\ Enter("FAULT", StopScript)
  BY DEF Fault
<1>2. stepper' \in StepperKind
  <2>1. Forgotten(s) \in StepperKind
    BY ForgottenTyped
  <2>2. QED
    BY <1>1, <2>1 DEF StepperKind
<1>3. "FAULT" \in Routines /\ StopScript \in Seq(Commands)
  BY Lists DEF Routines
<1>4. QED
  BY <1>1, <1>2, <1>3, EnterKeeps

(* A routine ends in one that does not look at what has been read.         *)
LEMMA LeaveKeeps ==
  ASSUME StepperInv, todo = <<>>, UNCHANGED <<i2c, tic>>, Leave,
         stepper' \in StepperKind,
         stepper'.state = "DONE" => Stands /\ tic.target = stepper'.target
  PROVE  StepperInv'
<1>1. Enter("NONE", <<>>)
  BY DEF Leave
<1>2. "NONE" \in Routines /\ <<>> \in Seq(Commands)
  BY Lists DEF Routines
<1>3. QED
  BY <1>1, <1>2, EnterKeeps

(* The ends of a stop, of the initialization, of the mode.                 *)
LEMMA StopsKeep ==
  ASSUME StepperInv, Stopped \/ InitStopped, UNCHANGED <<i2c, tic>>
  PROVE  StepperInv'
<1> StepperTypeOK
  BY DEF StepperInv
<1>1. todo = <<>>
  BY DEF Stopped, InitStopped, Reached
<1>2. CASE Stopped
  <2>1. stepper' \in StepperKind /\ stepper'.state \in {"IDLE", "FAULT"} /\ Leave
    BY <1>2, StoppedTyped DEF Stopped
  <2>2. QED
    BY <1>1, <2>1, LeaveKeeps
<1>3. CASE stepper' = StoppedAs(TRUE) /\ Enter("INIT", SetupScript)
  <2>1. stepper' \in StepperKind /\ stepper'.state \in {"IDLE", "FAULT"}
    BY <1>3, StoppedTyped
  <2>2. "INIT" \in Routines /\ SetupScript \in Seq(Commands)
    BY Lists DEF Routines
  <2>3. QED
    BY <1>1, <1>3, <2>1, <2>2, EnterKeeps
<1>4. CASE Fault(StoppedAs(FALSE))
  BY <1>1, <1>4, StoppedTyped, FaultKeeps
<1>5. QED
  BY <1>2, <1>3, <1>4 DEF InitStopped

(* The ends of the setup and of the mode.                                  *)
LEMMA SetupKeeps ==
  ASSUME StepperInv, InitDone \/ ModeDone, UNCHANGED <<i2c, tic>>
  PROVE  StepperInv'
<1> StepperTypeOK
  BY DEF StepperInv
<1>1. todo = <<>> /\ routine \in {"INIT", "MODE"} /\ stepper \in StepperKind
  BY StepperTypes DEF InitDone, ModeDone, Reached
<1>2. stepper.state # "DONE"
  BY <1>1 DEF StepperInv, DoneStands
<1>3. CASE stepper' = stepper /\ Enter("MODE", ModeScript)
  <2>1. "MODE" \in Routines /\ ModeScript \in Seq(Commands)
    BY Lists DEF Routines
  <2>2. QED
    BY <1>1, <1>2, <1>3, <2>1, EnterKeeps
<1>4. CASE stepper' = Forgotten(stepper) /\ Leave
  BY <1>1, <1>2, <1>4, ForgottenTyped, LeaveKeeps
<1>5. CASE Fault(stepper)
  BY <1>1, <1>5, FaultKeeps
<1>6. QED
  BY <1>3, <1>4, <1>5 DEF InitDone, ModeDone

(* sonar_stepper_move.                                                     *)
LEMMA MoveKeeps ==
  ASSUME StepperInv, MoveChecked \/ MoveBegun, UNCHANGED <<i2c, tic>>
  PROVE  StepperInv'
<1> StepperTypeOK
  BY DEF StepperInv
<1>1. todo = <<>> /\ stepper \in StepperKind
  BY StepperTypes DEF MoveChecked, MoveBegun, Reached
<1>2. CASE Fault(stepper)
  BY <1>1, <1>2, FaultKeeps
<1> DEFINE target == stepper.status.pos + stepper.delta
<1>3. CASE /\ stepper' = [stepper EXCEPT !.target = target, !.delta = 0]
           /\ Enter("MOVE", MoveScript)
  <2>1. target \in Int /\ 0 \in Deltas \cup {0}
    <3>1. stepper.status.pos \in Int
      BY <1>1 DEF StepperKind, StatusKind
    <3>2. stepper.delta \in Int
      <4>1. stepper.delta \in Deltas \cup {0}
        BY <1>1 DEF StepperKind
      <4>2. Deltas \subseteq Int /\ 0 \in Int
        BY StepperNumbers
      <4>3. QED
        BY <4>1, <4>2
    <3>3. QED
      BY <3>1, <3>2
  <2> HIDE DEF target
  <2>2. stepper' \in StepperKind
    BY <1>1, <1>3, <2>1 DEF StepperKind
  <2>3. "MOVE" \in Routines /\ MoveScript \in Seq(Commands)
    BY Lists DEF Routines
  <2>4. QED
    BY <1>1, <1>3, <2>2, <2>3, EnterKeeps
<1>4. CASE /\ Leave
           /\ stepper' = [Forgotten(stepper) EXCEPT !.energized = TRUE,
                            !.state = "MOVING", !.quiet = 0, !.run = 0,
                            !.renewed = FALSE]
  <2>1. 0 \in 0 .. WatchdogTicks /\ 0 \in 0 .. MoveTicks
    BY StepperNumbers
  <2>2. Forgotten(stepper) \in StepperKind
    BY <1>1, ForgottenTyped
  <2>3. stepper' \in StepperKind /\ stepper'.state = "MOVING"
    BY <1>4, <2>1, <2>2 DEF StepperKind
  <2>4. QED
    BY <1>1, <1>4, <2>3, LeaveKeeps
<1>5. QED
  BY <1>2, <1>3, <1>4 DEF MoveChecked, MoveBegun

(* sonar_stepper_poll, up to its first transfer.                           *)
LEMMA PollKeeps ==
  ASSUME StepperInv, Poll, UNCHANGED <<i2c, tic>>
  PROVE  StepperInv'
<1> StepperTypeOK
  BY DEF StepperInv
<1>1. routine = "NONE" /\ todo = <<>> /\ stepper \in StepperKind
  BY StepperTypes DEF Poll, StepperInv, Scripts
<1>2. stepper.state = "DONE" => Stands /\ tic.target = stepper.target
  BY <1>1 DEF StepperInv, DoneStands
<1>3. CASE Fault(stepper)
  BY <1>1, <1>3, FaultKeeps
<1> DEFINE s == [stepper EXCEPT !.overdue = MoveOverdue]
<1>4. s \in StepperKind /\ s.state = stepper.state /\ s.target = stepper.target
  <2>1. MoveOverdue \in BOOLEAN
    BY DEF MoveOverdue
  <2>2. QED
    BY <1>1, <2>1 DEF StepperKind
<1>5. CASE stepper' = s /\ Enter("KEEPALIVE", <<"KEEPALIVE">>)
  <2>1. "KEEPALIVE" \in Routines /\ <<"KEEPALIVE">> \in Seq(Commands)
    BY Lists DEF Routines
  <2> HIDE DEF s
  <2>2. QED
    BY <1>1, <1>2, <1>4, <1>5, <2>1, EnterKeeps
<1>6. CASE stepper' = s /\ Enter("STATUS", StatusScript)
  <2>1. "STATUS" \in Routines /\ StatusScript \in Seq(Commands)
    BY Lists DEF Routines
  <2> HIDE DEF s
  <2>2. QED
    BY <1>1, <1>2, <1>4, <1>6, <2>1, EnterKeeps
<1>7. QED
  BY <1>3, <1>5, <1>6 DEF Poll

(* The keep-alive of the poll has been sent.                               *)
LEMMA KeptAliveKeeps ==
  ASSUME StepperInv, KeptAlive, UNCHANGED <<i2c, tic>>
  PROVE  StepperInv'
<1> StepperTypeOK
  BY DEF StepperInv
<1>1. routine = "KEEPALIVE" /\ todo = <<>> /\ stepper \in StepperKind
  BY StepperTypes DEF KeptAlive, Reached
<1>2. stepper.state = "DONE" => Stands /\ tic.target = stepper.target
  BY <1>1 DEF StepperInv, DoneStands
<1>3. CASE Fault(stepper)
  BY <1>1, <1>3, FaultKeeps
<1> DEFINE s == [stepper EXCEPT !.quiet = 0, !.renewed = TRUE]
<1>4. s \in StepperKind /\ s.state = stepper.state /\ s.target = stepper.target
  <2>1. 0 \in 0 .. WatchdogTicks
    BY StepperNumbers
  <2>2. QED
    BY <1>1, <2>1 DEF StepperKind
<1> HIDE DEF s
<1>5. CASE Fault(s)
  BY <1>1, <1>4, <1>5, FaultKeeps
<1>6. CASE stepper' = s /\ Enter("STATUS", StatusScript)
  <2>1. "STATUS" \in Routines /\ StatusScript \in Seq(Commands)
    BY Lists DEF Routines
  <2>2. QED
    BY <1>1, <1>2, <1>4, <1>6, <2>1, EnterKeeps
<1>7. QED
  BY <1>3, <1>5, <1>6 DEF KeptAlive, s

(* The status has been read: the plan comes next while the motor moves.    *)
LEMMA StatusReadKeeps ==
  ASSUME StepperInv, StatusRead, UNCHANGED <<i2c, tic>>
  PROVE  StepperInv'
<1> StepperTypeOK
  BY DEF StepperInv
<1>1. routine = "STATUS" /\ todo = <<>> /\ stepper \in StepperKind
  BY StepperTypes DEF StatusRead, Reached
<1>2. stepper.state = "DONE" => Stands /\ tic.target = stepper.target
  BY <1>1 DEF StepperInv, DoneStands
<1>3. CASE Fault(stepper)
  BY <1>1, <1>3, FaultKeeps
<1>4. CASE /\ StatusFine /\ stepper.state = "MOVING" /\ UNCHANGED stepper
           /\ Enter("PLAN", PlanScript)
  <2>1. "PLAN" \in Routines /\ PlanScript \in Seq(Commands)
    BY Lists DEF Routines
  <2>2. ReadOf("MOTION")
    BY <1>1, <1>4 DEF StatusFine, ReadOf
  <2>3. stepper.status.pos = tic.target /\ ~stepper.status.moving => Stands
    BY <1>1, <2>2 DEF StepperInv, MotionIsTrue
  <2>4. QED
    BY <1>1, <1>4, <2>1, <2>3, EnterKeeps
<1>5. CASE stepper' = Forgotten(stepper) /\ Leave
  BY <1>1, <1>2, <1>5, ForgottenTyped, LeaveKeeps
<1>6. QED
  BY <1>3, <1>4, <1>5 DEF StatusRead

(* The plan has been read: the move is done when the position that was     *)
(* read before is the target that was read now, and both are the move's.   *)
LEMMA PlanReadKeeps ==
  ASSUME StepperInv, PlanRead, UNCHANGED <<i2c, tic>>
  PROVE  StepperInv'
<1> StepperTypeOK
  BY DEF StepperInv
<1>1. routine = "PLAN" /\ todo = <<>> /\ stepper \in StepperKind
  BY StepperTypes DEF PlanRead, Reached
<1>2. stepper.state = "DONE" => Stands /\ tic.target = stepper.target
  BY <1>1 DEF StepperInv, DoneStands
<1>3. CASE Fault(stepper)
  BY <1>1, <1>3, FaultKeeps
<1>4. CASE /\ good /\ stepper.status.target = stepper.target /\ Leave
           /\ stepper' = [Forgotten(stepper) EXCEPT
                            !.state = IF Arrived THEN "DONE" ELSE @]
  <2>1. stepper.status.target = tic.target
    BY <1>1, <1>4 DEF StepperInv, PlanIsTrue, ReadOf
  <2>2. Arrived => Stands
    BY <1>1, <1>4, <2>1 DEF StepperInv, MotionIsTrue, Arrived
  <2>3. Forgotten(stepper) \in StepperKind /\ Forgotten(stepper).state = stepper.state
        /\ Forgotten(stepper).target = stepper.target
    BY <1>1, ForgottenTyped
  <2>4. PICK state \in {"IDLE", "MOVING", "DONE", "FAULT"} :
          /\ stepper' = [Forgotten(stepper) EXCEPT !.state = state]
          /\ Arrived \/ state = stepper.state
    BY <1>1, <1>4, <2>3 DEF StepperKind
  <2>5. /\ stepper' \in StepperKind /\ stepper'.state = state
        /\ stepper'.target = stepper.target
    BY <2>3, <2>4 DEF StepperKind
  <2>6. state = "DONE" => Stands /\ tic.target = stepper.target
    BY <1>2, <1>4, <2>1, <2>2, <2>4
  <2>7. QED
    BY <1>1, <1>4, <2>5, <2>6, LeaveKeeps
<1>5. QED
  BY <1>3, <1>4 DEF PlanRead

(* The callers, between two routines.                                      *)
LEMMA CallsKeep ==
  ASSUME StepperInv, StepperStop \/ StepperMove \/ StepperMode,
         UNCHANGED <<i2c, tic>>
  PROVE  StepperInv'
<1> StepperTypeOK
  BY DEF StepperInv
<1>1. routine = "NONE" /\ todo = <<>> /\ stepper \in StepperKind
  BY StepperTypes DEF StepperStop, StepperMove, StepperMode, StepperInv, Scripts
<1>2. stepper.state = "DONE" => Stands /\ tic.target = stepper.target
  BY <1>1 DEF StepperInv, DoneStands
<1>3. /\ {"STOP", "MOVE_CHECK", "MODE"} \subseteq Routines
      /\ StopScript \in Seq(Commands) /\ StatusScript \in Seq(Commands)
      /\ ModeScript \in Seq(Commands)
  BY Lists DEF Routines
<1>4. CASE StepperStop
  BY <1>1, <1>3, <1>4, EnterKeeps DEF StepperStop
<1>5. CASE StepperMove
  <2>1. PICK d \in Deltas : stepper' = [stepper EXCEPT !.delta = d]
    BY <1>5 DEF StepperMove
  <2>2. stepper' \in StepperKind /\ stepper'.state = stepper.state
        /\ stepper'.target = stepper.target
    BY <1>1, <2>1 DEF StepperKind
  <2>3. Enter("MOVE_CHECK", StatusScript)
    BY <1>5 DEF StepperMove
  <2>4. QED
    BY <1>1, <1>2, <1>3, <2>2, <2>3, EnterKeeps
<1>6. CASE StepperMode
  <2>1. Enter("MODE", ModeScript) /\ stepper' = stepper /\ stepper.state = "IDLE"
    BY <1>6 DEF StepperMode
  <2>2. QED
    BY <1>1, <1>3, <2>1, EnterKeeps
<1>7. QED
  BY <1>4, <1>5, <1>6

-----------------------------------------------------------------------------
(* The Tic and the clock *)

(* A motor that stands on its target is not turned.                        *)
LEMMA MotorKeeps ==
  ASSUME StepperInv, Motor
  PROVE  StepperInv'
<1> StepperTypeOK
  BY DEF StepperInv
<1>1. /\ stepper' = stepper /\ routine' = routine /\ todo' = todo /\ good' = good
      /\ i2c' = i2c
  BY DEF Motor
<1>2. tic.pos \in Int /\ tic.target \in Int /\ tic \in TicKind
  BY StepperTypes DEF TicKind
<1>3. PICK pos \in Int, moving \in BOOLEAN :
        tic' = [tic EXCEPT !.pos = pos, !.moving = moving]
  <2>1. CASE TicAccelerates
    <3>1. tic' = [tic EXCEPT !.pos = tic.pos, !.moving = TRUE]
      BY <1>2, <2>1 DEF TicAccelerates, TicKind
    <3>2. QED
      BY <1>2, <3>1
  <2>2. CASE TicTurns
    <3>1. PICK pos \in Int : tic' = [tic EXCEPT !.pos = pos]
      <4>1. tic.pos + 1 \in Int /\ tic.pos - 1 \in Int
        BY <1>2
      <4>2. \/ tic' = [tic EXCEPT !.pos = tic.pos + 1]
            \/ tic' = [tic EXCEPT !.pos = tic.pos - 1]
        BY <2>2 DEF TicTurns
      <4>3. QED
        BY <4>1, <4>2
    <3>2. tic' = [tic EXCEPT !.pos = pos, !.moving = TRUE]
      BY <1>2, <2>2, <3>1 DEF TicTurns, TicKind
    <3>3. QED
      BY <3>2
  <2>3. CASE TicArrives
    <3>1. tic' = [tic EXCEPT !.pos = tic.pos, !.moving = FALSE]
      BY <1>2, <2>3 DEF TicArrives, TicKind
    <3>2. QED
      BY <1>2, <3>1
  <2>4. QED
    BY <2>1, <2>2, <2>3 DEF Motor
<1>4. tic' \in TicKind /\ tic'.target = tic.target
  BY <1>2, <1>3 DEF TicKind
<1>5. ~Stands
  BY DEF Motor, TicAccelerates, TicTurns, TicArrives, Turns, Stands
<1>6. StepperTypeOK'
  BY <1>1, <1>4, StepperTypes, StepperTypesNext
<1>7. OneTransfer' /\ Scripts' /\ PlanIsTrue'
  BY <1>1, <1>4 DEF StepperInv, OneTransfer, Scripts, PlanIsTrue, ReadOf
<1>8. MotionIsTrue' /\ DoneStands'
  BY <1>1, <1>4, <1>5 DEF StepperInv, MotionIsTrue, DoneStands, ReadOf
<1>9. QED
  BY <1>6, <1>7, <1>8 DEF StepperInv

(* What a tick changes.                                                    *)
LEMMA TickDoes ==
  ASSUME StepperTypeOK, StepperTick
  PROVE  /\ routine' = routine /\ todo' = todo /\ good' = good
         /\ stepper' \in StepperKind /\ tic' \in TicKind /\ i2c' \in BusKind
         /\ i2c'.phase = i2c.phase /\ i2c'.delivered = i2c.delivered
         /\ i2c'.age = IF i2c.phase = "FREE" THEN i2c.age ELSE i2c.age + 1
         /\ tic'.pos = tic.pos /\ tic'.target = tic.target
         /\ tic.moving \/ ~tic'.moving
         /\ stepper'.state = stepper.state /\ stepper'.target = stepper.target
         /\ stepper'.status = stepper.status
         /\ stepper'.energized = stepper.energized
         /\ stepper'.renewed = stepper.renewed
         /\ stepper'.quiet = IF ~stepper.energized THEN stepper.quiet
                             ELSE UpTo(stepper.quiet, WatchdogTicks)
<1>1. stepper \in StepperKind /\ i2c \in BusKind /\ tic \in TicKind
  BY StepperTypes
<1>2. /\ stepper.quiet \in 0 .. WatchdogTicks /\ stepper.run \in 0 .. MoveTicks
      /\ tic.silent \in 0 .. WatchdogTicks /\ i2c.age \in 0 .. BusTicks
  BY <1>1 DEF StepperKind, TicKind, BusKind
<1>3. /\ UpTo(stepper.quiet, WatchdogTicks) \in 0 .. WatchdogTicks
      /\ UpTo(stepper.run, MoveTicks) \in 0 .. MoveTicks
  BY <1>2, StepperNumbers DEF UpTo
<1>4. /\ routine' = routine /\ todo' = todo /\ good' = good /\ tic' = Silenced
      /\ i2c.phase # "FREE" => i2c.age < BusTicks
      /\ i2c' = IF i2c.phase = "FREE" THEN i2c ELSE [i2c EXCEPT !.age = i2c.age + 1]
      /\ stepper' = IF ~stepper.energized THEN stepper
                    ELSE [stepper EXCEPT !.quiet = UpTo(stepper.quiet, WatchdogTicks),
                                         !.run = UpTo(stepper.run, MoveTicks)]
  BY DEF StepperTick
<1>5. /\ i2c' \in BusKind
      /\ i2c'.phase = i2c.phase /\ i2c'.delivered = i2c.delivered
      /\ i2c'.age = IF i2c.phase = "FREE" THEN i2c.age ELSE i2c.age + 1
  <2>1. CASE i2c.phase = "FREE"
    BY <1>1, <1>4, <2>1
  <2>2. CASE i2c.phase # "FREE"
    <3>1. i2c.age + 1 \in 0 .. BusTicks
      BY <1>2, <1>4, <2>2, StepperNumbers
    <3>2. QED
      BY <1>1, <1>4, <2>2, <3>1 DEF BusKind
  <2>3. QED
    BY <2>1, <2>2
<1>6. /\ stepper' \in StepperKind
      /\ stepper'.state = stepper.state /\ stepper'.target = stepper.target
      /\ stepper'.status = stepper.status /\ stepper'.energized = stepper.energized
      /\ stepper'.renewed = stepper.renewed
      /\ stepper'.quiet = IF ~stepper.energized THEN stepper.quiet
                          ELSE UpTo(stepper.quiet, WatchdogTicks)
  <2>1. CASE ~stepper.energized
    BY <1>1, <1>4, <2>1
  <2>2. CASE stepper.energized
    BY <1>1, <1>3, <1>4, <2>2 DEF StepperKind
  <2>3. QED
    BY <2>1, <2>2
<1>7. /\ tic' \in TicKind /\ tic'.pos = tic.pos /\ tic'.target = tic.target
      /\ tic.moving \/ ~tic'.moving
  <2>1. CASE tic' = tic
    BY <1>1, <2>1
  <2>2. CASE tic' = [tic EXCEPT !.silent = WatchdogTicks, !.error = TRUE,
                                !.normal = FALSE, !.moving = FALSE]
    <3>1. WatchdogTicks \in 0 .. WatchdogTicks
      BY StepperNumbers
    <3>2. QED
      BY <1>1, <2>2, <3>1 DEF TicKind
  <2>3. CASE tic.silent + 1 < WatchdogTicks /\ tic' = [tic EXCEPT !.silent = tic.silent + 1]
    <3>1. tic.silent + 1 \in 0 .. WatchdogTicks
      BY <1>2, <2>3, StepperNumbers
    <3>2. QED
      BY <1>1, <2>3, <3>1 DEF TicKind
  <2>4. QED
    BY <1>2, <1>4, <2>1, <2>2, <2>3, StepperNumbers DEF Silenced
<1>8. QED
  BY <1>4, <1>5, <1>6, <1>7

(* A tick never makes a motor turn.                                        *)
LEMMA TickKeeps ==
  ASSUME StepperInv, StepperTick
  PROVE  StepperInv'
<1> StepperTypeOK
  BY DEF StepperInv
<1>1. /\ routine' = routine /\ todo' = todo /\ good' = good
      /\ stepper' \in StepperKind /\ tic' \in TicKind /\ i2c' \in BusKind
      /\ i2c'.phase = i2c.phase /\ i2c'.delivered = i2c.delivered
      /\ i2c'.age = IF i2c.phase = "FREE" THEN i2c.age ELSE i2c.age + 1
      /\ tic'.pos = tic.pos /\ tic'.target = tic.target
      /\ tic.moving \/ ~tic'.moving
      /\ stepper'.state = stepper.state /\ stepper'.target = stepper.target
      /\ stepper'.status = stepper.status
  BY TickDoes
<1>2. StepperTypeOK'
  BY <1>1, StepperTypes, StepperTypesNext
<1>3. OneTransfer' /\ Scripts' /\ PlanIsTrue'
  BY <1>1 DEF StepperInv, OneTransfer, Scripts, PlanIsTrue, ReadOf
<1>4. Stands => Stands'
  BY <1>1 DEF Stands
<1>5. MotionIsTrue' /\ DoneStands'
  BY <1>1, <1>4 DEF StepperInv, MotionIsTrue, DoneStands, ReadOf
<1>6. QED
  BY <1>2, <1>3, <1>5 DEF StepperInv

-----------------------------------------------------------------------------
(* Theorems *)

(* Initially the stop of the initialization is to be sent.                 *)
LEMMA StepperStarts == StepperInit => StepperInv
<1> SUFFICES ASSUME StepperInit PROVE StepperInv
  OBVIOUS
<1>1. stepper \in StepperKind
  <2>1. 0 \in 0 .. WatchdogTicks /\ 0 \in 0 .. MoveTicks /\ 0 \in Int
        /\ 0 \in Deltas \cup {0}
    BY StepperNumbers
  <2>2. NoStatus \in StatusKind
    BY DEF NoStatus, StatusKind
  <2>3. QED
    BY <2>1, <2>2 DEF StepperInit, StepperKind
<1>2. i2c \in BusKind /\ tic \in TicKind
  <2>1. 0 \in 0 .. BusTicks /\ 0 \in 0 .. WatchdogTicks
    BY StepperNumbers
  <2>2. QED
    BY <2>1 DEF StepperInit, BusKind, TicKind
<1>3. routine \in Routines /\ todo \in Seq(Commands) /\ good \in BOOLEAN
  BY Lists DEF StepperInit, Routines
<1>4. StepperTypeOK
  BY <1>1, <1>2, <1>3, StepperTypes
<1>5. OneTransfer /\ Scripts /\ MotionIsTrue /\ PlanIsTrue /\ DoneStands
  BY DEF StepperInit, OneTransfer, Scripts, MotionIsTrue, PlanIsTrue, DoneStands
<1>6. QED
  BY <1>4, <1>5 DEF StepperInv

(* Every step keeps the invariant.                                         *)
LEMMA StepperInvInductive ==
  StepperInv /\ [StepperNext]_stepperVars => StepperInv'
<1> SUFFICES ASSUME StepperInv, [StepperNext]_stepperVars PROVE StepperInv'
  OBVIOUS
<1>1. CASE UNCHANGED stepperVars
  BY <1>1
  DEF stepperVars, StepperInv, StepperTypeOK, OneTransfer, Scripts, MotionIsTrue,
      PlanIsTrue, DoneStands, Stands, ReadOf
<1>2. CASE Transfer
  BY <1>2, BeginKeeps, PhaseKeeps, TransferDoneKeeps, AbortKeeps DEF Transfer
<1>3. CASE Continue /\ UNCHANGED <<i2c, tic>>
  BY <1>3, StopsKeep, SetupKeeps, MoveKeeps, KeptAliveKeeps, StatusReadKeeps,
     PlanReadKeeps
  DEF Continue
<1>4. QED
  BY <1>1, <1>2, <1>3, PollKeeps, CallsKeep, DeliverKeeps, MotorKeeps, TickKeeps
  DEF StepperNext, StepperTask, StepperRuns

(* Every variable of the motor control has its type.                       *)
THEOREM StepperTypeCorrect == StepperSpec => []StepperTypeOK
<1>1. StepperInv => StepperTypeOK
  BY DEF StepperInv
<1>2. QED
  BY <1>1, StepperStarts, StepperInvInductive, PTL DEF StepperSpec

(* A move that is done has the plate on its target, and standing, until    *)
(* the next move or stop: whatever the bus and the watchdog do while the   *)
(* status is read piece by piece, for every distance and every time limit. *)
THEOREM MoveArrives == StepperSpec => []DoneIsThere
<1>1. StepperInv => DoneIsThere
  BY DEF StepperInv, DoneStands, Stands, DoneIsThere
<1>2. QED
  BY <1>1, StepperStarts, StepperInvInductive, PTL DEF StepperSpec

-----------------------------------------------------------------------------
(* The command timeout *)

(* A routine in which the keep-alive of the Tic is not counted.            *)
LEMMA UncountedKeeps ==
  ASSUME stepper'.renewed => stepper'.energized,
         routine' \notin {"NONE", "STATUS", "PLAN", "KEEPALIVE", "INIT", "MODE"}
  PROVE  KeptInStep'
BY DEF KeptInStep

(* After a fault no keep-alive is sent.                                    *)
LEMMA FaultKeepsStep ==
  ASSUME NEW s \in StepperKind, s.renewed => s.energized, Fault(s)
  PROVE  KeptInStep'
<1>1. /\ stepper' = [Forgotten(s) EXCEPT !.faulted = TRUE] /\ routine' = "FAULT"
      /\ Forgotten(s) \in StepperKind
  BY ForgottenTyped DEF Fault, Enter
<1>2. stepper'.renewed = s.renewed /\ stepper'.energized = s.energized
  BY <1>1, ForgottenTyped DEF StepperKind
<1>3. QED
  BY <1>1, <1>2, UncountedKeeps

(* Transfers and a delivery.                                               *)
LEMMA TransferKeepsStep ==
  ASSUME StepperInv, KeptInStep, Transfer
  PROVE  KeptInStep'
<1> StepperTypeOK /\ OneTransfer /\ Scripts
  BY DEF StepperInv
<1>1. stepper' = stepper /\ routine' = routine /\ tic' = tic
  BY DEF Transfer, BeginTransfer, BusFreed, TransferDone, TransferFails, AbortDone
<1>2. stepper'.renewed /\ routine' \in {"NONE", "STATUS", "PLAN"} => InStep'
  BY <1>1 DEF KeptInStep, InStep
<1>3. ASSUME routine = "KEEPALIVE"
      PROVE  /\ todo' # <<>> /\ i2c'.phase \in {"FREE", "WAIT", "RUN"} =>
                  stepper.quiet < WatchdogTicks - KeepaliveTicks + i2c'.age
             /\ todo' # <<>> /\ ~i2c'.delivered /\ i2c'.phase # "ABORT"
                  /\ stepper.renewed => InStep
             /\ i2c'.delivered => tic.silent <= i2c'.age /\ ~tic.error
             /\ todo' = <<>> /\ good' => tic.silent <= BusTicks - 1 /\ ~tic.error
  <2>1. todo \in {<<"KEEPALIVE">>, <<>>} /\ (todo # <<>> => Tail(todo) = <<>>)
    BY <1>3, RestOfKeepalive DEF Scripts
  <2>2. i2c \in BusKind /\ tic \in TicKind
    BY StepperTypes
  <2>3. CASE BeginTransfer /\ CommandFails /\ UNCHANGED i2c
    <3>1. good' = FALSE /\ todo' = <<>> /\ ~i2c'.delivered
      BY <2>1, <2>3 DEF BeginTransfer, CommandFails, OneTransfer
    <3>2. QED
      BY <3>1
  <2>4. CASE /\ BeginTransfer /\ UNCHANGED <<todo, good>>
             /\ \E phase \in {"RUN", "WAIT"} : i2c' = [i2c EXCEPT !.phase = phase]
    <3>1. /\ i2c'.age = i2c.age /\ i2c'.delivered = i2c.delivered /\ todo # <<>>
          /\ i2c.phase = "FREE" /\ ~i2c.delivered /\ todo' = todo
      BY <2>2, <2>4 DEF BeginTransfer, BusKind, OneTransfer
    <3>2. QED
      BY <1>3, <3>1 DEF KeptInStep
  <2>5. CASE BusFreed
    <3>1. /\ i2c'.age = i2c.age /\ i2c'.delivered = i2c.delivered /\ todo # <<>>
          /\ i2c.phase = "WAIT" /\ ~i2c.delivered /\ todo' = todo
      BY <2>2, <2>5 DEF BusFreed, BusKind, OneTransfer
    <3>2. QED
      BY <1>3, <3>1 DEF KeptInStep
  <2>6. CASE TransferDone
    <3>1. todo' = <<>> /\ i2c.delivered /\ i2c.age < BusTicks
      BY <2>1, <2>6 DEF TransferDone, OneTransfer
    <3>2. ~i2c'.delivered
      BY <2>2, <2>6 DEF TransferDone, FreeBus, BusKind
    <3>3. tic.silent <= BusTicks - 1 /\ ~tic.error
      BY <1>3, <2>2, <3>1, StepperNumbers DEF KeptInStep, BusKind, TicKind
    <3>4. QED
      BY <3>1, <3>2, <3>3
  <2>7. CASE TransferFails
    <3>1. i2c'.phase = "ABORT" /\ ~i2c'.delivered /\ todo' = todo /\ todo # <<>>
      BY <2>2, <2>7 DEF TransferFails, FreeBus, BusKind, OneTransfer
    <3>2. QED
      BY <3>1
  <2>8. CASE AbortDone
    <3>1. good' = FALSE /\ todo' = <<>>
      BY <2>1, <2>8 DEF AbortDone, CommandFails, OneTransfer
    <3>2. ~i2c'.delivered
      BY <2>2, <2>8 DEF AbortDone, FreeBus, BusKind
    <3>3. QED
      BY <3>1, <3>2
  <2>9. QED
    BY <2>3, <2>4, <2>5, <2>6, <2>7, <2>8, Transfer DEF Transfer, BeginTransfer
<1>4. QED
  BY <1>1, <1>2, <1>3 DEF KeptInStep, InStep

(* A delivered keep-alive starts the timeout of the Tic anew.              *)
LEMMA DeliverKeepsStep ==
  ASSUME StepperInv, KeptInStep, Deliver
  PROVE  KeptInStep'
<1> StepperTypeOK /\ OneTransfer /\ Scripts
  BY DEF StepperInv
<1>1. /\ i2c' = [i2c EXCEPT !.delivered = TRUE] /\ tic' = AfterCommand(Head(todo))
      /\ stepper' = [stepper EXCEPT !.status = AfterRead(Head(todo))]
      /\ routine' = routine /\ todo' = todo /\ todo # <<>> /\ i2c.phase = "RUN"
  BY DEF Deliver, OneTransfer
<1>2. /\ stepper'.renewed = stepper.renewed /\ stepper'.energized = stepper.energized
      /\ stepper'.quiet = stepper.quiet
  BY <1>1 DEF StepperTypeOK
<1>3. i2c'.delivered /\ i2c'.age = i2c.age /\ i2c'.phase = i2c.phase
  BY <1>1 DEF StepperTypeOK
<1>4. CASE routine \in {"STATUS", "PLAN"}
  <2>1. Head(todo) \in {"ASK", "GENERAL", "MOTION", "PLAN"}
    BY <1>1, <1>4, RestOfStatus, RestOfPlan DEF Scripts
  <2>2. tic' = tic
    BY <1>1, <2>1, CommandDoes
  <2>3. QED
    BY <1>1, <1>2, <1>4, <2>2 DEF KeptInStep, InStep
<1>5. CASE routine = "KEEPALIVE"
  <2>1. Head(todo) = "KEEPALIVE"
    BY <1>1, <1>5, RestOfKeepalive DEF Scripts
  <2>2. tic'.silent = 0 /\ tic'.error = FALSE
    <3>1. tic' = [tic EXCEPT !.silent = 0, !.error = FALSE]
      BY <1>1, <2>1, CommandDoes
    <3>2. QED
      BY <3>1, StepperTypes DEF TicKind
  <2>3. 0 <= i2c.age
    BY DEF StepperTypeOK
  <2>4. QED
    BY <1>1, <1>2, <1>3, <1>5, <2>2, <2>3 DEF KeptInStep
<1>6. CASE routine \notin {"STATUS", "PLAN", "KEEPALIVE"}
  <2>1. routine # "NONE"
    BY <1>1 DEF Scripts
  <2>2. QED
    BY <1>1, <1>2, <1>6, <2>1 DEF KeptInStep
<1>7. QED
  BY <1>4, <1>5, <1>6

(* The steps between the transfers.                                        *)
LEMMA ContinueKeepsStep ==
  ASSUME StepperInv, KeptInStep, Continue, UNCHANGED <<i2c, tic>>
  PROVE  KeptInStep'
<1> StepperTypeOK /\ OneTransfer
  BY DEF StepperInv
<1>1. stepper \in StepperKind /\ tic \in TicKind /\ (stepper.renewed => stepper.energized)
  BY StepperTypes DEF KeptInStep
<1>2. todo = <<>>
  BY DEF Continue, Stopped, InitStopped, InitDone, ModeDone, MoveChecked, MoveBegun,
     KeptAlive, StatusRead, PlanRead, Reached
<1>3. ~i2c.delivered /\ i2c' = i2c /\ tic' = tic
  BY <1>2 DEF OneTransfer
<1>4. ASSUME NEW s \in StepperKind, s.renewed => s.energized, Fault(s)
      PROVE  KeptInStep'
  BY <1>4, FaultKeepsStep
<1>5. CASE Stopped \/ InitStopped
  <2>1. CASE Fault(StoppedAs(FALSE))
    BY <1>4, <2>1, StoppedTyped
  <2>2. CASE \E ok \in BOOLEAN : stepper' = StoppedAs(ok)
    <3>1. stepper'.renewed = FALSE /\ routine' # "KEEPALIVE"
      BY <1>5, <2>2, StoppedTyped DEF Stopped, InitStopped, Enter, Leave, Fault
    <3>2. QED
      BY <3>1 DEF KeptInStep
  <2>3. QED
    <3>1. StopConfirmed \in BOOLEAN
      BY DEF StopConfirmed
    <3>2. QED
      BY <1>5, <2>1, <2>2, <3>1 DEF Stopped, InitStopped
<1>6. CASE InitDone \/ ModeDone
  <2>1. CASE Fault(stepper)
    BY <1>1, <1>4, <2>1
  <2>2. CASE UNCHANGED stepper /\ Enter("MODE", ModeScript)
    <3>1. routine = "INIT" /\ routine' = "MODE" /\ stepper' = stepper
      BY <1>6, <2>2 DEF InitDone, ModeDone, Reached, Enter, Leave, Fault
    <3>2. QED
      BY <1>1, <3>1 DEF KeptInStep
  <2>3. CASE ModeDone /\ stepper' = Forgotten(stepper) /\ Leave
    <3>1. routine' = "NONE"
      BY <2>3 DEF Leave, Enter
    <3>2. stepper'.renewed = stepper.renewed /\ stepper'.energized = stepper.energized
      BY <1>1, <2>3, ForgottenTyped
    <3>3. ~stepper.renewed
      BY <2>3 DEF KeptInStep, ModeDone, Reached
    <3>4. QED
      BY <1>1, <3>1, <3>2, <3>3 DEF KeptInStep
  <2>4. QED
    BY <1>6, <2>1, <2>2, <2>3 DEF InitDone, ModeDone
<1>7. CASE MoveChecked \/ MoveBegun
  <2>1. CASE Fault(stepper)
    BY <1>1, <1>4, <2>1
  <2>2. CASE MoveChecked /\ ~Fault(stepper)
    <3>1. /\ routine' = "MOVE" /\ stepper'.renewed = stepper.renewed
          /\ stepper'.energized = stepper.energized
      BY <1>1, <2>2 DEF MoveChecked, Enter, StepperKind
    <3>2. QED
      BY <1>1, <3>1, UncountedKeeps
  <2>3. CASE MoveBegun /\ ~Fault(stepper)
    <3>1. Forgotten(stepper) \in StepperKind
      BY <1>1, ForgottenTyped
    <3>2. routine' = "NONE" /\ stepper'.renewed = FALSE
      BY <2>3, <3>1 DEF MoveBegun, Leave, Enter, StepperKind
    <3>3. QED
      BY <3>2 DEF KeptInStep
  <2>4. QED
    BY <1>7, <2>1, <2>2, <2>3
<1>8. CASE KeptAlive
  <2> DEFINE s == [stepper EXCEPT !.quiet = 0, !.renewed = TRUE]
  <2>1. routine = "KEEPALIVE" /\ stepper.energized
    BY <1>8 DEF KeptAlive, Reached, KeptInStep
  <2>2. s \in StepperKind /\ s.quiet = 0 /\ s.energized /\ s.renewed
    <3>1. 0 \in 0 .. WatchdogTicks
      BY StepperNumbers
    <3>2. QED
      BY <1>1, <2>1, <3>1 DEF StepperKind
  <2> HIDE DEF s
  <2>3. CASE Fault(stepper)
    BY <1>1, <1>4, <2>3
  <2>4. CASE Fault(s)
    BY <1>4, <2>2, <2>4
  <2>5. CASE good /\ stepper' = s /\ Enter("STATUS", StatusScript)
    <3>1. tic.silent <= BusTicks - 1 /\ ~tic.error
      BY <1>2, <2>1, <2>5 DEF KeptInStep
    <3>2. tic.silent <= 0 + BusTicks - 1
      BY <3>1, StepperNumbers
    <3>3. InStep'
      BY <1>3, <2>2, <2>5, <3>1, <3>2 DEF InStep
    <3>4. routine' = "STATUS"
      BY <2>5 DEF Enter
    <3>5. QED
      BY <2>2, <2>5, <3>3, <3>4 DEF KeptInStep
  <2>6. QED
    BY <1>8, <2>3, <2>4, <2>5 DEF KeptAlive, s
<1>9. CASE StatusRead \/ PlanRead
  <2>1. CASE Fault(stepper)
    BY <1>1, <1>4, <2>1
  <2>2. ASSUME routine' \in {"NONE", "PLAN"}, stepper'.renewed = stepper.renewed,
               stepper'.energized = stepper.energized, stepper'.quiet = stepper.quiet
        PROVE  KeptInStep'
    <3>1. routine \in {"STATUS", "PLAN"}
      BY <1>9 DEF StatusRead, PlanRead, Reached
    <3>2. QED
      BY <1>1, <1>3, <2>2, <3>1 DEF KeptInStep, InStep
  <2>3. CASE StatusRead /\ UNCHANGED stepper /\ Enter("PLAN", PlanScript)
    BY <2>2, <2>3 DEF Enter
  <2>4. CASE stepper' = Forgotten(stepper) /\ Leave
    BY <1>1, <2>2, <2>4, ForgottenTyped DEF Leave, Enter
  <2>5. CASE /\ Leave
             /\ stepper' = [Forgotten(stepper) EXCEPT
                              !.state = IF Arrived THEN "DONE" ELSE @]
    <3>1. Forgotten(stepper) \in StepperKind
      BY <1>1, ForgottenTyped
    <3>2. /\ stepper'.renewed = Forgotten(stepper).renewed
          /\ stepper'.energized = Forgotten(stepper).energized
          /\ stepper'.quiet = Forgotten(stepper).quiet
      BY <2>5, <3>1 DEF StepperKind
    <3>3. routine' = "NONE"
      BY <2>5 DEF Leave, Enter
    <3>4. QED
      BY <1>1, <2>2, <3>2, <3>3, ForgottenTyped
  <2>6. QED
    BY <1>9, <2>1, <2>3, <2>4, <2>5 DEF StatusRead, PlanRead
<1>10. QED
  BY <1>5, <1>6, <1>7, <1>8, <1>9 DEF Continue

(* The poll sends a keep-alive while there is one interval left.           *)
LEMMA PollKeepsStep ==
  ASSUME StepperInv, KeptInStep, Poll, UNCHANGED <<i2c, tic>>
  PROVE  KeptInStep'
<1> StepperTypeOK /\ OneTransfer
  BY DEF StepperInv
<1>1. /\ stepper \in StepperKind /\ routine = "NONE" /\ todo = <<>>
      /\ stepper.renewed => InStep
  BY StepperTypes DEF KeptInStep, Poll, StepperInv, Scripts
<1>2. stepper.energized /\ i2c.phase = "FREE" /\ i2c.age = 0 /\ ~i2c.delivered
  BY <1>1 DEF Poll, Polled, OneTransfer
<1>3. CASE Fault(stepper)
  BY <1>1, <1>2, <1>3, FaultKeepsStep
<1> DEFINE s == [stepper EXCEPT !.overdue = MoveOverdue]
<1>4. s.renewed = stepper.renewed /\ s.energized = stepper.energized
      /\ s.quiet = stepper.quiet
  BY <1>1 DEF StepperKind
<1> HIDE DEF s
<1>5. CASE ~KeepaliveLate /\ stepper' = s /\ Enter("KEEPALIVE", <<"KEEPALIVE">>)
  <2>1. stepper.quiet < WatchdogTicks - KeepaliveTicks + i2c.age
    BY <1>2, <1>5, StepperNumbers DEF KeepaliveLate, StepperTypeOK
  <2>2. routine' = "KEEPALIVE" /\ todo' # <<>>
    BY <1>5, RestOfKeepalive DEF Enter
  <2>3. QED
    BY <1>1, <1>2, <1>4, <1>5, <2>1, <2>2 DEF KeptInStep, InStep
<1>6. CASE stepper' = s /\ Enter("STATUS", StatusScript)
  BY <1>1, <1>2, <1>4, <1>6 DEF KeptInStep, InStep, Enter
<1>7. QED
  BY <1>3, <1>5, <1>6 DEF Poll, s

(* The callers begin routines without a keep-alive.                        *)
LEMMA CallsKeepStep ==
  ASSUME StepperInv, KeptInStep, StepperStop \/ StepperMove \/ StepperMode
  PROVE  KeptInStep'
<1> StepperTypeOK
  BY DEF StepperInv
<1>1. /\ routine' \in {"STOP", "MOVE_CHECK", "MODE"}
      /\ routine' = "MODE" => ~stepper.energized
  BY DEF StepperStop, StepperMove, StepperMode, Enter
<1>2. stepper'.renewed = stepper.renewed /\ stepper'.energized = stepper.energized
  <2>1. stepper' = stepper \/ \E d \in Deltas : stepper' = [stepper EXCEPT !.delta = d]
    BY DEF StepperStop, StepperMove, StepperMode
  <2>2. stepper \in StepperKind
    BY StepperTypes
  <2>3. QED
    BY <2>1, <2>2 DEF StepperKind
<1>3. QED
  BY <1>1, <1>2 DEF KeptInStep

(* The motor does not count.                                               *)
LEMMA MotorKeepsStep ==
  ASSUME StepperInv, KeptInStep, Motor
  PROVE  KeptInStep'
<1>1. /\ stepper' = stepper /\ routine' = routine /\ todo' = todo /\ good' = good
      /\ i2c' = i2c
  BY DEF Motor
<1>2. tic'.silent = tic.silent /\ tic'.error = tic.error
  BY DEF Motor, TicAccelerates, TicTurns, TicArrives, StepperInv, StepperTypeOK
<1>3. QED
  BY <1>1, <1>2 DEF KeptInStep, InStep

(* What a tick does to the command timeout of the Tic.                     *)
LEMMA SilenceGrows ==
  ASSUME StepperTypeOK, StepperTick
  PROVE  /\ tic'.silent <= tic.silent + 1 /\ tic'.silent <= WatchdogTicks
         /\ tic.error => tic'.error
         /\ tic'.error => tic.error \/ tic.silent + 1 >= WatchdogTicks
         /\ tic'.error /\ (tic.error => tic.silent = WatchdogTicks) =>
              tic'.silent = WatchdogTicks
<1>1. tic \in TicKind /\ tic.silent \in 0 .. WatchdogTicks
  BY StepperTypes DEF TicKind
<1>2. CASE tic' = tic
  BY <1>1, <1>2
<1>3. CASE /\ tic.silent + 1 >= WatchdogTicks
           /\ tic' = [tic EXCEPT !.silent = WatchdogTicks, !.error = TRUE,
                                 !.normal = FALSE, !.moving = FALSE]
  <2>1. tic'.silent = WatchdogTicks /\ tic'.error = TRUE
    BY <1>1, <1>3 DEF TicKind
  <2>2. QED
    BY <1>1, <1>3, <2>1, StepperNumbers
<1>4. CASE tic.silent + 1 < WatchdogTicks /\ tic' = [tic EXCEPT !.silent = tic.silent + 1]
  <2>1. tic'.silent = tic.silent + 1 /\ tic'.error = tic.error
    BY <1>1, <1>4 DEF TicKind
  <2>2. QED
    BY <1>1, <1>4, <2>1, StepperNumbers
<1>5. QED
  BY <1>1, <1>2, <1>3, <1>4, StepperNumbers DEF StepperTick, Silenced

(* The stepper and the Tic count the same ticks.                           *)
LEMMA TickKeepsStep ==
  ASSUME 2 * BusTicks <= KeepaliveTicks + 1, StepperInv, KeptInStep, StepperTick
  PROVE  KeptInStep'
<1> StepperTypeOK /\ OneTransfer
  BY DEF StepperInv
<1>1. /\ routine' = routine /\ todo' = todo /\ good' = good
      /\ i2c'.phase = i2c.phase /\ i2c'.delivered = i2c.delivered
      /\ i2c'.age = IF i2c.phase = "FREE" THEN i2c.age ELSE i2c.age + 1
      /\ stepper'.energized = stepper.energized /\ stepper'.renewed = stepper.renewed
      /\ stepper'.quiet = IF ~stepper.energized THEN stepper.quiet
                          ELSE UpTo(stepper.quiet, WatchdogTicks)
  BY TickDoes
<1>2. /\ stepper.quiet \in 0 .. WatchdogTicks /\ tic.silent \in 0 .. WatchdogTicks
      /\ i2c.age \in 0 .. BusTicks
  BY StepperTypes DEF StepperKind, TicKind, BusKind
<1>3. /\ tic'.silent \in Int /\ i2c'.age \in Int
  BY TickDoes DEF TicKind, BusKind
<1>4. ASSUME InStep, stepper.energized PROVE InStep'
  <2>1. tic'.silent <= stepper'.quiet + BusTicks - 1
    BY <1>1, <1>2, <1>3, <1>4, SilenceGrows, StepperNumbers DEF InStep, UpTo
  <2>2. tic'.error => tic'.silent = WatchdogTicks
    BY <1>4, SilenceGrows DEF InStep
  <2>3. QED
    BY <2>1, <2>2 DEF InStep
<1>5. CASE routine = "KEEPALIVE"
  <2>1. i2c.phase # "FREE" /\ i2c.age < BusTicks
    BY <1>5 DEF StepperTick
  <2>2. stepper.energized /\ todo # <<>>
    BY <1>5, <2>1 DEF KeptInStep, OneTransfer
  <2>3. i2c'.age = i2c.age + 1
    BY <1>1, <2>1
  <2>4. stepper'.quiet <= stepper.quiet + 1
    BY <1>1, <1>2, <2>2, StepperNumbers DEF UpTo
  <2>5. i2c.phase \in {"FREE", "WAIT", "RUN"} =>
          stepper'.quiet < WatchdogTicks - KeepaliveTicks + i2c'.age
    <3>1. i2c.phase \in {"FREE", "WAIT", "RUN"} =>
            stepper.quiet < WatchdogTicks - KeepaliveTicks + i2c.age
      BY <1>5, <2>2 DEF KeptInStep
    <3>2. stepper'.quiet \in Int
      BY TickDoes DEF StepperKind
    <3>3. QED
      BY <1>2, <2>3, <2>4, <3>1, <3>2, StepperNumbers
  <2>6. ~i2c.delivered /\ i2c.phase # "ABORT" /\ stepper.renewed => InStep'
    BY <1>4, <1>5, <2>2 DEF KeptInStep
  <2>7. i2c.delivered => tic'.silent <= i2c'.age /\ ~tic'.error
    <3> SUFFICES ASSUME i2c.delivered PROVE tic'.silent <= i2c'.age /\ ~tic'.error
      OBVIOUS
    <3>1. tic.silent <= i2c.age /\ ~tic.error
      BY <1>5 DEF KeptInStep
    <3>2. tic'.silent <= i2c'.age
      BY <1>2, <1>3, <2>3, <3>1, SilenceGrows
    <3>3. tic.silent + 1 < WatchdogTicks
      BY <1>2, <2>1, <3>1, StepperNumbers
    <3>4. ~tic'.error
      BY <1>2, <3>1, <3>3, SilenceGrows, StepperNumbers
    <3>5. QED
      BY <3>2, <3>4
  <2>8. QED
    BY <1>1, <1>5, <2>2, <2>5, <2>6, <2>7 DEF KeptInStep
<1>6. CASE routine # "KEEPALIVE"
  BY <1>1, <1>4, <1>6 DEF KeptInStep
<1>7. QED
  BY <1>5, <1>6

(* Every step keeps the two in step.                                       *)
LEMMA KeptInStepInductive ==
  ASSUME 2 * BusTicks <= KeepaliveTicks + 1
  PROVE  StepperInv /\ KeptInStep /\ [StepperNext]_stepperVars => KeptInStep'
<1> SUFFICES ASSUME StepperInv, KeptInStep, [StepperNext]_stepperVars
             PROVE  KeptInStep'
  OBVIOUS
<1>1. CASE UNCHANGED stepperVars
  BY <1>1 DEF stepperVars, KeptInStep, InStep
<1>2. QED
  BY <1>1, TransferKeepsStep, DeliverKeepsStep, ContinueKeepsStep, PollKeepsStep,
     CallsKeepStep, MotorKeepsStep, TickKeepsStep
  DEF StepperNext, StepperTask, StepperRuns

(* A keep-alive that renews finds the Tic in operation.                    *)
LEMMA RenewalInTime ==
  ASSUME 2 * BusTicks <= KeepaliveTicks + 1, StepperInv, KeptInStep,
         [StepperNext]_stepperVars, routine = "KEEPALIVE", tic.error, ~tic'.error
  PROVE  ~stepper.renewed
<1> StepperTypeOK /\ OneTransfer
  BY DEF StepperInv
<1>1. Deliver
  <2>1. tic' = tic => FALSE
    OBVIOUS
  <2>2. ~Motor
    BY DEF Motor, TicAccelerates, TicTurns, TicArrives, StepperTypeOK
  <2>3. ~StepperTick
    BY SilenceGrows
  <2>4. ~Transfer /\ ~UNCHANGED <<i2c, tic>> /\ ~UNCHANGED stepperVars
    BY <2>1
    DEF Transfer, BeginTransfer, BusFreed, TransferDone, TransferFails, AbortDone,
        stepperVars
  <2>5. QED
    BY <2>2, <2>3, <2>4 DEF StepperNext, StepperTask, StepperRuns
<1>2. i2c.phase = "RUN" /\ ~i2c.delivered /\ todo # <<>>
  BY <1>1 DEF Deliver, OneTransfer
<1>3. stepper.quiet < WatchdogTicks - KeepaliveTicks + i2c.age
  BY <1>2 DEF KeptInStep
<1>4. stepper.renewed => InStep
  BY <1>2 DEF KeptInStep
<1>5. stepper.quiet \in Int /\ i2c.age \in 0 .. BusTicks
  BY StepperTypes DEF StepperKind, BusKind
<1>6. ~InStep
  BY <1>3, <1>5, StepperNumbers DEF InStep
<1>7. QED
  BY <1>4, <1>6

(* With a keep-alive interval of nearly two bus timeouts at least (the     *)
(* project has 250 ms and 100 ms), a keep-alive of the poll never reaches  *)
(* a Tic whose command timeout has passed, for every length of the three   *)
(* times. The interval that sonar_stepper_init asks for, a third of the    *)
(* watchdog, is not enough by itself: with an interval of two ticks and a  *)
(* bus timeout of two the keep-alive can come too late.                    *)
THEOREM KeepaliveInTime ==
  ASSUME 2 * BusTicks <= KeepaliveTicks + 1
  PROVE  StepperSpec => RenewedInTime
<1>1. StepperInit => KeptInStep
  BY DEF StepperInit, KeptInStep
<1>2. StepperInv /\ KeptInStep /\ [StepperNext]_stepperVars => KeptInStep'
  BY KeptInStepInductive
<1>3. StepperInv /\ KeptInStep /\ [StepperNext]_stepperVars =>
        [routine = "KEEPALIVE" /\ tic.error /\ ~tic'.error =>
           ~stepper.renewed]_stepperVars
  BY RenewalInTime
<1>4. QED
  BY <1>1, <1>2, <1>3, StepperStarts, StepperInvInductive, PTL
  DEF StepperSpec, RenewedInTime
=============================================================================
