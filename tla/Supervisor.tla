------------------------------ MODULE Supervisor ------------------------------
(***************************************************************************)
(* The two layers of supervision of sonar_supervisor.c and sonar_health.c: *)
(* the experiment task sends a rate-limited heartbeat through a queue, the *)
(* supervisor task checks it and serves the hardware watchdog, and a halt  *)
(* (sonar_halt, sonar_fault.c) leaves everything to the watchdog.          *)
(*                                                                         *)
(* Time is the RTOS tick, which wraps, and the watchdog counts in the same *)
(* unit. The experiment task may call the heartbeat at any moment or stay  *)
(* away for any time. The supervisor runs at the same priority: it may be  *)
(* MaxLag ticks late, behind other tasks or a console that is being        *)
(* written.                                                                *)
(***************************************************************************)
EXTENDS Integers, Sequences

CONSTANTS
  Ticks,                        \* 2^32, the range of the tick counter
  Numbers,                      \* 2^32, the range of heartbeat numbers
  Heartbeat, Timeout,           \* SONAR_HEARTBEAT_MS, SONAR_TIMEOUT_MS
  Watchdog,                     \* SONAR_WATCHDOG_S
  QueueLength,                  \* SONAR_QUEUE_LENGTH
  MaxLag                        \* how late the supervisor task may run

(* sonar_config_validate, sonar_rtos_create and the static assertions.     *)
ASSUME SupervisorAssumption ==
  /\ Ticks \in Nat /\ Numbers \in Nat \ {0} /\ MaxLag \in Nat
  /\ Heartbeat \in Nat \ {0} /\ QueueLength \in Nat \ {0}
  /\ Timeout \in Nat /\ Timeout > 2 * Heartbeat /\ Timeout <= Ticks \div 2
  /\ Watchdog \in Nat /\ Watchdog > 2 * Heartbeat

VARIABLES
  now,                          \* xTaskGetTickCount
  heartbeat_queue, queue_failed,
  sequence, last_sent,          \* owned by the experiment task
  spc,                          \* the supervisor: waiting, monitoring, fault
  waited, overdue,              \* ticks it has been blocked, then runnable
  health,
  dog,                          \* ticks since the watchdog was restarted
  halted, inhibited,
  quiet, late                   \* history, until the experiment is inhibited:
                                \* ticks since the last call of
                                \* sonar_rtos_heartbeat, and was it ever late

beatVars == <<heartbeat_queue, queue_failed, sequence, last_sent>>
superVars == <<spc, waited, overdue, health, inhibited>>
vars == <<now, beatVars, superVars, dog, halted, quiet, late>>

Off == -1                       \* the watchdog has not been started
NotYet == -1                    \* the task has not called the heartbeat yet

Health ==
  [state : {"WAITING", "RUNNING", "TIMEOUT", "SEQUENCE", "QUEUE"},
   last_tick : 0 .. Ticks - 1, next_sequence : 0 .. Numbers - 1]

(* Variants with a bug: plain instead of unsigned arithmetic.              *)
PlainSince(a, b) == a - b
PlainNumber(n) == n + 1

(* Unsigned differences of ticks, increments of ticks and numbers.         *)
Since(a, b) == (a - b) % Ticks
Advance(t) == (t + 1) % Ticks
NextNumber(n) == (n + 1) % Numbers

Init ==
  /\ now = 0
  /\ heartbeat_queue = <<>> /\ queue_failed = FALSE
  /\ sequence = 0 /\ last_sent = 0
  /\ spc = "wait" /\ waited = 0 /\ overdue = 0
  /\ health = [state |-> "WAITING", last_tick |-> 0, next_sequence |-> 0]
  /\ dog = Off
  /\ halted = FALSE /\ inhibited = FALSE
  /\ quiet = NotYet /\ late = FALSE

-----------------------------------------------------------------------------
(* sonar_rtos_heartbeat, called by every iteration of the experiment task. *)

(* Variant with a bug: every call sends.                                   *)
NeverTooSoon == FALSE

TooSoon == sequence # 0 /\ Since(now, last_sent) < Heartbeat

Called ==
  /\ ~halted
  /\ quiet' = IF inhibited THEN NotYet ELSE 0
  /\ UNCHANGED <<now, superVars, dog, halted, late>>

BeatSkipped ==
  /\ TooSoon
  /\ Called
  /\ UNCHANGED beatVars

BeatSent ==
  /\ ~TooSoon
  /\ Len(heartbeat_queue) < QueueLength
  /\ Called
  /\ heartbeat_queue' = Append(heartbeat_queue, [sequence |-> sequence, tick |-> now])
  /\ sequence' = NextNumber(sequence)
  /\ last_sent' = now
  /\ UNCHANGED queue_failed

BeatRefused ==
  /\ ~TooSoon
  /\ Len(heartbeat_queue) = QueueLength
  /\ Called
  /\ queue_failed' = TRUE
  /\ UNCHANGED <<heartbeat_queue, sequence, last_sent>>

-----------------------------------------------------------------------------
(* sonar_health.c.                                                         *)

Faulted(h) == h.state \notin {"WAITING", "RUNNING"}

QueueChecked(h) ==
  IF queue_failed /\ ~Faulted(h) THEN [h EXCEPT !.state = "QUEUE"] ELSE h

Accepted(h, event) ==
  IF Faulted(h) THEN h
  ELSE IF event.sequence # h.next_sequence THEN [h EXCEPT !.state = "SEQUENCE"]
  ELSE IF \/ Since(now, h.last_tick) >= Timeout
          \/ Since(now, event.tick) >= Timeout
          \/ Since(event.tick, h.last_tick) >= Timeout
  THEN [h EXCEPT !.state = "TIMEOUT"]
  ELSE [state |-> "RUNNING", last_tick |-> event.tick,
        next_sequence |-> NextNumber(h.next_sequence)]

Polled(h) ==
  IF ~Faulted(h) /\ Since(now, h.last_tick) >= Timeout
  THEN [h EXCEPT !.state = "TIMEOUT"]
  ELSE h

-----------------------------------------------------------------------------
(* supervisor_task.                                                        *)

Runnable ==
  \/ spc \in {"wait", "loop"} /\ heartbeat_queue # <<>>
  \/ spc \in {"loop", "fault"} /\ waited = Heartbeat

Supervises(phase) ==
  /\ ~halted
  /\ Runnable
  /\ spc = phase
  /\ waited' = 0 /\ overdue' = 0
  /\ UNCHANGED <<now, queue_failed, sequence, last_sent, late>>

(* The first heartbeat is peeked at, then the watchdog starts. (If it does *)
(* not, the task halts the board: the action Halt.)                        *)
StartMonitoring ==
  /\ Supervises("wait")
  /\ health' = [health EXCEPT !.last_tick = Head(heartbeat_queue).tick]
  /\ dog' = 0
  /\ spc' = "loop"
  /\ UNCHANGED <<heartbeat_queue, halted, inhibited, quiet>>

(* A heartbeat, or one period without any.                                 *)
Monitor ==
  /\ Supervises("loop")
  /\ dog' = 0
  /\ LET h == QueueChecked(health)
     IN  IF heartbeat_queue = <<>>
         THEN health' = Polled(h) /\ UNCHANGED heartbeat_queue
         ELSE /\ health' = Polled(Accepted(h, Head(heartbeat_queue)))
              /\ heartbeat_queue' = Tail(heartbeat_queue)
  /\ inhibited' = Faulted(health')
  /\ quiet' = IF inhibited' THEN NotYet ELSE quiet
  /\ spc' = IF Faulted(health') THEN "fault" ELSE "loop"
  /\ UNCHANGED halted

(* Variant with a bug: the watchdog is not served after a health fault.    *)
ServeUnwatched ==
  /\ Supervises("fault")
  /\ UNCHANGED <<heartbeat_queue, health, inhibited, spc, dog, halted, quiet>>

(* After a health fault the board goes on serving retained captures.       *)
KeepServing ==
  /\ Supervises("fault")
  /\ dog' = 0
  /\ UNCHANGED <<heartbeat_queue, health, inhibited, spc, halted, quiet>>

-----------------------------------------------------------------------------
(* Time, halts and resets.                                                 *)

(* A heartbeat this late may be taken for a stall.                         *)
LateAfter == Timeout - Heartbeat - MaxLag

(* Long enough for every check to have seen the silence; counts no further.*)
Silent == Timeout + Heartbeat + MaxLag

(* Variant with a bug: without XScuWdt_SetWdMode the counter only reloads. *)
TimerMode == IF dog + 1 >= Watchdog THEN 0 ELSE dog + 1

DogAdvanced == dog + 1

Tick ==
  /\ ~halted
  /\ Runnable => overdue < MaxLag
  /\ dog < Watchdog
  /\ now' = Advance(now)
  /\ waited' = IF waited < Heartbeat THEN waited + 1 ELSE waited
  /\ overdue' = IF Runnable THEN overdue + 1 ELSE 0
  /\ dog' = IF dog = Off THEN Off ELSE DogAdvanced
  /\ quiet' = IF quiet \in {NotYet, Silent} THEN quiet ELSE quiet + 1
  /\ late' = (late \/ quiet' >= LateAfter)
  /\ UNCHANGED <<beatVars, spc, health, halted, inhibited>>

(* What a reset leaves of the program's state.                             *)
Reset ==
  /\ now' = 0
  /\ heartbeat_queue' = <<>> /\ queue_failed' = FALSE
  /\ sequence' = 0 /\ last_sent' = 0
  /\ spc' = "wait" /\ waited' = 0 /\ overdue' = 0
  /\ health' = [state |-> "WAITING", last_tick |-> 0, next_sequence |-> 0]
  /\ inhibited' = FALSE
  /\ quiet' = NotYet /\ late' = FALSE

(* sonar_halt, at any moment of any task, and the RTOS hooks: interrupts   *)
(* off and a loop for ever. Nothing reads the program's state any more, so *)
(* the model forgets it at once.                                           *)
Halt ==
  /\ ~halted
  /\ halted' = TRUE
  /\ Reset
  /\ UNCHANGED dog

(* Only the watchdog still counts then.                                    *)
WatchdogCounts ==
  /\ halted
  /\ dog # Off /\ dog < Watchdog
  /\ dog' = DogAdvanced
  /\ UNCHANGED <<now, beatVars, superVars, halted, quiet, late>>

WatchdogResets ==
  /\ dog = Watchdog
  /\ Reset
  /\ dog' = Off
  /\ halted' = FALSE

Next ==
  \/ BeatSkipped \/ BeatSent \/ BeatRefused
  \/ StartMonitoring \/ Monitor \/ KeepServing
  \/ Tick \/ Halt \/ WatchdogCounts \/ WatchdogResets

Spec == Init /\ [][Next]_vars

(* The private watchdog runs on its own clock, whatever the processor does.*)
FairSpec == Spec /\ WF_vars(WatchdogCounts) /\ WF_vars(WatchdogResets)

-----------------------------------------------------------------------------
TypeOK ==
  /\ now \in 0 .. Ticks - 1
  /\ heartbeat_queue \in Seq([sequence : 0 .. Numbers - 1, tick : 0 .. Ticks - 1])
  /\ Len(heartbeat_queue) <= QueueLength
  /\ queue_failed \in BOOLEAN
  /\ sequence \in 0 .. Numbers - 1 /\ last_sent \in 0 .. Ticks - 1
  /\ spc \in {"wait", "loop", "fault"}
  /\ waited \in 0 .. Heartbeat /\ overdue \in 0 .. MaxLag
  /\ health \in Health
  /\ dog \in Off .. Watchdog
  /\ halted \in BOOLEAN /\ inhibited \in BOOLEAN /\ late \in BOOLEAN
  /\ quiet \in NotYet .. Silent

(* The experiment is never inhibited while its task calls the heartbeat in *)
(* time: neither rate limit, queue, a supervisor that is MaxLag late nor   *)
(* the wrap of tick and number makes a fault of a living task.             *)
NoFalseAlarm == inhibited => late

(* A stalled experiment task is inhibited, at the latest one period and    *)
(* the supervisor's own lag after the timeout.                             *)
StallDetected ==
  quiet = Silent /\ spc = "loop" /\ ~halted /\ overdue = 0 => inhibited

(* The watchdog never resets a board that is alive: also after a health    *)
(* fault, however long it lasts, the retained captures stay available.     *)
OnlyHaltResets == dog = Watchdog => halted

(* A halt of a board whose watchdog runs ends in a reset ...               *)
WatchedHaltResets == halted /\ dog # Off ~> ~halted

(* ... and sonar_supervisor.c:91 says so of every one: "sonar_halt() also  *)
(* ends in that reset".                                                    *)
HaltResets == halted ~> ~halted
=============================================================================
