--------------------------- MODULE SupervisorProofs ---------------------------
(***************************************************************************)
(* For every period, queue length and range of the counters: the variables *)
(* of Supervisor keep their types. Provided the supervisor is less than    *)
(* one of its periods late, the watchdog of a board that is alive never    *)
(* runs out and every stall is detected; with a little more margin (see    *)
(* Margins) a living task is never inhibited.                              *)
(***************************************************************************)
EXTENDS Supervisor, TLAPS

Beat == [sequence : 0 .. Numbers - 1, tick : 0 .. Ticks - 1]

(* Counting time: what one tick and one difference stay within.            *)
LEMMA TickFacts ==
  /\ \A t \in 0 .. Ticks - 1 : Advance(t) \in 0 .. Ticks - 1
  /\ \A n \in 0 .. Numbers - 1 : NextNumber(n) \in 0 .. Numbers - 1
  /\ 0 \in 0 .. Ticks - 1 /\ 0 \in 0 .. Numbers - 1
  BY SupervisorAssumption DEF SupervisorAssumption, Advance, NextNumber

LEMMA ConstantFacts ==
  /\ Heartbeat \in Nat /\ Watchdog \in Nat /\ Silent \in Nat /\ MaxLag \in Nat
  /\ QueueLength \in Nat
  BY SupervisorAssumption DEF SupervisorAssumption, Silent

(* The judgements of sonar_health.c yield a health.                        *)
LEMMA HealthType ==
  ASSUME NEW h \in Health
  PROVE  /\ QueueChecked(h) \in Health
         /\ Polled(h) \in Health
         /\ \A event \in Beat : Accepted(h, event) \in Health
  BY TickFacts DEF QueueChecked, Polled, Accepted, Health, Beat

(* A reset restores the initial types.                                     *)
LEMMA ResetType ==
  ASSUME Reset, halted' \in BOOLEAN, dog' \in Off .. Watchdog
  PROVE  TypeOK'
<1>1. heartbeat_queue' \in Seq(Beat) /\ Len(heartbeat_queue') <= QueueLength
  BY ConstantFacts DEF Reset
<1>2. health' \in Health
  BY TickFacts DEF Reset, Health
<1>3. /\ now' \in 0 .. Ticks - 1 /\ sequence' \in 0 .. Numbers - 1
      /\ last_sent' \in 0 .. Ticks - 1
      /\ waited' \in 0 .. Heartbeat /\ overdue' \in 0 .. MaxLag
      /\ quiet' \in NotYet .. Silent
  BY TickFacts, ConstantFacts DEF Reset, NotYet
<1>4. /\ queue_failed' \in BOOLEAN /\ inhibited' \in BOOLEAN
      /\ late' \in BOOLEAN /\ spc' \in {"wait", "loop", "fault"}
  BY DEF Reset
<1> QED
  BY <1>1, <1>2, <1>3, <1>4 DEF TypeOK, Beat

LEMMA InitType == Init => TypeOK
<1> SUFFICES ASSUME Init PROVE TypeOK
  OBVIOUS
<1>1. heartbeat_queue \in Seq(Beat) /\ Len(heartbeat_queue) <= QueueLength
  BY ConstantFacts DEF Init
<1>2. health \in Health
  BY TickFacts DEF Init, Health
<1>3. /\ now \in 0 .. Ticks - 1 /\ sequence \in 0 .. Numbers - 1
      /\ last_sent \in 0 .. Ticks - 1
      /\ waited \in 0 .. Heartbeat /\ overdue \in 0 .. MaxLag
      /\ dog \in Off .. Watchdog /\ quiet \in NotYet .. Silent
  BY TickFacts, ConstantFacts DEF Init, Off, NotYet
<1>4. /\ queue_failed \in BOOLEAN /\ inhibited \in BOOLEAN
      /\ halted \in BOOLEAN /\ late \in BOOLEAN
      /\ spc \in {"wait", "loop", "fault"}
  BY DEF Init
<1> QED
  BY <1>1, <1>2, <1>3, <1>4 DEF TypeOK, Beat

(* Every step keeps the types. A tick is allowed only to a watchdog that   *)
(* has not run out and to a supervisor that is not later than MaxLag.      *)
LEMMA TypeStep == TypeOK /\ [Next]_vars => TypeOK'
<1> SUFFICES ASSUME TypeOK, [Next]_vars PROVE TypeOK'
  OBVIOUS
<1> USE DEF beatVars, superVars
<1>1. CASE BeatSkipped
  BY <1>1, ConstantFacts DEF BeatSkipped, Called, TypeOK, NotYet
<1>2. CASE BeatSent
  <2> DEFINE beat == [sequence |-> sequence, tick |-> now]
  <2>1. heartbeat_queue \in Seq(Beat) /\ beat \in Beat
    BY DEF TypeOK, Beat
  <2>2. /\ heartbeat_queue' \in Seq(Beat)
        /\ Len(heartbeat_queue') <= QueueLength
    BY <1>2, <2>1, SupervisorAssumption DEF SupervisorAssumption, BeatSent
  <2>3. sequence' \in 0 .. Numbers - 1 /\ last_sent' \in 0 .. Ticks - 1
    BY <1>2, TickFacts DEF BeatSent, TypeOK
  <2> QED
    BY <1>2, <2>2, <2>3, ConstantFacts DEF BeatSent, Called, TypeOK, NotYet, Beat
<1>3. CASE BeatRefused
  BY <1>3, ConstantFacts DEF BeatRefused, Called, TypeOK, NotYet
<1>4. CASE StartMonitoring
  <2>1. heartbeat_queue \in Seq(Beat) /\ heartbeat_queue # <<>>
    BY <1>4 DEF StartMonitoring, Supervises, Runnable, TypeOK, Beat
  <2>2. Head(heartbeat_queue) \in Beat
    BY <2>1
  <2>3. health' \in Health
    BY <1>4, <2>2 DEF StartMonitoring, TypeOK, Health, Beat
  <2> QED
    BY <1>4, <2>3, ConstantFacts DEF StartMonitoring, Supervises, TypeOK, Off
<1>5. CASE Monitor
  <2> DEFINE h == QueueChecked(health)
  <2>1. h \in Health
    BY HealthType DEF TypeOK
  <2>2. heartbeat_queue \in Seq(Beat)
    BY DEF TypeOK, Beat
  <2>3. /\ health' \in Health
        /\ heartbeat_queue' \in Seq(Beat)
        /\ Len(heartbeat_queue') <= QueueLength
    <3>1. CASE heartbeat_queue = <<>>
      BY <1>5, <2>1, <2>2, <3>1, HealthType DEF Monitor, TypeOK
    <3>2. CASE heartbeat_queue # <<>>
      <4>1. Head(heartbeat_queue) \in Beat
        BY <2>2, <3>2
      <4>2. Accepted(h, Head(heartbeat_queue)) \in Health
        BY <2>1, <4>1, HealthType
      <4>3. Polled(Accepted(h, Head(heartbeat_queue))) \in Health
        BY <4>2, HealthType
      <4>4. heartbeat_queue' = Tail(heartbeat_queue)
        BY <1>5, <3>2 DEF Monitor
      <4>5. /\ Tail(heartbeat_queue) \in Seq(Beat)
            /\ Len(Tail(heartbeat_queue)) <= QueueLength
        BY <2>2, <3>2, SupervisorAssumption DEF SupervisorAssumption, TypeOK
      <4> QED
        BY <1>5, <3>2, <4>3, <4>4, <4>5 DEF Monitor
    <3> QED
      BY <3>1, <3>2
  <2>4. inhibited' \in BOOLEAN /\ spc' \in {"wait", "loop", "fault"}
    BY <1>5 DEF Monitor, Faulted
  <2>5. quiet' \in NotYet .. Silent
    BY <1>5, ConstantFacts DEF Monitor, TypeOK, NotYet
  <2> QED
    BY <1>5, <2>3, <2>4, <2>5, ConstantFacts
    DEF Monitor, Supervises, TypeOK, Off, Beat
<1>6. CASE KeepServing
  BY <1>6, ConstantFacts DEF KeepServing, Supervises, TypeOK, Off
<1>7. CASE Tick
  <2>1. now' \in 0 .. Ticks - 1
    BY <1>7, TickFacts DEF Tick, TypeOK
  <2>2. waited' \in 0 .. Heartbeat /\ overdue' \in 0 .. MaxLag
    <3>1. CASE Runnable
      BY <1>7, <3>1, ConstantFacts DEF Tick, TypeOK
    <3>2. CASE ~Runnable
      BY <1>7, <3>2, ConstantFacts DEF Tick, TypeOK
    <3> QED
      BY <3>1, <3>2
  <2>3. dog' \in Off .. Watchdog
    BY <1>7, ConstantFacts DEF Tick, TypeOK, DogAdvanced, Off
  <2>4. quiet' \in NotYet .. Silent /\ late' \in BOOLEAN
    BY <1>7, ConstantFacts DEF Tick, TypeOK, NotYet
  <2> QED
    BY <1>7, <2>1, <2>2, <2>3, <2>4 DEF Tick, TypeOK
<1>8. CASE Halt
  BY <1>8, ResetType DEF Halt, TypeOK
<1>9. CASE WatchdogCounts
  BY <1>9, ConstantFacts DEF WatchdogCounts, TypeOK, DogAdvanced, Off
<1>10. CASE WatchdogResets
  <2>1. Reset /\ halted' \in BOOLEAN
    BY <1>10 DEF WatchdogResets
  <2>2. dog' \in Off .. Watchdog
    BY <1>10, ConstantFacts DEF WatchdogResets, Off
  <2> QED
    BY <2>1, <2>2, ResetType
<1>11. CASE UNCHANGED vars
  BY <1>11 DEF vars, TypeOK
<1> QED
  BY <1>1, <1>2, <1>3, <1>4, <1>5, <1>6, <1>7, <1>8, <1>9, <1>10, <1>11 DEF Next

(* Types of all variables of the supervision.                              *)
THEOREM TypeCorrect == Spec => []TypeOK
  BY InitType, TypeStep, PTL DEF Spec

-----------------------------------------------------------------------------
(* While the board is alive a running watchdog has counted no more ticks   *)
(* than the supervisor has been blocked and then kept waiting; only a      *)
(* supervisor that has started the watchdog leaves it running; and only a  *)
(* runnable task is overdue.                                               *)
Served ==
  ~halted =>
    /\ dog <= waited + overdue
    /\ dog # Off => spc \in {"loop", "fault"}
    /\ overdue > 0 => Runnable

LEMMA OneMore ==
  \A d, w, o, p \in Int : d <= w + o /\ o <= p => d + 1 <= (w + 1) + p
  OBVIOUS

LEMMA ServedStep == TypeOK /\ Served /\ [Next]_vars => Served'
<1> SUFFICES ASSUME TypeOK, Served, [Next]_vars PROVE Served'
  OBVIOUS
<1> USE DEF beatVars, superVars, Off
<1>1. CASE BeatSkipped
  BY <1>1 DEF BeatSkipped, Called, Served, Runnable
<1>2. CASE BeatSent
  <2>1. heartbeat_queue' # <<>>
    BY <1>2 DEF BeatSent, TypeOK
  <2> QED
    BY <1>2, <2>1 DEF BeatSent, Called, Served, Runnable
<1>3. CASE BeatRefused
  BY <1>3 DEF BeatRefused, Called, Served, Runnable
<1>4. CASE StartMonitoring
  BY <1>4 DEF StartMonitoring, Supervises, Served
<1>5. CASE Monitor
  BY <1>5 DEF Monitor, Supervises, Served
<1>6. CASE KeepServing
  BY <1>6 DEF KeepServing, Supervises, Served
<1>7. CASE Tick
  <2>1. /\ ~halted /\ ~halted'
        /\ spc' = spc /\ heartbeat_queue' = heartbeat_queue
    BY <1>7 DEF Tick
  <2>2. dog' <= waited' + overdue'
    <3>1. CASE dog = Off
      BY <1>7, <3>1, ConstantFacts DEF Tick, TypeOK
    <3>2. CASE dog # Off /\ waited < Heartbeat
      <4>1. waited' = waited + 1 /\ dog' = dog + 1
        BY <1>7, <3>2 DEF Tick, DogAdvanced
      <4>2. overdue' \in Int /\ overdue <= overdue'
        <5>1. CASE Runnable
          BY <1>7, <5>1 DEF Tick, TypeOK
        <5>2. CASE ~Runnable
          BY <1>7, <2>1, <5>2 DEF Tick, TypeOK, Served
        <5> QED
          BY <5>1, <5>2
      <4>3. dog <= waited + overdue
        BY <2>1 DEF Served
      <4>4. dog \in Int /\ waited \in Int /\ overdue \in Int
        BY ConstantFacts DEF TypeOK
      <4>5. dog + 1 <= (waited + 1) + overdue'
        BY <4>2, <4>3, <4>4, OneMore
      <4> QED
        BY <4>1, <4>5
    <3>3. CASE dog # Off /\ ~(waited < Heartbeat)
      <4>1. waited = Heartbeat /\ Runnable
        BY <2>1, <3>3, ConstantFacts DEF TypeOK, Served, Runnable
      <4>2. waited' = waited /\ overdue' = overdue + 1 /\ dog' = dog + 1
        BY <1>7, <3>3, <4>1 DEF Tick, DogAdvanced
      <4>3. dog <= waited + overdue
        BY <2>1 DEF Served
      <4> QED
        BY <4>2, <4>3, ConstantFacts DEF TypeOK
    <3> QED
      BY <3>1, <3>2, <3>3
  <2>3. dog' # Off => spc' \in {"loop", "fault"}
    BY <1>7, <2>1 DEF Tick, Served
  <2>4. ASSUME overdue' > 0 PROVE Runnable'
    <3>1. Runnable
      BY <1>7, <2>4 DEF Tick
    <3>2. waited = Heartbeat => waited' = Heartbeat
      BY <1>7, ConstantFacts DEF Tick
    <3> QED
      BY <2>1, <3>1, <3>2 DEF Runnable
  <2> QED
    BY <2>2, <2>3, <2>4 DEF Served
<1>8. CASE Halt
  BY <1>8 DEF Halt, Served
<1>9. CASE WatchdogCounts
  BY <1>9 DEF WatchdogCounts, Served
<1>10. CASE WatchdogResets
  BY <1>10 DEF WatchdogResets, Reset, Served
<1>11. CASE UNCHANGED vars
  BY <1>11 DEF vars, Served, Runnable
<1> QED
  BY <1>1, <1>2, <1>3, <1>4, <1>5, <1>6, <1>7, <1>8, <1>9, <1>10, <1>11 DEF Next

(* The watchdog resets only a board that has halted: the two periods which *)
(* the static assertion at sonar_supervisor.c:37 demands of it cover one   *)
(* period of waiting and any lag shorter than another.                     *)
THEOREM OnlyHaltsReset ==
  ASSUME MaxLag < Heartbeat
  PROVE  Spec => []OnlyHaltResets
<1>1. Init => TypeOK /\ Served
  BY InitType DEF Init, Served, Off
<1>2. TypeOK /\ Served /\ [Next]_vars => (TypeOK /\ Served)'
  BY TypeStep, ServedStep
<1>3. TypeOK /\ Served => OnlyHaltResets
  BY SupervisorAssumption
  DEF SupervisorAssumption, TypeOK, Served, OnlyHaltResets, Off
<1> QED
  BY <1>1, <1>2, <1>3, PTL DEF Spec
-----------------------------------------------------------------------------
(* Ages: how many ticks ago something happened, on a counter that wraps.   *)
Age(t) == Since(now, t)

Tock == 0 .. Ticks - 1

LEMMA SinceIs ==
  \A a, b \in Tock : Since(a, b) = IF b <= a THEN a - b ELSE a - b + Ticks
<1> SUFFICES ASSUME NEW a \in Tock, NEW b \in Tock
             PROVE  Since(a, b) = IF b <= a THEN a - b ELSE a - b + Ticks
  OBVIOUS
<1>1. Ticks \in Nat /\ 0 < Ticks
  BY SupervisorAssumption DEF SupervisorAssumption, Tock
<1> QED
  BY <1>1 DEF Since, Tock

LEMMA AdvanceIs ==
  \A t \in Tock : Advance(t) = IF t + 1 = Ticks THEN 0 ELSE t + 1
<1> SUFFICES ASSUME NEW t \in Tock
             PROVE  Advance(t) = IF t + 1 = Ticks THEN 0 ELSE t + 1
  OBVIOUS
<1>1. Ticks \in Nat /\ 0 < Ticks
  BY SupervisorAssumption DEF SupervisorAssumption, Tock
<1> QED
  BY <1>1 DEF Advance, Tock

LEMMA NextNumberIs ==
  \A n \in 0 .. Numbers - 1 : NextNumber(n) = IF n + 1 = Numbers THEN 0 ELSE n + 1
<1> SUFFICES ASSUME NEW n \in 0 .. Numbers - 1
             PROVE  NextNumber(n) = IF n + 1 = Numbers THEN 0 ELSE n + 1
  OBVIOUS
<1>1. Numbers \in Nat /\ 0 < Numbers
  BY SupervisorAssumption DEF SupervisorAssumption
<1> QED
  BY <1>1 DEF NextNumber

(* An age is a number of ticks; what happens now has none; a tick adds one *)
(* unless the counter comes round; and of two events the older one is as   *)
(* much older as their ages differ.                                        *)
LEMMA AgeFacts ==
  /\ \A t, x \in Tock : Since(t, x) \in Nat /\ Since(t, x) < Ticks
  /\ \A t \in Tock : Since(t, t) = 0
  /\ \A t, x \in Tock : Since(t, x) + 1 < Ticks => Since(Advance(t), x) = Since(t, x) + 1
  /\ \A t, x, y \in Tock : Since(t, x) <= Since(t, y) => Since(x, y) = Since(t, y) - Since(t, x)
<1>1. Ticks \in Nat
  BY SupervisorAssumption DEF SupervisorAssumption
<1>2. \A t, x \in Tock : Since(t, x) \in Nat /\ Since(t, x) < Ticks
  BY <1>1, SinceIs DEF Tock
<1>3. \A t \in Tock : Since(t, t) = 0
  BY <1>1, SinceIs DEF Tock
<1>4. ASSUME NEW t \in Tock, NEW x \in Tock, Since(t, x) + 1 < Ticks
      PROVE  Since(Advance(t), x) = Since(t, x) + 1
  <2>1. Advance(t) \in Tock
    BY TickFacts DEF Tock
  <2> DEFINE u == Advance(t)
  <2>2. u = IF t + 1 = Ticks THEN 0 ELSE t + 1
    BY AdvanceIs
  <2>3. Since(t, x) = IF x <= t THEN t - x ELSE t - x + Ticks
    BY SinceIs
  <2>4. Since(u, x) = IF x <= u THEN u - x ELSE u - x + Ticks
    BY <2>1, SinceIs
  <2>5. t \in Nat /\ x \in Nat /\ t < Ticks /\ x < Ticks
    BY <1>1 DEF Tock
  <2> HIDE DEF u
  <2>6. Since(u, x) = Since(t, x) + 1
    BY <1>1, <1>4, <2>2, <2>3, <2>4, <2>5
  <2> QED
    BY <2>6 DEF u
<1>5. ASSUME NEW t \in Tock, NEW x \in Tock, NEW y \in Tock, Since(t, x) <= Since(t, y)
      PROVE  Since(x, y) = Since(t, y) - Since(t, x)
  BY <1>1, <1>5, SinceIs DEF Tock
<1> QED
  BY <1>2, <1>3, <1>4, <1>5

(* All ticks that are kept are ticks.                                      *)
LEMMA Ticked ==
  ASSUME TypeOK
  PROVE  /\ now \in Tock /\ health.last_tick \in Tock /\ last_sent \in Tock
         /\ \A i \in 1 .. Len(heartbeat_queue) :
              /\ heartbeat_queue[i].tick \in Tock
              /\ heartbeat_queue[i].sequence \in 0 .. Numbers - 1
<1>1. heartbeat_queue \in Seq(Beat)
  BY DEF TypeOK, Beat
<1>2. \A i \in 1 .. Len(heartbeat_queue) : heartbeat_queue[i] \in Beat
  BY <1>1
<1> QED
  BY <1>2 DEF TypeOK, Health, Beat, Tock

-----------------------------------------------------------------------------
(* A silence is noticed. While the supervisor monitors, the last heartbeat *)
(* it has accepted is older than the last call of the experiment task and  *)
(* than whatever is queued, and not older than the timeout and the time    *)
(* since the last check together.                                          *)
Queued ==
  \A i \in 1 .. Len(heartbeat_queue) :
    /\ quiet <= Age(heartbeat_queue[i].tick)
    /\ \A j \in 1 .. i : Age(heartbeat_queue[i].tick) <= Age(heartbeat_queue[j].tick)

Peeked ==
  IF heartbeat_queue = <<>> THEN overdue = 0
  ELSE Age(heartbeat_queue[1].tick) <= overdue

Checked ==
  /\ quiet <= Age(health.last_tick)
  /\ Age(health.last_tick) < Timeout + waited + overdue
  /\ heartbeat_queue # <<>> =>
       Age(heartbeat_queue[1].tick) <= Age(health.last_tick)

Silence ==
  /\ spc # "fault" => Queued
  /\ spc = "wait" => Peeked
  /\ spc = "loop" => Checked

LEMMA LimitFacts ==
  /\ Ticks \in Nat /\ Timeout \in Nat /\ MaxLag \in Nat /\ Heartbeat \in Nat
  /\ Numbers \in Nat /\ QueueLength \in Nat
  /\ 0 < Heartbeat /\ 0 < QueueLength /\ 0 < Numbers
  /\ 2 * Heartbeat < Timeout /\ 2 * Timeout <= Ticks
  /\ Silent = Timeout + Heartbeat + MaxLag
  /\ LateAfter = Timeout - Heartbeat - MaxLag
  BY SupervisorAssumption DEF SupervisorAssumption, Silent, LateAfter

(* An age is a natural number.                                             *)
LEMMA AgesAreNat ==
  ASSUME TypeOK
  PROVE  /\ Age(health.last_tick) \in Nat /\ Age(last_sent) \in Nat
         /\ \A i \in 1 .. Len(heartbeat_queue) : Age(heartbeat_queue[i].tick) \in Nat
  BY Ticked, AgeFacts DEF Age

LEMMA SilenceSkip ==
  ASSUME TypeOK, Silence, BeatSkipped \/ BeatRefused PROVE Silence'
<1>1. /\ now' = now /\ spc' = spc /\ health' = health /\ waited' = waited
      /\ overdue' = overdue /\ heartbeat_queue' = heartbeat_queue
      /\ quiet' \in {NotYet, 0}
  BY DEF BeatSkipped, BeatRefused, Called, superVars, beatVars
<1>2. \A n \in Nat : quiet' <= n
  BY <1>1 DEF NotYet
<1>3. Queued => Queued'
  BY <1>1, <1>2, AgesAreNat DEF Queued, Age
<1>4. Peeked => Peeked'
  BY <1>1 DEF Peeked, Age
<1>5. Checked => Checked'
  BY <1>1, <1>2, AgesAreNat DEF Checked, Age
<1> QED
  BY <1>1, <1>3, <1>4, <1>5 DEF Silence

LEMMA SilenceSent ==
  ASSUME TypeOK, Silence, BeatSent PROVE Silence'
<1> DEFINE n == Len(heartbeat_queue)
<1>1. /\ now' = now /\ spc' = spc /\ health' = health /\ waited' = waited
      /\ overdue' = overdue /\ quiet' \in {NotYet, 0}
      /\ heartbeat_queue' = Append(heartbeat_queue, [sequence |-> sequence, tick |-> now])
  BY DEF BeatSent, Called, superVars
<1>2. /\ n \in Nat /\ Len(heartbeat_queue') = n + 1
      /\ \A i \in 1 .. n : heartbeat_queue'[i] = heartbeat_queue[i]
      /\ heartbeat_queue'[n + 1].tick = now
      /\ heartbeat_queue' # <<>>
  <2> DEFINE new == [sequence |-> sequence, tick |-> now]
  <2>1. heartbeat_queue \in Seq(Beat) /\ n \in Nat
    BY DEF TypeOK, Beat
  <2>2. /\ Len(heartbeat_queue') = n + 1
        /\ heartbeat_queue'[n + 1] = new
        /\ \A i \in 1 .. n : heartbeat_queue'[i] = heartbeat_queue[i]
    BY <1>1, <2>1
  <2>3. heartbeat_queue' # <<>>
    BY <2>1, <2>2
  <2> QED
    BY <2>1, <2>2, <2>3
<1>3. Age(now) = 0 /\ now \in Tock
  BY Ticked, AgeFacts DEF Age
<1>4. \A k \in Nat : quiet' <= k
  BY <1>1 DEF NotYet
<1>5. n = 0 <=> heartbeat_queue = <<>>
  BY DEF TypeOK
<1>6. /\ \A i \in 1 .. n : Age(heartbeat_queue'[i].tick) = Age(heartbeat_queue[i].tick)
      /\ Age(heartbeat_queue'[n + 1].tick) = 0
      /\ \A i \in 1 .. n + 1 : Age(heartbeat_queue'[i].tick) \in Nat
  <2>1. \A i \in 1 .. n : Age(heartbeat_queue[i].tick) \in Nat
    BY AgesAreNat
  <2>2. Age(heartbeat_queue'[n + 1].tick) = 0
    BY <1>2, <1>3
  <2>3. \A i \in 1 .. n : Age(heartbeat_queue'[i].tick) = Age(heartbeat_queue[i].tick)
    BY <1>2
  <2> HIDE DEF n
  <2>4. \A i \in 1 .. n + 1 : i \in 1 .. n \/ i = n + 1
    BY <1>2
  <2>5. \A i \in 1 .. n + 1 : Age(heartbeat_queue'[i].tick) \in Nat
    BY <2>1, <2>2, <2>3, <2>4
  <2> QED
    BY <2>2, <2>3, <2>5
<1> HIDE DEF n
<1>7. ASSUME Queued PROVE Queued'
  <2>1. ASSUME NEW i \in 1 .. n + 1
        PROVE  /\ quiet' <= Age(heartbeat_queue'[i].tick)
               /\ \A j \in 1 .. i :
                    Age(heartbeat_queue'[i].tick) <= Age(heartbeat_queue'[j].tick)
    <3>1. quiet' <= Age(heartbeat_queue'[i].tick)
      BY <1>4, <1>6
    <3>2. CASE i = n + 1
      BY <1>2, <1>6, <3>1, <3>2
    <3>3. CASE i \in 1 .. n
      BY <1>2, <1>6, <1>7, <3>1, <3>3 DEF Queued, n
    <3> QED
      BY <1>2, <3>2, <3>3
  <2> QED
    BY <1>1, <1>2, <2>1 DEF Queued, Age
<1>8. ASSUME Peeked PROVE Peeked'
  <2>1. Age(heartbeat_queue'[1].tick) <= overdue
    <3>1. CASE n = 0
      BY <1>5, <1>6, <1>8, <3>1 DEF Peeked
    <3>2. CASE n # 0
      BY <1>2, <1>5, <1>6, <1>8, <3>2 DEF Peeked
    <3> QED
      BY <3>1, <3>2
  <2> QED
    BY <1>1, <1>2, <2>1 DEF Peeked, Age
<1>9. ASSUME Checked PROVE Checked'
  <2>1. Age(heartbeat_queue'[1].tick) <= Age(health.last_tick)
    <3>1. CASE n = 0
      BY <1>5, <1>6, AgesAreNat, <3>1
    <3>2. CASE n # 0
      BY <1>2, <1>5, <1>6, <1>9, <3>2 DEF Checked
    <3> QED
      BY <3>1, <3>2
  <2> QED
    BY <1>1, <1>4, <1>9, <2>1, AgesAreNat DEF Checked, Age
<1> QED
  BY <1>1, <1>7, <1>8, <1>9 DEF Silence

(* Monitoring begins with a heartbeat that has been peeked at in time.     *)
LEMMA SilenceStart ==
  ASSUME MaxLag < Heartbeat, TypeOK, Silence, StartMonitoring PROVE Silence'
<1> DEFINE head == heartbeat_queue[1].tick
<1>1. /\ now' = now /\ quiet' = quiet /\ heartbeat_queue' = heartbeat_queue
      /\ spc = "wait" /\ spc' = "loop" /\ waited' = 0 /\ overdue' = 0
      /\ health' = [health EXCEPT !.last_tick = Head(heartbeat_queue).tick]
      /\ heartbeat_queue # <<>>
  BY DEF StartMonitoring, Supervises, Runnable
<1>2. health'.last_tick = head /\ 1 \in 1 .. Len(heartbeat_queue)
  BY <1>1 DEF TypeOK, Health
<1>3. Queued /\ Age(head) <= overdue
  BY <1>1 DEF Silence, Peeked
<1>4. Age(head) \in Nat /\ quiet <= Age(head)
  BY <1>2, <1>3, AgesAreNat DEF Queued
<1>5. overdue <= MaxLag /\ overdue \in Nat
  BY LimitFacts DEF TypeOK
<1>6. Queued'
  BY <1>1, <1>3 DEF Queued, Age
<1>7. Checked'
  <2>1. Age(head) < Timeout
    BY <1>3, <1>4, <1>5, LimitFacts
  <2>2. Age(health.last_tick)' = Age(head)
    BY <1>1, <1>2 DEF Age
  <2>3. Age(heartbeat_queue[1].tick)' = Age(head)
    BY <1>1 DEF Age
  <2> QED
    BY <1>1, <1>4, <2>1, <2>2, <2>3, LimitFacts DEF Checked
<1> QED
  BY <1>1, <1>6, <1>7 DEF Silence

(* What the checks of sonar_health.c leave running is younger than the     *)
(* timeout, and it is the heartbeat that was taken.                        *)
LEMMA Passed ==
  ASSUME NEW h \in Health, ~Faulted(Polled(h))
  PROVE  Polled(h) = h /\ ~Faulted(h) /\ ~(Age(h.last_tick) >= Timeout)
<1>1. ~Faulted(h)
  BY DEF Polled, Faulted
<1>2. CASE Age(h.last_tick) >= Timeout
  <2>1. Polled(h).state = "TIMEOUT"
    BY <1>1, <1>2 DEF Polled, Age, Health
  <2> QED
    BY <2>1 DEF Faulted
<1>3. CASE ~(Age(h.last_tick) >= Timeout)
  BY <1>1, <1>3 DEF Polled, Age
<1> QED
  BY <1>2, <1>3

LEMMA Taken ==
  ASSUME NEW h \in Health, NEW event \in Beat, ~Faulted(Accepted(h, event))
  PROVE  Accepted(h, event).last_tick = event.tick
<1>1. ~Faulted(h)
  BY DEF Accepted
<1>2. event.sequence = h.next_sequence
  <2>1. SUFFICES ASSUME event.sequence # h.next_sequence PROVE FALSE
    OBVIOUS
  <2>2. Accepted(h, event).state = "SEQUENCE"
    BY <1>1, <2>1 DEF Accepted, Health
  <2> QED
    BY <2>2 DEF Faulted
<1>3. CASE \/ Since(now, h.last_tick) >= Timeout
           \/ Since(now, event.tick) >= Timeout
           \/ Since(event.tick, h.last_tick) >= Timeout
  <2>1. Accepted(h, event) = [h EXCEPT !.state = "TIMEOUT"]
    BY <1>1, <1>2, <1>3 DEF Accepted
  <2>2. Accepted(h, event).state = "TIMEOUT"
    BY <2>1 DEF Health
  <2> QED
    BY <2>2 DEF Faulted
<1>4. CASE ~(\/ Since(now, h.last_tick) >= Timeout
             \/ Since(now, event.tick) >= Timeout
             \/ Since(event.tick, h.last_tick) >= Timeout)
  BY <1>1, <1>2, <1>4 DEF Accepted
<1> QED
  BY <1>3, <1>4

(* After a check that found no fault, the last heartbeat is young and      *)
(* older than everything that is left in the queue.                        *)
LEMMA SilenceMonitor ==
  ASSUME TypeOK, Silence, Monitor PROVE Silence'
<1> DEFINE h == QueueChecked(health)
           n == Len(heartbeat_queue)
<1>1. /\ now' = now /\ spc = "loop" /\ waited' = 0 /\ overdue' = 0
      /\ inhibited' = Faulted(health')
      /\ quiet' = IF inhibited' THEN NotYet ELSE quiet
      /\ spc' = IF Faulted(health') THEN "fault" ELSE "loop"
  BY DEF Monitor, Supervises
<1>2. SUFFICES ASSUME ~Faulted(health') PROVE Queued' /\ Checked'
  BY <1>1 DEF Silence
<1>3. quiet' = quiet /\ Queued /\ Checked
  BY <1>1, <1>2 DEF Silence
<1>4. h \in Health
  BY HealthType DEF TypeOK
<1>5. h.last_tick = health.last_tick
  BY DEF QueueChecked, TypeOK, Health
<1>6. CASE heartbeat_queue = <<>>
  <2>1. health' = Polled(h) /\ heartbeat_queue' = <<>>
    BY <1>6 DEF Monitor
  <2>2. health' = h /\ ~(Age(h.last_tick) >= Timeout)
    BY <1>2, <1>4, <2>1, Passed
  <2>3. Age(health.last_tick) < Timeout
    BY <1>5, <2>2, AgesAreNat, LimitFacts
  <2>4. Age(health.last_tick)' = Age(health.last_tick)
    BY <1>1, <1>5, <2>2 DEF Age
  <2>5. Checked'
    BY <1>1, <1>3, <2>1, <2>3, <2>4, AgesAreNat, LimitFacts DEF Checked
  <2>6. Queued'
    BY <2>1 DEF Queued
  <2> QED
    BY <2>5, <2>6
<1>7. CASE heartbeat_queue # <<>>
  <2> DEFINE head == heartbeat_queue[1]
  <2>0. heartbeat_queue \in Seq(Beat)
    BY DEF TypeOK, Beat
  <2>1. /\ heartbeat_queue \in Seq(Beat) /\ n \in Nat /\ n >= 1
        /\ Head(heartbeat_queue) = head /\ head \in Beat
    BY <1>7, <2>0
  <2>2. /\ health' = Polled(Accepted(h, head))
        /\ heartbeat_queue' = Tail(heartbeat_queue)
    BY <1>7, <2>1 DEF Monitor
  <2>3. Accepted(h, head) \in Health
    BY <1>4, <2>1, HealthType
  <2>4. /\ health' = Accepted(h, head) /\ ~Faulted(Accepted(h, head))
        /\ ~(Age(health'.last_tick) >= Timeout)
    BY <1>2, <2>2, <2>3, Passed
  <2>5. health'.last_tick = head.tick
    BY <1>4, <2>1, <2>4, Taken
  <2>6. Len(heartbeat_queue') = n - 1
    BY <2>1, <2>2
  <2>7. \A i \in 1 .. n - 1 : heartbeat_queue'[i] = heartbeat_queue[i + 1]
    BY <2>1, <2>2
  <2>8. \A i \in 1 .. n : Age(heartbeat_queue[i].tick) \in Nat
    BY AgesAreNat
  <2>9. /\ Age(head.tick) \in Nat /\ Age(head.tick) < Timeout
        /\ quiet <= Age(head.tick)
    BY <1>3, <2>1, <2>4, <2>5, <2>8, LimitFacts DEF Queued
  <2>10. Age(health.last_tick)' = Age(head.tick)
    BY <1>1, <2>5 DEF Age
  <2>11. Queued'
    <3>1. ASSUME NEW i \in 1 .. n - 1
          PROVE  /\ quiet <= Age(heartbeat_queue'[i].tick)
                 /\ \A j \in 1 .. i :
                      Age(heartbeat_queue'[i].tick) <= Age(heartbeat_queue'[j].tick)
      <4>1. i + 1 \in 1 .. n /\ \A j \in 1 .. i : j + 1 \in 1 .. i + 1 /\ j \in 1 .. n - 1
        BY <2>1
      <4> QED
        BY <1>3, <2>7, <4>1 DEF Queued
    <3> QED
      BY <1>1, <1>3, <2>6, <3>1 DEF Queued, Age
  <2>12. heartbeat_queue' # <<>> =>
           Age(heartbeat_queue[1].tick)' <= Age(health.last_tick)'
    <3> SUFFICES ASSUME heartbeat_queue' # <<>>
                 PROVE  Age(heartbeat_queue[1].tick)' <= Age(health.last_tick)'
      OBVIOUS
    <3>1. n >= 2
      BY <2>1, <2>2
    <3>2. heartbeat_queue'[1] = heartbeat_queue[2]
      BY <2>1, <2>7, <3>1
    <3>3. Age(heartbeat_queue[2].tick) <= Age(heartbeat_queue[1].tick)
      BY <1>3, <2>1, <3>1 DEF Queued
    <3> QED
      BY <1>1, <2>10, <3>2, <3>3 DEF Age
  <2>13. Checked'
    BY <1>1, <1>3, <2>9, <2>10, <2>12, LimitFacts DEF Checked
  <2> QED
    BY <2>11, <2>13
<1> QED
  BY <1>6, <1>7

(* A tick makes everything one older; a counter that comes round within    *)
(* the silence would be the only exception.                                *)
LEMMA Aged ==
  ASSUME TypeOK, Tick
  PROVE  /\ \A x \in Tock : Age(x) + 1 < Ticks => Since(now', x) = Age(x) + 1
         /\ quiet' \in Int /\ quiet \in Int /\ quiet' <= quiet + 1
         /\ spc' = spc /\ health' = health /\ heartbeat_queue' = heartbeat_queue
         /\ last_sent' = last_sent /\ sequence' = sequence
<1>1. now' = Advance(now) /\ now \in Tock
  BY Ticked DEF Tick
<1>2. quiet' = quiet \/ quiet' = quiet + 1
  BY DEF Tick
<1>3. quiet \in Int
  BY LimitFacts DEF TypeOK, NotYet
<1>4. /\ spc' = spc /\ health' = health /\ heartbeat_queue' = heartbeat_queue
      /\ last_sent' = last_sent /\ sequence' = sequence
  BY DEF Tick, beatVars
<1>5. quiet' \in Int /\ quiet' <= quiet + 1
  BY <1>2, <1>3
<1> QED
  BY <1>1, <1>3, <1>4, <1>5, AgeFacts DEF Age

(* While it monitors, every tick is counted by the supervisor.             *)
LEMMA Counted ==
  ASSUME TypeOK, Served, Tick, spc = "loop"
  PROVE  /\ waited + overdue + 1 <= waited' + overdue'
         /\ waited' \in Nat /\ overdue' \in Nat
         /\ waited' <= Heartbeat /\ overdue' <= MaxLag
<1>1. /\ waited \in Nat /\ overdue \in Nat
      /\ waited <= Heartbeat /\ overdue <= MaxLag
  BY LimitFacts DEF TypeOK
<1>2. /\ overdue > 0 => Runnable
      /\ waited = Heartbeat => Runnable
  BY DEF Tick, Served, Runnable
<1>3. /\ Runnable => overdue < MaxLag
      /\ waited' = IF waited < Heartbeat THEN waited + 1 ELSE waited
      /\ overdue' = IF Runnable THEN overdue + 1 ELSE 0
  BY DEF Tick
<1>4. CASE Runnable
  BY <1>1, <1>3, <1>4, LimitFacts
<1>5. CASE ~Runnable
  BY <1>1, <1>2, <1>3, <1>5, LimitFacts
<1> QED
  BY <1>4, <1>5

LEMMA Sums ==
  \A t, l, w, o, v, p, h, m \in Nat :
    l < t + w + o /\ w + o + 1 <= v + p /\ v <= h /\ p <= m =>
      l + 1 < t + v + p /\ l + 1 < t + h + m
  OBVIOUS

LEMMA SilenceTick ==
  ASSUME MaxLag < Heartbeat, TypeOK, Served, Silence, Tick PROVE Silence'
<1> DEFINE n == Len(heartbeat_queue)
           q(i) == heartbeat_queue[i].tick
<1>1. /\ \A x \in Tock : Age(x) + 1 < Ticks => Since(now', x) = Age(x) + 1
      /\ quiet' \in Int /\ quiet \in Int /\ quiet' <= quiet + 1
      /\ spc' = spc /\ health' = health /\ heartbeat_queue' = heartbeat_queue
  BY Aged
<1>2. /\ n \in Nat /\ (n = 0 <=> heartbeat_queue = <<>>)
      /\ \A i \in 1 .. n : q(i) \in Tock /\ Age(q(i)) \in Nat
      /\ health.last_tick \in Tock /\ Age(health.last_tick) \in Nat
  BY Ticked, AgesAreNat, SMTT(30) DEF TypeOK
<1> HIDE DEF n, q
<1>3. ASSUME Queued, \A i \in 1 .. n : Age(q(i)) + 1 < Ticks
      PROVE  Queued' /\ \A i \in 1 .. n : Since(now', q(i)) = Age(q(i)) + 1
  <2>1. \A i \in 1 .. n : Since(now', q(i)) = Age(q(i)) + 1
    BY <1>1, <1>2, <1>3
  <2>2. ASSUME NEW i \in 1 .. n
        PROVE  /\ quiet' <= Since(now', q(i))
               /\ \A j \in 1 .. i : Since(now', q(i)) <= Since(now', q(j))
    <3>1. /\ quiet <= Age(q(i))
          /\ \A j \in 1 .. i : Age(q(i)) <= Age(q(j)) /\ j \in 1 .. n
      BY <1>2, <1>3 DEF Queued, n, q
    <3> QED
      BY <1>1, <1>2, <2>1, <3>1
  <2>3. Queued'
    BY <1>1, <2>2 DEF Queued, Age, n, q
  <2> QED
    BY <2>1, <2>3
<1>4. Queued => \A i \in 1 .. n : 1 \in 1 .. n /\ Age(q(i)) <= Age(q(1))
  BY <1>2 DEF Queued, n, q
<1>5. CASE spc = "wait"
  <2>1. /\ Queued /\ Peeked /\ overdue \in Nat
        /\ (heartbeat_queue # <<>> <=> Runnable)
    BY <1>5, LimitFacts DEF Silence, TypeOK, Runnable
  <2>2. CASE heartbeat_queue = <<>>
    <3>1. overdue' = 0
      BY <2>1, <2>2 DEF Tick
    <3> QED
      BY <1>1, <1>2, <1>5, <2>2, <3>1 DEF Silence, Queued, Peeked, n
  <2>3. CASE heartbeat_queue # <<>>
    <3>1. overdue < MaxLag /\ overdue' = overdue + 1
      BY <2>1, <2>3 DEF Tick
    <3>2. Age(q(1)) <= overdue /\ 1 \in 1 .. n
      BY <1>2, <2>1, <2>3 DEF Peeked, q
    <3>3. \A i \in 1 .. n : Age(q(i)) + 1 < Ticks
      BY <1>2, <1>4, <2>1, <3>1, <3>2, LimitFacts
    <3>4. Queued' /\ Since(now', q(1)) = Age(q(1)) + 1
      BY <1>3, <2>1, <3>2, <3>3
    <3>5. Since(now', q(1)) <= overdue'
      BY <1>2, <2>1, <3>1, <3>2, <3>4
    <3>6. Peeked'
      BY <1>1, <2>3, <3>5 DEF Peeked, Age, q
    <3> QED
      BY <1>1, <1>5, <3>4, <3>6 DEF Silence
  <2> QED
    BY <2>2, <2>3
<1>6. CASE spc = "loop"
  <2> DEFINE last == Age(health.last_tick)
  <2>1. Queued /\ Checked
    BY <1>6 DEF Silence
  <2>2. /\ waited + overdue + 1 <= waited' + overdue'
        /\ waited' \in Nat /\ overdue' \in Nat
        /\ waited' <= Heartbeat /\ overdue' <= MaxLag
    BY <1>6, Counted
  <2>3. waited \in Nat /\ overdue \in Nat
    BY LimitFacts DEF TypeOK
  <2>4. /\ last < Timeout + waited + overdue /\ quiet <= last
        /\ heartbeat_queue # <<>> => Age(q(1)) <= last
    BY <2>1 DEF Checked, q
  <2>5. last \in Nat /\ last + 1 < Ticks
    <3>1. last \in Nat
      BY <1>2
    <3>2. last < Timeout + waited + overdue
      BY <2>4
    <3> HIDE DEF last
    <3>3. last + 1 < Timeout + Heartbeat + MaxLag
      BY <2>2, <2>3, <3>1, <3>2, LimitFacts, Sums
    <3>4. Timeout + Heartbeat + MaxLag < Ticks
      BY LimitFacts
    <3> QED
      BY <3>1, <3>3, <3>4, LimitFacts
  <2>6. Since(now', health.last_tick) = last + 1
    BY <1>1, <1>2, <2>5
  <2>7. \A i \in 1 .. n : Age(q(i)) <= last
    BY <1>2, <1>4, <2>1, <2>4, <2>5
  <2>8. /\ Queued'
        /\ \A i \in 1 .. n : Since(now', q(i)) = Age(q(i)) + 1
    <3>1. \A i \in 1 .. n : Age(q(i)) + 1 < Ticks
      BY <1>2, <2>5, <2>7, LimitFacts
    <3> QED
      BY <1>3, <2>1, <3>1
  <2>9. /\ quiet' <= Since(now', health.last_tick)
        /\ Since(now', health.last_tick) < Timeout + waited' + overdue'
    <3>1. last \in Nat /\ last < Timeout + waited + overdue /\ quiet <= last
      BY <2>4, <2>5
    <3>2. quiet' \in Int /\ quiet \in Int /\ quiet' <= quiet + 1
      BY <1>1
    <3> HIDE DEF last
    <3>3. last + 1 < Timeout + waited' + overdue'
      BY <2>2, <2>3, <3>1, LimitFacts, Sums
    <3>4. quiet' <= last + 1
      BY <3>1, <3>2
    <3> QED
      BY <2>6, <3>3, <3>4
  <2>10. heartbeat_queue # <<>> => Since(now', q(1)) <= Since(now', health.last_tick)
    <3> SUFFICES ASSUME heartbeat_queue # <<>>
                 PROVE  Since(now', q(1)) <= Since(now', health.last_tick)
      OBVIOUS
    <3>1. 1 \in 1 .. n
      BY <1>2
    <3>2. Since(now', q(1)) = Age(q(1)) + 1 /\ Age(q(1)) <= last /\ Age(q(1)) \in Nat
      BY <1>2, <2>7, <2>8, <3>1
    <3> QED
      BY <2>5, <2>6, <3>2
  <2>11. Checked'
    BY <1>1, <2>9, <2>10 DEF Checked, Age, q
  <2> QED
    BY <1>1, <1>6, <2>8, <2>11 DEF Silence
<1>7. CASE spc = "fault"
  BY <1>1, <1>7 DEF Silence
<1> QED
  BY <1>5, <1>6, <1>7 DEF TypeOK

LEMMA SilenceReset ==
  ASSUME Reset PROVE Silence'
  BY DEF Reset, Silence, Queued, Peeked

LEMMA SilenceStep ==
  ASSUME MaxLag < Heartbeat, TypeOK, Served, Silence, [Next]_vars PROVE Silence'
<1>1. CASE BeatSkipped \/ BeatRefused
  BY <1>1, SilenceSkip
<1>2. CASE BeatSent
  BY <1>2, SilenceSent
<1>3. CASE StartMonitoring
  BY <1>3, SilenceStart
<1>4. CASE Monitor
  BY <1>4, SilenceMonitor
<1>5. CASE KeepServing
  BY <1>5 DEF KeepServing, Supervises, Silence
<1>6. CASE Tick
  BY <1>6, SilenceTick
<1>7. CASE Halt \/ WatchdogResets
  BY <1>7, SilenceReset DEF Halt, WatchdogResets
<1>8. CASE WatchdogCounts \/ UNCHANGED vars
  <2>1. /\ now' = now /\ spc' = spc /\ health' = health /\ waited' = waited
        /\ overdue' = overdue /\ heartbeat_queue' = heartbeat_queue
        /\ quiet' = quiet
    BY <1>8 DEF WatchdogCounts, vars, superVars, beatVars
  <2> QED
    BY <2>1 DEF Silence, Queued, Peeked, Checked, Age
<1> QED
  BY <1>1, <1>2, <1>3, <1>4, <1>5, <1>6, <1>7, <1>8 DEF Next

(* A silence of the experiment task ends in a fault of its health within   *)
(* the timeout, one period and the supervisor's lag, also when it begins   *)
(* with a full queue, with the counter about to come round, or before the  *)
(* supervisor has looked at anything.                                      *)
THEOREM StallIsDetected ==
  ASSUME MaxLag < Heartbeat
  PROVE  Spec => []StallDetected
<1>1. Init => TypeOK /\ Served /\ Silence
  <2>1. Init => Silence
    BY DEF Init, Silence, Queued, Peeked
  <2> QED
    BY <2>1, InitType DEF Init, Served, Off
<1>2. TypeOK /\ Served /\ Silence /\ [Next]_vars => (TypeOK /\ Served /\ Silence)'
  BY TypeStep, ServedStep, SilenceStep
<1>3. TypeOK /\ Served /\ Silence => StallDetected
  <2> SUFFICES ASSUME TypeOK, Silence, spc = "loop", quiet = Silent PROVE FALSE
    BY DEF StallDetected
  <2>1. /\ quiet <= Age(health.last_tick)
        /\ Age(health.last_tick) < Timeout + waited + overdue
    BY DEF Silence, Checked
  <2>2. Age(health.last_tick) \in Nat /\ waited <= Heartbeat /\ overdue <= MaxLag
        /\ waited \in Nat /\ overdue \in Nat
    BY AgesAreNat, LimitFacts DEF TypeOK
  <2> QED
    BY <2>1, <2>2, LimitFacts
<1> QED
  BY <1>1, <1>2, <1>3, PTL DEF Spec

-----------------------------------------------------------------------------
(* No false alarm. What the constants must leave: a supervisor less than a *)
(* period late and three such delays within the timeout, room for a second *)
(* heartbeat, and numbers that do not come round within the time in which  *)
(* a late supervisor catches up.                                           *)
Margins ==
  /\ MaxLag < Heartbeat
  /\ 3 * MaxLag < Timeout
  /\ MaxLag + 1 < Numbers
  /\ QueueLength > 1

First == heartbeat_queue[1]
Second == heartbeat_queue[2]

(* Nothing is latched, the last call is recent, at most two heartbeats are *)
(* queued, and the first of them before monitoring begins.                 *)
Calm ==
  /\ ~queue_failed /\ ~inhibited
  /\ spc \in {"wait", "loop"} /\ health.state \in {"WAITING", "RUNNING"}
  /\ quiet < LateAfter
  /\ Len(heartbeat_queue) <= 2
  /\ quiet = NotYet => spc = "wait" /\ heartbeat_queue = <<>> /\ sequence = 0
  /\ spc = "wait" /\ quiet # NotYet => heartbeat_queue # <<>>

(* The numbers expected, queued and sent next follow each other.           *)
Numbered ==
  /\ spc = "wait" => health.next_sequence = 0
  /\ heartbeat_queue = <<>> => sequence = health.next_sequence
  /\ heartbeat_queue # <<>> => First.sequence = health.next_sequence
  /\ Len(heartbeat_queue) = 1 => sequence = NextNumber(First.sequence)
  /\ Len(heartbeat_queue) = 2 =>
       /\ Second.sequence = NextNumber(First.sequence)
       /\ sequence = NextNumber(Second.sequence)

(* The last heartbeat that was sent is the last one queued or else         *)
(* accepted, and is older than the last call by less than a period.        *)
Latest ==
  quiet # NotYet =>
    /\ Age(last_sent) < Heartbeat + quiet
    /\ heartbeat_queue = <<>> => health.last_tick = last_sent
    /\ Len(heartbeat_queue) = 1 => First.tick = last_sent
    /\ Len(heartbeat_queue) = 2 => Second.tick = last_sent

(* How old a heartbeat with a number can be when it is taken at the latest: *)
(* number 0 is not rate-limited and may wait behind another one; one lag   *)
(* at least a tick shorter than a period is caught up with every further.  *)
Bound(number) == MaxLag + (IF number < MaxLag THEN MaxLag - number ELSE 0)

(* Before it monitors, the supervisor only peeks at the first heartbeat.   *)
Lead == IF spc = "wait" THEN MaxLag ELSE 0

Prompt ==
  /\ heartbeat_queue # <<>> =>
       Age(First.tick) + (MaxLag - overdue) + Lead <= Bound(First.sequence)
  /\ Len(heartbeat_queue) = 2 =>
       Age(Second.tick) + MaxLag + (MaxLag - overdue) + Lead <= Bound(Second.sequence)

(* Only number 0 may follow its predecessor within a period.               *)
Spaced ==
  Len(heartbeat_queue) = 2 =>
    IF Second.sequence = 0 THEN Age(Second.tick) <= Age(First.tick)
    ELSE Age(Second.tick) + Heartbeat <= Age(First.tick)

(* What is queued is taken before the last one accepted is too old.        *)
Near ==
  spc = "loop" /\ heartbeat_queue # <<>> =>
    Age(health.last_tick) + (MaxLag - overdue) < Timeout

Living == ~late => Calm /\ Numbered /\ Latest /\ Prompt /\ Spaced /\ Near

LEMMA BoundFacts ==
  /\ \A s \in Nat : /\ Bound(s) \in Nat /\ MaxLag <= Bound(s)
                    /\ Bound(s) <= 2 * MaxLag /\ Bound(s) <= Bound(s + 1) + 1
  /\ \A s \in Nat : s >= MaxLag => Bound(s) = MaxLag
  /\ Bound(0) = 2 * MaxLag
  BY LimitFacts DEF Bound

LEMMA MarginFacts ==
  ASSUME Margins
  PROVE  /\ 0 < LateAfter /\ LateAfter < Silent /\ LateAfter \in Int
         /\ Heartbeat + LateAfter = Timeout - MaxLag
         /\ MaxLag < Heartbeat /\ 3 * MaxLag < Timeout /\ MaxLag + 1 < Numbers
  BY LimitFacts DEF Margins

(* The queue as its two places.                                            *)
LEMMA Places ==
  ASSUME TypeOK
  PROVE  /\ Len(heartbeat_queue) \in Nat
         /\ Len(heartbeat_queue) = 0 <=> heartbeat_queue = <<>>
         /\ Len(heartbeat_queue) >= 1 =>
              /\ First \in Beat /\ First.tick \in Tock /\ Age(First.tick) \in Nat
              /\ First.sequence \in 0 .. Numbers - 1 /\ First.sequence \in Nat
         /\ Len(heartbeat_queue) >= 2 =>
              /\ Second.tick \in Tock /\ Age(Second.tick) \in Nat
              /\ Second.sequence \in 0 .. Numbers - 1 /\ Second.sequence \in Nat
         /\ overdue \in Nat /\ overdue <= MaxLag
         /\ Age(last_sent) \in Nat /\ Age(health.last_tick) \in Nat
         /\ sequence \in 0 .. Numbers - 1 /\ health.next_sequence \in 0 .. Numbers - 1
         /\ Lead \in Nat /\ Lead <= MaxLag
<1>1. heartbeat_queue \in Seq(Beat)
  BY DEF TypeOK, Beat
<1>2. /\ Len(heartbeat_queue) \in Nat
      /\ Len(heartbeat_queue) = 0 <=> heartbeat_queue = <<>>
      /\ \A i \in 1 .. Len(heartbeat_queue) : heartbeat_queue[i] \in Beat
  BY <1>1
<1>3. /\ Len(heartbeat_queue) >= 1 =>
              /\ First \in Beat /\ First.tick \in Tock /\ Age(First.tick) \in Nat
              /\ First.sequence \in 0 .. Numbers - 1 /\ First.sequence \in Nat
  BY <1>2, Ticked, AgesAreNat, LimitFacts DEF First
<1>4. Len(heartbeat_queue) >= 2 =>
              /\ Second.tick \in Tock /\ Age(Second.tick) \in Nat
              /\ Second.sequence \in 0 .. Numbers - 1 /\ Second.sequence \in Nat
  BY <1>2, Ticked, AgesAreNat, LimitFacts DEF Second
<1>5. /\ overdue \in Nat /\ overdue <= MaxLag
      /\ Age(last_sent) \in Nat /\ Age(health.last_tick) \in Nat
  BY AgesAreNat, LimitFacts DEF TypeOK
<1>6. sequence \in 0 .. Numbers - 1 /\ health.next_sequence \in 0 .. Numbers - 1
  BY DEF TypeOK, Health
<1>7. Lead \in Nat /\ Lead <= MaxLag
  BY LimitFacts DEF Lead
<1> QED
  BY <1>2, <1>3, <1>4, <1>5, <1>6, <1>7

(* With two heartbeats queued the rate limit holds the next one back.      *)
LEMMA RoomForTwo ==
  ASSUME Margins, TypeOK, Living, ~late, Len(heartbeat_queue) = 2
  PROVE  TooSoon
<1> DEFINE a == Age(First.tick)
           b == Age(Second.tick)
           s == First.sequence
           t == Second.sequence
<1>1. /\ a \in Nat /\ b \in Nat /\ overdue \in Nat /\ overdue <= MaxLag
      /\ Lead \in Nat
      /\ s \in 0 .. Numbers - 1 /\ t \in 0 .. Numbers - 1
  BY Places
<1>2. /\ t = NextNumber(s) /\ sequence = NextNumber(t)
      /\ heartbeat_queue # <<>>
  BY Places DEF Living, Numbered
<1>3. b = Age(last_sent)
  BY Places DEF Living, Calm, Latest
<1>4. a + (MaxLag - overdue) + Lead <= Bound(s)
  BY <1>2 DEF Living, Prompt
<1>5. IF t = 0 THEN b <= a ELSE b + Heartbeat <= a
  BY DEF Living, Spaced
<1> HIDE DEF a, b, s, t
<1>6. a <= 2 * MaxLag /\ (s >= MaxLag => a <= MaxLag)
  <2>1. s \in Nat
    BY <1>1, LimitFacts
  <2>2. Bound(s) \in Nat /\ Bound(s) <= 2 * MaxLag /\ (s >= MaxLag => Bound(s) = MaxLag)
    BY <2>1, BoundFacts
  <2> QED
    BY <1>1, <1>4, <2>2, LimitFacts
<1>7. /\ t = IF s + 1 = Numbers THEN 0 ELSE s + 1
      /\ sequence = IF t + 1 = Numbers THEN 0 ELSE t + 1
  BY <1>1, <1>2, NextNumberIs
<1>8. b < Heartbeat /\ sequence # 0
  <2>1. CASE t = 0
    <3>1. s + 1 = Numbers
      BY <1>1, <1>7, <2>1, LimitFacts
    <3>2. b <= MaxLag
      BY <1>1, <1>5, <1>6, <2>1, <3>1, LimitFacts, MarginFacts
    <3>3. sequence = 1
      BY <1>7, <2>1, LimitFacts, MarginFacts
    <3> QED
      BY <1>1, <3>2, <3>3, LimitFacts, MarginFacts
  <2>2. CASE t # 0
    <3>1. b + Heartbeat <= a /\ a <= 2 * MaxLag
      BY <1>5, <1>6, <2>2
    <3>2. sequence # 0
      <4> SUFFICES ASSUME sequence = 0 PROVE FALSE
        OBVIOUS
      <4>1. t + 1 = Numbers /\ t = s + 1
        BY <1>1, <1>7, <2>2, LimitFacts
      <4>2. s >= MaxLag
        BY <1>1, <4>1, LimitFacts, MarginFacts
      <4>3. a <= MaxLag
        BY <1>6, <4>2
      <4> QED
        BY <1>1, <3>1, <4>3, LimitFacts, MarginFacts
    <3> QED
      BY <1>1, <3>1, <3>2, LimitFacts, MarginFacts
  <2> QED
    BY <2>1, <2>2
<1> QED
  BY <1>3, <1>8 DEF TooSoon, Age

LEMMA LivingSkip ==
  ASSUME Margins, TypeOK, Living, ~late, BeatSkipped PROVE Living'
<1>1. /\ now' = now /\ spc' = spc /\ health' = health /\ overdue' = overdue
      /\ inhibited' = inhibited /\ quiet' = 0
      /\ heartbeat_queue' = heartbeat_queue /\ queue_failed' = queue_failed
      /\ sequence' = sequence /\ last_sent' = last_sent
  BY DEF BeatSkipped, Called, superVars, beatVars, Living, Calm
<1>2. Calm /\ Numbered /\ Latest /\ Prompt /\ Spaced /\ Near
  BY DEF Living
<1>3. quiet # NotYet /\ Age(last_sent) < Heartbeat
  BY <1>2 DEF BeatSkipped, TooSoon, Calm, Age
<1>4. Calm'
  BY <1>1, <1>2, <1>3, MarginFacts DEF Calm, NotYet
<1>5. Numbered'
  BY <1>1, <1>2 DEF Numbered, First, Second
<1>6. Latest'
  BY <1>1, <1>2, <1>3, LimitFacts DEF Latest, First, Second, Age
<1>7. Prompt' /\ Spaced' /\ Near'
  BY <1>1, <1>2 DEF Prompt, Spaced, Near, Lead, First, Second, Age
<1> QED
  BY <1>4, <1>5, <1>6, <1>7 DEF Living

(* A heartbeat is sent into a queue of at most one.                        *)
LEMMA LivingSent ==
  ASSUME Margins, TypeOK, Living, ~late, BeatSent PROVE Living'
<1> DEFINE n == Len(heartbeat_queue)
           new == [sequence |-> sequence, tick |-> now]
<1>1. /\ now' = now /\ spc' = spc /\ health' = health /\ overdue' = overdue
      /\ inhibited' = inhibited /\ quiet' = 0
      /\ heartbeat_queue' = Append(heartbeat_queue, new)
      /\ queue_failed' = queue_failed
      /\ sequence' = NextNumber(sequence) /\ last_sent' = now
  BY DEF BeatSent, Called, superVars, Living, Calm
<1>2. Calm /\ Numbered /\ Latest /\ Prompt /\ Spaced /\ Near
  BY DEF Living
<1>3. n \in {0, 1}
  <2>1. n # 2
    BY RoomForTwo DEF BeatSent
  <2>2. n \in Nat
    BY Places
  <2>3. n <= 2
    BY <1>2 DEF Calm
  <2> HIDE DEF n
  <2> QED
    BY <2>1, <2>2, <2>3
<1>4. /\ Len(heartbeat_queue') = n + 1
      /\ n = 0 => First' = new
      /\ n = 1 => First' = First /\ Second' = new
      /\ heartbeat_queue' # <<>>
  <2>1. heartbeat_queue \in Seq(Beat) /\ n \in Nat
    BY DEF TypeOK, Beat
  <2>2. /\ Len(heartbeat_queue') = n + 1
        /\ heartbeat_queue'[n + 1] = new
        /\ \A i \in 1 .. n : heartbeat_queue'[i] = heartbeat_queue[i]
    BY <1>1, <2>1
  <2>3. heartbeat_queue' # <<>>
    BY <2>1, <2>2
  <2> QED
    BY <2>2, <2>3 DEF First, Second
<1>5. /\ Age(now) = 0 /\ Since(now', now) = 0
      /\ new.tick = now /\ new.sequence = sequence
  BY <1>1, Ticked, AgeFacts DEF Age
<1>6. /\ overdue \in Nat /\ overdue <= MaxLag /\ Lead \in Nat /\ Lead <= MaxLag
      /\ Lead' = Lead
      /\ MaxLag - overdue \in Nat /\ MaxLag - overdue <= MaxLag
  <2>1. overdue \in Nat /\ overdue <= MaxLag /\ Lead \in Nat /\ Lead <= MaxLag
    BY Places
  <2> QED
    BY <1>1, <2>1, LimitFacts DEF Lead
<1> HIDE DEF n, new
<1>7. Calm'
  BY <1>1, <1>2, <1>3, <1>4, MarginFacts DEF Calm, NotYet, n
<1>8. Numbered'
  <2>1. CASE n = 0
    BY <1>1, <1>2, <1>4, <1>5, <2>1, Places DEF Numbered, n
  <2>2. CASE n = 1
    BY <1>1, <1>2, <1>4, <1>5, <2>2, Places DEF Numbered, n
  <2> QED
    BY <1>3, <2>1, <2>2
<1>9. Latest'
  <2>1. Age(last_sent)' = 0
    BY <1>1, <1>5 DEF Age
  <2>2. CASE n = 0
    BY <1>1, <1>4, <1>5, <2>1, <2>2, LimitFacts DEF Latest
  <2>3. CASE n = 1
    BY <1>1, <1>4, <1>5, <2>1, <2>3, LimitFacts DEF Latest
  <2> QED
    BY <1>3, <2>2, <2>3
<1>10. CASE n = 0
  <2>1. heartbeat_queue = <<>> /\ First' = new /\ Len(heartbeat_queue') = 1
    BY <1>4, <1>10, Places DEF n
  <2>2. Age(First.tick)' = 0 /\ First'.sequence = sequence
    BY <1>1, <1>5, <2>1 DEF Age
  <2>3. (MaxLag - overdue) + Lead <= Bound(sequence)
    <3>1. sequence \in Nat /\ Bound(sequence) \in Nat /\ MaxLag <= Bound(sequence)
      <4>1. sequence \in Nat
        BY Places, LimitFacts
      <4> QED
        BY <4>1, BoundFacts
    <3>2. CASE spc = "wait"
      <4>1. Bound(sequence) = 2 * MaxLag
        BY <1>2, <2>1, <3>2, BoundFacts DEF Numbered
      <4> QED
        BY <1>6, <4>1, LimitFacts
    <3>3. CASE spc # "wait"
      BY <1>6, <3>1, <3>3, LimitFacts DEF Lead
    <3> QED
      BY <3>2, <3>3
  <2>4. Prompt'
    BY <1>1, <1>6, <2>1, <2>2, <2>3, LimitFacts DEF Prompt
  <2>5. Spaced'
    BY <2>1, SMTT(30) DEF Spaced
  <2>6. Near'
    <3> SUFFICES ASSUME spc = "loop"
                 PROVE  Age(health.last_tick)' + (MaxLag - overdue) < Timeout
      BY <1>1 DEF Near
    <3>1. quiet # NotYet
      BY <1>2 DEF Calm
    <3>2. Age(health.last_tick)' = Age(last_sent)
      BY <1>1, <1>2, <2>1, <3>1 DEF Latest, Age
    <3>3. Age(last_sent) < Heartbeat + quiet /\ quiet < LateAfter
      BY <1>2, <3>1 DEF Latest, Calm
    <3>4. Age(last_sent) \in Nat /\ quiet \in Int
      BY Places, LimitFacts DEF TypeOK, NotYet
    <3>5. Age(last_sent) + MaxLag < Timeout
      BY <3>3, <3>4, LimitFacts, MarginFacts
    <3> QED
      BY <1>6, <3>2, <3>4, <3>5, LimitFacts
  <2> QED
    BY <1>7, <1>8, <1>9, <2>4, <2>5, <2>6 DEF Living
<1>11. CASE n = 1
  <2> DEFINE a == Age(First.tick)
             s == First.sequence
             slack == MaxLag - overdue
  <2>1. /\ heartbeat_queue # <<>> /\ Len(heartbeat_queue') = 2
        /\ First' = First /\ Second' = new
        /\ a \in Nat /\ s \in 0 .. Numbers - 1 /\ s \in Nat
    BY <1>4, <1>11, Places DEF n
  <2>2. sequence = IF s + 1 = Numbers THEN 0 ELSE s + 1
    BY <1>2, <1>11, <2>1, NextNumberIs DEF Numbered, n
  <2>3. a = Age(last_sent)
    BY <1>2, <1>11, <2>1 DEF Latest, Calm, n
  <2>4. sequence # 0 => Heartbeat <= a
    BY <2>1, <2>3, LimitFacts DEF BeatSent, TooSoon, Age
  <2>5. a + slack + Lead <= Bound(s)
    BY <1>2, <2>1 DEF Prompt
  <2>6. /\ Age(First.tick)' = a /\ Age(Second.tick)' = 0
        /\ Second'.sequence = sequence
    BY <1>1, <1>5, <2>1 DEF Age
  <2> HIDE DEF a, s, slack
  <2>7. MaxLag + slack + Lead <= Bound(sequence)
    <3>1. /\ Bound(s) \in Nat /\ Bound(s) <= Bound(s + 1) + 1
          /\ (s >= MaxLag => Bound(s) = MaxLag) /\ Bound(s + 1) \in Nat
      BY <2>1, BoundFacts
    <3>2. slack \in Nat /\ Lead \in Nat
      BY <1>6 DEF slack
    <3>3. CASE s + 1 = Numbers
      <4>1. s >= MaxLag
        BY <2>1, <3>3, LimitFacts, MarginFacts
      <4>2. sequence = 0
        BY <2>2, <3>3
      <4>3. Bound(sequence) = 2 * MaxLag /\ Bound(s) = MaxLag
        BY <3>1, <4>1, <4>2, BoundFacts
      <4> QED
        BY <2>1, <2>5, <3>2, <4>3, LimitFacts
    <3>4. CASE s + 1 # Numbers
      <4>1. sequence = s + 1 /\ Heartbeat <= a
        BY <2>1, <2>2, <2>4, <3>4
      <4>2. MaxLag + 1 <= a
        BY <2>1, <4>1, LimitFacts, MarginFacts
      <4>3. MaxLag + slack + Lead + 1 <= Bound(s)
        BY <2>1, <2>5, <3>1, <3>2, <4>2, LimitFacts
      <4> QED
        BY <3>1, <3>2, <4>1, <4>3, LimitFacts
    <3> QED
      BY <3>3, <3>4
  <2>8. Prompt'
    <3>1. /\ Age(First.tick)' + (MaxLag - overdue)' + Lead' <= Bound(First'.sequence)
      BY <1>1, <1>6, <2>1, <2>5, <2>6 DEF a, s, slack
    <3>2. Age(Second.tick)' + MaxLag + (MaxLag - overdue)' + Lead' <= Bound(Second'.sequence)
      BY <1>1, <1>6, <2>6, <2>7, LimitFacts DEF slack
    <3> QED
      BY <3>1, <3>2 DEF Prompt, Bound
  <2>9. Spaced'
    BY <2>1, <2>4, <2>6, LimitFacts DEF Spaced
  <2>10. Near'
    BY <1>1, <1>2, <2>1 DEF Near, Age
  <2> QED
    BY <1>7, <1>8, <1>9, <2>8, <2>9, <2>10 DEF Living
<1> QED
  BY <1>3, <1>10, <1>11

(* Monitoring begins: what was peeked at is at most one lag old.           *)
LEMMA LivingStart ==
  ASSUME Margins, TypeOK, Living, ~late, StartMonitoring PROVE Living'
<1> DEFINE n == Len(heartbeat_queue)
<1>1. /\ now' = now /\ quiet' = quiet /\ heartbeat_queue' = heartbeat_queue
      /\ spc = "wait" /\ spc' = "loop" /\ overdue' = 0
      /\ inhibited' = inhibited /\ queue_failed' = queue_failed
      /\ sequence' = sequence /\ last_sent' = last_sent
      /\ health' = [health EXCEPT !.last_tick = Head(heartbeat_queue).tick]
      /\ heartbeat_queue # <<>>
  BY DEF StartMonitoring, Supervises, Runnable
<1>2. Calm /\ Numbered /\ Latest /\ Prompt /\ Spaced /\ Near
  BY DEF Living
<1>3. /\ health'.last_tick = First.tick /\ health'.state = health.state
      /\ health'.next_sequence = health.next_sequence
  BY <1>1 DEF TypeOK, Health, First
<1>4. /\ n \in Nat /\ n >= 1
      /\ Age(First.tick) \in Nat /\ First.sequence \in Nat
      /\ overdue \in Nat /\ overdue <= MaxLag /\ Lead = MaxLag /\ Lead' = 0
      /\ Bound(First.sequence) \in Nat /\ Bound(First.sequence) <= 2 * MaxLag
  BY <1>1, Places, BoundFacts DEF Lead
<1>5. Calm'
  BY <1>1, <1>2, <1>3 DEF Calm
<1>6. Numbered'
  BY <1>1, <1>2, <1>3 DEF Numbered, First, Second
<1>7. Latest'
  BY <1>1, <1>2 DEF Latest, First, Second, Age
<1>8. Spaced'
  BY <1>1, <1>2 DEF Spaced, First, Second, Age
<1>9. Age(First.tick) + (MaxLag - overdue) + MaxLag <= Bound(First.sequence)
  BY <1>1, <1>2, <1>4 DEF Prompt
<1>10. Prompt'
  <2>1. Age(First.tick)' = Age(First.tick) /\ First' = First
    BY <1>1 DEF First, Age
  <2>2. Age(First.tick) + MaxLag <= Bound(First.sequence)
    BY <1>4, <1>9, LimitFacts
  <2>3. ASSUME n = 2
        PROVE  /\ Age(Second.tick)' = Age(Second.tick) /\ Second' = Second
               /\ Age(Second.tick) + MaxLag + MaxLag <= Bound(Second.sequence)
    <3>1. Age(Second.tick) \in Nat /\ Second.sequence \in Nat
      BY <2>3, Places
    <3>2. Bound(Second.sequence) \in Nat
      BY <3>1, BoundFacts
    <3>3. Age(Second.tick) + MaxLag + (MaxLag - overdue) + MaxLag <= Bound(Second.sequence)
      BY <1>2, <1>4, <2>3 DEF Prompt
    <3>4. Age(Second.tick)' = Age(Second.tick) /\ Second' = Second
      BY <1>1 DEF Second, Age
    <3> QED
      BY <1>4, <3>1, <3>2, <3>3, <3>4, LimitFacts
  <2>4. Age(First.tick)' + (MaxLag - overdue') + Lead' <= Bound(First.sequence)
    BY <1>1, <1>4, <2>1, <2>2, LimitFacts
  <2>5. ASSUME n = 2
        PROVE  Age(Second.tick)' + MaxLag + (MaxLag - overdue') + Lead' <= Bound(Second.sequence)
    <3>1. Age(Second.tick) \in Nat
      BY <2>5, Places
    <3>2. /\ Age(Second.tick)' = Age(Second.tick)
          /\ Age(Second.tick) + MaxLag + MaxLag <= Bound(Second.sequence)
      BY <2>3, <2>5
    <3>3. Age(Second.tick) + MaxLag + (MaxLag - 0) + 0 = Age(Second.tick) + MaxLag + MaxLag
      BY <3>1, LimitFacts
    <3> QED
      BY <1>1, <1>4, <3>2, <3>3
  <2>6. First'.sequence = First.sequence /\ (n = 2 => Second'.sequence = Second.sequence)
    BY <2>1, <2>3
  <2> QED
    BY <1>1, <2>4, <2>5, <2>6 DEF Prompt, Bound
<1>11. Near'
  <2>1. Age(health.last_tick)' = Age(First.tick)
    BY <1>1, <1>3 DEF Age
  <2>2. Age(First.tick) + MaxLag < Timeout
    BY <1>4, <1>9, LimitFacts, MarginFacts
  <2> QED
    BY <1>1, <1>4, <2>1, <2>2, LimitFacts DEF Near
<1> QED
  BY <1>5, <1>6, <1>7, <1>8, <1>10, <1>11 DEF Living

(* What the supervisor checks of a living task passes all its checks.      *)
LEMMA LivingPasses ==
  ASSUME Margins, TypeOK, Silence, Living, ~late, Monitor
  PROVE  /\ heartbeat_queue = <<>> => health' = health
         /\ heartbeat_queue # <<>> =>
              /\ health' = [state |-> "RUNNING", last_tick |-> First.tick,
                            next_sequence |-> NextNumber(First.sequence)]
              /\ heartbeat_queue' = Tail(heartbeat_queue)
              /\ Age(First.tick) + MaxLag < Timeout
         /\ heartbeat_queue = <<>> => heartbeat_queue' = heartbeat_queue
<1> DEFINE last == Age(health.last_tick)
           a == Age(First.tick)
<1>1. Calm /\ Numbered /\ Latest /\ Prompt /\ Near
  BY DEF Living
<1>2. spc = "loop" /\ quiet # NotYet /\ Checked
  BY <1>1 DEF Monitor, Supervises, Calm, Silence
<1>3. QueueChecked(health) = health /\ ~Faulted(health)
  BY <1>1 DEF QueueChecked, Calm, Faulted
<1>4. /\ last \in Nat /\ Age(last_sent) \in Nat /\ quiet \in Int
      /\ overdue \in Nat /\ overdue <= MaxLag
  BY Places, LimitFacts DEF TypeOK, NotYet
<1>5. CASE heartbeat_queue = <<>>
  <2>1. last = Age(last_sent) /\ Age(last_sent) < Heartbeat + quiet /\ quiet < LateAfter
    BY <1>1, <1>2, <1>5 DEF Latest, Calm
  <2>2. last < Timeout
    BY <1>4, <2>1, LimitFacts, MarginFacts
  <2>3. ~(Since(now, health.last_tick) >= Timeout)
    BY <1>4, <2>2, LimitFacts DEF Age
  <2> QED
    BY <1>3, <1>5, <2>3 DEF Monitor, Polled
<1>6. CASE heartbeat_queue # <<>>
  <2>1. /\ a \in Nat /\ First \in Beat /\ First.sequence \in Nat /\ First.tick \in Tock
        /\ Head(heartbeat_queue) = First
    <3>1. heartbeat_queue \in Seq(Beat) /\ Len(heartbeat_queue) >= 1
      BY <1>6 DEF TypeOK, Beat
    <3> QED
      BY <3>1, Places DEF First
  <2>2. last + (MaxLag - overdue) < Timeout /\ a <= last
    BY <1>1, <1>2, <1>6 DEF Near, Checked, First
  <2>3. last < Timeout /\ a < Timeout
    BY <1>4, <2>1, <2>2, LimitFacts
  <2>4. Since(First.tick, health.last_tick) = last - a
    <3>1. now \in Tock /\ health.last_tick \in Tock
      BY Ticked
    <3> QED
      BY <2>1, <2>2, <3>1, AgeFacts DEF Age
  <2>5. /\ ~(Since(now, health.last_tick) >= Timeout)
        /\ ~(Since(now, First.tick) >= Timeout)
        /\ ~(Since(First.tick, health.last_tick) >= Timeout)
    BY <1>4, <2>1, <2>3, <2>4, LimitFacts DEF Age
  <2>6. First.sequence = health.next_sequence
    BY <1>1, <1>6 DEF Numbered
  <2> DEFINE running == [state |-> "RUNNING", last_tick |-> First.tick,
                         next_sequence |-> NextNumber(First.sequence)]
  <2>7. Accepted(health, First) = running
    BY <1>3, <2>5, <2>6 DEF Accepted
  <2>8. Polled(running) = running
    BY <2>5 DEF Polled
  <2>9. /\ health' = running
        /\ heartbeat_queue' = Tail(heartbeat_queue)
    BY <1>3, <1>6, <2>1, <2>7, <2>8 DEF Monitor
  <2>10. a + MaxLag < Timeout
    <3>1. a + (MaxLag - overdue) + Lead <= Bound(First.sequence)
      BY <1>1, <1>6 DEF Prompt
    <3>2. Bound(First.sequence) \in Nat /\ Bound(First.sequence) <= 2 * MaxLag
      BY <2>1, BoundFacts
    <3>3. Lead \in Nat
      BY Places
    <3> HIDE DEF a
    <3>4. a <= 2 * MaxLag
      BY <1>4, <2>1, <3>1, <3>2, <3>3, LimitFacts
    <3> QED
      BY <2>1, <3>4, LimitFacts, MarginFacts
  <2> QED
    BY <1>6, <2>9, <2>10
<1> QED
  BY <1>5, <1>6

LEMMA LivingMonitor ==
  ASSUME Margins, TypeOK, Silence, Living, ~late, Monitor PROVE Living'
<1> DEFINE n == Len(heartbeat_queue)
<1>1. /\ now' = now /\ spc = "loop" /\ overdue' = 0
      /\ inhibited' = Faulted(health')
      /\ quiet' = IF inhibited' THEN NotYet ELSE quiet
      /\ spc' = IF Faulted(health') THEN "fault" ELSE "loop"
      /\ sequence' = sequence /\ last_sent' = last_sent
      /\ queue_failed' = queue_failed
  BY DEF Monitor, Supervises
<1>2. Calm /\ Numbered /\ Latest /\ Prompt /\ Spaced /\ Near
  BY DEF Living
<1>3. n \in Nat /\ n <= 2 /\ (n = 0 <=> heartbeat_queue = <<>>) /\ quiet # NotYet
  BY <1>1, <1>2, Places DEF Calm
<1>4. /\ overdue \in Nat /\ overdue <= MaxLag /\ Lead = 0 /\ Lead' = 0
  BY <1>1, Places DEF Lead
<1>5. ~Faulted(health') /\ health'.state \in {"WAITING", "RUNNING"}
  <2>1. CASE n = 0
    BY <1>2, <1>3, <2>1, LivingPasses DEF Calm, Faulted
  <2>2. CASE n # 0
    BY <1>3, <2>2, LivingPasses DEF Faulted
  <2> QED
    BY <2>1, <2>2
<1>6. spc' = "loop" /\ quiet' = quiet /\ ~inhibited'
  BY <1>1, <1>5
<1>7. CASE n = 0
  <2>1. heartbeat_queue = <<>> /\ heartbeat_queue' = <<>> /\ health' = health
    BY <1>3, <1>7, LivingPasses
  <2>2. Calm'
    BY <1>1, <1>2, <1>6, <2>1 DEF Calm
  <2>3. Numbered'
    BY <1>1, <1>2, <1>6, <2>1 DEF Numbered
  <2>4. Latest'
    BY <1>1, <1>2, <1>6, <2>1 DEF Latest, Age
  <2>5. Prompt' /\ Spaced' /\ Near'
    BY <2>1 DEF Prompt, Spaced, Near
  <2> QED
    BY <2>2, <2>3, <2>4, <2>5 DEF Living
<1>8. CASE n # 0
  <2>1. /\ heartbeat_queue # <<>>
        /\ heartbeat_queue' = Tail(heartbeat_queue)
        /\ health'.last_tick = First.tick
        /\ health'.next_sequence = NextNumber(First.sequence)
        /\ Age(First.tick) + MaxLag < Timeout
    BY <1>3, <1>8, LivingPasses
  <2>2. heartbeat_queue \in Seq(Beat)
    BY DEF TypeOK, Beat
  <2>3. CASE n = 1
    <3>1. heartbeat_queue' = <<>> /\ Len(heartbeat_queue') = 0
      BY <2>1, <2>2, <2>3
    <3>2. Calm'
      BY <1>1, <1>2, <1>3, <1>5, <1>6, <3>1 DEF Calm
    <3>3. Numbered'
      <4>1. sequence = NextNumber(First.sequence)
        BY <1>2, <2>3 DEF Numbered
      <4>2. sequence' = health'.next_sequence
        BY <1>1, <2>1, <4>1
      <4> QED
        BY <1>6, <3>1, <4>2 DEF Numbered
    <3>4. Latest'
      <4>1. Age(last_sent) < Heartbeat + quiet /\ First.tick = last_sent
        BY <1>2, <1>3, <2>3 DEF Latest
      <4>2. Age(last_sent)' < Heartbeat + quiet'
        BY <1>1, <1>6, <4>1 DEF Age
      <4>3. health'.last_tick = last_sent'
        BY <1>1, <2>1, <4>1
      <4> QED
        BY <3>1, <4>2, <4>3 DEF Latest
    <3>5. Prompt' /\ Spaced' /\ Near'
      BY <3>1 DEF Prompt, Spaced, Near
    <3> QED
      BY <3>2, <3>3, <3>4, <3>5 DEF Living
  <2>4. CASE n = 2
    <3>1. Len(heartbeat_queue') = 1 /\ heartbeat_queue' # <<>> /\ First' = Second
      <4>1. Len(heartbeat_queue') = 1 /\ heartbeat_queue'[1] = heartbeat_queue[2]
        BY <2>1, <2>2, <2>4
      <4>2. heartbeat_queue' # <<>>
        BY <4>1
      <4> QED
        BY <4>1, <4>2 DEF First, Second
    <3>2. Age(First.tick)' = Age(Second.tick) /\ Age(health.last_tick)' = Age(First.tick)
      BY <1>1, <2>1, <3>1 DEF Age
    <3>3. Calm'
      BY <1>1, <1>2, <1>3, <1>5, <1>6, <3>1 DEF Calm
    <3>4. Numbered'
      BY <1>1, <1>2, <1>6, <2>1, <2>4, <3>1, SMTT(30) DEF Numbered
    <3>5. Latest'
      BY <1>1, <1>2, <1>3, <1>6, <2>4, <3>1 DEF Latest, Age
    <3>6. Age(Second.tick) \in Nat /\ Second.sequence \in Nat /\ Age(First.tick) \in Nat
      BY <2>4, Places
    <3>7. Prompt'
      <4>1. Age(Second.tick) + MaxLag + (MaxLag - overdue) + Lead <= Bound(Second.sequence)
        BY <1>2, <2>4 DEF Prompt
      <4>2. Bound(Second.sequence) \in Nat
        BY <3>6, BoundFacts
      <4>3. Age(Second.tick) + MaxLag <= Bound(Second.sequence)
        BY <1>4, <3>6, <4>1, <4>2, LimitFacts
      <4> QED
        BY <1>1, <1>4, <3>1, <3>2, <3>6, <4>3, LimitFacts DEF Prompt, Bound
    <3>8. Spaced'
      BY <3>1 DEF Spaced
    <3>9. Near'
      BY <1>1, <2>1, <3>2, <3>6, LimitFacts DEF Near
    <3> QED
      BY <3>3, <3>4, <3>5, <3>7, <3>8, <3>9 DEF Living
  <2>5. n = 1 \/ n = 2
    <3> HIDE DEF n
    <3> QED
      BY <1>3, <1>8
  <2> QED
    BY <2>3, <2>4, <2>5
<1> QED
  BY <1>7, <1>8

(* A tick makes what is queued older and its supervisor later alike.       *)
LEMMA LivingTick ==
  ASSUME Margins, TypeOK, Living, Tick, ~late' PROVE Living'
<1> DEFINE n == Len(heartbeat_queue)
<1>1. /\ ~late /\ quiet' < LateAfter
      /\ inhibited' = inhibited /\ queue_failed' = queue_failed
      /\ quiet' = IF quiet \in {NotYet, Silent} THEN quiet ELSE quiet + 1
      /\ Runnable => overdue' = overdue + 1 /\ overdue < MaxLag
    <2>1. /\ late' = (late \/ quiet' >= LateAfter)
          /\ inhibited' = inhibited /\ queue_failed' = queue_failed
          /\ quiet' = IF quiet \in {NotYet, Silent} THEN quiet ELSE quiet + 1
          /\ Runnable => overdue' = overdue + 1 /\ overdue < MaxLag
      BY DEF Tick, beatVars
    <2>2. ~late /\ ~(quiet' >= LateAfter)
      BY <2>1
    <2>3. quiet' \in Int /\ LateAfter \in Int
      BY Aged, MarginFacts
    <2>4. quiet' < LateAfter
      BY <2>2, <2>3
    <2> QED
      BY <2>1, <2>2, <2>4
<1>2. Calm /\ Numbered /\ Latest /\ Prompt /\ Spaced /\ Near
  BY <1>1 DEF Living
<1>3. /\ \A x \in Tock : Age(x) + 1 < Ticks => Since(now', x) = Age(x) + 1
      /\ spc' = spc /\ health' = health /\ heartbeat_queue' = heartbeat_queue
      /\ last_sent' = last_sent /\ sequence' = sequence
  BY Aged
<1>4. Numbered'
  BY <1>2, <1>3 DEF Numbered, First, Second
<1>5. CASE quiet = NotYet
  <2>1. heartbeat_queue = <<>> /\ Len(heartbeat_queue) = 0 /\ quiet' = NotYet
    BY <1>1, <1>2, <1>5 DEF Calm
  <2>2. Calm'
    BY <1>1, <1>2, <1>3, <1>5, <2>1 DEF Calm
  <2>3. Latest' /\ Prompt' /\ Spaced' /\ Near'
    BY <1>3, <2>1 DEF Latest, Prompt, Spaced, Near
  <2> QED
    BY <1>4, <2>2, <2>3 DEF Living
<1>6. CASE quiet # NotYet
  <2>1. /\ quiet \in Int /\ quiet < LateAfter /\ quiet' = quiet + 1 /\ 0 <= quiet
    <3>1. quiet \in Int /\ 0 <= quiet
      BY <1>6, LimitFacts DEF TypeOK, NotYet
    <3>2. quiet < LateAfter
      BY <1>2 DEF Calm
    <3>3. quiet # Silent
      BY <3>1, <3>2, LimitFacts, MarginFacts
    <3> QED
      BY <1>1, <1>6, <3>1, <3>2, <3>3
  <2>2. Calm'
    BY <1>1, <1>2, <1>3, <1>6, <2>1 DEF Calm, NotYet
  <2>3. Since(now', last_sent) = Age(last_sent) + 1 /\ Age(last_sent) \in Nat
        /\ Age(last_sent) < Heartbeat + quiet
    <3>1. Age(last_sent) \in Nat /\ last_sent \in Tock
      BY Places, Ticked
    <3>2. Age(last_sent) < Heartbeat + quiet
      BY <1>2, <1>6 DEF Latest
    <3>3. Age(last_sent) + 1 < Ticks
      BY <2>1, <3>1, <3>2, LimitFacts, MarginFacts
    <3> QED
      BY <1>3, <3>1, <3>2, <3>3
  <2>4. Latest'
    <3>1. Age(last_sent)' < Heartbeat + quiet'
      BY <1>3, <2>1, <2>3, LimitFacts DEF Age
    <3> QED
      BY <1>2, <1>3, <1>6, <3>1 DEF Latest, First, Second
  <2>5. CASE heartbeat_queue = <<>>
    <3>1. Len(heartbeat_queue) = 0
      BY <2>5
    <3>2. Prompt' /\ Spaced' /\ Near'
      BY <1>3, <2>5, <3>1 DEF Prompt, Spaced, Near
    <3> QED
      BY <1>4, <2>2, <2>4, <3>2 DEF Living
  <2>6. CASE heartbeat_queue # <<>>
    <3>1. /\ overdue' = overdue + 1 /\ overdue < MaxLag /\ overdue \in Nat
          /\ Lead' = Lead /\ Lead \in Nat
          /\ MaxLag - overdue = (MaxLag - overdue') + 1 /\ MaxLag - overdue' \in Nat
      <4>1. Runnable
        BY <1>2, <2>6 DEF Runnable, Calm
      <4>2. overdue \in Nat /\ Lead \in Nat
        BY Places
      <4> QED
        BY <1>1, <1>3, <4>1, <4>2, LimitFacts DEF Lead
    <3>2. /\ Age(First.tick) \in Nat /\ First.tick \in Tock /\ First.sequence \in Nat
          /\ n \in Nat /\ n >= 1
      BY <2>6, Places
    <3>3. Age(First.tick) + (MaxLag - overdue) + Lead <= Bound(First.sequence)
      BY <1>2, <2>6 DEF Prompt
    <3>4. Bound(First.sequence) \in Nat /\ Bound(First.sequence) <= 2 * MaxLag
      BY <3>2, BoundFacts
    <3>5. Age(First.tick) + 1 <= 2 * MaxLag
      BY <3>1, <3>2, <3>3, <3>4, LimitFacts
    <3>6. Age(First.tick)' = Age(First.tick) + 1 /\ First' = First
      <4>1. Age(First.tick) + 1 < Ticks
        BY <3>2, <3>5, LimitFacts, MarginFacts
      <4> QED
        BY <1>3, <3>2, <4>1 DEF First, Age
    <3>7. Age(First.tick)' + (MaxLag - overdue') + Lead' <= Bound(First.sequence)
      BY <3>1, <3>2, <3>3, <3>4, <3>6, LimitFacts
    <3>8. ASSUME n = 2
          PROVE  /\ Age(Second.tick) \in Nat
                 /\ Age(Second.tick)' = Age(Second.tick) + 1 /\ Second' = Second
                 /\ Age(Second.tick)' + MaxLag + (MaxLag - overdue') + Lead'
                      <= Bound(Second.sequence)
      <4>1. Age(Second.tick) \in Nat /\ Second.tick \in Tock /\ Second.sequence \in Nat
        BY <3>8, Places
      <4>2. Age(Second.tick) + MaxLag + (MaxLag - overdue) + Lead <= Bound(Second.sequence)
        BY <1>2, <3>8 DEF Prompt
      <4>3. Bound(Second.sequence) \in Nat /\ Bound(Second.sequence) <= 2 * MaxLag
        BY <4>1, BoundFacts
      <4>4. Age(Second.tick) + 1 < Ticks
        BY <3>1, <4>1, <4>2, <4>3, LimitFacts, MarginFacts
      <4>5. Age(Second.tick)' = Age(Second.tick) + 1 /\ Second' = Second
        BY <1>3, <4>1, <4>4 DEF Second, Age
      <4> QED
        BY <3>1, <4>1, <4>2, <4>3, <4>5, LimitFacts
    <3>9. Prompt'
      <4>1. First'.sequence = First.sequence /\ (n = 2 => Second'.sequence = Second.sequence)
        BY <3>6, <3>8
      <4> QED
        BY <1>3, <3>7, <3>8, <4>1 DEF Prompt, Bound
    <3>10. Spaced'
      <4> SUFFICES ASSUME n = 2
                   PROVE  IF Second.sequence = 0
                          THEN Age(Second.tick)' <= Age(First.tick)'
                          ELSE Age(Second.tick)' + Heartbeat <= Age(First.tick)'
        BY <1>3, <3>8 DEF Spaced
      <4>1. IF Second.sequence = 0 THEN Age(Second.tick) <= Age(First.tick)
            ELSE Age(Second.tick) + Heartbeat <= Age(First.tick)
        BY <1>2 DEF Spaced
      <4> QED
        BY <3>2, <3>6, <3>8, <4>1, LimitFacts
    <3>11. Near'
      <4> SUFFICES ASSUME spc = "loop"
                   PROVE  Age(health.last_tick)' + (MaxLag - overdue') < Timeout
        BY <1>3 DEF Near
      <4>1. Age(health.last_tick) \in Nat /\ health.last_tick \in Tock
        BY Places, Ticked
      <4>2. Age(health.last_tick) + (MaxLag - overdue) < Timeout
        BY <1>2, <2>6 DEF Near
      <4>3. Age(health.last_tick) + 1 < Ticks
        BY <3>1, <4>1, <4>2, LimitFacts
      <4>4. Age(health.last_tick)' = Age(health.last_tick) + 1
        BY <1>3, <4>1, <4>3 DEF Age
      <4> QED
        BY <3>1, <4>1, <4>2, <4>4, LimitFacts
    <3> QED
      BY <1>4, <2>2, <2>4, <3>9, <3>10, <3>11 DEF Living
  <2> QED
    BY <2>5, <2>6
<1> QED
  BY <1>5, <1>6

LEMMA LivingReset ==
  ASSUME Margins, Reset PROVE Living'
<1>1. /\ heartbeat_queue' = <<>> /\ Len(heartbeat_queue') = 0 /\ spc' = "wait"
      /\ quiet' = NotYet /\ sequence' = 0 /\ ~inhibited' /\ ~queue_failed'
      /\ health' = [state |-> "WAITING", last_tick |-> 0, next_sequence |-> 0]
  BY DEF Reset
<1>2. Calm'
  BY <1>1, MarginFacts DEF Calm, NotYet
<1>3. Numbered' /\ Latest' /\ Prompt' /\ Spaced' /\ Near'
  BY <1>1 DEF Numbered, Latest, Prompt, Spaced, Near
<1> QED
  BY <1>2, <1>3 DEF Living

LEMMA LivingStep ==
  ASSUME Margins, TypeOK, Silence, Living, [Next]_vars PROVE Living'
<1> SUFFICES ASSUME ~late' PROVE Living'
  BY DEF Living
<1>1. CASE BeatSkipped
  BY <1>1, LivingSkip DEF BeatSkipped, Called
<1>2. CASE BeatSent
  BY <1>2, LivingSent DEF BeatSent, Called
<1>3. CASE BeatRefused
  <2>1. ~late /\ Len(heartbeat_queue) = QueueLength /\ ~TooSoon
    BY <1>3 DEF BeatRefused, Called
  <2>2. Len(heartbeat_queue) <= 2
    BY <2>1 DEF Living, Calm
  <2>3. Len(heartbeat_queue) = 2
    BY <2>1, <2>2, LimitFacts DEF Margins
  <2> QED
    BY <2>1, <2>3, RoomForTwo
<1>4. CASE StartMonitoring
  BY <1>4, LivingStart DEF StartMonitoring, Supervises
<1>5. CASE Monitor
  BY <1>5, LivingMonitor DEF Monitor, Supervises
<1>6. CASE KeepServing
  BY <1>6 DEF KeepServing, Supervises, Living, Calm
<1>7. CASE Tick
  BY <1>7, LivingTick
<1>8. CASE Halt \/ WatchdogResets
  BY <1>8, LivingReset DEF Halt, WatchdogResets
<1>9. CASE WatchdogCounts \/ UNCHANGED vars
  <2>1. /\ now' = now /\ spc' = spc /\ health' = health /\ overdue' = overdue
        /\ heartbeat_queue' = heartbeat_queue /\ quiet' = quiet /\ late' = late
        /\ inhibited' = inhibited /\ queue_failed' = queue_failed
        /\ sequence' = sequence /\ last_sent' = last_sent
    BY <1>9 DEF WatchdogCounts, vars, superVars, beatVars
  <2> QED
    BY <2>1 DEF Living, Calm, Numbered, Latest, Prompt, Spaced, Near, Lead,
                First, Second, Age
<1> QED
  BY <1>1, <1>2, <1>3, <1>4, <1>5, <1>6, <1>7, <1>8, <1>9 DEF Next

(* A living task is never inhibited, whatever its calls, the rate limit,   *)
(* the wraps of both counters and a late supervisor do to each other.      *)
THEOREM LivingNotInhibited ==
  ASSUME Margins
  PROVE  Spec => []NoFalseAlarm
<1>1. Init => TypeOK /\ Served /\ Silence /\ Living
  <2>1. Init => Silence
    BY DEF Init, Silence, Queued, Peeked
  <2>2. Init => Living
    <3> SUFFICES ASSUME Init PROVE Living
      OBVIOUS
    <3>1. Len(heartbeat_queue) = 0 /\ heartbeat_queue = <<>> /\ spc = "wait"
      BY DEF Init
    <3>2. Calm
      BY <3>1, MarginFacts DEF Init, Calm, NotYet
    <3>3. Numbered /\ Latest /\ Prompt /\ Spaced /\ Near
      BY <3>1 DEF Init, Numbered, Latest, Prompt, Spaced, Near
    <3> QED
      BY <3>2, <3>3 DEF Living
  <2> QED
    BY <2>1, <2>2, InitType DEF Init, Served, Off
<1>2. TypeOK /\ Served /\ Silence /\ Living /\ [Next]_vars
        => (TypeOK /\ Served /\ Silence /\ Living)'
  BY TypeStep, ServedStep, SilenceStep, LivingStep DEF Margins
<1>3. Living => NoFalseAlarm
  BY DEF Living, Calm, NoFalseAlarm
<1> QED
  BY <1>1, <1>2, <1>3, PTL DEF Spec
=============================================================================
