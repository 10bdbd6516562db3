------------------------- MODULE ControlServerProofs -------------------------
(***************************************************************************)
(* Proofs about the control service and the control server.                *)
(*                                                                         *)
(* The service: as long as a configuration is in force, the registers hold *)
(* its values and the buffer the samples of its waveform at its amplitude  *)
(* (Loaded). A run keeps a configuration in force and the waveform locked, *)
(* an upload that begins or is committed puts a waveform out of force, and *)
(* what the buffer holds of the upload is proved in WaveformUploadProofs   *)
(* (WaveInv). So ServiceInv is inductive, for any requests in any order.   *)
(*                                                                         *)
(* The server sends one request at a time, but requests and answers live   *)
(* longer than the call and the connection they belong to. The invariant   *)
(* says what the queues may hold: requests in the order of the connections *)
(* with END_SESSION last (InLine), at most one that was not yet answered   *)
(* (OneQueued, Waiting, NotYet), answers that bear earlier numbers         *)
(* (Numbered), requests as old as the call under way or older (Older), and *)
(* nothing that was given up and could still run (GivenUp). What a         *)
(* connection leaves behind rests on Followed and Cleaned: the requests of *)
(* a connection that is gone are void or are followed by its END_SESSION.  *)
(* Runs between the polls change only the service, so the invariant of the *)
(* service is part of it.                                                  *)
(***************************************************************************)
EXTENDS ControlServer, WaveformUploadProofs

-----------------------------------------------------------------------------
(* Operator lemmas *)

(* Taking the head off a queue moves every other entry one place forward.  *)
LEMMA HeadTaken ==
  ASSUME NEW S, NEW s \in Seq(S), s # <<>>
  PROVE  /\ Tail(s) \in Seq(S) /\ Len(Tail(s)) = Len(s) - 1
         /\ Head(s) = s[1] /\ Head(s) \in S /\ 1 \in 1 .. Len(s)
         /\ \A i \in 1 .. Len(s) - 1 :
              /\ i + 1 \in 1 .. Len(s) /\ Tail(s)[i] = s[i + 1]
OBVIOUS

(* An entry added to a queue is its last one.                              *)
LEMMA EntryAdded ==
  ASSUME NEW S, NEW s \in Seq(S), NEW e \in S
  PROVE  /\ Append(s, e) \in Seq(S) /\ Len(Append(s, e)) = Len(s) + 1
         /\ Append(s, e)[Len(s) + 1] = e
         /\ \A i \in 1 .. Len(s) : Append(s, e)[i] = s[i]
OBVIOUS

-----------------------------------------------------------------------------
(* The values of a configuration *)

(* Euclidean division, the only fact about \div that is used.              *)
LEMMA Quotients ==
  ASSUME NEW a \in Nat, NEW n \in Nat \ {0}
  PROVE  /\ a \div n \in Nat
         /\ n * (a \div n) <= a /\ a < n * (a \div n) + n
  OBVIOUS

(* Rounded to nearest, a quotient is not larger than what is divided, and  *)
(* misses it by half of a divisor at most.                                 *)
LEMMA Nearest ==
  ASSUME NEW d \in Nat, NEW g \in Nat \ {0}
  PROVE  LET s == (d + g \div 2) \div g
         IN s \in 0 .. d /\ 2 * (s * g - d) \in -g .. g
<1> DEFINE h == g \div 2
           s == (d + h) \div g
<1>1. h \in Nat /\ 2 * h <= g /\ g < 2 * h + 2
  BY Quotients
<1> HIDE DEF h
<1>2. s \in Nat /\ g * s <= d + h /\ d + h < g * s + g
  BY <1>1, Quotients
<1> HIDE DEF s
<1>3. s <= d
  <2>1. SUFFICES ASSUME d + 1 <= s PROVE FALSE
    BY <1>2
  <2>2. g * (d + 1) <= g * s
    BY <1>2, <2>1
  <2>3. g * (d + 1) = g * d + g /\ d <= g * d
    OBVIOUS
  <2> QED BY <1>1, <1>2, <2>2, <2>3
<1>4. 2 * (s * g - d) \in -g .. g
  <2> DEFINE m == s * g
  <2>1. m \in Nat /\ m = g * s
    BY <1>2
  <2> HIDE DEF m
  <2>2. 2 * (m - d) \in -g .. g
    BY <1>1, <1>2, <2>1
  <2> QED BY <2>2 DEF m
<1> QED BY <1>2, <1>3, <1>4 DEF s, h

(* A frequency below half the sample rate turns the phase by less than a   *)
(* full turn per sample.                                                   *)
LEMMA IncrementBelow ==
  ASSUME NEW hz \in 1 .. (AudioHz \div 2) - 1
  PROVE  Increment(hz) \in 0 .. PhaseRange - 1
<1> DEFINE h == AudioHz \div 2
           a == hz * PhaseRange + h
           n == Increment(hz)
<1>1. AudioHz \in Nat \ {0} /\ PhaseRange \in Nat \ {0}
  BY ServiceAssumption
<1>2. h \in Nat /\ 2 * h <= AudioHz
  BY <1>1, Quotients
<1>3. hz \in Nat /\ hz <= h - 1
  BY <1>2
<1> HIDE DEF h
<1>4. a \in Nat
  BY <1>1, <1>2, <1>3
<1>5. n = a \div AudioHz
  BY DEF Increment, h
<1> HIDE DEF n
<1>6. a < AudioHz * PhaseRange
  <2>1. hz * PhaseRange <= (h - 1) * PhaseRange
    BY <1>1, <1>2, <1>3
  <2>2. h <= h * PhaseRange
    BY <1>1, <1>2
  <2>3. (h - 1) * PhaseRange = h * PhaseRange - PhaseRange
    BY <1>1, <1>2
  <2>4. 2 * (h * PhaseRange) <= AudioHz * PhaseRange
    <3>1. (2 * h) * PhaseRange <= AudioHz * PhaseRange
      BY <1>1, <1>2
    <3>2. (2 * h) * PhaseRange = 2 * (h * PhaseRange)
      BY <1>1, <1>2
    <3> QED BY <3>1, <3>2
  <2> DEFINE x == hz * PhaseRange
             y == h * PhaseRange
             z == AudioHz * PhaseRange
  <2>5. x \in Int /\ y \in Int /\ z \in Int
    BY <1>1, <1>2, <1>3
  <2>6. x <= y - PhaseRange /\ h <= y /\ 2 * y <= z
    BY <2>1, <2>2, <2>3, <2>4
  <2> HIDE DEF x, y, z
  <2>7. x + h < z
    BY <1>1, <1>2, <2>5, <2>6
  <2> QED BY <2>7 DEF x, z
<1> HIDE DEF a
<1>7. n \in Nat /\ AudioHz * n <= a
  BY <1>1, <1>4, <1>5, Quotients
<1>8. ~(PhaseRange <= n)
  <2>1. SUFFICES ASSUME PhaseRange <= n PROVE FALSE
    OBVIOUS
  <2>2. AudioHz * PhaseRange <= AudioHz * n
    BY <1>1, <1>7, <2>1
  <2>3. AudioHz * PhaseRange \in Nat /\ AudioHz * n \in Nat
    BY <1>1, <1>7
  <2> QED BY <1>4, <1>6, <1>7, <2>2, <2>3
<1>9. n \in 0 .. PhaseRange - 1
  BY <1>1, <1>7, <1>8
<1> QED BY <1>9 DEF n

(* Sample counts and durations are natural numbers.                        *)
LEMMA DurationNat ==
  /\ \A n \in Nat : DurationOf(n) \in Nat
  /\ \A d \in Nat : SamplesOf(d) \in Nat
<1>1. ASSUME NEW n \in Nat PROVE DurationOf(n) \in Nat
  <2>1. n * Second + AudioHz - 1 \in Nat /\ AudioHz \in Nat \ {0}
    BY ServiceAssumption
  <2> QED BY <2>1, Quotients DEF DurationOf
<1>2. ASSUME NEW d \in Nat PROVE SamplesOf(d) \in Nat
  <2>1. Second \div 2 \in Nat /\ Second \in Nat \ {0} /\ AudioHz \in Nat
    BY ServiceAssumption, Quotients
  <2>2. d * AudioHz + Second \div 2 \in Nat
    BY <2>1
  <2> QED BY <2>1, <2>2, Quotients DEF SamplesOf
<1> QED BY <1>1, <1>2

(* The values that a configuration can have.                               *)
Sweep ==
  [samples : 0 .. MaxSamples, start_inc : 0 .. PhaseRange - 1,
   step : -PhaseRange .. PhaseRange, duration : Nat]

(* The chirp of t begins at the start of c and ends at its stop, nearly.   *)
Sweeps(t, c) ==
  LET miss == t.start_inc + t.step * (t.samples - 1) - Increment(c.stop)
  IN /\ t.start_inc = Increment(c.start)
     /\ 2 * miss \in -(t.samples - 1) .. t.samples - 1

(* What is calculated from a configuration in range.                       *)
LEMMA CalculatedSweep ==
  ASSUME NEW c \in Config, NEW n \in Nat, InRange(c, n)
  PROVE  LET v == Calculated(c, n)
         IN /\ v \in Sweep
            /\ c.mode = "GENERATE" => Sweeps(v, c)
            /\ c.mode = "WAV" => v.samples = n
<1> DEFINE m == SamplesOf(c.duration)
           g == m - 1
           from == Increment(c.start)
           to == Increment(c.stop)
           d == to - from
           v == Calculated(c, n)
<1>1. CASE c.mode = "WAV"
  <2>1. n \in 0 .. MaxSamples /\ DurationOf(n) \in Nat /\ MaxSamples \in Nat
    BY <1>1, ServiceAssumption, DurationNat DEF InRange
  <2>2. v = [samples |-> n, start_inc |-> 0, step |-> 0,
             duration |-> DurationOf(n)]
    BY <1>1 DEF Calculated, NoValues
  <2>3. PhaseRange \in Nat \ {0}
    BY ServiceAssumption
  <2>4. 0 \in 0 .. PhaseRange - 1 /\ 0 \in -PhaseRange .. PhaseRange
    BY <2>3
  <2> HIDE DEF v
  <2>5. v \in Sweep /\ v.samples = n
    BY <2>1, <2>2, <2>4 DEF Sweep
  <2> QED BY <1>1, <2>5 DEF v
<1>2. CASE c.mode = "GENERATE"
  <2>1. /\ c.start \in 1 .. (AudioHz \div 2) - 1
        /\ c.stop \in 1 .. (AudioHz \div 2) - 1
        /\ c.duration \in Nat /\ m >= 2 /\ m <= MaxSamples
    BY <1>2 DEF InRange, Config
  <2>2. m \in 2 .. MaxSamples /\ MaxSamples \in Nat /\ DurationOf(m) \in Nat
    <3>1. m \in Nat /\ MaxSamples \in Nat
      BY <2>1, DurationNat, ServiceAssumption
    <3> HIDE DEF m
    <3> QED BY <2>1, <3>1, DurationNat
  <2>3. from \in 0 .. PhaseRange - 1 /\ to \in 0 .. PhaseRange - 1
    BY <2>1, IncrementBelow
  <2>4. PhaseRange \in Nat \ {0}
    BY ServiceAssumption
  <2>5. v = [samples |-> m, start_inc |-> from, step |-> Step(c, m),
             duration |-> DurationOf(m)]
    BY <1>2 DEF Calculated
  <2>6. Step(c, m) = IF d >= 0 THEN (d + g \div 2) \div g
                     ELSE -((-d + g \div 2) \div g)
    BY DEF Step
  <2> DEFINE s == Step(c, m)
             dur == DurationOf(m)
  <2>7. /\ s = IF d >= 0 THEN (d + g \div 2) \div g
               ELSE -((-d + g \div 2) \div g)
        /\ v = [samples |-> m, start_inc |-> from, step |-> s, duration |-> dur]
        /\ dur \in Nat
    BY <2>2, <2>5, <2>6
  <2> HIDE DEF s, dur, m, from, to, v
  <2>8. g \in Nat \ {0} /\ d \in Int /\ d < PhaseRange /\ -d < PhaseRange
    BY <2>2, <2>3, <2>4
  <2> HIDE DEF g, d
  <2>9. s \in -PhaseRange .. PhaseRange /\ 2 * (s * g - d) \in -g .. g
    <3>1. CASE d >= 0
      <4> DEFINE r == (d + g \div 2) \div g
      <4>1. s = r /\ d \in Nat
        BY <2>7, <2>8, <3>1
      <4>2. r \in 0 .. d /\ 2 * (r * g - d) \in -g .. g
        BY <2>8, <4>1, Nearest
      <4> HIDE DEF r
      <4> QED BY <2>4, <2>8, <4>1, <4>2
    <3>2. CASE d < 0
      <4> DEFINE e == -d
                 r == (e + g \div 2) \div g
      <4>1. e \in Nat /\ e < PhaseRange
        BY <2>8, <3>2
      <4>2. s = -r
        BY <2>7, <2>8, <3>2
      <4> HIDE DEF e
      <4>3. r \in 0 .. e /\ 2 * (r * g - e) \in -g .. g
        BY <2>8, <4>1, Nearest
      <4> HIDE DEF r
      <4>4. s * g = -(r * g)
        BY <2>8, <4>1, <4>2, <4>3
      <4> DEFINE x == r * g
      <4>5. x \in Int
        BY <2>8, <4>1, <4>3
      <4>6. 2 * (x - e) \in -g .. g /\ s * g = -x /\ d = -e
        BY <2>8, <4>3, <4>4 DEF e
      <4> HIDE DEF x
      <4> QED BY <2>4, <2>8, <4>1, <4>2, <4>3, <4>5, <4>6
    <3> QED BY <2>8, <3>1, <3>2
  <2>10. v \in Sweep
    BY <2>2, <2>3, <2>7, <2>9 DEF Sweep
  <2>11. Sweeps(v, c)
    <3>1. v.start_inc = from /\ v.step = s /\ v.samples = m
      BY <2>7
    <3>2. from + s * g - to = s * g - d
      BY <2>3, <2>8, <2>9 DEF d
    <3>3. v.samples - 1 = g
      BY <3>1 DEF g
    <3>4. v.start_inc + v.step * (v.samples - 1) - to = s * g - d
      BY <3>1, <3>2, <3>3
    <3>5. 2 * (v.start_inc + v.step * (v.samples - 1) - to)
            \in -(v.samples - 1) .. v.samples - 1
      BY <2>9, <3>3, <3>4
    <3> QED BY <3>1, <3>5 DEF Sweeps, from, to
  <2> QED BY <1>2, <2>10, <2>11 DEF v
<1> QED BY <1>1, <1>2 DEF InRange
-----------------------------------------------------------------------------
(* The parts of the invariant of the service *)

TxType ==
  [applied : BOOLEAN, busy : BOOLEAN, fault : BOOLEAN,
   source : {"GENERATE", "WAV"}, start_inc : 0 .. PhaseRange - 1,
   step : -PhaseRange .. PhaseRange, samples : 0 .. MaxSamples,
   amplitude : 0 .. 100]

ConfigTypeOK ==
  /\ active \in Config /\ values \in Sweep /\ tx \in TxType
  /\ next_config \in 0 .. MaxConfig

StageTypeOK == pending \in Config /\ owner \in Sessions \cup {None}
FlagTypeOK == valid \in BOOLEAN /\ running \in BOOLEAN /\ staged \in BOOLEAN

IdTypeOK ==
  /\ boot_id \in Boots \cup {None} /\ test_id \in Tests \cup {None}
  /\ prepared \in BOOLEAN /\ prepared_for \in 0 .. MaxConfig

(* The buffer holds the waveform of c at its amplitude, all n samples.     *)
Holds(w, c, n) ==
  /\ ~w.uploading /\ w.current_id # None /\ c.waveform = w.current_id
  /\ n = w.current_samples
  /\ \A i \in 0 .. n - 1 :
       w.bram[i].out = Scaled(w.bram[i].pcm, c.amplitude)

(* The transmitter is set up for the configuration that is in force.       *)
Loaded ==
  /\ tx.source = active.mode /\ tx.samples = values.samples
  /\ active.mode = "GENERATE" =>
       Sweeps(tx, active) /\ tx.amplitude = active.amplitude
  /\ active.mode = "WAV" => Holds(wave, active, tx.samples)

(* A run keeps what it needs: the configuration stays in force, and the    *)
(* waveform is locked.                                                     *)
ServiceInv ==
  /\ ConfigTypeOK /\ StageTypeOK /\ FlagTypeOK /\ IdTypeOK /\ WaveInv(wave)
  /\ valid => Loaded
  /\ running => valid /\ ~wave.uploading /\ wave.locked

(* What the upload has of the type invariant.                              *)
LEMMA WaveTyped ==
  ASSUME NEW w, WaveInv(w)
  PROVE  /\ w.parser.phase \in Phase /\ w.parser.samples \in 0 .. Capacity
         /\ w.current_id \in 0 .. MaxWaveform /\ w.next_id \in 0 .. MaxWaveform
         /\ w.current_samples \in 0 .. Capacity
         /\ w.uploading \in BOOLEAN /\ w.locked \in BOOLEAN
         /\ w.bram \in [0 .. Capacity - 1 -> [pcm : Sample, out : Sample]]
<1>1. w \in WaveType
  BY DEF WaveInv
<1>2. w.parser \in ParserType
  BY <1>1 DEF WaveType
<1> QED BY <1>1, <1>2 DEF WaveType, ParserType, Buffer

(* The invariant implies the properties.                                   *)
LEMMA ServiceTyped == ServiceInv => TypeOK
  BY WaveTyped, Zenon DEF ServiceInv, TypeOK, ConfigTypeOK, StageTypeOK,
     FlagTypeOK, IdTypeOK, Sweep, TxType

LEMMA ServiceFiles == ServiceInv => CommittedIsFile
  BY DEF ServiceInv, WaveInv, IsFile, CommittedIsFile, None

LEMMA ServicePlays == ServiceInv => PlaysWhatWasApplied
<1> SUFFICES ASSUME ServiceInv, CanStart \/ running
             PROVE  /\ tx.source = active.mode /\ tx.samples = values.samples
                    /\ active.mode = "GENERATE" =>
                         Sweeps(tx, active) /\ tx.amplitude = active.amplitude
                    /\ active.mode = "WAV" =>
                         /\ active.waveform = wave.current_id
                         /\ \A i \in 1 .. tx.samples :
                              wave.bram[i - 1].out =
                                Scaled(wave.parser.file.pcm[i], active.amplitude)
  BY Zenon DEF PlaysWhatWasApplied, Sweeps
<1>1. Loaded
  BY DEF ServiceInv, CanStart
<1>2. ASSUME active.mode = "WAV"
      PROVE  \A i \in 1 .. tx.samples :
                wave.bram[i - 1].out =
                  Scaled(wave.parser.file.pcm[i], active.amplitude)
  <2>1. Holds(wave, active, tx.samples)
    BY <1>1, <1>2 DEF Loaded
  <2>2. tx.samples \in Nat /\ tx.samples = wave.current_samples
    <3>1. tx.samples \in 0 .. MaxSamples /\ MaxSamples \in Nat
      BY ServiceAssumption DEF ServiceInv, ConfigTypeOK, TxType
    <3> QED BY <2>1, <3>1 DEF Holds
  <2>3. \A i \in 1 .. wave.current_samples :
          wave.bram[i - 1].pcm = wave.parser.file.pcm[i]
    BY <2>1 DEF Holds, ServiceInv, WaveInv, IsFile, None
  <2> DEFINE n == tx.samples
  <2>4. n \in Nat /\ n = wave.current_samples
    BY <2>2
  <2> HIDE DEF n
  <2>5. \A i \in 1 .. n : i - 1 \in 0 .. n - 1
    BY <2>4
  <2>6. \A i \in 0 .. n - 1 :
          wave.bram[i].out = Scaled(wave.bram[i].pcm, active.amplitude)
    BY <2>1 DEF Holds, n
  <2>7. \A i \in 1 .. n :
          wave.bram[i - 1].out =
            Scaled(wave.parser.file.pcm[i], active.amplitude)
    BY <2>3, <2>4, <2>5, <2>6
  <2> QED BY <2>7 DEF n
<1> QED BY <1>1, <1>2 DEF Loaded, Holds

-----------------------------------------------------------------------------
(* What the steps of the service keep *)

(* Nothing is in force at first.                                           *)
LEMMA ServiceStarts == Init => ServiceInv
<1> SUFFICES ASSUME Init PROVE ServiceInv
  OBVIOUS
<1>1. /\ PhaseRange \in Nat \ {0} /\ MaxSamples \in Nat /\ MaxConfig \in Nat
      /\ MaxWaveform \in Nat
  BY ServiceAssumption, WaveformAssumption
<1>2. NoConfig \in Config
  BY <1>1 DEF NoConfig, Config, None
<1>3. NoValues \in Sweep
  BY <1>1 DEF NoValues, Sweep
<1>4. NewTx \in TxType
  BY <1>1 DEF NewTx, TxType
<1>5. WaveInv(wave)
  BY NewWaveInv DEF Init
<1>6. ConfigTypeOK /\ StageTypeOK
  BY <1>1, <1>2, <1>3, <1>4 DEF Init, ConfigTypeOK, StageTypeOK
<1>7. FlagTypeOK /\ ~valid /\ ~running
  BY DEF Init, FlagTypeOK
<1>8. IdTypeOK
  <2>1. prepared = FALSE /\ boot_id = None /\ test_id = None /\ prepared_for = 0
    BY Zenon DEF Init
  <2>2. prepared_for \in 0 .. MaxConfig
    BY <1>1, <2>1
  <2> QED BY <2>1, <2>2, Zenon DEF IdTypeOK
<1> QED BY <1>5, <1>6, <1>7, <1>8 DEF ServiceInv

(* The parts that rest on variables left alone.                            *)
LEMMA ConfigKept ==
  ConfigTypeOK /\ UNCHANGED <<active, values, tx, next_config>> => ConfigTypeOK'
  BY DEF ConfigTypeOK

LEMMA StageKept == StageTypeOK /\ UNCHANGED <<pending, owner>> => StageTypeOK'
  BY DEF StageTypeOK

LEMMA IdKept == IdTypeOK /\ UNCHANGED idVars => IdTypeOK'
  BY DEF IdTypeOK, idVars

LEMMA FlagKept ==
  FlagTypeOK /\ UNCHANGED <<valid, running, staged>> => FlagTypeOK'
  BY DEF FlagTypeOK

LEMMA LoadedKept ==
  Loaded /\ UNCHANGED <<active, values, tx, wave>> => Loaded'
  BY DEF Loaded, Holds, Sweeps

(* A request that is refused changes nothing.                              *)
LEMMA NothingKept == ServiceInv /\ UNCHANGED serviceVars => ServiceInv'
<1> SUFFICES ASSUME ServiceInv, UNCHANGED serviceVars PROVE ServiceInv'
  OBVIOUS
<1>1. /\ UNCHANGED <<active, values, tx, next_config, pending, owner>>
      /\ UNCHANGED <<valid, running, staged, wave>> /\ UNCHANGED idVars
  BY DEF serviceVars, cfgVars, stageVars
<1>2. WaveInv(wave)'
  BY <1>1 DEF ServiceInv
<1> QED
  BY <1>1, <1>2, ConfigKept, StageKept, IdKept, FlagKept, LoadedKept
     DEF ServiceInv

(* A step that leaves the registers alone, as long as what it does to the  *)
(* waveform does not concern a configuration that stays in force.          *)
LEMMA RegistersKept ==
  ASSUME ServiceInv, UNCHANGED <<active, values, tx, next_config>>,
         StageTypeOK', FlagTypeOK', IdTypeOK', WaveInv(wave'),
         valid' => valid,
         valid' /\ active.mode = "WAV" /\ Holds(wave, active, tx.samples)
           => Holds(wave', active, tx.samples),
         running' => valid' /\ ~wave'.uploading /\ wave'.locked
  PROVE  ServiceInv'
<1>1. ConfigTypeOK'
  BY ConfigKept DEF ServiceInv
<1>2. WaveInv(wave)'
  OBVIOUS
<1>3. valid' => Loaded'
  <2>1. SUFFICES ASSUME valid' PROVE Loaded'
    OBVIOUS
  <2>2. Loaded /\ valid
    BY <2>1 DEF ServiceInv
  <2>3. active.mode = "WAV" => Holds(wave', active, tx.samples)
    BY <2>1, <2>2 DEF Loaded
  <2>4. (active.mode = "WAV" => Holds(wave, active, tx.samples))'
    BY <2>3 DEF Holds
  <2> QED BY <2>2, <2>4 DEF Loaded, Sweeps
<1> QED BY <1>1, <1>2, <1>3 DEF ServiceInv

(* A step that touches neither the configuration in force nor the buffer.  *)
LEMMA SetUpKept ==
  ASSUME ServiceInv, UNCHANGED <<cfgVars, running, wave>>,
         StageTypeOK', IdTypeOK', staged' \in BOOLEAN
  PROVE  ServiceInv'
<1>1. UNCHANGED <<active, values, tx, next_config, valid, running, wave>>
  BY DEF cfgVars
<1>2. FlagTypeOK'
  BY <1>1 DEF ServiceInv, FlagTypeOK
<1>3. WaveInv(wave') /\ (running' => valid' /\ ~wave'.uploading /\ wave'.locked)
  BY <1>1 DEF ServiceInv
<1> QED BY <1>1, <1>2, <1>3, RegistersKept

(* A cancel only ends an upload, and leaves a committed waveform alone.    *)
LEMMA CancelledHolds ==
  ASSUME NEW w, WaveInv(w), NEW c, NEW n, Holds(w, c, n)
  PROVE  Holds(Cancelled(w), c, n)
<1> DEFINE v == Cancelled(w)
<1>1. /\ ~v.uploading /\ v.current_id = w.current_id
      /\ v.current_samples = w.current_samples /\ v.bram = w.bram
  BY CancelledEffect DEF WaveInv
<1> HIDE DEF v
<1>2. Holds(v, c, n)
  BY <1>1 DEF Holds
<1> QED BY <1>2 DEF v

(* So does the end of the session that was uploading.                      *)
LEMMA CancelKept ==
  ASSUME ServiceInv, UNCHANGED <<cfgVars, running>>, wave' = Cancelled(wave),
         StageTypeOK', IdTypeOK', staged' \in BOOLEAN
  PROVE  ServiceInv'
<1>1. UNCHANGED <<active, values, tx, next_config, valid, running>>
  BY DEF cfgVars
<1>2. FlagTypeOK'
  BY <1>1 DEF ServiceInv, FlagTypeOK
<1>3. WaveInv(wave') /\ wave'.locked = wave.locked /\ ~wave'.uploading
  <2>1. WaveInv(wave)
    BY DEF ServiceInv
  <2>2. ~Cancelled(wave).uploading
    BY <2>1, CancelledEffect DEF WaveInv
  <2> QED BY <2>1, <2>2, CancelledInv
<1>4. Holds(wave, active, tx.samples) => Holds(wave', active, tx.samples)
  BY CancelledHolds DEF ServiceInv
<1> QED BY <1>1, <1>2, <1>3, <1>4, RegistersKept DEF ServiceInv

-----------------------------------------------------------------------------
(* The requests *)

(* END_SESSION of the owner cancels, that of another session does nothing. *)
LEMMA EndSessionKept ==
  ASSUME ServiceInv, NEW s, NEW r, EndSession(s, r)
  PROVE  ServiceInv'
<1>1. UNCHANGED <<cfgVars, running, pending>> /\ UNCHANGED idVars
  BY Zenon DEF EndSession
<1>2. IdTypeOK'
  BY <1>1, IdKept DEF ServiceInv
<1>3. CASE s = owner
  <2>1. staged' = FALSE /\ owner' = None /\ wave' = Cancelled(wave)
    BY <1>3, Zenon DEF EndSession
  <2>2. StageTypeOK' /\ staged' \in BOOLEAN
    BY <1>1, <2>1 DEF StageTypeOK, ServiceInv
  <2> QED BY <1>1, <1>2, <2>1, <2>2, CancelKept
<1>4. CASE s # owner
  <2>1. UNCHANGED <<staged, owner, wave>>
    BY <1>4, Zenon DEF EndSession
  <2>2. StageTypeOK' /\ staged' \in BOOLEAN
    BY <1>1, <2>1 DEF StageTypeOK, ServiceInv, FlagTypeOK
  <2> QED BY <1>1, <1>2, <2>1, <2>2, SetUpKept
<1> QED BY <1>3, <1>4

(* SET_BOOT_ID and PREPARE_TEST only change identities.                    *)
LEMMA SetBootIdKept ==
  ASSUME ServiceInv, NEW q \in Requests, NEW r, q.op = "SET_BOOT_ID",
         SetBootId(q, r)
  PROVE  ServiceInv'
<1>1. CASE UNCHANGED serviceVars
  BY <1>1, NothingKept
<1>2. CASE boot_id' = q.boot
           /\ UNCHANGED <<cfgVars, stageVars, running, wave, test_id, prepared,
                          prepared_for>>
  <2>1. q.boot \in Boots \cup {None}
    BY RequestAssumption
  <2>2. IdTypeOK'
    BY <1>2, <2>1 DEF ServiceInv, IdTypeOK
  <2>3. StageTypeOK' /\ staged' \in BOOLEAN
    BY <1>2 DEF StageTypeOK, ServiceInv, FlagTypeOK, stageVars
  <2> QED BY <1>2, <2>2, <2>3, SetUpKept
<1> QED BY <1>1, <1>2, Zenon DEF SetBootId, Rejected

LEMMA PrepareTestKept ==
  ASSUME ServiceInv, NEW q \in Requests, NEW r, q.op = "PREPARE_TEST",
         PrepareTest(q, r)
  PROVE  ServiceInv'
<1>1. CASE UNCHANGED serviceVars
  BY <1>1, NothingKept
<1>2. CASE /\ q.config = active.id
           /\ test_id' = q.test /\ prepared' = TRUE /\ prepared_for' = q.config
           /\ UNCHANGED <<cfgVars, stageVars, running, wave, boot_id>>
  <2>1. q.test \in Tests \cup {None} /\ active.id \in 0 .. MaxConfig
    BY RequestAssumption DEF ServiceInv, ConfigTypeOK, Config
  <2>2. IdTypeOK'
    BY <1>2, <2>1 DEF ServiceInv, IdTypeOK
  <2>3. StageTypeOK' /\ staged' \in BOOLEAN
    BY <1>2 DEF StageTypeOK, ServiceInv, FlagTypeOK, stageVars
  <2> QED BY <1>2, <2>2, <2>3, SetUpKept
<1> QED BY <1>1, <1>2, Zenon DEF PrepareTest, Rejected

(* What is staged is a configuration.                                      *)
LEMMA StagedKept ==
  ASSUME ServiceInv, NEW s \in Sessions, NEW c \in Config, NEW r, Stage(s, c, r)
  PROVE  ServiceInv'
<1>1. /\ pending' = c /\ staged' = TRUE /\ owner' = s
      /\ UNCHANGED <<cfgVars, running, wave>> /\ UNCHANGED idVars
  BY DEF Stage
<1>2. StageTypeOK' /\ IdTypeOK'
  BY <1>1, IdKept DEF StageTypeOK, ServiceInv
<1> QED BY <1>1, <1>2, SetUpKept

(* The configurations that are staged.                                     *)
LEMMA NewChirp ==
  ASSUME NEW x \in Nat, NEW y \in Nat, NEW z \in Nat, NEW u
  PROVE  LET c == [NoConfig EXCEPT !.start = x, !.stop = y, !.duration = z,
                                   !.amplitude = u]
         IN c.amplitude = u /\ (u \in 0 .. 100 => c \in Config)
<1> DEFINE c1 == [NoConfig EXCEPT !.start = x]
           c2 == [c1 EXCEPT !.stop = y]
           c3 == [c2 EXCEPT !.duration = z]
           c4 == [c3 EXCEPT !.amplitude = u]
<1>1. NoConfig \in Config
  BY ServiceAssumption, WaveformAssumption DEF NoConfig, None, Config
<1> HIDE DEF NoConfig
<1>2. c1 \in Config
  BY <1>1 DEF Config
<1> HIDE DEF c1
<1>3. c2 \in Config
  BY <1>2 DEF Config
<1> HIDE DEF c2
<1>4. c3 \in Config
  BY <1>3 DEF Config
<1> HIDE DEF c3
<1>5. c4.amplitude = u /\ (u \in 0 .. 100 => c4 \in Config)
  BY <1>4 DEF Config
<1>6. [NoConfig EXCEPT !.start = x, !.stop = y, !.duration = z,
                       !.amplitude = u] = c4
  BY DEF c3, c2, c1
<1> HIDE DEF c4
<1> QED BY <1>5, <1>6

LEMMA NewPlayback ==
  ASSUME NEW x \in 0 .. MaxWaveform, NEW u
  PROVE  LET c == [NoConfig EXCEPT !.mode = "WAV", !.waveform = x,
                                   !.amplitude = u]
         IN c.amplitude = u /\ (u \in 0 .. 100 => c \in Config)
<1> DEFINE c1 == [NoConfig EXCEPT !.mode = "WAV"]
           c2 == [c1 EXCEPT !.waveform = x]
           c3 == [c2 EXCEPT !.amplitude = u]
<1>1. NoConfig \in Config
  BY ServiceAssumption, WaveformAssumption DEF NoConfig, None, Config
<1> HIDE DEF NoConfig
<1>2. c1 \in Config
  BY <1>1 DEF Config
<1> HIDE DEF c1
<1>3. c2 \in Config
  BY <1>2 DEF Config
<1> HIDE DEF c2
<1>4. c3.amplitude = u /\ (u \in 0 .. 100 => c3 \in Config)
  BY <1>3 DEF Config
<1>5. [NoConfig EXCEPT !.mode = "WAV", !.waveform = x, !.amplitude = u] = c3
  BY DEF c2, c1
<1> HIDE DEF c3
<1> QED BY <1>4, <1>5

(* SET_GENERATED and SELECT_WAVEFORM stage a configuration in range.       *)
LEMMA SetGeneratedKept ==
  ASSUME ServiceInv, NEW s \in Sessions, NEW q \in Requests, NEW r,
         q.op = "SET_GENERATED", SetGenerated(s, q, r)
  PROVE  ServiceInv'
<1> DEFINE c == [NoConfig EXCEPT !.start = q.start, !.stop = q.stop,
                   !.duration = q.duration, !.amplitude = q.amplitude]
<1>1. CASE UNCHANGED serviceVars
  BY <1>1, NothingKept
<1>2. CASE Stage(s, c, r) /\ InRange(c, 0)
  <2>1. /\ q.start \in Nat /\ q.stop \in Nat /\ q.duration \in Nat
        /\ q.amplitude \in Nat
    BY RequestAssumption
  <2>2. c.amplitude = q.amplitude /\ (q.amplitude \in 0 .. 100 => c \in Config)
    BY <2>1, NewChirp
  <2> HIDE DEF c
  <2>3. c \in Config
    BY <1>2, <2>1, <2>2 DEF InRange
  <2> QED BY <1>2, <2>3, StagedKept
<1> QED BY <1>1, <1>2, Zenon DEF SetGenerated, Rejected

LEMMA SelectWaveformKept ==
  ASSUME ServiceInv, NEW s \in Sessions, NEW q \in Requests, NEW r,
         q.op = "SELECT_WAVEFORM", SelectWaveform(s, q, r)
  PROVE  ServiceInv'
<1> DEFINE c == [NoConfig EXCEPT !.mode = "WAV", !.waveform = q.waveform,
                   !.amplitude = q.amplitude]
<1>1. CASE UNCHANGED serviceVars
  BY <1>1, NothingKept
<1>2. CASE /\ Stage(s, c, r) /\ q.waveform = wave.current_id
           /\ InRange(c, wave.current_samples)
  <2>1. q.amplitude \in Nat /\ q.waveform \in 0 .. MaxWaveform
    BY <1>2, RequestAssumption, WaveTyped DEF ServiceInv
  <2>2. c.amplitude = q.amplitude /\ (q.amplitude \in 0 .. 100 => c \in Config)
    BY <2>1, NewPlayback
  <2> HIDE DEF c
  <2>3. c \in Config
    BY <1>2, <2>1, <2>2 DEF InRange
  <2> QED BY <1>2, <2>3, StagedKept
<1> QED BY <1>1, <1>2, Zenon DEF SelectWaveform, Rejected

(* An upload that begins puts a waveform out of force.                     *)
LEMMA UploadBeginKept ==
  ASSUME ServiceInv, ~running, NEW s \in Sessions, NEW q \in Requests, NEW r,
         q.op = "UPLOAD_BEGIN", UploadBegin(s, q, r)
  PROVE  ServiceInv'
<1> DEFINE b == Begun(wave, q.file)
<1>1. CASE UNCHANGED serviceVars
  BY <1>1, NothingKept
<1>2. CASE /\ b.ok /\ wave' = b.wave
           /\ valid' = (valid /\ active.mode # "WAV")
           /\ staged' = FALSE /\ owner' = s
           /\ UNCHANGED <<active, values, next_config, tx, pending, running>>
           /\ UNCHANGED idVars
  <2>1. WaveInv(wave')
    <3>1. WavFile(q.file) /\ WaveInv(wave)
      BY RequestAssumption DEF ServiceInv
    <3>2. WaveInv(b.wave)
      BY <1>2, <3>1, BegunInv
    <3> QED BY <1>2, <3>2
  <2> HIDE DEF b
  <2>2. StageTypeOK' /\ IdTypeOK'
    BY <1>2, IdKept DEF ServiceInv, StageTypeOK
  <2>3. FlagTypeOK'
    <3>1. valid' \in BOOLEAN
      BY <1>2, Zenon
    <3>2. running' \in BOOLEAN /\ staged' \in BOOLEAN
      BY <1>2 DEF ServiceInv, FlagTypeOK
    <3> QED BY <3>1, <3>2 DEF FlagTypeOK
  <2>4. (valid' => valid /\ active.mode # "WAV") /\ ~running'
    BY <1>2
  <2> QED BY <1>2, <2>1, <2>2, <2>3, <2>4, RegistersKept
<1> QED BY <1>1, <1>2, Zenon DEF UploadBegin, Rejected

(* Data is only taken during an upload, when no waveform is in force.      *)
LEMMA UploadDataKept ==
  ASSUME ServiceInv, ~running, NEW s \in Sessions, NEW q \in Requests, NEW r,
         q.op = "UPLOAD_DATA", UploadData(s, q, r)
  PROVE  ServiceInv'
<1> DEFINE v == Appended(wave, q.offset, q.data, PlayerIdle).wave
<1>1. CASE UNCHANGED serviceVars
  BY <1>1, NothingKept
<1>2. CASE /\ wave' = v
           /\ UNCHANGED <<cfgVars, stageVars, running>> /\ UNCHANGED idVars
  <2>1. WaveInv(v) /\ (~wave.uploading => v = wave)
    <3>1. q.data \in Seq(Nat) /\ WaveInv(wave)
      BY RequestAssumption DEF ServiceInv
    <3> QED BY <3>1, AppendedInv
  <2> HIDE DEF v
  <2>2. /\ UNCHANGED <<active, values, tx, next_config, valid, running>>
        /\ UNCHANGED <<pending, owner, staged>>
    BY <1>2 DEF cfgVars, stageVars
  <2>3. StageTypeOK' /\ IdTypeOK' /\ FlagTypeOK'
    BY <1>2, <2>2, IdKept, StageKept, FlagKept DEF ServiceInv
  <2>4. Holds(wave, active, tx.samples) => Holds(wave', active, tx.samples)
    BY <1>2, <2>1 DEF Holds
  <2> QED BY <1>2, <2>1, <2>2, <2>3, <2>4, RegistersKept
<1> QED BY <1>1, <1>2, Zenon DEF UploadData, Rejected

(* A commit succeeds only in an upload, when no waveform is in force.      *)
LEMMA UploadCommitKept ==
  ASSUME ServiceInv, ~running, NEW s \in Sessions, NEW r, UploadCommit(s, r)
  PROVE  ServiceInv'
<1> DEFINE c == Committed(wave, PlayerIdle)
           v == c.wave
<1>1. CASE UNCHANGED serviceVars
  BY <1>1, NothingKept
<1>2. CASE /\ wave' = v /\ valid' = (valid /\ (c.ok => active.mode # "WAV"))
           /\ UNCHANGED <<active, values, next_config, tx, running>>
           /\ UNCHANGED stageVars /\ UNCHANGED idVars
  <2>1. WaveInv(v) /\ (~wave.uploading => v = wave)
    BY CommittedInv DEF ServiceInv
  <2>2. valid' \in BOOLEAN /\ (valid' => valid)
    BY <1>2, Zenon
  <2> HIDE DEF c, v
  <2>3. UNCHANGED <<pending, owner, staged>>
    BY <1>2 DEF stageVars
  <2>4. StageTypeOK' /\ IdTypeOK'
    BY <1>2, <2>3, IdKept, StageKept DEF ServiceInv
  <2>5. FlagTypeOK'
    BY <1>2, <2>2, <2>3 DEF ServiceInv, FlagTypeOK
  <2>6. Holds(wave, active, tx.samples) => Holds(wave', active, tx.samples)
    BY <1>2, <2>1 DEF Holds
  <2> QED BY <1>2, <2>1, <2>2, <2>4, <2>5, <2>6, RegistersKept
<1> QED BY <1>1, <1>2, Zenon DEF UploadCommit, Rejected

(* UPLOAD_CANCEL                                                           *)
LEMMA UploadCancelKept ==
  ASSUME ServiceInv, NEW r, UploadCancel(r)
  PROVE  ServiceInv'
<1>1. /\ wave' = Cancelled(wave) /\ UNCHANGED <<cfgVars, running>>
      /\ UNCHANGED stageVars /\ UNCHANGED idVars
  BY Zenon DEF UploadCancel
<1>2. UNCHANGED <<pending, owner, staged>>
  BY <1>1 DEF stageVars
<1>3. StageTypeOK' /\ IdTypeOK' /\ staged' \in BOOLEAN
  BY <1>1, <1>2, IdKept, StageKept DEF ServiceInv, FlagTypeOK
<1> QED BY <1>1, <1>3, CancelKept

-----------------------------------------------------------------------------
(* APPLY *)

(* What an APPLY that is not refused has checked.                          *)
LEMMA Checked ==
  ASSUME ServiceInv, NEW s, ApplyCheck(s) = "OK"
  PROVE  /\ ~wave.uploading /\ next_config + 1 \in 0 .. MaxConfig
         /\ pending.mode = "WAV" => pending.waveform = wave.current_id
         /\ InRange(pending, wave.current_samples)
<1>1. /\ ~wave.uploading /\ ~(next_config >= MaxConfig)
      /\ pending.mode = "WAV" => pending.waveform = wave.current_id
      /\ InRange(pending, wave.current_samples)
  <2>1. CASE ~staged \/ owner # s
    BY <2>1 DEF ApplyCheck
  <2>2. CASE staged /\ owner = s /\ wave.uploading
    BY <2>2 DEF ApplyCheck
  <2>3. CASE staged /\ owner = s /\ ~wave.uploading /\ pending.mode = "WAV"
             /\ pending.waveform # wave.current_id
    BY <2>3 DEF ApplyCheck
  <2>4. CASE /\ staged /\ owner = s /\ ~wave.uploading
             /\ pending.mode = "WAV" => pending.waveform = wave.current_id
    <3>1. ApplyCheck(s) = IF ~InRange(pending, wave.current_samples)
                          THEN "RANGE"
                          ELSE IF next_config >= MaxConfig THEN "SEQUENCE"
                          ELSE "OK"
      BY <2>4 DEF ApplyCheck
    <3> QED BY <2>4, <3>1
  <2> QED BY <2>1, <2>2, <2>3, <2>4
<1>2. next_config \in 0 .. MaxConfig /\ MaxConfig \in Nat
  BY ServiceAssumption DEF ServiceInv, ConfigTypeOK
<1> QED BY <1>1, <1>2

(* The registers take over the calculated values.                          *)
LEMMA RegistersFields ==
  ASSUME NEW c, NEW v \in Sweep, tx \in TxType, c.amplitude \in 0 .. 100,
         c.mode \in {"GENERATE", "WAV"}
  PROVE  LET t == Registers(c, v)
         IN /\ t \in TxType /\ t.source = c.mode /\ t.samples = v.samples
            /\ c.mode = "GENERATE" =>
                 /\ t.start_inc = v.start_inc /\ t.step = v.step
                 /\ t.amplitude = c.amplitude
<1> DEFINE t == Registers(c, v)
<1>1. /\ v.samples \in 0 .. MaxSamples /\ v.start_inc \in 0 .. PhaseRange - 1
      /\ v.step \in -PhaseRange .. PhaseRange
  BY DEF Sweep
<1>2. CASE c.mode = "WAV"
  <2>1. t = [tx EXCEPT !.applied = TRUE, !.source = "WAV", !.samples = v.samples]
    BY <1>2 DEF Registers
  <2> HIDE DEF t
  <2>2. t \in TxType /\ t.source = "WAV" /\ t.samples = v.samples
    BY <1>1, <2>1 DEF TxType
  <2> QED BY <1>2, <2>2 DEF t
<1>3. CASE c.mode = "GENERATE"
  <2>1. t = [tx EXCEPT !.applied = TRUE, !.source = "GENERATE",
                  !.samples = v.samples, !.amplitude = c.amplitude,
                  !.start_inc = v.start_inc, !.step = v.step]
    BY <1>3 DEF Registers
  <2> HIDE DEF t
  <2> DEFINE t1 == [tx EXCEPT !.applied = TRUE]
             t2 == [t1 EXCEPT !.source = "GENERATE"]
             t3 == [t2 EXCEPT !.samples = v.samples]
             t4 == [t3 EXCEPT !.amplitude = c.amplitude]
             t5 == [t4 EXCEPT !.start_inc = v.start_inc]
             t6 == [t5 EXCEPT !.step = v.step]
  <2>2. t = t6
    BY <2>1
  <2>3. t1 \in TxType
    BY DEF TxType
  <2> HIDE DEF t1
  <2>4. t2 \in TxType /\ t2.source = "GENERATE"
    BY <2>3 DEF TxType
  <2> HIDE DEF t2
  <2>5. t3 \in TxType /\ t3.source = "GENERATE" /\ t3.samples = v.samples
    BY <1>1, <2>4 DEF TxType
  <2> HIDE DEF t3
  <2>6. t4 \in TxType /\ t4.source = "GENERATE" /\ t4.samples = v.samples
        /\ t4.amplitude = c.amplitude
    BY <2>5 DEF TxType
  <2> HIDE DEF t4
  <2>7. t5 \in TxType /\ t5.source = "GENERATE" /\ t5.samples = v.samples
        /\ t5.amplitude = c.amplitude /\ t5.start_inc = v.start_inc
    BY <1>1, <2>6 DEF TxType
  <2> HIDE DEF t5
  <2>8. t6 \in TxType /\ t6.source = "GENERATE" /\ t6.samples = v.samples
        /\ t6.amplitude = c.amplitude /\ t6.start_inc = v.start_inc
        /\ t6.step = v.step
    BY <1>1, <2>7 DEF TxType
  <2> HIDE DEF t6
  <2> QED BY <1>3, <2>2, <2>8 DEF t
<1> QED BY <1>2, <1>3

(* The buffer takes over the amplitude.                                    *)
LEMMA PlayerLoaded ==
  ASSUME NEW w, WaveInv(w), ~w.uploading, NEW c \in Config, NEW v,
         c.mode = "WAV" =>
           /\ c.waveform = w.current_id /\ c.waveform # None
           /\ v.samples = w.current_samples
  PROVE  LET p == IF c.mode = "WAV"
                  THEN [w EXCEPT !.bram = GainSet(@, v.samples, c.amplitude)]
                  ELSE w
         IN /\ WaveInv(p) /\ ~p.uploading /\ p.locked = w.locked
            /\ c.mode = "WAV" => Holds(p, c, v.samples)
<1>1. CASE c.mode = "WAV"
  <2> DEFINE n == w.current_samples
             pct == c.amplitude
             p == [w EXCEPT !.bram = GainSet(@, n, pct)]
  <2>1. pct \in 0 .. 100
    BY SMTT(30) DEF Config
  <2> HIDE DEF pct
  <2>2. /\ WaveInv(p) /\ ~p.uploading /\ p.locked = w.locked
        /\ p.current_id = w.current_id /\ p.current_samples = n
        /\ \A i \in 0 .. n - 1 :
             p.bram[i].out = Scaled(p.bram[i].pcm, pct)
    BY <2>1, GainInv, Zenon
  <2>3. p = [w EXCEPT !.bram = GainSet(@, v.samples, c.amplitude)]
    BY <1>1 DEF pct
  <2> HIDE DEF p, n
  <2>4. v.samples = n
    BY <1>1 DEF n
  <2>5. Holds(p, c, v.samples)
    BY <1>1, <2>2, <2>4 DEF Holds, pct
  <2> QED BY <1>1, <2>2, <2>3, <2>5
<1>2. CASE c.mode # "WAV"
  BY <1>2
<1> QED BY <1>1, <1>2

(* What is applied is what the registers and the buffer then hold.         *)
LEMMA ApplyOK ==
  ASSUME ServiceInv, ~running, NEW s \in Sessions, ApplyCheck(s) = "OK",
         LET c == [pending EXCEPT !.id = next_config + 1]
             v == Calculated(pending, wave.current_samples)
         IN /\ next_config' = next_config + 1 /\ prepared' = FALSE
            /\ tx' = Registers(c, v) /\ wave' = Player(c, v)
            /\ active' = [c EXCEPT !.duration = v.duration]
            /\ values' = v /\ valid' = TRUE /\ staged' = FALSE
            /\ pending' = c
            /\ UNCHANGED <<owner, running, boot_id, test_id, prepared_for>>
  PROVE  ServiceInv'
<1> DEFINE n == next_config + 1
           c == [pending EXCEPT !.id = n]
           v == Calculated(pending, wave.current_samples)
           a == [c EXCEPT !.duration = v.duration]
<1>1. /\ next_config' = n /\ prepared' = FALSE
      /\ tx' = Registers(c, v) /\ wave' = Player(c, v)
      /\ active' = a /\ values' = v /\ valid' = TRUE /\ staged' = FALSE
      /\ pending' = c
      /\ UNCHANGED <<owner, running, boot_id, test_id, prepared_for>>
  OBVIOUS
<1>2. /\ ~wave.uploading /\ n \in 0 .. MaxConfig
      /\ pending.mode = "WAV" => pending.waveform = wave.current_id
      /\ InRange(pending, wave.current_samples)
  BY Checked
<1> HIDE DEF n
<1>3. c \in Config /\ pending \in Config /\ c.mode = pending.mode
      /\ c.waveform = pending.waveform /\ c.amplitude = pending.amplitude
      /\ c.start = pending.start /\ c.stop = pending.stop
  BY <1>2 DEF ServiceInv, StageTypeOK, Config
<1>4. WaveInv(wave) /\ wave.current_samples \in Nat
  <2>1. WaveInv(wave) /\ Capacity \in Nat
    BY WaveformAssumption DEF ServiceInv
  <2>2. wave.current_samples \in 0 .. Capacity
    BY <2>1, WaveTyped
  <2> QED BY <2>1, <2>2
<1>5. /\ v \in Sweep
      /\ pending.mode = "GENERATE" => Sweeps(v, pending)
      /\ pending.mode = "WAV" => v.samples = wave.current_samples
  BY <1>2, <1>3, <1>4, CalculatedSweep
<1> HIDE DEF c, v
<1>6. a \in Config /\ a.mode = c.mode /\ a.waveform = c.waveform
      /\ a.amplitude = c.amplitude /\ a.start = c.start /\ a.stop = c.stop
  <2>1. v.duration \in Nat
    BY <1>5 DEF Sweep
  <2> QED BY <1>3, <2>1 DEF Config
<1> HIDE DEF a
<1>7. c.mode \in {"GENERATE", "WAV"} /\ c.amplitude \in 0 .. 100
  BY <1>3 DEF Config
<1>8. /\ tx' \in TxType /\ tx'.source = c.mode /\ tx'.samples = v.samples
      /\ c.mode = "GENERATE" =>
           /\ tx'.start_inc = v.start_inc /\ tx'.step = v.step
           /\ tx'.amplitude = c.amplitude
  BY <1>1, <1>5, <1>7, RegistersFields DEF ServiceInv, ConfigTypeOK
<1>9. /\ WaveInv(wave') /\ ~wave'.uploading
      /\ c.mode = "WAV" => Holds(wave', c, v.samples)
  <2>1. c.mode = "WAV" => c.waveform # None
    BY <1>2, <1>3 DEF InRange
  <2> DEFINE p == IF c.mode = "WAV"
                  THEN [wave EXCEPT !.bram = GainSet(@, v.samples, c.amplitude)]
                  ELSE wave
  <2>2. wave' = p
    BY <1>1 DEF Player
  <2>3. c.mode = "WAV" =>
          /\ c.waveform = wave.current_id /\ c.waveform # None
          /\ v.samples = wave.current_samples
    BY <1>2, <1>3, <1>5, <2>1
  <2>4. /\ WaveInv(p) /\ ~p.uploading
        /\ c.mode = "WAV" => Holds(p, c, v.samples)
    BY <1>2, <1>3, <1>4, <2>3, PlayerLoaded
  <2> HIDE DEF p
  <2> QED BY <2>2, <2>4
<1>10. ConfigTypeOK'
  BY <1>1, <1>2, <1>5, <1>6, <1>8 DEF ConfigTypeOK
<1>11. StageTypeOK'
  BY <1>1, <1>3 DEF ServiceInv, StageTypeOK
<1>12. FlagTypeOK'
  BY <1>1 DEF ServiceInv, FlagTypeOK
<1>13. IdTypeOK'
  BY <1>1 DEF ServiceInv, IdTypeOK
<1>14. Loaded'
  <2>1. tx'.source = active'.mode /\ tx'.samples = values'.samples
    BY <1>1, <1>6, <1>8
  <2>2. active'.mode = "GENERATE" =>
          Sweeps(tx', active') /\ tx'.amplitude = active'.amplitude
    <3>1. SUFFICES ASSUME active'.mode = "GENERATE"
                   PROVE  Sweeps(tx', active') /\ tx'.amplitude = active'.amplitude
      OBVIOUS
    <3>2. c.mode = "GENERATE" /\ active'.amplitude = c.amplitude
          /\ active'.start = pending.start /\ active'.stop = pending.stop
      BY <1>1, <1>3, <1>6, <3>1
    <3>3. Sweeps(v, pending)
      BY <1>3, <1>5, <3>2
    <3>4. tx'.start_inc = v.start_inc /\ tx'.step = v.step
          /\ tx'.samples = v.samples /\ tx'.amplitude = c.amplitude
      BY <1>8, <3>2
    <3>5. Sweeps(tx', active')
      BY <3>2, <3>3, <3>4 DEF Sweeps
    <3> QED BY <3>2, <3>4, <3>5
  <2>3. active'.mode = "WAV" => Holds(wave', active', tx'.samples)
    BY <1>1, <1>6, <1>8, <1>9, ZenonT(30) DEF Holds
  <2>4. (active.mode = "GENERATE" =>
          Sweeps(tx, active) /\ tx.amplitude = active.amplitude)'
    BY <2>2 DEF Sweeps
  <2>5. (active.mode = "WAV" => Holds(wave, active, tx.samples))'
    BY <2>3 DEF Holds
  <2> QED BY <2>1, <2>4, <2>5 DEF Loaded
<1>15. WaveInv(wave)'
  BY <1>9
<1>16. ~running'
  BY <1>1
<1> QED BY <1>10, <1>11, <1>12, <1>13, <1>14, <1>15, <1>16 DEF ServiceInv

(* A configuration that the hardware refuses leaves none in force.         *)
LEMMA ApplyRefused ==
  ASSUME ServiceInv, ~running, NEW s \in Sessions, ApplyCheck(s) = "OK",
         NEW d,
         next_config' = next_config + 1 /\ prepared' = FALSE,
         ChirpApplyFails(d), valid' = FALSE,
         pending' = [pending EXCEPT !.id = next_config + 1],
         UNCHANGED <<active, values, staged>>,
         UNCHANGED <<owner, running, boot_id, test_id, prepared_for>>
  PROVE  ServiceInv'
<1> DEFINE n == next_config + 1
<1>1. n \in 0 .. MaxConfig
  BY Checked
<1>2. next_config' = n /\ pending' = [pending EXCEPT !.id = n]
  OBVIOUS
<1> HIDE DEF n
<1>3. UNCHANGED wave /\ (tx' = tx \/ tx' = [tx EXCEPT !.fault = TRUE])
  BY Zenon DEF ChirpApplyFails
<1>4. tx' \in TxType
  BY <1>3, ZenonT(30) DEF ServiceInv, ConfigTypeOK, TxType
<1>5. ConfigTypeOK'
  BY <1>1, <1>2, <1>4 DEF ServiceInv, ConfigTypeOK
<1>6. StageTypeOK'
  BY <1>1, <1>2 DEF ServiceInv, StageTypeOK, Config
<1>7. FlagTypeOK'
  BY DEF ServiceInv, FlagTypeOK
<1>8. IdTypeOK'
  BY DEF ServiceInv, IdTypeOK
<1>9. WaveInv(wave)'
  BY <1>3 DEF ServiceInv
<1> QED BY <1>5, <1>6, <1>7, <1>8, <1>9 DEF ServiceInv

(* APPLY, refused at once, by the hardware or not at all.                  *)
LEMMA ApplyKept ==
  ASSUME ServiceInv, ~running, NEW s \in Sessions, NEW r, Apply(s, r)
  PROVE  ServiceInv'
<1> DEFINE c == [pending EXCEPT !.id = next_config + 1]
           v == Calculated(pending, wave.current_samples)
<1>1. CASE UNCHANGED serviceVars
  BY <1>1, NothingKept
<1>2. CASE ApplyCheck(s) = "OK" /\ r = "OK" /\ ~UNCHANGED serviceVars
  <2>1. /\ next_config' = next_config + 1 /\ prepared' = FALSE
        /\ ChirpApply(c, v)
        /\ active' = [c EXCEPT !.duration = v.duration]
        /\ values' = v /\ valid' = TRUE /\ staged' = FALSE /\ pending' = c
        /\ UNCHANGED <<owner, running, boot_id, test_id, prepared_for>>
    BY <1>2, Zenon DEF Apply, Armed
  <2>2. tx' = Registers(c, v) /\ wave' = Player(c, v)
    BY <2>1 DEF ChirpApply
  <2> QED BY <1>2, <2>1, <2>2, ApplyOK
<1>3. CASE ApplyCheck(s) = "OK" /\ r = "HARDWARE" /\ ~UNCHANGED serviceVars
  <2>1. /\ next_config' = next_config + 1 /\ prepared' = FALSE
        /\ ChirpApplyFails(c) /\ valid' = FALSE /\ pending' = c
        /\ UNCHANGED <<active, values, staged>>
        /\ UNCHANGED <<owner, running, boot_id, test_id, prepared_for>>
    BY <1>3, Zenon DEF Apply, Armed, Rejected
  <2> QED BY <1>3, <2>1, ApplyRefused
<1> QED BY <1>1, <1>2, <1>3, Zenon DEF Apply, Rejected

-----------------------------------------------------------------------------
(* Every step *)

(* Every request of every session.                                         *)
LEMMA CommandKept ==
  ASSUME ServiceInv, NEW s \in Sessions, NEW q \in Requests,
         NEW mutable \in BOOLEAN, NEW r, Command(s, q, mutable, r)
  PROVE  ServiceInv'
<1>1. CASE UNCHANGED serviceVars
  BY <1>1, NothingKept
<1>2. CASE EndSession(s, r)
  BY <1>2, EndSessionKept
<1>3. CASE Served(s, mutable) /\ Mutating(s, q, r)
  <2>1. ~running
    BY <1>3 DEF Served
  <2>2. CASE q.op = "SET_BOOT_ID" /\ SetBootId(q, r)
    BY <2>2, SetBootIdKept
  <2>3. CASE q.op = "PREPARE_TEST" /\ PrepareTest(q, r)
    BY <2>3, PrepareTestKept
  <2>4. CASE q.op = "SET_GENERATED" /\ SetGenerated(s, q, r)
    BY <2>4, SetGeneratedKept
  <2>5. CASE q.op = "UPLOAD_BEGIN" /\ UploadBegin(s, q, r)
    BY <2>1, <2>5, UploadBeginKept
  <2>6. CASE q.op = "UPLOAD_DATA" /\ UploadData(s, q, r)
    BY <2>1, <2>6, UploadDataKept
  <2>7. CASE UploadCommit(s, r)
    BY <2>1, <2>7, UploadCommitKept
  <2>8. CASE q.op = "SELECT_WAVEFORM" /\ SelectWaveform(s, q, r)
    BY <2>8, SelectWaveformKept
  <2>9. CASE Apply(s, r)
    BY <2>1, <2>9, ApplyKept
  <2>10. CASE UploadCancel(r)
    BY <2>10, UploadCancelKept
  <2> QED
    BY <1>3, <2>2, <2>3, <2>4, <2>5, <2>6, <2>7, <2>8, <2>9, <2>10, Zenon
       DEF Mutating
<1> QED BY <1>1, <1>2, <1>3, Zenon DEF Command, Get, Busy

(* A run that starts locks the waveform, and one that ends unlocks it.     *)
LEMMA LockedHolds ==
  ASSUME NEW w, WaveInv(w), NEW c, NEW n, NEW value \in BOOLEAN, Holds(w, c, n)
  PROVE  Holds(Locked(w, value), c, n)
<1> DEFINE v == Locked(w, value)
<1>1. /\ v.uploading = w.uploading /\ v.current_id = w.current_id
      /\ v.current_samples = w.current_samples /\ v.bram = w.bram
  BY LockedInv
<1> HIDE DEF v
<1>2. Holds(v, c, n)
  BY <1>1 DEF Holds
<1> QED BY <1>2 DEF v

(* A run starts with a configuration in force, and ends.                   *)
LEMMA StartRunKept == ServiceInv /\ StartRun => ServiceInv'
<1> SUFFICES ASSUME ServiceInv, StartRun PROVE ServiceInv'
  OBVIOUS
<1>1. /\ CanStart /\ running' = TRUE /\ wave' = Locked(wave, TRUE)
      /\ prepared' = FALSE
      /\ UNCHANGED <<active, values, valid, next_config, tx>>
      /\ UNCHANGED <<pending, staged, owner>>
      /\ UNCHANGED <<boot_id, test_id, prepared_for>>
  BY DEF StartRun, cfgVars, stageVars
<1>2. WaveInv(wave') /\ wave'.locked /\ wave'.uploading = wave.uploading
  BY <1>1, LockedInv DEF ServiceInv
<1>3. Holds(wave, active, tx.samples) => Holds(wave', active, tx.samples)
  BY <1>1, LockedHolds DEF ServiceInv
<1>4. StageTypeOK' /\ FlagTypeOK'
  BY <1>1 DEF ServiceInv, StageTypeOK, FlagTypeOK
<1>5. IdTypeOK'
  BY <1>1 DEF ServiceInv, IdTypeOK
<1>6. valid' /\ ~wave'.uploading
  BY <1>1, <1>2 DEF CanStart
<1> QED BY <1>1, <1>2, <1>3, <1>4, <1>5, <1>6, RegistersKept

LEMMA EndRunKept == ServiceInv /\ EndRun => ServiceInv'
<1> SUFFICES ASSUME ServiceInv, EndRun PROVE ServiceInv'
  OBVIOUS
<1>1. /\ running' = FALSE /\ wave' = Locked(wave, FALSE)
      /\ UNCHANGED <<active, values, valid, next_config, tx>>
      /\ UNCHANGED <<pending, staged, owner>> /\ UNCHANGED idVars
  BY DEF EndRun, cfgVars, stageVars
<1>2. WaveInv(wave')
  BY <1>1, LockedInv DEF ServiceInv
<1>3. Holds(wave, active, tx.samples) => Holds(wave', active, tx.samples)
  BY <1>1, LockedHolds DEF ServiceInv
<1>4. StageTypeOK' /\ FlagTypeOK'
  BY <1>1 DEF ServiceInv, StageTypeOK, FlagTypeOK
<1>5. IdTypeOK'
  BY <1>1, IdKept DEF ServiceInv
<1> QED BY <1>1, <1>2, <1>3, <1>4, <1>5, RegistersKept

(* A transmission changes none of what was applied.                        *)
LEMMA TransmissionKept ==
  ServiceInv /\ (Transmit \/ TransmissionEnds \/ TransmissionLate)
    => ServiceInv'
<1> SUFFICES ASSUME ServiceInv, Transmit \/ TransmissionEnds \/ TransmissionLate
             PROVE  ServiceInv'
  OBVIOUS
<1>1. /\ \/ tx' = [tx EXCEPT !.busy = TRUE]
         \/ tx' = [tx EXCEPT !.busy = FALSE]
         \/ tx' = [tx EXCEPT !.fault = TRUE]
      /\ UNCHANGED <<active, values, valid, next_config, running, wave>>
      /\ UNCHANGED stageVars /\ UNCHANGED idVars
  BY Zenon DEF Transmit, TransmissionEnds, TransmissionLate
<1>2. /\ tx' \in TxType /\ tx'.source = tx.source /\ tx'.samples = tx.samples
      /\ tx'.start_inc = tx.start_inc /\ tx'.step = tx.step
      /\ tx'.amplitude = tx.amplitude
  <2>1. tx \in TxType
    BY DEF ServiceInv, ConfigTypeOK
  <2>2. CASE tx' = [tx EXCEPT !.busy = TRUE]
    BY <2>1, <2>2 DEF TxType
  <2>3. CASE tx' = [tx EXCEPT !.busy = FALSE]
    BY <2>1, <2>3 DEF TxType
  <2>4. CASE tx' = [tx EXCEPT !.fault = TRUE]
    BY <2>1, <2>4 DEF TxType
  <2> QED BY <1>1, <2>2, <2>3, <2>4
<1>3. ConfigTypeOK'
  BY <1>1, <1>2 DEF ServiceInv, ConfigTypeOK
<1>4. UNCHANGED <<pending, owner, staged>>
  BY <1>1 DEF stageVars
<1>5. StageTypeOK' /\ FlagTypeOK' /\ IdTypeOK'
  BY <1>1, <1>4, StageKept, FlagKept, IdKept DEF ServiceInv
<1>6. WaveInv(wave)'
  BY <1>1 DEF ServiceInv
<1>7. Loaded => Loaded'
  BY <1>1, <1>2 DEF Loaded, Holds, Sweeps
<1> QED BY <1>1, <1>3, <1>5, <1>6, <1>7 DEF ServiceInv

(* The invariant of the service is inductive.                              *)
LEMMA ServiceInvKept == ServiceInv /\ [Next]_serviceVars => ServiceInv'
<1> SUFFICES ASSUME ServiceInv, [Next]_serviceVars PROVE ServiceInv'
  OBVIOUS
<1>1. CASE UNCHANGED serviceVars
  BY <1>1, NothingKept
<1>2. CASE Request
  BY <1>2, CommandKept DEF Request
<1> QED
  BY <1>1, <1>2, StartRunKept, EndRunKept, TransmissionKept DEF Next

(* The invariant holds in every state of the service.                      *)
THEOREM ServiceCorrect == Spec => []ServiceInv
  BY ServiceStarts, ServiceInvKept, PTL DEF Spec

(* Every variable keeps its type, whatever is asked: no configuration gets *)
(* values out of range, and no number outgrows its limit.                  *)
THEOREM ServiceTypes == Spec => []TypeOK
  BY ServiceCorrect, ServiceTyped, PTL

(* A waveform that can be selected is the file that was announced, sample  *)
(* for sample, for files, pieces and interruptions of every kind.          *)
THEOREM CommittedWaveformIsFile == Spec => []CommittedIsFile
  BY ServiceCorrect, ServiceFiles, PTL

(* What a run transmits is what was applied: no request, upload, refused   *)
(* APPLY or closed connection changes it under the run, and the end of a   *)
(* generated sweep is within rounding of its stop frequency.               *)
THEOREM RunPlaysWhatWasApplied == Spec => []PlaysWhatWasApplied
  BY ServiceCorrect, ServicePlays, PTL

-----------------------------------------------------------------------------
(* The prepared test *)

(* A prepared test names the last number that was given, which is that of  *)
(* the configuration in force, if one is.                                  *)
PreparedFor ==
  /\ valid => active.id = next_config
  /\ prepared => prepared_for = next_config

(* No request makes a prepared test out of date.                           *)
LEMMA PreparedByCommand ==
  ASSUME ServiceInv, PreparedFor, NEW s, NEW q, NEW mutable, NEW r,
         Command(s, q, mutable, r)
  PROVE  PreparedFor'
<1> USE DEF PreparedFor, serviceVars, cfgVars, idVars
<1>1. CASE Get(r) \/ EndSession(s, r) \/ Busy(s, mutable, r)
  BY <1>1 DEF Get, EndSession, Busy
<1>2. CASE SetBootId(q, r)
  BY <1>2 DEF SetBootId, Rejected
<1>3. CASE PrepareTest(q, r)
  BY <1>3 DEF PrepareTest, Rejected
<1>4. CASE SetGenerated(s, q, r) \/ SelectWaveform(s, q, r)
  BY <1>4 DEF SetGenerated, SelectWaveform, Stage, Rejected
<1>5. CASE UploadBegin(s, q, r)
  <2>1. UNCHANGED valid \/ valid' = (valid /\ active.mode # "WAV")
    BY <1>5, Zenon DEF UploadBegin, Rejected
  <2>2. /\ active' = active /\ next_config' = next_config
        /\ prepared' = prepared /\ prepared_for' = prepared_for
    BY <1>5 DEF UploadBegin, Rejected
  <2>3. valid' => valid
    BY <2>1, Zenon
  <2> QED BY <2>2, <2>3, Zenon
<1>6. CASE UploadCommit(s, r) \/ UploadData(s, q, r) \/ UploadCancel(r)
  <2>1. UNCHANGED valid \/ valid' = (valid /\ (Committed(wave, PlayerIdle).ok
                                                  => active.mode # "WAV"))
    BY <1>6, Zenon DEF UploadCommit, UploadData, UploadCancel, Rejected
  <2>2. /\ active' = active /\ next_config' = next_config
        /\ prepared' = prepared /\ prepared_for' = prepared_for
    BY <1>6 DEF UploadCommit, UploadData, UploadCancel, Rejected
  <2>3. valid' => valid
    BY <2>1, Zenon
  <2> QED BY <2>2, <2>3, Zenon
<1>7. CASE Apply(s, r)
  <2>1. CASE UNCHANGED serviceVars
    BY <2>1
  <2> DEFINE n == next_config + 1
             c == [pending EXCEPT !.id = n]
             v == Calculated(pending, wave.current_samples)
  <2>2. CASE next_config' = n /\ ~prepared' /\ ~valid'
    BY <2>2
  <2>3. CASE next_config' = n /\ ~prepared'
             /\ active' = [c EXCEPT !.duration = v.duration]
    <3>1. pending \in Config
      BY DEF ServiceInv, StageTypeOK
    <3> HIDE DEF n, v
    <3>2. active'.id = n
      BY <2>3, <3>1 DEF Config
    <3> QED BY <2>3, <3>2
  <2> QED
    BY <1>7, <2>1, <2>2, <2>3, Zenon DEF Apply, Armed, Rejected
<1>8. QED
  BY <1>1, <1>2, <1>3, <1>4, <1>5, <1>6, <1>7, Zenon DEF Command, Mutating

(* Nor does any other step.                                                *)
LEMMA PreparedForKept ==
  ServiceInv /\ PreparedFor /\ [Next]_serviceVars => PreparedFor'
<1> SUFFICES ASSUME ServiceInv, PreparedFor, [Next]_serviceVars
             PROVE  PreparedFor'
  OBVIOUS
<1>1. CASE UNCHANGED serviceVars
  BY <1>1 DEF PreparedFor, serviceVars, cfgVars, idVars
<1>2. CASE Request
  BY <1>2, PreparedByCommand DEF Request
<1>3. CASE StartRun
  BY <1>3 DEF PreparedFor, StartRun, cfgVars
<1>4. CASE Transmit \/ TransmissionEnds \/ TransmissionLate \/ EndRun
  <2>1. UNCHANGED <<active, valid, next_config, prepared, prepared_for>>
    BY <1>4 DEF Transmit, TransmissionEnds, TransmissionLate, EndRun, cfgVars,
       idVars
  <2> QED BY <2>1 DEF PreparedFor
<1>5. QED
  BY <1>1, <1>2, <1>3, <1>4 DEF Next

(* A prepared test is for the configuration with the last number, the one  *)
(* that would run, whatever was staged, uploaded, applied or refused since *)
(* it was prepared.                                                        *)
THEOREM TestIsForConfiguration == Spec => []TestMatchesConfiguration
<1>1. Init => PreparedFor
  BY DEF Init, PreparedFor
<1>2. PreparedFor => TestMatchesConfiguration
  BY DEF PreparedFor, TestMatchesConfiguration
<1>3. QED
  BY <1>1, <1>2, PreparedForKept, ServiceCorrect, PTL DEF Spec

-----------------------------------------------------------------------------
(* What a request does to the ownership of what is staged or uploaded *)

Quiet == owner = None => ~staged /\ ~wave.uploading

(* A request makes no other session the owner than its own, takes nothing  *)
(* from another owner and leaves nothing without an owner.                 *)
LEMMA Owned ==
  ASSUME NEW s \in Sessions, NEW q, NEW mutable \in BOOLEAN, NEW r,
         Command(s, q, mutable, r), Quiet
  PROVE  /\ owner' # owner => owner \in {None, s} /\ owner' \in {None, s}
         /\ q.op = "END_SESSION" => owner' # s
         /\ Quiet'
<1> s # None
  BY ServiceAssumption
<1>1. CASE UNCHANGED serviceVars /\ q.op # "END_SESSION"
  BY <1>1 DEF Quiet, serviceVars, stageVars
<1>2. CASE EndSession(s, r) /\ q.op = "END_SESSION"
  <2>1. CASE s = owner
    <3>1. owner' = None /\ ~staged' /\ wave' = Cancelled(wave)
      BY <1>2, <2>1, Zenon DEF EndSession
    <3>2. QED
      BY <2>1, <3>1 DEF Quiet, Cancelled
  <2>2. CASE s # owner
    <3>1. UNCHANGED <<staged, owner, wave>>
      BY <1>2, <2>2, Zenon DEF EndSession
    <3>2. QED
      BY <2>2, <3>1 DEF Quiet
  <2>3. QED
    BY <2>1, <2>2
<1>3. CASE Served(s, mutable) /\ Mutating(s, q, r)
  <2> q.op # "END_SESSION" /\ owner \in {None, s}
    BY <1>3 DEF Mutating, Served
  <2>1. CASE UNCHANGED <<owner, staged, wave>>
    BY <2>1 DEF Quiet
  <2>2. CASE owner' = s
    BY <2>2 DEF Quiet
  <2>3. CASE owner = s /\ UNCHANGED owner
    BY <2>3 DEF Quiet
  <2>4. CASE UNCHANGED <<owner, staged>> /\ wave' = Cancelled(wave)
    BY <2>4 DEF Quiet, Cancelled
  <2>5. CASE SetBootId(q, r) \/ PrepareTest(q, r)
    BY <2>1, <2>5, Zenon DEF SetBootId, PrepareTest, Rejected, serviceVars,
       stageVars
  <2>6. CASE SetGenerated(s, q, r) \/ SelectWaveform(s, q, r)
    BY <2>1, <2>2, <2>6, Zenon DEF SetGenerated, SelectWaveform, Stage,
       Rejected, serviceVars, stageVars
  <2>7. CASE UploadBegin(s, q, r)
    BY <2>1, <2>2, <2>7, Zenon DEF UploadBegin, Rejected, serviceVars, stageVars
  <2>8. CASE UploadData(s, q, r) \/ UploadCommit(s, r)
    BY <2>1, <2>3, <2>8, Zenon DEF UploadData, UploadCommit, Rejected,
       serviceVars, stageVars
  <2>9. CASE UploadCancel(r)
    BY <2>4, <2>9, Zenon DEF UploadCancel, stageVars
  <2>10. CASE Apply(s, r)
    <3>1. CASE UNCHANGED serviceVars
      BY <2>1, <3>1 DEF serviceVars, stageVars
    <3>2. CASE ApplyCheck(s) = "OK" /\ UNCHANGED owner
      <4>1. owner = s
        BY <3>2 DEF ApplyCheck
      <4>2. QED
        BY <2>3, <3>2, <4>1
    <3>3. QED
      BY <2>10, <3>1, <3>2, Zenon DEF Apply, Rejected
  <2>11. QED
    BY <1>3, <2>5, <2>6, <2>7, <2>8, <2>9, <2>10, Zenon DEF Mutating
<1>4. QED
  <2>1. CASE q.op = "GET_CONFIGURATION" /\ Get(r)
    BY <1>1, <2>1 DEF Get
  <2>2. CASE Busy(s, mutable, r) /\ q.op \notin {"GET_CONFIGURATION", "END_SESSION"}
    BY <1>1, <2>2 DEF Busy
  <2>3. QED
    BY <1>2, <1>3, <2>1, <2>2 DEF Command

-----------------------------------------------------------------------------
(* The parts of the inductive invariant *)

Calls == [session : Sessions, token : 0 .. MaxToken]

Asked == {q \in Requests : q.op # "END_SESSION"}
Entry ==
  [call : Calls, request : Asked \cup {EndRequest}, age : 0 .. RpcTicks]

(* Every variable of the server has its type.                              *)
ServerTypeOK ==
  /\ requests \in Seq(Entry) /\ responses \in Seq([call : Calls, result : Results])
  /\ session \in Sessions \cup {0} /\ token \in 0 .. MaxToken
  /\ phase \in {"ACCEPT", "RECEIVE", "SEND", "TEST", "WAIT", "RESPOND"}
  /\ phase # "ACCEPT" => session \in Sessions
  /\ current \in Asked \cup {EndRequest, NoRequest}
  /\ phase \in {"SEND", "TEST", "WAIT"} => current \in Asked \cup {EndRequest}
  /\ age \in 0 .. RpcTicks
  /\ given_up \subseteq Calls
  /\ owner \in Sessions \cup {None}

From(i) == requests[i].call.session
Answers == {responses[i] : i \in 1 .. Len(responses)}

(* The request of rpc is queued, or has been.                              *)
Sent == phase \in {"TEST", "WAIT"}

(* The connection sends its END_SESSION, or has sent it.                   *)
Ending ==
  phase = "ACCEPT" \/ (phase \in {"SEND", "TEST", "WAIT"} /\ current = EndRequest)

(* The requests of the connections follow each other in the queue, and     *)
(* END_SESSION is the last one of its connection.                          *)
InLine ==
  \A i, j \in 1 .. Len(requests) :
    /\ From(i) <= session
    /\ i < j => From(i) <= From(j)
    /\ i < j /\ requests[i].request = EndRequest => From(i) < From(j)

(* A connection has at most one request in the queue before END_SESSION,   *)
(* and none when it is served.                                             *)
OneQueued ==
  /\ phase \in {"RECEIVE", "RESPOND"} \/ (phase = "SEND" /\ current # EndRequest)
       => \A i \in 1 .. Len(requests) : From(i) # session
  /\ phase = "SEND" =>
       \A i, j \in 1 .. Len(requests) :
         /\ From(i) = session => requests[i].request # EndRequest
         /\ From(i) = session /\ From(j) = session => i = j

(* What the queues hold of a request under way: the request itself, as old *)
(* as the call and not carried out, or an answer that was given for it.    *)
Waiting ==
  Sent /\ current # EndRequest =>
    /\ \A i \in 1 .. Len(requests) : From(i) = session =>
         /\ requests[i].call = Call /\ requests[i].request = current
         /\ requests[i].age = age /\ executed = {}
    /\ \A i, j \in 1 .. Len(requests) :
         From(i) = session /\ From(j) = session => i = j
    /\ \A a \in Answers : a.call = Call =>
         /\ \A i \in 1 .. Len(requests) : From(i) # session
         /\ \/ <<current, a.result>> \in executed
            \/ a.result = "TIMEOUT" /\ executed = {}

(* A request that is not queued yet has not been carried out.              *)
NotYet == phase = "SEND" /\ current # EndRequest => executed = {}

(* An answer bears the number of an earlier call, as long as the           *)
(* connection lasts, or that of the call under way.                        *)
Numbered ==
  /\ \A a \in Answers :
       /\ a.call.session <= session
       /\ a.call.session = session /\ ~Ending =>
            a.call.token <= token /\ (phase = "SEND" => a.call.token < token)
  /\ phase \in {"SEND", "TEST", "WAIT", "RESPOND"} /\ ~Ending => token > 0

(* Requests that wait are as old as the call under way, or older.          *)
Older ==
  phase \in {"SEND", "TEST", "WAIT"} =>
    \A i \in 1 .. Len(requests) : requests[i].age >= age

(* A request that was given up is too old to be carried out.               *)
GivenUp ==
  /\ \A c \in given_up :
       c.session <= session /\ (c.session = session => Ending /\ c # Call)
  /\ \A i \in 1 .. Len(requests) :
       requests[i].call \in given_up => TooOld(requests[i])

(* The owner is a connection whose requests are the oldest in the queue.   *)
(* One that is gone, or has requests that can still be carried out, has    *)
(* its END_SESSION in the queue.                                           *)
Followed ==
  /\ owner <= session /\ \A i \in 1 .. Len(requests) : owner <= From(i)
  /\ \A i \in 1 .. Len(requests) :
       requests[i].request # EndRequest /\ ~TooOld(requests[i])
         => Live(From(i)) \/ CleanupQueued(From(i))

(* END_SESSION is queued, or has left nothing of the connection.           *)
Cleaned ==
  Sent /\ current = EndRequest =>
    \/ CleanupQueued(session)
    \/ owner # session /\ \A i \in 1 .. Len(requests) : From(i) # session

(* Requests and calls *)
LEMMA Requesting ==
  /\ EndRequest # NoRequest /\ EndRequest \notin Asked
  /\ EndRequest.op = "END_SESSION" /\ NoRequest.op # "END_SESSION"
  /\ None \notin Sessions /\ 0 \notin Sessions /\ RpcTicks \in Nat \ {0}
  /\ QueueLength \in Nat \ {0} /\ MaxToken \in Nat /\ Sessions \subseteq Nat
  /\ "TIMEOUT" \in Results
BY ServiceAssumption, ServerAssumption DEF EndRequest, NoRequest, Asked, None,
   Results

(* A poll takes the first request and adds an answer to it.                *)
LEMMA Polled ==
  ASSUME ServerTypeOK, NEW mutable \in BOOLEAN, Poll(mutable)
  PROVE  /\ requests # <<>> /\ requests[1] \in Entry /\ Len(requests) \in Nat
         /\ 1 \in 1 .. Len(requests)
         /\ requests' \in Seq(Entry) /\ Len(requests') = Len(requests) - 1
         /\ \A i \in 1 .. Len(requests') :
              i + 1 \in 1 .. Len(requests) /\ requests'[i] = requests[i + 1]
         /\ given_up' = given_up \ {requests[1].call}
         /\ UNCHANGED taskVars
         /\ \E r \in Results :
              /\ responses' = Answered(requests[1], r)
              /\ \/ /\ TooOld(requests[1]) /\ r = "TIMEOUT"
                    /\ UNCHANGED <<serviceVars, executed>>
                 \/ /\ ~TooOld(requests[1])
                    /\ Command(requests[1].call.session, requests[1].request, mutable, r)
                    /\ executed' = IF Mine(requests[1].call)
                                   THEN executed \cup {<<requests[1].request, r>>}
                                   ELSE executed
<1>1. requests \in Seq(Entry) /\ requests # <<>>
  BY DEF ServerTypeOK, Poll
<1>2. requests' = Tail(requests) /\ given_up' = given_up \ {Head(requests).call}
  BY Zenon DEF Poll
<1>3. UNCHANGED taskVars
  BY Zenon DEF Poll
<1>4. Head(requests) = requests[1]
  BY <1>1, HeadTaken
<1>5. \E r \in Results :
              /\ responses' = Answered(requests[1], r)
              /\ \/ /\ TooOld(requests[1]) /\ r = "TIMEOUT"
                    /\ UNCHANGED <<serviceVars, executed>>
                 \/ /\ ~TooOld(requests[1])
                    /\ Command(requests[1].call.session, requests[1].request, mutable, r)
                    /\ executed' = IF Mine(requests[1].call)
                                   THEN executed \cup {<<requests[1].request, r>>}
                                   ELSE executed
  BY <1>4, Requesting, Zenon DEF Poll
<1>6. QED
  BY <1>1, <1>2, <1>3, <1>4, <1>5, HeadTaken

(* An answer is added, perhaps at the cost of the oldest one.              *)
LEMMA AnsweredOne ==
  ASSUME ServerTypeOK, NEW q \in Entry, NEW r \in Results
  PROVE  /\ Answered(q, r) \in Seq([call : Calls, result : Results])
         /\ \A i \in 1 .. Len(Answered(q, r)) :
              \/ Answered(q, r)[i] \in Answers
              \/ Answered(q, r)[i] = [call |-> q.call, result |-> r]
<1> DEFINE AnswerType == [call : Calls, result : Results]
           a == [call |-> q.call, result |-> r]
           old == IF Len(responses) < QueueLength THEN responses ELSE Tail(responses)
<1>1. responses \in Seq(AnswerType) /\ a \in AnswerType
  BY DEF ServerTypeOK, Entry
<1>2. old \in Seq(AnswerType) /\ \A i \in 1 .. Len(old) : old[i] \in Answers
  <2>1. CASE Len(responses) < QueueLength
    BY <1>1, <2>1 DEF Answers
  <2>2. CASE ~(Len(responses) < QueueLength)
    <3>1. responses # <<>>
      BY <2>2, Requesting
    <3>2. QED
      BY <1>1, <2>2, <3>1, HeadTaken DEF Answers
  <2>3. QED
    BY <2>1, <2>2
<1>3. Answered(q, r) = Append(old, a)
  BY DEF Answered
<1> HIDE DEF AnswerType, a, old
<1>4. QED
  <2>1. /\ Append(old, a) \in Seq(AnswerType) /\ Len(Append(old, a)) = Len(old) + 1
        /\ Append(old, a)[Len(old) + 1] = a
        /\ \A i \in 1 .. Len(old) : Append(old, a)[i] = old[i]
    BY <1>1, <1>2, EntryAdded
  <2>2. Len(old) \in Nat
    BY <1>2
  <2>3. \A i \in 1 .. Len(old) + 1 : i \in 1 .. Len(old) \/ i = Len(old) + 1
    BY <2>2
  <2>4. QED
    BY <1>2, <1>3, <2>1, <2>3 DEF AnswerType, a

(* rpc tests its deadline, or finds no answer.                             *)
LEMMA Looked ==
  ASSUME TestDeadline \/ NothingCame
  PROVE  /\ Sent /\ Sent'
         /\ UNCHANGED <<serviceVars, given_up, queueVars, session, token,
                        current, age, answer, executed>>
BY DEF TestDeadline, NothingCame, server, Sent

(* A run behind the server leaves the queues and the connections alone,    *)
(* and what they stage or upload.                                          *)
LEMMA RunAlone ==
  ASSUME RunStep
  PROVE  /\ UNCHANGED <<queueVars, taskVars, historyVars, owner, staged>>
         /\ \/ UNCHANGED wave
            \/ \E value \in BOOLEAN : wave' = Locked(wave, value)
<1>1. UNCHANGED <<queueVars, taskVars, historyVars>>
  BY Zenon DEF RunStep
<1>2. CASE StartRun \/ EndRun
  <2>1. wave' = Locked(wave, TRUE) \/ wave' = Locked(wave, FALSE)
    BY <1>2, Zenon DEF StartRun, EndRun
  <2>2. UNCHANGED <<owner, staged>>
    BY <1>2 DEF StartRun, EndRun, stageVars
  <2>3. QED
    BY <1>1, <2>1, <2>2
<1>3. CASE Transmit \/ TransmissionEnds \/ TransmissionLate
  BY <1>1, <1>3 DEF Transmit, TransmissionEnds, TransmissionLate, stageVars
<1>4. QED
  BY <1>2, <1>3, Zenon DEF RunStep

(* Types                                                                   *)
LEMMA ServerTypesKept ==
  ASSUME ServerTypeOK, Quiet, [ServerNext]_vars
  PROVE  ServerTypeOK'
<1> USE Requesting
<1>1. CASE UNCHANGED vars
  BY <1>1 DEF ServerTypeOK, vars, serviceVars, stageVars, queueVars, taskVars,
     historyVars
<1>2. ASSUME NEW mutable \in BOOLEAN, Poll(mutable) PROVE ServerTypeOK'
  <2>1. PICK r \in Results :
              /\ responses' = Answered(requests[1], r)
              /\ \/ UNCHANGED serviceVars
                 \/ Command(requests[1].call.session, requests[1].request, mutable, r)
    BY <1>2, Polled
  <2>2. owner' \in Sessions \cup {None}
    <3>1. CASE UNCHANGED serviceVars
      BY <3>1 DEF ServerTypeOK, serviceVars, stageVars
    <3>2. CASE Command(requests[1].call.session, requests[1].request, mutable, r)
      <4>1. requests[1].call.session \in Sessions
        BY <1>2, Polled DEF Entry, Calls
      <4>2. QED
        BY <3>2, <4>1, Owned DEF ServerTypeOK
    <3>3. QED
      BY <2>1, <3>1, <3>2
  <2>3. requests' \in Seq(Entry) /\ given_up' \subseteq given_up
    BY <1>2, Polled
  <2>4. responses' \in Seq([call : Calls, result : Results])
    BY <1>2, <2>1, Polled, AnsweredOne
  <2>5. QED
    BY <1>2, <2>2, <2>3, <2>4, Polled DEF ServerTypeOK, taskVars
<1>3. CASE Accept
  BY <1>3 DEF Accept, server, ServerTypeOK, queueVars, serviceVars, stageVars
<1>4. CASE Disconnect
  BY <1>4 DEF Disconnect, StartCleanup, server, ServerTypeOK, queueVars,
     serviceVars, stageVars
<1>5. CASE Submit
  <2>1. [call |-> Call, request |-> current, age |-> age] \in Entry
    BY <1>5 DEF Submit, ServerTypeOK, Entry, Calls, Call
  <2>2. requests' \in Seq(Entry)
    BY <1>5, <2>1, EntryAdded DEF Submit, ServerTypeOK
  <2>3. QED
    BY <1>5, <2>2 DEF Submit, server, ServerTypeOK, serviceVars, stageVars
<1>6. CASE TakeAnswer
  <2>1. responses' \in Seq([call : Calls, result : Results])
    BY <1>6, HeadTaken DEF TakeAnswer, ServerTypeOK
  <2>2. QED
    BY <1>6, <2>1 DEF TakeAnswer, server, ServerTypeOK, serviceVars, stageVars
<1>7. CASE GiveUp
  BY <1>7 DEF GiveUp, StartCleanup, ServerTypeOK, serviceVars, stageVars,
     queueVars, Call, Calls
<1>8. CASE Respond
  BY <1>8 DEF Respond, server, ServerTypeOK, serviceVars, stageVars, queueVars
<1>9. ASSUME NEW q \in Requests, Receive(q) PROVE ServerTypeOK'
  <2>1. token' \in 0 .. MaxToken
    BY <1>9 DEF Receive, ServerTypeOK
  <2>2. current' \in Asked
    BY <1>9 DEF Receive, Asked
  <2>3. UNCHANGED <<owner, requests, responses, session, given_up>>
    BY <1>9, Zenon DEF Receive, server, serviceVars, stageVars, queueVars
  <2>4. phase' \in {"SEND", "RESPOND"} /\ phase = "RECEIVE" /\ age' \in {0, age}
    BY <1>9, Zenon DEF Receive, server
  <2>5. QED
    BY <2>1, <2>2, <2>3, <2>4 DEF ServerTypeOK
<1>10. CASE Tick
  <2>1. \A i \in 1 .. Len(requests) :
          [requests[i] EXCEPT !.age = IF @ < RpcTicks THEN @ + 1 ELSE @] \in Entry
    <3>1. TAKE i \in 1 .. Len(requests)
    <3>2. requests[i] \in Entry
      BY DEF ServerTypeOK
    <3>3. QED
      BY <3>2 DEF Entry
  <2>2. Len(requests) \in Nat
    BY DEF ServerTypeOK
  <2>3. requests' \in Seq(Entry)
    BY <1>10, <2>1, <2>2 DEF Tick
  <2>4. age' \in 0 .. RpcTicks
    BY <1>10 DEF Tick, ServerTypeOK
  <2>5. UNCHANGED <<owner, responses, session, token, phase, current, given_up>>
    BY <1>10, Zenon DEF Tick, serviceVars, stageVars, historyVars
  <2>6. QED
    BY <2>3, <2>4, <2>5 DEF ServerTypeOK
<1>11. CASE RunStep \/ TestDeadline \/ NothingCame
  <2>1. phase' = phase \/ (Sent /\ Sent')
    BY <1>11, RunAlone, Looked DEF taskVars
  <2>2. UNCHANGED <<owner, requests, responses, session, token, current, age,
                    given_up>>
    BY <1>11, RunAlone, Looked DEF taskVars, queueVars, historyVars,
       serviceVars, stageVars
  <2>3. QED
    BY <2>1, <2>2 DEF ServerTypeOK, Sent
<1>12. QED
  BY <1>1, <1>2, <1>3, <1>4, <1>5, <1>6, <1>7, <1>8, <1>9, <1>10, <1>11
     DEF ServerNext, ServerTask, ExperimentTask

(* What the queued requests are.                                           *)
LEMMA Entries ==
  ASSUME ServerTypeOK
  PROVE  /\ Len(requests) \in Nat
         /\ \A i \in 1 .. Len(requests) :
              /\ requests[i] \in Entry /\ requests[i].call \in Calls
              /\ From(i) \in Sessions /\ From(i) \in Nat \ {0}
              /\ requests[i].call.token \in 0 .. MaxToken
              /\ requests[i].request \in Asked \cup {EndRequest}
              /\ requests[i].age \in 0 .. RpcTicks
         /\ session \in Nat /\ token \in Nat /\ owner \in Nat /\ age \in Nat
         /\ Answers \subseteq [call : Calls, result : Results]
<1>1. \A i \in 1 .. Len(requests) : requests[i] \in Entry
  BY DEF ServerTypeOK
<1>2. Answers \subseteq [call : Calls, result : Results]
  <2>1. \A i \in 1 .. Len(responses) :
          responses[i] \in [call : Calls, result : Results]
    <3> DEFINE AnswerType == [call : Calls, result : Results]
    <3>1. responses \in Seq(AnswerType)
      BY DEF ServerTypeOK
    <3> HIDE DEF AnswerType
    <3>2. \A i \in 1 .. Len(responses) : responses[i] \in AnswerType
      BY <3>1
    <3>3. QED
      BY <3>2 DEF AnswerType
  <2>2. QED
    BY <2>1, Zenon DEF Answers
<1>3. ASSUME NEW i \in 1 .. Len(requests)
      PROVE  /\ requests[i] \in Entry /\ requests[i].call \in Calls
             /\ From(i) \in Sessions /\ From(i) \in Nat \ {0}
             /\ requests[i].call.token \in 0 .. MaxToken
             /\ requests[i].request \in Asked \cup {EndRequest}
             /\ requests[i].age \in 0 .. RpcTicks
  <2>1. requests[i] \in Entry
    BY <1>1
  <2>2. /\ requests[i].call \in Calls
        /\ requests[i].request \in Asked \cup {EndRequest}
        /\ requests[i].age \in 0 .. RpcTicks
    BY <2>1 DEF Entry
  <2>3. From(i) \in Sessions /\ requests[i].call.token \in 0 .. MaxToken
    BY <2>2 DEF Calls, From
  <2>4. QED
    BY <2>1, <2>2, <2>3, Requesting
<1>4. Len(requests) \in Nat /\ session \in Nat /\ token \in Nat
      /\ owner \in Nat /\ age \in Nat
  BY Requesting DEF ServerTypeOK, None
<1>5. QED
  BY <1>2, <1>3, <1>4

(* A request that is submitted is the last one in the queue.               *)
LEMMA Submitted ==
  ASSUME ServerTypeOK, Submit
  PROVE  /\ phase = "SEND" /\ phase' = "TEST" /\ Len(requests) < QueueLength
         /\ Len(requests') = Len(requests) + 1 /\ Len(requests) \in Nat
         /\ requests'[Len(requests) + 1] =
              [call |-> Call, request |-> current, age |-> age]
         /\ \A i \in 1 .. Len(requests) : requests'[i] = requests[i]
         /\ \A i \in 1 .. Len(requests') :
              i \in 1 .. Len(requests) \/ i = Len(requests) + 1
         /\ UNCHANGED <<serviceVars, given_up, responses, session, token,
                        current, age, answer, executed>>
<1>1. [call |-> Call, request |-> current, age |-> age] \in Entry
  BY DEF Submit, ServerTypeOK, Entry, Calls, Call
<1>2. requests \in Seq(Entry)
  BY DEF ServerTypeOK
<1>3. requests' = Append(requests, [call |-> Call, request |-> current, age |-> age])
  BY Zenon DEF Submit
<1>4. phase = "SEND" /\ phase' = "TEST" /\ Len(requests) < QueueLength
  BY DEF Submit, server
<1>5. UNCHANGED <<serviceVars, given_up, responses, session, token, current,
                  age, answer, executed>>
  BY DEF Submit, server
<1>6. QED
  BY <1>1, <1>2, <1>3, <1>4, <1>5, EntryAdded

(* Time changes nothing but ages.                                          *)
LEMMA Ticked ==
  ASSUME ServerTypeOK, Tick
  PROVE  /\ Len(requests') = Len(requests)
         /\ \A i \in 1 .. Len(requests) :
              /\ requests'[i].call = requests[i].call
              /\ requests'[i].request = requests[i].request
              /\ requests'[i].age =
                   IF requests[i].age < RpcTicks THEN requests[i].age + 1
                                                 ELSE requests[i].age
         /\ age' = IF age < RpcTicks THEN age + 1 ELSE age
         /\ UNCHANGED <<serviceVars, executed, given_up, responses, session,
                        token, phase, current, answer>>
<1>1. /\ requests' = [i \in 1 .. Len(requests) |->
           [requests[i] EXCEPT !.age = IF @ < RpcTicks THEN @ + 1 ELSE @]]
      /\ age' = IF age < RpcTicks THEN age + 1 ELSE age
      /\ UNCHANGED <<serviceVars, executed, given_up, responses, session,
                     token, phase, current, answer>>
  BY Zenon DEF Tick, historyVars
<1>2. Len(requests) \in Nat
  BY DEF ServerTypeOK
<1>3. Len(requests') = Len(requests)
  BY <1>1, <1>2
<1>4. \A i \in 1 .. Len(requests) : requests[i] \in Entry
  BY DEF ServerTypeOK
<1>5. ASSUME NEW i \in 1 .. Len(requests)
      PROVE  /\ requests'[i].call = requests[i].call
              /\ requests'[i].request = requests[i].request
              /\ requests'[i].age =
                   IF requests[i].age < RpcTicks THEN requests[i].age + 1
                                                 ELSE requests[i].age
  <2>1. requests'[i] = [requests[i] EXCEPT !.age = IF @ < RpcTicks THEN @ + 1 ELSE @]
    BY <1>1
  <2>2. requests[i] \in Entry
    BY <1>4
  <2>3. QED
    BY <2>1, <2>2 DEF Entry
<1>6. QED
  BY <1>1, <1>3, <1>5

(* The server takes one answer out of its queue.                           *)
LEMMA AnswerTaken ==
  ASSUME ServerTypeOK, TakeAnswer
  PROVE  /\ phase = "WAIT" /\ Answers' \subseteq Answers
         /\ \/ phase' = "TEST" /\ UNCHANGED answer
            \/ \E a \in Answers :
                 /\ a.call = Call /\ answer' = a.result
                 /\ phase' = IF current = EndRequest THEN "ACCEPT" ELSE "RESPOND"
         /\ UNCHANGED <<serviceVars, given_up, requests, session, token,
                        current, age, executed>>
<1>1. responses \in Seq([call : Calls, result : Results]) /\ responses # <<>>
  BY DEF ServerTypeOK, TakeAnswer
<1>2. responses' = Tail(responses) /\ phase = "WAIT"
  BY Zenon DEF TakeAnswer
<1>3. Head(responses) \in Answers /\ Answers' \subseteq Answers
  <2>1. Head(responses) = responses[1] /\ 1 \in 1 .. Len(responses)
    BY <1>1, HeadTaken
  <2>2. \A i \in 1 .. Len(responses') :
          i + 1 \in 1 .. Len(responses) /\ responses'[i] = responses[i + 1]
    BY <1>1, <1>2, HeadTaken
  <2>3. QED
    BY <2>1, <2>2 DEF Answers
<1>4. \/ phase' = "TEST" /\ UNCHANGED answer
      \/ /\ Head(responses).call = Call /\ answer' = Head(responses).result
         /\ phase' = IF current = EndRequest THEN "ACCEPT" ELSE "RESPOND"
  BY DEF TakeAnswer, Mine, server
<1>5. UNCHANGED <<serviceVars, given_up, requests, session, token, current,
                  age, executed>>
  BY Zenon DEF TakeAnswer, server
<1>6. QED
  BY <1>2, <1>3, <1>4, <1>5

(* A new connection is later than everything in the queues.                *)
LEMMA ConnectionAccepted ==
  ASSUME Accept
  PROVE  /\ phase = "ACCEPT" /\ phase' = "RECEIVE" /\ session' = session + 1
         /\ session' \in Sessions /\ token' = 0
         /\ UNCHANGED <<serviceVars, given_up, queueVars, current, age, answer,
                        executed>>
BY DEF Accept, server

(* A request of the client is sent, or answered at once.                   *)
LEMMA RequestReceived ==
  ASSUME NEW q \in Requests, Receive(q)
  PROVE  /\ phase = "RECEIVE" /\ token' = token + 1 /\ current' \in Asked
         /\ executed' = {}
         /\ \/ phase' = "SEND" /\ age' = 0
            \/ phase' = "RESPOND" /\ answer' = "CHECKSUM"
         /\ UNCHANGED <<serviceVars, given_up, queueVars, session>>
BY DEF Receive, server, Asked

(* The connection ends with END_SESSION.                                   *)
LEMMA CleanupStarted ==
  ASSUME Disconnect \/ (GiveUp /\ current # EndRequest)
  PROVE  /\ token' = (token + 1) % (MaxToken + 1) /\ current' = EndRequest
         /\ age' = 0 /\ executed' = {} /\ phase' = "SEND"
         /\ UNCHANGED <<serviceVars, queueVars, session, answer>>
BY DEF Disconnect, GiveUp, StartCleanup, server

(* END_SESSION itself is given up.                                         *)
LEMMA CleanupGivenUp ==
  ASSUME GiveUp, current = EndRequest
  PROVE  /\ phase' = "ACCEPT"
         /\ UNCHANGED <<serviceVars, queueVars, session, answer, given_up,
                        token, current, age, executed>>
BY DEF GiveUp

(* The requests stay in line.                                              *)
LEMMA InLineKept ==
  ASSUME ServerTypeOK, InLine, OneQueued, [ServerNext]_vars
  PROVE  InLine'
<1> USE Entries
<1>1. CASE UNCHANGED <<requests, session>>
  BY <1>1 DEF InLine, From
<1>2. ASSUME NEW mutable \in BOOLEAN, Poll(mutable) PROVE InLine'
  <2>1. UNCHANGED session /\ Len(requests') = Len(requests) - 1
        /\ \A i \in 1 .. Len(requests') :
              i + 1 \in 1 .. Len(requests) /\ requests'[i] = requests[i + 1]
    BY <1>2, Polled DEF taskVars
  <2>2. ASSUME NEW i \in 1 .. Len(requests'), NEW j \in 1 .. Len(requests')
        PROVE  /\ From(i)' <= session'
               /\ i < j => From(i)' <= From(j)'
               /\ i < j /\ requests'[i].request = EndRequest => From(i)' < From(j)'
    <3>1. From(i)' = From(i + 1) /\ From(j)' = From(j + 1) /\ i \in Int /\ j \in Int
      BY <2>1, SMTT(30) DEF From
    <3>2. QED
      BY <2>1, <3>1 DEF InLine
  <2>3. QED
    BY <2>2 DEF InLine
<1>3. CASE Submit
  <2>1. ASSUME NEW i \in 1 .. Len(requests'), NEW j \in 1 .. Len(requests')
        PROVE  /\ From(i)' <= session'
               /\ i < j => From(i)' <= From(j)'
               /\ i < j /\ requests'[i].request = EndRequest => From(i)' < From(j)'
    <3>1. \A k \in 1 .. Len(requests) : From(k)' = From(k)
      BY <1>3, Submitted DEF From
    <3>2. requests'[Len(requests) + 1].call.session = session
      BY <1>3, Submitted DEF Call
    <3>3. \A k \in 1 .. Len(requests) :
            From(k) <= session /\ (requests[k].request = EndRequest => From(k) < session)
      BY <1>3, Submitted DEF InLine, OneQueued
    <3>4. \A k \in 1 .. Len(requests) : From(k) <= session
      BY DEF InLine
    <3>5. CASE j \in 1 .. Len(requests) /\ i \in 1 .. Len(requests)
      BY <1>3, <3>1, <3>5, Submitted DEF InLine
    <3>6. CASE j = Len(requests) + 1
      <4>1. From(j)' = session
        BY <3>2, <3>6 DEF From
      <4>2. QED
        BY <1>3, <3>1, <3>2, <3>3, <4>1, <3>6, Submitted DEF From
    <3>7. CASE i = Len(requests) + 1
      <4>1. From(i)' = session
        BY <3>2, <3>7 DEF From
      <4>2. QED
        BY <1>3, <4>1, <3>7, Submitted
    <3>8. QED
      BY <1>3, <3>5, <3>6, <3>7, Submitted
  <2>2. QED
    BY <2>1 DEF InLine
<1>4. CASE Accept
  <2>1. requests' = requests /\ session' = session + 1
    BY <1>4, ConnectionAccepted DEF queueVars
  <2>2. \A i \in 1 .. Len(requests) : From(i)' = From(i)
    BY <2>1 DEF From
  <2>3. QED
    BY <2>1, <2>2 DEF InLine
<1>5. CASE Tick
  BY <1>5, Ticked DEF InLine, From
<1>6. QED
  BY <1>1, <1>2, <1>3, <1>4, <1>5, AnswerTaken, RequestReceived, CleanupStarted,
     CleanupGivenUp, Looked, RunAlone
     DEF ServerNext, ServerTask, ExperimentTask, vars, taskVars, queueVars,
         Respond

(* One request is answered, or has timed out, before the next is sent.     *)
LEMMA OneQueuedKept ==
  ASSUME ServerTypeOK, InLine, OneQueued, Waiting, [ServerNext]_vars
  PROVE  OneQueued'
<1> USE Entries
<1>1. CASE UNCHANGED <<requests, session, phase, current>>
  BY <1>1 DEF OneQueued, From
<1>2. ASSUME NEW mutable \in BOOLEAN, Poll(mutable) PROVE OneQueued'
  <2>1. UNCHANGED <<session, phase, current>> /\ Len(requests') = Len(requests) - 1
        /\ \A i \in 1 .. Len(requests') :
              i + 1 \in 1 .. Len(requests) /\ requests'[i] = requests[i + 1]
    BY <1>2, Polled DEF taskVars
  <2>2. \A i \in 1 .. Len(requests') : From(i)' = From(i + 1) /\ i \in Int
    BY <2>1 DEF From
  <2>3. \A i, j \in 1 .. Len(requests') : i + 1 = j + 1 => i = j
    OBVIOUS
  <2>4. QED
    BY <2>1, <2>2, <2>3, ZenonT(30) DEF OneQueued
<1>3. CASE Submit
  BY <1>3, Submitted DEF OneQueued
<1>4. CASE Accept
  <2>1. \A i \in 1 .. Len(requests) : From(i)' # session'
    BY <1>4, ConnectionAccepted DEF InLine, From, queueVars
  <2>2. QED
    BY <1>4, <2>1, ConnectionAccepted DEF OneQueued, queueVars
<1>5. CASE Tick
  BY <1>5, Ticked DEF OneQueued, From
<1>6. CASE TakeAnswer
  <2>1. CASE phase' = "TEST" \/ phase' = "ACCEPT"
    BY <2>1 DEF OneQueued
  <2>2. CASE phase' = "RESPOND" /\ current # EndRequest
    <3>1. PICK a \in Answers : a.call = Call
      BY <1>6, <2>2, AnswerTaken
    <3>2. \A i \in 1 .. Len(requests) : From(i) # session
      BY <1>6, <2>2, <3>1, AnswerTaken DEF Waiting, Sent
    <3>3. QED
      BY <1>6, <2>2, <3>2, AnswerTaken DEF OneQueued, From
  <2>3. QED
    BY <1>6, <2>1, <2>2, AnswerTaken
<1>7. ASSUME NEW q \in Requests, Receive(q) PROVE OneQueued'
  BY <1>7, RequestReceived DEF OneQueued, From, queueVars
<1>8. CASE Disconnect
  BY <1>8, CleanupStarted DEF OneQueued, From, queueVars, Disconnect
<1>9. CASE GiveUp
  <2>1. CASE current = EndRequest
    BY <1>9, <2>1, CleanupGivenUp DEF OneQueued
  <2>2. CASE current # EndRequest /\ phase = "SEND"
    BY <1>9, <2>2, CleanupStarted DEF OneQueued, From, queueVars
  <2>3. CASE current # EndRequest /\ phase = "TEST"
    BY <1>9, <2>3, CleanupStarted DEF OneQueued, Waiting, Sent, From, queueVars
  <2>4. QED
    BY <1>9, <2>1, <2>2, <2>3 DEF GiveUp
<1>10. CASE Respond
  BY <1>10 DEF Respond, server, OneQueued, From, queueVars
<1>11. CASE TestDeadline \/ NothingCame
  BY <1>11, Looked DEF OneQueued, Sent
<1>12. QED
  BY <1>1, <1>2, <1>3, <1>4, <1>5, <1>6, <1>7, <1>8, <1>9, <1>10, <1>11, RunAlone
     DEF ServerNext, ServerTask, ExperimentTask, vars, taskVars, queueVars

(* What waits belongs to the call under way.                               *)
LEMMA WaitingKept ==
  ASSUME ServerTypeOK, InLine, OneQueued, Waiting, NotYet,
         Numbered, [ServerNext]_vars
  PROVE  Waiting'
<1> USE Entries
<1>1. CASE UNCHANGED <<queueVars, taskVars, historyVars>>
  BY <1>1 DEF Waiting, Sent, From, Answers, Call, queueVars, taskVars,
     historyVars
<1>2. ASSUME NEW mutable \in BOOLEAN, Poll(mutable), Sent, current # EndRequest
      PROVE  Waiting'
  <2>1. UNCHANGED <<session, phase, current, token, age>>
        /\ Len(requests') = Len(requests) - 1
        /\ \A i \in 1 .. Len(requests') :
              i + 1 \in 1 .. Len(requests) /\ requests'[i] = requests[i + 1]
    BY <1>2, Polled DEF taskVars
  <2>2. \A i \in 1 .. Len(requests') : From(i)' = From(i + 1) /\ i \in Int
    BY <2>1, SMTT(30) DEF From
  <2>3. Call' = Call
    BY <2>1 DEF Call
  <2>6. PICK r \in Results :
              /\ responses' = Answered(requests[1], r)
              /\ \/ r = "TIMEOUT" /\ UNCHANGED executed
                 \/ executed' = IF Mine(requests[1].call)
                                   THEN executed \cup {<<requests[1].request, r>>}
                                   ELSE executed
    BY <1>2, Polled
  <2>7. 1 \in 1 .. Len(requests)
    BY <1>2, Polled
  <2>4. \A i \in 1 .. Len(requests') : From(i)' = session' =>
           /\ requests'[i].call = Call' /\ requests'[i].request = current'
           /\ requests'[i].age = age' /\ executed' = {}
    <3>1. ASSUME NEW k \in 1 .. Len(requests), From(k) = session
          PROVE  /\ requests[k].call = Call /\ requests[k].request = current
                 /\ requests[k].age = age /\ executed = {}
      BY <1>2, <3>1 DEF Waiting
    <3>2. ASSUME NEW i \in 1 .. Len(requests'), From(i)' = session'
          PROVE  executed' = {}
      <4>1. From(i + 1) = session /\ i + 1 # 1
        BY <2>1, <2>2, <3>2
      <4>2. From(1) # session
        BY <1>2, <2>1, <2>7, <3>2, <4>1 DEF Waiting
      <4>3. ~Mine(requests[1].call)
        BY <4>2 DEF Mine, Call, From
      <4>4. QED
        BY <2>1, <2>6, <3>1, <3>2, <4>1, <4>3
    <3>3. QED
      BY <2>1, <2>2, <2>3, <3>1, <3>2, SMTT(30)
  <2>5. \A i, j \in 1 .. Len(requests') :
           From(i)' = session' /\ From(j)' = session' => i = j
    <3>1. TAKE i, j \in 1 .. Len(requests')
    <3>2. From(i + 1) = session /\ From(j + 1) = session => i + 1 = j + 1
      BY <1>2, <2>1 DEF Waiting
    <3>3. QED
      BY <2>1, <2>2, <3>2
  <2>8. ASSUME NEW a \in Answers', a.call = Call'
        PROVE  /\ \A i \in 1 .. Len(requests') : From(i)' # session'
               /\ \/ <<current', a.result>> \in executed'
                  \/ a.result = "TIMEOUT" /\ executed' = {}
    <3>1. CASE a \in Answers
      <4>1. \A i \in 1 .. Len(requests) : From(i) # session
        BY <1>2, <2>3, <2>8, <3>1 DEF Waiting
      <4>2. UNCHANGED executed
        BY <2>6, <2>7, <4>1 DEF Mine, Call, From
      <4>3. QED
        BY <1>2, <2>1, <2>2, <2>3, <2>8, <3>1, <4>1, <4>2 DEF Waiting
    <3>2. CASE a = [call |-> requests[1].call, result |-> r]
      <4>1. requests[1].call = Call /\ From(1) = session
        BY <2>3, <2>8, <3>2 DEF From, Call
      <4>2. requests[1].request = current /\ executed = {}
        BY <1>2, <2>7, <4>1 DEF Waiting
      <4>3. \A i \in 1 .. Len(requests') : From(i)' # session'
        <5>1. \A i \in 1 .. Len(requests') : i + 1 # 1
          OBVIOUS
        <5>2. QED
          BY <1>2, <2>1, <2>2, <2>7, <4>1, <5>1 DEF Waiting
      <4>4. a.result = r
        BY <3>2
      <4>5. \/ <<current', a.result>> \in executed'
            \/ a.result = "TIMEOUT" /\ executed' = {}
        BY <2>1, <2>6, <4>1, <4>2, <4>4 DEF Mine
      <4>6. QED
        BY <4>3, <4>5
    <3>3. a \in Answers \/ a = [call |-> requests[1].call, result |-> r]
      <4>1. requests[1] \in Entry
        BY <2>7
      <4>2. PICK i \in 1 .. Len(responses') : a = responses'[i]
        BY <2>8 DEF Answers
      <4>3. QED
        BY <2>6, <4>1, <4>2, AnsweredOne
    <3>4. QED
      BY <3>1, <3>2, <3>3
  <2>9. QED
    BY <2>4, <2>5, <2>8 DEF Waiting
<1>3. CASE Submit
  <2>1. SUFFICES ASSUME current # EndRequest
                 PROVE  Waiting'
    BY <1>3, Submitted DEF Waiting
  <2>2. \A i \in 1 .. Len(requests) : From(i) # session
    BY <1>3, <2>1, Submitted DEF OneQueued
  <2>3. Call' = Call /\ Answers' = Answers /\ session' = session
    BY <1>3, Submitted DEF Call, Answers
  <2>4. \A i \in 1 .. Len(requests') : From(i)' = session' => i = Len(requests) + 1
    BY <1>3, <2>2, <2>3, Submitted DEF From
  <2>5. \A a \in Answers : a.call # Call
    <3>1. phase = "SEND" /\ ~Ending
      BY <1>3, <2>1, Submitted DEF Ending
    <3>2. QED
      BY <3>1 DEF Numbered, Call, Calls
  <2>6. QED
    BY <1>3, <2>1, <2>3, <2>4, <2>5, Submitted DEF Waiting, NotYet
<1>4. CASE Tick
  <2>1. Call' = Call /\ Answers' = Answers
        /\ UNCHANGED <<session, phase, current>>
    BY <1>4, Ticked DEF Call, Answers
  <2>2. \A i \in 1 .. Len(requests) : From(i)' = From(i)
    BY <1>4, Ticked DEF From
  <2>3. SUFFICES ASSUME Sent, current # EndRequest
                 PROVE  Waiting'
    BY <2>1 DEF Waiting, Sent
  <2>4. \A i \in 1 .. Len(requests') : From(i)' = session' =>
           /\ requests'[i].call = Call' /\ requests'[i].request = current'
           /\ requests'[i].age = age' /\ executed' = {}
    BY <1>4, <2>1, <2>2, <2>3, Ticked, SMTT(30) DEF Waiting
  <2>5. \A a \in Answers' : a.call = Call' =>
           \/ <<current', a.result>> \in executed'
           \/ a.result = "TIMEOUT" /\ executed' = {}
    BY <1>4, <2>1, <2>3, Ticked DEF Waiting
  <2>6. QED
    BY <1>4, <2>1, <2>2, <2>3, <2>4, <2>5, Ticked DEF Waiting
<1>5. CASE TakeAnswer
  BY <1>5, AnswerTaken DEF Waiting, Sent, Call, From
<1>6. CASE ~Sent' \/ current' = EndRequest
  BY <1>6 DEF Waiting
<1>7. CASE TestDeadline \/ NothingCame
  BY <1>7, Looked DEF Waiting, Call, From, Answers, queueVars
<1>8. QED
  BY <1>1, <1>2, <1>3, <1>4, <1>5, <1>6, <1>7, ConnectionAccepted,
     RequestReceived, CleanupStarted, CleanupGivenUp, Polled, RunAlone
     DEF ServerNext, ServerTask, ExperimentTask, Respond, server, taskVars,
         vars, Sent

(* No request is carried out before it is queued.                          *)
LEMMA NotYetKept ==
  ASSUME ServerTypeOK, OneQueued, NotYet, [ServerNext]_vars
  PROVE  NotYet'
<1>1. CASE UNCHANGED <<phase, current, executed>>
  BY <1>1 DEF NotYet
<1>2. ASSUME NEW mutable \in BOOLEAN, Poll(mutable) PROVE NotYet'
  <2>1. UNCHANGED <<phase, current>> /\ 1 \in 1 .. Len(requests)
        /\ \/ UNCHANGED executed
           \/ Mine(requests[1].call)
    BY <1>2, Polled DEF taskVars
  <2>2. QED
    BY <2>1 DEF NotYet, OneQueued, Mine, Call, From
<1>3. CASE phase' # "SEND" \/ executed' = {}
  BY <1>3 DEF NotYet
<1>4. QED
  BY <1>1, <1>2, <1>3, ConnectionAccepted, RequestReceived, Submitted,
     AnswerTaken, CleanupStarted, CleanupGivenUp, Ticked, Looked, RunAlone
     DEF ServerNext, ServerTask, ExperimentTask, vars, taskVars, historyVars,
         Respond, server, Sent

(* The numbers of a call.                                                  *)
LEMMA CallNumbers ==
  ASSUME NEW c \in Calls
  PROVE  c.session \in Nat /\ c.token \in Nat
<1>1. c.session \in Sessions /\ c.token \in 0 .. MaxToken
  BY DEF Calls
<1>2. Sessions \subseteq Nat /\ MaxToken \in Nat
  BY Requesting
<1>3. c.session \in Nat
  BY <1>1, <1>2
<1>4. c.token \in Nat
  BY <1>1, <1>2
<1>5. QED
  BY <1>3, <1>4

(* A request enters the queue with the age of its call, and all age alike. *)
LEMMA OlderKept ==
  ASSUME ServerTypeOK, Older, [ServerNext]_vars
  PROVE  Older'
<1> USE Entries
<1>1. CASE UNCHANGED <<requests, phase, age>>
  BY <1>1 DEF Older
<1>2. ASSUME NEW mutable \in BOOLEAN, Poll(mutable) PROVE Older'
  BY <1>2, Polled DEF Older, taskVars
<1>3. CASE Submit
  BY <1>3, Submitted DEF Older
<1>4. CASE Tick
  BY <1>4, Ticked, Requesting, SMTT(30) DEF Older
<1>5. CASE UNCHANGED requests /\ (phase' \in {"ACCEPT", "RECEIVE", "RESPOND"} \/ age' = 0)
  BY <1>5 DEF Older
<1>6. CASE TakeAnswer
  BY <1>6, AnswerTaken DEF Older
<1>7. CASE TestDeadline \/ NothingCame
  BY <1>7, Looked DEF Older, Sent, queueVars
<1>8. QED
  BY <1>1, <1>2, <1>3, <1>4, <1>5, <1>6, <1>7, ConnectionAccepted,
     RequestReceived, CleanupStarted, CleanupGivenUp, RunAlone
     DEF ServerNext, ServerTask, ExperimentTask, vars, queueVars, taskVars,
         Respond, server

(* The answer that is taken is one that was given for the request, and no  *)
(* request of the connection is left that could change what was done.      *)
LEMMA AnswerKept ==
  ASSUME ServerTypeOK, OneQueued, Waiting, AnswerIsOwn, [ServerNext]_vars
  PROVE  AnswerIsOwn'
<1> USE Entries
<1>1. CASE UNCHANGED <<phase, current, answer, executed>>
  BY <1>1 DEF AnswerIsOwn
<1>2. ASSUME NEW mutable \in BOOLEAN, Poll(mutable), phase = "RESPOND"
      PROVE  AnswerIsOwn'
  <2>1. /\ UNCHANGED <<phase, current, answer>> /\ 1 \in 1 .. Len(requests)
        /\ UNCHANGED executed \/ Mine(requests[1].call)
    BY <1>2, Polled DEF taskVars
  <2>2. ~Mine(requests[1].call)
    BY <1>2, <2>1 DEF OneQueued, Mine, Call, From
  <2>3. QED
    BY <2>1, <2>2 DEF AnswerIsOwn
<1>3. CASE TakeAnswer
  <2>1. CASE phase' # "RESPOND"
    BY <2>1 DEF AnswerIsOwn
  <2>2. CASE phase' = "RESPOND"
    <3>1. PICK a \in Answers : a.call = Call /\ answer' = a.result
      BY <1>3, <2>2, AnswerTaken
    <3>2. Sent /\ current # EndRequest /\ UNCHANGED <<current, executed>>
      BY <1>3, <2>2, AnswerTaken DEF Sent
    <3>3. <<current, a.result>> \in executed \/ (a.result = "TIMEOUT" /\ executed = {})
      BY <3>1, <3>2 DEF Waiting
    <3>4. QED
      BY <3>1, <3>2, <3>3 DEF AnswerIsOwn
  <2>3. QED
    BY <2>1, <2>2
<1>4. CASE phase' # "RESPOND" \/ (answer' = "CHECKSUM" /\ executed' = {})
  BY <1>4 DEF AnswerIsOwn
<1>5. QED
  BY <1>1, <1>2, <1>3, <1>4, ConnectionAccepted, RequestReceived, Submitted,
     CleanupStarted, CleanupGivenUp, Ticked, Polled, Looked, RunAlone
     DEF ServerNext, ServerTask, ExperimentTask, vars, taskVars, historyVars,
         Respond, server, Sent

(* Answers bear the number of a request that was queued.                   *)
LEMMA NumberedKept ==
  ASSUME ServerTypeOK, InLine, OneQueued, Waiting, Numbered, [ServerNext]_vars
  PROVE  Numbered'
<1> USE Entries
<1> \A a \in Answers : a.call.session \in Nat /\ a.call.token \in Nat
  <2>1. TAKE a \in Answers
  <2>2. a \in [call : Calls, result : Results]
    OBVIOUS
  <2>3. a.call \in Calls
    BY <2>2
  <2>4. QED
    BY <2>3, CallNumbers
<1>1. CASE UNCHANGED <<responses, session, token, phase, current>>
  BY <1>1 DEF Numbered, Answers, Ending
<1>2. ASSUME NEW mutable \in BOOLEAN, Poll(mutable) PROVE Numbered'
  <2>1. UNCHANGED <<session, token, phase, current>>
    BY <1>2, Polled DEF taskVars
  <2>2. PICK r \in Results : responses' = Answered(requests[1], r)
    BY <1>2, Polled
  <2>3. 1 \in 1 .. Len(requests)
    BY <1>2, Polled
  <2>4. ASSUME NEW a \in Answers'
        PROVE  a \in Answers \/ a.call = requests[1].call
    <3>1. PICK i \in 1 .. Len(responses') : a = responses'[i]
      BY <2>4 DEF Answers
    <3>2. requests[1] \in Entry
      BY <2>3
    <3>3. a \in Answers \/ a = [call |-> requests[1].call, result |-> r]
      BY <2>2, <3>1, <3>2, AnsweredOne
    <3>4. QED
      BY <3>3
  <2>5. /\ From(1) <= session
        /\ From(1) = session /\ ~Ending => Sent /\ requests[1].call = Call
    BY <2>3 DEF InLine, OneQueued, Waiting, Ending, Sent, ServerTypeOK
  <2>6. Ending' = Ending
    BY <2>1 DEF Ending
  <2>7. \A a \in Answers' :
       /\ a.call.session <= session
       /\ a.call.session = session /\ ~Ending =>
            a.call.token <= token /\ (phase = "SEND" => a.call.token < token)
    <3>1. TAKE a \in Answers'
    <3>2. CASE a \in Answers
      BY <3>2 DEF Numbered
    <3>3. CASE a.call = requests[1].call
      BY <2>5, <3>3 DEF From, Call, Sent
    <3>4. QED
      BY <2>4, <3>2, <3>3
  <2>8. QED
    BY <2>1, <2>6, <2>7 DEF Numbered
<1>3. CASE Submit
  BY <1>3, Submitted DEF Numbered, Answers, Ending
<1>4. CASE Accept
  BY <1>4, ConnectionAccepted, SMTT(30) DEF Numbered, Answers, Ending, queueVars
<1>5. CASE TakeAnswer
  <2>1. \/ Ending'
        \/ /\ ~Ending /\ UNCHANGED <<session, token>>
           /\ phase' \in {"TEST", "RESPOND"} /\ Answers' \subseteq Answers
    BY <1>5, AnswerTaken DEF Ending
  <2>2. UNCHANGED session /\ Answers' \subseteq Answers
    BY <1>5, AnswerTaken
  <2>3. phase = "WAIT"
    BY <1>5, AnswerTaken
  <2>4. QED
    BY <2>1, <2>2, <2>3 DEF Numbered
<1>6. ASSUME NEW q \in Requests, Receive(q) PROVE Numbered'
  BY <1>6, RequestReceived DEF Numbered, Answers, Ending, queueVars
<1>7. CASE Ending' /\ UNCHANGED <<responses, session>>
  BY <1>7 DEF Numbered, Answers
<1>8. CASE Respond
  BY <1>8 DEF Respond, server, Numbered, Ending, Answers, queueVars
<1>9. Disconnect \/ GiveUp => Ending' /\ UNCHANGED <<responses, session>>
  BY CleanupStarted, CleanupGivenUp DEF Ending, queueVars
<1>10. CASE TestDeadline \/ NothingCame
  BY <1>10, Looked DEF Numbered, Ending, Sent, Answers, queueVars
<1>11. QED
  BY <1>1, <1>2, <1>3, <1>4, <1>5, <1>6, <1>7, <1>8, <1>9, <1>10, Ticked, RunAlone
     DEF ServerNext, ServerTask, ExperimentTask, vars, taskVars, queueVars

(* END_SESSION has another number than the request before it.              *)
LEMMA NextToken ==
  ASSUME token \in 1 .. MaxToken
  PROVE  (token + 1) % (MaxToken + 1) # token
<1>1. CASE token = MaxToken
  <2>1. (token + 1) % (MaxToken + 1) = 0
    BY <1>1, Requesting
  <2>2. QED
    BY <2>1
<1>2. CASE token < MaxToken
  BY <1>2, Requesting
<1>3. QED
  BY <1>1, <1>2, Requesting

(* A request is given up only when it is too old to be carried out.        *)
LEMMA GivenUpKept ==
  ASSUME ServerTypeOK, OneQueued, Waiting, Numbered, GivenUp, [ServerNext]_vars
  PROVE  GivenUp'
<1> USE Entries
<1> \A c \in given_up : c.session \in Nat /\ c.token \in Nat
  <2>1. TAKE c \in given_up
  <2>2. c \in Calls
    BY DEF ServerTypeOK
  <2>3. QED
    BY <2>2, CallNumbers
<1>1. CASE UNCHANGED <<requests, given_up, session, token, phase, current>>
  BY <1>1 DEF GivenUp, Ending, TooOld, Call
<1>2. ASSUME NEW mutable \in BOOLEAN, Poll(mutable) PROVE GivenUp'
  <2>1. UNCHANGED <<session, token, phase, current>> /\ given_up' \subseteq given_up
    BY <1>2, Polled DEF taskVars
  <2>2. Ending' = Ending /\ Call' = Call
    BY <2>1 DEF Ending, Call
  <2>3. \A i \in 1 .. Len(requests') :
       requests'[i].call \in given_up' => TooOld(requests'[i])
    BY <1>2, <2>1, Polled DEF GivenUp
  <2>4. QED
    BY <2>1, <2>2, <2>3 DEF GivenUp, TooOld
<1>3. CASE Submit
  <2>1. Call \notin given_up
    BY DEF GivenUp, Call
  <2>2. UNCHANGED <<session, token, given_up>> /\ Ending' = Ending /\ Call' = Call
    BY <1>3, Submitted DEF Ending, Call
  <2>3. \A i \in 1 .. Len(requests') :
       requests'[i].call \in given_up' => TooOld(requests'[i])
    BY <1>3, <2>1, <2>2, Submitted, SMTT(30) DEF GivenUp
  <2>4. QED
    BY <2>2, <2>3 DEF GivenUp, TooOld
<1>4. CASE Accept
  BY <1>4, ConnectionAccepted DEF GivenUp, TooOld, queueVars
<1>5. CASE Tick
  <2>1. UNCHANGED <<session, token, phase, current, given_up>>
    BY <1>5, Ticked
  <2>2. Ending' = Ending /\ Call' = Call
    BY <2>1 DEF Ending, Call
  <2>3. \A i \in 1 .. Len(requests') :
       requests'[i].call \in given_up' => TooOld(requests'[i])
    BY <1>5, <2>1, Ticked, Requesting, SMTT(30) DEF GivenUp, TooOld
  <2>4. QED
    BY <2>1, <2>2, <2>3 DEF GivenUp, TooOld
<1>6. CASE TakeAnswer
  BY <1>6, AnswerTaken DEF GivenUp, Ending, TooOld, Call
<1>7. CASE Disconnect
  <2>1. ~Ending
    BY <1>7 DEF Disconnect, Ending
  <2>2. UNCHANGED <<session, given_up, requests>>
    BY <1>7, CleanupStarted DEF queueVars, Disconnect, server
  <2>3. QED
    BY <2>1, <2>2 DEF GivenUp, TooOld
<1>8. CASE GiveUp
  <2>1. CASE current = EndRequest
    BY <1>8, <2>1, CleanupGivenUp DEF GivenUp, Ending, TooOld, Call, queueVars,
       GiveUp
  <2>2. CASE current # EndRequest
    <3>1. phase \in {"SEND", "TEST"} /\ ~Ending /\ age >= RpcTicks
      BY <1>8, <2>2 DEF GiveUp, Ending
    <3>2. given_up' \in {given_up, given_up \cup {Call}} /\ UNCHANGED <<requests, session>>
      BY <1>8, <2>2 DEF GiveUp, queueVars
    <3>3. Ending' /\ Call' # Call
      <4>1. token > 0 /\ token \in 1 .. MaxToken
        BY <3>1 DEF Numbered, ServerTypeOK
      <4>2. token' # token
        BY <1>8, <2>2, <4>1, NextToken, CleanupStarted
      <4>3. QED
        BY <1>8, <2>2, <4>2, CleanupStarted DEF Ending, Call
    <3>4. ASSUME NEW i \in 1 .. Len(requests), requests[i].call = Call
          PROVE  TooOld(requests[i])
      <4>1. From(i) = session
        BY <3>4 DEF From, Call
      <4>2. Sent
        BY <2>2, <3>1, <4>1 DEF OneQueued, Sent
      <4>3. requests[i].request = current /\ requests[i].age = age
        BY <2>2, <4>1, <4>2 DEF Waiting
      <4>4. current \in Asked
        BY <2>2, <3>1 DEF ServerTypeOK
      <4>5. QED
        BY <3>1, <4>3, <4>4 DEF TooOld, Asked
    <3>5. \A c \in given_up' : c.session <= session /\ (c.session = session => c = Call)
      BY <3>1, <3>2 DEF GivenUp, Call
    <3>6. QED
      BY <3>2, <3>3, <3>4, <3>5 DEF GivenUp, TooOld
  <2>3. QED
    BY <2>1, <2>2
<1>9. ASSUME NEW q \in Requests, Receive(q) PROVE GivenUp'
  <2>1. ~Ending
    BY <1>9, RequestReceived DEF Ending
  <2>2. UNCHANGED <<session, given_up, requests>>
    BY <1>9, RequestReceived DEF queueVars
  <2>3. QED
    BY <2>1, <2>2 DEF GivenUp, TooOld
<1>10. CASE Respond
  BY <1>10 DEF Respond, server, GivenUp, Ending, TooOld, queueVars
<1>11. CASE TestDeadline \/ NothingCame
  BY <1>11, Looked DEF GivenUp, Ending, Sent, TooOld, Call, queueVars
<1>12. QED
  BY <1>1, <1>2, <1>3, <1>4, <1>5, <1>6, <1>7, <1>8, <1>9, <1>10, <1>11, RunAlone
     DEF ServerNext, ServerTask, ExperimentTask, vars, taskVars, queueVars,
         historyVars

(* What a poll does to the owner.                                          *)
LEMMA PolledOwner ==
  ASSUME ServerTypeOK, Quiet, NEW mutable \in BOOLEAN, Poll(mutable)
  PROVE  /\ Quiet'
         /\ owner' # owner =>
              /\ owner' \in {None, From(1)} /\ ~TooOld(requests[1])
              /\ owner' # None => requests[1].request # EndRequest
         /\ requests[1].request = EndRequest => owner' # From(1)
<1> USE Entries
<1>1. 1 \in 1 .. Len(requests)
  BY Polled
<1>2. PICK r \in Results :
         \/ TooOld(requests[1]) /\ UNCHANGED serviceVars
         \/ /\ ~TooOld(requests[1])
            /\ Command(requests[1].call.session, requests[1].request, mutable, r)
  BY Polled
<1>3. CASE TooOld(requests[1]) /\ UNCHANGED serviceVars
  <2>1. UNCHANGED <<owner, staged, wave>>
    BY <1>3 DEF serviceVars, stageVars
  <2>2. requests[1].request # EndRequest
    BY <1>3, Requesting DEF TooOld
  <2>3. QED
    BY <2>1, <2>2 DEF Quiet
<1>4. CASE /\ ~TooOld(requests[1])
            /\ Command(requests[1].call.session, requests[1].request, mutable, r)
  <2>1. requests[1].call.session \in Sessions
    BY <1>1 DEF From
  <2>2. QED
    BY <1>4, <2>1, Owned, Requesting, ZenonT(30) DEF From
<1>5. QED
  BY <1>2, <1>3, <1>4

(* A request of END_SESSION stays in the queue until it is carried out.    *)
LEMMA CleanupStays ==
  ASSUME ServerTypeOK, NEW s \in Nat, CleanupQueued(s), [ServerNext]_vars
  PROVE  \/ CleanupQueued(s)'
         \/ /\ \E mutable \in BOOLEAN : Poll(mutable)
            /\ From(1) = s /\ requests[1].request = EndRequest
<1> USE Entries
<1>1. PICK i \in 1 .. Len(requests) : From(i) = s /\ requests[i].request = EndRequest
  BY DEF CleanupQueued, From
<1>2. CASE UNCHANGED requests
  BY <1>2 DEF CleanupQueued
<1>3. ASSUME NEW mutable \in BOOLEAN, Poll(mutable), i # 1
      PROVE  CleanupQueued(s)'
  <2>1. Len(requests') = Len(requests) - 1 /\
        \A k \in 1 .. Len(requests') : requests'[k] = requests[k + 1]
    BY <1>3, Polled
  <2>2. i - 1 \in 1 .. Len(requests') /\ (i - 1) + 1 = i
    BY <1>1, <1>3, <2>1
  <2>3. requests'[i - 1] = requests[i]
    BY <2>1, <2>2
  <2>4. QED
    BY <1>1, <2>2, <2>3 DEF CleanupQueued, From
<1>4. CASE Submit
  <2>1. i \in 1 .. Len(requests') /\ requests'[i] = requests[i]
    BY <1>4, Submitted
  <2>2. QED
    BY <1>1, <2>1 DEF CleanupQueued, From
<1>5. CASE Tick
  <2>1. i \in 1 .. Len(requests') /\ requests'[i].call = requests[i].call
        /\ requests'[i].request = requests[i].request
    BY <1>5, Ticked
  <2>2. QED
    BY <1>1, <2>1 DEF CleanupQueued, From
<1>6. QED
  BY <1>1, <1>2, <1>3, <1>4, <1>5, AnswerTaken, ConnectionAccepted,
     RequestReceived, CleanupStarted, CleanupGivenUp, Looked, RunAlone
     DEF ServerNext, ServerTask, ExperimentTask, vars, queueVars, Respond

(* The steps of the server task and of time leave the service alone.       *)
LEMMA ServiceUntouched ==
  ASSUME ServerTypeOK, ServerTask \/ Tick \/ UNCHANGED vars
  PROVE  UNCHANGED serviceVars
BY Submitted, AnswerTaken, ConnectionAccepted, RequestReceived, CleanupStarted,
   CleanupGivenUp, Ticked, Looked
   DEF ServerTask, vars, Respond, server

(* Only a poll makes another session the owner.                            *)
LEMMA OwnerStays ==
  ASSUME ServerTypeOK, ServerTask \/ Tick \/ RunStep \/ UNCHANGED vars
  PROVE  UNCHANGED owner
BY ServiceUntouched, RunAlone DEF serviceVars, stageVars

(* What has no owner holds nothing.                                        *)
LEMMA QuietKept ==
  ASSUME ServiceInv, ServerTypeOK, Quiet, [ServerNext]_vars
  PROVE  Quiet'
<1>1. CASE ExperimentTask
  BY <1>1, PolledOwner DEF ExperimentTask
<1>2. CASE ServerTask \/ Tick \/ UNCHANGED vars
  BY <1>2, ServiceUntouched DEF serviceVars, stageVars, Quiet
<1>3. CASE RunStep
  <2>1. wave'.uploading = wave.uploading
    BY <1>3, RunAlone, LockedInv DEF ServiceInv
  <2>2. QED
    BY <1>3, <2>1, RunAlone DEF Quiet
<1>4. QED
  BY <1>1, <1>2, <1>3 DEF ServerNext

(* The connection under way is live until it ends.                         *)
LEMMA StillLive ==
  ASSUME ServerTypeOK, [ServerNext]_vars, ~Accept,
         ~(phase # "ACCEPT" /\ phase' = "ACCEPT")
  PROVE  UNCHANGED session /\ (phase' = "ACCEPT" <=> phase = "ACCEPT")
         /\ \A s : Live(s)' <=> Live(s)
<1>1. UNCHANGED session /\ (phase' = "ACCEPT" <=> phase = "ACCEPT")
  BY Submitted, AnswerTaken, RequestReceived, CleanupStarted, CleanupGivenUp,
     Ticked, Polled, Looked, RunAlone
     DEF ServerNext, ServerTask, ExperimentTask, vars, taskVars, Respond,
         server, Disconnect, GiveUp, Sent
<1>2. QED
  BY <1>1 DEF Live

(* When a connection ends, nothing of it is left that can be carried out   *)
(* before its END_SESSION; this is where the queue must have room for two. *)
LEMMA ConnectionEnded ==
  ASSUME ServerTypeOK, InLine, OneQueued, Older, Followed, Cleaned,
         QueueLength > 1, [ServerNext]_vars, phase # "ACCEPT", phase' = "ACCEPT"
  PROVE  /\ UNCHANGED <<serviceVars, requests, session>>
         /\ \A i \in 1 .. Len(requests) :
              From(i) = session /\ requests[i].request # EndRequest
                /\ ~TooOld(requests[i]) => CleanupQueued(session)
         /\ owner = session => CleanupQueued(session)
<1> USE Entries
<1>1. \/ TakeAnswer /\ current = EndRequest
      \/ GiveUp /\ current = EndRequest
  BY Submitted, AnswerTaken, RequestReceived, CleanupStarted, Ticked, Polled,
     ConnectionAccepted, Looked, RunAlone
     DEF ServerNext, ServerTask, ExperimentTask, vars, taskVars, Respond, server,
         Sent
<1>2. UNCHANGED <<serviceVars, requests, session>>
  BY <1>1, AnswerTaken, CleanupGivenUp DEF queueVars
<1>3. CASE Sent
  BY <1>1, <1>2, <1>3 DEF Cleaned
<1>4. CASE phase = "SEND" /\ GiveUp /\ current = EndRequest
  <2>1. age >= RpcTicks /\ Len(requests) = QueueLength
    BY <1>4 DEF GiveUp
  <2>2. \A i \in 1 .. Len(requests) :
          requests[i].request # EndRequest => TooOld(requests[i])
    <3>1. TAKE i \in 1 .. Len(requests)
    <3>2. requests[i].age >= RpcTicks
      BY <1>4, <2>1, Requesting DEF Older
    <3>3. QED
      BY <3>2 DEF TooOld, Asked
  <2>3. owner # session
    <3>1. SUFFICES ASSUME owner = session PROVE FALSE
      OBVIOUS
    <3>2. 1 \in 1 .. Len(requests) /\ 2 \in 1 .. Len(requests)
      BY <2>1
    <3>3. owner <= From(1) /\ From(1) <= session
          /\ owner <= From(2) /\ From(2) <= session
      BY <3>2, SMTT(30) DEF Followed, InLine
    <3>4. From(1) \in Nat /\ From(2) \in Nat
      BY <3>2
    <3>5. From(1) = session /\ From(2) = session
      BY <3>1, <3>3, <3>4
    <3>6. QED
      BY <1>4, <3>2, <3>5 DEF OneQueued
  <2>4. QED
    BY <1>2, <2>2, <2>3
<1>5. QED
  BY <1>1, <1>3, <1>4, AnswerTaken DEF GiveUp, Sent

(* What can still be carried out is live or followed by END_SESSION.       *)
LEMMA FollowedKept ==
  ASSUME ServerTypeOK, Quiet, InLine, OneQueued, Older, Followed, Cleaned,
         QueueLength > 1, [ServerNext]_vars
  PROVE  Followed'
<1> USE Entries
<1>1. ASSUME NEW mutable \in BOOLEAN, Poll(mutable) PROVE Followed'
  <2>1. UNCHANGED <<session, phase>> /\ Len(requests') = Len(requests) - 1
        /\ 1 \in 1 .. Len(requests)
        /\ \A i \in 1 .. Len(requests') :
              i + 1 \in 1 .. Len(requests) /\ requests'[i] = requests[i + 1]
    BY <1>1, Polled DEF taskVars
  <2>2. owner' \in {owner, None, From(1)}
    BY <1>1, PolledOwner
  <2>3. owner' <= session
    BY <2>1, <2>2 DEF Followed, InLine, None
  <2>4. ASSUME NEW i \in 1 .. Len(requests')
        PROVE  /\ owner' <= From(i)'
               /\ requests'[i].request # EndRequest /\ ~TooOld(requests'[i])
                    => Live(From(i))' \/ CleanupQueued(From(i))'
    <3>1. From(i)' = From(i + 1) /\ From(1) <= From(i + 1)
      BY <2>1, SMTT(30) DEF From, InLine
    <3>2. owner' <= From(i)'
      BY <2>1, <2>2, <3>1 DEF Followed, None
    <3>3. ASSUME requests'[i].request # EndRequest, ~TooOld(requests'[i])
          PROVE  Live(From(i))' \/ CleanupQueued(From(i))'
      <4>1. Live(From(i + 1)) \/ CleanupQueued(From(i + 1))
        BY <2>1, <3>3 DEF Followed, TooOld
      <4>2. CASE Live(From(i + 1))
        BY <2>1, <3>1, <4>2 DEF Live
      <4>3. CASE CleanupQueued(From(i + 1))
        <5>1. requests[1].request = EndRequest => From(1) < From(i + 1)
          BY <2>1 DEF InLine
        <5> DEFINE s == requests[i + 1].call.session
        <5>2. s \in Nat /\ CleanupQueued(s) /\ (From(i)' = s)
              /\ ~(From(1) = s /\ requests[1].request = EndRequest)
          BY <2>1, <3>1, <4>3, <5>1 DEF From
        <5>3. PICK n \in Nat : n = s
          BY <5>2
        <5>4. CleanupQueued(n)'
          BY <1>1, <5>2, <5>3, CleanupStays DEF ServerNext, ExperimentTask
        <5>5. QED
          BY <5>2, <5>3, <5>4 DEF CleanupQueued
      <4>4. QED
        BY <4>1, <4>2, <4>3
    <3>4. QED
      BY <3>2, <3>3
  <2>5. QED
    BY <2>1, <2>3, <2>4 DEF Followed
<1>2. CASE ServerTask \/ Tick \/ RunStep \/ UNCHANGED vars
  <2> UNCHANGED owner
    BY <1>2, OwnerStays
  <2>1. CASE Submit
    <3>1. \A s : Live(s)' <=> Live(s)
      BY <2>1, Submitted DEF Live
    <3>2. Live(session)'
      BY <2>1, Submitted DEF Live
    <3>3. \A i \in 1 .. Len(requests) : From(i)' = From(i) /\ requests'[i] = requests[i]
      BY <2>1, Submitted DEF From
    <3>4. \A s : CleanupQueued(s) => CleanupQueued(s)'
      BY <2>1, Submitted DEF CleanupQueued
    <3>5. \A i \in 1 .. Len(requests') : i \notin 1 .. Len(requests) => From(i)' = session
      BY <2>1, Submitted DEF From, Call
    <3>6. UNCHANGED session
      BY <2>1, Submitted
    <3>7. \A i \in 1 .. Len(requests') : owner' <= From(i)'
      BY <3>3, <3>5 DEF Followed
    <3>8. \A i \in 1 .. Len(requests') :
            requests'[i].request # EndRequest /\ ~TooOld(requests'[i])
              => Live(From(i))' \/ CleanupQueued(From(i))'
      <4>1. TAKE i \in 1 .. Len(requests')
      <4>2. CASE i \in 1 .. Len(requests)
        <5>1. SUFFICES ASSUME requests'[i].request # EndRequest, ~TooOld(requests'[i])
                       PROVE  Live(From(i))' \/ CleanupQueued(From(i))'
          OBVIOUS
        <5>2. PICK n \in Nat : n = From(i) /\ n = From(i)'
          BY <3>3, <4>2
        <5>3. Live(n) \/ CleanupQueued(n)
          BY <3>3, <4>2, <5>1, <5>2 DEF Followed, TooOld
        <5>4. Live(n)' \/ CleanupQueued(n)'
          BY <3>1, <3>4, <5>3
        <5>5. QED
          BY <5>2, <5>4 DEF Live, CleanupQueued
      <4>3. CASE i \notin 1 .. Len(requests)
        BY <3>2, <3>5, <3>6, <4>3 DEF Live
      <4>4. QED
        BY <4>2, <4>3
    <3>9. QED
      BY <3>6, <3>7, <3>8 DEF Followed
  <2>2. CASE Tick
    <3>1. \A i \in 1 .. Len(requests) : TooOld(requests[i]) => TooOld(requests'[i])
      BY <2>2, Ticked, Requesting, SMTT(30) DEF TooOld
    <3>2. \A s : Live(s)' <=> Live(s)
      BY <2>2, Ticked DEF Live
    <3>3. \A s : CleanupQueued(s) => CleanupQueued(s)'
      BY <2>2, Ticked DEF CleanupQueued
    <3>4. \A i \in 1 .. Len(requests) : From(i)' = From(i)
      BY <2>2, Ticked DEF From
    <3>5. QED
      BY <2>2, <3>1, <3>2, <3>3, <3>4, Ticked DEF Followed
  <2>3. CASE phase # "ACCEPT" /\ phase' = "ACCEPT"
    <3>1. UNCHANGED <<requests, session>>
      BY <2>3, ConnectionEnded
    <3>2. QED
      BY <2>3, <3>1, ConnectionEnded DEF Followed, TooOld, Live, CleanupQueued,
         From
  <2>4. CASE Accept
    <3>1. UNCHANGED requests /\ session' = session + 1 /\ \A s : ~Live(s)
      BY <2>4, ConnectionAccepted DEF queueVars, Live
    <3>2. \A i \in 1 .. Len(requests) : From(i)' = From(i)
      BY <3>1 DEF From
    <3>3. owner' <= session' /\ \A i \in 1 .. Len(requests') : owner' <= From(i)'
      BY <3>1, <3>2 DEF Followed
    <3>4. \A i \in 1 .. Len(requests') :
            requests'[i].request # EndRequest /\ ~TooOld(requests'[i])
              => CleanupQueued(From(i))'
      BY <3>1, <3>2 DEF Followed, TooOld, CleanupQueued, From
    <3>5. QED
      BY <3>3, <3>4 DEF Followed
  <2>5. CASE UNCHANGED requests /\ ~Accept /\ ~(phase # "ACCEPT" /\ phase' = "ACCEPT")
    <3>1. UNCHANGED session /\ \A s : Live(s)' <=> Live(s)
      BY <2>5, StillLive
    <3>2. QED
      BY <2>5, <3>1 DEF Followed, TooOld, CleanupQueued, From
  <2>6. QED
    BY <1>2, <2>1, <2>2, <2>3, <2>4, <2>5, AnswerTaken, RequestReceived,
       CleanupStarted, CleanupGivenUp, Looked, RunAlone
       DEF ServerTask, vars, queueVars, Respond
<1>3. QED
  BY <1>1, <1>2 DEF ServerNext, ExperimentTask

(* END_SESSION leaves nothing of its connection.                           *)
LEMMA CleanedKept ==
  ASSUME ServerTypeOK, Quiet, InLine, Cleaned, [ServerNext]_vars
  PROVE  Cleaned'
<1> USE Entries
<1>1. CASE ~Sent' \/ current' # EndRequest
  BY <1>1 DEF Cleaned
<1>2. CASE Submit /\ current = EndRequest
  <2>1. CleanupQueued(session)'
    BY <1>2, Submitted DEF CleanupQueued, Call
  <2>2. QED
    BY <2>1 DEF Cleaned
<1>3. ASSUME NEW mutable \in BOOLEAN, Poll(mutable), Sent, current = EndRequest
      PROVE  Cleaned'
  <2>1. UNCHANGED session /\ Len(requests') = Len(requests) - 1
        /\ 1 \in 1 .. Len(requests)
        /\ \A i \in 1 .. Len(requests') :
              i + 1 \in 1 .. Len(requests) /\ requests'[i] = requests[i + 1]
    BY <1>3, Polled DEF taskVars
  <2>2. \A i \in 1 .. Len(requests') : From(i)' = From(i + 1)
    BY <2>1 DEF From
  <2>3. CASE From(1) = session /\ requests[1].request = EndRequest
    <3>1. owner' # session
      BY <1>3, <2>3, PolledOwner
    <3>2. \A i \in 1 .. Len(requests') : From(i)' # session
      BY <2>1, <2>2, <2>3 DEF InLine
    <3>3. QED
      BY <2>1, <3>1, <3>2 DEF Cleaned
  <2>4. CASE CleanupQueued(session)
             /\ ~(From(1) = session /\ requests[1].request = EndRequest)
    <3>1. PICK n \in Nat : n = session
      OBVIOUS
    <3>2. CleanupQueued(n)'
      BY <1>3, <2>4, <3>1, CleanupStays DEF ServerNext, ExperimentTask
    <3>3. QED
      BY <2>1, <3>1, <3>2 DEF Cleaned, CleanupQueued
  <2>5. CASE owner # session /\ \A i \in 1 .. Len(requests) : From(i) # session
    <3>1. session # None
      BY <1>3, Requesting DEF ServerTypeOK, Sent
    <3>2. owner' # session
      BY <1>3, <2>1, <2>5, <3>1, PolledOwner
    <3>3. \A i \in 1 .. Len(requests') : From(i)' # session
      BY <2>1, <2>2, <2>5
    <3>4. QED
      BY <2>1, <3>2, <3>3 DEF Cleaned
  <2>6. QED
    BY <1>3, <2>3, <2>4, <2>5 DEF Cleaned
<1>4. CASE /\ UNCHANGED <<owner, session, current>> /\ (Sent' => Sent)
           /\ UNCHANGED requests \/ Tick
  <2>2. Len(requests') = Len(requests)
        /\ \A i \in 1 .. Len(requests) :
             From(i)' = From(i) /\ requests'[i].request = requests[i].request
    BY <1>4, Ticked DEF From
  <2>3. QED
    BY <1>4, <2>2 DEF Cleaned, CleanupQueued, From
<1>5. QED
  BY <1>1, <1>2, <1>3, <1>4, AnswerTaken, RequestReceived, CleanupStarted,
     CleanupGivenUp, ConnectionAccepted, Submitted, Ticked, Polled, Looked,
     RunAlone, OwnerStays
     DEF ServerNext, ServerTask, ExperimentTask, vars, queueVars, taskVars,
         Respond, server, Sent

(* The property itself, with the two parts before it.                      *)
LEMMA InheritanceKept ==
  ASSUME ServiceInv, ServerTypeOK, InLine, OneQueued, Older, Followed, Cleaned,
         QueueLength > 1, NothingInherited, [ServerNext]_vars
  PROVE  NothingInherited'
<1> USE Entries
<1>1. Quiet
  BY DEF NothingInherited, Orphaned, Quiet
<1>2. Quiet'
  BY <1>1, QuietKept
<1>3. ASSUME owner' # None, ~Live(owner)'
      PROVE  CleanupQueued(owner)'
  <2>1. ASSUME NEW mutable \in BOOLEAN, Poll(mutable)
        PROVE  CleanupQueued(owner)'
    <3>1. UNCHANGED <<session, phase>> /\ 1 \in 1 .. Len(requests)
      BY <2>1, Polled DEF taskVars
    <3>2. PICK n \in Nat : n = owner'
      <4>1. From(1) \in Nat
        BY <3>1
      <4>2. owner' \in Nat
        BY <1>1, <1>3, <2>1, <4>1, PolledOwner
      <4>3. QED
        BY <4>2
    <3>3. ~Live(n)
      BY <1>3, <3>1, <3>2 DEF Live
    <3>4. CleanupQueued(n) /\ ~(From(1) = n /\ requests[1].request = EndRequest)
      <4>1. CASE owner' = owner
        BY <1>1, <1>3, <2>1, <3>2, <3>3, <4>1, PolledOwner DEF NothingInherited, Orphaned
      <4>2. CASE owner' # owner
        <5>1. n = From(1) /\ ~TooOld(requests[1]) /\ requests[1].request # EndRequest
          BY <1>1, <1>3, <2>1, <3>2, <4>2, PolledOwner
        <5>2. QED
          BY <3>1, <3>3, <5>1 DEF Followed
      <4>3. QED
        BY <4>1, <4>2
    <3>5. CleanupQueued(n)'
      BY <2>1, <3>4, CleanupStays DEF ServerNext, ExperimentTask
    <3>6. QED
      BY <3>2, <3>5 DEF CleanupQueued
  <2>2. CASE ServerTask \/ Tick \/ RunStep \/ UNCHANGED vars
    <3>1. UNCHANGED owner
      BY <2>2, OwnerStays
    <3>2. PICK n \in Nat : n = owner
      OBVIOUS
    <3>3. CleanupQueued(n)
      <4>1. CASE Accept
        BY <1>3, <3>1, <3>2, <4>1, ConnectionAccepted DEF NothingInherited, Orphaned, Live
      <4>2. CASE phase # "ACCEPT" /\ phase' = "ACCEPT"
        <5>1. owner = session => CleanupQueued(session)
          BY <4>2, ConnectionEnded
        <5>2. QED
          BY <1>3, <3>1, <3>2, <5>1 DEF NothingInherited, Orphaned, Live
      <4>3. CASE ~Accept /\ ~(phase # "ACCEPT" /\ phase' = "ACCEPT")
        <5>1. Live(n)' <=> Live(n)
          BY <4>3, StillLive
        <5>2. QED
          BY <1>3, <3>1, <3>2, <5>1 DEF NothingInherited, Orphaned, Live
      <4>4. QED
        BY <4>1, <4>2, <4>3
    <3>4. ~\E mutable \in BOOLEAN :
             Poll(mutable) /\ From(1) = n /\ requests[1].request = EndRequest
      <4>1. SUFFICES ASSUME NEW mutable \in BOOLEAN, Poll(mutable), From(1) = n,
                            requests[1].request = EndRequest
                     PROVE  FALSE
        OBVIOUS
      <4>2. QED
        BY <1>1, <3>1, <3>2, <4>1, PolledOwner
    <3>5. CleanupQueued(n)'
      BY <3>3, <3>4, CleanupStays
    <3>6. QED
      BY <3>1, <3>2, <3>5 DEF CleanupQueued
  <2>3. QED
    BY <2>1, <2>2 DEF ServerNext, ExperimentTask
<1>4. QED
  BY <1>2, <1>3 DEF NothingInherited, Orphaned, Quiet

-----------------------------------------------------------------------------
(* The inductive invariants *)

ServerInv ==
  /\ ServiceInv /\ ServerTypeOK /\ InLine /\ OneQueued /\ Waiting /\ NotYet
  /\ Numbered /\ Older /\ GivenUp /\ AnswerIsOwn /\ Quiet

CleanInv == Followed /\ Cleaned /\ NothingInherited

(* Nothing is queued, owned or asked at first.                             *)
LEMMA ServerStarts == ServerInit => ServerInv /\ CleanInv
<1> SUFFICES ASSUME ServerInit
             PROVE  ServerInv /\ CleanInv
  OBVIOUS
<1> USE Requesting
<1>1. /\ requests = <<>> /\ responses = <<>> /\ session = 0 /\ token = 0
      /\ phase = "ACCEPT" /\ current = NoRequest /\ age = 0 /\ given_up = {}
      /\ owner = None /\ ~staged /\ wave = NewWave
  BY Zenon DEF ServerInit, Init
<1>2. /\ requests \in Seq(Entry) /\ Len(requests) = 0
      /\ responses \in Seq([call : Calls, result : Results]) /\ Answers = {}
  BY <1>1 DEF Answers
<1>3. ServerTypeOK
  BY <1>1, <1>2 DEF ServerTypeOK
<1>4. InLine /\ OneQueued /\ Waiting /\ NotYet /\ Numbered /\ Older /\ GivenUp
      /\ AnswerIsOwn
  BY <1>1, <1>2 DEF InLine, OneQueued, Waiting, Sent, NotYet, Numbered, Older,
     GivenUp, AnswerIsOwn
<1>5. Quiet
  BY <1>1 DEF Quiet, NewWave
<1>6. Followed /\ Cleaned /\ NothingInherited
  BY <1>1, <1>2, <1>5 DEF Followed, Cleaned, Sent, NothingInherited, Orphaned, None, Quiet
<1>7. ServiceInv
  BY ServiceStarts DEF ServerInit
<1>8. QED
  BY <1>3, <1>4, <1>5, <1>6, <1>7 DEF ServerInv, CleanInv

(* Whatever the queues do, the service sees requests of sessions.          *)
LEMMA ServiceServed ==
  ASSUME ServerTypeOK, [ServerNext]_vars
  PROVE  \/ [Next]_serviceVars
         \/ \E s \in Sessions, r \in Results : EndSession(s, r)
<1>1. CASE ServerTask \/ Tick \/ UNCHANGED vars
  BY <1>1, ServiceUntouched
<1>2. ASSUME NEW mutable \in BOOLEAN, Poll(mutable)
      PROVE  \/ [Next]_serviceVars
             \/ \E s \in Sessions, r \in Results : EndSession(s, r)
  <2> DEFINE s == requests[1].call.session
             q == requests[1].request
  <2>1. PICK r \in Results : UNCHANGED serviceVars \/ Command(s, q, mutable, r)
    BY <1>2, Polled
  <2>2. s \in Sessions /\ q \in Asked \cup {EndRequest}
    BY <1>2, Polled, Entries DEF From
  <2> HIDE DEF s, q
  <2>3. CASE q \in Requests
    <3>1. Command(s, q, mutable, r) => UNCHANGED serviceVars \/ Command(s, q, TRUE, r)
      BY Zenon DEF Command, Busy, Served
    <3>2. QED
      BY <2>1, <2>2, <2>3, <3>1, Zenon DEF Next, Request
  <2>4. CASE q.op = "END_SESSION"
    <3>1. Command(s, q, mutable, r) => EndSession(s, r)
      BY <2>4 DEF Command, Mutating
    <3>2. QED
      BY <2>1, <2>2, <3>1, Zenon
  <2>5. QED
    BY <2>2, <2>3, <2>4, Requesting DEF Asked
<1>3. CASE RunStep
  BY <1>3, Zenon DEF RunStep, Next
<1>4. QED
  BY <1>1, <1>2, <1>3 DEF ServerNext, ExperimentTask

(* The invariant of the service and the queues is inductive.               *)
LEMMA ServerInvKept == ServerInv /\ [ServerNext]_vars => ServerInv'
<1> SUFFICES ASSUME ServerInv, [ServerNext]_vars PROVE ServerInv'
  OBVIOUS
<1>1. ServiceInv'
  BY ServiceServed, ServiceInvKept, EndSessionKept DEF ServerInv
<1>2. QED
  BY <1>1, ServerTypesKept, InLineKept, OneQueuedKept, WaitingKept, NotYetKept,
     NumberedKept, OlderKept, GivenUpKept, AnswerKept, QuietKept
     DEF ServerInv

(* The invariant of what connections leave is inductive relative to it.    *)
LEMMA CleanInvKept ==
  ASSUME QueueLength > 1
  PROVE  ServerInv /\ CleanInv /\ [ServerNext]_vars => CleanInv'
BY FollowedKept, CleanedKept, InheritanceKept DEF ServerInv, CleanInv

-----------------------------------------------------------------------------
(* Theorems of the server *)

(* The invariant of the queues holds in every state of the server.         *)
THEOREM ServerCorrect == ServerSpec => []ServerInv
<1>1. ServerInit => ServerInv
  BY ServerStarts
<1>2. QED
  BY <1>1, ServerInvKept, PTL DEF ServerSpec

(* A client reads the answer to the request it sent, or that nothing was   *)
(* done for it, however late the answer is taken.                          *)
THEOREM AnswersAreOwn == ServerSpec => []AnswerIsOwn
<1>1. ServerInv => AnswerIsOwn
  BY DEF ServerInv
<1>2. QED
  BY <1>1, ServerCorrect, PTL

(* What the client was told has timed out is not carried out.              *)
THEOREM TimeoutIsFinal == ServerSpec => NotAfterTimeout
<1>1. ServerInv /\ [ServerNext]_vars
        => [requests # <<>> /\ requests' = Tail(requests)
              /\ Head(requests).call \in given_up
              => UNCHANGED serviceVars]_vars
  <2>1. SUFFICES ASSUME ServerInv, [ServerNext]_vars, requests # <<>>,
                        requests' = Tail(requests),
                        Head(requests).call \in given_up
                 PROVE  UNCHANGED serviceVars
    OBVIOUS
  <2>2. requests \in Seq(Entry)
    BY <2>1 DEF ServerInv, ServerTypeOK
  <2>3. Head(requests) = requests[1] /\ 1 \in 1 .. Len(requests)
        /\ Len(requests') = Len(requests) - 1 /\ Len(requests) \in Nat
    BY <2>1, <2>2, HeadTaken
  <2>4. CASE ServerTask \/ Tick \/ UNCHANGED vars
    BY <2>1, <2>4, ServiceUntouched DEF ServerInv
  <2>5. ASSUME NEW mutable \in BOOLEAN, Poll(mutable)
        PROVE  UNCHANGED serviceVars
    <3>1. TooOld(requests[1])
      BY <2>1, <2>3 DEF ServerInv, GivenUp
    <3>2. QED
      BY <2>1, <2>5, <3>1, Polled DEF ServerInv
  <2>6. CASE RunStep
    BY <2>3, <2>6, RunAlone DEF queueVars
  <2>7. QED
    BY <2>1, <2>4, <2>5, <2>6 DEF ServerNext, ExperimentTask
<1>2. QED
  BY <1>1, ServerCorrect, PTL DEF ServerSpec, NotAfterTimeout

(* A connection leaves nothing to the next one. With room for one request  *)
(* only it would: the END_SESSION of a connection whose last request timed *)
(* out finds the queue full, and what the connection staged stays.         *)
THEOREM NothingLeftBehind ==
  ASSUME QueueLength > 1
  PROVE  ServerSpec => []NothingInherited
<1>1. ServerInit => CleanInv
  BY ServerStarts
<1>2. ServerInv /\ CleanInv /\ [ServerNext]_vars => CleanInv'
  BY CleanInvKept
<1>3. CleanInv => NothingInherited
  BY DEF CleanInv
<1>4. QED
  BY <1>1, <1>2, <1>3, ServerCorrect, PTL DEF ServerSpec

-----------------------------------------------------------------------------
(* The server drives the service as ControlService allows *)

(* Whatever the queues do, the service sees requests of sessions, so that  *)
(* all that is checked of ControlService holds behind the server too.      *)
THEOREM ServerServes ==
  ASSUME EndRequest \in Requests
  PROVE  ServerSpec => Spec
<1>1. ServerInit => Init
  BY DEF ServerInit
<1>2. ServerInv /\ [ServerNext]_vars => [Next]_serviceVars
  <2>1. ASSUME NEW s \in Sessions, NEW r \in Results, EndSession(s, r)
        PROVE  Next
    BY <2>1, Requesting, Zenon DEF Next, Request, Command
  <2>2. QED
    BY <2>1, ServiceServed DEF ServerInv
<1>3. QED
  BY <1>1, <1>2, ServerCorrect, PTL DEF ServerSpec, Spec

(* So a test that can start is for the configuration that runs, also when  *)
(* requests come late, from closed connections or after their time-out.    *)
THEOREM TestSurvivesServer ==
  ASSUME EndRequest \in Requests
  PROVE  ServerSpec => []TestMatchesConfiguration
  BY ServerServes, TestIsForConfiguration, PTL

(* The selectable waveform is the announced file behind the server too,    *)
(* where a piece can come late, after its answer was given up.             *)
THEOREM CommittedIsFileOnServer ==
  ASSUME EndRequest \in Requests
  PROVE  ServerSpec => []CommittedIsFile
  BY ServerServes, CommittedWaveformIsFile, PTL

(* And a run plays what was applied, from its start to its end, whoever    *)
(* connects, asks or leaves meanwhile.                                     *)
THEOREM PlaysOnServer ==
  ASSUME EndRequest \in Requests
  PROVE  ServerSpec => []PlaysWhatWasApplied
  BY ServerServes, RunPlaysWhatWasApplied, PTL
=============================================================================
