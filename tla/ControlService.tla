---------------------------- MODULE ControlService ----------------------------
(***************************************************************************)
(* What a control request does in the experiment task:                     *)
(* sonar_control_service.c, with the uploaded waveform, the range checks   *)
(* and the arithmetic of sonar_experiment_config.c, the hand-over to the   *)
(* FPGA of sonar_tx_control.c and sonar_pcm_playback_control.c, and the    *)
(* test identity of sonar_identity.c.                                      *)
(*                                                                         *)
(* Every session may send any request at any time: what the service        *)
(* promises does not rest on the order in which the server delivers them.  *)
(* Frequencies, times and phase widths are scaled.                         *)
(***************************************************************************)
EXTENDS WaveformUpload

CONSTANTS
  Sessions,                     \* the numbers of the connections
  AudioHz, Second,              \* SONAR_AUDIO_HZ, 1000000
  PhaseRange,                   \* 2^32, one turn of the phase accumulator
  CaptureTime, StartMargin,     \* SONAR_CAPTURE_US, SONAR_TX_START_MARGIN_US
  MaxConfig,                    \* 65535, the last configuration number
  Boots, Tests,                 \* the identities; the zero one is None
  MaxSamples,                   \* SONAR_TX_MAX_SAMPLES
  Requests                      \* what a client may ask

None == 0                       \* no identity, no waveform, no session

ASSUME ServiceAssumption ==
  /\ None \notin Sessions
  /\ AudioHz \in Nat \ {0} /\ Second \in Nat \ {0} /\ PhaseRange \in Nat \ {0}
  /\ CaptureTime \in Nat /\ StartMargin \in 0 .. CaptureTime
  /\ MaxConfig \in Nat /\ MaxSamples \in Nat
  /\ Boots \subseteq Nat \ {0} /\ Tests \subseteq Nat \ {0}

(* What can be decoded of a request.                                       *)
ASSUME RequestAssumption ==
  \A q \in Requests :
    /\ q.op = "SET_BOOT_ID" => q.boot \in Boots \cup {None}
    /\ q.op = "PREPARE_TEST" => q.test \in Tests \cup {None}
    /\ q.op = "SET_GENERATED" =>
         {q.start, q.stop, q.duration, q.amplitude} \subseteq Nat
    /\ q.op = "SELECT_WAVEFORM" => q.amplitude \in Nat
    /\ q.op = "UPLOAD_BEGIN" => WavFile(q.file)
    /\ q.op = "UPLOAD_DATA" => q.data \in Seq(Nat)

VARIABLES
  active, pending, values,      \* configurations, calculated values
  valid, staged, running, owner, next_config,
  wave,                         \* the upload and the playback buffer
  tx,                           \* sonar_tx_control.c and its registers
  boot_id, test_id, prepared,
  prepared_for                  \* history: the configuration of the test

cfgVars == <<active, values, valid, next_config, tx>>
stageVars == <<pending, staged, owner>>
idVars == <<boot_id, test_id, prepared, prepared_for>>
serviceVars == <<cfgVars, stageVars, idVars, running, wave>>

NoConfig ==
  [mode |-> "GENERATE", start |-> 0, stop |-> 0, duration |-> 0,
   amplitude |-> 0, waveform |-> None, id |-> 0]
NoValues == [samples |-> 0, start_inc |-> 0, step |-> 0, duration |-> 0]

(* sonar_chirp_apply has not run; both sources share the sample count.     *)
NewTx ==
  [applied |-> FALSE, busy |-> FALSE, fault |-> FALSE, source |-> "GENERATE",
   start_inc |-> 0, step |-> 0, samples |-> 0, amplitude |-> 0]

Init ==
  /\ active = NoConfig /\ pending = NoConfig /\ values = NoValues
  /\ valid = FALSE /\ staged = FALSE /\ running = FALSE
  /\ owner = None /\ next_config = 0
  /\ wave = NewWave /\ tx = NewTx
  /\ boot_id = None /\ test_id = None
  /\ prepared = FALSE /\ prepared_for = 0

-----------------------------------------------------------------------------
(* sonar_experiment_calculate: a configuration in range, and its values.   *)

SamplesOf(duration) == (duration * AudioHz + Second \div 2) \div Second
DurationOf(samples) == (samples * Second + AudioHz - 1) \div AudioHz
Increment(hz) == (hz * PhaseRange + AudioHz \div 2) \div AudioHz

(* The step that carries the increment from start to stop, to nearest.     *)
Step(c, samples) ==
  LET delta == Increment(c.stop) - Increment(c.start)
      gaps == samples - 1
  IN IF delta >= 0 THEN (delta + gaps \div 2) \div gaps
                   ELSE -((-delta + gaps \div 2) \div gaps)

InRange(c, wav_samples) ==
  LET samples == IF c.mode = "WAV" THEN wav_samples ELSE SamplesOf(c.duration)
  IN /\ c.amplitude <= 100
     /\ \/ /\ c.mode = "GENERATE"
           /\ {c.start, c.stop} \subseteq 1 .. (AudioHz \div 2) - 1
           /\ c.duration \in 1 .. CaptureTime - StartMargin
           /\ samples >= 2
        \/ c.mode = "WAV" /\ c.waveform # None /\ samples > 0
     /\ samples <= MaxSamples
     /\ DurationOf(samples) + StartMargin <= CaptureTime

Calculated(c, wav_samples) ==
  IF c.mode = "WAV"
  THEN [NoValues EXCEPT !.samples = wav_samples,
                        !.duration = DurationOf(wav_samples)]
  ELSE LET samples == SamplesOf(c.duration)
       IN [samples |-> samples, start_inc |-> Increment(c.start),
           step |-> Step(c, samples), duration |-> DurationOf(samples)]

(* sonar_experiment_can_start                                              *)
CanStart ==
  /\ valid /\ ~staged /\ ~wave.uploading /\ ~running
  /\ active.mode = "WAV" => active.waveform = wave.current_id

(* playback_idle of sonar_tx_bram.c: neither playing nor in fault.         *)
PlayerIdle == ~tx.busy /\ ~tx.fault

-----------------------------------------------------------------------------
(* sonar_chirp_apply, sonar_wav_player_select_generate and _configure:     *)
(* what they leave in the registers. It is refused, with nothing changed,  *)
(* while a transmission is prepared or under way and after a fault.        *)

Applicable(c) ==
  /\ ~tx.fault /\ ~tx.busy
  /\ InRange(c, wave.current_samples)
  /\ c.mode = "WAV" => ~wave.uploading /\ c.waveform = wave.current_id

Registers(c, v) ==
  IF c.mode = "WAV"
  THEN [tx EXCEPT !.applied = TRUE, !.source = "WAV", !.samples = v.samples]
  ELSE [tx EXCEPT !.applied = TRUE, !.source = "GENERATE",
                  !.samples = v.samples, !.amplitude = c.amplitude,
                  !.start_inc = v.start_inc, !.step = v.step]

Player(c, v) ==
  IF c.mode = "WAV"
  THEN [wave EXCEPT !.bram = GainSet(@, v.samples, c.amplitude)] ELSE wave

ChirpApply(c, v) ==
  /\ Applicable(c)
  /\ tx' = Registers(c, v) /\ wave' = Player(c, v)

(* The PL output register does not read back: a fault until reset.         *)
ChirpApplyFails(c) ==
  /\ UNCHANGED wave
  /\ \/ ~Applicable(c) /\ UNCHANGED tx
     \/ Applicable(c) /\ tx' = [tx EXCEPT !.fault = TRUE]

-----------------------------------------------------------------------------
(* The requests of `command`, by session s, with their result r. Those     *)
(* that change something are served only when nothing runs, and only to    *)
(* the session that owns what is staged or being uploaded, if any does.    *)

Get(r) == r = "OK" /\ UNCHANGED serviceVars

(* Variant with a bug: the upload of the closed connection goes on.        *)
EndSessionOnly(s, r) ==
  /\ r = "OK"
  /\ IF s = owner THEN staged' = FALSE /\ owner' = None
     ELSE UNCHANGED <<staged, owner>>
  /\ UNCHANGED <<cfgVars, idVars, pending, running, wave>>

EndSession(s, r) ==
  /\ r = "OK"
  /\ IF s = owner
     THEN staged' = FALSE /\ owner' = None /\ wave' = Cancelled(wave)
     ELSE UNCHANGED <<staged, owner, wave>>
  /\ UNCHANGED <<cfgVars, idVars, pending, running>>

Served(s, mutable) == mutable /\ ~running /\ owner \in {None, s}

Busy(s, mutable, r) ==
  /\ r = "BUSY" /\ ~Served(s, mutable)
  /\ UNCHANGED serviceVars

Rejected(r, reason) == r = reason /\ UNCHANGED serviceVars

(* sonar_identity_set_boot: the first identity stays until reset, and it   *)
(* is not zero.                                                            *)
SetBootId(q, r) ==
  LET fits == q.boot # None /\ boot_id \in {None, q.boot}
  IN \/ /\ r = "OK" /\ fits
        /\ boot_id' = q.boot
        /\ UNCHANGED <<cfgVars, stageVars, running, wave, test_id, prepared,
                       prepared_for>>
     \/ Rejected(r, "RANGE") /\ ~fits

(* sonar_identity_prepare_test, for the configuration the client saw.      *)
PrepareTest(q, r) ==
  LET fits == valid /\ ~staged /\ ~wave.uploading /\ q.config = active.id
      fresh == /\ q.boot = boot_id /\ q.test # test_id
               /\ None \notin {q.boot, q.test}
  IN \/ Rejected(r, "BAD_REQUEST") /\ ~fits
     \/ Rejected(r, "RANGE") /\ fits /\ ~fresh
     \/ /\ r = "OK" /\ fits /\ fresh
        /\ test_id' = q.test /\ prepared' = TRUE /\ prepared_for' = q.config
        /\ UNCHANGED <<cfgVars, stageVars, running, wave, boot_id>>

Stage(s, c, r) ==
  /\ r = "OK"
  /\ pending' = c /\ staged' = TRUE /\ owner' = s
  /\ UNCHANGED <<cfgVars, idVars, running, wave>>

SetGenerated(s, q, r) ==
  LET c == [NoConfig EXCEPT !.start = q.start, !.stop = q.stop,
              !.duration = q.duration, !.amplitude = q.amplitude]
  IN \/ Rejected(r, "RANGE") /\ ~InRange(c, 0)
     \/ Stage(s, c, r) /\ InRange(c, 0)

(* A new upload takes the buffer away from a configuration that plays it.  *)
UploadBegin(s, q, r) ==
  LET b == Begun(wave, q.file)
  IN \/ Rejected(r, "HARDWARE") /\ tx.fault
     \/ Rejected(r, "RANGE") /\ ~tx.fault /\ ~b.ok
     \/ /\ r = "OK" /\ ~tx.fault /\ b.ok
        /\ wave' = b.wave /\ valid' = (valid /\ active.mode # "WAV")
        /\ staged' = FALSE /\ owner' = s
        /\ UNCHANGED <<active, values, next_config, tx, idVars, pending,
                       running>>

UploadData(s, q, r) ==
  LET a == Appended(wave, q.offset, q.data, PlayerIdle)
  IN \/ Rejected(r, "BAD_REQUEST") /\ owner # s
     \/ /\ r \in {"OK", "RANGE"} /\ owner = s
        /\ a.ok <=> r = "OK"
        /\ wave' = a.wave
        /\ UNCHANGED <<cfgVars, stageVars, idVars, running>>

UploadCommit(s, r) ==
  LET c == Committed(wave, PlayerIdle)
  IN \/ Rejected(r, "BAD_REQUEST") /\ owner # s
     \/ /\ r \in {"OK", "CHECKSUM"} /\ owner = s
        /\ c.ok <=> r = "OK"
        /\ wave' = c.wave
        /\ valid' = (valid /\ (c.ok => active.mode # "WAV"))
        /\ UNCHANGED <<active, values, next_config, tx, stageVars, idVars,
                       running>>

UploadCancel(r) ==
  /\ r = "OK" /\ wave' = Cancelled(wave)
  /\ UNCHANGED <<cfgVars, stageVars, idVars, running>>

SelectWaveform(s, q, r) ==
  LET c == [NoConfig EXCEPT !.mode = "WAV", !.waveform = q.waveform,
              !.amplitude = q.amplitude]
      known == q.waveform # None /\ q.waveform = wave.current_id
  IN \/ Rejected(r, "NO_WAVEFORM") /\ ~known
     \/ Rejected(r, "RANGE") /\ known /\ ~InRange(c, wave.current_samples)
     \/ Stage(s, c, r) /\ known /\ InRange(c, wave.current_samples)

(* Why an APPLY is refused before anything changes, or "OK".               *)
ApplyCheck(s) ==
  CASE ~staged \/ owner # s -> "BAD_REQUEST"
    [] staged /\ owner = s /\ wave.uploading -> "BUSY"
    [] staged /\ owner = s /\ ~wave.uploading /\ pending.mode = "WAV"
       /\ pending.waveform # wave.current_id -> "NO_WAVEFORM"
    [] OTHER -> IF ~InRange(pending, wave.current_samples) THEN "RANGE"
                ELSE IF next_config >= MaxConfig THEN "SEQUENCE" ELSE "OK"

(* Variant with a bug: only an accepted configuration voids the test.      *)
ArmedUnlessApplied(r) == prepared /\ r # "OK"

Armed(r) == FALSE

(* A configuration number is used up, and a prepared test is void, even    *)
(* when the hardware refuses.                                              *)
Apply(s, r) ==
  LET c == [pending EXCEPT !.id = next_config + 1]
      v == Calculated(pending, wave.current_samples)
  IN \/ r # "OK" /\ Rejected(r, ApplyCheck(s))
     \/ /\ r \in {"OK", "HARDWARE"} /\ ApplyCheck(s) = "OK"
        /\ next_config' = next_config + 1 /\ prepared' = Armed(r)
        /\ \/ /\ r = "OK" /\ ChirpApply(c, v)
              /\ active' = [c EXCEPT !.duration = v.duration]
              /\ values' = v /\ valid' = TRUE
              /\ staged' = FALSE
           \/ /\ r = "HARDWARE" /\ ChirpApplyFails(c)
              /\ valid' = FALSE
              /\ UNCHANGED <<active, values, staged>>
        /\ pending' = c
        /\ UNCHANGED <<owner, running, boot_id, test_id, prepared_for>>

Mutating(s, q, r) ==
  \/ q.op = "SET_BOOT_ID" /\ SetBootId(q, r)
  \/ q.op = "PREPARE_TEST" /\ PrepareTest(q, r)
  \/ q.op = "SET_GENERATED" /\ SetGenerated(s, q, r)
  \/ q.op = "UPLOAD_BEGIN" /\ UploadBegin(s, q, r)
  \/ q.op = "UPLOAD_DATA" /\ UploadData(s, q, r)
  \/ q.op = "UPLOAD_COMMIT" /\ UploadCommit(s, r)
  \/ q.op = "SELECT_WAVEFORM" /\ SelectWaveform(s, q, r)
  \/ q.op = "APPLY" /\ Apply(s, r)
  \/ q.op = "UPLOAD_CANCEL" /\ UploadCancel(r)

Command(s, q, mutable, r) ==
  \/ q.op = "GET_CONFIGURATION" /\ Get(r)
  \/ q.op = "END_SESSION" /\ EndSession(s, r)
  \/ q.op \notin {"GET_CONFIGURATION", "END_SESSION"} /\ Busy(s, mutable, r)
  \/ Served(s, mutable) /\ Mutating(s, q, r)

Results ==
  {"OK", "BAD_REQUEST", "BUSY", "RANGE", "CHECKSUM", "NO_WAVEFORM",
   "HARDWARE", "TIMEOUT", "SEQUENCE"}

-----------------------------------------------------------------------------
(* The experiment around the service: a run locks the waveform and plays   *)
(* what is applied, once per position. A stopped run is over only when the *)
(* transmitter has drained or is in fault.                                 *)

StartRun ==
  /\ CanStart /\ prepared /\ ~tx.fault
  /\ running' = TRUE /\ wave' = Locked(wave, TRUE) /\ prepared' = FALSE
  /\ UNCHANGED <<cfgVars, stageVars, boot_id, test_id, prepared_for>>

(* sonar_chirp_prepare and the trigger.                                    *)
Transmit ==
  /\ running /\ tx.applied /\ PlayerIdle
  /\ tx' = [tx EXCEPT !.busy = TRUE]
  /\ UNCHANGED <<active, values, valid, next_config, stageVars, idVars,
                 running, wave>>

(* poll_tx: the end of the transmission, or no end in time.                *)
TransmissionEnds ==
  /\ tx.busy /\ tx' = [tx EXCEPT !.busy = FALSE]
  /\ UNCHANGED <<active, values, valid, next_config, stageVars, idVars,
                 running, wave>>

TransmissionLate ==
  /\ tx.busy /\ ~tx.fault /\ tx' = [tx EXCEPT !.fault = TRUE]
  /\ UNCHANGED <<active, values, valid, next_config, stageVars, idVars,
                 running, wave>>

EndRun ==
  /\ running /\ (tx.busy => tx.fault)
  /\ running' = FALSE /\ wave' = Locked(wave, FALSE)
  /\ UNCHANGED <<cfgVars, stageVars, idVars>>

Request ==
  \E s \in Sessions, q \in Requests, r \in Results : Command(s, q, TRUE, r)

Next ==
  \/ Request
  \/ StartRun \/ Transmit \/ TransmissionEnds \/ TransmissionLate \/ EndRun

Spec == Init /\ [][Next]_serviceVars

-----------------------------------------------------------------------------
(* Properties *)

Config ==
  [mode : {"GENERATE", "WAV"}, start : Nat, stop : Nat, duration : Nat,
   amplitude : 0 .. 100, waveform : 0 .. MaxWaveform, id : 0 .. MaxConfig]

(* Every variable has its type.                                            *)
TypeOK ==
  /\ active \in Config /\ pending \in Config
  /\ values \in [samples : 0 .. MaxSamples, start_inc : 0 .. PhaseRange - 1,
                 step : -PhaseRange .. PhaseRange, duration : Nat]
  /\ valid \in BOOLEAN /\ staged \in BOOLEAN /\ running \in BOOLEAN
  /\ owner \in Sessions \cup {None} /\ next_config \in 0 .. MaxConfig
  /\ wave.parser.phase \in Phase /\ wave.parser.samples \in 0 .. Capacity
  /\ wave.current_id \in 0 .. MaxWaveform /\ wave.next_id \in 0 .. MaxWaveform
  /\ wave.bram \in [0 .. Capacity - 1 -> [pcm : Sample, out : Sample]]
  /\ tx \in [applied : BOOLEAN, busy : BOOLEAN, fault : BOOLEAN,
             source : {"GENERATE", "WAV"}, start_inc : 0 .. PhaseRange - 1,
             step : -PhaseRange .. PhaseRange, samples : 0 .. MaxSamples,
             amplitude : 0 .. 100]
  /\ boot_id \in Boots \cup {None} /\ test_id \in Tests \cup {None}
  /\ prepared \in BOOLEAN /\ prepared_for \in 0 .. MaxConfig

(* A waveform that can be selected is the file that was announced: however *)
(* the file was cut into pieces, and whatever was repeated, skipped or     *)
(* mixed in on the way, the buffer holds the samples that a reader of the  *)
(* whole file finds.                                                       *)
CommittedIsFile ==
  wave.current_id # None =>
    /\ wave.current_samples = Len(wave.parser.file.pcm)
    /\ \A i \in 1 .. wave.current_samples :
         wave.bram[i - 1].pcm = wave.parser.file.pcm[i]

(* What a run transmits is what was applied, whatever was uploaded, staged *)
(* or refused since: the registers, and for a waveform every word of the   *)
(* buffer at the applied amplitude. The sweep of a generated chirp ends    *)
(* within rounding of the frequency that was asked for.                    *)
PlaysWhatWasApplied ==
  CanStart \/ running =>
    /\ tx.source = active.mode /\ tx.samples = values.samples
    /\ active.mode = "GENERATE" =>
         LET miss == tx.start_inc + tx.step * (tx.samples - 1)
                       - Increment(active.stop)
         IN /\ tx.start_inc = Increment(active.start)
            /\ tx.amplitude = active.amplitude
            /\ 2 * miss \in -(tx.samples - 1) .. tx.samples - 1
    /\ active.mode = "WAV" =>
         /\ active.waveform = wave.current_id
         /\ \A i \in 1 .. tx.samples :
              wave.bram[i - 1].out =
                Scaled(wave.parser.file.pcm[i], active.amplitude)

(* A prepared test is for the last configuration that was given a number,  *)
(* the one that would run, even when the hardware has refused it since or  *)
(* an upload has taken its waveform away.                                  *)
TestMatchesConfiguration ==
  prepared =>
    /\ prepared_for = next_config
    /\ valid => active.id = next_config
=============================================================================
