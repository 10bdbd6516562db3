---------------------------- MODULE WaveformUpload ----------------------------
(***************************************************************************)
(* The upload of a WAV file into the playback buffer:                      *)
(* sonar_waveform_upload.c and the buffer of sonar_tx_bram.c. The file     *)
(* arrives in pieces of any size, and every byte goes through a parser     *)
(* that writes the samples to the buffer as it finds them.                 *)
(*                                                                         *)
(* The widths are scaled. A byte is a small number; the RIFF header is     *)
(* <<Riff, size>>, a chunk header <<kind, length>>, a format body          *)
(* <<channels>>, and one byte is one sample of one channel. The numeric    *)
(* formats of `sample` (8 to 32 bits, float) are one signed byte here.     *)
(***************************************************************************)
EXTENDS Integers, Sequences, SequencesExt

CONSTANTS
  Capacity,                     \* sonar_tx_bram_capacity, in samples
  MinFile, MaxFile,             \* 44 and SONAR_WAV_FILE_MAX_BYTES
  MaxWaveform                   \* UINT32_MAX, the last waveform number

ASSUME WaveformAssumption ==
  /\ Capacity \in Nat \ {0} /\ MaxWaveform \in Nat
  /\ MinFile \in Nat \ {0} /\ MaxFile \in Nat

Riff == 91                      \* "RIFF"
Fmt == 92                       \* "fmt "
Data == 93                      \* "data"
RiffHeader == 2                 \* 12 bytes
ChunkHeader == 2                \* 8 bytes
FormatBytes == 1                \* 16 bytes
Half == 4                               \* samples are -Half .. Half - 1
Sample == -Half .. Half - 1

Phase ==
  {"RIFF_HEADER", "CHUNK_HEADER", "FORMAT", "AUDIO_DATA", "SKIP", "PAD"}

Trunc(n, d) == IF n >= 0 THEN n \div d ELSE -((-n) \div d)

(* A file that the host may announce: its bytes, and the samples that a    *)
(* reader of the whole file finds in it (see WavFile). It stands for the   *)
(* length and the CRC that are announced.                                  *)
NoFile == [bytes |-> <<>>, pcm |-> <<>>]

NoParser ==
  [phase |-> "RIFF_HEADER", header |-> <<>>, fmt |-> <<>>, frame |-> <<>>,
   remaining |-> 0, chunk |-> 0, channels |-> 0, samples |-> 0, word |-> 0,
   file |-> NoFile, crc |-> TRUE, received |-> 0,
   fmt_seen |-> FALSE, data_seen |-> FALSE]

(* The statics of sonar_waveform_upload.c, and the buffer: of each word    *)
(* the uploaded sample and the scaled copy that the player reads.          *)
NewWave ==
  [parser |-> NoParser, current_id |-> 0, next_id |-> 0,
   current_samples |-> 0, uploading |-> FALSE, locked |-> FALSE,
   bram |-> [i \in 0 .. Capacity - 1 |-> [pcm |-> 0, out |-> 0]]]

-----------------------------------------------------------------------------
(* sonar_tx_bram_write and sonar_tx_bram_set_gain. Both need a silent      *)
(* player; a pair that is only half used clears its other half.            *)

BramWritten(bram, pair, first, second) ==
  [i \in DOMAIN bram |->
     CASE i = 2 * pair     -> [pcm |-> first, out |-> first]
       [] i = 2 * pair + 1 -> [pcm |-> second, out |-> second]
       [] OTHER            -> bram[i]]

(* Rounded to nearest, ties away from zero.                                *)
Scaled(sample, pct) ==
  IF sample >= 0 THEN (sample * pct + 50) \div 100
                 ELSE -((-sample * pct + 50) \div 100)

(* Variant with a bug: the gain is applied to the copy and not the source. *)
GainOnGain(bram, samples, pct) ==
  [i \in DOMAIN bram |->
     IF i < samples THEN [bram[i] EXCEPT !.out = Scaled(@, pct)] ELSE bram[i]]

GainSet(bram, samples, pct) ==
  [i \in DOMAIN bram |->
     IF i < samples THEN [bram[i] EXCEPT !.out = Scaled(bram[i].pcm, pct)]
                    ELSE bram[i]]

-----------------------------------------------------------------------------
(* The parser. Each function is one case of `feed` and gives the waveform  *)
(* state after the byte and whether the byte was accepted.                 *)

Accepted(w) == [ok |-> TRUE, wave |-> w]
Refused(w) == [ok |-> FALSE, wave |-> w]
WithParser(w, p) == Accepted([w EXCEPT !.parser = p])

(* chunk_done: a chunk of odd length is followed by a padding byte.        *)
ChunkDone(p) ==
  [p EXCEPT !.phase = IF p.chunk % 2 = 1 THEN "PAD" ELSE "CHUNK_HEADER",
            !.header = <<>>]

FedRiff(w, byte) ==
  LET p == [w.parser EXCEPT !.header = Append(@, byte)]
      size == Len(p.file.bytes)
  IN IF Len(p.header) < RiffHeader THEN WithParser(w, p)
     ELSE IF p.header[1] # Riff \/ p.header[2] + RiffHeader # size
          THEN Refused(w)
          ELSE WithParser(w, [p EXCEPT !.phase = "CHUNK_HEADER",
                                       !.header = <<>>])

(* What a complete chunk header may announce.                              *)
ChunkFits(p, n) == n + (n % 2) <= Len(p.file.bytes) - p.received
FormatFits(p, n) == ~p.fmt_seen /\ n >= FormatBytes
DataFits(p, n) ==
  /\ p.fmt_seen /\ ~p.data_seen
  /\ n > 0 /\ n % p.channels = 0 /\ n \div p.channels <= Capacity

FedChunk(w, byte) ==
  LET p == [w.parser EXCEPT !.header = Append(@, byte)]
      kind == p.header[1]
      n == p.header[2]
      q == [p EXCEPT !.remaining = n, !.chunk = n, !.header = <<>>]
      next == [q EXCEPT !.fmt = IF kind = Fmt THEN <<>> ELSE @,
                        !.phase = CASE kind = Fmt  -> "FORMAT"
                                    [] kind = Data -> "AUDIO_DATA"
                                    [] OTHER       -> "SKIP"]
  IN CASE Len(p.header) < ChunkHeader -> WithParser(w, p)
       [] Len(p.header) = ChunkHeader
          /\ \/ ~ChunkFits(p, n)
             \/ (kind = Fmt /\ ~FormatFits(p, n))
             \/ (kind = Data /\ ~DataFits(p, n))
          -> Refused(w)
       [] OTHER -> WithParser(w, IF n = 0 THEN ChunkDone(next) ELSE next)

(* format_done: one or two channels.                                       *)
FedFormat(w, byte) ==
  LET p == [w.parser EXCEPT
              !.fmt = IF Len(@) < FormatBytes THEN Append(@, byte) ELSE @,
              !.remaining = @ - 1]
      done == [p EXCEPT !.channels = p.fmt[1], !.fmt_seen = TRUE]
  IN CASE p.remaining > 0 -> WithParser(w, p)
       [] p.remaining = 0 /\ p.fmt[1] \notin {1, 2} -> Refused(w)
       [] OTHER -> WithParser(w, ChunkDone(done))

(* emit_frame: the mean of the channels is a sample of the buffer. Samples *)
(* are written in pairs, the first of a pair waits for the second.         *)
Decoded(byte) == ((byte + Half) % (2 * Half)) - Half
Mean(frame) ==
  Trunc(FoldLeft(LAMBDA sum, byte : sum + Decoded(byte), 0, frame), Len(frame))

EmittedFrame(w, idle) ==
  LET p == w.parser
      pcm == Mean(p.frame)
      odd == p.samples % 2 = 1
  IN IF p.samples >= Capacity \/ (odd /\ ~idle) THEN Refused(w)
     ELSE Accepted(
       [w EXCEPT !.parser.samples = @ + 1, !.parser.frame = <<>>,
                 !.parser.word = IF odd THEN @ ELSE pcm,
                 !.bram = IF odd THEN BramWritten(@, p.samples \div 2, p.word, pcm)
                          ELSE @])

FedData(w, byte, idle) ==
  LET gathered == [w EXCEPT !.parser.frame = Append(@, byte)]
      r == IF Len(gathered.parser.frame) = gathered.parser.channels
           THEN EmittedFrame(gathered, idle) ELSE Accepted(gathered)
      p == [r.wave.parser EXCEPT !.remaining = @ - 1]
  IN CASE ~r.ok           -> r
       [] r.ok /\ p.remaining > 0 -> WithParser(r.wave, p)
       [] OTHER           -> WithParser(r.wave,
                               ChunkDone([p EXCEPT !.data_seen = TRUE]))

FedSkip(w) ==
  LET p == [w.parser EXCEPT !.remaining = @ - 1]
  IN WithParser(w, IF p.remaining = 0 THEN ChunkDone(p) ELSE p)

FedPad(w) ==
  WithParser(w, [w.parser EXCEPT !.phase = "CHUNK_HEADER", !.header = <<>>])

Fed(w, byte, idle) ==
  CASE w.parser.phase = "RIFF_HEADER"  -> FedRiff(w, byte)
    [] w.parser.phase = "CHUNK_HEADER" -> FedChunk(w, byte)
    [] w.parser.phase = "FORMAT"       -> FedFormat(w, byte)
    [] w.parser.phase = "AUDIO_DATA"   -> FedData(w, byte, idle)
    [] w.parser.phase = "SKIP"         -> FedSkip(w)
    [] w.parser.phase = "PAD"          -> FedPad(w)

-----------------------------------------------------------------------------
(* The operations of the upload; each gives [ok, wave].                    *)

(* Variant with a bug: the old waveform stays selectable.                  *)
BegunOver(w, file) ==
  LET size == Len(file.bytes)
  IN IF \/ w.locked \/ w.uploading \/ w.next_id = MaxWaveform
        \/ size \notin MinFile .. MaxFile
     THEN Refused(w)
     ELSE Accepted([w EXCEPT !.parser = [NoParser EXCEPT !.file = file],
                             !.uploading = TRUE])

(* sonar_waveform_begin: the old waveform is gone before any overwrite.    *)
Begun(w, file) ==
  LET size == Len(file.bytes)
  IN IF \/ w.locked \/ w.uploading \/ w.next_id = MaxWaveform
        \/ size \notin MinFile .. MaxFile
     THEN Refused(w)
     ELSE Accepted([w EXCEPT !.current_id = 0, !.current_samples = 0,
                             !.parser = [NoParser EXCEPT !.file = file],
                             !.uploading = TRUE])

(* One byte of sonar_waveform_append. The running CRC is right as long as  *)
(* every byte is the announced file's.                                     *)
FedByte(w, byte, idle) ==
  Fed([w EXCEPT !.parser.received = @ + 1,
                !.parser.crc =
                   @ /\ byte = w.parser.file.bytes[w.parser.received + 1]],
      byte, idle)

(* sonar_waveform_append: only the next bytes are taken, and a byte that   *)
(* the parser refuses ends the upload.                                     *)
Appended(w, offset, data, idle) ==
  LET p == w.parser
      fed == FoldLeft(LAMBDA r, byte :
                        IF r.ok THEN FedByte(r.wave, byte, idle) ELSE r,
                      Accepted(w), data)
  IN CASE \/ w.locked \/ ~w.uploading \/ Len(data) = 0 \/ offset # p.received
          \/ Len(data) > Len(p.file.bytes) - p.received -> Refused(w)
       [] OTHER -> IF fed.ok THEN fed
                   ELSE Refused([fed.wave EXCEPT !.uploading = FALSE])

(* sonar_waveform_commit: a whole file, with the announced CRC.            *)
Whole(w) ==
  LET p == w.parser
  IN /\ ~w.locked /\ w.uploading
     /\ p.received = Len(p.file.bytes)
     /\ p.fmt_seen /\ p.data_seen
     /\ p.phase = "CHUNK_HEADER" /\ p.header = <<>> /\ p.frame = <<>>
     /\ p.samples # 0

Committed(w, idle) ==
  LET p == w.parser
      odd == p.samples % 2 = 1
  IN CASE ~Whole(w) -> Refused(w)
       [] Whole(w) /\ ~p.crc -> Refused([w EXCEPT !.uploading = FALSE])
       [] Whole(w) /\ p.crc /\ odd /\ ~idle -> Refused(w)
       [] OTHER -> Accepted(
            [w EXCEPT !.next_id = @ + 1, !.current_id = w.next_id + 1,
                      !.current_samples = p.samples, !.uploading = FALSE,
                      !.bram = IF odd
                               THEN BramWritten(@, p.samples \div 2, p.word, 0)
                               ELSE @])

(* sonar_waveform_cancel, also of an upload that is already committed.     *)
Cancelled(w) == [w EXCEPT !.uploading = FALSE, !.parser.received = 0]

(* sonar_waveform_lock                                                     *)
Locked(w, value) == [w EXCEPT !.locked = value]

-----------------------------------------------------------------------------
(* What a reader of the whole file finds, told without the parser: chunks  *)
(* that begin at `starts`, each right behind the one before, from the RIFF *)
(* header up to `end`; in frames of a sample per channel, the data chunk.  *)

ChunkEnd(bytes, k) == k + ChunkHeader + bytes[k + 2] + (bytes[k + 2] % 2)

ChunksUpTo(bytes, starts, end) ==
  /\ RiffHeader \in starts \cup {end}
  /\ \A k \in starts :
       /\ k < end /\ ChunkEnd(bytes, k) \in starts \cup {end}
       /\ \A m \in starts : m <= k \/ ChunkEnd(bytes, k) <= m

Kind(bytes, starts, kind) == {k \in starts : bytes[k + 1] = kind}
FrameAt(bytes, data, channels, i) ==
  [j \in 1 .. channels |-> bytes[data + ChunkHeader + (i - 1) * channels + j]]

(* Bytes and samples of a file. One with a format chunk and behind it a    *)
(* data chunk, and no second of either, has the samples of that data.      *)
WavFile(file) ==
  LET bytes == file.bytes
      size == Len(bytes)
  IN /\ bytes \in Seq(Nat) /\ file.pcm \in Seq(Sample)
     /\ file = [bytes |-> bytes, pcm |-> file.pcm]
     /\ \A starts \in SUBSET (RiffHeader .. size - ChunkHeader) :
          size >= RiffHeader /\ bytes[1] = Riff
            /\ bytes[2] + RiffHeader = size /\ ChunksUpTo(bytes, starts, size)
          => \A fmt, data \in starts :
               LET channels == bytes[fmt + ChunkHeader + 1]
               IN /\ Kind(bytes, starts, Fmt) = {fmt} /\ channels \in {1, 2}
                  /\ Kind(bytes, starts, Data) = {data} /\ fmt < data
                  => file.pcm = [i \in 1 .. bytes[data + 2] \div channels |->
                                   Mean(FrameAt(bytes, data, channels, i))]
=============================================================================
