------------------------- MODULE WaveformUploadProofs -------------------------
(***************************************************************************)
(* Proofs about the upload of a waveform: a waveform that can be selected  *)
(* is the file that was announced, for every file, however it was cut into *)
(* pieces.                                                                 *)
(*                                                                         *)
(* A piece is read by a fold over its bytes, so that the proof goes by     *)
(* induction over them (SetInduction, FedInOrder). Each byte is a step of  *)
(* one of seven kinds (FedByteStep). As long as every byte is the          *)
(* announced file's (crc), the parser knows what a reader of the file      *)
(* would know there (Parsed): which chunks it has met, that they follow    *)
(* each other, the channels, and the samples found so far (Held). When the *)
(* whole file was read, that is what WavFile says of it (WholeIsRead), and *)
(* the commit puts it into force (CommittedEffect).                        *)
(***************************************************************************)
EXTENDS WaveformUpload, TLAPS, WellFoundedInduction

(* Induction on the natural numbers, for a set instead of a predicate: the *)
(* least number outside the set would be neither 0 nor a successor.        *)
LEMMA SetInduction ==
  ASSUME NEW T, 0 \in T, \A n \in Nat : n \in T => n + 1 \in T
  PROVE  Nat \subseteq T
<1> DEFINE R == OpToRel(<, Nat)
           S == Nat \ T
<1>1. SUFFICES ASSUME S # {} PROVE FALSE
  OBVIOUS
<1>2. IsWellFoundedOn(R, Nat)
  BY NatLessThanWellFounded
<1>3. S \subseteq Nat
  OBVIOUS
<1>4. \A x, y \in Nat : x < y => <<x, y>> \in R
  BY DEF OpToRel
<1>5. PICK x \in S : \A y \in S : ~(<<y, x>> \in R)
  <2> HIDE DEF R, S
  <2> QED BY <1>1, <1>2, <1>3, WFMin
<1>6. x # 0 /\ x \in Nat
  OBVIOUS
<1>7. x - 1 \in Nat /\ x - 1 < x
  BY <1>6
<1>8. x - 1 \in T
  BY <1>4, <1>5, <1>6, <1>7
<1>9. (x - 1) + 1 \in T
  BY <1>7, <1>8
<1> QED BY <1>6, <1>9

-----------------------------------------------------------------------------
(* The bytes of a piece, one after the other.                              *)

(* What one byte adds, and a whole piece, as Appended has them.            *)
FedNext(r, byte, idle) == IF r.ok THEN FedByte(r.wave, byte, idle) ELSE r

FedAll(w, data, idle) ==
  FoldLeft(LAMBDA r, byte : IF r.ok THEN FedByte(r.wave, byte, idle) ELSE r,
           Accepted(w), data)

(* The function that the fold over the bytes is defined by.                *)
IsFold(g, n, w, data, idle) ==
  g = [s \in SUBSET (1 .. n) |->
         IF s = {} THEN Accepted(w)
         ELSE FedNext(g[s \ {Max(s)}], data[Max(s)], idle)]

(* The fold takes the last byte first: the largest number of a set.        *)
LEMMA MaxOf ==
  ASSUME NEW n \in Nat, NEW s \in SUBSET (1 .. n), n \in s
  PROVE  Max(s) = n
<1>1. \A y \in s : n >= y
  OBVIOUS
<1>2. \A x \in s : (\A y \in s : x >= y) => x = n
  <2> TAKE x \in s
  <2>1. x \in 1 .. n
    OBVIOUS
  <2> QED BY <2>1
<1> QED BY <1>1, <1>2 DEF Max

(* The largest number of a set of the first n is one of its elements.      *)
LEMMA MaxIn ==
  ASSUME NEW n \in Nat, NEW s \in SUBSET (1 .. n), s # {}
  PROVE  Max(s) \in s
<1> DEFINE T == {k \in Nat : \A u \in SUBSET (1 .. k) :
                     u # {} => \E x \in u : \A y \in u : x >= y}
<1>1. 0 \in T
  <2>1. 1 .. 0 = {}
    OBVIOUS
  <2>2. 0 \in Nat /\ \A u \in SUBSET (1 .. 0) : u = {}
    BY <2>1
  <2> QED BY <2>2
<1>2. ASSUME NEW k \in Nat, k \in T
      PROVE  k + 1 \in T
  <2> SUFFICES ASSUME NEW u \in SUBSET (1 .. k + 1), u # {}
               PROVE  \E x \in u : \A y \in u : x >= y
    BY <1>2
  <2>1. CASE k + 1 \in u
    <3>1. \A y \in u : k + 1 >= y
      OBVIOUS
    <3> QED BY <2>1, <3>1
  <2>2. CASE k + 1 \notin u
    <3>1. u \in SUBSET (1 .. k)
      BY <2>2
    <3> QED BY <3>1, <1>2
  <2> QED BY <2>1, <2>2
<1>3. n \in T
  <2> HIDE DEF T
  <2> QED BY <1>1, <1>2, SetInduction
<1>4. \E x \in s : \A y \in s : x >= y
  BY <1>3
<1> QED BY <1>4 DEF Max

(* The fold is well defined.                                               *)
LEMMA FoldExists ==
  ASSUME NEW w, NEW data, NEW idle, NEW n \in Nat
  PROVE  \E g : IsFold(g, n, w, data, idle)
<1> DEFINE T == {k \in Nat : \E g : IsFold(g, k, w, data, idle)}
<1>1. 0 \in T
  <2> DEFINE g == [s \in SUBSET (1 .. 0) |-> Accepted(w)]
  <2>1. \A s \in SUBSET (1 .. 0) : s = {}
    OBVIOUS
  <2>2. IsFold(g, 0, w, data, idle)
    BY <2>1 DEF IsFold
  <2> QED BY <2>2
<1>2. ASSUME NEW k \in Nat, k \in T
      PROVE  k + 1 \in T
  <2>1. PICK g : IsFold(g, k, w, data, idle)
    BY <1>2
  <2> DEFINE Body(f, s) == IF s = {} THEN Accepted(w)
                           ELSE FedNext(f[s \ {Max(s)}], data[Max(s)], idle)
             h == [s \in SUBSET (1 .. k + 1) |->
                     IF s \subseteq 1 .. k THEN g[s] ELSE Body(g, s)]
  <2>2. ASSUME NEW s \in SUBSET (1 .. k + 1)
        PROVE  h[s] = Body(h, s)
    <3>1. CASE s = {}
      <4>1. h[s] = g[s] /\ g[s] = Accepted(w)
        BY <2>1, <3>1 DEF IsFold
      <4> QED BY <4>1, <3>1
    <3>2. CASE s # {} /\ s \subseteq 1 .. k
      <4>1. h[s] = g[s]
        BY <3>2
      <4>2. g[s] = FedNext(g[s \ {Max(s)}], data[Max(s)], idle)
        BY <2>1, <3>2 DEF IsFold
      <4>3. h[s \ {Max(s)}] = g[s \ {Max(s)}]
        BY <3>2
      <4> QED BY <4>1, <4>2, <4>3, <3>2
    <3>3. CASE ~(s \subseteq 1 .. k)
      <4>1. k + 1 \in s
        BY <3>3
      <4>2. Max(s) = k + 1
        BY <4>1, MaxOf
      <4>3. s \ {Max(s)} \subseteq 1 .. k
        BY <4>2
      <4>4. h[s \ {Max(s)}] = g[s \ {Max(s)}]
        BY <4>3
      <4>5. h[s] = Body(g, s)
        BY <3>3
      <4> QED BY <4>1, <4>4, <4>5
    <3> QED BY <3>1, <3>2, <3>3
  <2>3. h = [s \in SUBSET (1 .. k + 1) |-> Body(h, s)]
    <3> DEFINE hh == [s \in SUBSET (1 .. k + 1) |-> Body(h, s)]
    <3>1. \A s \in SUBSET (1 .. k + 1) : h[s] = hh[s]
      <4> HIDE DEF h, Body
      <4> QED BY <2>2
    <3> HIDE DEF Body
    <3> QED BY <3>1
  <2>4. IsFold(h, k + 1, w, data, idle)
    BY ONLY <2>3 DEF IsFold
  <2> HIDE DEF h
  <2> QED BY <2>4
<1> HIDE DEF T
<1>3. n \in T
  BY <1>1, <1>2, SetInduction
<1> QED BY <1>3 DEF T

(* Each byte is fed to what the bytes before it have left.                 *)
LEMMA FedInOrder ==
  ASSUME NEW w, NEW data \in Seq(Nat), NEW idle
  PROVE  \E h : /\ h[0] = Accepted(w)
                /\ \A n \in 1 .. Len(data) : h[n] = FedNext(h[n - 1], data[n], idle)
                /\ FedAll(w, data, idle) = h[Len(data)]
<1> DEFINE g == CHOOSE g : IsFold(g, Len(data), w, data, idle)
           h == [n \in 0 .. Len(data) |-> g[1 .. n]]
<1>1. DOMAIN data = 1 .. Len(data) /\ Len(data) \in Nat
  OBVIOUS
<1>2. FedAll(w, data, idle) = g[1 .. Len(data)]
  BY <1>1 DEF FedAll, FoldLeft, MapThenFoldSet, IsFold, FedNext
<1>3. IsFold(g, Len(data), w, data, idle)
  BY <1>1, FoldExists
<1> HIDE DEF g
<1>4. h[0] = Accepted(w)
  <2>1. 1 .. 0 = {} /\ {} \in SUBSET (1 .. Len(data))
    OBVIOUS
  <2>2. g[{}] = Accepted(w)
    BY <1>3, <2>1 DEF IsFold
  <2> QED BY <1>1, <2>1, <2>2
<1>5. ASSUME NEW n \in 1 .. Len(data)
      PROVE  h[n] = FedNext(h[n - 1], data[n], idle)
  <2>1. 1 .. n \in SUBSET (1 .. Len(data)) /\ n \in 1 .. n /\ n \in Nat
    BY <1>1
  <2>2. Max(1 .. n) = n
    BY <2>1, MaxOf
  <2>3. (1 .. n) \ {n} = 1 .. n - 1
    BY <2>1
  <2>4. g[1 .. n] = FedNext(g[(1 .. n) \ {Max(1 .. n)}], data[Max(1 .. n)], idle)
    BY <1>3, <2>1 DEF IsFold
  <2>5. g[1 .. n] = FedNext(g[1 .. n - 1], data[n], idle)
    BY <2>2, <2>3, <2>4
  <2>6. h[n] = g[1 .. n] /\ h[n - 1] = g[1 .. n - 1]
    BY <1>1
  <2> QED BY <2>5, <2>6
<1>6. h[Len(data)] = g[1 .. Len(data)]
  BY <1>1
<1> QED BY <1>2, <1>4, <1>5, <1>6

-----------------------------------------------------------------------------
(* Types. They hold of every upload, refused or not.                       *)

(* The upload and the buffer, field by field.                              *)
ParserType ==
  [phase : Phase, header : Seq(Nat), fmt : Seq(Nat), frame : Seq(Nat),
   remaining : Nat, chunk : Nat, channels : Nat, samples : 0 .. Capacity,
   word : Sample, file : [bytes : Seq(Nat), pcm : Seq(Sample)],
   crc : BOOLEAN, received : Nat, fmt_seen : BOOLEAN, data_seen : BOOLEAN]

Buffer == [0 .. Capacity - 1 -> [pcm : Sample, out : Sample]]

WaveType ==
  [parser : ParserType, current_id : 0 .. MaxWaveform,
   next_id : 0 .. MaxWaveform, current_samples : 0 .. Capacity,
   uploading : BOOLEAN, locked : BOOLEAN, bram : Buffer]

(* What a byte never touches.                                              *)
KeepsUpload(w, v) ==
  /\ v.current_id = w.current_id /\ v.next_id = w.next_id
  /\ v.current_samples = w.current_samples
  /\ v.uploading = w.uploading /\ v.locked = w.locked
  /\ v.parser.file = w.parser.file
  /\ v.parser.received = w.parser.received /\ v.parser.crc = w.parser.crc

(* Samples are integers, and decoding a byte gives a sample.               *)
LEMMA SampleInt == Sample \subseteq Int /\ 0 \in Sample
  BY DEF Sample, Half

LEMMA DecodedSample ==
  ASSUME NEW byte \in Nat
  PROVE  Decoded(byte) \in Sample
  BY DEF Decoded, Sample, Half

(* The function that the sum of a frame is defined by.                     *)
MeanFold(g, frame) ==
  g = [s \in SUBSET (DOMAIN frame) |->
         IF s = {} THEN 0 ELSE g[s \ {Max(s)}] + Decoded(frame[Max(s)])]

(* With one channel the mean is the sample itself.                         *)
LEMMA MeanOfOne ==
  ASSUME NEW frame \in Seq(Nat), Len(frame) = 1
  PROVE  Mean(frame) = Trunc(0 + Decoded(frame[1]), 1)
<1> DEFINE S == SUBSET (DOMAIN frame)
           g == CHOOSE g : MeanFold(g, frame)
           h == [s \in S |-> IF s = {} THEN 0 ELSE 0 + Decoded(frame[1])]
<1>1. DOMAIN frame = {1} /\ S = {{}, {1}}
  OBVIOUS
<1>2. Max({1}) = 1
  BY DEF Max
<1>3. \A s \in S : h[s] = IF s = {} THEN 0
                         ELSE h[s \ {Max(s)}] + Decoded(frame[Max(s)])
  <2>1. h[{}] = 0 /\ h[{1}] = 0 + Decoded(frame[1]) /\ {1} \ {1} = {}
    BY <1>1
  <2> HIDE DEF h, S
  <2> SUFFICES ASSUME NEW s \in {{}, {1}}
               PROVE  h[s] = IF s = {} THEN 0
                             ELSE h[s \ {Max(s)}] + Decoded(frame[Max(s)])
    BY <1>1
  <2>2. CASE s = {}
    BY <2>1, <2>2, Zenon
  <2>3. CASE s = {1}
    <3>1. s # {} /\ s \ {Max(s)} = {} /\ Max(s) = 1
      BY <1>2, <2>1, <2>3
    <3> QED BY <2>1, <2>3, <3>1
  <2> QED BY <2>2, <2>3
<1>4. MeanFold(h, frame)
  <2>1. h = [s \in S |-> IF s = {} THEN 0
                         ELSE h[s \ {Max(s)}] + Decoded(frame[Max(s)])]
    BY <1>3
  <2> QED BY ONLY <2>1 DEF MeanFold
<1>5. MeanFold(g, frame)
  <2> HIDE DEF h
  <2> QED BY <1>4
<1>6. Mean(frame) = Trunc(g[DOMAIN frame], Len(frame))
  BY DEF Mean, FoldLeft, MapThenFoldSet, MeanFold
<1> HIDE DEF g, h
<1>7. g[{}] = 0 /\ g[{1}] = g[{1} \ {Max({1})}] + Decoded(frame[Max({1})])
  BY <1>1, <1>5 DEF MeanFold
<1>8. {1} \ {1} = {}
  OBVIOUS
<1>9. g[{1}] = 0 + Decoded(frame[1])
  BY <1>2, <1>7, <1>8
<1> HIDE DEF S
<1> QED BY <1>1, <1>6, <1>9, Zenon

(* With two it is half of their sum, rounded towards zero.                 *)
LEMMA MeanOfTwo ==
  ASSUME NEW frame \in Seq(Nat), Len(frame) = 2
  PROVE  Mean(frame) = Trunc((0 + Decoded(frame[1])) + Decoded(frame[2]), 2)
<1> DEFINE S == SUBSET (DOMAIN frame)
           g == CHOOSE g : MeanFold(g, frame)
           h == [s \in S |-> IF s = {} THEN 0
                             ELSE IF s = {1} THEN 0 + Decoded(frame[1])
                             ELSE IF s = {2} THEN 0 + Decoded(frame[2])
                             ELSE (0 + Decoded(frame[1])) + Decoded(frame[2])]
<1>1. DOMAIN frame = {1, 2}
  OBVIOUS
<1>2. S = {{}, {1}, {2}, {1, 2}}
  BY <1>1
<1>3. Max({1}) = 1 /\ Max({2}) = 2 /\ Max({1, 2}) = 2
  BY DEF Max
<1>4. {1} \ {1} = {} /\ {2} \ {2} = {} /\ {1, 2} \ {2} = {1}
  OBVIOUS
<1>5. \A s \in S : h[s] = IF s = {} THEN 0
                         ELSE h[s \ {Max(s)}] + Decoded(frame[Max(s)])
  <2>1. /\ h[{}] = 0 /\ h[{1}] = 0 + Decoded(frame[1])
        /\ h[{2}] = 0 + Decoded(frame[2])
        /\ h[{1, 2}] = (0 + Decoded(frame[1])) + Decoded(frame[2])
    <3>1. /\ {} # {1} /\ {} # {2} /\ {} # {1, 2} /\ {1} # {2}
          /\ {1} # {1, 2} /\ {2} # {1, 2}
      <4>1. 1 # 2 /\ 1 \in {1, 2} /\ 2 \in {1, 2} /\ 1 \notin {2} /\ 2 \notin {1}
        OBVIOUS
      <4>2. 1 \in {1} /\ 2 \in {2} /\ 1 \notin {} /\ 2 \notin {}
        OBVIOUS
      <4> QED BY <4>1, <4>2, Zenon
    <3>2. {} \in S /\ {1} \in S /\ {2} \in S /\ {1, 2} \in S
      BY <1>2, Zenon
    <3> HIDE DEF S
    <3> QED BY <3>1, <3>2, Zenon
  <2> HIDE DEF h, S
  <2> SUFFICES ASSUME NEW s \in {{}, {1}, {2}, {1, 2}}
               PROVE  h[s] = IF s = {} THEN 0
                             ELSE h[s \ {Max(s)}] + Decoded(frame[Max(s)])
    BY <1>2
  <2>2. CASE s = {}
    BY <2>1, <2>2, Zenon
  <2>3. CASE s = {1}
    <3>1. s # {} /\ s \ {Max(s)} = {} /\ Max(s) = 1
      BY <1>3, <1>4, <2>3
    <3> QED BY <2>1, <2>3, <3>1
  <2>4. CASE s = {2}
    <3>1. s # {} /\ s \ {Max(s)} = {} /\ Max(s) = 2
      BY <1>3, <1>4, <2>4
    <3> QED BY <2>1, <2>4, <3>1
  <2>5. CASE s = {1, 2}
    <3>1. s # {} /\ s \ {Max(s)} = {1} /\ Max(s) = 2
      BY <1>3, <1>4, <2>5
    <3> QED BY <2>1, <2>5, <3>1
  <2> QED BY <2>2, <2>3, <2>4, <2>5
<1>6. MeanFold(h, frame)
  <2>1. h = [s \in S |-> IF s = {} THEN 0
                         ELSE h[s \ {Max(s)}] + Decoded(frame[Max(s)])]
    BY <1>5
  <2> QED BY ONLY <2>1 DEF MeanFold
<1>7. MeanFold(g, frame)
  <2> HIDE DEF h
  <2> QED BY <1>6
<1>8. Mean(frame) = Trunc(g[DOMAIN frame], Len(frame))
  BY DEF Mean, FoldLeft, MapThenFoldSet, MeanFold
<1> HIDE DEF g, h
<1>9. /\ g[{}] = 0
      /\ g[{1}] = g[{1} \ {Max({1})}] + Decoded(frame[Max({1})])
      /\ g[{1, 2}] = g[{1, 2} \ {Max({1, 2})}] + Decoded(frame[Max({1, 2})])
  BY <1>2, <1>7 DEF MeanFold
<1> HIDE DEF S
<1>10. g[{1}] = 0 + Decoded(frame[1])
  BY <1>3, <1>4, <1>9
<1>11. g[{1, 2}] = (0 + Decoded(frame[1])) + Decoded(frame[2])
  <2>1. {1, 2} \ {Max({1, 2})} = {1} /\ Max({1, 2}) = 2
    BY <1>3, <1>4
  <2> QED BY <1>9, <1>10, <2>1, Zenon
<1> QED BY <1>1, <1>8, <1>11, Zenon

(* So a frame of one or two channels gives a sample.                       *)
LEMMA MeanSample ==
  ASSUME NEW frame \in Seq(Nat), Len(frame) \in {1, 2}
  PROVE  Mean(frame) \in Sample
<1>1. CASE Len(frame) = 1
  <2>1. frame[1] \in Nat
    BY <1>1, SMTT(30)
  <2>2. Decoded(frame[1]) \in Sample
    BY <2>1, DecodedSample
  <2> QED BY <1>1, <2>2, MeanOfOne DEF Trunc, Sample, Half
<1>2. CASE Len(frame) = 2
  <2>1. frame[1] \in Nat /\ frame[2] \in Nat
    <3>1. 1 \in 1 .. Len(frame) /\ 2 \in 1 .. Len(frame)
      BY <1>2
    <3> QED BY <3>1
  <2>2. Decoded(frame[1]) \in Sample /\ Decoded(frame[2]) \in Sample
    BY <2>1, DecodedSample
  <2> QED BY <1>2, <2>2, MeanOfTwo, SMTT(30) DEF Trunc, Sample, Half
<1> QED BY <1>1, <1>2

(* A percentage of a sample is a sample.                                   *)
LEMMA ScaledSample ==
  ASSUME NEW sample \in Sample, NEW pct \in 0 .. 100
  PROVE  Scaled(sample, pct) \in Sample
<1>1. sample \in {-4, -3, -2, -1, 0, 1, 2, 3}
  BY DEF Sample, Half
<1> QED BY <1>1 DEF Scaled, Sample, Half

-----------------------------------------------------------------------------
(* Records of the parser, field by field.                                  *)

(* The types of the fields, for citing.                                    *)
LEMMA ParserFields ==
  ASSUME NEW p \in ParserType
  PROVE  /\ p.phase \in Phase /\ p.header \in Seq(Nat) /\ p.fmt \in Seq(Nat)
         /\ p.frame \in Seq(Nat) /\ p.remaining \in Nat /\ p.chunk \in Nat
         /\ p.channels \in Nat /\ p.samples \in 0 .. Capacity
         /\ p.word \in Sample /\ p.file \in [bytes : Seq(Nat), pcm : Seq(Sample)]
         /\ p.crc \in BOOLEAN /\ p.received \in Nat
         /\ p.fmt_seen \in BOOLEAN /\ p.data_seen \in BOOLEAN
         /\ p.file.bytes \in Seq(Nat) /\ p.file.pcm \in Seq(Sample)
  BY DEF ParserType

LEMMA WaveFields ==
  ASSUME NEW w \in WaveType
  PROVE  /\ w.parser \in ParserType /\ w.current_id \in 0 .. MaxWaveform
         /\ w.next_id \in 0 .. MaxWaveform /\ w.current_samples \in 0 .. Capacity
         /\ w.uploading \in BOOLEAN /\ w.locked \in BOOLEAN /\ w.bram \in Buffer
  BY DEF WaveType

(* WithParser changes the parser only, and Refused nothing.                *)
LEMMA WithParserKeeps ==
  ASSUME NEW w \in WaveType, NEW q \in ParserType, q.file = w.parser.file,
         q.received = w.parser.received, q.crc = w.parser.crc
  PROVE  LET r == WithParser(w, q)
         IN /\ r.ok /\ r.wave \in WaveType /\ KeepsUpload(w, r.wave)
            /\ r.wave.parser = q /\ r.wave.bram = w.bram
<1> DEFINE v == [w EXCEPT !.parser = q]
<1>1. WithParser(w, q) = [ok |-> TRUE, wave |-> v]
  BY DEF WithParser, Accepted
<1>2. v \in WaveType
  BY DEF WaveType
<1>3. v.parser = q /\ v.bram = w.bram /\ KeepsUpload(w, v)
  BY DEF WaveType, KeepsUpload
<1> HIDE DEF v
<1> QED BY <1>1, <1>2, <1>3

LEMMA RefusedKeeps ==
  ASSUME NEW w \in WaveType
  PROVE  LET r == Refused(w)
         IN /\ ~r.ok /\ r.wave = w /\ KeepsUpload(w, r.wave)
  BY DEF Refused, KeepsUpload

(* A byte is counted before it is parsed.                                  *)
Bump(w, byte) ==
  [w EXCEPT !.parser.received = @ + 1,
            !.parser.crc =
               @ /\ byte = w.parser.file.bytes[w.parser.received + 1]]

(* Counting a byte, and comparing it with the announced file, is all that  *)
(* happens to every byte.                                                  *)
LEMMA BumpFields ==
  ASSUME NEW w \in WaveType, NEW byte \in Nat
  PROVE  LET v == Bump(w, byte)
             p == w.parser
             q == v.parser
         IN /\ v \in WaveType
            /\ v.current_id = w.current_id /\ v.next_id = w.next_id
            /\ v.current_samples = w.current_samples
            /\ v.uploading = w.uploading /\ v.locked = w.locked
            /\ v.bram = w.bram
            /\ q.phase = p.phase /\ q.header = p.header /\ q.fmt = p.fmt
            /\ q.frame = p.frame /\ q.remaining = p.remaining
            /\ q.chunk = p.chunk /\ q.channels = p.channels
            /\ q.samples = p.samples /\ q.word = p.word /\ q.file = p.file
            /\ q.fmt_seen = p.fmt_seen /\ q.data_seen = p.data_seen
            /\ q.received = p.received + 1
            /\ q.crc <=> p.crc /\ byte = p.file.bytes[p.received + 1]
<1> DEFINE ok == w.parser.crc /\ byte = w.parser.file.bytes[w.parser.received + 1]
           q == [w.parser EXCEPT !.received = @ + 1, !.crc = ok]
           v == [w EXCEPT !.parser = q]
<1>1. Bump(w, byte) = v
  BY DEF Bump, WaveType, ParserType
<1>2. ok \in BOOLEAN
  BY DEF WaveType, ParserType
<1> HIDE DEF ok
<1>3. w.parser \in ParserType /\ w.parser.received + 1 \in Nat
  BY WaveFields, ParserFields
<1>4. q \in ParserType
  BY <1>2, <1>3 DEF ParserType
<1>5. v \in WaveType
  BY <1>4 DEF WaveType
<1>6. /\ v.current_id = w.current_id /\ v.next_id = w.next_id
      /\ v.current_samples = w.current_samples
      /\ v.uploading = w.uploading /\ v.locked = w.locked
      /\ v.bram = w.bram /\ v.parser = q
  BY DEF WaveType
<1>7. /\ q.phase = w.parser.phase /\ q.header = w.parser.header
      /\ q.fmt = w.parser.fmt /\ q.frame = w.parser.frame
      /\ q.remaining = w.parser.remaining /\ q.chunk = w.parser.chunk
      /\ q.channels = w.parser.channels /\ q.samples = w.parser.samples
      /\ q.word = w.parser.word /\ q.file = w.parser.file
      /\ q.fmt_seen = w.parser.fmt_seen /\ q.data_seen = w.parser.data_seen
      /\ q.received = w.parser.received + 1 /\ q.crc = ok
  BY <1>3 DEF ParserType
<1> HIDE DEF q, v
<1> QED BY <1>1, <1>5, <1>6, <1>7, Zenon DEF ok

(* ChunkDone moves on to the padding byte or to the next chunk header.     *)
LEMMA ChunkDoneFields ==
  ASSUME NEW p \in ParserType
  PROVE  LET q == ChunkDone(p)
         IN /\ q \in ParserType
            /\ p.chunk % 2 = 1 => q.phase = "PAD"
            /\ p.chunk % 2 # 1 => q.phase = "CHUNK_HEADER"
            /\ q.header = <<>> /\ q.fmt = p.fmt
            /\ q.frame = p.frame /\ q.remaining = p.remaining
            /\ q.chunk = p.chunk /\ q.channels = p.channels
            /\ q.samples = p.samples /\ q.word = p.word /\ q.file = p.file
            /\ q.fmt_seen = p.fmt_seen /\ q.data_seen = p.data_seen
            /\ q.received = p.received /\ q.crc = p.crc
<1> DEFINE ph == IF p.chunk % 2 = 1 THEN "PAD" ELSE "CHUNK_HEADER"
           q == [p EXCEPT !.phase = ph, !.header = <<>>]
<1>1. ChunkDone(p) = q
  BY DEF ChunkDone
<1>2. ph \in Phase /\ <<>> \in Seq(Nat)
  BY DEF Phase
<1>3. /\ p.chunk % 2 = 1 => ph = "PAD"
      /\ p.chunk % 2 # 1 => ph = "CHUNK_HEADER"
  OBVIOUS
<1> HIDE DEF ph
<1>4. q \in ParserType
  BY <1>2 DEF ParserType
<1>5. /\ q.phase = ph /\ q.header = <<>> /\ q.fmt = p.fmt
      /\ q.frame = p.frame /\ q.remaining = p.remaining
      /\ q.chunk = p.chunk /\ q.channels = p.channels
      /\ q.samples = p.samples /\ q.word = p.word /\ q.file = p.file
      /\ q.fmt_seen = p.fmt_seen /\ q.data_seen = p.data_seen
      /\ q.received = p.received /\ q.crc = p.crc
  BY DEF ParserType
<1> HIDE DEF q
<1> QED BY <1>1, <1>3, <1>4, <1>5

-----------------------------------------------------------------------------
(* The effect of one byte in each phase, in terms of the fields.           *)

(* What two states of the parser have in common.                           *)
SameChunk(p, q) == q.remaining = p.remaining /\ q.chunk = p.chunk
SameFormat(p, q) ==
  q.fmt = p.fmt /\ q.channels = p.channels /\ q.fmt_seen = p.fmt_seen
SameData(p, q) ==
  /\ q.frame = p.frame /\ q.samples = p.samples /\ q.word = p.word
  /\ q.data_seen = p.data_seen
SameFile(p, q) == q.file = p.file /\ q.received = p.received /\ q.crc = p.crc

(* A byte that is accepted and leaves the buffer alone.                    *)
Takes(w, r) ==
  /\ r.ok /\ r.wave \in WaveType /\ KeepsUpload(w, r.wave)
  /\ r.wave.bram = w.bram

(* A byte that is refused.                                                 *)
Refuses(w, r) == ~r.ok /\ r.wave \in WaveType /\ KeepsUpload(w, r.wave)

(* A byte is taken with WithParser, and refused with Refused.              *)
LEMMA WithParserTakes ==
  ASSUME NEW w \in WaveType, NEW q \in ParserType, SameFile(w.parser, q)
  PROVE  LET r == WithParser(w, q) IN Takes(w, r) /\ r.wave.parser = q
  BY WithParserKeeps, Zenon DEF Takes, SameFile

LEMMA RefusedRefuses ==
  ASSUME NEW w \in WaveType
  PROVE  Refuses(w, Refused(w))
  BY RefusedKeeps, Zenon DEF Refuses

(* FedPad: the padding byte is passed over.                                *)
LEMMA PadEffect ==
  ASSUME NEW w \in WaveType
  PROVE  LET r == FedPad(w)
             p == w.parser
             q == r.wave.parser
         IN /\ Takes(w, r) /\ q.phase = "CHUNK_HEADER" /\ q.header = <<>>
            /\ SameChunk(p, q) /\ SameFormat(p, q) /\ SameData(p, q)
<1> DEFINE q == [w.parser EXCEPT !.phase = "CHUNK_HEADER", !.header = <<>>]
<1>1. w.parser \in ParserType
  BY WaveFields
<1>2. "CHUNK_HEADER" \in Phase /\ <<>> \in Seq(Nat)
  BY DEF Phase
<1>3. q \in ParserType
  BY <1>1, <1>2 DEF ParserType
<1>4. /\ q.phase = "CHUNK_HEADER" /\ q.header = <<>> /\ SameFile(w.parser, q)
      /\ SameChunk(w.parser, q) /\ SameFormat(w.parser, q)
      /\ SameData(w.parser, q)
  BY <1>1 DEF ParserType, SameFile, SameChunk, SameFormat, SameData
<1>5. FedPad(w) = WithParser(w, q)
  BY DEF FedPad
<1> HIDE DEF q
<1> QED BY <1>3, <1>4, <1>5, WithParserTakes

(* FedSkip: a byte of a chunk that is not looked at.                       *)
LEMMA SkipEffect ==
  ASSUME NEW w \in WaveType, w.parser.remaining # 0
  PROVE  LET r == FedSkip(w)
             p == w.parser
             q == r.wave.parser
         IN /\ Takes(w, r) /\ q.chunk = p.chunk /\ q.remaining = p.remaining - 1
            /\ p.remaining # 1 => q.phase = p.phase /\ q.header = p.header
            /\ p.remaining = 1 =>
                 /\ q.header = <<>>
                 /\ p.chunk % 2 = 1 => q.phase = "PAD"
                 /\ p.chunk % 2 # 1 => q.phase = "CHUNK_HEADER"
            /\ SameFormat(p, q) /\ SameData(p, q)
<1> DEFINE p == w.parser
           p1 == [p EXCEPT !.remaining = @ - 1]
           q == IF p1.remaining = 0 THEN ChunkDone(p1) ELSE p1
<1>1. p \in ParserType /\ p.remaining \in Nat /\ p.remaining - 1 \in Nat
  BY WaveFields, ParserFields
<1>2. FedSkip(w) = WithParser(w, q)
  BY DEF FedSkip
<1> HIDE DEF p
<1>3. p1 \in ParserType
  BY <1>1 DEF ParserType
<1>4. /\ p1.remaining = p.remaining - 1 /\ p1.chunk = p.chunk
      /\ p1.phase = p.phase /\ p1.header = p.header
      /\ SameFile(p, p1) /\ SameFormat(p, p1) /\ SameData(p, p1)
  BY <1>1 DEF ParserType, SameFile, SameFormat, SameData
<1> HIDE DEF p1
<1>5. /\ q \in ParserType /\ q.chunk = p.chunk /\ q.remaining = p.remaining - 1
      /\ p.remaining # 1 => q.phase = p.phase /\ q.header = p.header
      /\ p.remaining = 1 =>
           /\ q.header = <<>>
           /\ p.chunk % 2 = 1 => q.phase = "PAD"
           /\ p.chunk % 2 # 1 => q.phase = "CHUNK_HEADER"
      /\ SameFile(p, q) /\ SameFormat(p, q) /\ SameData(p, q)
  <2>1. CASE p.remaining = 1
    <3>1. q = ChunkDone(p1)
      BY <1>4, <2>1
    <3> HIDE DEF q
    <3> QED BY <1>3, <1>4, <2>1, <3>1, ChunkDoneFields
            DEF SameFile, SameFormat, SameData
  <2>2. CASE p.remaining # 1
    <3>1. q = p1
      BY <1>1, <1>4, <2>2
    <3> HIDE DEF q
    <3> QED BY <1>3, <1>4, <2>2, <3>1
  <2> QED BY <2>1, <2>2
<1> HIDE DEF q
<1> QED BY <1>2, <1>5, WithParserTakes DEF p

(* FedRiff: a byte of the RIFF header; the last one is checked.            *)
LEMMA RiffEffect ==
  ASSUME NEW w \in WaveType, NEW byte \in Nat
  PROVE  LET r == FedRiff(w, byte)
             p == w.parser
             q == r.wave.parser
             header == Append(p.header, byte)
         IN \/ /\ Takes(w, r) /\ q.phase = p.phase /\ q.header = header
               /\ Len(header) < RiffHeader
               /\ SameChunk(p, q) /\ SameFormat(p, q) /\ SameData(p, q)
            \/ Refuses(w, r)
            \/ /\ Takes(w, r) /\ q.phase = "CHUNK_HEADER" /\ q.header = <<>>
               /\ Len(header) >= RiffHeader /\ header[1] = Riff
               /\ header[2] + RiffHeader = Len(p.file.bytes)
               /\ SameChunk(p, q) /\ SameFormat(p, q) /\ SameData(p, q)
<1> DEFINE p == w.parser
           header == Append(p.header, byte)
           p1 == [p EXCEPT !.header = header]
           p2 == [p1 EXCEPT !.phase = "CHUNK_HEADER", !.header = <<>>]
<1>1. p \in ParserType /\ header \in Seq(Nat)
  <2>1. p \in ParserType /\ p.header \in Seq(Nat)
    BY WaveFields, ParserFields
  <2> QED BY <2>1
<1>2. p1 = [w.parser EXCEPT !.header = Append(@, byte)]
  BY <1>1 DEF ParserType
<1>3. FedRiff(w, byte) =
        IF Len(p1.header) < RiffHeader THEN WithParser(w, p1)
        ELSE IF p1.header[1] # Riff
                \/ p1.header[2] + RiffHeader # Len(p1.file.bytes)
             THEN Refused(w) ELSE WithParser(w, p2)
  BY <1>2 DEF FedRiff
<1> HIDE DEF p, header
<1>4. p1 \in ParserType
  BY <1>1 DEF ParserType
<1>5. /\ p1.header = header /\ p1.phase = p.phase /\ p1.file = p.file
      /\ SameFile(p, p1) /\ SameChunk(p, p1) /\ SameFormat(p, p1)
      /\ SameData(p, p1)
  BY <1>1 DEF ParserType, SameFile, SameChunk, SameFormat, SameData
<1>6. "CHUNK_HEADER" \in Phase /\ <<>> \in Seq(Nat)
  BY DEF Phase
<1>7. p2 \in ParserType
  BY <1>4, <1>6 DEF ParserType
<1>8. /\ p2.header = <<>> /\ p2.phase = "CHUNK_HEADER"
      /\ SameFile(p, p2) /\ SameChunk(p, p2) /\ SameFormat(p, p2)
      /\ SameData(p, p2)
  BY <1>1 DEF ParserType, SameFile, SameChunk, SameFormat, SameData
<1> HIDE DEF p1, p2
<1>9. CASE Len(header) < RiffHeader
  <2>1. FedRiff(w, byte) = WithParser(w, p1)
    BY <1>3, <1>5, <1>9
  <2>2. Takes(w, WithParser(w, p1)) /\ WithParser(w, p1).wave.parser = p1
    BY <1>4, <1>5, WithParserTakes DEF p
  <2> QED BY <1>5, <1>9, <2>1, <2>2 DEF p, header
<1>10. CASE /\ ~(Len(header) < RiffHeader)
            /\ header[1] # Riff \/ header[2] + RiffHeader # Len(p.file.bytes)
  <2>1. FedRiff(w, byte) = Refused(w)
    BY <1>3, <1>5, <1>10
  <2> QED BY <2>1, RefusedRefuses
<1>11. CASE /\ ~(Len(header) < RiffHeader) /\ header[1] = Riff
            /\ header[2] + RiffHeader = Len(p.file.bytes)
  <2>1. FedRiff(w, byte) = WithParser(w, p2)
    BY <1>3, <1>5, <1>11
  <2>2. Takes(w, WithParser(w, p2)) /\ WithParser(w, p2).wave.parser = p2
    BY <1>7, <1>8, WithParserTakes DEF p
  <2>3. Len(header) >= RiffHeader
    BY <1>1, <1>11 DEF RiffHeader
  <2> QED BY <1>8, <1>11, <2>1, <2>2, <2>3 DEF p, header
<1> QED BY <1>9, <1>10, <1>11

(* A complete header begins a chunk, in the phase that its kind calls for. *)
ChunkPhase(kind) ==
  IF kind = Fmt THEN "FORMAT" ELSE IF kind = Data THEN "AUDIO_DATA" ELSE "SKIP"

(* The parser behind a header that fits.                                   *)
Entered(p, kind, n) ==
  LET q == [p EXCEPT !.remaining = n, !.chunk = n, !.header = <<>>]
  IN [q EXCEPT !.fmt = IF kind = Fmt THEN <<>> ELSE @,
               !.phase = CASE kind = Fmt  -> "FORMAT"
                           [] kind = Data -> "AUDIO_DATA"
                           [] OTHER       -> "SKIP"]

(* What the header of a chunk that fits makes of the parser.               *)
Announced(p, q, header) ==
  LET kind == header[1]
      n == header[2]
  IN /\ Len(header) = ChunkHeader /\ q.header = <<>>
     /\ n \in Nat /\ q.chunk = n /\ q.remaining = n
     /\ n + (n % 2) <= Len(p.file.bytes) - p.received
     /\ kind = Fmt => ~p.fmt_seen /\ n # 0 /\ q.fmt = <<>>
     /\ kind = Data =>
          p.fmt_seen /\ ~p.data_seen /\ n # 0 /\ q.fmt = p.fmt
     /\ n # 0 => q.phase = ChunkPhase(kind)
     /\ n = 0 => q.phase = "CHUNK_HEADER"
     /\ q.channels = p.channels /\ q.fmt_seen = p.fmt_seen
     /\ SameData(p, q)

(* FedChunk: a byte of a chunk header; the last one enters the chunk.      *)
LEMMA ChunkEffect ==
  ASSUME NEW w \in WaveType, NEW byte \in Nat,
         Len(w.parser.header) < ChunkHeader
  PROVE  LET r == FedChunk(w, byte)
             p == w.parser
             q == r.wave.parser
             header == Append(p.header, byte)
         IN \/ /\ Takes(w, r) /\ q.phase = p.phase /\ q.header = header
               /\ Len(header) < ChunkHeader
               /\ SameChunk(p, q) /\ SameFormat(p, q) /\ SameData(p, q)
            \/ Refuses(w, r)
            \/ Takes(w, r) /\ Announced(p, q, header)
<1> DEFINE p == w.parser
           header == Append(p.header, byte)
           kind == header[1]
           n == header[2]
           fmt == IF kind = Fmt THEN <<>> ELSE p.fmt
           p1 == [p EXCEPT !.header = header]
           p2 == [p1 EXCEPT !.remaining = n, !.chunk = n, !.header = <<>>]
           p3 == [p2 EXCEPT !.fmt = fmt, !.phase = ChunkPhase(kind)]
           p4 == IF n = 0 THEN ChunkDone(p3) ELSE p3
           bad == \/ ~ChunkFits(p1, n)
                  \/ (kind = Fmt /\ ~FormatFits(p1, n))
                  \/ (kind = Data /\ ~DataFits(p1, n))
<1>1. p \in ParserType /\ header \in Seq(Nat) /\ p.fmt \in Seq(Nat)
      /\ Len(header) <= ChunkHeader /\ p.received \in Nat
      /\ p.fmt_seen \in BOOLEAN /\ p.data_seen \in BOOLEAN
  <2>1. p \in ParserType /\ p.header \in Seq(Nat)
    BY WaveFields, ParserFields
  <2>2. header \in Seq(Nat) /\ Len(header) = Len(p.header) + 1
    BY <2>1
  <2> QED BY <2>1, <2>2, ParserFields DEF ChunkHeader
<1>2. p1 = [w.parser EXCEPT !.header = Append(@, byte)]
  BY <1>1 DEF ParserType
<1>3. /\ p1 \in ParserType /\ p1.header = header /\ p1.phase = p.phase
      /\ SameFile(p, p1) /\ SameChunk(p, p1) /\ SameFormat(p, p1)
      /\ SameData(p, p1)
  BY <1>1 DEF ParserType, SameFile, SameChunk, SameFormat, SameData
<1>c. FedChunk(w, byte) =
        CASE Len(p1.header) < ChunkHeader -> WithParser(w, p1)
          [] Len(p1.header) = ChunkHeader
             /\ \/ ~ChunkFits(p1, p1.header[2])
                \/ (p1.header[1] = Fmt /\ ~FormatFits(p1, p1.header[2]))
                \/ (p1.header[1] = Data /\ ~DataFits(p1, p1.header[2]))
             -> Refused(w)
          [] OTHER -> WithParser(w,
               IF p1.header[2] = 0
               THEN ChunkDone(Entered(p1, p1.header[1], p1.header[2]))
               ELSE Entered(p1, p1.header[1], p1.header[2]))
  <2> HIDE DEF p1
  <2> QED BY <1>2 DEF FedChunk, Entered
<1>d. p1.header[1] = kind /\ p1.header[2] = n /\ Len(p1.header) = Len(header)
  BY <1>3
<1>4. CASE Len(header) < ChunkHeader
  <2>1. FedChunk(w, byte) = WithParser(w, p1)
    <3> HIDE DEF p1
    <3> QED BY <1>2, <1>3, <1>4 DEF FedChunk
  <2> HIDE DEF p1
  <2>2. Takes(w, WithParser(w, p1)) /\ WithParser(w, p1).wave.parser = p1
    BY <1>3, WithParserTakes
  <2> QED BY <1>3, <1>4, <2>1, <2>2
<1>5. CASE Len(header) = ChunkHeader /\ bad
  <2>1. FedChunk(w, byte) = Refused(w)
    <3>1. ~(Len(header) < ChunkHeader)
      BY <1>5 DEF ChunkHeader
    <3> HIDE DEF p1, kind, n, header
    <3> QED BY <1>c, <1>d, <1>5, <3>1
  <2> QED BY <2>1, RefusedRefuses
<1>6. CASE Len(header) = ChunkHeader /\ ~bad
  <2>1. FedChunk(w, byte) = WithParser(w, p4)
    <3>1. p2.fmt = p.fmt
      BY <1>1 DEF ParserType
    <3>2. p3 = [p2 EXCEPT !.fmt = IF kind = Fmt THEN <<>> ELSE @,
                          !.phase = CASE kind = Fmt  -> "FORMAT"
                                      [] kind = Data -> "AUDIO_DATA"
                                      [] OTHER       -> "SKIP"]
      <4>1. ChunkPhase(kind) = CASE kind = Fmt  -> "FORMAT"
                                 [] kind = Data -> "AUDIO_DATA"
                                 [] OTHER       -> "SKIP"
        BY DEF ChunkPhase, Fmt, Data
      <4> HIDE DEF kind
      <4> QED BY <3>1, <4>1 DEF ParserType
    <3>3. ~(Len(header) < ChunkHeader)
      BY <1>6 DEF ChunkHeader
    <3>4. Entered(p1, kind, n) = p3
      <4> HIDE DEF p1, kind, n
      <4> QED BY <3>2 DEF Entered
    <3> HIDE DEF p1, kind, n, header, p3
    <3> QED BY <1>c, <1>d, <1>6, <3>3, <3>4
  <2>2. n \in Nat /\ kind \in Nat
    <3>1. 1 \in 1 .. Len(header) /\ 2 \in 1 .. Len(header)
      BY <1>6 DEF ChunkHeader
    <3> QED BY <1>1, <3>1, SMTT(30)
  <2> HIDE DEF n, kind, header
  <2>3. p2 \in ParserType
    <3>1. <<>> \in Seq(Nat) /\ p1 \in ParserType
      BY <1>3
    <3> HIDE DEF p1
    <3> QED BY <2>2, <3>1 DEF ParserType
  <2>4. fmt \in Seq(Nat) /\ ChunkPhase(kind) \in Phase
    BY <1>1 DEF ChunkPhase, Phase
  <2>5. p3 \in ParserType
    <3> HIDE DEF p2, fmt
    <3> QED BY <2>3, <2>4 DEF ParserType
  <2>6. /\ p3.header = <<>> /\ p3.chunk = n /\ p3.remaining = n
        /\ p3.fmt = fmt /\ p3.phase = ChunkPhase(kind)
        /\ p3.channels = p.channels /\ p3.fmt_seen = p.fmt_seen
        /\ SameFile(p, p3) /\ SameData(p, p3)
    <3> HIDE DEF fmt
    <3> QED BY <1>1 DEF ParserType, SameFile, SameData
  <2> HIDE DEF p3
  <2>7. /\ p4 \in ParserType
        /\ p4.header = <<>> /\ p4.chunk = n /\ p4.remaining = n
        /\ p4.fmt = fmt /\ p4.channels = p.channels
        /\ p4.fmt_seen = p.fmt_seen
        /\ n # 0 => p4.phase = ChunkPhase(kind)
        /\ n = 0 => p4.phase = "CHUNK_HEADER"
        /\ SameFile(p, p4) /\ SameData(p, p4)
    <3>1. CASE n = 0
      <4>1. p4 = ChunkDone(p3) /\ n % 2 # 1
        BY <3>1
      <4> QED BY <2>5, <2>6, <3>1, <4>1, ChunkDoneFields DEF SameFile, SameData
    <3>2. CASE n # 0
      BY <2>5, <2>6, <3>2
    <3> QED BY <3>1, <3>2
  <2> HIDE DEF p4
  <2>8. Takes(w, WithParser(w, p4)) /\ WithParser(w, p4).wave.parser = p4
    BY <2>7, WithParserTakes
  <2>9. /\ n + (n % 2) <= Len(p.file.bytes) - p.received
        /\ kind = Fmt => ~p.fmt_seen /\ n # 0
        /\ kind = Data => p.fmt_seen /\ ~p.data_seen /\ n # 0
    <3>1. /\ p1.file = p.file /\ p1.received = p.received
          /\ p1.fmt_seen = p.fmt_seen /\ p1.data_seen = p.data_seen
      BY <1>3 DEF SameFile, SameFormat, SameData
    <3> HIDE DEF p1, p
    <3> QED BY <1>6, <2>2, <3>1
            DEF ChunkFits, FormatFits, DataFits, FormatBytes
  <2>10. /\ kind = Fmt => p4.fmt = <<>>
         /\ kind = Data => p4.fmt = p.fmt
    BY <2>7 DEF Fmt, Data
  <2> HIDE DEF bad, fmt, p2, p1
  <2>11. Announced(p, p4, header)
    BY <1>6, <2>2, <2>7, <2>9, <2>10 DEF Announced, n, kind
  <2> QED BY <2>1, <2>8, <2>11 DEF header
<1>7. Len(header) < ChunkHeader \/ Len(header) = ChunkHeader
  <2>1. \A m \in Nat : m <= ChunkHeader => m < ChunkHeader \/ m = ChunkHeader
    BY DEF ChunkHeader
  <2>2. Len(header) \in Nat
    BY <1>1
  <2> QED BY <1>1, <2>1, <2>2
<1> HIDE DEF bad
<1> QED BY <1>4, <1>5, <1>6, <1>7

(* FedFormat: a byte of the format; the last one gives the channels.       *)
LEMMA FormatEffect ==
  ASSUME NEW w \in WaveType, NEW byte \in Nat, w.parser.remaining # 0
  PROVE  LET r == FedFormat(w, byte)
             p == w.parser
             q == r.wave.parser
             fmt == IF Len(p.fmt) < FormatBytes THEN Append(p.fmt, byte)
                                                ELSE p.fmt
         IN \/ /\ Takes(w, r) /\ p.remaining # 1 /\ q.phase = p.phase
               /\ q.header = p.header /\ q.fmt = fmt
               /\ q.channels = p.channels /\ q.fmt_seen = p.fmt_seen
               /\ q.remaining = p.remaining - 1 /\ q.chunk = p.chunk
               /\ SameData(p, q)
            \/ Refuses(w, r)
            \/ /\ Takes(w, r) /\ p.remaining = 1 /\ q.header = <<>>
               /\ p.chunk % 2 = 1 => q.phase = "PAD"
               /\ p.chunk % 2 # 1 => q.phase = "CHUNK_HEADER"
               /\ q.channels = fmt[1] /\ fmt[1] \in {1, 2} /\ q.fmt_seen
               /\ q.remaining = 0 /\ q.chunk = p.chunk
               /\ SameData(p, q)
<1> DEFINE p == w.parser
           fmt == IF Len(p.fmt) < FormatBytes THEN Append(p.fmt, byte)
                                              ELSE p.fmt
           p1 == [p EXCEPT !.fmt = fmt, !.remaining = p.remaining - 1]
           p2 == [p1 EXCEPT !.channels = p1.fmt[1], !.fmt_seen = TRUE]
<1>1. /\ p \in ParserType /\ p.fmt \in Seq(Nat) /\ p.remaining \in Nat
      /\ p.remaining - 1 \in Nat
  BY WaveFields, ParserFields
<1>2. fmt \in Seq(Nat)
  BY <1>1
<1>3. p1 = [w.parser EXCEPT
              !.fmt = IF Len(@) < FormatBytes THEN Append(@, byte) ELSE @,
              !.remaining = @ - 1]
  BY <1>1 DEF ParserType
<1> HIDE DEF fmt
<1>4. /\ p1 \in ParserType /\ p1.fmt = fmt /\ p1.remaining = p.remaining - 1
      /\ p1.phase = p.phase /\ p1.header = p.header /\ p1.chunk = p.chunk
      /\ p1.channels = p.channels /\ p1.fmt_seen = p.fmt_seen
      /\ SameFile(p, p1) /\ SameData(p, p1)
  BY <1>1, <1>2 DEF ParserType, SameFile, SameData
<1>5. CASE p.remaining # 1
  <2>1. p1.remaining > 0
    BY <1>1, <1>4, <1>5
  <2> HIDE DEF p1
  <2>2. FedFormat(w, byte) = WithParser(w, p1)
    BY <1>3, <2>1 DEF FedFormat
  <2>3. Takes(w, WithParser(w, p1)) /\ WithParser(w, p1).wave.parser = p1
    BY <1>4, WithParserTakes
  <2> QED BY <1>4, <1>5, <2>2, <2>3 DEF fmt
<1>6. CASE p.remaining = 1 /\ fmt[1] \notin {1, 2}
  <2>1. p1.remaining = 0 /\ ~(p1.remaining > 0)
    BY <1>1, <1>4, <1>6
  <2>2. p1.fmt[1] \notin {1, 2}
    BY <1>4, <1>6
  <2> HIDE DEF p1
  <2>3. FedFormat(w, byte) = Refused(w)
    BY <1>3, <2>1, <2>2 DEF FedFormat
  <2> QED BY <2>3, RefusedRefuses
<1>7. CASE p.remaining = 1 /\ fmt[1] \in {1, 2}
  <2>1. p1.remaining = 0 /\ ~(p1.remaining > 0)
    BY <1>1, <1>4, <1>7
  <2>2. p1.fmt[1] \in {1, 2}
    BY <1>4, <1>7
  <2>3. FedFormat(w, byte) = WithParser(w, ChunkDone(p2))
    <3> HIDE DEF p1
    <3> QED BY <1>3, <2>1, <2>2 DEF FedFormat
  <2>4. p1.fmt[1] \in Nat
    BY <2>2
  <2>5. p2 \in ParserType
    <3> HIDE DEF p1
    <3> QED BY <1>4, <2>4 DEF ParserType
  <2>6. /\ p2.fmt = fmt /\ p2.remaining = p.remaining - 1
        /\ p2.chunk = p.chunk /\ p2.channels = fmt[1] /\ p2.fmt_seen = TRUE
        /\ SameFile(p, p2) /\ SameData(p, p2)
    <3>1. /\ p2.fmt = p1.fmt /\ p2.remaining = p1.remaining
          /\ p2.chunk = p1.chunk /\ p2.channels = p1.fmt[1]
          /\ p2.fmt_seen = TRUE /\ SameFile(p1, p2) /\ SameData(p1, p2)
      <4> HIDE DEF p1
      <4> QED BY <1>4 DEF ParserType, SameFile, SameData
    <3> HIDE DEF p1, p2
    <3> QED BY <1>4, <3>1 DEF SameFile, SameData
  <2> DEFINE q == ChunkDone(p2)
  <2> HIDE DEF p1, p2
  <2>7. /\ q \in ParserType /\ q.header = <<>>
        /\ p.chunk % 2 = 1 => q.phase = "PAD"
        /\ p.chunk % 2 # 1 => q.phase = "CHUNK_HEADER"
        /\ q.channels = fmt[1] /\ q.fmt_seen = TRUE
        /\ q.remaining = p.remaining - 1 /\ q.chunk = p.chunk
        /\ SameFile(p, q) /\ SameData(p, q)
    BY <2>5, <2>6, ChunkDoneFields DEF SameFile, SameData
  <2> HIDE DEF q
  <2>8. Takes(w, WithParser(w, q)) /\ WithParser(w, q).wave.parser = q
    BY <2>7, WithParserTakes
  <2>9. p.remaining - 1 = 0
    BY <1>7
  <2> QED BY <1>7, <2>3, <2>7, <2>8, <2>9 DEF fmt, q
<1> QED BY <1>5, <1>6, <1>7

(* BramWritten changes the two words of its pair only.                     *)
LEMMA BramWrittenFields ==
  ASSUME NEW bram \in Buffer, NEW pair \in Nat,
         NEW first \in Sample, NEW second \in Sample
  PROVE  LET b == BramWritten(bram, pair, first, second)
         IN /\ b \in Buffer
            /\ \A i \in 0 .. Capacity - 1 :
                 /\ i = 2 * pair => b[i].pcm = first
                 /\ i = 2 * pair + 1 => b[i].pcm = second
                 /\ i # 2 * pair /\ i # 2 * pair + 1 => b[i] = bram[i]
<1> DEFINE Word(i) == IF i = 2 * pair THEN [pcm |-> first, out |-> first]
                      ELSE IF i = 2 * pair + 1
                           THEN [pcm |-> second, out |-> second] ELSE bram[i]
           b == [i \in 0 .. Capacity - 1 |-> Word(i)]
<1>1. DOMAIN bram = 0 .. Capacity - 1
  BY DEF Buffer
<1>2. \A i \in 0 .. Capacity - 1 :
        (CASE i = 2 * pair     -> [pcm |-> first, out |-> first]
           [] i = 2 * pair + 1 -> [pcm |-> second, out |-> second]
           [] OTHER            -> bram[i]) = Word(i)
  OBVIOUS
<1>3. BramWritten(bram, pair, first, second) = b
  <2> HIDE DEF Word
  <2> QED BY <1>1, <1>2 DEF BramWritten
<1>4. \A i \in 0 .. Capacity - 1 : Word(i) \in [pcm : Sample, out : Sample]
  <2> TAKE i \in 0 .. Capacity - 1
  <2>1. bram[i] \in [pcm : Sample, out : Sample]
    BY DEF Buffer
  <2> QED BY <2>1
<1>5. b \in Buffer
  <2> HIDE DEF Word
  <2> QED BY <1>4 DEF Buffer
<1>6. \A i \in 0 .. Capacity - 1 :
        /\ i = 2 * pair => b[i].pcm = first
        /\ i = 2 * pair + 1 => b[i].pcm = second
        /\ i # 2 * pair /\ i # 2 * pair + 1 => b[i] = bram[i]
  OBVIOUS
<1> HIDE DEF b
<1> QED BY <1>3, <1>5, <1>6

(* A frame that is complete becomes a sample.                              *)
Emitted(w, v, frame) ==
  LET p == w.parser
      q == v.parser
  IN /\ p.samples < Capacity /\ q.samples = p.samples + 1 /\ q.frame = <<>>
     /\ p.samples % 2 # 1 => v.bram = w.bram /\ q.word = Mean(frame)
     /\ p.samples % 2 = 1 =>
          /\ v.bram = BramWritten(w.bram, p.samples \div 2, p.word, Mean(frame))
          /\ q.word = p.word

(* EmittedFrame adds one sample, in the buffer or waiting for its pair.    *)
LEMMA EmitEffect ==
  ASSUME NEW w \in WaveType, NEW idle, Len(w.parser.frame) \in {1, 2}
  PROVE  LET r == EmittedFrame(w, idle)
             p == w.parser
             q == r.wave.parser
         IN \/ Refuses(w, r)
            \/ /\ r.ok /\ r.wave \in WaveType /\ KeepsUpload(w, r.wave)
               /\ q.phase = p.phase /\ q.header = p.header
               /\ SameChunk(p, q) /\ SameFormat(p, q)
               /\ q.data_seen = p.data_seen
               /\ Emitted(w, r.wave, p.frame)
<1> DEFINE p == w.parser
           pcm == Mean(p.frame)
           odd == p.samples % 2 = 1
           word == IF odd THEN p.word ELSE pcm
           bram == IF odd THEN BramWritten(w.bram, p.samples \div 2, p.word, pcm)
                          ELSE w.bram
           q == [p EXCEPT !.samples = p.samples + 1, !.frame = <<>>, !.word = word]
           v == [w EXCEPT !.parser = q, !.bram = bram]
<1>1. /\ p \in ParserType /\ p.frame \in Seq(Nat) /\ p.samples \in 0 .. Capacity
      /\ p.word \in Sample /\ w.bram \in Buffer
  BY WaveFields, ParserFields
<1>2. pcm \in Sample
  BY <1>1, MeanSample
<1>3. CASE p.samples >= Capacity \/ (odd /\ ~idle)
  <2>1. EmittedFrame(w, idle) = Refused(w)
    BY <1>3 DEF EmittedFrame
  <2> QED BY <2>1, RefusedRefuses
<1>4. CASE ~(p.samples >= Capacity \/ (odd /\ ~idle))
  <2>1. [w EXCEPT !.parser.samples = @ + 1, !.parser.frame = <<>>,
                  !.parser.word = IF odd THEN @ ELSE pcm,
                  !.bram = IF odd
                           THEN BramWritten(@, p.samples \div 2, p.word, pcm)
                           ELSE @] = v
    <3> HIDE DEF odd, pcm
    <3> QED BY <1>1 DEF WaveType, ParserType
  <2>2. EmittedFrame(w, idle) = Accepted(v)
    <3> HIDE DEF v
    <3> QED BY <1>4, <2>1 DEF EmittedFrame
  <2>3. EmittedFrame(w, idle).ok /\ EmittedFrame(w, idle).wave = v
    <3> HIDE DEF v
    <3> QED BY <2>2 DEF Accepted
  <2> HIDE DEF pcm
  <2>4. word \in Sample
    BY <1>1, <1>2
  <2>5. bram \in Buffer
    <3>1. p.samples \div 2 \in Nat
      BY <1>1, WaveformAssumption
    <3> QED BY <1>1, <1>2, <3>1, BramWrittenFields
  <2>6. p.samples < Capacity /\ p.samples + 1 \in 0 .. Capacity
    BY <1>1, <1>4, WaveformAssumption
  <2>7. /\ odd => word = p.word /\ bram = BramWritten(w.bram, p.samples \div 2, p.word, pcm)
        /\ ~odd => word = pcm /\ bram = w.bram
    OBVIOUS
  <2> HIDE DEF word, bram, odd
  <2>8. q \in ParserType
    <3>1. <<>> \in Seq(Nat) /\ p \in ParserType
      BY <1>1
    <3> HIDE DEF p
    <3> QED BY <2>4, <2>6, <3>1 DEF ParserType
  <2>9. /\ q.samples = p.samples + 1 /\ q.frame = <<>> /\ q.word = word
        /\ q.phase = p.phase /\ q.header = p.header
        /\ SameChunk(p, q) /\ SameFormat(p, q) /\ SameFile(p, q)
        /\ q.data_seen = p.data_seen
    BY <1>1 DEF ParserType, SameChunk, SameFormat, SameFile
  <2> HIDE DEF q
  <2>10. v \in WaveType /\ v.parser = q /\ v.bram = bram
    BY <2>5, <2>8 DEF WaveType
  <2>11. KeepsUpload(w, v)
    BY <2>8, <2>9 DEF WaveType, KeepsUpload, SameFile
  <2> HIDE DEF v
  <2>12. Emitted(w, v, p.frame)
    BY <2>6, <2>7, <2>9, <2>10, Zenon DEF Emitted, odd, pcm
  <2> QED BY <2>3, <2>9, <2>10, <2>11, <2>12
<1> QED BY <1>3, <1>4

(* FedData: a byte of the samples, which may complete a frame.             *)
LEMMA DataEffect ==
  ASSUME NEW w \in WaveType, NEW byte \in Nat, NEW idle,
         w.parser.remaining # 0, w.parser.channels \in {1, 2}
  PROVE  LET r == FedData(w, byte, idle)
             p == w.parser
             q == r.wave.parser
             frame == Append(p.frame, byte)
         IN \/ Refuses(w, r)
            \/ /\ r.ok /\ r.wave \in WaveType /\ KeepsUpload(w, r.wave)
               /\ SameFormat(p, q) /\ q.chunk = p.chunk
               /\ q.remaining = p.remaining - 1
               /\ Len(frame) = p.channels => Emitted(w, r.wave, frame)
               /\ Len(frame) # p.channels =>
                    /\ r.wave.bram = w.bram /\ q.frame = frame
                    /\ q.samples = p.samples /\ q.word = p.word
               /\ p.remaining # 1 =>
                    /\ q.phase = p.phase /\ q.header = p.header
                    /\ q.data_seen = p.data_seen
               /\ p.remaining = 1 =>
                    /\ q.header = <<>> /\ q.data_seen
                    /\ p.chunk % 2 = 1 => q.phase = "PAD"
                    /\ p.chunk % 2 # 1 => q.phase = "CHUNK_HEADER"
<1> DEFINE p == w.parser
           frame == Append(p.frame, byte)
           p1 == [p EXCEPT !.frame = frame]
           g == [w EXCEPT !.parser = p1]
           r == IF Len(g.parser.frame) = g.parser.channels
                THEN EmittedFrame(g, idle) ELSE Accepted(g)
<1>1. p \in ParserType /\ p.frame \in Seq(Nat) /\ frame \in Seq(Nat)
      /\ p.remaining \in Nat /\ p.remaining - 1 \in Nat
  <2>1. p \in ParserType /\ p.frame \in Seq(Nat) /\ p.remaining \in Nat
    BY WaveFields, ParserFields
  <2> QED BY <2>1
<1>2. [w EXCEPT !.parser.frame = Append(@, byte)] = g
  BY <1>1, SMTT(30) DEF WaveType, ParserType
<1>3. FedData(w, byte, idle) =
        LET p2 == [r.wave.parser EXCEPT !.remaining = @ - 1]
        IN CASE ~r.ok -> r
             [] r.ok /\ p2.remaining > 0 -> WithParser(r.wave, p2)
             [] OTHER -> WithParser(r.wave, ChunkDone([p2 EXCEPT !.data_seen = TRUE]))
  <2> HIDE DEF g
  <2> QED BY <1>2 DEF FedData
<1>4. /\ p1 \in ParserType /\ p1.frame = frame /\ p1.channels = p.channels
      /\ p1.phase = p.phase /\ p1.header = p.header /\ p1.samples = p.samples
      /\ p1.word = p.word /\ p1.data_seen = p.data_seen
      /\ SameFile(p, p1) /\ SameChunk(p, p1) /\ SameFormat(p, p1)
  <2> HIDE DEF frame
  <2> QED BY <1>1 DEF ParserType, SameFile, SameChunk, SameFormat
<1> HIDE DEF p1
<1>5. g \in WaveType /\ g.parser = p1 /\ g.bram = w.bram
  BY <1>4 DEF WaveType
<1>6. KeepsUpload(w, g)
  BY <1>4, <1>5 DEF WaveType, KeepsUpload, SameFile
<1> HIDE DEF g
<1>7. \/ ~r.ok /\ r.wave \in WaveType /\ KeepsUpload(w, r.wave)
      \/ /\ r.ok /\ r.wave \in WaveType /\ KeepsUpload(w, r.wave)
         /\ r.wave.parser.phase = p.phase /\ r.wave.parser.header = p.header
         /\ SameChunk(p, r.wave.parser) /\ SameFormat(p, r.wave.parser)
         /\ r.wave.parser.data_seen = p.data_seen
         /\ Len(frame) = p.channels => Emitted(w, r.wave, frame)
         /\ Len(frame) # p.channels =>
              /\ r.wave.bram = w.bram /\ r.wave.parser.frame = frame
              /\ r.wave.parser.samples = p.samples
              /\ r.wave.parser.word = p.word
  <2>1. CASE Len(frame) = p.channels
    <3>1. r = EmittedFrame(g, idle) /\ Len(g.parser.frame) \in {1, 2}
      BY <1>4, <1>5, <2>1
    <3> HIDE DEF r
    <3>2. CASE Refuses(g, r)
      BY <1>6, <3>2 DEF Refuses, KeepsUpload
    <3>3. CASE /\ r.ok /\ r.wave \in WaveType /\ KeepsUpload(g, r.wave)
               /\ r.wave.parser.phase = p1.phase
               /\ r.wave.parser.header = p1.header
               /\ SameChunk(p1, r.wave.parser) /\ SameFormat(p1, r.wave.parser)
               /\ r.wave.parser.data_seen = p1.data_seen
               /\ Emitted(g, r.wave, p1.frame)
      <4>1. Emitted(w, r.wave, frame)
        <5> HIDE DEF frame
        <5> QED BY <1>4, <1>5, <3>3 DEF Emitted
      <4>2. KeepsUpload(w, r.wave)
        BY <1>6, <3>3 DEF KeepsUpload
      <4>3. SameChunk(p, r.wave.parser) /\ SameFormat(p, r.wave.parser)
        BY <1>4, <3>3 DEF SameChunk, SameFormat
      <4> HIDE DEF frame
      <4> QED BY <1>4, <2>1, <3>3, <4>1, <4>2, <4>3
    <3> QED BY <1>5, <3>1, <3>2, <3>3, EmitEffect
  <2>2. CASE Len(frame) # p.channels
    <3>1. r = Accepted(g)
      BY <1>4, <1>5, <2>2
    <3>2. r.ok /\ r.wave = g
      BY <3>1 DEF Accepted
    <3> HIDE DEF r, frame
    <3> QED BY <1>4, <1>5, <1>6, <2>2, <3>2
  <2> QED BY <2>1, <2>2
<1> DEFINE p2 == [r.wave.parser EXCEPT !.remaining = @ - 1]
           p3 == [p2 EXCEPT !.data_seen = TRUE]
<1> HIDE DEF r
<1>8. CASE ~r.ok
  <2>1. FedData(w, byte, idle) = r
    BY <1>3, <1>8
  <2> QED BY <1>7, <1>8, <2>1 DEF Refuses
<1>9. CASE r.ok
  <2>1. /\ r.wave \in WaveType /\ r.wave.parser \in ParserType
        /\ r.wave.parser.remaining = p.remaining
    BY <1>7, <1>9, WaveFields DEF SameChunk
  <2>2. p2 = [r.wave.parser EXCEPT !.remaining = p.remaining - 1]
    BY <2>1
  <2>3. p2 \in ParserType
    BY <1>1, <2>1, <2>2 DEF ParserType
  <2>4. /\ p2.remaining = p.remaining - 1 /\ p2.chunk = r.wave.parser.chunk
        /\ p2.phase = r.wave.parser.phase /\ p2.header = r.wave.parser.header
        /\ SameFile(r.wave.parser, p2) /\ SameFormat(r.wave.parser, p2)
        /\ SameData(r.wave.parser, p2)
    BY <2>1, <2>2 DEF ParserType, SameFile, SameFormat, SameData
  <2> HIDE DEF p2
  <2>5. CASE p.remaining # 1
    <3>1. p2.remaining > 0
      BY <1>1, <2>4, <2>5
    <3>2. FedData(w, byte, idle) = WithParser(r.wave, p2)
      BY <1>3, <1>9, <3>1 DEF p2
    <3>3. Takes(r.wave, WithParser(r.wave, p2))
          /\ WithParser(r.wave, p2).wave.parser = p2
      BY <2>1, <2>3, <2>4, WithParserTakes
    <3> DEFINE v == WithParser(r.wave, p2).wave
    <3>4. /\ WithParser(r.wave, p2).ok /\ v \in WaveType /\ v.bram = r.wave.bram
          /\ KeepsUpload(r.wave, v) /\ v.parser = p2
      BY <3>3 DEF Takes
    <3> HIDE DEF v
    <3>5. KeepsUpload(w, v) /\ SameFormat(p, v.parser) /\ v.parser.chunk = p.chunk
      BY <1>7, <1>9, <2>4, <3>4 DEF KeepsUpload, SameFormat, SameChunk
    <3>6. /\ Len(frame) = p.channels => Emitted(w, v, frame)
          /\ Len(frame) # p.channels =>
               /\ v.bram = w.bram /\ v.parser.frame = frame
               /\ v.parser.samples = p.samples /\ v.parser.word = p.word
      <4> HIDE DEF frame
      <4> QED BY <1>7, <1>9, <2>4, <3>4 DEF Emitted, SameData
    <3>7. /\ v.parser.remaining = p.remaining - 1 /\ v.parser.phase = p.phase
          /\ v.parser.header = p.header /\ v.parser.data_seen = p.data_seen
      BY <1>7, <1>9, <2>4, <3>4 DEF SameData
    <3> QED BY <2>5, <3>2, <3>4, <3>5, <3>6, <3>7 DEF v
  <2>6. CASE p.remaining = 1
    <3>1. ~(p2.remaining > 0)
      BY <1>1, <2>4, <2>6
    <3>2. FedData(w, byte, idle) = WithParser(r.wave, ChunkDone(p3))
      BY <1>3, <1>9, <3>1 DEF p2
    <3>3. p3 \in ParserType
      BY <2>3 DEF ParserType
    <3>4. /\ p3.remaining = p2.remaining /\ p3.chunk = p2.chunk
          /\ p3.frame = p2.frame /\ p3.samples = p2.samples
          /\ p3.word = p2.word /\ p3.data_seen = TRUE
          /\ SameFile(p2, p3) /\ SameFormat(p2, p3)
      BY <2>3 DEF ParserType, SameFile, SameFormat
    <3> DEFINE q == ChunkDone(p3)
    <3> HIDE DEF p3
    <3>5. /\ q \in ParserType /\ q.header = <<>> /\ q.data_seen = TRUE
          /\ p3.chunk % 2 = 1 => q.phase = "PAD"
          /\ p3.chunk % 2 # 1 => q.phase = "CHUNK_HEADER"
          /\ q.remaining = p2.remaining /\ q.chunk = p2.chunk
          /\ q.frame = p2.frame /\ q.samples = p2.samples /\ q.word = p2.word
          /\ SameFile(p2, q) /\ SameFormat(p2, q)
      BY <3>3, <3>4, ChunkDoneFields DEF SameFile, SameFormat
    <3> HIDE DEF q
    <3>6. SameFile(r.wave.parser, q)
      BY <2>4, <3>5 DEF SameFile
    <3> DEFINE v == WithParser(r.wave, q).wave
    <3>7. /\ WithParser(r.wave, q).ok /\ v \in WaveType /\ v.bram = r.wave.bram
          /\ KeepsUpload(r.wave, v) /\ v.parser = q
      BY <2>1, <3>5, <3>6, WithParserTakes DEF Takes
    <3> HIDE DEF v
    <3>8. KeepsUpload(w, v) /\ SameFormat(p, v.parser) /\ v.parser.chunk = p.chunk
      BY <1>7, <1>9, <2>4, <3>5, <3>7 DEF KeepsUpload, SameFormat, SameChunk
    <3>9. /\ Len(frame) = p.channels => Emitted(w, v, frame)
          /\ Len(frame) # p.channels =>
               /\ v.bram = w.bram /\ v.parser.frame = frame
               /\ v.parser.samples = p.samples /\ v.parser.word = p.word
      <4> HIDE DEF frame
      <4> QED BY <1>7, <1>9, <2>4, <3>5, <3>7 DEF Emitted, SameData
    <3>10. /\ v.parser.remaining = p.remaining - 1 /\ v.parser.header = <<>>
           /\ v.parser.data_seen = TRUE /\ p3.chunk = p.chunk
      BY <1>7, <1>9, <2>4, <3>4, <3>5, <3>7 DEF SameChunk
    <3>11. /\ p.chunk % 2 = 1 => v.parser.phase = "PAD"
           /\ p.chunk % 2 # 1 => v.parser.phase = "CHUNK_HEADER"
      BY <3>5, <3>7, <3>10
    <3> QED BY <2>6, <3>2, <3>7, <3>8, <3>9, <3>10, <3>11 DEF v, q
  <2> QED BY <2>5, <2>6
<1> QED BY <1>8, <1>9

-----------------------------------------------------------------------------
(* One byte, as a step from w to v: p and q are the parser before and      *)
(* after it.                                                               *)

(* The last byte of a chunk.                                               *)
ChunkEnds(p, q) ==
  /\ q.header = <<>>
  /\ p.chunk % 2 = 1 => q.phase = "PAD"
  /\ p.chunk % 2 # 1 => q.phase = "CHUNK_HEADER"

(* A byte that does not complete a header.                                 *)
HeaderGrows(p, q, byte) ==
  /\ q.phase = p.phase /\ q.header = Append(p.header, byte)
  /\ SameChunk(p, q) /\ SameFormat(p, q) /\ SameData(p, q)

(* The kinds of bytes: of the RIFF header, of a chunk header, the last one *)
(* of a chunk header, of the format, of a skipped chunk, a padding byte,   *)
(* and a byte of the samples.                                              *)
RiffStep(p, q, byte) ==
  LET header == Append(p.header, byte)
  IN /\ p.phase = "RIFF_HEADER"
     /\ \/ HeaderGrows(p, q, byte) /\ Len(header) < RiffHeader
        \/ /\ q.phase = "CHUNK_HEADER" /\ q.header = <<>>
           /\ Len(header) >= RiffHeader /\ header[1] = Riff
           /\ header[2] + RiffHeader = Len(p.file.bytes)
           /\ SameChunk(p, q) /\ SameFormat(p, q) /\ SameData(p, q)

HeaderStep(p, q, byte) ==
  LET header == Append(p.header, byte)
  IN p.phase = "CHUNK_HEADER" /\ HeaderGrows(p, q, byte)
     /\ Len(header) < ChunkHeader

EnterStep(p, q, byte) ==
  LET header == Append(p.header, byte)
      kind == header[1]
      n == header[2]
  IN /\ p.phase = "CHUNK_HEADER" /\ Len(header) = ChunkHeader
     /\ q.header = <<>> /\ n \in Nat /\ q.chunk = n /\ q.remaining = n
     /\ n + (n % 2) <= Len(p.file.bytes) - (p.received + 1)
     /\ kind = Fmt => ~p.fmt_seen /\ n # 0 /\ q.fmt = <<>>
     /\ kind = Data => p.fmt_seen /\ ~p.data_seen /\ n # 0 /\ q.fmt = p.fmt
     /\ n # 0 => q.phase = ChunkPhase(kind)
     /\ n = 0 => q.phase = "CHUNK_HEADER"
     /\ q.channels = p.channels /\ q.fmt_seen = p.fmt_seen
     /\ SameData(p, q)

FormatStep(p, q, byte) ==
  LET fmt == IF Len(p.fmt) < FormatBytes THEN Append(p.fmt, byte) ELSE p.fmt
  IN /\ p.phase = "FORMAT" /\ q.chunk = p.chunk
     /\ q.remaining = p.remaining - 1 /\ SameData(p, q)
     /\ p.remaining # 1 =>
          /\ q.phase = p.phase /\ q.fmt = fmt
          /\ q.channels = p.channels /\ q.fmt_seen = p.fmt_seen
     /\ p.remaining = 1 =>
          /\ ChunkEnds(p, q)
          /\ q.channels = fmt[1] /\ fmt[1] \in {1, 2} /\ q.fmt_seen

SkipStep(p, q) ==
  /\ p.phase = "SKIP" /\ q.chunk = p.chunk /\ q.remaining = p.remaining - 1
  /\ p.remaining # 1 => q.phase = p.phase
  /\ p.remaining = 1 => ChunkEnds(p, q)
  /\ SameFormat(p, q) /\ SameData(p, q)

PadStep(p, q) ==
  /\ p.phase = "PAD" /\ q.phase = "CHUNK_HEADER" /\ q.header = <<>>
  /\ SameChunk(p, q) /\ SameFormat(p, q) /\ SameData(p, q)

DataStep(w, v, byte) ==
  LET p == w.parser
      q == v.parser
      frame == Append(p.frame, byte)
  IN /\ p.phase = "AUDIO_DATA" /\ q.chunk = p.chunk
     /\ q.remaining = p.remaining - 1 /\ SameFormat(p, q)
     /\ Len(frame) = p.channels => Emitted(w, v, frame)
     /\ Len(frame) # p.channels =>
          /\ v.bram = w.bram /\ q.frame = frame
          /\ q.samples = p.samples /\ q.word = p.word
     /\ p.remaining # 1 => q.phase = p.phase /\ q.data_seen = p.data_seen
     /\ p.remaining = 1 => ChunkEnds(p, q) /\ q.data_seen

(* A byte that is accepted.                                                *)
ByteStep(w, v, byte) ==
  LET p == w.parser
      q == v.parser
  IN \/ /\ v.bram = w.bram
        /\ \/ RiffStep(p, q, byte) \/ HeaderStep(p, q, byte)
           \/ EnterStep(p, q, byte) \/ FormatStep(p, q, byte)
           \/ SkipStep(p, q) \/ PadStep(p, q)
     \/ DataStep(w, v, byte)

(* What a byte does whether it is accepted or not.                         *)
Counted(w, v, byte) ==
  /\ v \in WaveType
  /\ v.current_id = w.current_id /\ v.next_id = w.next_id
  /\ v.current_samples = w.current_samples
  /\ v.uploading = w.uploading /\ v.locked = w.locked
  /\ v.parser.file = w.parser.file
  /\ v.parser.received = w.parser.received + 1
  /\ v.parser.crc <=>
       w.parser.crc
         /\ byte = w.parser.file.bytes[w.parser.received + 1]

(* Which phase and lengths go together, of any file.                       *)
Control(p) ==
  /\ p.received <= Len(p.file.bytes)
  /\ p.phase = "RIFF_HEADER" =>
       /\ Len(p.header) = p.received /\ Len(p.header) < RiffHeader
       /\ ~p.fmt_seen /\ ~p.data_seen
  /\ p.phase = "CHUNK_HEADER" => Len(p.header) < ChunkHeader
  /\ p.phase \in {"FORMAT", "AUDIO_DATA", "SKIP"} => p.remaining # 0
  /\ p.phase = "FORMAT" => ~p.fmt_seen
  /\ p.phase = "AUDIO_DATA" =>
       p.fmt_seen /\ ~p.data_seen /\ Len(p.frame) < p.channels
  /\ p.phase # "AUDIO_DATA" /\ ~p.data_seen => p.samples = 0 /\ p.frame = <<>>
  /\ p.fmt_seen => p.channels \in {1, 2}
  /\ p.data_seen => p.fmt_seen

(* A byte that is accepted is one of these, and every byte is counted.     *)
LEMMA FedByteStep ==
  ASSUME NEW w \in WaveType, NEW byte \in Nat, NEW idle, Control(w.parser)
  PROVE  LET r == FedByte(w, byte, idle)
         IN /\ Counted(w, r.wave, byte)
            /\ r.ok => ByteStep(w, r.wave, byte)
<1> DEFINE b == Bump(w, byte)
           p == w.parser
           a == b.parser
           r == FedByte(w, byte, idle)
           q == r.wave.parser
<1> SUFFICES /\ Counted(w, r.wave, byte)
             /\ r.ok => ByteStep(w, r.wave, byte)
  OBVIOUS
<1>1. r = Fed(b, byte, idle)
  BY DEF FedByte, Bump
<1>2. /\ b \in WaveType
      /\ b.current_id = w.current_id /\ b.next_id = w.next_id
      /\ b.current_samples = w.current_samples
      /\ b.uploading = w.uploading /\ b.locked = w.locked
      /\ b.bram = w.bram
  BY BumpFields, Zenon
<1>3. /\ a.phase = p.phase /\ a.header = p.header /\ a.fmt = p.fmt
      /\ a.frame = p.frame /\ a.remaining = p.remaining
      /\ a.chunk = p.chunk /\ a.channels = p.channels
      /\ a.samples = p.samples /\ a.word = p.word /\ a.file = p.file
      /\ a.fmt_seen = p.fmt_seen /\ a.data_seen = p.data_seen
      /\ a.received = p.received + 1
      /\ a.crc <=> p.crc /\ byte = p.file.bytes[p.received + 1]
  BY BumpFields, Zenon
<1> HIDE DEF b, r
<1>4. ASSUME r.wave \in WaveType, KeepsUpload(b, r.wave)
      PROVE  Counted(w, r.wave, byte)
  BY <1>2, <1>3, <1>4, Zenon DEF KeepsUpload, Counted
<1>5. ASSUME Refuses(b, r)
      PROVE  Counted(w, r.wave, byte) /\ ~r.ok
  BY <1>4, <1>5 DEF Refuses
<1>6. ASSUME Takes(b, r)
      PROVE  Counted(w, r.wave, byte) /\ r.wave.bram = w.bram
  BY <1>2, <1>4, <1>6 DEF Takes
<1>7. p.phase \in Phase /\ p \in ParserType
  BY WaveFields, ParserFields
<1>e. /\ SameChunk(a, q) <=> SameChunk(p, q)
      /\ SameFormat(a, q) <=> SameFormat(p, q)
      /\ SameData(a, q) <=> SameData(p, q)
  BY <1>3 DEF SameChunk, SameFormat, SameData
<1>8. CASE p.phase = "RIFF_HEADER"
  <2>1. r = FedRiff(b, byte)
    BY <1>1, <1>3, <1>8 DEF Fed
  <2>2. CASE Takes(b, r)
    <3>1. RiffStep(p, q, byte)
      <4> DEFINE header == Append(p.header, byte)
      <4>1. ~Refuses(b, r)
        BY <2>2 DEF Refuses, Takes
      <4>2. \/ /\ q.phase = a.phase /\ q.header = Append(a.header, byte)
               /\ Len(Append(a.header, byte)) < RiffHeader
               /\ SameChunk(a, q) /\ SameFormat(a, q) /\ SameData(a, q)
            \/ /\ q.phase = "CHUNK_HEADER" /\ q.header = <<>>
               /\ Len(Append(a.header, byte)) >= RiffHeader
               /\ Append(a.header, byte)[1] = Riff
               /\ Append(a.header, byte)[2] + RiffHeader = Len(a.file.bytes)
               /\ SameChunk(a, q) /\ SameFormat(a, q) /\ SameData(a, q)
        BY <1>2, <2>1, <4>1, RiffEffect, Zenon
      <4>3. Append(a.header, byte) = header
        BY <1>3
      <4> HIDE DEF p, a, q, header
      <4>4. \/ HeaderGrows(p, q, byte) /\ Len(header) < RiffHeader
            \/ /\ q.phase = "CHUNK_HEADER" /\ q.header = <<>>
               /\ Len(header) >= RiffHeader /\ header[1] = Riff
               /\ header[2] + RiffHeader = Len(p.file.bytes)
               /\ SameChunk(p, q) /\ SameFormat(p, q) /\ SameData(p, q)
        BY <1>3, <1>e, <4>2, <4>3, Zenon DEF HeaderGrows, header
      <4> QED BY <1>8, <4>4, Zenon DEF RiffStep, header
    <3> QED BY <1>6, <2>2, <3>1 DEF ByteStep
  <2>3. CASE Refuses(b, r)
    BY <1>5, <2>3
  <2> QED BY <1>2, <2>1, <2>2, <2>3, RiffEffect
<1>9. CASE p.phase = "CHUNK_HEADER"
  <2>1. r = FedChunk(b, byte) /\ Len(a.header) < ChunkHeader
    BY <1>1, <1>3, <1>9 DEF Fed, Control
  <2>2. CASE Takes(b, r)
    <3>1. HeaderStep(p, q, byte) \/ EnterStep(p, q, byte)
      <4> DEFINE header == Append(p.header, byte)
                 kind == header[1]
                 n == header[2]
                 head == Append(a.header, byte)
      <4>1. ~Refuses(b, r)
        BY <2>2 DEF Refuses, Takes
      <4>2. \/ /\ q.phase = a.phase /\ q.header = head
               /\ Len(head) < ChunkHeader
               /\ SameChunk(a, q) /\ SameFormat(a, q) /\ SameData(a, q)
            \/ Announced(a, q, head)
        BY <1>2, <2>1, <4>1, ChunkEffect
      <4>3. head = header
        BY <1>3
      <4>5. a.received = p.received + 1
        BY <1>3
      <4> HIDE DEF p, a, q, header, head
      <4>4. \/ HeaderGrows(p, q, byte) /\ Len(header) < ChunkHeader
            \/ /\ Len(header) = ChunkHeader /\ q.header = <<>>
               /\ n \in Nat /\ q.chunk = n /\ q.remaining = n
               /\ n + (n % 2) <= Len(p.file.bytes) - (p.received + 1)
               /\ kind = Fmt => ~p.fmt_seen /\ n # 0 /\ q.fmt = <<>>
               /\ kind = Data =>
                    p.fmt_seen /\ ~p.data_seen /\ n # 0 /\ q.fmt = p.fmt
               /\ n # 0 => q.phase = ChunkPhase(kind)
               /\ n = 0 => q.phase = "CHUNK_HEADER"
               /\ q.channels = p.channels /\ q.fmt_seen = p.fmt_seen
               /\ SameData(p, q)
        BY <1>3, <1>e, <4>2, <4>3, <4>5 DEF HeaderGrows, Announced, header
      <4> QED BY <1>9, <4>4, Zenon DEF HeaderStep, EnterStep, header
    <3> QED BY <1>6, <2>2, <3>1 DEF ByteStep
  <2>3. CASE Refuses(b, r)
    BY <1>5, <2>3
  <2> QED BY <1>2, <2>1, <2>2, <2>3, ChunkEffect
<1>10. CASE p.phase = "FORMAT"
  <2>1. r = FedFormat(b, byte) /\ a.remaining # 0
    BY <1>1, <1>3, <1>10 DEF Fed, Control
  <2>2. CASE Takes(b, r)
    <3>1. FormatStep(p, q, byte)
      BY <1>2, <1>3, <1>10, <2>1, <2>2, FormatEffect, SMTT(30)
         DEF FormatStep, ChunkEnds, SameData, Refuses, Takes
    <3> QED BY <1>6, <2>2, <3>1 DEF ByteStep
  <2>3. CASE Refuses(b, r)
    BY <1>5, <2>3
  <2> QED BY <1>2, <2>1, <2>2, <2>3, FormatEffect
<1>11. CASE p.phase = "AUDIO_DATA"
  <2>1. r = FedData(b, byte, idle) /\ a.remaining # 0 /\ a.channels \in {1, 2}
    BY <1>1, <1>3, <1>11 DEF Fed, Control
  <2>2. CASE Refuses(b, r)
    BY <1>5, <2>2
  <2>3. CASE ~Refuses(b, r)
    <3>1. r.wave \in WaveType /\ KeepsUpload(b, r.wave)
      BY <1>2, <2>1, <2>3, DataEffect
    <3>2. DataStep(w, r.wave, byte)
      <4> DEFINE frame == Append(p.frame, byte)
      <4>1. /\ SameFormat(a, q) /\ q.chunk = a.chunk
            /\ q.remaining = a.remaining - 1
            /\ Len(Append(a.frame, byte)) = a.channels => Emitted(b, r.wave, Append(a.frame, byte))
            /\ Len(Append(a.frame, byte)) # a.channels =>
                 /\ r.wave.bram = b.bram /\ q.frame = Append(a.frame, byte)
                 /\ q.samples = a.samples /\ q.word = a.word
            /\ a.remaining # 1 => q.phase = a.phase /\ q.data_seen = a.data_seen
            /\ a.remaining = 1 =>
                 /\ q.header = <<>> /\ q.data_seen
                 /\ a.chunk % 2 = 1 => q.phase = "PAD"
                 /\ a.chunk % 2 # 1 => q.phase = "CHUNK_HEADER"
        BY <1>2, <2>1, <2>3, DataEffect, SMTT(30)
      <4>2. Emitted(b, r.wave, frame) => Emitted(w, r.wave, frame)
        <5> HIDE DEF frame
        <5> QED BY <1>2, <1>3 DEF Emitted
      <4>e. Append(a.frame, byte) = frame
        BY <1>3
      <4> HIDE DEF p, a, q, frame
      <4>3. /\ SameFormat(p, q) /\ q.chunk = p.chunk
            /\ q.remaining = p.remaining - 1
            /\ Len(frame) = p.channels => Emitted(w, r.wave, frame)
            /\ Len(frame) # p.channels =>
                 /\ r.wave.bram = w.bram /\ q.frame = frame
                 /\ q.samples = p.samples /\ q.word = p.word
            /\ p.remaining # 1 => q.phase = p.phase /\ q.data_seen = p.data_seen
            /\ p.remaining = 1 =>
                 /\ q.header = <<>> /\ q.data_seen
                 /\ p.chunk % 2 = 1 => q.phase = "PAD"
                 /\ p.chunk % 2 # 1 => q.phase = "CHUNK_HEADER"
        BY <1>2, <1>3, <1>e, <4>1, <4>2, <4>e, Zenon
      <4> QED BY <1>11, <4>3, Zenon DEF DataStep, ChunkEnds, p, q, frame
    <3> QED BY <1>4, <3>1, <3>2 DEF ByteStep
  <2> QED BY <2>2, <2>3
<1>12. CASE p.phase = "SKIP"
  <2>1. r = FedSkip(b) /\ a.remaining # 0
    BY <1>1, <1>3, <1>12 DEF Fed, Control
  <2>2. Takes(b, r)
    BY <1>2, <2>1, SkipEffect
  <2>3. SkipStep(p, q)
    BY <1>2, <1>3, <1>12, <2>1, SkipEffect
       DEF SkipStep, ChunkEnds, SameFormat, SameData
  <2> QED BY <1>6, <2>2, <2>3 DEF ByteStep
<1>13. CASE p.phase = "PAD"
  <2>1. r = FedPad(b)
    BY <1>1, <1>3, <1>13 DEF Fed
  <2>2. Takes(b, r)
    BY <1>2, <2>1, PadEffect
  <2>3. PadStep(p, q)
    BY <1>2, <1>3, <1>13, <2>1, PadEffect
       DEF PadStep, SameChunk, SameFormat, SameData
  <2> QED BY <1>6, <2>2, <2>3 DEF ByteStep
<1> QED BY <1>7, <1>8, <1>9, <1>10, <1>11, <1>12, <1>13 DEF Phase

-----------------------------------------------------------------------------
(* What the parser has read, told by the bytes of the file: the invariant  *)
(* of an upload whose bytes were the announced ones so far (crc). V are    *)
(* the chunks entered, e the format chunk and d the data chunk.            *)

(* Where the chunk behind the one being read begins, or the one begun.     *)
NextStart(p) ==
  IF p.phase = "CHUNK_HEADER" THEN p.received - Len(p.header)
  ELSE IF p.phase = "PAD" THEN p.received + 1
  ELSE p.received + p.remaining + (p.chunk % 2)

(* The header is the last bytes that came.                                 *)
HeaderRead(p) ==
  p.phase \in {"RIFF_HEADER", "CHUNK_HEADER"} =>
    \A j \in 1 .. Len(p.header) :
      p.header[j] = p.file.bytes[p.received - Len(p.header) + j]

(* V holds the beginnings of the chunks that were entered: they follow     *)
(* each other from the RIFF header to the next chunk.                      *)
Path(p, V) ==
  LET bytes == p.file.bytes
  IN p.phase # "RIFF_HEADER" =>
       /\ bytes[1] = Riff /\ bytes[2] + RiffHeader = Len(bytes)
       /\ NextStart(p) <= Len(bytes)
       /\ V \subseteq RiffHeader .. Len(bytes) - ChunkHeader
       /\ ChunksUpTo(bytes, V, NextStart(p))

(* A format chunk, or a data chunk, was entered.                           *)
FmtMet(p) == p.fmt_seen \/ p.phase = "FORMAT"
DataMet(p) == p.data_seen \/ p.phase = "AUDIO_DATA"

(* At e is the only format chunk met so far, at d the only data chunk.     *)
Found(p, V, e, d) ==
  LET bytes == p.file.bytes
  IN p.phase # "RIFF_HEADER" =>
       /\ FmtMet(p) => Kind(bytes, V, Fmt) = {e}
       /\ ~FmtMet(p) => Kind(bytes, V, Fmt) = {}
       /\ DataMet(p) => Kind(bytes, V, Data) = {d} /\ e < d
       /\ ~DataMet(p) => Kind(bytes, V, Data) = {}

(* The channels are those of the format chunk.                             *)
FormatRead(p, e) ==
  LET bytes == p.file.bytes
  IN /\ p.phase = "FORMAT" =>
          /\ p.chunk = bytes[e + 2] /\ ChunkEnd(bytes, e) = NextStart(p)
          /\ \/ p.fmt = <<>> /\ p.remaining = p.chunk
             \/ Len(p.fmt) = 1 /\ p.fmt[1] = bytes[e + 3]
     /\ p.fmt_seen => p.channels = bytes[e + 3]

(* The samples found so far: the last one may wait for its pair.           *)
Held(w, i) ==
  IF i = w.parser.samples /\ i % 2 = 1 THEN w.parser.word
                                      ELSE w.bram[i - 1].pcm

(* The samples are the frames of the data chunk, as far as it was read.    *)
DataRead(w, d) ==
  LET p == w.parser
      bytes == p.file.bytes
      first == d + ChunkHeader + p.samples * p.channels
  IN /\ p.phase = "AUDIO_DATA" =>
          /\ p.chunk = bytes[d + 2] /\ ChunkEnd(bytes, d) = NextStart(p)
          /\ p.chunk = p.samples * p.channels + Len(p.frame) + p.remaining
     /\ p.data_seen => bytes[d + 2] = p.samples * p.channels + Len(p.frame)
     /\ DataMet(p) =>
          /\ \A j \in 1 .. Len(p.frame) : p.frame[j] = bytes[first + j]
          /\ \A i \in 1 .. p.samples :
               Held(w, i) = Mean(FrameAt(bytes, d, p.channels, i))

(* All that was read, and what it was read from.                           *)
Parsed(w, V, e, d) ==
  /\ HeaderRead(w.parser) /\ Path(w.parser, V) /\ Found(w.parser, V, e, d)
  /\ e \in Nat /\ d \in Nat /\ FormatRead(w.parser, e) /\ DataRead(w, d)

(* The whole invariant of an upload.                                       *)
Sound(w) ==
  /\ Control(w.parser)
  /\ w.parser.crc =>
       \E V \in SUBSET Nat, e, d \in Nat : Parsed(w, V, e, d)

(* A byte keeps the phase and the lengths in agreement.                    *)
LEMMA StepControl ==
  ASSUME NEW w \in WaveType, NEW v \in WaveType, NEW byte \in Nat,
         Control(w.parser), w.parser.received < Len(w.parser.file.bytes),
         Counted(w, v, byte), ByteStep(w, v, byte)
  PROVE  Control(v.parser)
<1> DEFINE p == w.parser
           q == v.parser
<1>1. /\ p \in ParserType /\ q \in ParserType
      /\ q.file = p.file /\ q.received = p.received + 1
  BY WaveFields DEF Counted
<1>2. p.received \in Nat /\ Len(p.file.bytes) \in Nat /\ p.header \in Seq(Nat)
  BY <1>1, ParserFields
<1>3. q.received <= Len(q.file.bytes)
  BY <1>1, <1>2
<1>4. Len(Append(p.header, byte)) = Len(p.header) + 1
  BY <1>2
<1>5. Len(<<>>) = 0
  OBVIOUS
<1> HIDE DEF p, q
<1>6. CASE RiffStep(p, q, byte)
  <2>1. /\ p.phase = "RIFF_HEADER" /\ ~p.fmt_seen /\ ~p.data_seen
        /\ Len(p.header) = p.received /\ p.samples = 0 /\ p.frame = <<>>
    BY <1>6 DEF RiffStep, Control, p
  <2>2. /\ SameFormat(p, q) /\ SameData(p, q)
    BY <1>6 DEF RiffStep, HeaderGrows
  <2>3. \/ /\ q.phase = "RIFF_HEADER" /\ Len(q.header) = q.received
           /\ Len(q.header) < RiffHeader
        \/ q.phase = "CHUNK_HEADER" /\ Len(q.header) < ChunkHeader
    <3>1. CASE HeaderGrows(p, q, byte) /\ Len(Append(p.header, byte)) < RiffHeader
      BY <1>1, <1>4, <2>1, <3>1 DEF HeaderGrows
    <3>2. CASE q.phase = "CHUNK_HEADER" /\ q.header = <<>>
      BY <1>5, <3>2 DEF ChunkHeader
    <3> QED BY <1>6, <3>1, <3>2 DEF RiffStep
  <2> QED BY <1>3, <2>1, <2>2, <2>3 DEF Control, SameFormat, SameData, q
<1>7. CASE HeaderStep(p, q, byte)
  BY <1>1, <1>3, <1>7
     DEF HeaderStep, HeaderGrows, Control, SameChunk, SameFormat, SameData,
         p, q
<1>8. CASE EnterStep(p, q, byte)
  <2>1. q.phase \in {"FORMAT", "AUDIO_DATA", "SKIP", "CHUNK_HEADER"}
        /\ (q.phase = "FORMAT" => ~p.fmt_seen)
        /\ (q.phase = "AUDIO_DATA" => p.fmt_seen /\ ~p.data_seen)
        /\ (q.phase # "CHUNK_HEADER" => q.remaining # 0)
    BY <1>8 DEF EnterStep, ChunkPhase
  <2>2. Len(q.header) < ChunkHeader
    BY <1>5, <1>8 DEF EnterStep, ChunkHeader
  <2>3. /\ q.fmt_seen = p.fmt_seen /\ q.channels = p.channels
        /\ SameData(p, q) /\ p.phase = "CHUNK_HEADER"
    BY <1>8 DEF EnterStep
  <2> QED BY <1>3, <1>5, <2>1, <2>2, <2>3 DEF Control, SameData, p, q
<1>e. ASSUME ChunkEnds(p, q)
      PROVE  q.phase \in {"PAD", "CHUNK_HEADER"} /\ Len(q.header) < ChunkHeader
  BY <1>5, <1>e DEF ChunkEnds, ChunkHeader
<1>n. ASSUME p.remaining # 1, q.remaining = p.remaining - 1
      PROVE  q.remaining # 0
  <2>1. p.remaining \in Nat
    BY <1>1, ParserFields
  <2> QED BY <1>n, <2>1
<1>9. CASE FormatStep(p, q, byte)
  <2>1. /\ p.phase = "FORMAT" /\ ~p.fmt_seen /\ ~p.data_seen
        /\ p.samples = 0 /\ p.frame = <<>> /\ SameData(p, q)
    BY <1>9 DEF FormatStep, Control, p
  <2>2. CASE p.remaining # 1
    <3>1. q.phase = p.phase /\ q.fmt_seen = p.fmt_seen /\ q.remaining # 0
      BY <1>9, <1>n, <2>2 DEF FormatStep
    <3> QED BY <1>3, <2>1, <3>1 DEF Control, SameData, q
  <2>3. CASE p.remaining = 1
    <3>1. ChunkEnds(p, q) /\ q.fmt_seen /\ q.channels \in {1, 2}
      BY <1>9, <2>3 DEF FormatStep
    <3> QED BY <1>3, <1>e, <2>1, <3>1 DEF Control, SameData, q
  <2> QED BY <2>2, <2>3
<1>10. CASE SkipStep(p, q)
  <2>1. p.phase = "SKIP" /\ SameFormat(p, q) /\ SameData(p, q)
    BY <1>10 DEF SkipStep
  <2>2. CASE p.remaining # 1
    <3>1. q.phase = p.phase /\ q.remaining # 0
      BY <1>10, <1>n, <2>2 DEF SkipStep
    <3> QED BY <1>3, <2>1, <3>1 DEF Control, SameFormat, SameData, p, q
  <2>3. CASE p.remaining = 1
    <3>1. ChunkEnds(p, q)
      BY <1>10, <2>3 DEF SkipStep
    <3> QED BY <1>3, <1>e, <2>1, <3>1 DEF Control, SameFormat, SameData, p, q
  <2> QED BY <2>2, <2>3
<1>11. CASE PadStep(p, q)
  BY <1>3, <1>5, <1>11
     DEF PadStep, Control, SameChunk, SameFormat, SameData, ChunkHeader, p, q
<1>12. CASE DataStep(w, v, byte)
  <2> DEFINE frame == Append(p.frame, byte)
  <2>1. /\ p.phase = "AUDIO_DATA" /\ q.remaining = p.remaining - 1
        /\ SameFormat(p, q)
        /\ Len(frame) = p.channels => q.frame = <<>>
        /\ Len(frame) # p.channels => q.frame = frame
        /\ p.remaining # 1 => q.phase = p.phase /\ q.data_seen = p.data_seen
        /\ p.remaining = 1 => ChunkEnds(p, q) /\ q.data_seen
    BY <1>12 DEF DataStep, Emitted, p, q
  <2>2. Len(frame) = Len(p.frame) + 1 /\ p.frame \in Seq(Nat)
    BY <1>1, ParserFields
  <2>3. p.fmt_seen /\ ~p.data_seen /\ Len(p.frame) < p.channels
        /\ p.channels \in {1, 2} /\ p.remaining # 0
    BY <2>1 DEF Control, p
  <2>4. Len(q.frame) < q.channels
    <3> HIDE DEF frame
    <3> QED BY <1>5, <2>1, <2>2, <2>3 DEF SameFormat
  <2>5. p.remaining # 1 => q.remaining # 0
    BY <1>1, <2>1, ParserFields
  <2> HIDE DEF frame
  <2> QED BY <1>3, <1>5, <2>1, <2>3, <2>4, <2>5
          DEF Control, ChunkEnds, SameFormat, ChunkHeader, p, q
<1> QED BY <1>6, <1>7, <1>8, <1>9, <1>10, <1>11, <1>12 DEF ByteStep, p, q

(* The steps that are not the end of the RIFF header or of a chunk header. *)
Within(w, v, byte) ==
  LET p == w.parser
      q == v.parser
  IN \/ HeaderStep(p, q, byte) \/ FormatStep(p, q, byte)
     \/ SkipStep(p, q) \/ PadStep(p, q) \/ DataStep(w, v, byte)

(* The next chunk stays where it is, when a chunk ends and while it is     *)
(* read.                                                                   *)
LEMMA ChunkEndsAt ==
  ASSUME NEW p \in ParserType, NEW q \in ParserType, ChunkEnds(p, q),
         q.received = p.received + 1, p.remaining = 1, q.chunk = p.chunk,
         p.phase \in {"FORMAT", "AUDIO_DATA", "SKIP"}
  PROVE  NextStart(q) = NextStart(p)
<1>1. /\ p.received \in Nat /\ p.remaining \in Nat /\ p.chunk \in Nat
      /\ q.received \in Nat
  BY ParserFields
<1>2. p.chunk % 2 \in {0, 1}
  BY <1>1
<1>3. NextStart(p) = p.received + 1 + (p.chunk % 2)
  BY DEF NextStart
<1>4. CASE p.chunk % 2 = 1
  <2>1. NextStart(q) = q.received + 1
    BY <1>4 DEF ChunkEnds, NextStart
  <2> QED BY <1>1, <1>3, <1>4, <2>1
<1>5. CASE p.chunk % 2 = 0
  <2>1. q.phase = "CHUNK_HEADER" /\ q.header = <<>>
    BY <1>5 DEF ChunkEnds
  <2>2. NextStart(q) = q.received - 0
    <3>1. Len(q.header) = 0
      BY <2>1
    <3> QED BY <2>1, <3>1 DEF NextStart
  <2> QED BY <1>1, <1>3, <1>5, <2>2
<1> QED BY <1>2, <1>4, <1>5

LEMMA GoesOnAt ==
  ASSUME NEW p \in ParserType, NEW q \in ParserType,
         q.received = p.received + 1, q.remaining = p.remaining - 1,
         q.chunk = p.chunk, q.phase = p.phase,
         p.phase \in {"FORMAT", "AUDIO_DATA", "SKIP"}
  PROVE  NextStart(q) = NextStart(p)
<1>1. /\ p.received \in Nat /\ p.remaining \in Nat /\ p.chunk \in Nat
      /\ p.chunk % 2 \in Int
  BY ParserFields
<1>2. NextStart(p) = p.received + p.remaining + (p.chunk % 2)
  BY DEF NextStart
<1>3. NextStart(q) = p.received + 1 + (p.remaining - 1) + (p.chunk % 2)
  BY DEF NextStart
<1> QED BY <1>1, <1>2, <1>3

(* A byte within a chunk, or within a header, meets no new chunk.          *)
LEMMA WithinKeeps ==
  ASSUME NEW w \in WaveType, NEW v \in WaveType, NEW byte \in Nat,
         Control(w.parser), Counted(w, v, byte), Within(w, v, byte)
  PROVE  LET p == w.parser
             q == v.parser
         IN /\ NextStart(q) = NextStart(p)
            /\ p.phase # "RIFF_HEADER" /\ q.phase # "RIFF_HEADER"
            /\ FmtMet(q) <=> FmtMet(p)
            /\ DataMet(q) <=> DataMet(p)
<1> DEFINE p == w.parser
           q == v.parser
<1>1. /\ p \in ParserType /\ q \in ParserType
      /\ q.file = p.file /\ q.received = p.received + 1
      /\ p.received \in Nat /\ p.header \in Seq(Nat)
  BY WaveFields, ParserFields DEF Counted
<1>2. Control(p)
  OBVIOUS
<1> HIDE DEF p, q
<1> SUFFICES /\ NextStart(q) = NextStart(p)
             /\ p.phase # "RIFF_HEADER" /\ q.phase # "RIFF_HEADER"
             /\ FmtMet(q) <=> FmtMet(p)
             /\ DataMet(q) <=> DataMet(p)
  BY DEF p, q
<1>3. CASE HeaderStep(p, q, byte)
  <2>1. Len(q.header) = Len(p.header) + 1 /\ Len(p.header) \in Nat
    BY <1>1, <1>3 DEF HeaderStep, HeaderGrows
  <2>2. /\ p.phase = "CHUNK_HEADER" /\ q.phase = p.phase
        /\ SameFormat(p, q) /\ SameData(p, q)
    BY <1>3 DEF HeaderStep, HeaderGrows
  <2> QED BY <1>1, <2>1, <2>2, SMTT(30)
          DEF NextStart, FmtMet, DataMet, SameFormat, SameData
<1>4. CASE FormatStep(p, q, byte)
  <2>1. /\ p.phase = "FORMAT" /\ SameData(p, q) /\ q.chunk = p.chunk
        /\ q.remaining = p.remaining - 1
    BY <1>4 DEF FormatStep
  <2>2. CASE p.remaining # 1
    <3>1. q.phase = p.phase /\ q.fmt_seen = p.fmt_seen
      BY <1>4, <2>2 DEF FormatStep
    <3> QED BY <1>1, <2>1, <3>1, GoesOnAt DEF FmtMet, DataMet, SameData
  <2>3. CASE p.remaining = 1
    <3>1. ChunkEnds(p, q) /\ q.fmt_seen
      BY <1>4, <2>3 DEF FormatStep
    <3>2. q.phase \in {"PAD", "CHUNK_HEADER"}
      BY <3>1 DEF ChunkEnds
    <3> QED BY <1>1, <2>1, <2>3, <3>1, <3>2, ChunkEndsAt
            DEF FmtMet, DataMet, SameData
  <2> QED BY <2>2, <2>3
<1>5. CASE SkipStep(p, q)
  <2>1. /\ p.phase = "SKIP" /\ SameFormat(p, q) /\ SameData(p, q)
        /\ q.chunk = p.chunk /\ q.remaining = p.remaining - 1
    BY <1>5 DEF SkipStep
  <2>2. CASE p.remaining # 1
    <3>1. q.phase = p.phase
      BY <1>5, <2>2 DEF SkipStep
    <3> QED BY <1>1, <2>1, <3>1, GoesOnAt
            DEF FmtMet, DataMet, SameFormat, SameData
  <2>3. CASE p.remaining = 1
    <3>1. ChunkEnds(p, q)
      BY <1>5, <2>3 DEF SkipStep
    <3>2. q.phase \in {"PAD", "CHUNK_HEADER"}
      BY <3>1 DEF ChunkEnds
    <3> QED BY <1>1, <2>1, <2>3, <3>1, <3>2, ChunkEndsAt
            DEF FmtMet, DataMet, SameFormat, SameData
  <2> QED BY <2>2, <2>3
<1>6. CASE PadStep(p, q)
  <2>1. /\ p.phase = "PAD" /\ q.phase = "CHUNK_HEADER" /\ q.header = <<>>
        /\ SameFormat(p, q) /\ SameData(p, q)
    BY <1>6 DEF PadStep
  <2>2. Len(q.header) = 0
    BY <2>1
  <2>3. NextStart(p) = p.received + 1 /\ NextStart(q) = q.received - 0
    BY <2>1, <2>2 DEF NextStart
  <2> QED BY <1>1, <2>1, <2>3 DEF FmtMet, DataMet, SameFormat, SameData
<1>7. CASE DataStep(w, v, byte)
  <2>1. /\ p.phase = "AUDIO_DATA" /\ SameFormat(p, q) /\ q.chunk = p.chunk
        /\ q.remaining = p.remaining - 1
    BY <1>7 DEF DataStep, p, q
  <2>2. CASE p.remaining # 1
    <3>1. q.phase = p.phase /\ q.data_seen = p.data_seen
      BY <1>7, <2>2 DEF DataStep, p, q
    <3> QED BY <1>1, <2>1, <3>1, GoesOnAt DEF FmtMet, DataMet, SameFormat
  <2>3. CASE p.remaining = 1
    <3>1. ChunkEnds(p, q) /\ q.data_seen
      BY <1>7, <2>3 DEF DataStep, p, q
    <3>2. q.phase \in {"PAD", "CHUNK_HEADER"}
      BY <3>1 DEF ChunkEnds
    <3> QED BY <1>1, <2>1, <2>3, <3>1, <3>2, ChunkEndsAt
            DEF FmtMet, DataMet, SameFormat
  <2> QED BY <2>2, <2>3
<1> QED BY <1>3, <1>4, <1>5, <1>6, <1>7 DEF Within, p, q

(* A header is the last bytes, after one more.                             *)
LEMMA HeaderReadStep ==
  ASSUME NEW w \in WaveType, NEW v \in WaveType, NEW byte \in Nat,
         Control(w.parser), Counted(w, v, byte), ByteStep(w, v, byte),
         HeaderRead(w.parser), v.parser.crc
  PROVE  HeaderRead(v.parser)
<1> DEFINE p == w.parser
           q == v.parser
<1>1. /\ p \in ParserType /\ q \in ParserType
      /\ q.file = p.file /\ q.received = p.received + 1
      /\ p.received \in Nat /\ p.header \in Seq(Nat)
      /\ byte = p.file.bytes[p.received + 1]
  BY WaveFields, ParserFields DEF Counted
<1>2. HeaderRead(p)
  OBVIOUS
<1> HIDE DEF p, q
<1> SUFFICES HeaderRead(q)
  BY DEF q
<1>3. ASSUME HeaderGrows(p, q, byte),
             p.phase \in {"RIFF_HEADER", "CHUNK_HEADER"}
      PROVE  HeaderRead(q)
  <2>1. SUFFICES ASSUME NEW j \in 1 .. Len(q.header)
                 PROVE  q.header[j] =
                          q.file.bytes[q.received - Len(q.header) + j]
    BY DEF HeaderRead
  <2>2. q.header = Append(p.header, byte) /\ Len(q.header) = Len(p.header) + 1
    BY <1>1, <1>3 DEF HeaderGrows
  <2>3. q.received - Len(q.header) = p.received - Len(p.header)
    <3>1. Len(p.header) \in Nat
      BY <1>1
    <3> QED BY <1>1, <2>2, <3>1
  <2>4. CASE j = Len(p.header) + 1
    <3>1. q.header[j] = byte
      BY <1>1, <2>2, <2>4
    <3>2. p.received - Len(p.header) + j = p.received + 1
      BY <1>1, <2>4
    <3> QED BY <1>1, <2>3, <3>1, <3>2
  <2>5. CASE j \in 1 .. Len(p.header)
    <3>1. q.header[j] = p.header[j]
      BY <1>1, <2>2, <2>5
    <3>2. p.header[j] = p.file.bytes[p.received - Len(p.header) + j]
      BY <1>2, <1>3, <2>5 DEF HeaderRead
    <3> QED BY <1>1, <2>3, <3>1, <3>2
  <2> QED BY <1>1, <2>2, <2>4, <2>5
<1>4. ASSUME q.header = <<>>
      PROVE  HeaderRead(q)
  <2>1. 1 .. Len(q.header) = {}
    BY <1>4
  <2> QED BY <2>1 DEF HeaderRead
<1>5. ASSUME q.phase \notin {"RIFF_HEADER", "CHUNK_HEADER"}
      PROVE  HeaderRead(q)
  BY <1>5 DEF HeaderRead
<1>6. CASE RiffStep(p, q, byte)
  BY <1>3, <1>4, <1>6 DEF RiffStep
<1>7. CASE HeaderStep(p, q, byte)
  BY <1>3, <1>7 DEF HeaderStep
<1>8. CASE EnterStep(p, q, byte)
  BY <1>4, <1>8 DEF EnterStep
<1>9. CASE FormatStep(p, q, byte)
  BY <1>4, <1>5, <1>9 DEF FormatStep, ChunkEnds
<1>10. CASE SkipStep(p, q)
  BY <1>4, <1>5, <1>10 DEF SkipStep, ChunkEnds
<1>11. CASE PadStep(p, q)
  BY <1>4, <1>11 DEF PadStep
<1>12. CASE DataStep(w, v, byte)
  <2>1. /\ p.phase = "AUDIO_DATA"
        /\ p.remaining # 1 => q.phase = p.phase
        /\ p.remaining = 1 => ChunkEnds(p, q)
    BY <1>12 DEF DataStep, p, q
  <2> QED BY <1>4, <1>5, <2>1 DEF ChunkEnds
<1> QED BY <1>6, <1>7, <1>8, <1>9, <1>10, <1>11, <1>12 DEF ByteStep, p, q

(* The format is read, after one more byte.                                *)
LEMMA FormatReadStep ==
  ASSUME NEW w \in WaveType, NEW v \in WaveType, NEW byte \in Nat,
         Control(w.parser), Counted(w, v, byte), Within(w, v, byte),
         NEW e \in Nat, FormatRead(w.parser, e), v.parser.crc
  PROVE  FormatRead(v.parser, e)
<1> DEFINE p == w.parser
           q == v.parser
           bytes == p.file.bytes
<1>1. /\ p \in ParserType /\ q \in ParserType
      /\ q.file = p.file /\ q.received = p.received + 1
      /\ p.received \in Nat /\ p.remaining \in Nat /\ p.chunk \in Nat
      /\ p.fmt \in Seq(Nat) /\ byte = bytes[p.received + 1]
  BY WaveFields, ParserFields DEF Counted
<1>2. FormatRead(p, e) /\ Control(p)
  OBVIOUS
<1>3. NextStart(q) = NextStart(p)
  BY WithinKeeps
<1> HIDE DEF p, q
<1> SUFFICES FormatRead(q, e)
  BY DEF q
<1>4. ASSUME SameFormat(p, q), q.phase # "FORMAT"
      PROVE  FormatRead(q, e)
  BY <1>1, <1>2, <1>4 DEF FormatRead, SameFormat
<1>5. CASE FormatStep(p, q, byte)
  <2> DEFINE fmt == IF Len(p.fmt) < FormatBytes THEN Append(p.fmt, byte)
                                                ELSE p.fmt
  <2>1. /\ p.phase = "FORMAT" /\ q.chunk = p.chunk
        /\ q.remaining = p.remaining - 1 /\ ~p.fmt_seen
        /\ p.chunk = bytes[e + 2] /\ ChunkEnd(bytes, e) = NextStart(p)
    BY <1>2, <1>5 DEF FormatStep, FormatRead, Control
  <2>2. Len(fmt) = 1 /\ fmt[1] = bytes[e + 3]
    <3>1. CASE p.fmt = <<>> /\ p.remaining = p.chunk
      <4>1. NextStart(p) = p.received + p.chunk + (p.chunk % 2)
        BY <2>1, <3>1 DEF NextStart
      <4>2. ChunkEnd(bytes, e) = e + 2 + p.chunk + (p.chunk % 2)
        BY <2>1 DEF ChunkEnd, ChunkHeader
      <4>3. p.received = e + 2
        <5>1. p.chunk % 2 \in Int
          BY <1>1
        <5> QED BY <1>1, <2>1, <4>1, <4>2, <5>1, SMTT(30)
      <4>4. p.received + 1 = e + 3
        BY <4>3
      <4>5. byte = bytes[e + 3]
        BY <1>1, <4>4
      <4>6. fmt = Append(p.fmt, byte)
        BY <3>1 DEF FormatBytes
      <4>7. fmt = <<byte>>
        BY <3>1, <4>6
      <4> HIDE DEF fmt
      <4> QED BY <4>5, <4>7
    <3>2. CASE Len(p.fmt) = 1 /\ p.fmt[1] = bytes[e + 3]
      BY <3>2 DEF FormatBytes
    <3> QED BY <1>2, <2>1, <3>1, <3>2 DEF FormatRead
  <2>3. CASE p.remaining # 1
    <3>1. /\ q.phase = p.phase /\ q.fmt = fmt
          /\ q.fmt_seen = p.fmt_seen
      BY <1>5, <2>3 DEF FormatStep
    <3> HIDE DEF fmt
    <3> QED BY <1>1, <1>3, <2>1, <2>2, <3>1 DEF FormatRead
  <2>4. CASE p.remaining = 1
    <3>1. ChunkEnds(p, q) /\ q.channels = fmt[1]
      BY <1>5, <2>4 DEF FormatStep
    <3>2. q.phase # "FORMAT"
      BY <3>1 DEF ChunkEnds
    <3> HIDE DEF fmt
    <3> QED BY <1>1, <2>2, <3>1, <3>2 DEF FormatRead
  <2> QED BY <2>3, <2>4
<1>6. CASE HeaderStep(p, q, byte)
  BY <1>4, <1>6 DEF HeaderStep, HeaderGrows
<1>7. CASE SkipStep(p, q)
  BY <1>4, <1>7 DEF SkipStep, ChunkEnds
<1>8. CASE PadStep(p, q)
  BY <1>4, <1>8 DEF PadStep
<1>9. CASE DataStep(w, v, byte)
  <2>1. /\ p.phase = "AUDIO_DATA" /\ SameFormat(p, q)
        /\ p.remaining # 1 => q.phase = p.phase
        /\ p.remaining = 1 => ChunkEnds(p, q)
    BY <1>9 DEF DataStep, p, q
  <2> QED BY <1>4, <2>1 DEF ChunkEnds
<1> QED BY <1>5, <1>6, <1>7, <1>8, <1>9 DEF Within, p, q

(* Words are written in pairs: the numbers of a pair.                      *)
LEMMA Parity ==
  ASSUME NEW n \in Nat
  PROVE  /\ n % 2 # 1 => (n + 1) % 2 = 1
         /\ n % 2 = 1 => /\ (n + 1) % 2 # 1 /\ n \div 2 \in Nat
                         /\ 2 * (n \div 2) = n - 1
                         /\ 2 * (n \div 2) + 1 = n
  OBVIOUS

(* The samples found, after one more.                                      *)
LEMMA EmittedHeld ==
  ASSUME NEW w \in WaveType, NEW v \in WaveType, NEW frame \in Seq(Nat),
         Emitted(w, v, frame), Mean(frame) \in Sample
  PROVE  LET n == w.parser.samples
         IN /\ \A i \in 1 .. n : Held(v, i) = Held(w, i)
            /\ Held(v, n + 1) = Mean(frame)
<1> DEFINE p == w.parser
           q == v.parser
           n == p.samples
<1>1. /\ p \in ParserType /\ w.bram \in Buffer
      /\ n \in 0 .. Capacity /\ n < Capacity /\ q.samples = n + 1
      /\ p.word \in Sample /\ Capacity \in Nat /\ n \in Nat
  BY WaveFields, ParserFields, WaveformAssumption DEF Emitted
<1>2. CASE n % 2 # 1
  <2>1. v.bram = w.bram /\ q.word = Mean(frame)
    BY <1>2 DEF Emitted
  <2>2. (n + 1) % 2 = 1
    BY <1>1, <1>2, Parity
  <2>3. Held(v, n + 1) = Mean(frame)
    BY <1>1, <2>1, <2>2 DEF Held
  <2>4. ASSUME NEW i \in 1 .. n
        PROVE  Held(v, i) = Held(w, i)
    <3>1. i # q.samples
      BY <1>1
    <3>2. ~(i = n /\ i % 2 = 1)
      BY <1>2
    <3> QED BY <2>1, <3>1, <3>2 DEF Held
  <2> QED BY <2>3, <2>4
<1>3. CASE n % 2 = 1
  <2> DEFINE pair == n \div 2
  <2>1. v.bram = BramWritten(w.bram, pair, p.word, Mean(frame))
    BY <1>3 DEF Emitted
  <2>p. 2 * pair = n - 1 /\ 2 * pair + 1 = n /\ pair \in Nat
    BY <1>1, <1>3, Parity
  <2> HIDE DEF pair
  <2>2. \A k \in 0 .. Capacity - 1 :
          /\ k = n - 1 => v.bram[k].pcm = p.word
          /\ k = n => v.bram[k].pcm = Mean(frame)
          /\ k # n - 1 /\ k # n => v.bram[k] = w.bram[k]
    <3>1. \A k \in 0 .. Capacity - 1 :
            /\ k = 2 * pair => v.bram[k].pcm = p.word
            /\ k = 2 * pair + 1 => v.bram[k].pcm = Mean(frame)
            /\ k # 2 * pair /\ k # 2 * pair + 1 => v.bram[k] = w.bram[k]
      <4> DEFINE bram == w.bram
                 first == p.word
                 second == Mean(frame)
      <4>1. bram \in Buffer /\ first \in Sample /\ second \in Sample
        BY <1>1
      <4>2. v.bram = BramWritten(bram, pair, first, second)
        BY <2>1
      <4> HIDE DEF bram, first, second
      <4>3. pair \in Nat
        BY <2>p
      <4> DEFINE b == BramWritten(bram, pair, first, second)
      <4>4. \A k \in 0 .. Capacity - 1 :
              /\ k = 2 * pair => b[k].pcm = first
              /\ k = 2 * pair + 1 => b[k].pcm = second
              /\ k # 2 * pair /\ k # 2 * pair + 1 => b[k] = bram[k]
        BY <4>1, <4>3, BramWrittenFields, SMTT(30)
      <4> HIDE DEF b
      <4> QED BY <4>2, <4>4 DEF b, bram, first, second
    <3> QED BY <2>p, <3>1
  <2>3. Held(v, n + 1) = Mean(frame)
    <3>1. (n + 1) % 2 # 1 /\ n + 1 - 1 = n /\ n \in 0 .. Capacity - 1
      <4>1. (n + 1) % 2 # 1
        BY <1>1, <1>3, Parity
      <4> HIDE DEF n
      <4> QED BY <1>1, <4>1
    <3> QED BY <2>2, <3>1 DEF Held
  <2>4. ASSUME NEW i \in 1 .. n
        PROVE  Held(v, i) = Held(w, i)
    <3>1. i # q.samples /\ i - 1 \in 0 .. Capacity - 1
      BY <1>1
    <3>2. Held(v, i) = v.bram[i - 1].pcm
      BY <3>1 DEF Held
    <3>3. CASE i = n
      BY <1>3, <2>2, <3>1, <3>2, <3>3 DEF Held
    <3>4. CASE i # n
      <4>1. i - 1 # n - 1 /\ i - 1 # n
        BY <1>1, <3>4
      <4>2. v.bram[i - 1] = w.bram[i - 1]
        BY <2>2, <3>1, <4>1
      <4> QED BY <3>2, <3>4, <4>2 DEF Held
    <3> QED BY <3>3, <3>4
  <2> QED BY <2>3, <2>4
<1>4. n % 2 = 1 \/ n % 2 # 1
  OBVIOUS
<1> QED BY <1>2, <1>3

(* A byte that is not a sample leaves the samples alone.                   *)
LEMMA DataReadKept ==
  ASSUME NEW w \in WaveType, NEW v \in WaveType, NEW d \in Nat,
         DataRead(w, d), SameData(w.parser, v.parser), v.bram = w.bram,
         v.parser.file = w.parser.file, v.parser.phase # "AUDIO_DATA",
         w.parser.data_seen => v.parser.channels = w.parser.channels
  PROVE  DataRead(v, d)
<1> DEFINE p == w.parser
           q == v.parser
<1>1. /\ q.file = p.file /\ q.samples = p.samples /\ q.frame = p.frame
      /\ q.data_seen = p.data_seen /\ q.word = p.word
      /\ q.phase # "AUDIO_DATA"
      /\ p.data_seen => q.channels = p.channels
  BY DEF SameData
<1>2. \A i : Held(v, i) = Held(w, i)
  BY <1>1 DEF Held
<1>3. CASE p.data_seen
  BY <1>1, <1>2, <1>3 DEF DataRead, DataMet
<1>4. CASE ~p.data_seen
  BY <1>1, <1>4 DEF DataRead, DataMet
<1> QED BY <1>3, <1>4

(* The samples are read, after one more byte.                              *)
LEMMA DataReadStep ==
  ASSUME NEW w \in WaveType, NEW v \in WaveType, NEW byte \in Nat,
         Control(w.parser), Counted(w, v, byte), DataStep(w, v, byte),
         NEW d \in Nat, DataRead(w, d), v.parser.crc
  PROVE  DataRead(v, d)
<1> DEFINE p == w.parser
           q == v.parser
           bytes == p.file.bytes
           frame == Append(p.frame, byte)
           done == p.samples * p.channels
           first == d + ChunkHeader + done
           len == Len(p.frame)
           odd == p.chunk % 2
           left == p.remaining
           got == p.received
           size == p.chunk
<1>1. /\ p \in ParserType /\ q \in ParserType
      /\ q.file = p.file /\ q.received = p.received + 1
      /\ p.received \in Nat /\ p.remaining \in Nat /\ p.chunk \in Nat
      /\ p.frame \in Seq(Nat) /\ p.samples \in Nat /\ bytes \in Seq(Nat)
      /\ byte = bytes[p.received + 1]
  <2>1. p \in ParserType /\ q \in ParserType
    BY WaveFields
  <2>2. p.samples \in Nat
    <3>1. p.samples \in 0 .. Capacity /\ Capacity \in Nat
      BY <2>1, ParserFields, WaveformAssumption
    <3> QED BY <3>1
  <2> QED BY <2>1, <2>2, ParserFields DEF Counted
<1>2. /\ p.phase = "AUDIO_DATA" /\ q.chunk = p.chunk
      /\ q.remaining = p.remaining - 1 /\ q.channels = p.channels
      /\ Len(frame) = p.channels => Emitted(w, v, frame)
      /\ Len(frame) # p.channels =>
           /\ v.bram = w.bram /\ q.frame = frame
           /\ q.samples = p.samples /\ q.word = p.word
      /\ p.remaining # 1 => q.phase = p.phase /\ q.data_seen = p.data_seen
      /\ p.remaining = 1 => ChunkEnds(p, q) /\ q.data_seen
  BY DEF DataStep, SameFormat
<1>3. /\ p.fmt_seen /\ ~p.data_seen /\ Len(p.frame) < p.channels
      /\ p.channels \in {1, 2} /\ p.remaining # 0
  BY <1>2 DEF Control
<1>4. /\ p.chunk = bytes[d + 2] /\ ChunkEnd(bytes, d) = NextStart(p)
      /\ p.chunk = done + Len(p.frame) + p.remaining
  BY <1>2 DEF DataRead, DataMet
<1>f. /\ \A j \in 1 .. Len(p.frame) : p.frame[j] = bytes[first + j]
      /\ \A i \in 1 .. p.samples :
           Held(w, i) = Mean(FrameAt(bytes, d, p.channels, i))
  BY <1>2 DEF DataRead, DataMet
<1>5. NextStart(q) = NextStart(p)
  BY WithinKeeps DEF Within
<1>6. /\ Len(p.frame) \in Nat /\ done \in Nat /\ p.channels \in Nat
      /\ p.chunk % 2 \in Int
  <2>1. \A a \in Nat, b \in {1, 2} : a * b \in Nat
    OBVIOUS
  <2>2. done \in Nat /\ p.channels \in Nat
    <3>1. p.samples \in Nat /\ p.channels \in {1, 2}
      BY <1>1, <1>3
    <3> HIDE DEF p
    <3> QED BY <2>1, <3>1
  <2>3. Len(p.frame) \in Nat
    BY <1>1
  <2>4. p.chunk % 2 \in Int
    BY <1>1, SMTT(30)
  <2> QED BY <2>2, <2>3, <2>4
<1>h. done = p.samples * p.channels
  OBVIOUS
<1> HIDE DEF done
<1>i. first \in Nat
  BY <1>6 DEF ChunkHeader
<1>7. p.received = first + Len(p.frame)
  <2>1. NextStart(p) = p.received + p.remaining + (p.chunk % 2)
    BY <1>2 DEF NextStart
  <2>2. ChunkEnd(bytes, d) = d + 2 + p.chunk + (p.chunk % 2)
    BY <1>4 DEF ChunkEnd, ChunkHeader
  <2>3. /\ got + left + odd = d + 2 + size + odd /\ size = done + len + left
        /\ got \in Nat /\ left \in Nat /\ odd \in Int /\ size \in Nat
        /\ len \in Nat /\ done \in Nat
    BY <1>1, <1>4, <1>6, <2>1, <2>2
  <2> HIDE DEF got, left, odd, size, len
  <2>4. got = d + ChunkHeader + done + len
    BY <2>3 DEF ChunkHeader
  <2> QED BY <2>4 DEF got, len
<1>8. /\ frame \in Seq(Nat) /\ Len(frame) = Len(p.frame) + 1
      /\ \A j \in 1 .. Len(frame) : frame[j] = bytes[first + j]
  <2>1. frame \in Seq(Nat) /\ Len(frame) = Len(p.frame) + 1
    BY <1>1
  <2>2. frame[Len(p.frame) + 1] = byte
    BY <1>1
  <2>3. \A j \in 1 .. Len(p.frame) : frame[j] = p.frame[j]
    BY <1>1
  <2>4. byte = bytes[first + (Len(p.frame) + 1)]
    <3>1. p.received + 1 = first + (Len(p.frame) + 1)
      <4> HIDE DEF first, p
      <4> QED BY <1>6, <1>7, <1>i
    <3> HIDE DEF first, p
    <3> QED BY <1>1, <3>1
  <2>5. \A j \in 1 .. Len(frame) :
          j \in 1 .. Len(p.frame) \/ j = Len(p.frame) + 1
    <3> HIDE DEF frame, p
    <3> QED BY <1>6, <2>1
  <2> HIDE DEF frame, first, p, bytes
  <2> QED BY <1>f, <2>1, <2>2, <2>3, <2>4, <2>5, Zenon
(* What is behind the last whole frame, and the frames so far.             *)
<1>9. /\ q.samples * q.channels + Len(q.frame) = done + Len(p.frame) + 1
      /\ \A j \in 1 .. Len(q.frame) :
           q.frame[j] =
             bytes[d + ChunkHeader + q.samples * q.channels + j]
      /\ \A i \in 1 .. q.samples :
           Held(v, i) = Mean(FrameAt(bytes, d, q.channels, i))
  <2>1. CASE Len(frame) = p.channels
    <3>1. /\ q.samples = p.samples + 1 /\ q.frame = <<>>
          /\ Emitted(w, v, frame)
      BY <1>2, <2>1 DEF Emitted
    <3>2. q.samples * q.channels = done + p.channels
      <4>1. \A a \in Nat, b \in {1, 2} : (a + 1) * b = a * b + b
        OBVIOUS
      <4>2. (p.samples + 1) * p.channels = p.samples * p.channels + p.channels
        <5> HIDE DEF p
        <5> QED BY <1>1, <1>3, <4>1
      <4> HIDE DEF p, q
      <4> QED BY <1>2, <1>h, <3>1, <4>2
    <3>3. Len(q.frame) = 0
      BY <3>1
    <3>4. Mean(frame) \in Sample
      BY <1>3, <1>8, <2>1, MeanSample
    <3>5. frame = FrameAt(bytes, d, p.channels, p.samples + 1)
      <4> DEFINE c == p.channels
                 n == p.samples
      <4>1. \A j \in 1 .. c : frame[j] = bytes[first + j]
        BY <1>8, <2>1, SMTT(30)
      <4>2. /\ n \in Nat /\ frame \in Seq(Nat) /\ Len(frame) = c
            /\ first = d + ChunkHeader + n * c
        BY <1>1, <1>8, <1>h, <2>1
      <4> HIDE DEF p, bytes, frame, c, n, first
      <4> DEFINE at(j) == bytes[first + j]
      <4>3. frame = [j \in 1 .. c |-> frame[j]]
        BY <4>2
      <4>4. d + ChunkHeader + (n + 1 - 1) * c = first
        <5>1. n + 1 - 1 = n
          BY <4>2
        <5> QED BY <4>2, <5>1
      <4>5. FrameAt(bytes, d, c, n + 1) = [j \in 1 .. c |-> at(j)]
        <5>1. FrameAt(bytes, d, c, n + 1) =
                [j \in 1 .. c |-> bytes[d + ChunkHeader + (n + 1 - 1) * c + j]]
          BY <4>2 DEF FrameAt
        <5> QED BY <4>4, <5>1
      <4>6. \A j \in 1 .. c : frame[j] = at(j)
        BY <4>1
      <4> HIDE DEF at
      <4>7. frame = FrameAt(bytes, d, c, n + 1)
        BY <4>3, <4>5, <4>6
      <4> QED BY <4>7 DEF c, n
    <3>6. /\ \A i \in 1 .. p.samples : Held(v, i) = Held(w, i)
          /\ Held(v, p.samples + 1) = Mean(frame)
      BY <1>8, <3>1, <3>4, EmittedHeld
    <3>7. \A i \in 1 .. q.samples :
            Held(v, i) = Mean(FrameAt(bytes, d, q.channels, i))
      <4> SUFFICES ASSUME NEW i \in 1 .. q.samples
                   PROVE  Held(v, i) = Mean(FrameAt(bytes, d, p.channels, i))
        BY <1>2
      <4>1. i \in 1 .. p.samples \/ i = p.samples + 1
        BY <1>1, <3>1
      <4>2. CASE i \in 1 .. p.samples
        BY <1>f, <3>6, <4>2
      <4>3. CASE i = p.samples + 1
        BY <3>5, <3>6, <4>3
      <4> QED BY <4>1, <4>2, <4>3
    <3>8. done + p.channels + 0 = done + Len(p.frame) + 1
      <4>1. len + 1 = p.channels /\ len \in Nat
        BY <1>6, <1>8, <2>1
      <4>2. done + (len + 1) + 0 = done + len + 1
        <5> HIDE DEF len
        <5> QED BY <1>6, <4>1
      <4> QED BY <4>1, <4>2
    <3> HIDE DEF p, q, done, frame
    <3> QED BY <1>6, <3>2, <3>3, <3>7, <3>8
  <2>2. CASE Len(frame) # p.channels
    <3>1. /\ v.bram = w.bram /\ q.frame = frame
          /\ q.samples = p.samples /\ q.word = p.word
          /\ q.channels = p.channels
      BY <1>2, <2>2
    <3>2. \A i : Held(v, i) = Held(w, i)
      BY <3>1 DEF Held
    <3>3. \A i \in 1 .. q.samples :
            Held(v, i) = Mean(FrameAt(bytes, d, q.channels, i))
      BY <1>f, <3>1, <3>2
    <3>4. \A j \in 1 .. Len(q.frame) :
            q.frame[j] =
              bytes[d + ChunkHeader + q.samples * q.channels + j]
      <4> HIDE DEF p, q, frame, bytes
      <4> QED BY <1>8, <1>h, <3>1 DEF first
    <3>5. q.samples * q.channels + Len(q.frame) = done + Len(p.frame) + 1
      <4>1. q.samples * q.channels = done
        BY <1>h, <3>1
      <4>2. Len(q.frame) = len + 1 /\ len \in Nat
        BY <1>6, <1>8, <3>1
      <4>3. done + (len + 1) = done + len + 1
        <5> HIDE DEF len
        <5> QED BY <1>6, <4>2
      <4> QED BY <4>1, <4>2, <4>3
    <3> QED BY <3>3, <3>4, <3>5
  <2> QED BY <2>1, <2>2
<1>10. CASE p.remaining # 1
  <2>1. q.phase = p.phase /\ ~q.data_seen
    BY <1>2, <1>3, <1>10
  <2>2. q.chunk = q.samples * q.channels + Len(q.frame) + q.remaining
    <3>1. p.chunk = (done + Len(p.frame) + 1) + (p.remaining - 1)
      <4> HIDE DEF p, done
      <4> QED BY <1>1, <1>4, <1>6
    <3> HIDE DEF p, q, done
    <3> QED BY <1>2, <1>9, <3>1
  <2> HIDE DEF p
  <2> QED BY <1>1, <1>2, <1>4, <1>5, <1>9, <2>1, <2>2 DEF DataRead, DataMet
<1>11. CASE p.remaining = 1
  <2>1. q.phase # "AUDIO_DATA" /\ q.data_seen
    BY <1>2, <1>11 DEF ChunkEnds
  <2>2. bytes[d + 2] = q.samples * q.channels + Len(q.frame)
    <3>1. p.chunk = done + Len(p.frame) + 1
      BY <1>4, <1>11
    <3> HIDE DEF p, q, done
    <3> QED BY <1>4, <1>9, <3>1
  <2> HIDE DEF p
  <2> QED BY <1>1, <1>9, <2>1, <2>2 DEF DataRead, DataMet
<1> QED BY <1>10, <1>11

(* After the RIFF header no chunk has been met yet.                        *)
LEMMA RiffParsed ==
  ASSUME NEW w \in WaveType, NEW v \in WaveType, NEW byte \in Nat,
         Control(w.parser), Control(v.parser), Counted(w, v, byte),
         RiffStep(w.parser, v.parser, byte), HeaderRead(w.parser),
         v.parser.crc
  PROVE  /\ Path(v.parser, {}) /\ Found(v.parser, {}, 0, 0)
         /\ FormatRead(v.parser, 0) /\ DataRead(v, 0)
<1> DEFINE p == w.parser
           q == v.parser
           bytes == p.file.bytes
           header == Append(p.header, byte)
<1>1. /\ p \in ParserType /\ q \in ParserType
      /\ q.file = p.file /\ q.received = p.received + 1
      /\ p.received \in Nat /\ p.header \in Seq(Nat)
      /\ bytes \in Seq(Nat) /\ byte = bytes[p.received + 1]
  BY WaveFields, ParserFields DEF Counted
<1>2. /\ p.phase = "RIFF_HEADER" /\ ~p.fmt_seen /\ ~p.data_seen
      /\ Len(p.header) = p.received /\ Len(p.header) < RiffHeader
      /\ q.phase \in {"RIFF_HEADER", "CHUNK_HEADER"}
      /\ ~q.fmt_seen /\ ~q.data_seen
  BY DEF Control, RiffStep, HeaderGrows, SameFormat, SameData
<1>3. FormatRead(q, 0) /\ DataRead(v, 0)
  BY <1>2 DEF FormatRead, DataRead, DataMet
<1>4. ~FmtMet(q) /\ ~DataMet(q)
  BY <1>2 DEF FmtMet, DataMet
<1>5. Found(q, {}, 0, 0)
  BY <1>4 DEF Found, Kind
<1>6. CASE q.phase = "RIFF_HEADER"
  BY <1>3, <1>5, <1>6 DEF Path
<1>7. CASE q.phase # "RIFF_HEADER"
  <2>1. /\ q.phase = "CHUNK_HEADER" /\ q.header = <<>>
        /\ Len(header) >= RiffHeader /\ header[1] = Riff
        /\ header[2] + RiffHeader = Len(bytes)
    BY <1>2, <1>7 DEF RiffStep, HeaderGrows
  <2>2. Len(header) = Len(p.header) + 1
    BY <1>1
  <2>3. p.received = 1 /\ Len(p.header) = 1
    <3> DEFINE got == p.received
    <3>1. got \in Nat /\ Len(p.header) = got /\ got < 2 /\ got + 1 >= 2
      BY <1>1, <1>2, <2>1, <2>2 DEF RiffHeader
    <3>2. got = 1
      <4> HIDE DEF got
      <4> QED BY <3>1
    <3> QED BY <3>1, <3>2
  <2>4. header[1] = p.header[1] /\ header[2] = byte
    BY <1>1, <2>3
  <2>5. byte = bytes[2]
    <3>1. p.received + 1 = 2
      BY <2>3
    <3> QED BY <1>1, <3>1
  <2>6. p.header[1] = bytes[1]
    <3>1. p.header[1] = bytes[p.received - Len(p.header) + 1]
      BY <1>2, <2>3 DEF HeaderRead
    <3>2. p.received - Len(p.header) + 1 = 1
      BY <2>3
    <3> QED BY <3>1, <3>2
  <2>7. NextStart(q) = RiffHeader
    <3>1. Len(q.header) = 0 /\ q.received = 2
      BY <1>1, <2>1, <2>3
    <3> QED BY <2>1, <3>1 DEF NextStart, RiffHeader
  <2>8. RiffHeader <= Len(bytes)
    <3>1. q.received <= Len(bytes) /\ q.received = 2
      BY <1>1, <2>3 DEF Control
    <3> QED BY <3>1 DEF RiffHeader
  <2>9. ChunksUpTo(bytes, {}, NextStart(q))
    BY <2>7 DEF ChunksUpTo
  <2>10. q.file.bytes = bytes
    BY <1>1
  <2> HIDE DEF p, q, bytes, header
  <2>11. Path(q, {})
    BY <2>1, <2>4, <2>5, <2>6, <2>7, <2>8, <2>9, <2>10 DEF Path
  <2> QED BY <1>3, <1>5, <2>11 DEF q
<1> QED BY <1>6, <1>7

(* One more chunk, right behind the others.                                *)
LEMMA OneMoreChunk ==
  ASSUME NEW bytes, NEW V \in SUBSET Nat, NEW end \in Nat, bytes[end + 2] \in Nat,
         \A k \in V : ChunkEnd(bytes, k) \in Int,
         ChunksUpTo(bytes, V, end)
  PROVE  ChunksUpTo(bytes, V \cup {end}, ChunkEnd(bytes, end))
<1> DEFINE next == ChunkEnd(bytes, end)
           W == V \cup {end}
<1>1. /\ next \in Nat /\ end < next
  <2>1. \A n \in Nat : /\ end + 2 + n + (n % 2) \in Nat
                       /\ end < end + 2 + n + (n % 2)
    <3> SUFFICES ASSUME NEW n \in Nat
                 PROVE  /\ end + 2 + n + (n % 2) \in Nat
                        /\ end < end + 2 + n + (n % 2)
      OBVIOUS
    <3>1. n % 2 \in {0, 1}
      OBVIOUS
    <3> HIDE DEF next
    <3> QED BY <3>1
  <2> QED BY <2>1 DEF ChunkEnd, ChunkHeader
<1> HIDE DEF next
<1>2. RiffHeader \in V \cup {end}
  BY DEF ChunksUpTo
<1>3. \A k \in V : /\ k < end /\ ChunkEnd(bytes, k) \in V \cup {end}
                   /\ \A m \in V : m <= k \/ ChunkEnd(bytes, k) <= m
  BY DEF ChunksUpTo
<1>4. ASSUME NEW k \in W
      PROVE  /\ k < next /\ ChunkEnd(bytes, k) \in W \cup {next}
             /\ \A m \in W : m <= k \/ ChunkEnd(bytes, k) <= m
  <2>1. CASE k = end
    <3>1. \A m \in W : m <= k
      BY <1>3, <2>1
    <3> QED BY <1>1, <2>1, <3>1 DEF next
  <2>2. CASE k \in V
    <3>1. k < next
      BY <1>1, <1>3, <2>2
    <3>2. ChunkEnd(bytes, k) \in V \cup {end}
      BY <1>3, <2>2
    <3>3. ChunkEnd(bytes, k) <= end
      <4>1. \A m \in V : m <= end
        BY <1>3
      <4>2. end <= end
        OBVIOUS
      <4> DEFINE x == ChunkEnd(bytes, k)
      <4>3. x \in V \cup {end}
        BY <3>2
      <4> HIDE DEF x
      <4>4. x <= end
        BY <4>1, <4>2, <4>3
      <4> QED BY <4>4 DEF x
    <3> QED BY <1>3, <2>2, <3>1, <3>2, <3>3
  <2> QED BY <2>1, <2>2
<1> QED BY <1>2, <1>4 DEF ChunksUpTo, next

(* A chunk header that is complete adds its chunk to those met.            *)
LEMMA EnterParsed ==
  ASSUME NEW w \in WaveType, NEW v \in WaveType, NEW byte \in Nat,
         Control(w.parser), Counted(w, v, byte),
         EnterStep(w.parser, v.parser, byte),
         v.parser.crc, v.parser.received <= Len(w.parser.file.bytes),
         NEW V \in SUBSET Nat, NEW e \in Nat, NEW d \in Nat,
         Parsed(w, V, e, d), v.bram = w.bram
  PROVE  LET at == NextStart(w.parser)
             kind == w.parser.file.bytes[at + 1]
             f == IF kind = Fmt THEN at ELSE e
             g == IF kind = Data THEN at ELSE d
         IN /\ at \in Nat
            /\ Path(v.parser, V \cup {at})
            /\ Found(v.parser, V \cup {at}, f, g)
            /\ FormatRead(v.parser, f) /\ DataRead(v, g)
<1> DEFINE p == w.parser
           q == v.parser
           bytes == p.file.bytes
           header == Append(p.header, byte)
           at == NextStart(p)
           kind == bytes[at + 1]
           n == bytes[at + 2]
           f == IF kind = Fmt THEN at ELSE e
           g == IF kind = Data THEN at ELSE d
           next == ChunkEnd(bytes, at)
           W == V \cup {at}
<1>1. /\ p \in ParserType /\ q \in ParserType
      /\ q.file = p.file /\ q.received = p.received + 1
      /\ p.received \in Nat /\ p.header \in Seq(Nat)
      /\ bytes \in Seq(Nat) /\ byte = bytes[p.received + 1]
      /\ p.samples \in Nat /\ p.channels \in Nat
  <2>1. p \in ParserType /\ q \in ParserType
    BY WaveFields
  <2>2. p.samples \in Nat
    <3>1. p.samples \in 0 .. Capacity /\ Capacity \in Nat
      BY <2>1, ParserFields, WaveformAssumption
    <3> QED BY <3>1
  <2> QED BY <2>1, <2>2, ParserFields DEF Counted
<1>2. /\ HeaderRead(p) /\ Path(p, V) /\ Found(p, V, e, d)
      /\ FormatRead(p, e) /\ DataRead(w, d)
  BY DEF Parsed
<1>3. /\ p.phase = "CHUNK_HEADER" /\ Len(header) = ChunkHeader
      /\ header[2] \in Nat /\ q.chunk = header[2] /\ q.remaining = header[2]
      /\ header[2] + (header[2] % 2) <= Len(bytes) - (p.received + 1)
      /\ header[1] = Fmt => ~p.fmt_seen /\ header[2] # 0 /\ q.fmt = <<>>
      /\ header[1] = Data =>
           p.fmt_seen /\ ~p.data_seen /\ header[2] # 0 /\ q.fmt = p.fmt
      /\ header[2] # 0 => q.phase = ChunkPhase(header[1])
      /\ header[2] = 0 => q.phase = "CHUNK_HEADER"
      /\ q.header = <<>>
      /\ q.channels = p.channels /\ q.fmt_seen = p.fmt_seen
      /\ SameData(p, q)
  BY DEF EnterStep
<1>4. Len(p.header) = 1
  <2>1. Len(header) = Len(p.header) + 1 /\ Len(p.header) \in Nat
    BY <1>1, SMTT(30)
  <2>2. \A m \in Nat : m + 1 = 2 => m = 1
    OBVIOUS
  <2>3. Len(header) = 2
    BY <1>3 DEF ChunkHeader
  <2> HIDE DEF header
  <2> QED BY <2>1, <2>2, <2>3
<1>5. at = p.received - 1
  BY <1>3, <1>4 DEF NextStart
<1>6. header[1] = kind /\ header[2] = n
  <2>1. header[1] = p.header[1] /\ header[2] = byte
    <3>1. p.header \in Seq(Nat)
      BY <1>1
    <3> QED BY <1>4, <3>1, SMTT(30)
  <2>2. p.header[1] = bytes[p.received - Len(p.header) + 1]
    BY <1>2, <1>3, <1>4 DEF HeaderRead
  <2>3. p.received - Len(p.header) + 1 = at + 1 /\ p.received + 1 = at + 2
    BY <1>1, <1>4, <1>5
  <2> HIDE DEF p, at, bytes, header
  <2> QED BY <1>1, <2>1, <2>2, <2>3
<1>7. /\ bytes[1] = Riff /\ bytes[2] + RiffHeader = Len(bytes)
      /\ at <= Len(bytes)
      /\ V \subseteq RiffHeader .. Len(bytes) - ChunkHeader
      /\ ChunksUpTo(bytes, V, at)
  BY <1>2, <1>3 DEF Path
<1> HIDE DEF header, kind, n
<1>8. /\ n \in Nat /\ q.chunk = n /\ q.remaining = n
      /\ n + (n % 2) <= Len(bytes) - (p.received + 1)
      /\ kind = Fmt => ~p.fmt_seen /\ n # 0 /\ q.fmt = <<>>
      /\ kind = Data => p.fmt_seen /\ ~p.data_seen /\ n # 0
      /\ n # 0 => q.phase = ChunkPhase(kind)
      /\ n = 0 => q.phase = "CHUNK_HEADER"
  BY <1>3, <1>6
<1>9. at \in RiffHeader .. Len(bytes) - ChunkHeader
  <2> DEFINE len == Len(bytes)
             got == p.received
  <2>1. got \in Nat /\ len \in Nat /\ at = got - 1 /\ got + 1 <= len
    BY <1>1, <1>5
  <2>2. at >= RiffHeader
    <3>1. RiffHeader \in V \cup {at} /\ \A k \in V : k < at
      BY <1>7 DEF ChunksUpTo
    <3> HIDE DEF at, len, got
    <3> QED BY <2>1, <3>1 DEF RiffHeader
  <2> HIDE DEF at, len, got
  <2>3. at \in RiffHeader .. len - ChunkHeader
    BY <2>1, <2>2 DEF RiffHeader, ChunkHeader
  <2> QED BY <2>3 DEF len
<1>10. at \in Nat
  <2> HIDE DEF at
  <2> QED BY <1>9 DEF RiffHeader
<1>11. NextStart(q) = next
  <2>1. next = at + 2 + n + (n % 2)
    BY DEF ChunkEnd, ChunkHeader, n
  <2>2. q.received = at + 2
    BY <1>1, <1>5
  <2>3. CASE n = 0
    <3>1. NextStart(q) = q.received - 0
      <4>1. Len(q.header) = 0
        BY <1>3
      <4> QED BY <1>8, <2>3, <4>1 DEF NextStart
    <3>2. n % 2 = 0
      BY <2>3
    <3> HIDE DEF at, q, next
    <3> QED BY <1>10, <2>1, <2>2, <2>3, <3>1, <3>2
  <2>4. CASE n # 0
    <3>1. q.phase \notin {"CHUNK_HEADER", "PAD"}
      BY <1>8, <2>4 DEF ChunkPhase
    <3>2. NextStart(q) = q.received + n + (n % 2)
      BY <1>8, <3>1 DEF NextStart
    <3> QED BY <2>1, <2>2, <3>2
  <2> QED BY <2>3, <2>4
<1>12. next <= Len(bytes)
  <2> DEFINE len == Len(bytes)
             odd == n % 2
  <2>1. next = at + 2 + n + odd /\ odd \in Nat /\ len \in Nat
    <3>1. next = at + 2 + n + odd
      BY DEF ChunkEnd, ChunkHeader, n
    <3>2. odd \in Nat
      BY <1>8
    <3>3. len \in Nat
      BY <1>1
    <3> QED BY <3>1, <3>2, <3>3
  <2>2. n + odd <= len - (at + 2)
    <3>1. p.received + 1 = at + 2
      BY <1>1, <1>5
    <3> HIDE DEF at, len, odd
    <3> QED BY <1>8, <3>1 DEF odd, len
  <2> HIDE DEF at, len, odd, next
  <2>3. next <= len
    BY <1>8, <1>10, <2>1, <2>2
  <2> QED BY <2>3 DEF len
<1>13. ChunksUpTo(bytes, W, next)
  <2>1. \A k \in V : ChunkEnd(bytes, k) \in Int
    <3>1. \A k \in V : ChunkEnd(bytes, k) \in V \cup {at}
      BY <1>7 DEF ChunksUpTo
    <3> SUFFICES ASSUME NEW k \in V
                 PROVE  ChunkEnd(bytes, k) \in Int
      OBVIOUS
    <3>2. ChunkEnd(bytes, k) \in V \cup {at}
      BY <3>1
    <3> DEFINE x == ChunkEnd(bytes, k)
    <3>3. V \cup {at} \subseteq Int
      <4> HIDE DEF at
      <4> QED BY <1>10
    <3>4. x \in V \cup {at}
      BY <3>2
    <3> HIDE DEF at, x
    <3>5. x \in Int
      BY <3>3, <3>4
    <3> QED BY <3>5 DEF x
  <2>2. bytes[at + 2] \in Nat
    BY <1>8 DEF n
  <2> HIDE DEF at, bytes
  <2> QED BY <1>7, <1>10, <2>1, <2>2, OneMoreChunk
<1>14. W \subseteq RiffHeader .. Len(bytes) - ChunkHeader
  BY <1>7, <1>9
<1>15. q.file.bytes = bytes
  BY <1>1
<1>16. Path(q, W)
  <2> HIDE DEF q, bytes, W, next
  <2> QED BY <1>7, <1>11, <1>12, <1>13, <1>14, <1>15 DEF Path
(* The kinds of the chunks.                                                *)
<1>17. /\ FmtMet(q) <=> FmtMet(p) \/ kind = Fmt
       /\ DataMet(q) <=> DataMet(p) \/ kind = Data
       /\ kind = Fmt => ~FmtMet(p) /\ q.phase = "FORMAT"
       /\ kind = Data => ~DataMet(p) /\ FmtMet(p) /\ q.phase = "AUDIO_DATA"
       /\ q.phase = "FORMAT" => kind = Fmt
       /\ q.phase = "AUDIO_DATA" => kind = Data
       /\ q.phase # "RIFF_HEADER"
  <2>1. q.phase = IF n = 0 THEN "CHUNK_HEADER" ELSE ChunkPhase(kind)
    BY <1>8
  <2>2. q.data_seen = p.data_seen /\ q.fmt_seen = p.fmt_seen
    BY <1>3 DEF SameData
  <2>3. Fmt # Data
    BY DEF Fmt, Data
  <2>4. /\ kind = Fmt => q.phase = "FORMAT"
        /\ kind = Data => q.phase = "AUDIO_DATA"
        /\ q.phase = "FORMAT" => kind = Fmt
        /\ q.phase = "AUDIO_DATA" => kind = Data
        /\ q.phase # "RIFF_HEADER"
    BY <1>8, <2>1, <2>3 DEF ChunkPhase
  <2> HIDE DEF p, q
  <2> QED BY <1>3, <1>8, <2>2, <2>4 DEF FmtMet, DataMet
<1>18. /\ FmtMet(p) => Kind(bytes, V, Fmt) = {e}
       /\ ~FmtMet(p) => Kind(bytes, V, Fmt) = {}
       /\ DataMet(p) => Kind(bytes, V, Data) = {d} /\ e < d
       /\ ~DataMet(p) => Kind(bytes, V, Data) = {}
  BY <1>2, <1>3 DEF Found
<1>19. /\ kind = Fmt => Kind(bytes, W, Fmt) = Kind(bytes, V, Fmt) \cup {at}
       /\ kind # Fmt => Kind(bytes, W, Fmt) = Kind(bytes, V, Fmt)
       /\ kind = Data => Kind(bytes, W, Data) = Kind(bytes, V, Data) \cup {at}
       /\ kind # Data => Kind(bytes, W, Data) = Kind(bytes, V, Data)
  <2> HIDE DEF at, bytes
  <2>1. /\ kind = Fmt => Kind(bytes, W, Fmt) = Kind(bytes, V, Fmt) \cup {at}
        /\ kind # Fmt => Kind(bytes, W, Fmt) = Kind(bytes, V, Fmt)
    BY DEF Kind, kind
  <2>2. /\ kind = Data => Kind(bytes, W, Data) = Kind(bytes, V, Data) \cup {at}
        /\ kind # Data => Kind(bytes, W, Data) = Kind(bytes, V, Data)
    BY DEF Kind, kind
  <2> QED BY <2>1, <2>2
<1>20. FmtMet(p) => e < at
  <2>1. FmtMet(p) => e \in V
    BY <1>18 DEF Kind
  <2> QED BY <1>7, <2>1 DEF ChunksUpTo
<1>21. Found(q, W, f, g)
  <2>1. Fmt # Data
    BY DEF Fmt, Data
  <2>2. /\ FmtMet(q) => Kind(bytes, W, Fmt) = {f}
        /\ ~FmtMet(q) => Kind(bytes, W, Fmt) = {}
    <3> HIDE DEF p, q, bytes, at, W
    <3> QED BY <1>17, <1>18, <1>19
  <2>3. /\ DataMet(q) => Kind(bytes, W, Data) = {g}
        /\ ~DataMet(q) => Kind(bytes, W, Data) = {}
    <3> HIDE DEF p, q, bytes, at, W
    <3> QED BY <1>17, <1>18, <1>19
  <2>4. DataMet(q) => f < g
    <3>1. CASE kind = Data
      <4>1. f = e /\ g = at
        BY <2>1, <3>1
      <4> QED BY <1>17, <1>20, <3>1, <4>1
    <3>2. CASE kind # Data
      <4>1. DataMet(q) => DataMet(p)
        BY <1>17, <3>2
      <4>2. DataMet(p) => FmtMet(p)
        BY DEF DataMet, FmtMet, Control
      <4>3. DataMet(q) => f = e /\ g = d
        BY <1>17, <3>2, <4>1, <4>2
      <4> QED BY <1>18, <4>1, <4>3
    <3> QED BY <3>1, <3>2
  <2> HIDE DEF q, bytes, f, g, W
  <2> QED BY <1>15, <2>2, <2>3, <2>4 DEF Found
<1>22. FormatRead(q, f)
  <2>1. CASE kind = Fmt
    <3>1. f = at /\ q.chunk = bytes[at + 2] /\ q.fmt = <<>>
          /\ q.remaining = q.chunk /\ ~q.fmt_seen
      BY <1>3, <1>8, <2>1 DEF n
    <3> HIDE DEF q, bytes, at, f
    <3> QED BY <1>11, <1>15, <3>1 DEF FormatRead
  <2>2. CASE kind # Fmt
    <3>1. f = e /\ q.phase # "FORMAT"
          /\ (p.fmt_seen => p.channels = bytes[e + 3])
      BY <1>2, <1>17, <2>2 DEF FormatRead
    <3> HIDE DEF q, bytes, at, f
    <3> QED BY <1>3, <1>15, <3>1 DEF FormatRead
  <2> QED BY <2>1, <2>2
<1>23. DataRead(v, g)
  <2>1. CASE kind = Data
    <3>1. /\ g = at /\ ~q.data_seen /\ q.chunk = bytes[at + 2]
          /\ q.remaining = q.chunk /\ q.samples = 0 /\ q.frame = <<>>
          /\ q.channels = p.channels
      BY <1>3, <1>8, <2>1 DEF n, Control, SameData
    <3>2. Len(q.frame) = 0 /\ q.samples * q.channels = 0 /\ q.chunk \in Nat
      <4>1. \A m \in Nat : 0 * m = 0
        OBVIOUS
      <4> QED BY <1>1, <1>8, <3>1, <4>1
    <3>3. q.chunk = q.samples * q.channels + Len(q.frame) + q.remaining
      <4>1. \A m \in Nat : m = 0 + 0 + m
        OBVIOUS
      <4> QED BY <3>1, <3>2, <4>1
    <3>4. 1 .. Len(q.frame) = {} /\ 1 .. q.samples = {}
      BY <3>1, <3>2
    <3> HIDE DEF q, bytes, at, g
    <3> QED BY <1>11, <1>15, <3>1, <3>3, <3>4 DEF DataRead, q
  <2>2. CASE kind # Data
    <3>1. g = d /\ q.phase # "AUDIO_DATA"
      BY <1>17, <2>2
    <3>2. SameData(p, q) /\ q.channels = p.channels
      BY <1>3
    <3> QED BY <1>1, <1>2, <3>1, <3>2, DataReadKept
  <2> QED BY <2>1, <2>2
<1> QED BY <1>10, <1>16, <1>21, <1>22, <1>23 DEF kind

(* Every byte that is accepted keeps the invariant of the upload.          *)
LEMMA SoundStep ==
  ASSUME NEW w \in WaveType, NEW v \in WaveType, NEW byte \in Nat, Sound(w),
         w.parser.received < Len(w.parser.file.bytes),
         Counted(w, v, byte), ByteStep(w, v, byte)
  PROVE  Sound(v)
<1> DEFINE p == w.parser
           q == v.parser
<1>1. Control(p) /\ Control(q)
  BY StepControl DEF Sound
<1>2. SUFFICES ASSUME q.crc
               PROVE  \E V \in SUBSET Nat, e, d \in Nat : Parsed(v, V, e, d)
  BY <1>1 DEF Sound
<1>3. /\ p.crc /\ q.file = p.file
      /\ p \in ParserType /\ q \in ParserType
  BY <1>2, WaveFields DEF Counted
<1>4. PICK V \in SUBSET Nat, e \in Nat, d \in Nat : Parsed(w, V, e, d)
  BY <1>3 DEF Sound
<1>5. /\ HeaderRead(p) /\ Path(p, V) /\ Found(p, V, e, d)
      /\ FormatRead(p, e) /\ DataRead(w, d)
  BY <1>4 DEF Parsed
<1>6. HeaderRead(q)
  BY <1>1, <1>2, <1>5, HeaderReadStep
<1>7. CASE RiffStep(p, q, byte)
  <2>1. /\ Path(q, {}) /\ Found(q, {}, 0, 0)
        /\ FormatRead(q, 0) /\ DataRead(v, 0)
    BY <1>1, <1>2, <1>5, <1>7, RiffParsed
  <2>2. Parsed(v, {}, 0, 0)
    BY <1>6, <2>1 DEF Parsed
  <2> QED BY <2>2
<1>8. CASE EnterStep(p, q, byte) /\ v.bram = w.bram
  <2> DEFINE at == NextStart(p)
             kind == p.file.bytes[at + 1]
             f == IF kind = Fmt THEN at ELSE e
             g == IF kind = Data THEN at ELSE d
  <2>1. q.received <= Len(p.file.bytes)
    BY <1>1, <1>3 DEF Control
  <2>2. /\ at \in Nat
        /\ Path(q, V \cup {at}) /\ Found(q, V \cup {at}, f, g)
        /\ FormatRead(q, f) /\ DataRead(v, g)
    BY <1>1, <1>2, <1>4, <1>8, <2>1, EnterParsed
  <2>3. V \cup {at} \in SUBSET Nat /\ f \in Nat /\ g \in Nat
    BY <2>2
  <2> HIDE DEF at, f, g
  <2>4. Parsed(v, V \cup {at}, f, g)
    BY <1>6, <2>2, <2>3 DEF Parsed
  <2> QED BY <2>3, <2>4
<1>9. CASE /\ Within(w, v, byte)
           /\ v.bram = w.bram \/ DataStep(w, v, byte)
  <2>1. /\ NextStart(q) = NextStart(p)
        /\ p.phase # "RIFF_HEADER" /\ q.phase # "RIFF_HEADER"
        /\ FmtMet(q) <=> FmtMet(p)
        /\ DataMet(q) <=> DataMet(p)
    BY <1>1, <1>9, WithinKeeps
  <2>2. Path(q, V) /\ Found(q, V, e, d)
    <3> HIDE DEF p, q
    <3> QED BY <1>3, <1>5, <2>1 DEF Path, Found
  <2>3. FormatRead(q, e)
    BY <1>1, <1>2, <1>5, <1>9, FormatReadStep
  <2>4. DataRead(v, d)
    <3>1. CASE DataStep(w, v, byte)
      BY <1>1, <1>2, <1>5, <3>1, DataReadStep
    <3>2. CASE v.bram = w.bram /\ ~DataStep(w, v, byte)
      <4>1. \/ HeaderStep(p, q, byte) \/ FormatStep(p, q, byte)
            \/ SkipStep(p, q) \/ PadStep(p, q)
        BY <1>9, <3>2 DEF Within
      <4>2. SameData(p, q)
        BY <4>1 DEF HeaderStep, HeaderGrows, FormatStep, SkipStep, PadStep
      <4>3. q.phase # "AUDIO_DATA"
        BY <4>1 DEF HeaderStep, HeaderGrows, FormatStep, SkipStep, PadStep,
                    ChunkEnds
      <4>4. p.data_seen => q.channels = p.channels
        <5>1. p.data_seen => ~FormatStep(p, q, byte)
          BY <1>1 DEF Control, FormatStep
        <5>2. ~FormatStep(p, q, byte) => SameFormat(p, q)
          BY <4>1 DEF HeaderStep, HeaderGrows, SkipStep, PadStep
        <5> QED BY <5>1, <5>2 DEF SameFormat
      <4> QED BY <1>3, <1>5, <3>2, <4>2, <4>3, <4>4, DataReadKept
    <3> QED BY <1>9, <3>1, <3>2
  <2>5. Parsed(v, V, e, d)
    BY <1>6, <2>2, <2>3, <2>4 DEF Parsed
  <2> QED BY <2>5
<1> QED BY <1>7, <1>8, <1>9 DEF ByteStep, Within

(* What the first n bytes of a piece have left.                            *)
FedSoFar(w, n, r) ==
  /\ r.wave \in WaveType
  /\ r.wave.current_id = w.current_id /\ r.wave.next_id = w.next_id
  /\ r.wave.current_samples = w.current_samples
  /\ r.wave.uploading = w.uploading /\ r.wave.locked = w.locked
  /\ r.wave.parser.file = w.parser.file
  /\ r.ok => r.wave.parser.received = w.parser.received + n /\ Sound(r.wave)

(* One byte more of a piece.                                               *)
LEMMA FedMore ==
  ASSUME NEW w \in WaveType, NEW n \in Nat, NEW r, NEW byte \in Nat, NEW idle,
         FedSoFar(w, n, r),
         w.parser.received + n < Len(w.parser.file.bytes)
  PROVE  FedSoFar(w, n + 1, FedNext(r, byte, idle))
<1>1. CASE ~r.ok
  BY <1>1 DEF FedSoFar, FedNext
<1>2. CASE r.ok
  <2> DEFINE u == r.wave
             s == FedByte(u, byte, idle)
             v == s.wave
  <2>1. /\ u \in WaveType /\ Sound(u)
        /\ u.parser.received = w.parser.received + n
        /\ u.parser.file = w.parser.file
    BY <1>2 DEF FedSoFar
  <2>2. Control(u.parser)
    BY <2>1 DEF Sound
  <2>3. Counted(u, v, byte) /\ (s.ok => ByteStep(u, v, byte))
    BY <2>1, <2>2, FedByteStep
  <2>4. v \in WaveType
    BY <2>3 DEF Counted
  <2>5. s.ok => Sound(v)
    <3>1. u.parser.received < Len(u.parser.file.bytes)
      BY <2>1
    <3> HIDE DEF u, v, s
    <3> QED BY <2>1, <2>3, <2>4, <3>1, SoundStep
  <2>6. FedNext(r, byte, idle) = s
    BY <1>2 DEF FedNext
  <2>7. v.parser.received = w.parser.received + (n + 1)
    <3>1. v.parser.received = (w.parser.received + n) + 1
      BY <2>1, <2>3 DEF Counted
    <3>2. w.parser.received \in Nat
      BY WaveFields, ParserFields
    <3> QED BY <3>1, <3>2
  <2>8. /\ u.current_id = w.current_id /\ u.next_id = w.next_id
        /\ u.current_samples = w.current_samples
        /\ u.uploading = w.uploading /\ u.locked = w.locked
    BY DEF FedSoFar
  <2> HIDE DEF u
  <2> QED BY <2>1, <2>3, <2>4, <2>5, <2>6, <2>7, <2>8, Zenon
          DEF FedSoFar, Counted
<1> QED BY <1>1, <1>2

(* By induction, all bytes of a piece.                                     *)
LEMMA AllFed ==
  ASSUME NEW w \in WaveType, NEW data \in Seq(Nat), NEW idle, Sound(w),
         Len(data) <= Len(w.parser.file.bytes) - w.parser.received
  PROVE  FedSoFar(w, Len(data), FedAll(w, data, idle))
<1>1. PICK h : /\ h[0] = Accepted(w)
               /\ \A n \in 1 .. Len(data) :
                    h[n] = FedNext(h[n - 1], data[n], idle)
               /\ FedAll(w, data, idle) = h[Len(data)]
  BY FedInOrder
<1>2. /\ Len(data) \in Nat /\ w.parser.received \in Nat
      /\ Len(w.parser.file.bytes) \in Nat
  BY WaveFields, ParserFields
<1> DEFINE T == {n \in Nat : n <= Len(data) => FedSoFar(w, n, h[n])}
<1>3. 0 \in T
  <2>1. h[0].ok /\ h[0].wave = w
    BY <1>1 DEF Accepted
  <2>2. w.parser.received + 0 = w.parser.received
    BY <1>2
  <2> QED BY <2>1, <2>2 DEF FedSoFar
<1>4. ASSUME NEW n \in Nat, n \in T
      PROVE  n + 1 \in T
  <2>1. SUFFICES ASSUME n + 1 <= Len(data)
                 PROVE  FedSoFar(w, n + 1, h[n + 1])
    OBVIOUS
  <2>2. /\ n <= Len(data) /\ n + 1 \in 1 .. Len(data)
        /\ (n + 1) - 1 = n
    BY <1>2, <2>1
  <2>3. FedSoFar(w, n, h[n])
    BY <1>4, <2>2
  <2>4. h[n + 1] = FedNext(h[n], data[n + 1], idle)
    BY <1>1, <2>2
  <2>5. data[n + 1] \in Nat
    BY <2>2
  <2>6. w.parser.received + n < Len(w.parser.file.bytes)
    <3> DEFINE len == Len(data)
               got == w.parser.received
               size == Len(w.parser.file.bytes)
    <3>1. len <= size - got /\ n + 1 <= len
          /\ len \in Nat /\ size \in Nat /\ got \in Nat
      BY <1>2, <2>1
    <3> HIDE DEF len, got, size
    <3>2. got + n < size
      BY <3>1
    <3> QED BY <3>2 DEF got, size
  <2> QED BY <2>3, <2>4, <2>5, <2>6, FedMore
<1> HIDE DEF T
<1>5. Nat \subseteq T
  BY <1>3, <1>4, SetInduction
<1>6. Len(data) \in T
  BY <1>2, <1>5
<1>7. Len(data) <= Len(data)
  BY <1>2
<1> QED BY <1>1, <1>6, <1>7 DEF T

-----------------------------------------------------------------------------
(* The operations of the upload.                                           *)

(* The end of an upload changes nothing else.                              *)
LEMMA NotUploadingType ==
  ASSUME NEW w \in WaveType
  PROVE  LET v == [w EXCEPT !.uploading = FALSE]
         IN /\ v \in WaveType /\ ~v.uploading
            /\ v.current_id = w.current_id /\ v.next_id = w.next_id
            /\ v.current_samples = w.current_samples /\ v.locked = w.locked
            /\ v.parser = w.parser /\ v.bram = w.bram
  BY DEF WaveType

(* Appended: a piece out of turn changes nothing, and a piece that is      *)
(* taken keeps the invariant.                                              *)
LEMMA AppendedEffect ==
  ASSUME NEW w \in WaveType, NEW offset, NEW data \in Seq(Nat), NEW idle,
         w.uploading => Sound(w)
  PROVE  LET v == Appended(w, offset, data, idle).wave
         IN /\ v \in WaveType
            /\ v.current_id = w.current_id /\ v.next_id = w.next_id
            /\ v.current_samples = w.current_samples
            /\ v.locked = w.locked /\ v.parser.file = w.parser.file
            /\ v.uploading => w.uploading /\ Sound(v)
            /\ ~w.uploading \/ w.locked => v = w
<1> DEFINE p == w.parser
           fed == FedAll(w, data, idle)
           bad == \/ w.locked \/ ~w.uploading \/ Len(data) = 0
                  \/ offset # p.received
                  \/ Len(data) > Len(p.file.bytes) - p.received
           a == Appended(w, offset, data, idle)
           v == a.wave
<1> SUFFICES /\ v \in WaveType
             /\ v.current_id = w.current_id /\ v.next_id = w.next_id
             /\ v.current_samples = w.current_samples
             /\ v.locked = w.locked /\ v.parser.file = w.parser.file
             /\ v.uploading => w.uploading /\ Sound(v)
             /\ ~w.uploading \/ w.locked => v = w
  OBVIOUS
<1>1. a = CASE bad -> Refused(w)
            [] OTHER -> IF fed.ok THEN fed
                        ELSE Refused([fed.wave EXCEPT !.uploading = FALSE])
  BY DEF Appended, FedAll
<1>2. CASE bad
  <2>1. v = w
    <3> HIDE DEF bad, fed
    <3> QED BY <1>1, <1>2 DEF Refused
  <2> HIDE DEF v
  <2> QED BY <2>1
<1>3. CASE ~bad
  <2>1. w.uploading /\ ~w.locked /\ Sound(w)
    BY <1>3
  <2>2. Len(data) <= Len(p.file.bytes) - p.received
    <3>1. /\ Len(data) \in Nat /\ p.received \in Nat
          /\ Len(p.file.bytes) \in Nat
      BY WaveFields, ParserFields
    <3>2. ~(Len(data) > Len(p.file.bytes) - p.received)
      BY <1>3
    <3> DEFINE len == Len(data)
               room == Len(p.file.bytes) - p.received
    <3>3. len \in Int /\ room \in Int /\ ~(len > room)
      BY <3>1, <3>2
    <3> HIDE DEF len, room
    <3>4. len <= room
      BY <3>3
    <3> QED BY <3>4 DEF len, room
  <2>3. FedSoFar(w, Len(data), fed)
    BY <2>1, <2>2, AllFed
  <2> DEFINE u == fed.wave
  <2>4. /\ u \in WaveType
        /\ u.current_id = w.current_id /\ u.next_id = w.next_id
        /\ u.current_samples = w.current_samples
        /\ u.uploading = w.uploading /\ u.locked = w.locked
        /\ u.parser.file = p.file
        /\ fed.ok => Sound(u)
    BY <2>3 DEF FedSoFar
  <2>5. CASE fed.ok
    <3>1. v = u
      <4> HIDE DEF bad, fed
      <4> QED BY <1>1, <1>3, <2>5
    <3> HIDE DEF v, u, fed
    <3> QED BY <2>1, <2>4, <2>5, <3>1
  <2>6. CASE ~fed.ok
    <3>1. v = [u EXCEPT !.uploading = FALSE]
      <4> DEFINE x == [u EXCEPT !.uploading = FALSE]
      <4>1. a = Refused(x)
        <5> HIDE DEF bad, fed, a
        <5> QED BY <1>1, <1>3, <2>6
      <4> HIDE DEF x
      <4>2. Refused(x).wave = x
        BY DEF Refused
      <4> QED BY <4>1, <4>2 DEF x
    <3> HIDE DEF u, fed
    <3>2. /\ v \in WaveType /\ ~v.uploading
          /\ v.current_id = u.current_id /\ v.next_id = u.next_id
          /\ v.current_samples = u.current_samples /\ v.locked = u.locked
          /\ v.parser = u.parser
      BY <2>4, <3>1, NotUploadingType
    <3> HIDE DEF v
    <3> QED BY <2>1, <2>4, <3>2
  <2> QED BY <2>5, <2>6
<1> QED BY <1>2, <1>3

(* Of a new upload nothing has been read.                                  *)
LEMMA NewParser ==
  ASSUME NEW file \in [bytes : Seq(Nat), pcm : Seq(Sample)]
  PROVE  LET q == [NoParser EXCEPT !.file = file]
         IN /\ q \in ParserType /\ Control(q) /\ HeaderRead(q)
            /\ q.file = file /\ q.received = 0 /\ q.phase = "RIFF_HEADER"
            /\ ~q.fmt_seen /\ ~q.data_seen
<1> DEFINE q == [NoParser EXCEPT !.file = file]
<1>1. /\ q.phase = "RIFF_HEADER" /\ q.header = <<>> /\ q.fmt = <<>>
      /\ q.frame = <<>> /\ q.remaining = 0 /\ q.chunk = 0 /\ q.channels = 0
      /\ q.samples = 0 /\ q.word = 0 /\ q.file = file /\ q.crc = TRUE
      /\ q.received = 0 /\ q.fmt_seen = FALSE /\ q.data_seen = FALSE
  BY DEF NoParser
<1>2. <<>> \in Seq(Nat) /\ 0 \in Nat
  OBVIOUS
<1>3. 0 \in 0 .. Capacity
  BY WaveformAssumption
<1>4. "RIFF_HEADER" \in Phase /\ 0 \in Sample
  BY SampleInt DEF Phase
<1>5. q \in ParserType
  <2>1. NoFile \in [bytes : Seq(Nat), pcm : Seq(Sample)]
    <3>1. <<>> \in Seq(Nat) /\ <<>> \in Seq(Sample)
      OBVIOUS
    <3> QED BY <3>1 DEF NoFile
  <2>2. NoParser \in ParserType
    BY <1>2, <1>3, <1>4, <2>1 DEF NoParser, ParserType
  <2> QED BY <2>2 DEF ParserType
<1>6. Len(<<>>) = 0 /\ 1 .. 0 = {}
  OBVIOUS
<1>7. Len(file.bytes) \in Nat
  BY DEF ParserType
<1> HIDE DEF q
<1>8. Control(q)
  <2>1. Len(q.header) = 0 /\ 0 < RiffHeader /\ 0 <= Len(file.bytes)
    BY <1>1, <1>6, <1>7 DEF RiffHeader
  <2> QED BY <1>1, <2>1 DEF Control
<1>9. HeaderRead(q)
  BY <1>1, <1>6 DEF HeaderRead
<1> QED BY <1>1, <1>5, <1>8, <1>9 DEF q

LEMMA NewSound ==
  ASSUME NEW v \in WaveType, NEW file \in [bytes : Seq(Nat), pcm : Seq(Sample)],
         v.parser = [NoParser EXCEPT !.file = file]
  PROVE  Sound(v)
<1> DEFINE q == v.parser
<1>1. /\ Control(q) /\ HeaderRead(q) /\ q.phase = "RIFF_HEADER"
      /\ ~q.fmt_seen /\ ~q.data_seen
  BY NewParser
<1>2. Parsed(v, {}, 0, 0)
  BY <1>1 DEF Parsed, Path, Found, FormatRead, DataRead, DataMet
<1>3. {} \in SUBSET Nat /\ 0 \in Nat
  OBVIOUS
<1> QED BY <1>1, <1>2, <1>3 DEF Sound

(* Begun: the old waveform is gone, and the upload is sound.               *)
LEMMA BegunEffect ==
  ASSUME NEW w \in WaveType, NEW file \in [bytes : Seq(Nat), pcm : Seq(Sample)],
         Begun(w, file).ok
  PROVE  LET v == Begun(w, file).wave
         IN /\ v \in WaveType /\ v.current_id = 0 /\ v.current_samples = 0
            /\ v.uploading /\ v.locked = w.locked /\ ~w.locked
            /\ v.next_id = w.next_id /\ v.next_id # MaxWaveform
            /\ v.parser.file = file /\ Sound(v)
<1> DEFINE q == [NoParser EXCEPT !.file = file]
           v == [w EXCEPT !.current_id = 0, !.current_samples = 0,
                          !.parser = q, !.uploading = TRUE]
<1>1. /\ ~w.locked /\ ~w.uploading /\ w.next_id # MaxWaveform
      /\ Begun(w, file) = Accepted(v)
  BY DEF Begun, Refused
<1>2. Begun(w, file).wave = v
  BY <1>1 DEF Accepted
<1>3. q \in ParserType /\ q.file = file
  BY NewParser
<1>4. 0 \in 0 .. MaxWaveform /\ 0 \in 0 .. Capacity
  BY WaveformAssumption
<1>5. /\ v \in WaveType /\ v.current_id = 0 /\ v.current_samples = 0
      /\ v.uploading /\ v.locked = w.locked /\ v.next_id = w.next_id
      /\ v.parser = q
  <2> HIDE DEF q
  <2> QED BY <1>3, <1>4 DEF WaveType
<1> HIDE DEF v
<1>6. Sound(v)
  BY <1>5, NewSound
<1> HIDE DEF q
<1> QED BY <1>1, <1>2, <1>3, <1>5, <1>6

(* A whole file has been read as the reader of the whole file reads it.    *)
LEMMA WholeIsRead ==
  ASSUME NEW w \in WaveType, Sound(w), Whole(w), w.parser.crc,
         WavFile(w.parser.file)
  PROVE  LET p == w.parser
             pcm == p.file.pcm
         IN /\ Len(pcm) = p.samples
            /\ \A i \in 1 .. p.samples : Held(w, i) = pcm[i]
<1> DEFINE p == w.parser
           bytes == p.file.bytes
           pcm == p.file.pcm
           size == Len(bytes)
           n == p.samples
<1>1. /\ p \in ParserType /\ bytes \in Seq(Nat) /\ n \in Nat
      /\ p.received \in Nat
  <2>1. p \in ParserType
    BY WaveFields
  <2>2. n \in Nat
    <3>1. n \in 0 .. Capacity /\ Capacity \in Nat
      BY <2>1, ParserFields, WaveformAssumption
    <3> QED BY <3>1
  <2> QED BY <2>1, <2>2, ParserFields
<1>2. /\ p.received = size /\ p.fmt_seen /\ p.data_seen
      /\ p.phase = "CHUNK_HEADER" /\ p.header = <<>> /\ p.frame = <<>>
  BY DEF Whole
<1>3. PICK V \in SUBSET Nat, e \in Nat, d \in Nat : Parsed(w, V, e, d)
  BY DEF Sound
<1>4. Path(p, V) /\ Found(p, V, e, d) /\ FormatRead(p, e) /\ DataRead(w, d)
  BY <1>3 DEF Parsed
<1>5. NextStart(p) = size
  <2>1. Len(p.header) = 0
    BY <1>2
  <2>2. NextStart(p) = size - 0
    BY <1>2, <2>1 DEF NextStart
  <2>3. size \in Nat
    BY <1>1
  <2> HIDE DEF size
  <2> QED BY <2>2, <2>3
<1>6. /\ bytes[1] = Riff /\ bytes[2] + RiffHeader = size
      /\ V \subseteq RiffHeader .. size - ChunkHeader
      /\ ChunksUpTo(bytes, V, size)
  BY <1>2, <1>4, <1>5 DEF Path
<1>7. size >= RiffHeader
  <2>1. RiffHeader \in V \cup {size} /\ \A k \in V : k < size
    BY <1>6 DEF ChunksUpTo
  <2>2. size \in Nat
    BY <1>1
  <2> HIDE DEF size
  <2> QED BY <2>1, <2>2 DEF RiffHeader
<1>8. /\ Kind(bytes, V, Fmt) = {e} /\ Kind(bytes, V, Data) = {d} /\ e < d
  BY <1>2, <1>4 DEF Found, FmtMet, DataMet
<1>9. e \in V /\ d \in V
  BY <1>8 DEF Kind
<1>10. /\ p.channels \in {1, 2} /\ p.channels = bytes[e + 3]
  BY <1>2, <1>4 DEF Sound, Control, FormatRead
<1>11. p.channels = bytes[e + ChunkHeader + 1]
  <2>1. e + ChunkHeader + 1 = e + 3
    BY DEF ChunkHeader
  <2> QED BY <1>10, <2>1
<1> DEFINE c == p.channels
           frames == bytes[d + 2] \div c
<1>12. pcm = [i \in 1 .. frames |-> Mean(FrameAt(bytes, d, c, i))]
  <2>1. V \in SUBSET (RiffHeader .. size - ChunkHeader)
    BY <1>6
  <2>2. \A fmt, data \in V :
          LET channels == bytes[fmt + ChunkHeader + 1]
          IN /\ Kind(bytes, V, Fmt) = {fmt} /\ channels \in {1, 2}
             /\ Kind(bytes, V, Data) = {data} /\ fmt < data
             => pcm = [i \in 1 .. bytes[data + 2] \div channels |->
                         Mean(FrameAt(bytes, data, channels, i))]
    BY <1>6, <1>7, <2>1, Zenon DEF WavFile
  <2> HIDE DEF p, bytes, pcm
  <2>3. /\ Kind(bytes, V, Fmt) = {e} /\ bytes[e + ChunkHeader + 1] \in {1, 2}
        /\ Kind(bytes, V, Data) = {d} /\ e < d
        => pcm = [i \in 1 .. bytes[d + 2] \div bytes[e + ChunkHeader + 1] |->
                    Mean(FrameAt(bytes, d, bytes[e + ChunkHeader + 1], i))]
    BY <1>9, <2>2, Zenon
  <2> QED BY <1>8, <1>10, <1>11, <2>3
<1>13. frames = n
  <2>1. bytes[d + 2] = n * c + Len(p.frame)
    BY <1>2, <1>4 DEF DataRead
  <2>2. Len(p.frame) = 0
    BY <1>2
  <2>3. \A a \in Nat, b \in {1, 2} : (a * b + 0) \div b = a
    OBVIOUS
  <2>4. bytes[d + 2] = n * c + 0
    BY <2>1, <2>2
  <2>5. (n * c + 0) \div c = n
    <3> HIDE DEF n, p
    <3> QED BY <1>1, <1>10, <2>3, SMTT(30)
  <2> HIDE DEF n, c
  <2> QED BY <2>4, <2>5
<1>14. \A i \in 1 .. n : Held(w, i) = Mean(FrameAt(bytes, d, c, i))
  BY <1>2, <1>4 DEF DataRead, DataMet
<1> HIDE DEF n, c, frames
<1>15. Len(pcm) = n
  <2>1. pcm = [i \in 1 .. n |-> Mean(FrameAt(bytes, d, c, i))]
    BY <1>12, <1>13
  <2>2. pcm \in Seq(Sample)
    BY <1>1, ParserFields
  <2>3. DOMAIN pcm = 1 .. Len(pcm) /\ Len(pcm) \in Nat
    BY <2>2
  <2>4. DOMAIN pcm = 1 .. n
    BY <2>1
  <2> HIDE DEF pcm
  <2>5. \A a, b \in Nat : 1 .. a = 1 .. b => a = b
    OBVIOUS
  <2> QED BY <1>1, <2>3, <2>4, <2>5
<1>16. \A i \in 1 .. n : Held(w, i) = pcm[i]
  BY <1>12, <1>13, <1>14
<1> QED BY <1>15, <1>16 DEF n

(* What a commit does: the buffer is the file, or nothing is selected.     *)
LEMMA CommittedEffect ==
  ASSUME NEW w \in WaveType, NEW idle,
         w.uploading => /\ Sound(w) /\ WavFile(w.parser.file)
                        /\ w.next_id # MaxWaveform
  PROVE  LET c == Committed(w, idle)
             v == c.wave
         IN /\ v \in WaveType /\ v.locked = w.locked
            /\ v.parser.file = w.parser.file
            /\ ~w.uploading \/ w.locked => ~c.ok /\ v = w
            /\ c.ok =>
                 /\ ~v.uploading /\ v.current_id # 0
                 /\ v.current_samples = Len(v.parser.file.pcm)
                 /\ \A i \in 1 .. v.current_samples :
                      v.bram[i - 1].pcm = v.parser.file.pcm[i]
            /\ ~c.ok =>
                 \/ v = w
                 \/ ~v.uploading /\ v.current_id = w.current_id
<1> DEFINE p == w.parser
           n == p.samples
           odd == n % 2 = 1
           c == Committed(w, idle)
           v == c.wave
           bram == IF odd THEN BramWritten(w.bram, n \div 2, p.word, 0) ELSE w.bram
           u == [w EXCEPT !.next_id = w.next_id + 1, !.current_id = w.next_id + 1,
                          !.current_samples = n, !.uploading = FALSE,
                          !.bram = bram]
           x == [w EXCEPT !.uploading = FALSE]
<1> SUFFICES /\ v \in WaveType /\ v.locked = w.locked
             /\ v.parser.file = w.parser.file
             /\ ~w.uploading \/ w.locked => ~c.ok /\ v = w
             /\ c.ok =>
                  /\ ~v.uploading /\ v.current_id # 0
                  /\ v.current_samples = Len(v.parser.file.pcm)
                  /\ \A i \in 1 .. v.current_samples :
                       v.bram[i - 1].pcm = v.parser.file.pcm[i]
             /\ ~c.ok =>
                  \/ v = w
                  \/ ~v.uploading /\ v.current_id = w.current_id
  OBVIOUS
<1>1. c = CASE ~Whole(w) -> Refused(w)
            [] Whole(w) /\ ~p.crc -> Refused(x)
            [] Whole(w) /\ p.crc /\ odd /\ ~idle -> Refused(w)
            [] OTHER -> Accepted(u)
  <2>1. u = [w EXCEPT !.next_id = @ + 1, !.current_id = w.next_id + 1,
                      !.current_samples = p.samples, !.uploading = FALSE,
                      !.bram = IF odd
                               THEN BramWritten(@, p.samples \div 2, p.word, 0)
                               ELSE @]
    <3> HIDE DEF n
    <3> QED BY DEF n, WaveType
  <2> HIDE DEF u
  <2> QED BY <2>1 DEF Committed
<1>2. Whole(w) => w.uploading /\ ~w.locked
  BY DEF Whole
<1>3. CASE ~Whole(w) \/ (p.crc /\ odd /\ ~idle)
  <2>1. c = Refused(w)
    <3> HIDE DEF c, u, x, odd
    <3> QED BY <1>1, <1>3
  <2> HIDE DEF c
  <2>2. ~c.ok /\ v = w
    BY <2>1 DEF Refused
  <2> HIDE DEF v
  <2> QED BY <2>2
<1>4. CASE Whole(w) /\ ~p.crc
  <2>1. c = Refused(x)
    <3> HIDE DEF c, u, x, odd
    <3> QED BY <1>1, <1>4
  <2>2. ~c.ok /\ v = x
    <3> HIDE DEF c, x
    <3> QED BY <2>1 DEF Refused
  <2>3. /\ x \in WaveType /\ ~x.uploading /\ x.current_id = w.current_id
        /\ x.locked = w.locked /\ x.parser = p
    BY NotUploadingType
  <2> HIDE DEF x, v, c
  <2> QED BY <1>2, <1>4, <2>2, <2>3
<1>5. CASE Whole(w) /\ p.crc /\ (odd => idle)
  <2>1. c = Accepted(u)
    <3> HIDE DEF c, u, x, odd
    <3> QED BY <1>1, <1>5
  <2>2. c.ok /\ v = u
    <3> HIDE DEF c, u
    <3> QED BY <2>1 DEF Accepted
  <2>3. /\ p \in ParserType /\ w.bram \in Buffer /\ n \in 0 .. Capacity
        /\ p.word \in Sample /\ w.next_id \in 0 .. MaxWaveform
    BY WaveFields, ParserFields
  <2>4. n \in Nat /\ Capacity \in Nat /\ MaxWaveform \in Nat
    <3> HIDE DEF n
    <3> QED BY <2>3, WaveformAssumption
  <2>5. /\ Len(p.file.pcm) = n
        /\ \A i \in 1 .. n : Held(w, i) = p.file.pcm[i]
    BY <1>2, <1>5, WholeIsRead
  <2>6. bram \in Buffer /\ \A i \in 1 .. n : bram[i - 1].pcm = Held(w, i)
    <3>1. CASE ~odd
      <4>1. \A i \in 1 .. n : ~(i = n /\ i % 2 = 1)
        BY <3>1
      <4> QED BY <2>3, <3>1, <4>1 DEF Held
    <3>2. CASE odd
      <4> DEFINE pair == n \div 2
                 b == w.bram
                 first == p.word
                 y == BramWritten(b, pair, first, 0)
      <4>1. /\ bram = y /\ pair \in Nat /\ 2 * pair = n - 1
            /\ 2 * pair + 1 = n
        BY <2>4, <3>2, Parity
      <4>2. /\ b \in Buffer /\ first \in Sample /\ 0 \in Sample
        BY <2>3, SampleInt
      <4> HIDE DEF pair, b, first
      <4>3. /\ y \in Buffer
            /\ \A k \in 0 .. Capacity - 1 :
                 /\ k = 2 * pair => y[k].pcm = first
                 /\ k = 2 * pair + 1 => y[k].pcm = 0
                 /\ k # 2 * pair /\ k # 2 * pair + 1 => y[k] = b[k]
        BY <4>1, <4>2, BramWrittenFields
      <4> HIDE DEF y
      <4>4. \A k \in 0 .. Capacity - 1 :
              /\ k = n - 1 => y[k].pcm = first
              /\ k < n - 1 => y[k] = b[k]
        <5> HIDE DEF n
        <5> QED BY <2>4, <4>1, <4>3
      <4>5. ASSUME NEW i \in 1 .. n
            PROVE  y[i - 1].pcm = Held(w, i)
        <5>1. i - 1 \in 0 .. Capacity - 1 /\ i \in Int
              /\ (i = n => i - 1 = n - 1) /\ (i # n => i - 1 < n - 1)
          <6> HIDE DEF n
          <6> QED BY <2>3, <2>4
        <5>2. CASE i = n
          <6>1. Held(w, i) = first
            BY <3>2, <5>2 DEF Held, first
          <6> QED BY <4>4, <5>1, <5>2, <6>1
        <5>3. CASE i # n
          <6>1. Held(w, i) = b[i - 1].pcm
            BY <5>3 DEF Held, b
          <6> QED BY <4>4, <5>1, <5>3, <6>1
        <5> QED BY <5>2, <5>3
      <4> HIDE DEF bram
      <4> QED BY <4>1, <4>3, <4>5
    <3> HIDE DEF bram
    <3> QED BY <3>1, <3>2
  <2>7. w.next_id + 1 \in 0 .. MaxWaveform /\ w.next_id + 1 # 0
    <3>1. w.next_id # MaxWaveform
      BY <1>2, <1>5
    <3> QED BY <2>3, <2>4, <3>1
  <2> HIDE DEF bram, n
  <2>8. /\ u \in WaveType /\ ~u.uploading /\ u.current_id = w.next_id + 1
        /\ u.current_samples = n /\ u.locked = w.locked
        /\ u.parser = w.parser /\ u.bram = bram
    BY <2>3, <2>6, <2>7 DEF WaveType
  <2> HIDE DEF u, v, c
  <2>9. \A i \in 1 .. n : bram[i - 1].pcm = p.file.pcm[i]
    BY <2>5, <2>6
  <2> QED BY <1>2, <1>5, <2>2, <2>5, <2>7, <2>8, <2>9
<1> QED BY <1>3, <1>4, <1>5

(* Cancelled, Locked and GainSet: what they change of the waveform.        *)
LEMMA CancelledEffect ==
  ASSUME NEW w \in WaveType
  PROVE  LET v == Cancelled(w)
         IN /\ v \in WaveType /\ ~v.uploading
            /\ v.current_id = w.current_id
            /\ v.current_samples = w.current_samples /\ v.locked = w.locked
            /\ v.parser.file = w.parser.file /\ v.bram = w.bram
<1> DEFINE q == [w.parser EXCEPT !.received = 0]
           v == [w EXCEPT !.uploading = FALSE, !.parser = q]
<1>1. w.parser \in ParserType
  BY WaveFields
<1>2. q \in ParserType /\ q.file = w.parser.file
  BY <1>1 DEF ParserType
<1>3. Cancelled(w) = v
  BY DEF Cancelled, WaveType
<1> HIDE DEF q
<1>4. /\ v \in WaveType /\ ~v.uploading
      /\ v.current_id = w.current_id
      /\ v.current_samples = w.current_samples /\ v.locked = w.locked
      /\ v.parser = q /\ v.bram = w.bram
  BY <1>2 DEF WaveType
<1> HIDE DEF v
<1> QED BY <1>2, <1>3, <1>4

LEMMA LockedEffect ==
  ASSUME NEW w \in WaveType, NEW value \in BOOLEAN
  PROVE  LET v == Locked(w, value)
         IN /\ v \in WaveType /\ v.locked = value
            /\ v.uploading = w.uploading /\ v.current_id = w.current_id
            /\ v.next_id = w.next_id
            /\ v.current_samples = w.current_samples
            /\ v.parser = w.parser /\ v.bram = w.bram
  BY DEF Locked, WaveType

LEMMA GainSetEffect ==
  ASSUME NEW w \in WaveType, NEW n \in Nat, NEW pct \in 0 .. 100
  PROVE  LET v == [w EXCEPT !.bram = GainSet(@, n, pct)]
         IN /\ v \in WaveType
            /\ v.uploading = w.uploading /\ v.current_id = w.current_id
            /\ v.next_id = w.next_id /\ v.locked = w.locked
            /\ v.current_samples = w.current_samples /\ v.parser = w.parser
            /\ \A i \in 0 .. Capacity - 1 :
                 /\ v.bram[i].pcm = w.bram[i].pcm
                 /\ i < n => v.bram[i].out = Scaled(w.bram[i].pcm, pct)
<1> DEFINE old == w.bram
           bram == GainSet(old, n, pct)
           v == [w EXCEPT !.bram = bram]
<1>1. old \in Buffer /\ DOMAIN old = 0 .. Capacity - 1
  BY WaveFields DEF Buffer
<1> DEFINE Word(i) == IF i < n THEN [old[i] EXCEPT !.out = Scaled(old[i].pcm, pct)]
                      ELSE old[i]
<1>2. bram = [i \in 0 .. Capacity - 1 |-> Word(i)]
  <2> HIDE DEF old
  <2> QED BY <1>1 DEF GainSet
<1>3. ASSUME NEW i \in 0 .. Capacity - 1
      PROVE  /\ Word(i) \in [pcm : Sample, out : Sample]
             /\ Word(i).pcm = old[i].pcm
             /\ i < n => Word(i).out = Scaled(old[i].pcm, pct)
  <2>1. old[i] \in [pcm : Sample, out : Sample]
    BY <1>1 DEF Buffer
  <2> DEFINE word == old[i]
             scaled == Scaled(word.pcm, pct)
  <2>2. scaled \in Sample
    BY <2>1, ScaledSample
  <2> HIDE DEF word, scaled
  <2>3. word \in [pcm : Sample, out : Sample]
    BY <2>1 DEF word
  <2>4. Word(i) = IF i < n THEN [word EXCEPT !.out = scaled] ELSE word
    BY DEF word, scaled
  <2>5. /\ [word EXCEPT !.out = scaled] \in [pcm : Sample, out : Sample]
        /\ [word EXCEPT !.out = scaled].pcm = word.pcm
        /\ [word EXCEPT !.out = scaled].out = scaled
    BY <2>2, <2>3
  <2> HIDE DEF Word
  <2>6. /\ Word(i) \in [pcm : Sample, out : Sample]
        /\ Word(i).pcm = word.pcm
        /\ i < n => Word(i).out = scaled
    BY <2>3, <2>4, <2>5
  <2> QED BY <2>6 DEF word, scaled
<1> HIDE DEF Word
<1>4. /\ bram \in Buffer
      /\ \A i \in 0 .. Capacity - 1 :
           /\ bram[i].pcm = old[i].pcm
           /\ i < n => bram[i].out = Scaled(old[i].pcm, pct)
  <2> HIDE DEF bram, old
  <2> QED BY <1>2, <1>3 DEF Buffer
<1> HIDE DEF bram
<1>5. /\ v \in WaveType
      /\ v.uploading = w.uploading /\ v.current_id = w.current_id
      /\ v.next_id = w.next_id /\ v.locked = w.locked
      /\ v.current_samples = w.current_samples /\ v.parser = w.parser
      /\ v.bram = bram
  BY <1>4 DEF WaveType
<1>6. v = [w EXCEPT !.bram = GainSet(@, n, pct)]
  BY DEF bram, WaveType
<1> HIDE DEF v
<1> QED BY <1>4, <1>5, <1>6

(* At first nothing is uploaded.                                           *)
LEMMA NewWaveType ==
  /\ NewWave \in WaveType /\ ~NewWave.uploading /\ NewWave.current_id = 0
  /\ ~NewWave.locked
<1>1. <<>> \in Seq(Nat) /\ <<>> \in Seq(Sample) /\ 0 \in Nat
  OBVIOUS
<1>2. 0 \in 0 .. Capacity /\ 0 \in 0 .. MaxWaveform
  BY WaveformAssumption
<1>3. "RIFF_HEADER" \in Phase /\ 0 \in Sample
  BY SampleInt DEF Phase
<1>4. NoParser \in ParserType
  <2>1. NoFile \in [bytes : Seq(Nat), pcm : Seq(Sample)]
    BY <1>1 DEF NoFile
  <2> QED BY <1>1, <1>2, <1>3, <2>1 DEF NoParser, ParserType
<1> DEFINE bram == [i \in 0 .. Capacity - 1 |-> [pcm |-> 0, out |-> 0]]
<1>5. bram \in Buffer
  BY <1>3 DEF Buffer
<1>6. NewWave = [parser |-> NoParser, current_id |-> 0, next_id |-> 0,
                 current_samples |-> 0, uploading |-> FALSE,
                 locked |-> FALSE, bram |-> bram]
  BY DEF NewWave
<1> HIDE DEF bram
<1> QED BY <1>2, <1>4, <1>5, <1>6 DEF WaveType

-----------------------------------------------------------------------------
(* The invariant of the upload.                                            *)

(* CommittedIsFile, of any state of the waveform.                          *)
IsFile(w) ==
  w.current_id # 0 =>
    /\ w.current_samples = Len(w.parser.file.pcm)
    /\ \A i \in 1 .. w.current_samples :
         w.bram[i - 1].pcm = w.parser.file.pcm[i]

(* Whatever is being uploaded has been read faithfully so far, and nothing *)
(* can be selected until it is complete.                                   *)
WaveInv(w) ==
  /\ w \in WaveType
  /\ w.uploading => /\ Sound(w) /\ WavFile(w.parser.file)
                    /\ w.current_id = 0 /\ w.next_id # MaxWaveform
  /\ IsFile(w)

(* The invariant holds at first.                                           *)
LEMMA NewWaveInv == WaveInv(NewWave)
  BY NewWaveType DEF WaveInv, IsFile

(* A piece keeps it, and is only taken during an upload.                   *)
LEMMA AppendedInv ==
  ASSUME NEW w, WaveInv(w), NEW offset, NEW data \in Seq(Nat), NEW idle
  PROVE  LET v == Appended(w, offset, data, idle).wave
         IN /\ WaveInv(v) /\ v.locked = w.locked
            /\ v.uploading => w.uploading
            /\ ~w.uploading => v = w
<1> DEFINE v == Appended(w, offset, data, idle).wave
<1>1. /\ v \in WaveType
      /\ v.current_id = w.current_id /\ v.next_id = w.next_id
      /\ v.locked = w.locked /\ v.parser.file = w.parser.file
      /\ v.uploading => w.uploading /\ Sound(v)
      /\ ~w.uploading \/ w.locked => v = w
  BY AppendedEffect DEF WaveInv
<1> HIDE DEF v
<1>2. WaveInv(v)
  <2>1. CASE w.uploading
    BY <1>1, <2>1 DEF WaveInv, IsFile
  <2>2. CASE ~w.uploading
    BY <1>1, <2>2
  <2> QED BY <2>1, <2>2
<1> QED BY <1>1, <1>2 DEF v

(* A file that may be announced has a type.                                *)
LEMMA FileType ==
  ASSUME NEW file, WavFile(file)
  PROVE  file \in [bytes : Seq(Nat), pcm : Seq(Sample)]
  BY DEF WavFile

(* A new upload keeps it, and needs an unlocked waveform.                  *)
LEMMA BegunInv ==
  ASSUME NEW w, WaveInv(w), NEW file, WavFile(file), Begun(w, file).ok
  PROVE  LET v == Begun(w, file).wave
         IN WaveInv(v) /\ v.locked = w.locked /\ ~w.locked
<1> DEFINE v == Begun(w, file).wave
<1>1. /\ v \in WaveType /\ v.current_id = 0
      /\ v.locked = w.locked /\ ~w.locked
      /\ v.next_id # MaxWaveform /\ v.parser.file = file /\ Sound(v)
  BY FileType, BegunEffect DEF WaveInv
<1> HIDE DEF v
<1>2. WaveInv(v)
  BY <1>1 DEF WaveInv, IsFile
<1> QED BY <1>1, <1>2 DEF v

(* A commit keeps it: what is selectable from then on is the file.         *)
LEMMA CommittedInv ==
  ASSUME NEW w, WaveInv(w), NEW idle
  PROVE  LET c == Committed(w, idle)
             v == c.wave
         IN /\ WaveInv(v) /\ v.locked = w.locked
            /\ v.uploading => w.uploading
            /\ ~w.uploading => ~c.ok /\ v = w
<1> DEFINE c == Committed(w, idle)
           v == c.wave
<1>1. /\ v \in WaveType /\ v.locked = w.locked
      /\ v.parser.file = w.parser.file
      /\ ~w.uploading \/ w.locked => ~c.ok /\ v = w
      /\ c.ok =>
           /\ ~v.uploading /\ v.current_id # 0
           /\ v.current_samples = Len(v.parser.file.pcm)
           /\ \A i \in 1 .. v.current_samples :
                v.bram[i - 1].pcm = v.parser.file.pcm[i]
      /\ ~c.ok =>
           \/ v = w
           \/ ~v.uploading /\ v.current_id = w.current_id
  BY CommittedEffect DEF WaveInv
<1> SUFFICES /\ WaveInv(v) /\ v.locked = w.locked
             /\ v.uploading => w.uploading
             /\ ~w.uploading => ~c.ok /\ v = w
  OBVIOUS
<1> HIDE DEF v, c
<1>2. CASE c.ok
  BY <1>1, <1>2 DEF WaveInv, IsFile
<1>3. CASE ~c.ok /\ v = w
  BY <1>1, <1>3
<1>4. CASE ~c.ok /\ v # w
  <2>1. w.uploading /\ ~v.uploading /\ v.current_id = 0
    BY <1>1, <1>4 DEF WaveInv
  <2> QED BY <1>1, <2>1 DEF WaveInv, IsFile
<1> QED BY <1>2, <1>3, <1>4

(* A cancel keeps it, also of a waveform that is committed.                *)
LEMMA CancelledInv ==
  ASSUME NEW w, WaveInv(w)
  PROVE  WaveInv(Cancelled(w)) /\ Cancelled(w).locked = w.locked
<1> DEFINE v == Cancelled(w)
<1>1. /\ v \in WaveType /\ ~v.uploading
      /\ v.current_id = w.current_id
      /\ v.current_samples = w.current_samples /\ v.locked = w.locked
      /\ v.parser.file = w.parser.file /\ v.bram = w.bram
  BY CancelledEffect DEF WaveInv
<1> HIDE DEF v
<1>2. WaveInv(v)
  BY <1>1 DEF WaveInv, IsFile
<1> QED BY <1>1, <1>2 DEF v

(* So does locking and unlocking, which leaves parser and buffer alone.    *)
LEMMA SoundLocked ==
  ASSUME NEW w, NEW v, v.parser = w.parser, v.bram = w.bram, Sound(w)
  PROVE  Sound(v)
<1>1. \A i : Held(v, i) = Held(w, i)
  BY DEF Held
<1>2. \A V, e, d : Parsed(w, V, e, d) => Parsed(v, V, e, d)
  BY <1>1 DEF Parsed, DataRead
<1> QED BY <1>2 DEF Sound

LEMMA LockedInv ==
  ASSUME NEW w, WaveInv(w), NEW value \in BOOLEAN
  PROVE  LET v == Locked(w, value)
         IN /\ WaveInv(v) /\ v.locked = value
            /\ v.uploading = w.uploading /\ v.current_id = w.current_id
            /\ v.current_samples = w.current_samples
            /\ v.parser = w.parser /\ v.bram = w.bram
<1> DEFINE v == Locked(w, value)
<1>1. /\ v \in WaveType /\ v.locked = value
      /\ v.uploading = w.uploading /\ v.current_id = w.current_id
      /\ v.next_id = w.next_id
      /\ v.current_samples = w.current_samples
      /\ v.parser = w.parser /\ v.bram = w.bram
  BY LockedEffect DEF WaveInv
<1> HIDE DEF v
<1>2. Sound(w) => Sound(v)
  BY <1>1, SoundLocked
<1>3. WaveInv(v)
  BY <1>1, <1>2 DEF WaveInv, IsFile
<1> QED BY <1>1, <1>3 DEF v

(* The amplitude is set of a waveform that is committed.                   *)
LEMMA GainInv ==
  ASSUME NEW w, WaveInv(w), ~w.uploading, NEW pct \in 0 .. 100
  PROVE  LET n == w.current_samples
             v == [w EXCEPT !.bram = GainSet(@, n, pct)]
         IN /\ WaveInv(v) /\ ~v.uploading /\ v.locked = w.locked
            /\ v.current_id = w.current_id /\ v.current_samples = n
            /\ \A i \in 0 .. n - 1 :
                 v.bram[i].out = Scaled(v.bram[i].pcm, pct)
<1> DEFINE n == w.current_samples
           v == [w EXCEPT !.bram = GainSet(@, n, pct)]
<1>1. w \in WaveType /\ n \in 0 .. Capacity /\ Capacity \in Nat /\ n \in Nat
  <2>1. w \in WaveType
    BY DEF WaveInv
  <2>2. n \in 0 .. Capacity /\ Capacity \in Nat
    BY <2>1, WaveFields, WaveformAssumption
  <2> HIDE DEF n
  <2>3. n \in Nat
    BY <2>2
  <2> QED BY <2>1, <2>2, <2>3
<1>2. /\ v \in WaveType
      /\ v.uploading = w.uploading /\ v.current_id = w.current_id
      /\ v.locked = w.locked
      /\ v.current_samples = n /\ v.parser = w.parser
      /\ \A i \in 0 .. Capacity - 1 :
           /\ v.bram[i].pcm = w.bram[i].pcm
           /\ i < n => v.bram[i].out = Scaled(w.bram[i].pcm, pct)
  BY <1>1, GainSetEffect, ZenonT(30)
<1> HIDE DEF v
<1>3. /\ \A i \in 0 .. n - 1 :
           v.bram[i].out = Scaled(v.bram[i].pcm, pct)
      /\ \A i \in 1 .. n : v.bram[i - 1].pcm = w.bram[i - 1].pcm
  <2>1. \A i \in 0 .. n - 1 : i \in 0 .. Capacity - 1 /\ i < n
    <3> HIDE DEF n
    <3> QED BY <1>1
  <2>2. \A i \in 1 .. n : i - 1 \in 0 .. Capacity - 1
    <3> HIDE DEF n
    <3> QED BY <1>1
  <2> HIDE DEF n
  <2> QED BY <1>2, <2>1, <2>2
<1>4. IsFile(v)
  BY <1>2, <1>3 DEF WaveInv, IsFile
<1>5. WaveInv(v)
  BY <1>2, <1>4 DEF WaveInv
<1> QED BY <1>2, <1>3, <1>5 DEF v

=============================================================================
