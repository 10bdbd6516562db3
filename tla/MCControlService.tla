--------------------------- MODULE MCControlService ---------------------------
(* Two connections, a falling chirp and one out of range, and three files: *)
(* a mono one with an odd number of samples, a stereo one behind a chunk   *)
(* that is skipped, and one that the parser refuses after its samples. The *)
(* pieces are cut in two ways, and one has a sample changed on the way.    *)
EXTENDS ControlService, TLC

MCMono ==
  [bytes |-> <<Riff, 10, Fmt, 1, 1, 0, Data, 3, 1, 7, 3, 0>>,
   pcm |-> <<1, -1, 3>>]
MCStereo ==
  [bytes |-> <<Riff, 14, 90, 0, Fmt, 1, 2, 0, 90, 1, 5, 0, Data, 2, 5, 6>>,
   pcm |-> <<-2>>]
MCBad ==
  [bytes |-> <<Riff, 12, Fmt, 1, 1, 0, Data, 2, 1, 7, 90, 5, 0, 0>>,
   pcm |-> <<>>]
MCFiles == {MCMono, MCStereo, MCBad}

MCPiece(f, at, n) ==
  [op |-> "UPLOAD_DATA", offset |-> at, data |-> SubSeq(f.bytes, at + 1, at + n)]

(* In pieces of n bytes, the last one shorter.                             *)
MCCut(f, n) ==
  {MCPiece(f, at, IF at + n > Len(f.bytes) THEN Len(f.bytes) - at ELSE n) :
     at \in {k \in 0 .. Len(f.bytes) - 1 : k % n = 0}}
MCPieces ==
  {MCPiece([MCMono EXCEPT !.bytes[9] = 3], 6, 6)}
  \cup UNION {MCCut(f, 9) : f \in MCFiles} \cup MCCut(MCMono, 6)

MCSymmetry == Permutations(Sessions)

MCChirp(start, stop, duration, amplitude) ==
  [op |-> "SET_GENERATED", start |-> start, stop |-> stop,
   duration |-> duration, amplitude |-> amplitude]

MCRequests ==
  {[op |-> op] : op \in {"GET_CONFIGURATION", "END_SESSION", "APPLY",
                         "UPLOAD_COMMIT", "UPLOAD_CANCEL"}}
  \cup {[op |-> "SET_BOOT_ID", boot |-> b] : b \in Boots \cup {None}}
  \cup {[op |-> "PREPARE_TEST", boot |-> b, test |-> t, config |-> c] :
          b \in {None, 1}, t \in Tests \cup {None}, c \in 1 .. 2}
  \cup {MCChirp(7, 2, 5, 50), MCChirp(8, 2, 5, 50)}
  \cup {[op |-> "UPLOAD_BEGIN", file |-> f] : f \in MCFiles}
  \cup MCPieces
  \cup {[op |-> "SELECT_WAVEFORM", waveform |-> w[1], amplitude |-> w[2]] :
          w \in {<<1, 50>>, <<1, 100>>, <<2, 50>>}}
=============================================================================
