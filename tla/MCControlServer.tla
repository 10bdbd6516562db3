---------------------------- MODULE MCControlServer ----------------------------
(* One chirp to stage and apply, the identities that a run of it needs, and *)
(* one file whose upload is begun.                                         *)
EXTENDS ControlServer

MCFile == [bytes |-> <<Riff, 6, Fmt, 1, 1, 0, Data, 1>>, pcm |-> <<>>]

MCChirp == [op |-> "SET_GENERATED", start |-> 1, stop |-> 7, duration |-> 4,
            amplitude |-> 100]

MCRequests ==
  {[op |-> "APPLY"], [op |-> "UPLOAD_BEGIN", file |-> MCFile], MCChirp,
   [op |-> "SET_BOOT_ID", boot |-> 1],
   [op |-> "PREPARE_TEST", boot |-> 1, test |-> 1, config |-> 1]}
=============================================================================
