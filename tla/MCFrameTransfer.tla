--------------------------- MODULE MCFrameTransfer ---------------------------
(* FrameTransfer on a pool of two slots.                                   *)
EXTENDS FrameTransfer
=============================================================================
