----------------------------- MODULE MCExperiment -----------------------------
(* Safety: a revolution of three steps in two moves of two and one, and a  *)
(* count that is refused. Liveness: two positions. StopDiscards: one. The  *)
(* pool is one slot, as if a host that has stopped storing held the rest:  *)
(* every later capture of a run waits for it.                              *)
EXTENDS Experiment

MCRequests == {-2, 3}
MCTwoPositions == {2}
MCOnePosition == {1}
=============================================================================
