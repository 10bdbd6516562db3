-------------------------- MODULE MCRevolutionScan --------------------------
(* RevolutionScan with the plate, the limit and position counts of the     *)
(* code: divisors of the revolution, others, and the extremes.             *)
EXTENDS RevolutionScan

MCRequests == {-1000, -999, -30, -7, -1, 0, 1, 2, 3, 30, 37, 360, 999, 1000, 1001}
=============================================================================
