----------------------------- MODULE MCSupervisor -----------------------------
(* Supervisor with small periods in the proportions of the code.           *)
EXTENDS Supervisor
=============================================================================
