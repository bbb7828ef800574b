---------------------------- MODULE MCHealthCheck ----------------------------
(****************************************************************************)
(* Finite instances of HealthCheck for TLC.  MaxStreak exceeds MaxFails +   *)
(* MaxTimers, so that a dead host can always be found out.                  *)
(****************************************************************************)
EXTENDS HealthCheck

ASSUME StreakLongEnough == MaxStreak > MaxFails + MaxTimers
=============================================================================
