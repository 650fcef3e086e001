-------------------------- MODULE MCAlarmLifecycle --------------------------
(***************************************************************************)
(* A small instance of AlarmLifecycle for TLC: the first alarm of the      *)
(* entity has a delay and inactive_states, the second has neither.         *)
(***************************************************************************)
EXTENDS AlarmLifecycle

MCDelayed == {1}
MCByInactive == {1}
MCWorkers == 1..3
=============================================================================
