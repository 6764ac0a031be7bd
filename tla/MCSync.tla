------------------------------- MODULE MCSync -------------------------------
(* Sync for TLC: schedulers are interchangeable. *)
EXTENDS Sync, TLC

SchedulerSymmetry == Permutations(Scheduler)
=============================================================================
