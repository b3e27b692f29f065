---------------------------- MODULE SchedulerMC ----------------------------
(* Small instances of Scheduler for TLC. *)
EXTENDS Scheduler, TLC

\* Requests and workers are interchangeable in the safety runs.
Symmetric == Permutations(Requests) \cup Permutations(Workers)
=============================================================================
