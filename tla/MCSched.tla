------------------------------- MODULE MCSched -------------------------------
(* The scheduler for TLC: a host task and interchangeable spawned tasks. *)
EXTENDS Sched, TLC

Spawned == Permutations(Task \ {Host})
=============================================================================
