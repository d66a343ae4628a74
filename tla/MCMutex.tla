------------------------------ MODULE MCMutex -------------------------------
(* The mutex for TLC: interchangeable tasks, each with a waiter of its own. *)
EXTENDS Mutex, TLC

Tasks == Permutations(Task)
=============================================================================
