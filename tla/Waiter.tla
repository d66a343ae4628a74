------------------------------- MODULE Waiter -------------------------------
(***************************************************************************)
(* internal::waiter, the place where one task parks outside the run queue  *)
(* until another one unparks it; mutex and the channels are built on it.   *)
(* A waiter is known by the Slot it lies in.                               *)
(*                                                                         *)
(* None of its steps but the last of unpark holds the preempt_mutex: each  *)
(* operator here is one stretch between two places where a tick can        *)
(* strike, for the actions of the modules that extend this one.            *)
(***************************************************************************)
EXTENDS Dispatch

CONSTANTS Slot, NULL

ASSUME NullAssumption == NULL \notin Task

VARIABLES
  waiter,  \* waiter::_waiter of each slot
  fault    \* why the process cannot go on

waiterVars == <<dispatchVars, waiter, fault>>

WaiterTypeOK ==
  /\ DispatchTypeOK
  /\ waiter \in [Slot -> Task \cup {NULL}]
  /\ fault \in {"none", "nothing to do", "assertion"}

Running(c) == fault = "none" /\ current = c

(* An assertion fails: the process ends. *)
Fail == fault' = "assertion" /\ UNCHANGED <<dispatchVars, waiter>>

(***************************************************************************)
(* sched::yield, or a tick, of a program that neither sleeps nor leaves    *)
(* detached tasks behind.                                                  *)
(***************************************************************************)
YieldNow(c) ==
  LET q == Requeue(c, run_state, ready)
  IN  IF Queued(q) = {}
      THEN fault' = "nothing to do" /\ UNCHANGED <<dispatchVars, waiter>>
      ELSE /\ \E n \in Task : RunNext(c, n, run_state, q, {})
           /\ UNCHANGED <<waiter, fault>>

-----------------------------------------------------------------------------
(* park_if: the waiter is claimed if it is free ... *)
CanPark(s) == waiter[s] = NULL
Claim(s, c) == waiter' = [waiter EXCEPT ![s] = c] /\ UNCHANGED <<dispatchVars, fault>>

(* ... given up again if the check says so ... *)
Unclaim(s) == waiter' = [waiter EXCEPT ![s] = NULL] /\ UNCHANGED <<dispatchVars, fault>>

(* ... or the task becomes WAITING; sched::yield follows. *)
Wait(c) ==
  /\ run_state' = [run_state EXCEPT ![c] = "WAITING"]
  /\ UNCHANGED <<current, no_preempt_flag, ready, waiter, fault>>

(* Variants: whoever claimed the waiter counts as parked; or no look at all. *)
IsParkedEarly(s) == waiter[s] # NULL
IsParkedUnchecked(s) == TRUE

(* What unpark and swap ask before they take the parked task out: it has
   claimed the waiter and has gone as far as WAITING. *)
IsParked(s) == waiter[s] # NULL /\ run_state[waiter[s]] = "WAITING"

(* unpark: the parked task is taken out ... *)
TakeOut(s) == Unclaim(s)

(* ... and, with the preempt_mutex, put on the run queue. *)
Resume(t) ==
  /\ run_state' = [run_state EXCEPT ![t] = "SUSPENDED"]
  /\ ready' = Push(ready, t)
  /\ UNCHANGED <<current, no_preempt_flag, waiter, fault>>
=============================================================================
