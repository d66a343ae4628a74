------------------------------- MODULE RunBag -------------------------------
(***************************************************************************)
(* What the scheduler is promised of its queues, whatever their order:     *)
(* the current task goes back on the run queue, to sleep, or neither; then *)
(* a task that is on the run queue, or a sleeper handed over to it that    *)
(* moment, becomes current and is on no queue any more.  Module Sched uses *)
(* the queues exactly so; module Rq implements them.                       *)
(***************************************************************************)
EXTENDS Integers

CONSTANTS Task, Host

VARIABLES current, ready, sleeping, fault

bagVars == <<current, ready, sleeping, fault>>

Add(q, t) == [q EXCEPT ![t] = @ + 1]

Init ==
  /\ current = Host
  /\ ready = [t \in Task |-> 0]
  /\ sleeping = {}
  /\ fault = "none"

(* Someone else's task becomes runnable. *)
Schedule ==
  /\ \E t \in Task \ {current} :
       ready[t] = 0 /\ t \notin sleeping /\ ready' = Add(ready, t)
  /\ UNCHANGED <<current, sleeping, fault>>

(* The queues once the current task gave up the processor. *)
GaveUp ==
  {<<ready, sleeping>>, <<Add(ready, current), sleeping>>,
   <<ready, sleeping \cup {current}>>}

(* One sleeper at most comes over to the run queue; someone on it is taken. *)
Take(q, sl) ==
  \E w \in {{}} \cup {{s} : s \in sl} :
    LET q1 == [t \in Task |-> IF t \in w THEN q[t] + 1 ELSE q[t]]
    IN  \E n \in Task :
          /\ q1[n] > 0
          /\ current' = n
          /\ ready' = [q1 EXCEPT ![n] = @ - 1]
          /\ sleeping' = sl \ w
          /\ UNCHANGED fault

(* Nobody is on the run queue: the process ends, whether or not some sleep. *)
Abort(q, sl) ==
  /\ \A t \in Task : q[t] = 0
  /\ fault' = IF sl = {} THEN "nothing to do" ELSE "null task"
  /\ UNCHANGED <<current, ready, sleeping>>

Yield == \E g \in GaveUp : Take(g[1], g[2]) \/ Abort(g[1], g[2])

(* The processor is handed to a task that was waiting outside the queues. *)
Handoff ==
  /\ \E t \in Task \ {current} :
       ready[t] = 0 /\ t \notin sleeping /\ current' = t
  /\ UNCHANGED <<ready, sleeping, fault>>

Next == fault = "none" /\ (Schedule \/ Yield \/ Handoff)

Spec == Init /\ [][Next]_bagVars
=============================================================================
