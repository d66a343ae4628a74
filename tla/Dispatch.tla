------------------------------ MODULE Dispatch ------------------------------
(***************************************************************************)
(* The processor as the green threads see it: one kernel thread, one       *)
(* sched_node.  At any moment one task is current (the one the thread      *)
(* pointer of the TLS names); every other one is swapped out and resumes   *)
(* only when it is popped from the run queue or switched to directly.      *)
(*                                                                         *)
(* The run queue is a std::multiset<task*>: a bag, so that pushing a task  *)
(* that is already queued is visible.  Its order (virtual run time) is the *)
(* subject of module Rq, which implements module RunBag; here any queued   *)
(* task may be the next.                                                   *)
(*                                                                         *)
(* Code that runs with the no_preempt_flag of its task set can neither be  *)
(* interrupted nor be interleaved with another task until it switches      *)
(* away: such a stretch is one action of the modules that extend this one. *)
(***************************************************************************)
EXTENDS Integers

CONSTANT Task

VARIABLES
  current,          \* task::current(), read from the TLS of the kernel thread
  run_state,        \* task::run_state
  no_preempt_flag,  \* task::no_preempt_flag
  ready             \* rq::_runqueue, as the number of times each task is in it

dispatchVars == <<current, run_state, no_preempt_flag, ready>>

RunStates == {"RUNNING", "SUSPENDED", "STOPPED", "WAITING"}

DispatchTypeOK ==
  /\ current \in Task
  /\ run_state \in [Task -> RunStates]
  /\ no_preempt_flag \in [Task -> BOOLEAN]
  /\ ready \in [Task -> Nat]

-----------------------------------------------------------------------------
(* Variant: the popped task stays in the queue. *)
EraseNone(q, t) == q

(* rq::push, and the erase of rq::pop. *)
Push(q, t) == [q EXCEPT ![t] = @ + 1]
Erase(q, t) == [q EXCEPT ![t] = @ - 1]
Queued(q) == {t \in Task : q[t] > 0}

(* Variant: everything but an exited task goes back on the run queue. *)
RequeueWaiting(c, rs, q) == IF rs[c] # "STOPPED" THEN Push(q, c) ELSE q

(***************************************************************************)
(* The head of sched_node::get_next_task: a current task that is still     *)
(* RUNNING goes back on the run queue; in any other state it is left to    *)
(* whoever is to wake it.                                                  *)
(***************************************************************************)
Requeue(c, rs, q) == IF rs[c] = "RUNNING" THEN Push(q, c) ELSE q

(***************************************************************************)
(* task::switch_to from c to n, up to the point where n releases the       *)
(* preempt_mutex it was swapped out with.  c keeps a state it chose itself *)
(* and is otherwise SUSPENDED; n sets itself RUNNING on the way out of its *)
(* own switch_to.  A task of Fresh was never switched away from: it begins *)
(* in gthread_task_entry, which has yet to set it RUNNING.  When n = c     *)
(* nothing is switched and c's state stays what it was.                    *)
(***************************************************************************)
SwitchTo(c, n, rs, Fresh) ==
  /\ current' = n
  /\ run_state' = [t \in Task |->
       IF n # c /\ t = c /\ rs[c] = "RUNNING" THEN "SUSPENDED"
       ELSE IF n # c /\ t = n /\ n \notin Fresh THEN "RUNNING"
       ELSE rs[t]]
  /\ no_preempt_flag' = [t \in Task |->
       IF t = n THEN FALSE ELSE IF t = c THEN TRUE ELSE no_preempt_flag[t]]

(* Variant: the run queue is popped without a look at whether it is empty. *)
RunNextUnchecked(c, n, rs, q, Fresh) ==
  /\ ready' = Erase(q, n)
  /\ SwitchTo(c, n, rs, Fresh)

(* rq::pop takes n off the bag q, and the kernel thread switches to it. *)
RunNext(c, n, rs, q, Fresh) ==
  /\ n \in Queued(q)
  /\ ready' = Erase(q, n)
  /\ SwitchTo(c, n, rs, Fresh)

=============================================================================
