------------------------------ MODULE Processor ------------------------------
(***************************************************************************)
(* What the modules built on Dispatch take a context switch for: one step, *)
(* after which another task is current.  Nothing is said of stacks, thread *)
(* pointers or saved registers.                                            *)
(***************************************************************************)
EXTENDS Dispatch

CONSTANT Host

VARIABLE fresh  \* the scheduled tasks that have never run

processorVars == <<dispatchVars, fresh>>

Init ==
  /\ current = Host
  /\ run_state = [t \in Task |-> IF t = Host THEN "RUNNING" ELSE "STOPPED"]
  /\ no_preempt_flag = [t \in Task |-> FALSE]
  /\ ready = [t \in Task |-> 0]
  /\ fresh = {}

(* A task is made, new or recycled ... *)
Make(t) ==
  /\ t # current
  /\ run_state[t] = "STOPPED"
  /\ no_preempt_flag' = [no_preempt_flag EXCEPT ![t] = FALSE]
  /\ UNCHANGED <<current, run_state, ready, fresh>>

(* ... and started and scheduled. *)
Spawn(t) ==
  /\ run_state[t] = "STOPPED"
  /\ ~ no_preempt_flag[t]
  /\ run_state' = [run_state EXCEPT ![t] = "SUSPENDED"]
  /\ ready' = Push(ready, t)
  /\ fresh' = fresh \cup {t}
  /\ UNCHANGED <<current, no_preempt_flag>>

(* The current task yields, waits, exits or is preempted. *)
Switch(n, state) ==
  LET rs == [run_state EXCEPT ![current] = state]
  IN  /\ state \in {run_state[current], "WAITING", "STOPPED"}
      /\ n # current
      /\ RunNext(current, n, rs, Requeue(current, rs, ready), fresh)
      /\ fresh' = fresh \ {n}

(* gthread_task_entry *)
Enter ==
  /\ run_state[current] = "SUSPENDED"
  /\ run_state' = [run_state EXCEPT ![current] = "RUNNING"]
  /\ UNCHANGED <<current, no_preempt_flag, ready, fresh>>

Wake(t) ==
  /\ t # current
  /\ run_state[t] = "WAITING"
  /\ ready' = Push(ready, t)
  /\ UNCHANGED <<current, run_state, no_preempt_flag, fresh>>

Next ==
  \/ Enter
  \/ \E t \in Task : Make(t) \/ Spawn(t) \/ Wake(t)
  \/ \E n \in Task, state \in RunStates : Switch(n, state)

Spec == Init /\ [][Next]_processorVars
=============================================================================
