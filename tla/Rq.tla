--------------------------------- MODULE Rq ---------------------------------
(***************************************************************************)
(* The order in which tasks get the processor: the virtual run times that  *)
(* sched_node charges, the run queue ordered by them (rq::_runqueue), the  *)
(* sleep queue ordered by wake time (time_ordered_queue) and the two       *)
(* clocks: thread_clock, in which a burst of computing is measured, and    *)
(* the system_clock of the sleep queue, which also runs while the process  *)
(* does not.                                                               *)
(*                                                                         *)
(* A task is its address, a number: equal virtual run times are ordered by *)
(* it.  A burst is counted in units of the nanosecond clock, Unit of which *)
(* make the microsecond in which virtual run time is kept.                 *)
(***************************************************************************)
EXTENDS Dispatch, Sequences, FiniteSets

CONSTANTS
  Host,
  Unit,       \* clock units per microsecond
  MinBurst,   \* the shortest and the longest time, in clock units, between
  MaxBurst,   \*   two looks at the clock
  MaxVruntime,  \* bound on virtual run times
  Durations,    \* what programs pass to sleep_for
  MaxWall,      \* bound on the system clock
  Respawn,      \* whether a task that has exited may be spawned again
  Handoffs      \* whether programs use waiter::swap

ASSUME TaskAssumption == Task \subseteq Nat /\ Host \in Task
ASSUME UnitAssumption == Unit \in Nat \ {0}
ASSUME BurstAssumption == MinBurst \in Nat /\ MaxBurst \in Nat /\ MinBurst <= MaxBurst
ASSUME BoundAssumption == MaxVruntime \in Nat /\ MaxWall \in Nat
ASSUME DurationAssumption == Durations \subseteq Nat
ASSUME FlagAssumption == Respawn \in BOOLEAN /\ Handoffs \in BOOLEAN

VARIABLES
  vruntime,      \* task::vruntime, in microseconds
  min_vruntime,  \* rq::_min_vruntime
  ran,           \* thread_clock::now() - sched_node::_last_tick
  sleepq,        \* time_ordered_queue::_q: [ripe, t] in the multimap's order
  wall,          \* system_clock::now()
  gone,          \* history: the tasks that have exited
  due,           \* history: when the task's last sleep_for was to end
  rested,        \* history: the tasks that waited or slept since their spawn
  fault

vars == <<dispatchVars, vruntime, min_vruntime, ran, sleepq, wall, gone, due, rested, fault>>

Sleepers(s) == {s[i].t : i \in DOMAIN s}

TypeOK ==
  /\ DispatchTypeOK
  /\ vruntime \in [Task -> 0..MaxVruntime]
  /\ min_vruntime \in 0..MaxVruntime
  /\ ran \in 0..MaxBurst
  /\ wall \in 0..MaxWall
  /\ \A i \in DOMAIN sleepq : sleepq[i].t \in Task /\ sleepq[i].ripe \in Nat
  /\ gone \subseteq Task
  /\ due \in [Task -> Nat]
  /\ rested \subseteq Task
  /\ fault \in {"none", "nothing to do", "null task"}

Init ==
  /\ current = Host
  /\ run_state = [t \in Task |-> IF t = Host THEN "RUNNING" ELSE "STOPPED"]
  /\ no_preempt_flag = [t \in Task |-> FALSE]
  /\ ready = [t \in Task |-> 0]
  /\ vruntime = [t \in Task |-> 0]
  /\ min_vruntime = 0
  /\ ran = 0
  /\ sleepq = <<>>
  /\ wall = 0
  /\ gone = {}
  /\ due = [t \in Task |-> 0]
  /\ rested = {}
  /\ fault = "none"

-----------------------------------------------------------------------------
(* The burst, cut to whole microseconds, is added to c's virtual run time. *)
Charged(c) == [vruntime EXCEPT ![c] = @ + ran \div Unit]

(* Variant: the queue is ordered by address alone. *)
BeforeByAddress(vr, t, u) == t <= u

(* rq::time_ordered_compare *)
Before(vr, t, u) == IF vr[t] = vr[u] THEN t <= u ELSE vr[t] < vr[u]

(* _runqueue.begin() *)
First(vr, q) == CHOOSE t \in Queued(q) : \A u \in Queued(q) : Before(vr, t, u)

(* time_ordered_queue::push: a multimap puts equal keys in order of arrival. *)
SleepPush(s, r, c) ==
  LET k == Cardinality({i \in DOMAIN s : s[i].ripe <= r})
  IN  SubSeq(s, 1, k) \o <<[ripe |-> r, t |-> c]>> \o SubSeq(s, k + 1, Len(s))

(* Variant: the sleep is counted back from the clock. *)
WakeTimeBefore(d) == wall - d

(* rq::sleep_push's earliest_wake_time *)
WakeTime(d) == wall + d

(* time_ordered_queue::pop's test of the first entry against the clock. *)
Ripe(e, now) == e.ripe >= now

(***************************************************************************)
(* get_next_task and the switch.  vr is c's virtual run time charged, q    *)
(* and s the queues with c where it goes, now the time pop reads: the head *)
(* of the sleep queue moves to the run queue if it is Ripe; then the first *)
(* of the run queue is taken, and min_vruntime follows it.                 *)
(***************************************************************************)
NextTask(c, rs, vr, q, s, now) ==
  LET woken == s # <<>> /\ Ripe(Head(s), now)
      q1 == IF woken THEN Push(q, Head(s).t) ELSE q
      s1 == IF woken THEN Tail(s) ELSE s
      n  == First(vr, q1)
  IN  IF Queued(q1) = {}
      THEN /\ fault' = IF s = <<>> THEN "nothing to do" ELSE "null task"
           /\ UNCHANGED <<dispatchVars, vruntime, min_vruntime, ran, sleepq>>
      ELSE /\ RunNext(c, n, rs, q1, {})
           /\ vruntime' = vr
           /\ min_vruntime' = IF min_vruntime < vr[n] THEN vr[n] ELSE min_vruntime
           /\ ran' = 0
           /\ sleepq' = s1
           /\ UNCHANGED fault

(* Bounds: a burst is long enough to be seen and the clocks have room. *)
Looks(c) ==
  /\ fault = "none"
  /\ current = c
  /\ ran >= MinBurst
  /\ Charged(c)[c] <= MaxVruntime

-----------------------------------------------------------------------------
(* Time passes: on both clocks, or on the system clock only. *)
Compute ==
  /\ fault = "none"
  /\ ran < MaxBurst
  /\ ran' = ran + 1
  /\ UNCHANGED <<dispatchVars, vruntime, min_vruntime, sleepq, wall, gone, due, rested, fault>>

Elapse ==
  /\ fault = "none"
  /\ wall < MaxWall
  /\ wall' = wall + 1
  /\ UNCHANGED <<dispatchVars, vruntime, min_vruntime, ran, sleepq, gone, due, rested, fault>>

(* sched::yield, or a tick *)
Yield(c) ==
  /\ Looks(c)
  /\ NextTask(c, run_state, Charged(c), Requeue(c, run_state, ready), sleepq, wall)
  /\ UNCHANGED <<wall, gone, due, rested>>

(* A task waits for another one: join, or a waiter's park. *)
Block(c) ==
  /\ Looks(c)
  /\ NextTask(c, [run_state EXCEPT ![c] = "WAITING"], Charged(c), ready, sleepq, wall)
  /\ rested' = rested \cup {c}
  /\ UNCHANGED <<wall, gone, due>>

(* sched::exit *)
Exit(c) ==
  /\ Looks(c)
  /\ c # Host
  /\ NextTask(c, [run_state EXCEPT ![c] = "STOPPED"], Charged(c), ready, sleepq, wall)
  /\ gone' = gone \cup {c}
  /\ UNCHANGED <<wall, due, rested>>

(* sched_node::yield_for: the clock is read to push the sleeper and, up to
   one unit later, by pop. *)
SleepFor(c, d) ==
  /\ Looks(c)
  /\ \E now \in {wall, wall + 1} \cap 0..MaxWall :
       /\ NextTask(c, [run_state EXCEPT ![c] = "WAITING"], Charged(c), ready,
                   SleepPush(sleepq, WakeTime(d), c), now)
       /\ wall' = now
  /\ due' = [due EXCEPT ![c] = wall + d]
  /\ rested' = rested \cup {c}
  /\ UNCHANGED gone

(* Variant: a new task starts with no virtual run time. *)
StartVruntimeZero(vr, t) == vr

(* A task with no virtual run time yet starts with the least that is due. *)
StartVruntime(vr, t) == [vr EXCEPT ![t] = IF @ = 0 THEN min_vruntime ELSE @]

(* sched_node::schedule of a new task, which was reset or created ... *)
Spawn(c, t) ==
  /\ fault = "none"
  /\ current = c
  /\ run_state[t] = "STOPPED"
  /\ Respawn \/ t \notin gone
  /\ run_state' = [run_state EXCEPT ![t] = "SUSPENDED"]
  /\ vruntime' = StartVruntime([vruntime EXCEPT ![t] = 0], t)
  /\ ready' = Push(ready, t)
  /\ gone' = gone \ {t}
  /\ due' = [due EXCEPT ![t] = 0]
  /\ rested' = rested \ {t}
  /\ UNCHANGED <<current, no_preempt_flag, min_vruntime, ran, sleepq, wall, fault>>

(* The tasks that wait outside both queues. *)
Blocked ==
  {t \in Task \ {current} :
     run_state[t] = "WAITING" /\ ready[t] = 0 /\ t \notin Sleepers(sleepq)}

(* ... and of a task that waited: exit's joiner, or a waiter's unpark. *)
Wake(c, t) ==
  /\ fault = "none"
  /\ current = c
  /\ t \in Blocked
  /\ vruntime' = StartVruntime(vruntime, t)
  /\ ready' = Push(ready, t)
  /\ UNCHANGED <<current, run_state, no_preempt_flag, min_vruntime, ran, sleepq,
                 wall, gone, due, rested, fault>>

(* sched_node::switch_to, from a waiter's swap: c waits and t runs at once. *)
Handoff(c, t) ==
  /\ Handoffs
  /\ Looks(c)
  /\ t \in Blocked
  /\ vruntime' = Charged(c)
  /\ ran' = 0
  /\ SwitchTo(c, t, [run_state EXCEPT ![c] = "WAITING"], {})
  /\ rested' = rested \cup {c}
  /\ UNCHANGED <<ready, min_vruntime, sleepq, wall, gone, due, fault>>

Next ==
  \/ Compute \/ Elapse
  \/ \E c \in Task :
       \/ Yield(c) \/ Block(c) \/ Exit(c)
       \/ \E d \in Durations : SleepFor(c, d)
       \/ \E t \in Task : Spawn(c, t) \/ Wake(c, t) \/ Handoff(c, t)

Spec == Init /\ [][Next]_vars

(***************************************************************************)
(* Fairness: the processor computes, and the current task yields again and *)
(* again, because the timer makes it if the program does not.              *)
(***************************************************************************)
LiveSpec == Spec /\ WF_vars(Compute) /\ SF_vars(\E c \in Task : Yield(c))

-----------------------------------------------------------------------------
(***************************************************************************)
(* The queues with their order and their clocks do what module RunBag      *)
(* promises, and so what module Sched assumes of them.                     *)
(***************************************************************************)
Bag == INSTANCE RunBag WITH sleeping <- Sleepers(sleepq)

ImplementsRunBag == Bag!Spec

(***************************************************************************)
(* Tasks that have been runnable ever since they were spawned keep within  *)
(* one burst of each other, new ones included (the fair scheduler of       *)
(* get_next_task, time_ordered_compare and schedule's min_vruntime).       *)
(***************************************************************************)
KeepsPace ==
  \A t \in Task \ rested :
    run_state[t] # "STOPPED" =>
      /\ min_vruntime <= vruntime[t]
      /\ vruntime[t] <= min_vruntime + MaxBurst \div Unit

(* Somebody is so near the bound that a burst more is not counted. *)
NearBound == \E u \in Task : vruntime[u] + MaxBurst \div Unit > MaxVruntime

(***************************************************************************)
(* A task on the run queue gets the processor in the end: those ahead of   *)
(* it use up their lead (get_next_task, time_ordered_compare and pop).     *)
(***************************************************************************)
EveryoneRuns ==
  \A t \in Task : (ready[t] > 0 /\ ~ NearBound) ~> current = t

(***************************************************************************)
(* A task runs on only once the time it asked to sleep has passed          *)
(* (sleep_for, sched_node::yield_for and time_ordered_queue::pop).         *)
(***************************************************************************)
SleepsLongEnough == due[current] <= wall
=============================================================================
