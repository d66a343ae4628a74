-------------------------------- MODULE Sched --------------------------------
(***************************************************************************)
(* The scheduler: sched::spawn, yield, join, detach, exit and sleep_for    *)
(* over one sched_node, the free list of tasks and the preemption timer.   *)
(*                                                                         *)
(* A task's program is arbitrary: in its own code ("user") it may call any *)
(* operation of sched.h on any handle it holds.  A call is cut into one    *)
(* action per stretch that nothing can interrupt; pc[t] says where between *)
(* two of them t stands.                                                   *)
(*                                                                         *)
(*   user     in the task's own code                                       *)
(*   make     in task_freelist::make_task, _mu locked                      *)
(*   sched    in spawn: the new task is started and not yet scheduled      *)
(*   join     in join, line 93: WAITING, before the call of yield          *)
(*   claim    in join or detach: the task was found STOPPED, or said so    *)
(*   return   in task_freelist::return_task, _mu locked                    *)
(*   entry    in gthread_task_entry, before it sets itself RUNNING         *)
(*   done     exited: never to run again                                   *)
(*   none     not started                                                  *)
(*                                                                         *)
(* The timer's tick can strike at any of these places where the current    *)
(* task does not hold the preempt_mutex; TickAt says at which ones the     *)
(* instance lets it.                                                       *)
(***************************************************************************)
EXTENDS Dispatch, FiniteSets

CONSTANTS
  Host,      \* sched_node::_host_task, the thread the scheduler was made on
  NULL,      \* nullptr
  MaxPool,   \* task_freelist::_max_size
  TickAt,    \* the places where a tick may strike
  Sleeps     \* whether programs call sleep_for

Places == {"user", "make", "sched", "join", "claim", "return", "entry"}

ASSUME HostAssumption == Host \in Task
ASSUME NullAssumption == NULL \notin Task
ASSUME PoolAssumption == MaxPool \in Nat
ASSUME TickAtAssumption == TickAt \subseteq Places
ASSUME SleepsAssumption == Sleeps \in BOOLEAN

VARIABLES
  sleeping,      \* the tasks in rq::_sleepqueue
  deferred,      \* sched_node::_deferred
  joiner,        \* task::joiner
  detached,      \* task::detached
  return_value,  \* task::return_value; a task exits with its own name
  alloc,         \* where the task is: "live", "pooled" (task_freelist::_l), "none"
  mu,            \* the holder of task_freelist::_mu
  owner,         \* the task whose sched::handle names this one
  pc,            \* where each task stands
  target,        \* the task that the call t is in is about
  armed,         \* the preemption timer is set
  fault          \* why the process cannot go on

taskVars == <<joiner, detached, return_value>>
vars == <<dispatchVars, sleeping, deferred, taskVars, alloc, mu, owner, pc,
          target, armed, fault>>

Faults == {"none", "nothing to do", "null task", "freelist mutex", "assertion"}

TypeOK ==
  /\ DispatchTypeOK
  /\ sleeping \subseteq Task
  /\ deferred \in Task \cup {NULL}
  /\ joiner \in [Task -> Task \cup {NULL}]
  /\ detached \in [Task -> BOOLEAN]
  /\ return_value \in [Task -> Task \cup {NULL}]
  /\ alloc \in [Task -> {"none", "live", "pooled"}]
  /\ mu \in Task \cup {NULL}
  /\ owner \in [Task -> Task \cup {NULL}]
  /\ pc \in [Task -> Places \cup {"none", "done"}]
  /\ target \in [Task -> Task \cup {NULL}]
  /\ armed \in BOOLEAN
  /\ fault \in Faults

(***************************************************************************)
(* sched_context is made on first use: the running thread becomes the host *)
(* task, the free list is empty and the timer is set.                      *)
(***************************************************************************)
Init ==
  /\ current = Host
  /\ run_state = [t \in Task |-> IF t = Host THEN "RUNNING" ELSE "STOPPED"]
  /\ no_preempt_flag = [t \in Task |-> FALSE]
  /\ ready = [t \in Task |-> 0]
  /\ sleeping = {}
  /\ deferred = NULL
  /\ joiner = [t \in Task |-> NULL]
  /\ detached = [t \in Task |-> FALSE]
  /\ return_value = [t \in Task |-> NULL]
  /\ alloc = [t \in Task |-> IF t = Host THEN "live" ELSE "none"]
  /\ mu = NULL
  /\ owner = [t \in Task |-> NULL]
  /\ pc = [t \in Task |-> IF t = Host THEN "user" ELSE "none"]
  /\ target = [t \in Task |-> NULL]
  /\ armed = TRUE
  /\ fault = "none"

-----------------------------------------------------------------------------
(* c is executing, at place p. *)
At(c, p) == fault = "none" /\ current = c /\ pc[c] = p

Goto(c, p) == pc' = [pc EXCEPT ![c] = p]

(* The process ends here: an abort, or the kernel thread blocks for good. *)
Fail(why) ==
  /\ fault' = why
  /\ UNCHANGED <<dispatchVars, sleeping, deferred, taskVars, alloc, mu, owner,
                 pc, target, armed>>

(* task_freelist::return_task, _mu held: kept up to MaxPool, else destroyed. *)
ReturnTo(al, t) ==
  [al EXCEPT ![t] = IF Cardinality({u \in Task : al[u] = "pooled"}) < MaxPool
                    THEN "pooled" ELSE "none"]

(* A task that has yet to run gthread_task_entry past its first switch. *)
Fresh == {t \in Task : pc[t] = "entry"}

(***************************************************************************)
(* rq::pop and the switch that follows.  A sleeper that the sleep queue    *)
(* hands out joins the run queue; one that it does not hand out leaves the *)
(* run queue as it is, and when that is empty the null sleeper is emplaced *)
(* and dereferenced.  With nobody to run and nobody asleep the process     *)
(* aborts ("nothing to do. deadlock?").                                    *)
(***************************************************************************)
Pop(c, rs, q, sl) ==
  \/ /\ sleeping' = sl
     /\ fault' = "none"
     /\ \E n \in Task : RunNext(c, n, rs, q, Fresh)
  \/ \E s \in sl :
       /\ sleeping' = sl \ {s}
       /\ fault' = "none"
       /\ \E n \in Task : RunNext(c, n, rs, Push(q, s), Fresh)
  \/ /\ Queued(q) = {}
     /\ fault' = IF sl = {} THEN "nothing to do" ELSE "null task"
     /\ UNCHANGED <<dispatchVars, sleeping>>

(* Variants: the deferred task is forgotten; a task is returned at once. *)
FlushedNever(c, rs) == alloc
FlushedAtOnce(c, rs) ==
  IF rs[c] = "STOPPED" /\ detached[c] THEN ReturnTo(alloc, c) ELSE alloc

(* yield returns the task whose return the last yield deferred ... *)
Flushed(c, rs) == IF deferred = NULL THEN alloc ELSE ReturnTo(alloc, deferred)

(* Variant: a returned task stays in _deferred. *)
DeferredKept(c, rs) == IF rs[c] = "STOPPED" /\ detached[c] THEN c ELSE deferred

(* ... and get_next_task defers that of a detached task that exits. *)
Deferred(c, rs) == IF rs[c] = "STOPPED" /\ detached[c] THEN c ELSE NULL

(***************************************************************************)
(* sched_node::yield called by c, its run state and the queues being rs, q *)
(* and sl by then.  First the task whose return the last yield deferred is *)
(* returned: it stopped on its own stack, and that stack is no longer in   *)
(* use.  The free list's mutex is a std::mutex of the one kernel thread:   *)
(* if a preempted task holds it, this blocks for ever.                     *)
(***************************************************************************)
NodeYield(c, rs, q, sl) ==
  IF deferred # NULL /\ mu # NULL
  THEN /\ fault' = "freelist mutex"
       /\ UNCHANGED <<dispatchVars, sleeping, deferred, alloc>>
  ELSE /\ alloc' = Flushed(c, rs)
       /\ deferred' = Deferred(c, rs)
       /\ Pop(c, rs, Requeue(c, rs, q), sl)

-----------------------------------------------------------------------------
(* sched::yield *)
Yield(c) ==
  /\ At(c, "user")
  /\ NodeYield(c, run_state, ready, sleeping)
  /\ UNCHANGED <<taskVars, mu, owner, pc, target, armed>>

(* spawn calls make_task, which locks the free list (the bound: Task has a
   name left for one more task) ... *)
SpawnLock(c) ==
  /\ At(c, "user")
  /\ \E t \in Task : alloc[t] # "live"
  /\ \/ /\ mu = NULL
        /\ mu' = c
        /\ Goto(c, "make")
        /\ UNCHANGED <<dispatchVars, sleeping, deferred, taskVars, alloc, owner,
                       target, armed, fault>>
     \/ mu # NULL /\ Fail("freelist mutex")

(***************************************************************************)
(* ... takes a task of fitting attributes off it and resets it, or creates *)
(* one, and starts it: task::start runs it up to its first switch back.    *)
(***************************************************************************)
SpawnStart(c) ==
  /\ At(c, "make")
  /\ mu' = NULL
  /\ \E t \in Task :
       /\ alloc[t] # "live"
       /\ alloc' = [alloc EXCEPT ![t] = "live"]
       /\ run_state' = [run_state EXCEPT ![t] = "SUSPENDED"]
       /\ no_preempt_flag' = [no_preempt_flag EXCEPT ![t] = FALSE]
       /\ joiner' = [joiner EXCEPT ![t] = NULL]
       /\ detached' = [detached EXCEPT ![t] = FALSE]
       /\ return_value' = [return_value EXCEPT ![t] = NULL]
       /\ pc' = [pc EXCEPT ![c] = "sched", ![t] = "entry"]
       /\ target' = [target EXCEPT ![c] = t]
  /\ UNCHANGED <<current, ready, sleeping, deferred, owner, armed, fault>>

(* The tail of spawn: schedule the new task and hand out its handle. *)
SpawnSchedule(c) ==
  /\ At(c, "sched")
  /\ ready' = Push(ready, target[c])
  /\ owner' = [owner EXCEPT ![target[c]] = c]
  /\ target' = [target EXCEPT ![c] = NULL]
  /\ Goto(c, "user")
  /\ UNCHANGED <<current, run_state, no_preempt_flag, sleeping, deferred,
                 taskVars, alloc, mu, armed, fault>>

(* Variant: join and detach take every task for one that still runs. *)
ExitedNever(t) == FALSE

(* What join and detach ask of a task before they wait for it or mark it. *)
Exited(t) == run_state[t] = "STOPPED"

(***************************************************************************)
(* join up to line 93.  A handle that somebody is already waiting on makes *)
(* it throw, and nothing changes.  The preempt_mutex is released before    *)
(* yield takes it again, with the caller already WAITING.                  *)
(***************************************************************************)
Join(c, t) ==
  /\ At(c, "user")
  /\ owner[t] = c
  /\ joiner[t] = NULL
  /\ target' = [target EXCEPT ![c] = t]
  /\ IF ~ Exited(t)
     THEN /\ joiner' = [joiner EXCEPT ![t] = c]
          /\ run_state' = [run_state EXCEPT ![c] = "WAITING"]
          /\ Goto(c, "join")
     ELSE /\ Goto(c, "claim")
          /\ UNCHANGED <<joiner, run_state>>
  /\ UNCHANGED <<current, no_preempt_flag, ready, sleeping, deferred, detached,
                 return_value, alloc, mu, owner, armed, fault>>

JoinYield(c) ==
  /\ At(c, "join")
  /\ NodeYield(c, run_state, ready, sleeping)
  /\ Goto(c, "claim")
  /\ UNCHANGED <<taskVars, mu, owner, target, armed>>

(***************************************************************************)
(* join from its assertion on, or detach of a stopped task: the result is  *)
(* read and return_task locks the free list ...                            *)
(***************************************************************************)
Claim(c) ==
  /\ At(c, "claim")
  /\ IF run_state[target[c]] # "STOPPED" THEN Fail("assertion")
     ELSE IF mu # NULL THEN Fail("freelist mutex")
     ELSE /\ mu' = c
          /\ Goto(c, "return")
          /\ UNCHANGED <<dispatchVars, sleeping, deferred, taskVars, alloc,
                         owner, target, armed, fault>>

(* ... and puts the task back; the handle becomes empty. *)
ReturnTask(c) ==
  /\ At(c, "return")
  /\ alloc' = ReturnTo(alloc, target[c])
  /\ mu' = NULL
  /\ owner' = [owner EXCEPT ![target[c]] = NULL]
  /\ target' = [target EXCEPT ![c] = NULL]
  /\ Goto(c, "user")
  /\ UNCHANGED <<dispatchVars, sleeping, deferred, taskVars, armed, fault>>

(* sched::detach: a task that has exited is claimed like a joined one. *)
Detach(c, t) ==
  /\ At(c, "user")
  /\ owner[t] = c
  /\ IF ~ Exited(t)
     THEN /\ detached' = [detached EXCEPT ![t] = TRUE]
          /\ owner' = [owner EXCEPT ![t] = NULL]
          /\ UNCHANGED <<target, pc>>
     ELSE /\ target' = [target EXCEPT ![c] = t]
          /\ Goto(c, "claim")
          /\ UNCHANGED <<detached, owner>>
  /\ UNCHANGED <<dispatchVars, sleeping, deferred, joiner, return_value, alloc,
                 mu, armed, fault>>

(* Variant: exit leaves the joiner waiting. *)
WakeNobody(c) == ready

(* exit schedules the task that waits for c in join. *)
WakeJoiner(c) == IF joiner[c] = NULL THEN ready ELSE Push(ready, joiner[c])

(***************************************************************************)
(* exit, called by the task or by the end handler when its entry function  *)
(* returns.  A program joins or detaches what it spawned before it ends;   *)
(* the host task cannot exit.                                              *)
(***************************************************************************)
Exit(c) ==
  /\ At(c, "user")
  /\ c # Host
  /\ \A t \in Task : owner[t] # c
  /\ return_value' = [return_value EXCEPT ![c] = c]
  /\ NodeYield(c, [run_state EXCEPT ![c] = "STOPPED"], WakeJoiner(c), sleeping)
  /\ Goto(c, "done")
  /\ UNCHANGED <<joiner, detached, mu, owner, target, armed>>

(* sched::sleep_for: sched_node::yield_for *)
SleepFor(c) ==
  /\ Sleeps
  /\ At(c, "user")
  /\ NodeYield(c, [run_state EXCEPT ![c] = "WAITING"], ready, sleeping \cup {c})
  /\ UNCHANGED <<taskVars, mu, owner, pc, target, armed>>

(* The first thing a task does after it is first switched to. *)
Enter(c) ==
  /\ At(c, "entry")
  /\ run_state' = [run_state EXCEPT ![c] = "RUNNING"]
  /\ Goto(c, "user")
  /\ UNCHANGED <<current, no_preempt_flag, ready, sleeping, deferred, taskVars,
                 alloc, mu, owner, target, armed, fault>>

(* enable_timer_preemption and disable_timer_preemption *)
SetTimer(c, on) ==
  /\ At(c, "user")
  /\ armed # on
  /\ armed' = on
  /\ UNCHANGED <<dispatchVars, sleeping, deferred, taskVars, alloc, mu, owner,
                 pc, target, fault>>

(* Variant: the trap reads the no_preempt_flag the wrong way round. *)
PreemptibleInverted(c) == pc[c] \in TickAt /\ no_preempt_flag[c]

(* The trap's test, at the places the instance lets it strike. *)
Preemptible(c) == pc[c] \in TickAt /\ ~ no_preempt_flag[c]

(***************************************************************************)
(* The SIGPROF handler: a tick that finds the current task's               *)
(* no_preempt_flag clear yields in its name, whatever it was doing.        *)
(***************************************************************************)
Tick ==
  /\ fault = "none"
  /\ armed
  /\ Preemptible(current)
  /\ NodeYield(current, run_state, ready, sleeping)
  /\ UNCHANGED <<taskVars, mu, owner, pc, target, armed>>

TaskStep(c) ==
  \/ Yield(c) \/ SpawnLock(c) \/ SpawnStart(c) \/ SpawnSchedule(c)
  \/ JoinYield(c) \/ Claim(c) \/ ReturnTask(c) \/ Exit(c) \/ SleepFor(c)
  \/ Enter(c)
  \/ \E t \in Task : Join(c, t) \/ Detach(c, t)
  \/ \E on \in BOOLEAN : SetTimer(c, on)

Next == Tick \/ \E c \in Task : TaskStep(c)

Spec == Init /\ [][Next]_vars

(***************************************************************************)
(* Fairness.  The timer ticks for as long as it is set.  A task that ticks *)
(* find on the run queue again and again is run again and again, because   *)
(* the run queue is ordered by virtual run time (EveryoneRuns of module    *)
(* Rq).  A task inside a call goes on when it has the processor.  Of the   *)
(* programs: a spawned task gives up its handles and exits in the end; the *)
(* host task may compute for ever.                                         *)
(***************************************************************************)
Served(t) ==
  []<>(armed /\ Preemptible(current) /\ t \in Queued(ready)) => []<>(current = t)

InCall(t) ==
  \/ SpawnStart(t) \/ SpawnSchedule(t) \/ JoinYield(t)
  \/ Claim(t) \/ ReturnTask(t) \/ Enter(t)

Fairness ==
  /\ WF_vars(Tick)
  /\ \A t \in Task : Served(t) /\ SF_vars(InCall(t))
  /\ \A t \in Task \ {Host} :
       /\ SF_vars(\E u \in Task : Join(t, u) \/ Detach(t, u))
       /\ SF_vars(Exit(t))

LiveSpec == Spec /\ Fairness

-----------------------------------------------------------------------------
(* The properties are of a process that runs: fault = "none". *)

(* Started, not exited, and not in its spawner's hands only. *)
Scheduled(t) ==
  /\ alloc[t] = "live"
  /\ pc[t] # "done"
  /\ \A c \in Task : ~ (pc[c] = "sched" /\ target[c] = t)

(***************************************************************************)
(* A task that can still run and is not running is where the scheduler     *)
(* will find it: queued, asleep, or waiting for a task that has yet to     *)
(* exit and will then schedule it (sched_node::get_next_task, join, exit). *)
(***************************************************************************)
NoLostTask ==
  \A t \in Task :
    fault = "none" /\ Scheduled(t) /\ t # current =>
      \/ t \in Queued(ready)
      \/ t \in sleeping
      \/ /\ run_state[t] = "WAITING"
         /\ \E u \in Task : joiner[u] = t /\ Scheduled(u)

(***************************************************************************)
(* A task is in one queue at most, once, and not while it runs: a second   *)
(* entry would resume a context that is in use or already gone (rq::push   *)
(* by get_next_task and by exit's wake-up of the joiner).                  *)
(***************************************************************************)
QueuedOnce ==
  \A t \in Task :
    fault = "none" =>
      /\ ready[t] <= 1
      /\ ready[t] = 1 => t # current /\ t \notin sleeping
      /\ t \in sleeping => t # current

(***************************************************************************)
(* Nothing that the scheduler or a call in progress will dereference was   *)
(* given back to the free list: the queues, _deferred, the joiner that     *)
(* exit will wake, and the task a join or spawn is about.                  *)
(***************************************************************************)
NoUseAfterReturn ==
  LET Used == Queued(ready) \cup sleeping \cup {current, deferred}
              \cup {target[c] : c \in Task}
              \cup {joiner[t] : t \in {u \in Task : Scheduled(u)}}
  IN  fault = "none" => \A t \in Used \ {NULL} : alloc[t] = "live"

(***************************************************************************)
(* When join reads the result, the joined task has exited and its result   *)
(* is still there: it was neither returned nor reused meanwhile.           *)
(***************************************************************************)
JoinSeesResult ==
  \A c \in Task :
    fault = "none" /\ c = current /\ pc[c] \in {"claim", "return"} =>
      /\ run_state[target[c]] = "STOPPED"
      /\ return_value[target[c]] = target[c]

(***************************************************************************)
(* A task that exited keeps its stack only as long as a handle to it is    *)
(* held or its return is deferred (exit, detach and _deferred).            *)
(***************************************************************************)
NoLeak ==
  \A t \in Task :
    fault = "none" /\ alloc[t] = "live" /\ pc[t] = "done" =>
      \/ deferred = t
      \/ owner[t] # NULL /\ alloc[owner[t]] = "live" /\ pc[owner[t]] # "done"

(***************************************************************************)
(* The process neither aborts nor blocks in a mutex that a preempted task  *)
(* of its own holds.                                                       *)
(***************************************************************************)
NoFault == fault = "none"

(***************************************************************************)
(* A stack is given back only by another task than the one that exited on  *)
(* it: neither the stack the step starts on nor the one it ends on         *)
(* (sched_node::_deferred).                                                *)
(***************************************************************************)
NeverFreesRunningStack ==
  [][\A t \in Task :
       alloc[t] = "live" /\ alloc'[t] # "live" =>
         t # current /\ t # current' /\ pc[t] = "done"]_vars

(***************************************************************************)
(* A task that waits in join gets its result in the end, even beside a     *)
(* host task that never yields, provided the timer stays set.              *)
(***************************************************************************)
JoinReturns ==
  <>[]armed => \A c \in Task : pc[c] = "join" ~> pc[c] = "user"

(***************************************************************************)
(* The stack of a detached task that has exited is given back in the end:  *)
(* some later yield or tick returns what _deferred holds.                  *)
(***************************************************************************)
DetachedReclaimed ==
  <>[]armed => \A t \in Task : deferred = t ~> alloc[t] # "live"

-----------------------------------------------------------------------------
(* Why the safety properties hold: the facts that every step preserves. *)

Ended(t) == pc[t] \in {"none", "done"}

(* The tasks that may run are live, and the host is one of them. *)
AllocInv ==
  /\ ~ Ended(Host)
  /\ \A t \in Task : IF alloc[t] = "live" THEN pc[t] # "none" ELSE Ended(t)

(* A task that has ended is nowhere to be found, and holds no handle. *)
EndedInv ==
  \A t \in Task : Ended(t) =>
    /\ t # current /\ ready[t] = 0 /\ t \notin sleeping
    /\ \A u \in Task : owner[u] # t

QueueInv ==
  \A t \in Task :
    /\ ready[t] \in {0, 1}
    /\ ready[t] = 1 => t # current /\ t \notin sleeping
    /\ t \in sleeping => t # current

(* STOPPED says that the task has exited, and its result is there then. *)
StoppedInv ==
  \A t \in Task : alloc[t] = "live" =>
    /\ run_state[t] = "STOPPED" <=> pc[t] = "done"
    /\ pc[t] = "done" => return_value[t] = t

(* Between start and schedule only its spawner knows a task. *)
SpawnInv ==
  \A c \in Task : pc[c] = "sched" =>
    /\ target[c] \in Task
    /\ alloc[target[c]] = "live"
    /\ pc[target[c]] = "entry"
    /\ target[c] # current
    /\ ready[target[c]] = 0
    /\ target[c] \notin sleeping
    /\ owner[target[c]] = NULL
    /\ joiner[target[c]] = NULL
    /\ ~ detached[target[c]]
    /\ \A d \in Task : pc[d] = "sched" /\ target[d] = target[c] => d = c

(* A call has the handle of the task it is about; else it is about none. *)
TargetInv ==
  \A c \in Task :
    /\ pc[c] \in {"join", "claim", "return"} =>
         target[c] \in Task /\ owner[target[c]] = c
    /\ pc[c] \notin {"sched", "join", "claim", "return"} => target[c] = NULL

(* A task has a handle, or is detached, or its spawner is about to get one. *)
OwnerInv ==
  \A t \in Task :
    /\ owner[t] # NULL => alloc[t] = "live" /\ ~ detached[t]
    /\ alloc[t] = "live" /\ t # Host /\ owner[t] = NULL =>
         \/ detached[t]
         \/ \E c \in Task : pc[c] = "sched" /\ target[c] = t

(* What a call of join or detach knows of the task it is about. *)
JoinInv ==
  \A c \in Task :
    /\ pc[c] = "join" => joiner[target[c]] = c
    /\ pc[c] = "claim" => pc[target[c]] = "done" \/ joiner[target[c]] = c
    /\ pc[c] = "return" => pc[target[c]] = "done"

(* The joiner of a task that has not exited waits for it, off the queues. *)
JoinerInv ==
  \A u \in Task : alloc[u] = "live" /\ pc[u] # "done" /\ joiner[u] # NULL =>
    /\ target[joiner[u]] = u
    /\ pc[joiner[u]] \in {"join", "claim"}
    /\ run_state[joiner[u]] = "WAITING"
    /\ ready[joiner[u]] = 0
    /\ joiner[u] \notin sleeping
    /\ joiner[u] = current => pc[joiner[u]] = "join"

(* _deferred holds just the exited task that nobody has a handle to. *)
DeferredInv ==
  /\ deferred # NULL =>
       alloc[deferred] = "live" /\ pc[deferred] = "done" /\ owner[deferred] = NULL
  /\ \A t \in Task :
       alloc[t] = "live" /\ pc[t] = "done" => deferred = t \/ owner[t] # NULL

SafeInv ==
  /\ AllocInv /\ EndedInv /\ QueueInv /\ StoppedInv /\ SpawnInv
  /\ TargetInv /\ OwnerInv /\ JoinInv /\ JoinerInv /\ DeferredInv

IInv == TypeOK /\ (fault = "none" => SafeInv)

(***************************************************************************)
(* What is added where no tick strikes in gthread_task_entry and nobody    *)
(* sleeps: the current task is RUNNING, unless it is about to wait.        *)
(***************************************************************************)
RunningInv ==
  /\ sleeping = {}
  /\ \/ run_state[current] = "RUNNING"
     \/ pc[current] = "entry"
     \/ /\ pc[current] = "join"
        /\ pc[target[current]] # "done"

NInv == fault = "none" => RunningInv /\ NoLostTask

(***************************************************************************)
(* What is added where no tick strikes in make_task and return_task        *)
(* either: nobody is switched away from with the free list locked.         *)
(***************************************************************************)
MuInv == mu # NULL => mu = current /\ pc[mu] \in {"make", "return"}

(* Nobody spawned the host task: chains of joins have an end there. *)
HostInv == owner[Host] = NULL /\ pc[Host] # "entry"

FInv == NoFault /\ MuInv /\ HostInv
=============================================================================
