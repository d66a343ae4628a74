-------------------------------- MODULE Mutex --------------------------------
(***************************************************************************)
(* gthread::mutex: an owner, a list of waiters and a spin lock over both,  *)
(* whose spinning yields.  Tasks lock and unlock it for ever and hold no   *)
(* other mutex meanwhile; a tick can strike between any two steps.  pc[t]  *)
(* is where t stands:                                                      *)
(*                                                                         *)
(*   idle                                                                  *)
(*   spin     lock: acquiring _lock                                        *)
(*   look     lock: _lock held, at the loop's test                         *)
(*   park     lock: on the wait list, before park                          *)
(*   wait     park_if: the waiter claimed, before run_state = WAITING      *)
(*   sleep    park_if: WAITING, before yield                               *)
(*   respin   lock: back from park, acquiring _lock                        *)
(*   crit     the mutex is locked                                          *)
(*   unspin   unlock: acquiring _lock                                      *)
(*   free     unlock: _lock held                                           *)
(*   unpark   unlock: unparking the head of the wait list                  *)
(*   wake     unpark: the waiter emptied, before the task is scheduled     *)
(*   leave    unlock: the head was unparked                                *)
(*   bye      unlock: all done, before the last yield                      *)
(*                                                                         *)
(* task::priority_boost, which lock and unlock also write, is left out: it *)
(* is one field for all mutexes of a task and nothing reads it.            *)
(***************************************************************************)
EXTENDS Waiter, Sequences, FiniteSets, Functions

VARIABLES
  pc,
  spin,       \* mutex::_lock: its holder or NULL
  owner,      \* mutex::_owner
  waitqueue,  \* mutex::_waitqueue, by the task that emplaced the waiter
  waiting,    \* mutex::_priority_boost
  taken       \* the task that unpark took out of the waiter

mutexVars == <<spin, owner, waitqueue, waiting, taken>>
vars == <<waiterVars, pc, mutexVars>>

(* Each task parks in the waiter that it put on the list itself. *)
ASSUME SlotAssumption == Slot = Task
ASSUME FiniteAssumption == IsFiniteSet(Task)

Places == {"idle", "spin", "look", "park", "wait", "sleep", "respin", "crit",
           "unspin", "free", "unpark", "wake", "leave", "bye"}

TypeOK ==
  /\ WaiterTypeOK
  /\ pc \in [Task -> Places]
  /\ spin \in Task \cup {NULL}
  /\ owner \in Task \cup {NULL}
  /\ waitqueue \in Seq(Task)
  /\ waiting \in Nat
  /\ taken \in [Task -> Task \cup {NULL}]

(* Some task runs, the others are ready: preempted while they were idle. *)
Init ==
  /\ current \in Task
  /\ run_state = [t \in Task |-> IF t = current THEN "RUNNING" ELSE "SUSPENDED"]
  /\ no_preempt_flag = [t \in Task |-> t # current]
  /\ ready = [t \in Task |-> IF t = current THEN 0 ELSE 1]
  /\ waiter = [t \in Task |-> NULL]
  /\ fault = "none"
  /\ pc = [t \in Task |-> "idle"]
  /\ spin = NULL
  /\ owner = NULL
  /\ waitqueue = <<>>
  /\ waiting = 0
  /\ taken = [t \in Task |-> NULL]

-----------------------------------------------------------------------------
At(c, p) == Running(c) /\ pc[c] = p
Goto(c, p) == pc' = [pc EXCEPT ![c] = p]

(* spin_lock::lock: test_and_set, and self::yield when it was set. *)
Spin(c, from, to) ==
  /\ At(c, from)
  /\ \/ /\ spin = NULL
        /\ spin' = c
        /\ Goto(c, to)
        /\ UNCHANGED <<waiterVars, owner, waitqueue, waiting, taken>>
     \/ /\ spin # NULL
        /\ YieldNow(c)
        /\ UNCHANGED <<pc, mutexVars>>

Start(c) ==
  /\ At(c, "idle") \/ At(c, "crit")
  /\ Goto(c, IF pc[c] = "idle" THEN "spin" ELSE "unspin")
  /\ UNCHANGED <<waiterVars, mutexVars>>

LockSpin(c) == Spin(c, "spin", "look")

(* Variant: the owner is not looked at. *)
MustWaitNever == FALSE

(* mutex::lock's loop test *)
MustWait == owner # NULL

(***************************************************************************)
(* The loop's test, _lock held.  A locked mutex: count the waiter, put it  *)
(* on the list, release _lock.  Else the mutex is taken.                   *)
(***************************************************************************)
LockLook(c) ==
  /\ At(c, "look")
  /\ spin' = NULL
  /\ IF MustWait
     THEN /\ waiting' = waiting + 1
          /\ waitqueue' = Append(waitqueue, c)
          /\ Goto(c, "park")
          /\ UNCHANGED owner
     ELSE /\ owner' = c
          /\ Goto(c, "crit")
          /\ UNCHANGED <<waitqueue, waiting>>
  /\ UNCHANGED <<waiterVars, taken>>

LockPark(c) ==
  /\ At(c, "park")
  /\ IF CanPark(c) THEN Claim(c, c) /\ Goto(c, "wait") ELSE Fail /\ UNCHANGED pc
  /\ UNCHANGED mutexVars

LockWait(c) ==
  /\ At(c, "wait")
  /\ Wait(c)
  /\ Goto(c, "sleep")
  /\ UNCHANGED mutexVars

LockSleep(c) ==
  /\ At(c, "sleep")
  /\ YieldNow(c)
  /\ Goto(c, "respin")
  /\ UNCHANGED mutexVars

(* Variants: a waiter is never counted out; by its waker and by itself. *)
FewerNot(n) == n
FewerTwice(n) == n - 2

(* --_priority_boost *)
Fewer(n) == n - 1

(* Back from park: _lock again, one waiter less, and the test once more. *)
LockRespin(c) ==
  /\ At(c, "respin")
  /\ \/ /\ spin = NULL
        /\ spin' = c
        /\ waiting' = Fewer(waiting)
        /\ Goto(c, "look")
        /\ UNCHANGED <<waiterVars, owner, waitqueue, taken>>
     \/ /\ spin # NULL
        /\ YieldNow(c)
        /\ UNCHANGED <<pc, mutexVars>>

UnlockSpin(c) == Spin(c, "unspin", "free")

(* Variant: the fast path is taken although somebody waits. *)
NobodyWaitsEver == TRUE

(* mutex::unlock's test for the fast path *)
NobodyWaits == waitqueue = <<>>

(* unlock, _lock held: nobody waits, or the first waiter is to be unparked. *)
UnlockFree(c) ==
  /\ At(c, "free")
  /\ IF NobodyWaits
     THEN owner' = NULL /\ spin' = NULL /\ Goto(c, "idle")
     ELSE Goto(c, "unpark") /\ UNCHANGED <<owner, spin>>
  /\ UNCHANGED <<waiterVars, waitqueue, waiting, taken>>

(* Variant: unpark is tried once. *)
AfterMissLeave == "leave"

(* Where unlock goes on when unpark finds nobody parked: it tries again. *)
AfterMiss == "unpark"

(* while (!waiter->unpark()) self::yield(); *)
UnlockUnpark(c) ==
  /\ At(c, "unpark")
  /\ LET w == Head(waitqueue)
     IN  IF IsParked(w)
         THEN /\ TakeOut(w)
              /\ taken' = [taken EXCEPT ![c] = waiter[w]]
              /\ Goto(c, "wake")
         ELSE YieldNow(c) /\ Goto(c, AfterMiss) /\ UNCHANGED taken
  /\ UNCHANGED <<spin, owner, waitqueue, waiting>>

UnlockWake(c) ==
  /\ At(c, "wake")
  /\ IF run_state[taken[c]] = "WAITING"
     THEN Resume(taken[c]) /\ Goto(c, "leave")
     ELSE Fail /\ UNCHANGED pc
  /\ UNCHANGED mutexVars

UnlockLeave(c) ==
  /\ At(c, "leave")
  /\ waitqueue' = Tail(waitqueue)
  /\ owner' = NULL
  /\ spin' = NULL
  /\ taken' = [taken EXCEPT ![c] = NULL]
  /\ Goto(c, "bye")
  /\ UNCHANGED <<waiterVars, waiting>>

UnlockBye(c) ==
  /\ At(c, "bye")
  /\ YieldNow(c)
  /\ Goto(c, "idle")
  /\ UNCHANGED mutexVars

(* The timer's tick, or a yield of the program's own. *)
Tick ==
  /\ fault = "none"
  /\ ~ no_preempt_flag[current]
  /\ YieldNow(current)
  /\ UNCHANGED <<pc, mutexVars>>

TaskStep(c) ==
  \/ Start(c) \/ LockSpin(c) \/ LockLook(c) \/ LockPark(c) \/ LockWait(c)
  \/ LockSleep(c) \/ LockRespin(c) \/ UnlockSpin(c) \/ UnlockFree(c)
  \/ UnlockUnpark(c) \/ UnlockWake(c) \/ UnlockLeave(c) \/ UnlockBye(c)

Next == Tick \/ \E c \in Task : TaskStep(c)

Spec == Init /\ [][Next]_vars

(***************************************************************************)
(* Fairness: a queued task is popped some time (module Rq), and a task     *)
(* goes on when it has the processor; a program that has the mutex unlocks *)
(* it, while one that does not need not ask for it.                        *)
(***************************************************************************)
LiveSpec ==
  /\ Spec
  /\ \A t \in Task :
       /\ SF_vars(Next /\ current # t /\ current' = t)
       /\ SF_vars(pc[t] # "idle" /\ TaskStep(t))

-----------------------------------------------------------------------------
(* Mutex owned: from the assignment of _owner to its clearing. *)
Owning(t) == pc[t] \in {"crit", "unspin", "free", "unpark", "wake", "leave"}

(* In lock's loop body: counted in and not yet counted out. *)
Counted(t) == pc[t] \in {"park", "wait", "sleep", "respin"}

(* At most one task has the mutex locked, and it is _owner (mutex::lock). *)
MutualExclusion == \A t \in Task : Owning(t) <=> owner = t

(***************************************************************************)
(* As long as a task is on the wait list somebody is on the way who will   *)
(* unpark it: the owner, who unlocks, or a task that was woken or has just *)
(* come and will find the mutex free (mutex::unlock wakes only one).       *)
(***************************************************************************)
NoLostWakeup ==
  waitqueue # <<>> =>
    \E t \in Task :
      \/ Owning(t)
      \/ /\ pc[t] \in {"sleep", "respin", "look"}
         /\ run_state[t] # "WAITING"
         /\ t = current \/ ready[t] > 0

(***************************************************************************)
(* A waiter is dropped from the list only when its task is done with it:   *)
(* until park has yielded it may still store to it (unlock's pop_front     *)
(* frees the waiter that lock's park was called on).                       *)
(***************************************************************************)
WaiterOutlivesPark ==
  \A t \in Task :
    pc[t] \in {"park", "wait"} => \E i \in DOMAIN waitqueue : waitqueue[i] = t

(***************************************************************************)
(* _priority_boost is the number of tasks in lock's slow path, whoever     *)
(* barged in and queued again since, so that its uint64_t never wraps; and *)
(* a waiter on the list is that of one of them, each on it once, so that   *)
(* unlock's loop never waits for a task that has gone (mutex::lock counts  *)
(* itself in and out, with and without _lock in between).                  *)
(***************************************************************************)
WaitersCounted ==
  /\ waiting = Cardinality({t \in Task : Counted(t)})
  /\ \A i \in DOMAIN waitqueue : Counted(waitqueue[i])
  /\ IsInjective(waitqueue)

(* The asserts of lock and unpark hold, and somebody can always run. *)
NoFault == fault = "none"

(***************************************************************************)
(* A task that waits for the mutex is woken in the end: the list is served *)
(* in order by every unlock (mutex::lock and mutex::unlock).               *)
(***************************************************************************)
WaiterIsWoken ==
  \A t \in Task : run_state[t] = "WAITING" ~> run_state[t] # "WAITING"
=============================================================================
