----------------------------- MODULE SchedProofs -----------------------------
(***************************************************************************)
(* Proofs about module Sched, for any number of tasks, any size of the     *)
(* free list, and ticks at any set of places.                              *)
(***************************************************************************)
EXTENDS Sched, FiniteSetTheorems, TLAPS

-----------------------------------------------------------------------------
(* Type correctness *)

(* The queue operations keep a bag a bag. *)
LEMMA PushType ==
  ASSUME NEW q \in [Task -> Nat], NEW t \in Task
  PROVE  Push(q, t) \in [Task -> Nat]
BY DEF Push

LEMMA EraseType ==
  ASSUME NEW q \in [Task -> Nat], NEW t \in Queued(q)
  PROVE  Erase(q, t) \in [Task -> Nat]
BY DEF Erase, Queued

LEMMA RequeueType ==
  ASSUME NEW q \in [Task -> Nat], NEW c \in Task, NEW rs
  PROVE  Requeue(c, rs, q) \in [Task -> Nat]
BY PushType DEF Requeue

(* A switch keeps the types of what it changes. *)
LEMMA RunNextType ==
  ASSUME NEW c \in Task, NEW n \in Task, NEW rs \in [Task -> RunStates],
         NEW q \in [Task -> Nat], NEW F, DispatchTypeOK,
         RunNext(c, n, rs, q, F)
  PROVE  DispatchTypeOK'
<1>1. ready' \in [Task -> Nat]
  BY EraseType DEF RunNext
<1>2. current' \in Task /\ run_state' \in [Task -> RunStates]
  BY DEF RunNext, SwitchTo, RunStates
<1>3. no_preempt_flag' \in [Task -> BOOLEAN]
  BY DEF RunNext, SwitchTo, DispatchTypeOK
<1> QED
  BY <1>1, <1>2, <1>3 DEF DispatchTypeOK

(* What NodeYield may change. *)
LEMMA NodeYieldType ==
  ASSUME TypeOK, NEW c \in Task, NEW rs \in [Task -> RunStates],
         NEW q \in [Task -> Nat], NEW sl \in SUBSET Task,
         NodeYield(c, rs, q, sl)
  PROVE  /\ DispatchTypeOK'
         /\ sleeping' \subseteq Task
         /\ deferred' \in Task \cup {NULL}
         /\ alloc' \in [Task -> {"none", "live", "pooled"}]
         /\ fault' \in Faults
<1>1. CASE deferred # NULL /\ mu # NULL
  BY <1>1 DEF NodeYield, TypeOK, DispatchTypeOK, dispatchVars, Faults
<1>2. CASE ~ (deferred # NULL /\ mu # NULL)
  <2> DEFINE q1 == Requeue(c, rs, q)
  <2>1. q1 \in [Task -> Nat]
    BY RequeueType
  <2>2. alloc' \in [Task -> {"none", "live", "pooled"}]
    BY <1>2 DEF NodeYield, Flushed, ReturnTo, TypeOK
  <2>3. deferred' \in Task \cup {NULL}
    BY <1>2 DEF NodeYield, Deferred
  <2>4. Pop(c, rs, q1, sl)
    BY <1>2 DEF NodeYield
  <2> HIDE DEF q1
  <2>5. DispatchTypeOK' /\ sleeping' \subseteq Task /\ fault' \in Faults
    <3>1. CASE /\ sleeping' = sl
               /\ fault' = "none"
               /\ \E n \in Task : RunNext(c, n, rs, q1, Fresh)
      BY <3>1, <2>1, RunNextType DEF TypeOK, Faults
    <3>2. CASE \E s \in sl :
                 /\ sleeping' = sl \ {s}
                 /\ fault' = "none"
                 /\ \E n \in Task : RunNext(c, n, rs, Push(q1, s), Fresh)
      BY <3>2, <2>1, RunNextType, PushType DEF TypeOK, Faults
    <3>3. CASE /\ fault' = IF sl = {} THEN "nothing to do" ELSE "null task"
               /\ UNCHANGED <<dispatchVars, sleeping>>
      BY <3>3 DEF TypeOK, DispatchTypeOK, dispatchVars, Faults
    <3> QED
      BY <2>4, <3>1, <3>2, <3>3 DEF Pop
  <2> QED
    BY <2>2, <2>3, <2>5
<1> QED
  BY <1>1, <1>2

(***************************************************************************)
(* Every variable keeps its type, whatever the programs do.                *)
(***************************************************************************)
THEOREM TypeCorrect == Spec => []TypeOK
<1>1. Init => TypeOK
  BY HostAssumption DEF Init, TypeOK, DispatchTypeOK, RunStates, Places, Faults
<1>2. TypeOK /\ [Next]_vars => TypeOK'
  <2> SUFFICES ASSUME TypeOK, [Next]_vars PROVE TypeOK'
    OBVIOUS
  <2> USE DEF At, Goto, dispatchVars, taskVars
  <2>1. ASSUME NEW c \in Task, Yield(c) PROVE TypeOK'
    BY <2>1, NodeYieldType DEF Yield, TypeOK, DispatchTypeOK
  <2>2. ASSUME NEW c \in Task, SpawnLock(c) PROVE TypeOK'
    BY <2>2 DEF SpawnLock, Fail, TypeOK, DispatchTypeOK, Places, Faults
  <2>3. ASSUME NEW c \in Task, SpawnStart(c) PROVE TypeOK'
    BY <2>3 DEF SpawnStart, TypeOK, DispatchTypeOK, RunStates, Places
  <2>4. ASSUME NEW c \in Task, SpawnSchedule(c) PROVE TypeOK'
    <3>1. ready' \in [Task -> Nat]
      <4>1. CASE target[c] \in Task
        BY <2>4, <4>1, PushType DEF SpawnSchedule, TypeOK, DispatchTypeOK
      <4>2. CASE target[c] \notin Task
        BY <2>4, <4>2 DEF SpawnSchedule, Push, TypeOK, DispatchTypeOK
      <4> QED
        BY <4>1, <4>2
    <3>2. DispatchTypeOK'
      BY <2>4, <3>1 DEF SpawnSchedule, TypeOK, DispatchTypeOK
    <3> QED
      BY <2>4, <3>2 DEF SpawnSchedule, TypeOK, Places
  <2>5. ASSUME NEW c \in Task, JoinYield(c) PROVE TypeOK'
    BY <2>5, NodeYieldType DEF JoinYield, TypeOK, DispatchTypeOK, Places
  <2>6. ASSUME NEW c \in Task, Claim(c) PROVE TypeOK'
    BY <2>6 DEF Claim, Fail, TypeOK, DispatchTypeOK, Places, Faults
  <2>7. ASSUME NEW c \in Task, ReturnTask(c) PROVE TypeOK'
    BY <2>7 DEF ReturnTask, ReturnTo, TypeOK, DispatchTypeOK, Places
  <2>8. ASSUME NEW c \in Task, Exit(c) PROVE TypeOK'
    <3>1. WakeJoiner(c) \in [Task -> Nat]
      BY PushType DEF WakeJoiner, TypeOK, DispatchTypeOK
    <3>2. [run_state EXCEPT ![c] = "STOPPED"] \in [Task -> RunStates]
      BY DEF TypeOK, DispatchTypeOK, RunStates
    <3> QED
      BY <2>8, <3>1, <3>2, NodeYieldType DEF Exit, TypeOK, DispatchTypeOK, Places
  <2>9. ASSUME NEW c \in Task, SleepFor(c) PROVE TypeOK'
    <3>1. [run_state EXCEPT ![c] = "WAITING"] \in [Task -> RunStates]
      BY DEF TypeOK, DispatchTypeOK, RunStates
    <3> QED
      BY <2>9, <3>1, NodeYieldType, sleeping \cup {c} \in SUBSET Task
      DEF SleepFor, TypeOK, DispatchTypeOK
  <2>10. ASSUME NEW c \in Task, Enter(c) PROVE TypeOK'
    BY <2>10 DEF Enter, TypeOK, DispatchTypeOK, RunStates, Places
  <2>11. ASSUME NEW c \in Task, NEW t \in Task, Join(c, t) PROVE TypeOK'
    BY <2>11 DEF Join, Exited, TypeOK, DispatchTypeOK, RunStates, Places
  <2>12. ASSUME NEW c \in Task, NEW t \in Task, Detach(c, t) PROVE TypeOK'
    <3>1. detached' \in [Task -> BOOLEAN] /\ DispatchTypeOK'
      BY <2>12 DEF Detach, TypeOK, DispatchTypeOK
    <3>2. /\ owner' \in [Task -> Task \cup {NULL}]
          /\ target' \in [Task -> Task \cup {NULL}]
          /\ pc' \in [Task -> Places \cup {"none", "done"}]
      BY <2>12 DEF Detach, TypeOK, Places
    <3> QED
      BY <2>12, <3>1, <3>2 DEF Detach, TypeOK
  <2>13. ASSUME NEW c \in Task, NEW on \in BOOLEAN, SetTimer(c, on) PROVE TypeOK'
    BY <2>13 DEF SetTimer, TypeOK, DispatchTypeOK
  <2>14. ASSUME Tick PROVE TypeOK'
    BY <2>14, NodeYieldType DEF Tick, TypeOK, DispatchTypeOK
  <2>15. CASE UNCHANGED vars
    BY <2>15 DEF vars, TypeOK, DispatchTypeOK
  <2> QED
    BY <2>1, <2>2, <2>3, <2>4, <2>5, <2>6, <2>7, <2>8, <2>9, <2>10, <2>11,
       <2>12, <2>13, <2>14, <2>15 DEF Next, TaskStep
<1> QED
  BY <1>1, <1>2, PTL DEF Spec

-----------------------------------------------------------------------------
(* What a yield does to the queues *)

(***************************************************************************)
(* q and sl hold every task at most once and together; c may be added.     *)
(***************************************************************************)
Apart(c, rs, q, sl) ==
  /\ \A t \in Task : q[t] \in {0, 1} /\ (q[t] = 1 => t \notin sl)
  /\ q[c] = 0
  /\ rs[c] = "RUNNING" => c \notin sl

(* The tasks a yield of c finds: queued, asleep, or c itself if RUNNING. *)
Found(c, rs, q, sl, t) ==
  q[t] = 1 \/ t \in sl \/ (t = c /\ rs[c] = "RUNNING")

(* Of a switch: where everybody's run state comes from. *)
Switched(c, rs) ==
  /\ \A t \in Task : t # c /\ t # current' => run_state'[t] = rs[t]
  /\ run_state'[c] = "RUNNING" \/ run_state'[c] = rs[c]
     \/ (rs[c] = "RUNNING" /\ run_state'[c] = "SUSPENDED")
  /\ current' # c => run_state'[current'] = "RUNNING" \/ 
       (pc[current'] = "entry" /\ run_state'[current'] = rs[current'])
  /\ current' # c /\ rs[c] # "RUNNING" => run_state'[c] = rs[c]
  /\ current' = c => run_state'[c] = rs[c]

LEMMA SwitchedLemma ==
  ASSUME NEW c \in Task, NEW n \in Task, NEW rs \in [Task -> RunStates],
         SwitchTo(c, n, rs, Fresh)
  PROVE  current' = n /\ Switched(c, rs)
BY DEF SwitchTo, Switched, Fresh

(***************************************************************************)
(* A task taken off a bag that holds everybody once is on it no more, and  *)
(* nobody else comes or goes.                                              *)
(***************************************************************************)
LEMMA EraseEffect ==
  ASSUME NEW q \in [Task -> Nat], \A t \in Task : q[t] \in {0, 1},
         NEW n \in Queued(q)
  PROVE  /\ q[n] = 1
         /\ Erase(q, n)[n] = 0
         /\ \A t \in Task : t # n => Erase(q, n)[t] = q[t]
BY DEF Erase, Queued

LEMMA PushEffect ==
  ASSUME NEW q \in [Task -> Nat], NEW n \in Task
  PROVE  /\ Push(q, n)[n] = q[n] + 1
         /\ \A t \in Task : t # n => Push(q, n)[t] = q[t]
BY DEF Push

(***************************************************************************)
(* A yield that finds somebody: everyone it found is queued, asleep or     *)
(* current afterwards, exactly one of these, and nobody else is.           *)
(***************************************************************************)
LEMMA YieldEffect ==
  ASSUME TypeOK, NEW c \in Task, NEW rs \in [Task -> RunStates],
         NEW q \in [Task -> Nat], NEW sl \in SUBSET Task,
         Apart(c, rs, q, sl),
         NodeYield(c, rs, q, sl), fault' = "none"
  PROVE  /\ alloc' = Flushed(c, rs)
         /\ deferred' = Deferred(c, rs)
         /\ Switched(c, rs)
         /\ current' \in Task
         /\ Found(c, rs, q, sl, current')
         /\ sleeping' \subseteq sl
         /\ current' \notin sleeping'
         /\ \A t \in Task :
              /\ ready'[t] \in {0, 1}
              /\ ready'[t] = 1 => t # current' /\ t \notin sleeping'
                                  /\ Found(c, rs, q, sl, t)
              /\ Found(c, rs, q, sl, t) =>
                   ready'[t] = 1 \/ t \in sleeping' \/ t = current'
<1> DEFINE q1 == Requeue(c, rs, q)
<1>1. ~ (deferred # NULL /\ mu # NULL)
  BY DEF NodeYield
<1>2. /\ alloc' = Flushed(c, rs)
      /\ deferred' = Deferred(c, rs)
      /\ Pop(c, rs, q1, sl)
  BY <1>1 DEF NodeYield
<1>3. q1 \in [Task -> Nat]
  BY RequeueType
<1>4. \A t \in Task :
        /\ q1[t] \in {0, 1}
        /\ q1[t] = 1 <=> (q[t] = 1 \/ (t = c /\ rs[c] = "RUNNING"))
        /\ q1[t] = 1 => t \notin sl
  <2>1. CASE rs[c] = "RUNNING"
    <3>1. q1[c] = 1 /\ \A t \in Task : t # c => q1[t] = q[t]
      BY <2>1, PushEffect DEF Requeue, Apart
    <3> QED
      BY <3>1, <2>1 DEF Apart
  <2>2. CASE rs[c] # "RUNNING"
    BY <2>2 DEF Requeue, Apart
  <2> QED
    BY <2>1, <2>2
<1> HIDE DEF q1
<1>5. CASE sleeping' = sl /\ \E n \in Task : RunNext(c, n, rs, q1, Fresh)
  <2>1. PICK n \in Task : RunNext(c, n, rs, q1, Fresh)
    BY <1>5
  <2>2. current' = n /\ Switched(c, rs)
    BY <2>1, SwitchedLemma DEF RunNext
  <2>3. /\ q1[n] = 1 /\ ready'[n] = 0
        /\ \A t \in Task : t # n => ready'[t] = q1[t]
    BY <2>1, <1>3, <1>4, EraseEffect DEF RunNext
  <2> QED
    BY <1>2, <1>4, <1>5, <2>2, <2>3 DEF Found
<1>6. CASE \E s \in sl :
             /\ sleeping' = sl \ {s}
             /\ \E n \in Task : RunNext(c, n, rs, Push(q1, s), Fresh)
  <2>1. PICK s \in sl, n \in Task :
          sleeping' = sl \ {s} /\ RunNext(c, n, rs, Push(q1, s), Fresh)
    BY <1>6
  <2> DEFINE q2 == Push(q1, s)
  <2>2. s \in Task /\ q1[s] = 0
    BY <1>4
  <2>3. /\ q2 \in [Task -> Nat]
        /\ q2[s] = 1
        /\ \A t \in Task : t # s => q2[t] = q1[t]
    BY <2>2, <1>3, PushEffect, PushType
  <2>4. current' = n /\ Switched(c, rs)
    BY <2>1, SwitchedLemma DEF RunNext
  <2> HIDE DEF q2
  <2>5. \A t \in Task : q2[t] \in {0, 1}
    BY <2>3, <1>4
  <2>6. RunNext(c, n, rs, q2, Fresh)
    BY <2>1 DEF q2
  <2>7. /\ q2[n] = 1 /\ ready'[n] = 0
        /\ \A t \in Task : t # n => ready'[t] = q2[t]
    BY <2>3, <2>5, <2>6, EraseEffect DEF RunNext
  <2> QED
    BY <1>2, <1>4, <2>1, <2>2, <2>3, <2>4, <2>5, <2>7 DEF Found
<1> QED
  BY <1>2, <1>5, <1>6 DEF Pop

-----------------------------------------------------------------------------
(* Safety *)

(* The free list takes in just the task that it is given. *)
LEMMA ReturnEffect ==
  ASSUME TypeOK, NEW t \in Task
  PROVE  /\ ReturnTo(alloc, t)[t] # "live"
         /\ \A u \in Task : u # t => ReturnTo(alloc, t)[u] = alloc[u]
BY DEF ReturnTo, TypeOK

LEMMA FlushEffect ==
  ASSUME TypeOK, NEW c, NEW rs, alloc' = Flushed(c, rs)
  PROVE  /\ deferred # NULL => alloc'[deferred] # "live"
         /\ \A t \in Task : t # deferred => alloc'[t] = alloc[t]
BY ReturnEffect, NullAssumption DEF Flushed, TypeOK

(* The queues of a running process meet the premise of YieldEffect. *)
LEMMA QueuesApart ==
  ASSUME TypeOK, QueueInv
  PROVE  Apart(current, run_state, ready, sleeping)
BY DEF Apart, QueueInv, TypeOK, DispatchTypeOK

(***************************************************************************)
(* A yield or a tick that changes nothing else.                            *)
(***************************************************************************)
LEMMA PlainYieldSafe ==
  ASSUME TypeOK, SafeInv, NEW c \in Task, current = c, 
         NodeYield(c, run_state, ready, sleeping), fault' = "none",
         UNCHANGED <<taskVars, owner, pc, target>>
  PROVE  SafeInv'
<1> USE NullAssumption DEF SafeInv, Ended, taskVars
<1> DEFINE Fnd(t) == Found(c, run_state, ready, sleeping, t)
<1>1. /\ alloc' = Flushed(c, run_state)
      /\ deferred' = Deferred(c, run_state)
      /\ Switched(c, run_state)
      /\ current' \in Task
      /\ Fnd(current')
      /\ sleeping' \subseteq sleeping
      /\ current' \notin sleeping'
      /\ \A t \in Task :
           /\ ready'[t] \in {0, 1}
           /\ ready'[t] = 1 => t # current' /\ t \notin sleeping' /\ Fnd(t)
           /\ Fnd(t) => ready'[t] = 1 \/ t \in sleeping' \/ t = current'
  BY QueuesApart, YieldEffect DEF TypeOK, DispatchTypeOK
<1>2. /\ deferred # NULL => alloc'[deferred] # "live"
      /\ \A t \in Task : t # deferred => alloc'[t] = alloc[t]
  BY <1>1, FlushEffect
<1>3. \A t \in Task : Fnd(t) => ~ Ended(t)
  BY DEF Found, EndedInv, QueueInv
<1>4. run_state[c] # "STOPPED" /\ deferred' = NULL
  BY <1>1 DEF EndedInv, AllocInv, StoppedInv, Deferred
<1> HIDE DEF Fnd
<1>5. AllocInv'
  BY <1>2 DEF AllocInv, DeferredInv, TypeOK
<1>6. EndedInv'
  BY <1>1, <1>3 DEF EndedInv, TypeOK
<1>7. QueueInv'
  BY <1>1 DEF QueueInv
<1>8. StoppedInv'
  BY <1>1, <1>2, <1>3, <1>4 DEF StoppedInv, Switched, AllocInv, DeferredInv
<1>9. SpawnInv'
  BY <1>1, <1>2 DEF SpawnInv, Fnd, Found, DeferredInv
<1>10. TargetInv'
  BY DEF TargetInv
<1>11. OwnerInv'
  BY <1>2 DEF OwnerInv, DeferredInv
<1>12. JoinInv'
  BY DEF JoinInv
<1>13. JoinerInv'
  BY <1>1, <1>2, <1>3 DEF JoinerInv, Fnd, Found, Switched, TypeOK, DispatchTypeOK
<1>14. DeferredInv'
  BY <1>2, <1>4 DEF DeferredInv
<1> QED
  BY <1>5, <1>6, <1>7, <1>8, <1>9, <1>10, <1>11, <1>12, <1>13, <1>14

(* make_task locks the free list. *)
LEMMA SpawnLockSafe ==
  ASSUME TypeOK, SafeInv, NEW c \in Task, SpawnLock(c), fault' = "none"
  PROVE  SafeInv'
<1> USE NullAssumption, HostAssumption DEF SafeInv, Ended, At, Goto, taskVars, dispatchVars
<1>1. /\ current = c /\ pc[c] = "user" /\ pc' = [pc EXCEPT ![c] = "make"]
      /\ UNCHANGED <<dispatchVars, sleeping, deferred, taskVars, alloc, owner, target>>
  BY DEF SpawnLock, Fail
<1>2. AllocInv'
  BY <1>1 DEF AllocInv, TypeOK
<1>3. EndedInv'
  BY <1>1 DEF EndedInv, TypeOK
<1>4. QueueInv'
  BY <1>1 DEF QueueInv, TypeOK
<1>5. StoppedInv'
  BY <1>1 DEF StoppedInv, TypeOK
<1>6. SpawnInv'
  BY <1>1 DEF SpawnInv, TypeOK
<1>7. TargetInv'
  BY <1>1 DEF TargetInv, TypeOK
<1>8. OwnerInv'
  BY <1>1 DEF OwnerInv, TypeOK
<1>9. JoinInv'
  BY <1>1 DEF JoinInv, TypeOK
<1>10. JoinerInv'
  BY <1>1 DEF JoinerInv, TypeOK
<1>11. DeferredInv'
  BY <1>1 DEF DeferredInv, TypeOK
<1> QED
  BY <1>2, <1>3, <1>4, <1>5, <1>6, <1>7, <1>8, <1>9, <1>10, <1>11

(* return_task locks the free list: the task has exited. *)
LEMMA ClaimSafe ==
  ASSUME TypeOK, SafeInv, NEW c \in Task, Claim(c), fault' = "none"
  PROVE  SafeInv'
<1> USE NullAssumption, HostAssumption DEF SafeInv, Ended, At, Goto, taskVars, dispatchVars
<1>1. /\ current = c /\ pc[c] = "claim" /\ pc' = [pc EXCEPT ![c] = "return"]
      /\ run_state[target[c]] = "STOPPED"
      /\ UNCHANGED <<dispatchVars, sleeping, deferred, taskVars, alloc, owner, target>>
  BY DEF Claim, Fail
<1>2. target[c] \in Task /\ pc[target[c]] = "done"
  BY <1>1 DEF TargetInv, OwnerInv, StoppedInv
<1>3. AllocInv'
  BY <1>1, <1>2 DEF AllocInv, TypeOK
<1>4. EndedInv'
  BY <1>1, <1>2 DEF EndedInv, TypeOK
<1>5. QueueInv'
  BY <1>1, <1>2 DEF QueueInv, TypeOK
<1>6. StoppedInv'
  BY <1>1, <1>2 DEF StoppedInv, TypeOK
<1>7. SpawnInv'
  BY <1>1, <1>2 DEF SpawnInv, TypeOK
<1>8. TargetInv'
  BY <1>1, <1>2 DEF TargetInv, TypeOK
<1>9. OwnerInv'
  BY <1>1, <1>2 DEF OwnerInv, TypeOK
<1>10. JoinInv'
  BY <1>1, <1>2 DEF JoinInv, TypeOK
<1>11. JoinerInv'
  BY <1>1, <1>2 DEF JoinerInv, TypeOK
<1>12. DeferredInv'
  BY <1>1, <1>2 DEF DeferredInv, TypeOK
<1> QED
  BY <1>3, <1>4, <1>5, <1>6, <1>7, <1>8, <1>9, <1>10, <1>11, <1>12

(* A task enters its program. *)
LEMMA EnterSafe ==
  ASSUME TypeOK, SafeInv, NEW c \in Task, Enter(c), fault' = "none"
  PROVE  SafeInv'
<1> USE NullAssumption, HostAssumption DEF SafeInv, Ended, At, Goto, taskVars, dispatchVars
<1>1. /\ current = c /\ pc[c] = "entry" /\ pc' = [pc EXCEPT ![c] = "user"]
      /\ run_state' = [run_state EXCEPT ![c] = "RUNNING"]
      /\ UNCHANGED <<current, ready, sleeping, deferred, taskVars, alloc, owner, target>>
  BY DEF Enter
<1>2. AllocInv'
  BY <1>1 DEF AllocInv, TypeOK, DispatchTypeOK
<1>3. EndedInv'
  BY <1>1 DEF EndedInv, TypeOK, DispatchTypeOK
<1>4. QueueInv'
  BY <1>1 DEF QueueInv, TypeOK, DispatchTypeOK
<1>5. StoppedInv'
  BY <1>1 DEF StoppedInv, TypeOK, DispatchTypeOK
<1>6. SpawnInv'
  BY <1>1 DEF SpawnInv, TypeOK, DispatchTypeOK
<1>7. TargetInv'
  BY <1>1 DEF TargetInv, TypeOK, DispatchTypeOK
<1>8. OwnerInv'
  BY <1>1 DEF OwnerInv, TypeOK, DispatchTypeOK
<1>9. JoinInv'
  BY <1>1 DEF JoinInv, TypeOK, DispatchTypeOK
<1>10. JoinerInv'
  BY <1>1 DEF JoinerInv, TypeOK, DispatchTypeOK
<1>11. DeferredInv'
  BY <1>1 DEF DeferredInv, TypeOK, DispatchTypeOK
<1> QED
  BY <1>2, <1>3, <1>4, <1>5, <1>6, <1>7, <1>8, <1>9, <1>10, <1>11

(* The timer is set or cleared. *)
LEMMA SetTimerSafe ==
  ASSUME TypeOK, SafeInv, NEW c \in Task, NEW on \in BOOLEAN, SetTimer(c, on), fault' = "none"
  PROVE  SafeInv'
<1> USE NullAssumption, HostAssumption DEF SafeInv, Ended, At, Goto, taskVars, dispatchVars
<1>1. UNCHANGED <<dispatchVars, sleeping, deferred, taskVars, alloc, owner, pc, target>>
  BY DEF SetTimer
<1>2. AllocInv'
  BY <1>1 DEF AllocInv
<1>3. EndedInv'
  BY <1>1 DEF EndedInv
<1>4. QueueInv'
  BY <1>1 DEF QueueInv
<1>5. StoppedInv'
  BY <1>1 DEF StoppedInv
<1>6. SpawnInv'
  BY <1>1 DEF SpawnInv
<1>7. TargetInv'
  BY <1>1 DEF TargetInv
<1>8. OwnerInv'
  BY <1>1 DEF OwnerInv
<1>9. JoinInv'
  BY <1>1 DEF JoinInv
<1>10. JoinerInv'
  BY <1>1 DEF JoinerInv
<1>11. DeferredInv'
  BY <1>1 DEF DeferredInv
<1> QED
  BY <1>2, <1>3, <1>4, <1>5, <1>6, <1>7, <1>8, <1>9, <1>10, <1>11

(* join registers its caller, or finds that the task has exited. *)
LEMMA JoinSafe ==
  ASSUME TypeOK, SafeInv, NEW c \in Task, NEW t \in Task, Join(c, t), fault' = "none"
  PROVE  SafeInv'
<1> USE NullAssumption, HostAssumption DEF SafeInv, Ended, At, Goto, taskVars, dispatchVars
<1>1. /\ current = c /\ pc[c] = "user" /\ owner[t] = c /\ joiner[t] = NULL
      /\ target' = [target EXCEPT ![c] = t]
      /\ UNCHANGED <<current, ready, sleeping, deferred, detached, return_value, alloc, owner>>
  BY DEF Join
<1>2. \/ /\ run_state[t] # "STOPPED"
         /\ joiner' = [joiner EXCEPT ![t] = c]
         /\ run_state' = [run_state EXCEPT ![c] = "WAITING"]
         /\ pc' = [pc EXCEPT ![c] = "join"]
      \/ /\ run_state[t] = "STOPPED"
         /\ UNCHANGED <<joiner, run_state>>
         /\ pc' = [pc EXCEPT ![c] = "claim"]
  BY DEF Join, Exited
<1>3. alloc[t] = "live" /\ (run_state[t] = "STOPPED" <=> pc[t] = "done")
  BY <1>1 DEF OwnerInv, StoppedInv
<1>4. AllocInv'
  BY <1>1, <1>2, <1>3 DEF AllocInv, TypeOK, DispatchTypeOK
<1>5. EndedInv'
  BY <1>1, <1>2, <1>3 DEF EndedInv, TypeOK, DispatchTypeOK
<1>6. QueueInv'
  BY <1>1, <1>2, <1>3 DEF QueueInv, TypeOK, DispatchTypeOK
<1>7. StoppedInv'
  BY <1>1, <1>2, <1>3 DEF StoppedInv, TypeOK, DispatchTypeOK
<1>8. SpawnInv'
  BY <1>1, <1>2, <1>3 DEF SpawnInv, TypeOK, DispatchTypeOK
<1>9. TargetInv'
  BY <1>1, <1>2, <1>3 DEF TargetInv, TypeOK, DispatchTypeOK
<1>10. OwnerInv'
  BY <1>1, <1>2, <1>3 DEF OwnerInv, TypeOK, DispatchTypeOK
<1>11. JoinInv'
  BY <1>1, <1>2, <1>3 DEF JoinInv, TypeOK, DispatchTypeOK, TargetInv
<1>12. JoinerInv'
  BY <1>1, <1>2, <1>3 DEF JoinerInv, TypeOK, DispatchTypeOK, QueueInv, EndedInv, AllocInv
<1>13. DeferredInv'
  BY <1>1, <1>2, <1>3 DEF DeferredInv, TypeOK, DispatchTypeOK
<1> QED
  BY <1>4, <1>5, <1>6, <1>7, <1>8, <1>9, <1>10, <1>11, <1>12, <1>13

(* detach marks a running task, or finds that it has exited. *)
LEMMA DetachSafe ==
  ASSUME TypeOK, SafeInv, NEW c \in Task, NEW t \in Task, Detach(c, t), fault' = "none"
  PROVE  SafeInv'
<1> USE NullAssumption, HostAssumption DEF SafeInv, Ended, At, Goto, taskVars, dispatchVars
<1>1. /\ current = c /\ pc[c] = "user" /\ owner[t] = c
      /\ UNCHANGED <<dispatchVars, sleeping, deferred, joiner, return_value, alloc>>
  BY DEF Detach
<1>2. \/ /\ run_state[t] # "STOPPED"
         /\ detached' = [detached EXCEPT ![t] = TRUE]
         /\ owner' = [owner EXCEPT ![t] = NULL]
         /\ UNCHANGED <<target, pc>>
      \/ /\ run_state[t] = "STOPPED"
         /\ UNCHANGED <<detached, owner>>
         /\ target' = [target EXCEPT ![c] = t]
         /\ pc' = [pc EXCEPT ![c] = "claim"]
  BY DEF Detach, Exited
<1>3. alloc[t] = "live" /\ (run_state[t] = "STOPPED" <=> pc[t] = "done")
  BY <1>1 DEF OwnerInv, StoppedInv
<1>4. AllocInv'
  BY <1>1, <1>2, <1>3 DEF AllocInv, TypeOK, DispatchTypeOK
<1>5. EndedInv'
  BY <1>1, <1>2, <1>3 DEF EndedInv, TypeOK, DispatchTypeOK
<1>6. QueueInv'
  BY <1>1, <1>2, <1>3 DEF QueueInv, TypeOK, DispatchTypeOK
<1>7. StoppedInv'
  BY <1>1, <1>2, <1>3 DEF StoppedInv, TypeOK, DispatchTypeOK
<1>8. SpawnInv'
  BY <1>1, <1>2, <1>3 DEF SpawnInv, TypeOK, DispatchTypeOK
<1>9. TargetInv'
  BY <1>1, <1>2, <1>3 DEF TargetInv, TypeOK, DispatchTypeOK
<1>10. OwnerInv'
  BY <1>1, <1>2, <1>3 DEF OwnerInv, TypeOK, DispatchTypeOK
<1>11. JoinInv'
  BY <1>1, <1>2, <1>3 DEF JoinInv, TypeOK, TargetInv
<1>12. JoinerInv'
  BY <1>1, <1>2, <1>3 DEF JoinerInv, TypeOK, DispatchTypeOK
<1>13. DeferredInv'
  BY <1>1, <1>2, <1>3 DEF DeferredInv, TypeOK, DispatchTypeOK
<1> QED
  BY <1>4, <1>5, <1>6, <1>7, <1>8, <1>9, <1>10, <1>11, <1>12, <1>13

(* make_task takes a task that is not live, and start starts it. *)
LEMMA SpawnStartSafe ==
  ASSUME TypeOK, SafeInv, NEW c \in Task, SpawnStart(c), fault' = "none"
  PROVE  SafeInv'
<1> USE NullAssumption, HostAssumption DEF SafeInv, Ended, At, Goto, taskVars, dispatchVars
<1>1. PICK t \in Task :
       /\ alloc[t] # "live"
       /\ alloc' = [alloc EXCEPT ![t] = "live"]
       /\ run_state' = [run_state EXCEPT ![t] = "SUSPENDED"]
       /\ joiner' = [joiner EXCEPT ![t] = NULL]
       /\ detached' = [detached EXCEPT ![t] = FALSE]
       /\ return_value' = [return_value EXCEPT ![t] = NULL]
       /\ pc' = [pc EXCEPT ![c] = "sched", ![t] = "entry"]
       /\ target' = [target EXCEPT ![c] = t]
  BY DEF SpawnStart
<1>2. /\ current = c /\ pc[c] = "make"
      /\ UNCHANGED <<current, ready, sleeping, deferred, owner>>
  BY DEF SpawnStart
<1>3. /\ c # t /\ Ended(t) /\ owner[t] = NULL /\ ready[t] = 0 /\ t \notin sleeping
      /\ deferred # t /\ target[t] = NULL /\ \A u \in Task : owner[u] # t
  BY <1>1, <1>2 DEF AllocInv, EndedInv, OwnerInv, DeferredInv, TargetInv
<1>4. \A d \in Task : target[d] # t
  BY <1>1, <1>3 DEF SpawnInv, TargetInv, OwnerInv, TypeOK
<1>5. AllocInv'
  BY <1>1, <1>2, <1>3, <1>4 DEF AllocInv, TypeOK, DispatchTypeOK
<1>6. EndedInv'
  BY <1>1, <1>2, <1>3, <1>4 DEF EndedInv, TypeOK, DispatchTypeOK
<1>7. QueueInv'
  BY <1>1, <1>2, <1>3, <1>4 DEF QueueInv, TypeOK, DispatchTypeOK
<1>8. StoppedInv'
  BY <1>1, <1>2, <1>3, <1>4 DEF StoppedInv, TypeOK, DispatchTypeOK
<1>9. SpawnInv'
  BY <1>1, <1>2, <1>3, <1>4 DEF SpawnInv, TypeOK, DispatchTypeOK
<1>10. TargetInv'
  BY <1>1, <1>2, <1>3, <1>4 DEF TargetInv, TypeOK, DispatchTypeOK
<1>11. OwnerInv'
  BY <1>1, <1>2, <1>3, <1>4 DEF OwnerInv, TypeOK, DispatchTypeOK
<1>12. JoinInv'
  BY <1>1, <1>2, <1>3, <1>4 DEF JoinInv, TypeOK, TargetInv
<1>13. JoinerInv'
  BY <1>1, <1>2, <1>3, <1>4 DEF JoinerInv, TypeOK, DispatchTypeOK
<1>14. DeferredInv'
  BY <1>1, <1>2, <1>3, <1>4 DEF DeferredInv, TypeOK, DispatchTypeOK
<1> QED
  BY <1>5, <1>6, <1>7, <1>8, <1>9, <1>10, <1>11, <1>12, <1>13, <1>14

(* spawn schedules the new task and hands out its handle. *)
LEMMA SpawnScheduleSafe ==
  ASSUME TypeOK, SafeInv, NEW c \in Task, SpawnSchedule(c), fault' = "none"
  PROVE  SafeInv'
<1> USE NullAssumption, HostAssumption DEF SafeInv, Ended, At, Goto, taskVars, dispatchVars
<1>1. /\ current = c /\ pc[c] = "sched"
      /\ ready' = Push(ready, target[c])
      /\ owner' = [owner EXCEPT ![target[c]] = c]
      /\ target' = [target EXCEPT ![c] = NULL]
      /\ pc' = [pc EXCEPT ![c] = "user"]
      /\ UNCHANGED <<current, run_state, sleeping, deferred, taskVars, alloc>>
  BY DEF SpawnSchedule
<1>2. /\ target[c] \in Task /\ alloc[target[c]] = "live" /\ pc[target[c]] = "entry"
      /\ target[c] # current /\ ready[target[c]] = 0 /\ target[c] \notin sleeping
      /\ owner[target[c]] = NULL /\ joiner[target[c]] = NULL /\ ~ detached[target[c]]
      /\ \A d \in Task : pc[d] = "sched" /\ target[d] = target[c] => d = c
  BY <1>1 DEF SpawnInv
<1>3. /\ ready'[target[c]] = 1
      /\ \A u \in Task : u # target[c] => ready'[u] = ready[u]
  BY <1>1, <1>2, PushEffect DEF TypeOK, DispatchTypeOK
<1>4. AllocInv'
  BY <1>1, <1>2, <1>3 DEF AllocInv, TypeOK
<1>5. EndedInv'
  BY <1>1, <1>2, <1>3 DEF EndedInv, TypeOK
<1>6. QueueInv'
  BY <1>1, <1>2, <1>3 DEF QueueInv, TypeOK
<1>7. StoppedInv'
  BY <1>1, <1>2, <1>3 DEF StoppedInv, TypeOK
<1>8. SpawnInv'
  BY <1>1, <1>2, <1>3 DEF SpawnInv, TypeOK
<1>9. TargetInv'
  BY <1>1, <1>2, <1>3 DEF TargetInv, TypeOK
<1>10. OwnerInv'
  BY <1>1, <1>2, <1>3 DEF OwnerInv, TypeOK
<1>11. JoinInv'
  BY <1>1, <1>2, <1>3 DEF JoinInv, TypeOK, TargetInv
<1>12. JoinerInv'
  BY <1>1, <1>2, <1>3 DEF JoinerInv, TypeOK, SpawnInv
<1>13. DeferredInv'
  BY <1>1, <1>2, <1>3 DEF DeferredInv, TypeOK
<1> QED
  BY <1>4, <1>5, <1>6, <1>7, <1>8, <1>9, <1>10, <1>11, <1>12, <1>13

(* An exited task goes back to the free list. *)
LEMMA ReturnTaskSafe ==
  ASSUME TypeOK, SafeInv, NEW c \in Task, ReturnTask(c), fault' = "none"
  PROVE  SafeInv'
<1> USE NullAssumption, HostAssumption DEF SafeInv, Ended, At, Goto, taskVars, dispatchVars
<1>1. /\ current = c /\ pc[c] = "return"
      /\ alloc' = ReturnTo(alloc, target[c])
      /\ owner' = [owner EXCEPT ![target[c]] = NULL]
      /\ target' = [target EXCEPT ![c] = NULL]
      /\ pc' = [pc EXCEPT ![c] = "user"]
      /\ UNCHANGED <<dispatchVars, sleeping, deferred, taskVars>>
  BY DEF ReturnTask
<1>2. target[c] \in Task /\ owner[target[c]] = c /\ pc[target[c]] = "done"
  BY <1>1 DEF TargetInv, JoinInv
<1>3. /\ alloc'[target[c]] # "live"
      /\ \A u \in Task : u # target[c] => alloc'[u] = alloc[u]
  BY <1>1, <1>2, ReturnEffect
<1>4. AllocInv'
  BY <1>1, <1>2, <1>3 DEF AllocInv, TypeOK
<1>5. EndedInv'
  BY <1>1, <1>2, <1>3 DEF EndedInv, TypeOK
<1>6. QueueInv'
  BY <1>1, <1>2, <1>3 DEF QueueInv, TypeOK
<1>7. StoppedInv'
  BY <1>1, <1>2, <1>3 DEF StoppedInv, TypeOK
<1>8. SpawnInv'
  BY <1>1, <1>2, <1>3 DEF SpawnInv, TypeOK
<1>9. TargetInv'
  BY <1>1, <1>2, <1>3 DEF TargetInv, TypeOK
<1>10. OwnerInv'
  BY <1>1, <1>2, <1>3 DEF OwnerInv, TypeOK
<1>11. JoinInv'
  BY <1>1, <1>2, <1>3 DEF JoinInv, TypeOK, TargetInv
<1>12. JoinerInv'
  BY <1>1, <1>2, <1>3 DEF JoinerInv, TypeOK
<1>13. DeferredInv'
  BY <1>1, <1>2, <1>3 DEF DeferredInv, TypeOK
<1> QED
  BY <1>4, <1>5, <1>6, <1>7, <1>8, <1>9, <1>10, <1>11, <1>12, <1>13

(* join waits: nobody resumes its caller before the task has exited. *)
LEMMA JoinYieldSafe ==
  ASSUME TypeOK, SafeInv, NEW c \in Task, JoinYield(c), fault' = "none"
  PROVE  SafeInv'
<1> USE NullAssumption DEF SafeInv, Ended, At, Goto, taskVars
<1> DEFINE Fnd(t) == Found(c, run_state, ready, sleeping, t)
<1>1. /\ current = c /\ pc[c] = "join" /\ pc' = [pc EXCEPT ![c] = "claim"]
      /\ NodeYield(c, run_state, ready, sleeping)
      /\ UNCHANGED <<taskVars, owner, target>>
  BY DEF JoinYield
<1>2. /\ alloc' = Flushed(c, run_state)
      /\ deferred' = Deferred(c, run_state)
      /\ Switched(c, run_state)
      /\ current' \in Task
      /\ Fnd(current')
      /\ sleeping' \subseteq sleeping
      /\ current' \notin sleeping'
      /\ \A t \in Task :
           /\ ready'[t] \in {0, 1}
           /\ ready'[t] = 1 => t # current' /\ t \notin sleeping' /\ Fnd(t)
           /\ Fnd(t) => ready'[t] = 1 \/ t \in sleeping' \/ t = current'
  BY <1>1, QueuesApart, YieldEffect DEF TypeOK, DispatchTypeOK
<1>3. /\ deferred # NULL => alloc'[deferred] # "live"
      /\ \A t \in Task : t # deferred => alloc'[t] = alloc[t]
  BY <1>2, FlushEffect
<1>4. \A t \in Task : Fnd(t) => ~ Ended(t)
  BY <1>1 DEF Found, EndedInv, QueueInv
<1>5. run_state[c] # "STOPPED" /\ deferred' = NULL
  BY <1>1, <1>2 DEF EndedInv, AllocInv, StoppedInv, Deferred
<1> HIDE DEF Fnd
<1>6. AllocInv'
  BY <1>1, <1>3 DEF AllocInv, DeferredInv, TypeOK
<1>7. EndedInv'
  BY <1>1, <1>2, <1>4 DEF EndedInv, TypeOK
<1>8. QueueInv'
  BY <1>2 DEF QueueInv
<1>9. StoppedInv'
  BY <1>1, <1>2, <1>3, <1>4, <1>5
  DEF StoppedInv, Switched, AllocInv, DeferredInv, TypeOK
<1>10. SpawnInv'
  BY <1>1, <1>2, <1>3 DEF SpawnInv, Fnd, Found, DeferredInv, TypeOK
<1>11. TargetInv'
  BY <1>1 DEF TargetInv, TypeOK
<1>12. OwnerInv'
  BY <1>1, <1>3 DEF OwnerInv, DeferredInv, TypeOK
<1>13. JoinInv'
  BY <1>1 DEF JoinInv, TargetInv, TypeOK
<1>14. JoinerInv'
  BY <1>1, <1>2, <1>3, <1>4
  DEF JoinerInv, Fnd, Found, Switched, TypeOK, DispatchTypeOK
<1>15. DeferredInv'
  BY <1>1, <1>3, <1>5 DEF DeferredInv, TypeOK
<1> QED
  BY <1>6, <1>7, <1>8, <1>9, <1>10, <1>11, <1>12, <1>13, <1>14, <1>15

(* A task that falls asleep is on the sleep queue, or woken at once. *)
LEMMA SleepForSafe ==
  ASSUME TypeOK, SafeInv, NEW c \in Task, SleepFor(c), fault' = "none"
  PROVE  SafeInv'
<1> USE NullAssumption DEF SafeInv, Ended, At, Goto, taskVars
<1> DEFINE rs == [run_state EXCEPT ![c] = "WAITING"]
<1> DEFINE Fnd(t) == Found(c, rs, ready, sleeping \cup {c}, t)
<1>1. /\ current = c /\ pc[c] = "user"
      /\ NodeYield(c, rs, ready, sleeping \cup {c})
      /\ UNCHANGED <<taskVars, owner, pc, target>>
  BY DEF SleepFor
<1>2. /\ rs \in [Task -> RunStates]
      /\ rs[c] = "WAITING"
      /\ \A t \in Task : t # c => rs[t] = run_state[t]
      /\ sleeping \cup {c} \in SUBSET Task
  BY DEF TypeOK, DispatchTypeOK, RunStates
<1>3. Apart(c, rs, ready, sleeping \cup {c})
  BY <1>1, <1>2 DEF Apart, QueueInv, TypeOK, DispatchTypeOK
<1> HIDE DEF rs
<1>4. /\ alloc' = Flushed(c, rs)
      /\ deferred' = Deferred(c, rs)
      /\ Switched(c, rs)
      /\ current' \in Task
      /\ Fnd(current')
      /\ sleeping' \subseteq sleeping \cup {c}
      /\ current' \notin sleeping'
      /\ \A t \in Task :
           /\ ready'[t] \in {0, 1}
           /\ ready'[t] = 1 => t # current' /\ t \notin sleeping' /\ Fnd(t)
           /\ Fnd(t) => ready'[t] = 1 \/ t \in sleeping' \/ t = current'
  BY <1>1, <1>2, <1>3, YieldEffect DEF TypeOK, DispatchTypeOK
<1>5. /\ deferred # NULL => alloc'[deferred] # "live"
      /\ \A t \in Task : t # deferred => alloc'[t] = alloc[t]
  BY <1>4, FlushEffect
<1>6. \A t \in Task : Fnd(t) => ~ Ended(t)
  BY <1>1 DEF Found, EndedInv, QueueInv
<1>7. deferred' = NULL
  BY <1>2, <1>4 DEF Deferred
<1> HIDE DEF Fnd
<1>8. AllocInv'
  BY <1>1, <1>5 DEF AllocInv, DeferredInv, TypeOK
<1>9. EndedInv'
  BY <1>1, <1>4, <1>6 DEF EndedInv, TypeOK
<1>10. QueueInv'
  BY <1>4 DEF QueueInv
<1>11. StoppedInv'
  BY <1>1, <1>2, <1>4, <1>5, <1>6 DEF StoppedInv, Switched, AllocInv, DeferredInv
<1>12. SpawnInv'
  BY <1>1, <1>2, <1>4, <1>5 DEF SpawnInv, Fnd, Found, DeferredInv
<1>13. TargetInv'
  BY <1>1 DEF TargetInv
<1>14. OwnerInv'
  BY <1>1, <1>5 DEF OwnerInv, DeferredInv
<1>15. JoinInv'
  BY <1>1 DEF JoinInv
<1>16. JoinerInv'
  BY <1>1, <1>2, <1>4, <1>5, <1>6
  DEF JoinerInv, Fnd, Found, Switched, TypeOK, DispatchTypeOK
<1>17. DeferredInv'
  BY <1>1, <1>5, <1>7 DEF DeferredInv
<1> QED
  BY <1>8, <1>9, <1>10, <1>11, <1>12, <1>13, <1>14, <1>15, <1>16, <1>17

(* exit wakes the joiner, who is on no queue, and leaves the stack behind. *)
LEMMA ExitSafe ==
  ASSUME TypeOK, SafeInv, NEW c \in Task, Exit(c), fault' = "none"
  PROVE  SafeInv'
<1> USE NullAssumption DEF SafeInv, Ended, At, Goto
<1> DEFINE rs == [run_state EXCEPT ![c] = "STOPPED"]
<1> DEFINE q == WakeJoiner(c)
<1> DEFINE Fnd(t) == Found(c, rs, q, sleeping, t)
<1>1. /\ current = c /\ pc[c] = "user" /\ c # Host
      /\ \A t \in Task : owner[t] # c
      /\ NodeYield(c, rs, q, sleeping)
      /\ pc' = [pc EXCEPT ![c] = "done"]
      /\ return_value' = [return_value EXCEPT ![c] = c]
      /\ UNCHANGED <<joiner, detached, owner, target>>
  BY DEF Exit
<1>2. /\ rs \in [Task -> RunStates]
      /\ rs[c] = "STOPPED"
      /\ \A t \in Task : t # c => rs[t] = run_state[t]
  BY DEF TypeOK, DispatchTypeOK, RunStates
<1>3. /\ alloc[c] = "live" /\ ready[c] = 0 /\ c \notin sleeping
      /\ target[c] = NULL /\ joiner[c] # c
  BY <1>1 DEF AllocInv, QueueInv, TargetInv, JoinerInv, TypeOK, DispatchTypeOK
<1>4. joiner[c] # NULL =>
        /\ joiner[c] \in Task /\ target[joiner[c]] = c
        /\ pc[joiner[c]] \in {"join", "claim"}
        /\ ready[joiner[c]] = 0 /\ joiner[c] \notin sleeping
  BY <1>1, <1>3 DEF JoinerInv, TypeOK
<1>5. /\ q \in [Task -> Nat]
      /\ \A t \in Task : t # joiner[c] => q[t] = ready[t]
      /\ joiner[c] # NULL => q[joiner[c]] = 1
  <2>1. CASE joiner[c] = NULL
    BY <2>1 DEF WakeJoiner, TypeOK, DispatchTypeOK
  <2>2. CASE joiner[c] # NULL
    <3>1. q = Push(ready, joiner[c]) /\ ready \in [Task -> Nat]
      BY <2>2 DEF WakeJoiner, TypeOK, DispatchTypeOK
    <3> HIDE DEF q
    <3> QED
      BY <3>1, <2>2, <1>4, PushEffect, PushType
  <2> QED
    BY <2>1, <2>2
<1> HIDE DEF rs, q
<1>6. Apart(c, rs, q, sleeping)
  BY <1>2, <1>3, <1>4, <1>5 DEF Apart, QueueInv
<1>7. /\ alloc' = Flushed(c, rs)
      /\ deferred' = Deferred(c, rs)
      /\ Switched(c, rs)
      /\ current' \in Task
      /\ Fnd(current')
      /\ sleeping' \subseteq sleeping
      /\ current' \notin sleeping'
      /\ \A t \in Task :
           /\ ready'[t] \in {0, 1}
           /\ ready'[t] = 1 => t # current' /\ t \notin sleeping' /\ Fnd(t)
           /\ Fnd(t) => ready'[t] = 1 \/ t \in sleeping' \/ t = current'
  BY <1>1, <1>2, <1>5, <1>6, YieldEffect DEF TypeOK, DispatchTypeOK
<1>8. /\ deferred # NULL => alloc'[deferred] # "live"
      /\ \A t \in Task : t # deferred => alloc'[t] = alloc[t]
  BY <1>7, FlushEffect
<1>9. \A t \in Task : Fnd(t) => ~ Ended(t) /\ t # c
  BY <1>1, <1>2, <1>3, <1>4, <1>5 DEF Found, EndedInv, QueueInv
<1>10. /\ deferred' = IF detached[c] THEN c ELSE NULL
       /\ current' # c /\ run_state'[c] = "STOPPED" /\ deferred # c
  BY <1>1, <1>2, <1>7, <1>9 DEF Deferred, Switched, DeferredInv
<1>11. \A t \in Task : Fnd(t) => ready[t] = 1 \/ t \in sleeping \/ t = joiner[c]
  BY <1>2, <1>5 DEF Found
<1> HIDE DEF Fnd
<1>12. AllocInv'
  BY <1>1, <1>3, <1>8, <1>10 DEF AllocInv, DeferredInv, TypeOK
<1>13. EndedInv'
  BY <1>1, <1>3, <1>7, <1>9, <1>10 DEF EndedInv, TypeOK
<1>14. QueueInv'
  BY <1>7 DEF QueueInv
<1>15. StoppedInv'
  BY <1>1, <1>2, <1>7, <1>8, <1>9, <1>10
  DEF StoppedInv, Switched, AllocInv, DeferredInv, TypeOK
<1>16. SpawnInv'
  BY <1>1, <1>4, <1>7, <1>8, <1>11 DEF SpawnInv, DeferredInv, TypeOK
<1>17. TargetInv'
  BY <1>1, <1>3 DEF TargetInv, TypeOK
<1>18. OwnerInv'
  BY <1>1, <1>8 DEF OwnerInv, DeferredInv, TypeOK
<1>19. JoinInv'
  BY <1>1 DEF JoinInv, TargetInv, TypeOK
<1>20. JoinerInv'
  BY <1>1, <1>2, <1>4, <1>7, <1>8, <1>11
  DEF JoinerInv, Switched, TypeOK, DispatchTypeOK
<1>21. DeferredInv'
  BY <1>1, <1>3, <1>8, <1>10 DEF DeferredInv, OwnerInv, SpawnInv, TypeOK
<1> QED
  BY <1>12, <1>13, <1>14, <1>15, <1>16, <1>17, <1>18, <1>19, <1>20, <1>21

(***************************************************************************)
(* The inductive invariant.  No step of a running process breaks it.       *)
(***************************************************************************)
LEMMA SafeStep ==
  ASSUME TypeOK, fault = "none" => SafeInv, [Next]_vars, fault' = "none"
  PROVE  SafeInv'
<1>1. CASE UNCHANGED vars
  BY <1>1 DEF vars, dispatchVars, taskVars, SafeInv, Ended, AllocInv, EndedInv,
     QueueInv, StoppedInv, SpawnInv, TargetInv, OwnerInv, JoinInv, JoinerInv,
     DeferredInv
<1>2. CASE Tick
  BY <1>2, PlainYieldSafe DEF Tick, TypeOK, DispatchTypeOK
<1>3. ASSUME NEW c \in Task, TaskStep(c) PROVE SafeInv'
  <2>1. SafeInv
    BY <1>3 DEF TaskStep, Yield, SpawnLock, SpawnStart, SpawnSchedule, JoinYield,
       Claim, ReturnTask, Exit, SleepFor, Enter, Join, Detach, SetTimer, At
  <2>2. CASE Yield(c)
    BY <2>1, <2>2, PlainYieldSafe DEF Yield, At
  <2> QED
    BY <1>3, <2>1, <2>2, SpawnLockSafe, SpawnStartSafe, SpawnScheduleSafe,
       JoinYieldSafe, ClaimSafe, ReturnTaskSafe, ExitSafe, SleepForSafe,
       EnterSafe, JoinSafe, DetachSafe, SetTimerSafe DEF TaskStep
<1> QED
  BY <1>1, <1>2, <1>3 DEF Next

LEMMA SafeInvariant == Spec => []IInv
<1>1. Init => SafeInv
  BY HostAssumption, NullAssumption DEF Init, SafeInv, Ended, AllocInv, EndedInv,
     QueueInv, StoppedInv, SpawnInv, TargetInv, OwnerInv, JoinInv, JoinerInv,
     DeferredInv
<1>2. TypeOK /\ (fault = "none" => SafeInv) /\ [Next]_vars
        => (fault = "none" => SafeInv)'
  BY SafeStep
<1> QED
  BY <1>1, <1>2, TypeCorrect, PTL DEF Spec, IInv

(***************************************************************************)
(* No task is ever queued twice, or while it runs or sleeps, wherever      *)
(* ticks strike and however programs spawn, join, detach, exit and sleep.  *)
(***************************************************************************)
THEOREM QueuedOnceAlways == Spec => []QueuedOnce
<1>1. IInv => QueuedOnce
  BY DEF IInv, SafeInv, QueueInv, QueuedOnce
<1> QED
  BY <1>1, SafeInvariant, PTL

(***************************************************************************)
(* Neither the queues, nor _deferred, nor a call in progress ever refers   *)
(* to a task that was given back to the free list.                         *)
(***************************************************************************)
THEOREM NoUseAfterReturnAlways == Spec => []NoUseAfterReturn
<1>1. ASSUME IInv, fault = "none",
             NEW t \in Queued(ready) \cup sleeping \cup {current, deferred}
                       \cup {target[c] : c \in Task}
                       \cup {joiner[u] : u \in {w \in Task : Scheduled(w)}},
             t # NULL
      PROVE  alloc[t] = "live"
  <2> USE <1>1 DEF IInv, SafeInv
  <2>1. CASE t \in Queued(ready) \cup sleeping \cup {current}
    BY <2>1 DEF Queued, EndedInv, AllocInv, TypeOK, DispatchTypeOK
  <2>2. CASE t = deferred
    BY <2>2 DEF DeferredInv
  <2>3. ASSUME NEW c \in Task, t = target[c] PROVE alloc[t] = "live"
    BY <2>3, NullAssumption DEF SpawnInv, TargetInv, OwnerInv
  <2>4. ASSUME NEW u \in Task, Scheduled(u), t = joiner[u]
        PROVE  alloc[t] = "live"
    <3>1. t \in Task /\ pc[t] \in {"join", "claim"}
      BY <2>4 DEF Scheduled, JoinerInv, TypeOK
    <3> QED
      BY <3>1 DEF AllocInv, Ended
  <2> QED
    BY <2>1, <2>2, <2>3, <2>4
<1>2. IInv => NoUseAfterReturn
  BY <1>1 DEF NoUseAfterReturn
<1> QED
  BY <1>2, SafeInvariant, PTL

(***************************************************************************)
(* join reads the result of a task that has exited, as that task left it.  *)
(***************************************************************************)
THEOREM JoinSeesResultAlways == Spec => []JoinSeesResult
<1>1. ASSUME IInv, NEW c \in Task, fault = "none", c = current,
             pc[c] \in {"claim", "return"}
      PROVE  /\ run_state[target[c]] = "STOPPED"
             /\ return_value[target[c]] = target[c]
  <2>1. target[c] \in Task /\ alloc[target[c]] = "live"
    BY <1>1, NullAssumption DEF IInv, SafeInv, TargetInv, OwnerInv
  <2>2. pc[target[c]] = "done"
    BY <1>1, <2>1, NullAssumption DEF IInv, SafeInv, JoinInv, JoinerInv
  <2> QED
    BY <1>1, <2>1, <2>2 DEF IInv, SafeInv, StoppedInv
<1>2. IInv => JoinSeesResult
  BY <1>1 DEF JoinSeesResult
<1> QED
  BY <1>2, SafeInvariant, PTL

(***************************************************************************)
(* A task that has exited is held by a handle of a task that still runs,   *)
(* or its return is deferred: no stack is forgotten.                       *)
(***************************************************************************)
THEOREM NoLeakAlways == Spec => []NoLeak
<1>1. IInv => NoLeak
  BY NullAssumption
  DEF IInv, SafeInv, NoLeak, DeferredInv, EndedInv, AllocInv, Ended, TypeOK
<1> QED
  BY <1>1, SafeInvariant, PTL

(* NodeYield frees the deferred task or none, and aborts where it stands. *)
LEMMA YieldFrees ==
  ASSUME TypeOK, NEW c \in Task, NEW rs, NEW q, NEW sl, NodeYield(c, rs, q, sl)
  PROVE  /\ \A t \in Task : alloc[t] = "live" /\ alloc'[t] # "live" => t = deferred
         /\ fault' # "none" => current' = current
<1>1. CASE deferred # NULL /\ mu # NULL
  BY <1>1 DEF NodeYield, dispatchVars
<1>2. CASE ~ (deferred # NULL /\ mu # NULL)
  BY <1>2, FlushEffect DEF NodeYield, Pop, dispatchVars
<1> QED
  BY <1>1, <1>2

(***************************************************************************)
(* No step gives back the stack it starts on or the one it ends on: only   *)
(* tasks that have exited are given back, by somebody else.                *)
(***************************************************************************)
THEOREM NeverFreesRunningStackAlways == Spec => NeverFreesRunningStack
<1>1. ASSUME IInv, [Next]_vars, NEW t \in Task,
             alloc[t] = "live", alloc'[t] # "live"
      PROVE  t # current /\ t # current' /\ pc[t] = "done"
  <2> USE <1>1, NullAssumption DEF IInv, At, Goto, taskVars, dispatchVars
  <2>1. ASSUME fault = "none", NEW rs, NEW q, NEW sl,
               NodeYield(current, rs, q, sl)
        PROVE  /\ t # current /\ pc[t] = "done"
               /\ fault' # "none" => current' = current
    <3>1. t = deferred /\ (fault' # "none" => current' = current)
      BY <2>1, YieldFrees DEF TypeOK, DispatchTypeOK
    <3> QED
      BY <3>1, <2>1 DEF SafeInv, DeferredInv, EndedInv, Ended
  <2>2. /\ fault = "none" /\ t # current /\ pc[t] = "done" /\ pc'[t] = "done"
        /\ fault' # "none" => current' = current
    <3>1. CASE Tick
      BY <3>1, <2>1 DEF Tick
    <3>2. ASSUME NEW c \in Task, Yield(c) \/ JoinYield(c) \/ Exit(c) \/ SleepFor(c)
          PROVE  <2>2!:
      BY <3>2, <2>1 DEF Yield, JoinYield, Exit, SleepFor, TypeOK
    <3>3. ASSUME NEW c \in Task, ReturnTask(c) PROVE <2>2!:
      <4>1. fault = "none" /\ current = c /\ pc[c] = "return"
        BY <3>3 DEF ReturnTask
      <4>2. target[c] \in Task /\ pc[target[c]] = "done"
        BY <4>1 DEF SafeInv, TargetInv, JoinInv
      <4>3. t = target[c]
        BY <3>3, <4>2, ReturnEffect DEF ReturnTask
      <4> QED
        BY <3>3, <4>1, <4>2, <4>3 DEF ReturnTask, TypeOK
    <3>4. ASSUME NEW c \in Task,
                 \/ SpawnLock(c) \/ SpawnStart(c) \/ SpawnSchedule(c) \/ Claim(c)
                 \/ Enter(c) \/ (\E u \in Task : Join(c, u) \/ Detach(c, u))
                 \/ (\E on \in BOOLEAN : SetTimer(c, on))
          PROVE  FALSE
      <4>1. ~ SpawnStart(c)
        BY DEF SpawnStart, TypeOK
      <4>2. ~ SpawnLock(c) /\ ~ SpawnSchedule(c) /\ ~ Claim(c) /\ ~ Enter(c)
        BY DEF SpawnLock, SpawnSchedule, Claim, Enter, Fail
      <4>3. \A u \in Task : ~ Join(c, u) /\ ~ Detach(c, u)
        BY DEF Join, Detach
      <4>4. \A on \in BOOLEAN : ~ SetTimer(c, on)
        BY DEF SetTimer
      <4> QED
        BY <3>4, <4>1, <4>2, <4>3, <4>4
    <3>5. CASE UNCHANGED vars
      BY <3>5 DEF vars
    <3> QED
      BY <3>1, <3>2, <3>3, <3>4, <3>5 DEF Next, TaskStep
  <2>3. CASE fault' = "none"
    BY <2>2, <2>3, SafeStep DEF SafeInv, EndedInv, Ended
  <2>4. CASE fault' # "none"
    BY <2>2, <2>4
  <2> QED
    BY <2>2, <2>3, <2>4
<1>2. IInv /\ [Next]_vars =>
        [\A t \in Task :
           alloc[t] = "live" /\ alloc'[t] # "live" =>
             t # current /\ t # current' /\ pc[t] = "done"]_vars
  BY <1>1
<1> QED
  BY <1>2, SafeInvariant, PTL DEF Spec, NeverFreesRunningStack

-----------------------------------------------------------------------------
(* No task is lost *)

(* The task that the current one is about to wait for will wake it. *)
LEMMA AboutToWait ==
  ASSUME TypeOK, SafeInv, NEW c \in Task, pc[c] = "join",
         pc[target[c]] # "done"
  PROVE  /\ target[c] \in Task /\ joiner[target[c]] = c
         /\ Scheduled(target[c]) /\ run_state[c] = "WAITING"
<1>1. target[c] \in Task /\ joiner[target[c]] = c /\ owner[target[c]] = c
  BY DEF SafeInv, TargetInv, JoinInv
<1>2. alloc[target[c]] = "live"
  BY <1>1, NullAssumption DEF SafeInv, OwnerInv
<1> QED
  BY <1>1, <1>2, NullAssumption DEF SafeInv, SpawnInv, JoinerInv, Scheduled

(***************************************************************************)
(* A yield of a task that is RUNNING, or about to wait, or has exited and  *)
(* woken its joiner, loses nobody.                                         *)
(***************************************************************************)
LEMMA YieldLosesNobody ==
  ASSUME TypeOK, SafeInv, RunningInv, NoLostTask, fault = "none", fault' = "none",
         NEW c \in Task, current = c, pc[c] # "entry",
         NodeYield(c, run_state, ready, sleeping),
         \A t \in Task : pc'[t] = pc[t] \/ (t = c /\ pc[c] = "join" /\ pc'[c] = "claim"),
         UNCHANGED <<joiner, target>>
  PROVE  RunningInv' /\ NoLostTask'
<1> DEFINE Fnd(t) == Found(c, run_state, ready, sleeping, t)
<1>1. /\ alloc' = Flushed(c, run_state)
      /\ Switched(c, run_state)
      /\ current' \in Task
      /\ Fnd(current')
      /\ sleeping' \subseteq sleeping
      /\ \A t \in Task : Fnd(t) => ready'[t] = 1 \/ t \in sleeping' \/ t = current'
  BY QueuesApart, YieldEffect DEF SafeInv, TypeOK, DispatchTypeOK
<1>2. \A t \in Task : t # deferred => alloc'[t] = alloc[t]
  BY <1>1, FlushEffect
<1>3. sleeping = {} /\ sleeping' = {}
  BY <1>1 DEF RunningInv
<1>4. \A u \in Task : Scheduled(u)' <=> Scheduled(u)
  <2>1. \A d \in Task : pc'[d] = "sched" <=> pc[d] = "sched"
    OBVIOUS
  <2>2. \A u \in Task : pc'[u] = "done" <=> pc[u] = "done"
    OBVIOUS
  <2>3. \A u \in Task : alloc'[u] = "live" /\ pc'[u] # "done"
                       <=> alloc[u] = "live" /\ pc[u] # "done"
    BY <1>1, <1>2, <2>2, FlushEffect, NullAssumption DEF SafeInv, DeferredInv
  <2>4. target' = target
    OBVIOUS
  <2> QED
    BY <2>1, <2>3, <2>4 DEF Scheduled
<1>6. ASSUME NEW t \in Task, Scheduled(t)', t # current'
      PROVE  \/ ready'[t] = 1
             \/ /\ run_state'[t] = "WAITING"
                /\ \E u \in Task : joiner'[u] = t /\ Scheduled(u)'
  <2>1. CASE Fnd(t)
    BY <1>1, <1>3, <1>6, <2>1
  <2>2. CASE ~ Fnd(t) /\ t # c
    <3>1. /\ run_state[t] = "WAITING"
          /\ \E u \in Task : joiner[u] = t /\ Scheduled(u)
      BY <1>3, <1>4, <1>6, <2>2
      DEF NoLostTask, Queued, Found, SafeInv, QueueInv
    <3>2. run_state'[t] = run_state[t]
      BY <1>1, <1>6, <2>2 DEF Switched
    <3> QED
      BY <3>1, <3>2, <1>4
  <2>3. CASE ~ Fnd(t) /\ t = c
    <3>1. pc[c] = "join" /\ pc[target[c]] # "done"
      BY <2>3 DEF RunningInv, Found
    <3>2. run_state'[c] = run_state[c]
      BY <1>1, <1>6, <2>3 DEF Switched, Found
    <3> QED
      BY <3>1, <3>2, <1>4, <2>3, AboutToWait
  <2> QED
    BY <2>1, <2>2, <2>3
<1>7. NoLostTask'
  BY <1>6 DEF NoLostTask, Queued
<1>8. run_state'[current'] = "RUNNING" \/ pc'[current'] = "entry"
  <2>1. CASE current' = c
    BY <2>1, <1>1, <1>3 DEF Found, Switched, SafeInv, QueueInv
  <2>2. CASE current' # c
    BY <2>2, <1>1 DEF Switched
  <2> QED
    BY <2>1, <2>2
<1> QED
  BY <1>3, <1>7, <1>8 DEF RunningInv

(***************************************************************************)
(* A step without a switch loses nobody if whoever comes to be scheduled   *)
(* is queued, and whoever is waited for stays scheduled.                   *)
(***************************************************************************)
LEMMA QuietLosesNobody ==
  ASSUME TypeOK, NoLostTask, fault = "none",
         UNCHANGED <<current, sleeping>>,
         \A t \in Task : ready[t] > 0 => ready'[t] > 0,
         \A t \in Task : t # current /\ Scheduled(t)' =>
           ready'[t] > 0 \/ (Scheduled(t) /\ run_state'[t] = run_state[t]),
         \A u \in Task : Scheduled(u) =>
           Scheduled(u)' /\ (joiner[u] # NULL => joiner'[u] = joiner[u])
  PROVE  NoLostTask'
<1> SUFFICES ASSUME NEW t \in Task, Scheduled(t)', t # current', ~ (ready'[t] > 0),
                    t \notin sleeping'
             PROVE  /\ run_state'[t] = "WAITING"
                    /\ \E u \in Task : joiner'[u] = t /\ Scheduled(u)'
  BY DEF NoLostTask, Queued
<1>1. Scheduled(t) /\ run_state'[t] = run_state[t] /\ ~ (ready[t] > 0)
  OBVIOUS
<1>2. /\ run_state[t] = "WAITING"
      /\ \E u \in Task : joiner[u] = t /\ Scheduled(u)
  BY <1>1 DEF NoLostTask, Queued
<1> QED
  BY <1>1, <1>2, NullAssumption

LEMMA SpawnStartLosesNobody ==
  ASSUME TypeOK, SafeInv, RunningInv, NoLostTask, NEW c \in Task, SpawnStart(c)
  PROVE  RunningInv' /\ NoLostTask'
<1> USE NullAssumption DEF At
<1>1. PICK n \in Task :
        /\ alloc[n] # "live"
        /\ alloc' = [alloc EXCEPT ![n] = "live"]
        /\ run_state' = [run_state EXCEPT ![n] = "SUSPENDED"]
        /\ joiner' = [joiner EXCEPT ![n] = NULL]
        /\ pc' = [pc EXCEPT ![c] = "sched", ![n] = "entry"]
        /\ target' = [target EXCEPT ![c] = n]
  BY DEF SpawnStart
<1>2. /\ current = c /\ pc[c] = "make" /\ fault = "none"
      /\ pc[n] # "make" /\ pc[n] # "sched" /\ c # n
      /\ UNCHANGED <<current, ready, sleeping>>
  BY <1>1 DEF SpawnStart, SafeInv, AllocInv, Ended
<1>3. pc'[c] = "sched" /\ target'[c] = n
  BY <1>1, <1>2 DEF TypeOK
<1>4. \A u \in Task : u # n =>
        (Scheduled(u)' <=> Scheduled(u)) /\ joiner'[u] = joiner[u]
        /\ run_state'[u] = run_state[u]
  <2>1. \A d \in Task, u \in Task : u # n =>
          (pc'[d] = "sched" /\ target'[d] = u <=> pc[d] = "sched" /\ target[d] = u)
    BY <1>1, <1>2, <1>3 DEF TypeOK
  <2>2. \A u \in Task : u # n =>
          /\ alloc'[u] = alloc[u] /\ (pc'[u] # "done" <=> pc[u] # "done")
          /\ joiner'[u] = joiner[u] /\ run_state'[u] = run_state[u]
    BY <1>1, <1>2 DEF TypeOK, DispatchTypeOK
  <2> QED
    BY <2>1, <2>2 DEF Scheduled
<1>5. ~ Scheduled(n) /\ ~ Scheduled(n)'
  BY <1>1, <1>3 DEF Scheduled
<1>6. NoLostTask'
  BY <1>2, <1>4, <1>5, QuietLosesNobody
<1>7. run_state[c] = "RUNNING" /\ sleeping = {}
  BY <1>2 DEF RunningInv
<1>8. run_state'[current'] = "RUNNING" /\ sleeping' = {}
  BY <1>2, <1>4, <1>7
<1> QED
  BY <1>6, <1>8 DEF RunningInv

LEMMA SpawnScheduleLosesNobody ==
  ASSUME TypeOK, SafeInv, RunningInv, NoLostTask, NEW c \in Task, SpawnSchedule(c)
  PROVE  RunningInv' /\ NoLostTask'
<1> USE NullAssumption DEF At, Goto
<1> DEFINE n == target[c]
<1>1. /\ current = c /\ pc[c] = "sched" /\ fault = "none"
      /\ ready' = Push(ready, n)
      /\ target' = [target EXCEPT ![c] = NULL]
      /\ pc' = [pc EXCEPT ![c] = "user"]
      /\ UNCHANGED <<current, run_state, sleeping, joiner, alloc>>
  BY DEF SpawnSchedule, taskVars
<1>2. n \in Task /\ ready[n] = 0
  BY <1>1 DEF SafeInv, SpawnInv
<1> HIDE DEF n
<1>3. \A t \in Task : ready'[t] = IF t = n THEN ready[t] + 1 ELSE ready[t]
  BY <1>1, <1>2 DEF Push, TypeOK, DispatchTypeOK
<1>4. ready'[n] > 0 /\ \A t \in Task : ready[t] > 0 => ready'[t] > 0
  BY <1>2, <1>3 DEF TypeOK, DispatchTypeOK
<1>5. \A u \in Task : Scheduled(u) => Scheduled(u)'
  BY <1>1 DEF Scheduled, TypeOK
<1>6. \A u \in Task : u # n /\ Scheduled(u)' => Scheduled(u)
  BY <1>1 DEF Scheduled, TypeOK, n
<1>7. NoLostTask'
  BY <1>1, <1>4, <1>5, <1>6, QuietLosesNobody
<1> QED
  BY <1>1, <1>7 DEF RunningInv, TypeOK, DispatchTypeOK

LEMMA ReturnTaskLosesNobody ==
  ASSUME TypeOK, SafeInv, RunningInv, NoLostTask, NEW c \in Task, ReturnTask(c)
  PROVE  RunningInv' /\ NoLostTask'
<1> USE NullAssumption DEF At, Goto
<1>1. /\ current = c /\ pc[c] = "return" /\ fault = "none"
      /\ alloc' = ReturnTo(alloc, target[c])
      /\ target' = [target EXCEPT ![c] = NULL]
      /\ pc' = [pc EXCEPT ![c] = "user"]
      /\ UNCHANGED <<current, run_state, ready, sleeping, joiner>>
  BY DEF ReturnTask, taskVars, dispatchVars
<1>2. target[c] \in Task /\ pc[target[c]] = "done" /\ target[c] # c
  BY <1>1 DEF SafeInv, TargetInv, JoinInv
<1>3. /\ alloc'[target[c]] # "live"
      /\ \A u \in Task : u # target[c] => alloc'[u] = alloc[u]
  BY <1>1, <1>2, ReturnEffect
<1>4. \A u \in Task : Scheduled(u)' <=> Scheduled(u)
  <2>1. \A u \in Task : alloc'[u] = "live" /\ pc'[u] # "done"
                       <=> alloc[u] = "live" /\ pc[u] # "done"
    BY <1>1, <1>2, <1>3 DEF TypeOK
  <2>2. \A d \in Task, u \in Task : pc'[d] = "sched" /\ target'[d] = u
                                    <=> pc[d] = "sched" /\ target[d] = u
    BY <1>1 DEF TypeOK
  <2> QED
    BY <2>1, <2>2 DEF Scheduled
<1>5. NoLostTask'
  BY <1>1, <1>4, QuietLosesNobody
<1> QED
  BY <1>1, <1>5 DEF RunningInv, TypeOK, DispatchTypeOK

LEMMA JoinLosesNobody ==
  ASSUME TypeOK, SafeInv, RunningInv, NoLostTask, NEW c \in Task, NEW n \in Task,
         Join(c, n)
  PROVE  RunningInv' /\ NoLostTask'
<1> USE NullAssumption DEF At, Goto
<1>1. /\ current = c /\ pc[c] = "user" /\ fault = "none"
      /\ owner[n] = c /\ joiner[n] = NULL
      /\ target' = [target EXCEPT ![c] = n]
      /\ \/ /\ run_state[n] # "STOPPED"
            /\ joiner' = [joiner EXCEPT ![n] = c]
            /\ run_state' = [run_state EXCEPT ![c] = "WAITING"]
            /\ pc' = [pc EXCEPT ![c] = "join"]
         \/ /\ pc' = [pc EXCEPT ![c] = "claim"]
            /\ UNCHANGED <<joiner, run_state>>
      /\ UNCHANGED <<current, ready, sleeping, alloc>>
  BY DEF Join, Exited
<1>2. \A u \in Task : Scheduled(u)' <=> Scheduled(u)
  <2>1. \A u \in Task : pc'[u] # "done" <=> pc[u] # "done"
    BY <1>1 DEF TypeOK
  <2>2. \A d \in Task, u \in Task : pc'[d] = "sched" /\ target'[d] = u
                                    <=> pc[d] = "sched" /\ target[d] = u
    BY <1>1 DEF TypeOK
  <2> QED
    BY <1>1, <2>1, <2>2 DEF Scheduled
<1>3. \A t \in Task : t # c => run_state'[t] = run_state[t]
  BY <1>1 DEF TypeOK, DispatchTypeOK
<1>4. \A u \in Task : joiner[u] # NULL => joiner'[u] = joiner[u]
  BY <1>1 DEF TypeOK
<1>5. NoLostTask'
  BY <1>1, <1>2, <1>3, <1>4, QuietLosesNobody
<1>6. run_state[c] = "RUNNING" /\ sleeping = {} /\ target'[c] = n
  BY <1>1 DEF RunningInv, TypeOK
<1>7. CASE run_state[n] # "STOPPED" /\ pc' = [pc EXCEPT ![c] = "join"]
  <2>1. pc[n] # "done"
    BY <1>1, <1>7 DEF SafeInv, OwnerInv, StoppedInv
  <2>2. pc'[c] = "join" /\ pc'[n] # "done"
    BY <2>1, <1>7 DEF TypeOK
  <2> QED
    BY <1>1, <1>5, <1>6, <2>2 DEF RunningInv
<1> QED
  BY <1>1, <1>5, <1>6, <1>7 DEF RunningInv

(***************************************************************************)
(* The other steps without a switch: they change neither the queues nor    *)
(* who is scheduled, and of the run states at most that of the caller.     *)
(***************************************************************************)
LEMMA CallLosesNobody ==
  ASSUME TypeOK, SafeInv, RunningInv, NoLostTask, NEW c \in Task, fault' = "none",
         \/ SpawnLock(c) \/ Claim(c) \/ Enter(c)
         \/ (\E n \in Task : Detach(c, n)) \/ (\E on \in BOOLEAN : SetTimer(c, on))
  PROVE  RunningInv' /\ NoLostTask'
<1> USE NullAssumption DEF At, Goto, dispatchVars, taskVars
<1>1. /\ current = c /\ fault = "none"
      /\ pc[c] \in {"user", "claim", "entry"}
      /\ UNCHANGED <<current, ready, sleeping, alloc, joiner>>
  BY DEF SpawnLock, Claim, Enter, Detach, SetTimer, Fail
<1>2. \A u \in Task : u # c => pc'[u] = pc[u] /\ target'[u] = target[u]
  BY DEF SpawnLock, Claim, Enter, Detach, SetTimer, Fail, TypeOK
<1>3. pc'[c] \in {"user", "make", "claim", "return"}
  BY <1>1 DEF SpawnLock, Claim, Enter, Detach, SetTimer, Fail, TypeOK
<1>4. /\ \A t \in Task : t # c => run_state'[t] = run_state[t]
      /\ run_state'[c] = "RUNNING"
  BY <1>1 DEF SpawnLock, Claim, Enter, Detach, SetTimer, Fail, RunningInv, TypeOK,
     DispatchTypeOK
<1>5. \A u \in Task : Scheduled(u)' <=> Scheduled(u)
  BY <1>1, <1>2, <1>3 DEF Scheduled
<1>6. NoLostTask'
  BY <1>1, <1>4, <1>5, QuietLosesNobody
<1> QED
  BY <1>1, <1>4, <1>6 DEF RunningInv

(* Whoever waits for the task that exits is put on the run queue by it. *)
LEMMA ExitLosesNobody ==
  ASSUME TypeOK, SafeInv, RunningInv, NoLostTask, NEW c \in Task, Exit(c),
         fault' = "none"
  PROVE  RunningInv' /\ NoLostTask'
<1> USE NullAssumption DEF At, Goto
<1> DEFINE rs == [run_state EXCEPT ![c] = "STOPPED"]
<1> DEFINE q == WakeJoiner(c)
<1> DEFINE Fnd(t) == Found(c, rs, q, sleeping, t)
<1>1. /\ current = c /\ pc[c] = "user" /\ fault = "none"
      /\ NodeYield(c, rs, q, sleeping)
      /\ pc' = [pc EXCEPT ![c] = "done"]
      /\ UNCHANGED <<joiner, target>>
  BY DEF Exit
<1>2. /\ rs \in [Task -> RunStates]
      /\ rs[c] = "STOPPED"
      /\ \A t \in Task : t # c => rs[t] = run_state[t]
  BY DEF TypeOK, DispatchTypeOK, RunStates
<1>3. /\ alloc[c] = "live" /\ ready[c] = 0 /\ joiner[c] # c /\ sleeping = {}
      /\ joiner[c] # NULL => joiner[c] \in Task /\ ready[joiner[c]] = 0
  BY <1>1 DEF SafeInv, AllocInv, Ended, QueueInv, JoinerInv, RunningInv, TypeOK,
     DispatchTypeOK
<1>4. /\ q \in [Task -> Nat]
      /\ \A t \in Task : t # joiner[c] => q[t] = ready[t]
      /\ joiner[c] # NULL => q[joiner[c]] = 1
  <2>1. CASE joiner[c] = NULL
    BY <2>1 DEF WakeJoiner, TypeOK, DispatchTypeOK
  <2>2. CASE joiner[c] # NULL
    <3>1. q = Push(ready, joiner[c]) /\ ready \in [Task -> Nat]
      BY <2>2 DEF WakeJoiner, TypeOK, DispatchTypeOK
    <3> HIDE DEF q
    <3> QED
      BY <3>1, <2>2, <1>3, PushEffect, PushType
  <2> QED
    BY <2>1, <2>2
<1> HIDE DEF rs, q
<1>5. Apart(c, rs, q, sleeping)
  BY <1>2, <1>3, <1>4 DEF Apart, SafeInv, QueueInv
<1>6. /\ alloc' = Flushed(c, rs)
      /\ Switched(c, rs)
      /\ current' \in Task
      /\ Fnd(current')
      /\ sleeping' \subseteq sleeping
      /\ \A t \in Task : Fnd(t) => ready'[t] = 1 \/ t \in sleeping' \/ t = current'
  BY <1>1, <1>2, <1>4, <1>5, YieldEffect DEF TypeOK, DispatchTypeOK
<1>7. /\ sleeping' = {}
      /\ \A t \in Task : Fnd(t) <=> q[t] = 1
      /\ current' # c
  BY <1>2, <1>3, <1>4, <1>6 DEF Found
<1>8. \A u \in Task : Scheduled(u)' <=> Scheduled(u) /\ u # c
  <2>1. \A d \in Task : pc'[d] = "sched" <=> pc[d] = "sched"
    BY <1>1 DEF TypeOK
  <2>2. \A u \in Task : pc'[u] = "done" <=> pc[u] = "done" \/ u = c
    BY <1>1 DEF TypeOK
  <2>3. \A u \in Task : alloc'[u] = "live" /\ pc'[u] # "done"
                       <=> alloc[u] = "live" /\ pc[u] # "done" /\ u # c
    BY <1>6, <2>2, FlushEffect DEF SafeInv, DeferredInv
  <2> QED
    BY <1>1, <2>1, <2>3 DEF Scheduled
<1>9. ASSUME NEW t \in Task, Scheduled(t)', t # current', ready'[t] # 1
      PROVE  /\ run_state'[t] = "WAITING"
             /\ \E u \in Task : joiner'[u] = t /\ Scheduled(u)'
  <2>1. Scheduled(t) /\ t # c /\ q[t] # 1
    BY <1>6, <1>7, <1>8, <1>9
  <2>2. t # joiner[c] /\ ready[t] # 1
    BY <1>4, <2>1
  <2>3. /\ run_state[t] = "WAITING"
        /\ \E u \in Task : joiner[u] = t /\ Scheduled(u)
    BY <1>1, <1>3, <2>1, <2>2 DEF NoLostTask, Queued, SafeInv, QueueInv
  <2>4. run_state'[t] = run_state[t]
    BY <1>2, <1>6, <1>9, <2>1 DEF Switched
  <2> QED
    BY <1>1, <1>8, <2>2, <2>3, <2>4
<1>10. NoLostTask'
  BY <1>9 DEF NoLostTask, Queued
<1>11. run_state'[current'] = "RUNNING" \/ pc'[current'] = "entry"
  BY <1>1, <1>6, <1>7 DEF Switched, TypeOK
<1> QED
  BY <1>7, <1>10, <1>11 DEF RunningInv

(* The invariant behind NoLostTask. *)
LEMMA RunningInvariant ==
  ASSUME "entry" \notin TickAt, ~ Sleeps
  PROVE  Spec => []NInv
<1>1. Init => NInv
  BY HostAssumption DEF Init, NInv, RunningInv, NoLostTask, Scheduled
<1>2. IInv /\ NInv /\ [Next]_vars => NInv'
  <2> SUFFICES ASSUME TypeOK, fault = "none" => SafeInv /\ RunningInv /\ NoLostTask,
                      [Next]_vars, fault' = "none"
               PROVE  RunningInv' /\ NoLostTask'
    BY DEF IInv, NInv
  <2>1. CASE UNCHANGED vars
    BY <2>1 DEF vars, dispatchVars, taskVars, RunningInv, NoLostTask, Scheduled
  <2>2. CASE Tick
    <3>1. /\ fault = "none" /\ current \in Task /\ pc[current] # "entry"
          /\ NodeYield(current, run_state, ready, sleeping)
          /\ UNCHANGED <<joiner, pc, target>>
      BY <2>2 DEF Tick, Preemptible, taskVars, TypeOK, DispatchTypeOK
    <3> QED
      BY <3>1, YieldLosesNobody
  <2>3. ASSUME NEW c \in Task, TaskStep(c) PROVE RunningInv' /\ NoLostTask'
    <3>1. fault = "none"
      BY <2>3 DEF TaskStep, Yield, SpawnLock, SpawnStart, SpawnSchedule, JoinYield,
         Claim, ReturnTask, Exit, SleepFor, Enter, Join, Detach, SetTimer, At
    <3>2. CASE Yield(c)
      BY <3>1, <3>2, YieldLosesNobody DEF Yield, At, taskVars
    <3>3. CASE JoinYield(c)
      BY <3>1, <3>3, YieldLosesNobody DEF JoinYield, At, Goto, taskVars, TypeOK
    <3>4. ~ SleepFor(c)
      BY DEF SleepFor
    <3> QED
      BY <2>3, <3>1, <3>2, <3>3, <3>4, SpawnStartLosesNobody,
         SpawnScheduleLosesNobody, ReturnTaskLosesNobody, JoinLosesNobody,
         CallLosesNobody, ExitLosesNobody DEF TaskStep
  <2> QED
    BY <2>1, <2>2, <2>3 DEF Next
<1> QED
  BY <1>1, <1>2, SafeInvariant, PTL DEF Spec

(***************************************************************************)
(* No task is lost, whatever the programs do, if no tick strikes between   *)
(* a task's first switch and its RUNNING, and nobody calls sleep_for: the  *)
(* two cases in which the code does lose one.                              *)
(***************************************************************************)
THEOREM NoLostTaskAlways ==
  ASSUME "entry" \notin TickAt, ~ Sleeps
  PROVE  Spec => []NoLostTask
<1>1. NInv => NoLostTask
  BY DEF NInv, NoLostTask
<1> QED
  BY <1>1, RunningInvariant, PTL

-----------------------------------------------------------------------------
(* The process goes on *)

(***************************************************************************)
(* It cannot be that everybody of a set waits for another one of it, the   *)
(* host task included.  Who waits in join has the handle of the task it    *)
(* waits for, and a task has one handle at most: nobody is waited for      *)
(* twice.  The host is waited for by nobody, so the set has fewer tasks    *)
(* that are waited for than tasks that wait.                               *)
(***************************************************************************)
LEMMA NotEverybodyWaits ==
  ASSUME TypeOK, SafeInv, HostInv, IsFiniteSet(Task),
         NEW W \in SUBSET Task, Host \in W,
         \A t \in W : \E u \in W : joiner[u] = t /\ Scheduled(u)
  PROVE  FALSE
<1> DEFINE f == [t \in W |-> target[t]]
<1>1. \A t \in W : target[t] \in W /\ owner[target[t]] = t
  BY NullAssumption DEF SafeInv, JoinerInv, TargetInv, Scheduled
<1>2. \A t \in W : target[t] # Host
  BY <1>1, NullAssumption DEF HostInv
<1>3. f \in [W -> W \ {Host}]
  BY <1>1, <1>2
<1>4. /\ IsFiniteSet(W) /\ IsFiniteSet(W \ {Host})
      /\ Cardinality(W \ {Host}) = Cardinality(W) - 1
  BY FS_Subset, FS_RemoveElement
<1>5. Cardinality(W \ {Host}) < Cardinality(W)
  BY <1>4, FS_CardinalityType
<1> HIDE DEF f
<1>6. PICK x \in W, y \in W : x # y /\ f[x] = f[y]
  BY <1>3, <1>4, <1>5, FS_PigeonHole
<1>7. target[x] = target[y]
  BY <1>6 DEF f
<1> QED
  BY <1>1, <1>6, <1>7

(* The host task is scheduled. *)
LEMMA HostScheduled ==
  ASSUME TypeOK, SafeInv, HostInv
  PROVE  Scheduled(Host)
BY HostAssumption DEF SafeInv, AllocInv, Ended, SpawnInv, HostInv, Scheduled

(* A yield fails only if it finds nobody, the free list not being locked. *)
LEMMA YieldFails ==
  ASSUME TypeOK, NEW c \in Task, NEW rs, NEW q \in [Task -> Nat],
         mu = NULL, NodeYield(c, rs, q, sleeping), fault' # "none"
  PROVE  \A t \in Task : ~ (q[t] > 0) /\ (rs[c] = "RUNNING" => t # c)
<1>1. Queued(Requeue(c, rs, q)) = {}
  BY DEF NodeYield, Pop
<1>2. CASE rs[c] = "RUNNING"
  BY <1>1, <1>2 DEF Requeue, Push, Queued
<1>3. CASE rs[c] # "RUNNING"
  BY <1>1, <1>3 DEF Requeue, Queued
<1> QED
  BY <1>2, <1>3

(***************************************************************************)
(* A task that yields, by itself or by a tick, finds somebody to run: if   *)
(* it is about to wait, not everybody else waits.                          *)
(***************************************************************************)
LEMMA YieldGoesOn ==
  ASSUME TypeOK, SafeInv, RunningInv, NoLostTask, FInv, IsFiniteSet(Task),
         NEW c \in Task, current = c, pc[c] \notin {"entry", "make", "return"},
         NodeYield(c, run_state, ready, sleeping)
  PROVE  fault' = "none"
<1> SUFFICES ASSUME fault' # "none" PROVE FALSE
  OBVIOUS
<1> DEFINE W == {t \in Task : Scheduled(t)}
<1>1. mu = NULL
  BY DEF FInv, MuInv
<1>2. run_state[c] # "RUNNING" /\ \A t \in Task : ~ (ready[t] > 0)
  BY <1>1, YieldFails DEF TypeOK, DispatchTypeOK
<1>3. sleeping = {} /\ pc[c] = "join" /\ pc[target[c]] # "done"
  BY <1>2 DEF RunningInv
<1>4. \A t \in W : \E u \in W : joiner[u] = t /\ Scheduled(u)
  <2> SUFFICES ASSUME NEW t \in Task, Scheduled(t)
               PROVE  \E u \in Task : joiner[u] = t /\ Scheduled(u)
    OBVIOUS
  <2>1. CASE t = c
    BY <2>1, <1>3, AboutToWait
  <2>2. CASE t # c
    BY <2>2, <1>2, <1>3 DEF FInv, NoFault, NoLostTask, Queued
  <2> QED
    BY <2>1, <2>2
<1>5. Host \in W
  BY HostScheduled, HostAssumption DEF FInv
<1> HIDE DEF W
<1>6. W \subseteq Task
  BY DEF W
<1> QED
  BY <1>4, <1>5, <1>6, NotEverybodyWaits DEF FInv

(***************************************************************************)
(* A task that exits finds somebody to run: its joiner, or else somebody   *)
(* of the rest, of which not everybody waits for another one.              *)
(***************************************************************************)
LEMMA ExitGoesOn ==
  ASSUME TypeOK, SafeInv, RunningInv, NoLostTask, FInv, IsFiniteSet(Task),
         NEW c \in Task, Exit(c)
  PROVE  fault' = "none"
<1> SUFFICES ASSUME fault' # "none" PROVE FALSE
  OBVIOUS
<1> USE NullAssumption
<1> DEFINE W == {t \in Task : Scheduled(t) /\ t # c}
<1> DEFINE q == WakeJoiner(c)
<1> DEFINE rs == [run_state EXCEPT ![c] = "STOPPED"]
<1>1. /\ current = c /\ pc[c] = "user" /\ c # Host
      /\ NodeYield(c, rs, q, sleeping)
  BY DEF Exit, At
<1>2. mu = NULL
  BY <1>1 DEF FInv, MuInv
<1>3. q \in [Task -> Nat]
  BY DEF WakeJoiner, Push, TypeOK, DispatchTypeOK
<1> HIDE DEF q, rs
<1>4. \A t \in Task : ~ (q[t] > 0)
  BY <1>1, <1>2, <1>3, YieldFails
<1>5. joiner[c] = NULL
  BY <1>4 DEF q, WakeJoiner, Push, TypeOK, DispatchTypeOK
<1>6. \A t \in Task : ~ (ready[t] > 0)
  BY <1>4, <1>5 DEF q, WakeJoiner
<1>7. sleeping = {}
  BY DEF RunningInv
<1>8. \A t \in W : \E u \in W : joiner[u] = t /\ Scheduled(u)
  <2> SUFFICES ASSUME NEW t \in Task, Scheduled(t), t # c
               PROVE  \E u \in Task : joiner[u] = t /\ Scheduled(u) /\ u # c
    OBVIOUS
  <2> QED
    BY <1>1, <1>5, <1>6, <1>7 DEF FInv, NoFault, NoLostTask, Queued
<1>9. Host \in W
  BY <1>1, HostScheduled, HostAssumption DEF FInv
<1> HIDE DEF W
<1>10. W \subseteq Task
  BY DEF W
<1> QED
  BY <1>8, <1>9, <1>10, NotEverybodyWaits DEF FInv

(* The steps that do not yield: a call finds what it asserts and locks. *)
LEMMA CallGoesOn ==
  ASSUME TypeOK, SafeInv, RunningInv, FInv, NEW c \in Task,
         \/ SpawnLock(c) \/ SpawnStart(c) \/ SpawnSchedule(c) \/ Claim(c)
         \/ ReturnTask(c) \/ Enter(c)
         \/ (\E t \in Task : Join(c, t) \/ Detach(c, t))
         \/ (\E on \in BOOLEAN : SetTimer(c, on))
  PROVE  fault' = "none" /\ MuInv'
<1> USE NullAssumption DEF FInv, NoFault, MuInv, At, Goto, dispatchVars
<1>1. CASE SpawnLock(c)
  <2>1. /\ current = c /\ pc[c] = "user" /\ mu = NULL
        /\ mu' = c /\ pc' = [pc EXCEPT ![c] = "make"] /\ UNCHANGED <<current, fault>>
    BY <1>1 DEF SpawnLock
  <2> QED
    BY <2>1 DEF TypeOK
<1>2. CASE SpawnStart(c) \/ SpawnSchedule(c) \/ ReturnTask(c)
  <2>1. mu' = NULL /\ fault' = fault
    BY <1>2 DEF SpawnStart, SpawnSchedule, ReturnTask
  <2> QED
    BY <2>1
<1>3. CASE Claim(c)
  <2>1. /\ current = c /\ pc[c] = "claim" /\ mu = NULL
        /\ target[c] \in Task /\ owner[target[c]] = c
    BY <1>3 DEF Claim, SafeInv, TargetInv
  <2>2. alloc[target[c]] = "live"
    BY <2>1 DEF SafeInv, OwnerInv
  <2>3. pc[target[c]] = "done"
    BY <2>1, <2>2 DEF SafeInv, JoinInv, JoinerInv
  <2>4. run_state[target[c]] = "STOPPED"
    BY <2>1, <2>2, <2>3 DEF SafeInv, StoppedInv
  <2>5. mu' = c /\ pc' = [pc EXCEPT ![c] = "return"] /\ UNCHANGED <<current, fault>>
    BY <1>3, <2>1, <2>4 DEF Claim
  <2> QED
    BY <2>1, <2>5 DEF TypeOK
<1>4. CASE Enter(c) \/ (\E t \in Task : Join(c, t) \/ Detach(c, t))
           \/ (\E on \in BOOLEAN : SetTimer(c, on))
  <2>1. mu = NULL /\ UNCHANGED <<mu, fault>>
    BY <1>4 DEF Enter, Join, Detach, SetTimer
  <2> QED
    BY <2>1
<1> QED
  BY <1>1, <1>2, <1>3, <1>4

(* No step gives anybody a handle to the host task or starts it anew. *)
LEMMA HostStaysHost ==
  ASSUME TypeOK, SafeInv, HostInv, Next
  PROVE  HostInv'
<1> USE HostAssumption, NullAssumption DEF HostInv, At, Goto, Fail
<1>1. CASE Tick
  BY <1>1 DEF Tick
<1>2. ASSUME NEW c \in Task, TaskStep(c) PROVE HostInv'
  <2>1. CASE SpawnStart(c)
    BY <2>1 DEF SpawnStart, SafeInv, AllocInv, Ended, TypeOK
  <2>2. CASE SpawnSchedule(c)
    BY <2>2 DEF SpawnSchedule, SafeInv, SpawnInv, TypeOK
  <2>3. CASE ReturnTask(c)
    BY <2>3 DEF ReturnTask, SafeInv, TargetInv, TypeOK
  <2>4. CASE \E t \in Task : Join(c, t) \/ Detach(c, t)
    BY <2>4 DEF Join, Detach, TypeOK
  <2>5. CASE \/ Yield(c) \/ SpawnLock(c) \/ JoinYield(c) \/ Claim(c) \/ Exit(c)
             \/ SleepFor(c) \/ Enter(c) \/ \E on \in BOOLEAN : SetTimer(c, on)
    <3>1. owner' = owner
      BY <2>5 DEF Yield, SpawnLock, JoinYield, Claim, Exit, SleepFor, Enter, SetTimer
    <3>2. pc' = pc \/ \E p \in {"make", "claim", "return", "done", "user"} : Goto(c, p)
      BY <2>5 DEF Yield, SpawnLock, JoinYield, Claim, Exit, SleepFor, Enter, SetTimer
    <3> QED
      BY <3>1, <3>2 DEF TypeOK
  <2> QED
    BY <1>2, <2>1, <2>2, <2>3, <2>4, <2>5 DEF TaskStep
<1> QED
  BY <1>1, <1>2 DEF Next

(***************************************************************************)
(* The process never aborts and never blocks: a yield always finds         *)
(* somebody to run, join finds its task stopped when it comes back, and    *)
(* the free list is never found locked; if ticks strike neither in         *)
(* gthread_task_entry nor in make_task and return_task, and nobody calls   *)
(* sleep_for.  There are finitely many tasks: with infinitely many all     *)
(* could wait, each for the next one.                                      *)
(***************************************************************************)
THEOREM NoFaultAlways ==
  ASSUME IsFiniteSet(Task), ~ Sleeps,
         TickAt \cap {"entry", "make", "return"} = {}
  PROVE  Spec => []NoFault
<1>1. Init => FInv
  BY HostAssumption DEF Init, FInv, NoFault, MuInv, HostInv
<1>2. IInv /\ NInv /\ FInv /\ [Next]_vars => FInv'
  <2> SUFFICES ASSUME TypeOK, SafeInv, RunningInv, NoLostTask, FInv, [Next]_vars
               PROVE  FInv'
    BY DEF IInv, NInv, FInv, NoFault
  <2>1. CASE UNCHANGED vars
    BY <2>1 DEF vars, dispatchVars, FInv, NoFault, MuInv, HostInv
  <2>2. CASE Next
    <3>1. HostInv'
      BY <2>2, HostStaysHost DEF FInv
    <3>2. CASE Tick
      <4>1. /\ current \in Task /\ pc[current] \notin {"entry", "make", "return"}
            /\ NodeYield(current, run_state, ready, sleeping)
            /\ mu' = mu
        BY <3>2 DEF Tick, Preemptible, TypeOK, DispatchTypeOK
      <4>2. fault' = "none"
        BY <4>1, YieldGoesOn
      <4> QED
        BY <3>1, <4>1, <4>2 DEF FInv, NoFault, MuInv
    <3>3. ASSUME NEW c \in Task, TaskStep(c) PROVE fault' = "none" /\ MuInv'
      <4>1. CASE Yield(c) \/ JoinYield(c)
        <5>1. /\ current = c /\ pc[c] \in {"user", "join"} /\ mu' = mu
              /\ NodeYield(c, run_state, ready, sleeping)
          BY <4>1 DEF Yield, JoinYield, At
        <5> QED
          BY <5>1, YieldGoesOn DEF FInv, MuInv
      <4>2. CASE Exit(c)
        <5>1. current = c /\ pc[c] = "user" /\ mu' = mu
          BY <4>2 DEF Exit, At
        <5> QED
          BY <5>1, <4>2, ExitGoesOn DEF FInv, MuInv
      <4>3. ~ SleepFor(c)
        BY DEF SleepFor
      <4> QED
        BY <3>3, <4>1, <4>2, <4>3, CallGoesOn DEF TaskStep
    <3> QED
      BY <2>2, <3>1, <3>2, <3>3 DEF Next, FInv, NoFault
  <2> QED
    BY <2>1, <2>2
<1>3. Spec => []NInv
  BY RunningInvariant
<1>4. FInv => NoFault
  BY DEF FInv
<1> QED
  BY <1>1, <1>2, <1>3, <1>4, SafeInvariant, PTL DEF Spec
=============================================================================
