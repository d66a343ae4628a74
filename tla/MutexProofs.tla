----------------------------- MODULE MutexProofs -----------------------------
(***************************************************************************)
(* Proofs about module Mutex, for any number of tasks: type correctness    *)
(* and the safety invariants of run mutex.                                 *)
(***************************************************************************)
EXTENDS Mutex, TLAPS, SequenceTheorems, FiniteSetTheorems

-----------------------------------------------------------------------------
(* The inductive invariant *)

(* The stretches of lock and unlock that run with _lock held. *)
Spinning(t) == pc[t] \in {"look", "free", "unpark", "wake", "leave"}

SpinInv == \A t \in Task : Spinning(t) <=> spin = t

OnList(t) == \E i \in DOMAIN waitqueue : waitqueue[i] = t

(* Nobody is on the wait list twice; who is on it has yet to come back to the
   spin lock, and who is about to park is on it. *)
ListInv ==
  /\ \A i, j \in DOMAIN waitqueue : waitqueue[i] = waitqueue[j] => i = j
  /\ \A i \in DOMAIN waitqueue : pc[waitqueue[i]] \in {"park", "wait", "sleep", "respin"}
  /\ \A t \in Task : pc[t] \in {"park", "wait"} => OnList(t)

(* Who waits is on the list, and stands at its yield in park. *)
WaitInv ==
  \A t \in Task :
    run_state[t] = "WAITING" => pc[t] \in {"sleep", "respin"} /\ OnList(t)

(* Somebody who is on the list, has parked and does not wait was unparked. *)
ParkedInv ==
  \A i \in DOMAIN waitqueue :
    LET t == waitqueue[i]
    IN  pc[t] \in {"sleep", "respin"} /\ run_state[t] # "WAITING" =>
          i = 1 /\ \E u \in Task : pc[u] = "leave"

(* unlock and the head of the list. *)
UnparkInv ==
  \A u \in Task :
    /\ pc[u] \in {"unpark", "wake", "leave"} => waitqueue # <<>>
    /\ pc[u] = "wake" => /\ taken[u] = Head(waitqueue)
                         /\ run_state[Head(waitqueue)] = "WAITING"
                         /\ waiter[Head(waitqueue)] = NULL
    /\ pc[u] = "leave" => /\ pc[Head(waitqueue)] \in {"sleep", "respin"}
                          /\ run_state[Head(waitqueue)] # "WAITING"

(* A waiter holds at most the task that emplaced it, and that one only if it
   is on its way into park or parked. *)
WaiterInv ==
  \A t \in Task :
    /\ waiter[t] \in {t, NULL}
    /\ waiter[t] = t => pc[t] = "wait" \/ run_state[t] = "WAITING"

(* The others are on the run queue, once, unless they wait. *)
ReadyInv ==
  /\ run_state[current] = "RUNNING" \/ (run_state[current] = "WAITING" /\ pc[current] = "sleep")
  /\ ready[current] = 0
  /\ \A t \in Task \ {current} :
       /\ run_state[t] \in {"SUSPENDED", "WAITING"}
       /\ ready[t] = IF run_state[t] = "WAITING" THEN 0 ELSE 1

(* Somebody has the mutex, or is about to find it free, if the list is not
   empty. *)
WokenInv ==
  waitqueue # <<>> =>
    \/ owner # NULL
    \/ \E t \in Task : pc[t] \in {"sleep", "respin", "look"} /\ ~ OnList(t)

(* The tasks in lock's slow path are counted. *)
CountInv == waiting = Cardinality({t \in Task : Counted(t)})

IInv ==
  /\ TypeOK
  /\ NoFault
  /\ MutualExclusion
  /\ SpinInv
  /\ ListInv
  /\ WaitInv
  /\ ParkedInv
  /\ UnparkInv
  /\ WaiterInv
  /\ ReadyInv
  /\ WokenInv
  /\ CountInv

-----------------------------------------------------------------------------
(* What the operators on the list and on the processor do *)

(* The wait list with one task more. *)
LEMMA AppendEffect ==
  ASSUME NEW q \in Seq(Task), NEW c \in Task
  PROVE  /\ Append(q, c) \in Seq(Task)
         /\ Append(q, c) # <<>>
         /\ DOMAIN Append(q, c) = DOMAIN q \cup {Len(q) + 1}
         /\ Len(q) + 1 \notin DOMAIN q
         /\ \A i \in DOMAIN q : Append(q, c)[i] = q[i]
         /\ Append(q, c)[Len(q) + 1] = c
BY AppendProperties, LenProperties

(* The wait list without its head. *)
LEMMA TailEffect ==
  ASSUME NEW q \in Seq(Task), q # <<>>
  PROVE  /\ Tail(q) \in Seq(Task)
         /\ 1 \in DOMAIN q
         /\ Head(q) = q[1]
         /\ \A i \in DOMAIN Tail(q) : i + 1 \in DOMAIN q /\ Tail(q)[i] = q[i + 1] /\ i \in Nat \ {0}
         /\ \A i \in DOMAIN q : i = 1 \/ (i - 1 \in DOMAIN Tail(q) /\ Tail(q)[i - 1] = q[i])
<1>1. Len(q) \in Nat \ {0} /\ DOMAIN q = 1..Len(q)
  BY LenProperties, EmptySeq
<1>2. /\ Tail(q) \in Seq(Task) /\ Len(Tail(q)) = Len(q) - 1
      /\ \A i \in 1 .. Len(Tail(q)) : Tail(q)[i] = q[i + 1]
  BY HeadTailProperties
<1>3. DOMAIN Tail(q) = 1..Len(q) - 1
  BY <1>2, LenProperties
<1> QED
  BY <1>1, <1>2, <1>3

(***************************************************************************)
(* A yield of the current task, when somebody can run: another task may    *)
(* become current, RUNNING, and nobody begins or ends to wait.             *)
(***************************************************************************)
LEMMA YieldEffect ==
  ASSUME TypeOK, ReadyInv, NEW c \in Task, current = c,
         Queued(Requeue(c, run_state, ready)) # {}, YieldNow(c)
  PROVE  /\ WaiterTypeOK'
         /\ ReadyInv'
         /\ waiter' = waiter
         /\ fault' = fault
         /\ \A t \in Task : run_state'[t] = "WAITING" <=> run_state[t] = "WAITING"
<1> DEFINE q == Requeue(c, run_state, ready)
<1>1. PICK n \in Task : RunNext(c, n, run_state, q, {})
  BY DEF YieldNow
<1>2. UNCHANGED <<waiter, fault>>
  BY DEF YieldNow
<1>3. /\ q \in [Task -> Nat]
      /\ \A t \in Task : q[t] = IF run_state[t] = "WAITING" THEN 0 ELSE 1
  <2>1. CASE run_state[c] = "RUNNING"
    <3>1. q = [ready EXCEPT ![c] = @ + 1] /\ ready \in [Task -> Nat]
      BY <2>1 DEF Requeue, Push, TypeOK, WaiterTypeOK, DispatchTypeOK
    <3> HIDE DEF q
    <3> QED
      BY <2>1, <3>1 DEF ReadyInv
  <2>2. CASE run_state[c] = "WAITING"
    BY <2>2 DEF Requeue, ReadyInv, TypeOK, WaiterTypeOK, DispatchTypeOK
  <2> QED
    BY <2>1, <2>2 DEF ReadyInv
<1> HIDE DEF q
<1>4. /\ n \in Task /\ run_state[n] # "WAITING"
      /\ ready' = [q EXCEPT ![n] = @ - 1]
      /\ SwitchTo(c, n, run_state, {})
  BY <1>1, <1>3 DEF RunNext, Queued, Erase
<1>5. /\ ready' \in [Task -> Nat]
      /\ \A t \in Task : ready'[t] = IF t = n \/ run_state[t] = "WAITING" THEN 0 ELSE 1
  BY <1>3, <1>4
<1>6. /\ current' = n
      /\ run_state' \in [Task -> RunStates]
      /\ no_preempt_flag' \in [Task -> BOOLEAN]
  BY <1>4 DEF SwitchTo, RunStates, TypeOK, WaiterTypeOK, DispatchTypeOK
<1>7. /\ run_state'[n] = "RUNNING"
      /\ \A t \in Task : run_state'[t] = "WAITING" <=> run_state[t] = "WAITING"
      /\ \A t \in Task \ {n} : run_state'[t] \in {"SUSPENDED", "WAITING"}
  BY <1>4 DEF SwitchTo, ReadyInv
<1>8. WaiterTypeOK'
  BY <1>2, <1>4, <1>5, <1>6 DEF WaiterTypeOK, DispatchTypeOK, TypeOK
<1>9. ReadyInv'
  BY <1>5, <1>6, <1>7 DEF ReadyInv
<1> QED
  BY <1>2, <1>7, <1>8, <1>9

(* Whoever yields, somebody can run: the caller, or who will wake it. *)
LEMMA SomebodyRuns ==
  ASSUME IInv, NEW c \in Task, current = c
  PROVE  Queued(Requeue(c, run_state, ready)) # {}
<1>1. CASE run_state[c] = "RUNNING"
  <2> DEFINE q == Requeue(c, run_state, ready)
  <2>1. q = [ready EXCEPT ![c] = @ + 1] /\ ready \in [Task -> Nat]
    BY <1>1 DEF Requeue, Push, IInv, TypeOK, WaiterTypeOK, DispatchTypeOK
  <2> HIDE DEF q
  <2>2. q[c] > 0
    BY <2>1
  <2> QED
    BY <2>2 DEF Queued, q
<1>2. CASE run_state[c] = "WAITING"
  <2>1. pc[c] = "sleep" /\ OnList(c)
    BY <1>2 DEF IInv, ReadyInv, WaitInv
  <2>2. waitqueue # <<>>
    BY <2>1 DEF OnList
  <2>3. PICK t \in Task : t # c /\ run_state[t] # "WAITING"
    <3>1. CASE owner # NULL
      <4>1. owner \in Task /\ Owning(owner)
        BY <3>1 DEF IInv, TypeOK, MutualExclusion
      <4> QED
        BY <4>1, <2>1 DEF Owning, IInv, WaitInv
    <3>2. CASE \E t \in Task : pc[t] \in {"sleep", "respin", "look"} /\ ~ OnList(t)
      BY <3>2, <2>1 DEF IInv, WaitInv
    <3> QED
      BY <2>2, <3>1, <3>2 DEF IInv, WokenInv
  <2>4. ready[t] = 1 /\ Requeue(c, run_state, ready) = ready
    BY <1>2, <2>3 DEF IInv, ReadyInv, Requeue
  <2> QED
    BY <2>4 DEF Queued
<1> QED
  BY <1>1, <1>2 DEF IInv, ReadyInv

(* A yield in the middle of a call, or a tick. *)
LEMMA YieldKeeps ==
  ASSUME IInv, NEW c \in Task, current = c, YieldNow(c), UNCHANGED <<pc, mutexVars>>
  PROVE  IInv'
<1> USE DEF IInv
<1>1. /\ WaiterTypeOK'
      /\ ReadyInv'
      /\ waiter' = waiter
      /\ fault' = fault
      /\ \A t \in Task : run_state'[t] = "WAITING" <=> run_state[t] = "WAITING"
  BY SomebodyRuns, YieldEffect
<1>2. TypeOK' /\ NoFault' /\ MutualExclusion' /\ SpinInv' /\ ListInv' /\ CountInv'
  BY <1>1 DEF mutexVars, TypeOK, NoFault, MutualExclusion, Owning, SpinInv, Spinning,
     ListInv, OnList, CountInv, Counted
<1>3. OnList(c)' <=> OnList(c)
  BY DEF OnList, mutexVars
<1>4. WaitInv' /\ WokenInv' /\ WaiterInv'
  BY <1>1 DEF WaitInv, WokenInv, WaiterInv, OnList, mutexVars
<1>5. ParkedInv'
  BY <1>1 DEF ParkedInv, mutexVars, TypeOK
<1>6. UnparkInv'
  BY <1>1 DEF UnparkInv, mutexVars, TypeOK
<1> QED
  BY <1>1, <1>2, <1>4, <1>5, <1>6

-----------------------------------------------------------------------------
(* One lemma per action *)

LEMMA ListElements ==
  ASSUME TypeOK
  PROVE  /\ \A i \in DOMAIN waitqueue : waitqueue[i] \in Task
         /\ waitqueue # <<>> => Head(waitqueue) \in Task
BY ElementOfSeq, LenProperties, HeadTailProperties DEF TypeOK

(* Who executes anything but park's yield is RUNNING. *)
LEMMA RunnerEffect ==
  ASSUME IInv, NEW c \in Task, current = c, pc[c] # "sleep"
  PROVE  run_state[c] = "RUNNING"
BY DEF IInv, ReadyInv

(* The first step of lock and unlock. *)
LEMMA StartKeeps ==
  ASSUME IInv, NEW c \in Task, Start(c)
  PROVE  IInv'
<1> USE DEF IInv, At, Goto, Running
<1>1. /\ current = c /\ run_state[c] = "RUNNING"
      /\ \/ pc[c] = "idle" /\ pc' = [pc EXCEPT ![c] = "spin"]
         \/ pc[c] = "crit" /\ pc' = [pc EXCEPT ![c] = "unspin"]
      /\ UNCHANGED <<waiterVars, mutexVars>>
  BY RunnerEffect DEF Start
<1>2. TypeOK' /\ NoFault' /\ ReadyInv'
  BY <1>1 DEF TypeOK, Places, NoFault, ReadyInv, waiterVars, dispatchVars, mutexVars,
     WaiterTypeOK, DispatchTypeOK
<1>3. MutualExclusion' /\ SpinInv'
  BY <1>1 DEF TypeOK, MutualExclusion, Owning, SpinInv, Spinning, mutexVars
<1>4. \A t \in Task : OnList(t)' <=> OnList(t)
  BY <1>1 DEF OnList, mutexVars
<1>5. ListInv' /\ WaitInv' /\ ParkedInv' /\ WaiterInv' /\ WokenInv'
  BY <1>1, <1>4 DEF TypeOK, ListInv, WaitInv, ParkedInv, WaiterInv, WokenInv, OnList,
     waiterVars, dispatchVars, mutexVars
<1>6. UnparkInv'
  BY <1>1 DEF TypeOK, UnparkInv, waiterVars, dispatchVars, mutexVars
<1>7. \A t \in Task : Counted(t)' <=> Counted(t)
  BY <1>1 DEF Counted, TypeOK
<1>8. CountInv'
  BY <1>1, <1>7 DEF CountInv, mutexVars
<1> QED
  BY <1>2, <1>3, <1>5, <1>6, <1>8

(* spin_lock::lock of lock and of unlock, taken or not. *)
LEMMA SpinKeeps ==
  ASSUME IInv, NEW c \in Task, LockSpin(c) \/ UnlockSpin(c)
  PROVE  IInv'
<1> USE DEF IInv, At, Goto, Running
<1>1. current = c /\ pc[c] \in {"spin", "unspin"}
  BY DEF LockSpin, UnlockSpin, Spin
<1>2. CASE YieldNow(c) /\ UNCHANGED <<pc, mutexVars>>
  BY <1>1, <1>2, YieldKeeps
<1>3. CASE /\ spin = NULL /\ spin' = c
           /\ \/ pc[c] = "spin" /\ pc' = [pc EXCEPT ![c] = "look"]
              \/ pc[c] = "unspin" /\ pc' = [pc EXCEPT ![c] = "free"]
           /\ UNCHANGED <<waiterVars, owner, waitqueue, waiting, taken>>
  <2>1. run_state[c] = "RUNNING"
    BY <1>1, RunnerEffect
  <2>2. TypeOK' /\ NoFault' /\ ReadyInv'
    BY <1>1, <1>3, <2>1 DEF TypeOK, Places, NoFault, ReadyInv, waiterVars, dispatchVars,
       WaiterTypeOK, DispatchTypeOK
  <2>3. MutualExclusion' /\ SpinInv'
    BY <1>1, <1>3, NullAssumption DEF TypeOK, MutualExclusion, Owning, SpinInv, Spinning
  <2>4. ListInv' /\ WaitInv' /\ ParkedInv' /\ WaiterInv' /\ WokenInv'
    BY <1>1, <1>3, <2>1 DEF TypeOK, ListInv, WaitInv, ParkedInv, WaiterInv, WokenInv,
       OnList, waiterVars, dispatchVars
  <2>5. UnparkInv'
    BY <1>1, <1>3 DEF TypeOK, UnparkInv, waiterVars, dispatchVars
  <2>6. \A t \in Task : Counted(t)' <=> Counted(t)
    BY <1>1, <1>3 DEF Counted, TypeOK
  <2>7. CountInv'
    BY <1>3, <2>6 DEF CountInv
  <2> QED
    BY <2>2, <2>3, <2>4, <2>5, <2>7
<1> QED
  BY <1>1, <1>2, <1>3 DEF LockSpin, UnlockSpin, Spin

(* The number of tasks in lock's slow path, when one enters or leaves it. *)
LEMMA CountEffect ==
  ASSUME TypeOK, NEW c \in Task, \A t \in Task \ {c} : Counted(t)' <=> Counted(t)
  PROVE  LET n == Cardinality({t \in Task : Counted(t)})
             m == Cardinality({t \in Task : Counted(t)'})
         IN  /\ n \in Nat /\ m \in Nat
             /\ ~ Counted(c) /\ Counted(c)' => m = n + 1
             /\ Counted(c) /\ ~ Counted(c)' => m = n - 1
             /\ (Counted(c) <=> Counted(c)') => m = n
<1> DEFINE S == {t \in Task : Counted(t)}
           T == {t \in Task : Counted(t)'}
<1>1. IsFiniteSet(S) /\ IsFiniteSet(T)
  BY FiniteAssumption, FS_Subset
<1>2. Cardinality(S) \in Nat /\ Cardinality(T) \in Nat
  BY <1>1, FS_CardinalityType
<1>3. ~ Counted(c) /\ Counted(c)' => T = S \cup {c} /\ c \notin S
  OBVIOUS
<1>4. Counted(c) /\ ~ Counted(c)' => T = S \ {c} /\ c \in S
  OBVIOUS
<1>5. (Counted(c) <=> Counted(c)') => T = S
  OBVIOUS
<1> HIDE DEF S, T
<1>6. ~ Counted(c) /\ Counted(c)' => Cardinality(T) = Cardinality(S) + 1
  BY <1>1, <1>3, FS_AddElement
<1>7. Counted(c) /\ ~ Counted(c)' => Cardinality(T) = Cardinality(S) - 1
  BY <1>1, <1>4, FS_RemoveElement
<1> QED
  BY <1>2, <1>5, <1>6, <1>7 DEF S, T

(* Back from park: the spin lock again, and one waiter is counted out. *)
LEMMA LockRespinKeeps ==
  ASSUME IInv, NEW c \in Task, LockRespin(c)
  PROVE  IInv'
<1> USE DEF IInv, At, Goto, Running
<1>1. current = c /\ pc[c] = "respin"
  BY DEF LockRespin
<1>2. CASE YieldNow(c) /\ UNCHANGED <<pc, mutexVars>>
  BY <1>1, <1>2, YieldKeeps
<1>3. CASE /\ spin = NULL /\ spin' = c
           /\ waiting' = waiting - 1
           /\ pc' = [pc EXCEPT ![c] = "look"]
           /\ UNCHANGED <<waiterVars, owner, waitqueue, taken>>
  <2>1. run_state[c] = "RUNNING"
    BY <1>1, RunnerEffect
  <2>2. \A t \in Task : pc[t] \notin {"look", "free", "unpark", "wake", "leave"}
    BY <1>3, NullAssumption DEF SpinInv, Spinning
  <2>3. ~ OnList(c)
    BY <1>1, <2>1, <2>2 DEF OnList, ParkedInv
  <2>4. /\ waiting = Cardinality({t \in Task : Counted(t)})
        /\ Cardinality({t \in Task : Counted(t)'}) = waiting - 1
        /\ Cardinality({t \in Task : Counted(t)'}) \in Nat
    <3>1. /\ \A t \in Task \ {c} : Counted(t)' <=> Counted(t)
          /\ Counted(c) /\ ~ Counted(c)'
      BY <1>1, <1>3 DEF Counted, TypeOK
    <3> QED
      BY <3>1, CountEffect DEF CountInv
  <2>5. TypeOK' /\ NoFault' /\ ReadyInv'
    BY <1>1, <1>3, <2>1, <2>4 DEF TypeOK, Places, NoFault, ReadyInv, waiterVars, dispatchVars,
       WaiterTypeOK, DispatchTypeOK
  <2>6. MutualExclusion' /\ SpinInv'
    BY <1>1, <1>3, <2>2 DEF TypeOK, MutualExclusion, Owning, SpinInv, Spinning
  <2>7. ListInv' /\ WaitInv' /\ WaiterInv' /\ WokenInv'
    BY <1>1, <1>3, <2>1, <2>3 DEF TypeOK, ListInv, WaitInv, WaiterInv, WokenInv,
       OnList, waiterVars, dispatchVars
  <2>8. ParkedInv' /\ UnparkInv'
    BY <1>1, <1>3, <2>1, <2>2, <2>3 DEF TypeOK, ParkedInv, UnparkInv, OnList, waiterVars,
       dispatchVars
  <2>9. CountInv'
    BY <1>3, <2>4 DEF CountInv, TypeOK
  <2> QED
    BY <2>5, <2>6, <2>7, <2>8, <2>9
<1> QED
  BY <1>1, <1>2, <1>3 DEF LockRespin, Fewer

(* The test of lock's loop: the mutex is taken, or the caller put on the list. *)
LEMMA LockLookKeeps ==
  ASSUME IInv, NEW c \in Task, LockLook(c)
  PROVE  IInv'
<1> USE DEF IInv, At, Goto, Running
<1>1. /\ current = c /\ pc[c] = "look" /\ spin = c /\ spin' = NULL
      /\ run_state[c] = "RUNNING"
      /\ UNCHANGED <<waiterVars, taken>>
  BY RunnerEffect DEF LockLook, SpinInv, Spinning
<1>2. \A t \in Task \ {c} : pc[t] \notin {"look", "free", "unpark", "wake", "leave"}
  BY <1>1 DEF SpinInv, Spinning
<1>3. ~ OnList(c) /\ \A i \in DOMAIN waitqueue : waitqueue[i] \in Task \ {c}
  BY <1>1, ElementOfSeq, LenProperties DEF OnList, ListInv, TypeOK
<1>4. waiter[c] = NULL
  BY <1>1, NullAssumption DEF WaiterInv
<1>5. CASE owner # NULL
  <2>1. /\ waiting' = waiting + 1
        /\ waitqueue' = Append(waitqueue, c)
        /\ pc' = [pc EXCEPT ![c] = "park"]
        /\ UNCHANGED owner
    BY <1>5 DEF LockLook, MustWait
  <2>2. /\ waitqueue' \in Seq(Task)
        /\ waitqueue' # <<>>
        /\ DOMAIN waitqueue' = DOMAIN waitqueue \cup {Len(waitqueue) + 1}
        /\ \A i \in DOMAIN waitqueue : waitqueue'[i] = waitqueue[i]
        /\ waitqueue'[Len(waitqueue) + 1] = c
    BY <2>1, AppendEffect DEF TypeOK
  <2>3. TypeOK' /\ NoFault' /\ ReadyInv'
    BY <1>1, <2>1, <2>2 DEF TypeOK, Places, NoFault, ReadyInv, waiterVars, dispatchVars,
       WaiterTypeOK, DispatchTypeOK
  <2>4. MutualExclusion' /\ SpinInv'
    BY <1>1, <1>2, <2>1, NullAssumption DEF TypeOK, MutualExclusion, Owning, SpinInv, Spinning
  <2>5. pc'[c] = "park" /\ \A t \in Task \ {c} : pc'[t] = pc[t]
    BY <2>1 DEF TypeOK
  <2>6. ListInv' /\ WaitInv'
    BY <1>1, <1>3, <2>2, <2>5 DEF ListInv, WaitInv, OnList, waiterVars, dispatchVars
  <2>7. WaiterInv' /\ WokenInv'
    BY <1>1, <1>4, <1>5, <2>1, <2>5 DEF WaiterInv, WokenInv, waiterVars, dispatchVars
  <2>8. ParkedInv'
    BY <1>1, <1>2, <1>3, <2>2, <2>5 DEF ParkedInv, waiterVars, dispatchVars
  <2>9. UnparkInv'
    BY <1>1, <1>2, <2>5 DEF UnparkInv
  <2>10. Cardinality({t \in Task : Counted(t)'}) = Cardinality({t \in Task : Counted(t)}) + 1
    <3>1. /\ \A t \in Task \ {c} : Counted(t)' <=> Counted(t)
          /\ ~ Counted(c) /\ Counted(c)'
      BY <1>1, <2>5 DEF Counted
    <3> QED
      BY <3>1, CountEffect
  <2>11. CountInv'
    BY <1>5, <2>1, <2>10 DEF CountInv, TypeOK
  <2> QED
    BY <2>3, <2>4, <2>6, <2>7, <2>8, <2>9, <2>11
<1>6. CASE owner = NULL
  <2>1. /\ owner' = c
        /\ pc' = [pc EXCEPT ![c] = "crit"]
        /\ UNCHANGED <<waitqueue, waiting>>
    BY <1>6 DEF LockLook, MustWait
  <2>2. TypeOK' /\ NoFault' /\ ReadyInv'
    BY <1>1, <2>1 DEF TypeOK, Places, NoFault, ReadyInv, waiterVars, dispatchVars,
       WaiterTypeOK, DispatchTypeOK
  <2>3. MutualExclusion' /\ SpinInv'
    BY <1>1, <1>2, <1>6, <2>1, NullAssumption
    DEF TypeOK, MutualExclusion, Owning, SpinInv, Spinning
  <2>4. ListInv' /\ WaitInv' /\ WaiterInv' /\ WokenInv'
    BY <1>1, <1>3, <2>1, NullAssumption
    DEF TypeOK, ListInv, WaitInv, WaiterInv, WokenInv, OnList, waiterVars, dispatchVars
  <2>5. ParkedInv' /\ UnparkInv'
    BY <1>1, <1>2, <1>3, <2>1 DEF TypeOK, ParkedInv, UnparkInv, waiterVars, dispatchVars
  <2>6. \A t \in Task : Counted(t)' <=> Counted(t)
    BY <1>1, <2>1 DEF Counted, TypeOK
  <2>7. Cardinality({t \in Task : Counted(t)'}) = Cardinality({t \in Task : Counted(t)})
    BY <2>6
  <2>8. CountInv'
    BY <2>1, <2>7 DEF CountInv
  <2> QED
    BY <2>2, <2>3, <2>4, <2>5, <2>8
<1> QED
  BY <1>5, <1>6

(* park claims the waiter, which is free. *)
LEMMA LockParkKeeps ==
  ASSUME IInv, NEW c \in Task, LockPark(c)
  PROVE  IInv'
<1> USE DEF IInv, At, Goto, Running
<1>1. current = c /\ pc[c] = "park" /\ run_state[c] = "RUNNING" /\ waiter[c] = NULL
  BY RunnerEffect, NullAssumption DEF LockPark, WaiterInv
<1>2. /\ waiter' = [waiter EXCEPT ![c] = c]
      /\ pc' = [pc EXCEPT ![c] = "wait"]
      /\ UNCHANGED <<dispatchVars, fault, mutexVars>>
  BY <1>1 DEF LockPark, CanPark, Claim
<1>3. pc'[c] = "wait" /\ \A t \in Task \ {c} : pc'[t] = pc[t]
  BY <1>2 DEF TypeOK
<1>4. TypeOK' /\ NoFault' /\ ReadyInv'
  BY <1>1, <1>2, SlotAssumption DEF TypeOK, Places, NoFault, ReadyInv, dispatchVars, mutexVars,
     WaiterTypeOK, DispatchTypeOK
<1>5. MutualExclusion' /\ SpinInv'
  BY <1>1, <1>2, <1>3 DEF MutualExclusion, Owning, SpinInv, Spinning, mutexVars
<1>6. ListInv' /\ WaitInv' /\ WokenInv'
  BY <1>1, <1>2, <1>3 DEF ListInv, WaitInv, WokenInv, OnList, dispatchVars, mutexVars
<1>7. WaiterInv'
  BY <1>1, <1>2, <1>3, SlotAssumption
  DEF WaiterInv, dispatchVars, TypeOK, WaiterTypeOK
<1>8. ParkedInv' /\ UnparkInv'
  BY <1>1, <1>2, <1>3 DEF ParkedInv, UnparkInv, dispatchVars, mutexVars
<1>9. \A t \in Task : Counted(t)' <=> Counted(t)
  BY <1>1, <1>3 DEF Counted
<1>10. CountInv'
  BY <1>2, <1>9 DEF CountInv, mutexVars
<1> QED
  BY <1>4, <1>5, <1>6, <1>7, <1>8, <1>10

(* park sets its caller WAITING. *)
LEMMA LockWaitKeeps ==
  ASSUME IInv, NEW c \in Task, LockWait(c)
  PROVE  IInv'
<1> USE DEF IInv, At, Goto, Running
<1>1. current = c /\ pc[c] = "wait" /\ run_state[c] = "RUNNING" /\ OnList(c)
  BY RunnerEffect DEF LockWait, ListInv
<1>2. /\ run_state' = [run_state EXCEPT ![c] = "WAITING"]
      /\ pc' = [pc EXCEPT ![c] = "sleep"]
      /\ UNCHANGED <<current, no_preempt_flag, ready, waiter, fault, mutexVars>>
  BY DEF LockWait, Wait
<1>3. /\ pc'[c] = "sleep" /\ \A t \in Task \ {c} : pc'[t] = pc[t]
      /\ run_state'[c] = "WAITING" /\ \A t \in Task \ {c} : run_state'[t] = run_state[t]
  BY <1>2 DEF TypeOK, WaiterTypeOK, DispatchTypeOK
<1>4. TypeOK' /\ NoFault'
  BY <1>1, <1>2 DEF TypeOK, Places, NoFault, mutexVars, WaiterTypeOK, DispatchTypeOK, RunStates
<1>5. ReadyInv'
  BY <1>1, <1>2, <1>3 DEF ReadyInv
<1>6. MutualExclusion' /\ SpinInv'
  BY <1>1, <1>2, <1>3 DEF MutualExclusion, Owning, SpinInv, Spinning, mutexVars
<1>7. ListInv' /\ WaitInv' /\ WokenInv' /\ WaiterInv'
  BY <1>1, <1>2, <1>3 DEF ListInv, WaitInv, WokenInv, WaiterInv, OnList, mutexVars
<1>8. ParkedInv' /\ UnparkInv'
  BY <1>1, <1>2, <1>3 DEF ParkedInv, UnparkInv, mutexVars
<1>9. \A t \in Task : Counted(t)' <=> Counted(t)
  BY <1>1, <1>3 DEF Counted
<1>10. CountInv'
  BY <1>2, <1>9 DEF CountInv, mutexVars
<1> QED
  BY <1>4, <1>5, <1>6, <1>7, <1>8, <1>10

(* park's yield, and the last one of unlock. *)
LEMMA YieldOnKeeps ==
  ASSUME IInv, NEW c \in Task, LockSleep(c) \/ UnlockBye(c)
  PROVE  IInv'
<1> USE DEF IInv, At, Goto, Running
<1>1. /\ current = c /\ YieldNow(c) /\ UNCHANGED mutexVars
      /\ \/ pc[c] = "sleep" /\ pc' = [pc EXCEPT ![c] = "respin"]
         \/ pc[c] = "bye" /\ pc' = [pc EXCEPT ![c] = "idle"]
  BY DEF LockSleep, UnlockBye
<1>2. /\ \/ pc[c] = "sleep" /\ pc'[c] = "respin"
         \/ pc[c] = "bye" /\ pc'[c] = "idle"
      /\ \A t \in Task \ {c} : pc'[t] = pc[t]
  BY <1>1 DEF TypeOK
<1>3. /\ WaiterTypeOK'
      /\ ReadyInv'
      /\ waiter' = waiter
      /\ fault' = fault
      /\ \A t \in Task : run_state'[t] = "WAITING" <=> run_state[t] = "WAITING"
  BY <1>1, SomebodyRuns, YieldEffect
<1>4. TypeOK' /\ NoFault'
  BY <1>1, <1>3 DEF TypeOK, Places, NoFault, mutexVars
<1>5. MutualExclusion' /\ SpinInv'
  BY <1>1, <1>2 DEF MutualExclusion, Owning, SpinInv, Spinning, mutexVars
<1>6. ListInv' /\ WaitInv' /\ WokenInv' /\ WaiterInv'
  BY <1>1, <1>2, <1>3, ListElements
  DEF ListInv, WaitInv, WokenInv, WaiterInv, OnList, mutexVars
<1>8. ParkedInv'
  BY <1>1, <1>2, <1>3, ListElements DEF ParkedInv, mutexVars
<1>10. UnparkInv'
  BY <1>1, <1>2, <1>3, ListElements DEF UnparkInv, mutexVars
<1>11. \A t \in Task : Counted(t)' <=> Counted(t)
  BY <1>1, <1>2 DEF Counted
<1>12. CountInv'
  BY <1>1, <1>11 DEF CountInv, mutexVars
<1> QED
  BY <1>3, <1>4, <1>5, <1>6, <1>8, <1>10, <1>12

(* unlock's fast path, and its decision for the slow one. *)
LEMMA UnlockFreeKeeps ==
  ASSUME IInv, NEW c \in Task, UnlockFree(c)
  PROVE  IInv'
<1> USE DEF IInv, At, Goto, Running
<1>1. current = c /\ pc[c] = "free" /\ run_state[c] = "RUNNING" /\ spin = c /\ owner = c
  BY RunnerEffect DEF UnlockFree, SpinInv, Spinning, MutualExclusion, Owning
<1>2. UNCHANGED <<waiterVars, waitqueue, waiting, taken>>
  BY DEF UnlockFree
<1>3. \A t \in Task \ {c} : ~ Owning(t) /\ ~ Spinning(t)
  BY <1>1 DEF SpinInv, MutualExclusion
<1>4. \/ /\ waitqueue = <<>> /\ owner' = NULL /\ spin' = NULL
         /\ pc' = [pc EXCEPT ![c] = "idle"]
      \/ /\ waitqueue # <<>>
         /\ pc' = [pc EXCEPT ![c] = "unpark"]
         /\ UNCHANGED <<owner, spin>>
  BY DEF UnlockFree, NobodyWaits
<1>5. /\ \/ waitqueue = <<>> /\ pc'[c] = "idle"
         \/ waitqueue # <<>> /\ pc'[c] = "unpark"
      /\ \A t \in Task \ {c} : pc'[t] = pc[t]
  BY <1>4 DEF TypeOK
<1>6. TypeOK' /\ NoFault' /\ ReadyInv'
  <2>1. pc' \in [Task -> Places] /\ owner' \in Task \cup {NULL} /\ spin' \in Task \cup {NULL}
    BY <1>4 DEF TypeOK, Places
  <2> QED
    BY <1>1, <1>2, <2>1 DEF TypeOK, NoFault, ReadyInv, waiterVars, dispatchVars,
       WaiterTypeOK, DispatchTypeOK
<1>7. MutualExclusion' /\ SpinInv'
  BY <1>1, <1>3, <1>4, <1>5, NullAssumption DEF MutualExclusion, Owning, SpinInv, Spinning
<1>8. ListInv' /\ WaitInv' /\ WokenInv' /\ WaiterInv'
  BY <1>1, <1>2, <1>4, <1>5, ListElements
  DEF ListInv, WaitInv, WokenInv, WaiterInv, OnList, waiterVars, dispatchVars
<1>9. ParkedInv' /\ UnparkInv'
  BY <1>1, <1>2, <1>5, ListElements DEF ParkedInv, UnparkInv, waiterVars, dispatchVars
<1>10. \A t \in Task : Counted(t)' <=> Counted(t)
  BY <1>1, <1>5 DEF Counted
<1>11. CountInv'
  BY <1>2, <1>4, <1>10 DEF CountInv
<1> QED
  BY <1>6, <1>7, <1>8, <1>9, <1>11

(* unpark takes the head of the list out of its waiter, or finds it not parked yet. *)
LEMMA UnlockUnparkKeeps ==
  ASSUME IInv, NEW c \in Task, UnlockUnpark(c)
  PROVE  IInv'
<1> USE DEF IInv, At, Goto, Running
<1> DEFINE h == Head(waitqueue)
<1>1. /\ current = c /\ pc[c] = "unpark" /\ run_state[c] = "RUNNING"
      /\ spin = c /\ waitqueue # <<>> /\ h \in Task
  BY RunnerEffect, ListElements DEF UnlockUnpark, UnparkInv, SpinInv, Spinning
<1>2. CASE ~ IsParked(h)
  <2>1. YieldNow(c) /\ pc' = [pc EXCEPT ![c] = "unpark"] /\ UNCHANGED mutexVars
    BY <1>2 DEF UnlockUnpark, AfterMiss, mutexVars
  <2>2. pc' = pc
    BY <1>1, <2>1 DEF TypeOK
  <2> QED
    BY <1>1, <2>1, <2>2, YieldKeeps
<1>3. CASE IsParked(h)
  <2>1. waiter[h] = h /\ run_state[h] = "WAITING" /\ h # c
    BY <1>1, <1>3 DEF IsParked, WaiterInv
  <2>2. /\ waiter' = [waiter EXCEPT ![h] = NULL]
        /\ taken' = [taken EXCEPT ![c] = h]
        /\ pc' = [pc EXCEPT ![c] = "wake"]
        /\ UNCHANGED <<dispatchVars, fault, spin, owner, waitqueue, waiting>>
    BY <1>3, <2>1 DEF UnlockUnpark, TakeOut, Unclaim
  <2>3. /\ pc'[c] = "wake" /\ \A t \in Task \ {c} : pc'[t] = pc[t]
        /\ taken'[c] = h /\ waiter'[h] = NULL
    BY <1>1, <2>2, SlotAssumption DEF TypeOK, WaiterTypeOK
  <2> HIDE DEF h
  <2>4. TypeOK' /\ NoFault' /\ ReadyInv'
    BY <1>1, <2>2, SlotAssumption DEF TypeOK, Places, NoFault, ReadyInv, dispatchVars,
       WaiterTypeOK, DispatchTypeOK
  <2>5. MutualExclusion' /\ SpinInv'
    BY <1>1, <2>2, <2>3 DEF MutualExclusion, Owning, SpinInv, Spinning
  <2>6. ListInv' /\ WaitInv' /\ WokenInv'
    BY <1>1, <2>2, <2>3, ListElements DEF ListInv, WaitInv, WokenInv, OnList, dispatchVars
  <2>7. WaiterInv'
    BY <1>1, <2>2, <2>3, SlotAssumption DEF WaiterInv, dispatchVars, TypeOK, WaiterTypeOK
  <2>8. ParkedInv'
    BY <1>1, <2>2, <2>3, ListElements DEF ParkedInv, dispatchVars
  <2>9. \A u \in Task \ {c} : pc[u] \notin {"unpark", "wake", "leave"}
    BY <1>1 DEF SpinInv, Spinning
  <2>10. UnparkInv'
    BY <1>1, <2>1, <2>2, <2>3, <2>9 DEF UnparkInv, dispatchVars, h
  <2>11. \A t \in Task : Counted(t)' <=> Counted(t)
    BY <1>1, <2>3 DEF Counted
  <2>12. CountInv'
    BY <2>2, <2>11 DEF CountInv
  <2> QED
    BY <2>4, <2>5, <2>6, <2>7, <2>8, <2>10, <2>12
<1> QED
  BY <1>2, <1>3

(* unpark puts the task it took out on the run queue. *)
LEMMA UnlockWakeKeeps ==
  ASSUME IInv, NEW c \in Task, UnlockWake(c)
  PROVE  IInv'
<1> USE DEF IInv, At, Goto, Running
<1> DEFINE h == Head(waitqueue)
<1>1. /\ current = c /\ pc[c] = "wake" /\ run_state[c] = "RUNNING"
      /\ spin = c /\ waitqueue # <<>> /\ h \in Task
      /\ taken[c] = h /\ run_state[h] = "WAITING" /\ h # c /\ waiter[h] = NULL
  BY RunnerEffect, ListElements DEF UnlockWake, UnparkInv, SpinInv, Spinning
<1>2. /\ run_state' = [run_state EXCEPT ![h] = "SUSPENDED"]
      /\ ready' = [ready EXCEPT ![h] = @ + 1]
      /\ pc' = [pc EXCEPT ![c] = "leave"]
      /\ UNCHANGED <<current, no_preempt_flag, waiter, fault, mutexVars>>
  BY <1>1 DEF UnlockWake, Resume, Push
<1>3. pc[h] \in {"sleep", "respin"}
  BY <1>1 DEF WaitInv
<1> HIDE DEF h
<1>4. /\ pc'[c] = "leave" /\ \A t \in Task \ {c} : pc'[t] = pc[t]
      /\ run_state'[h] = "SUSPENDED"
      /\ \A t \in Task \ {h} : run_state'[t] = run_state[t] /\ ready'[t] = ready[t]
  BY <1>1, <1>2 DEF TypeOK, WaiterTypeOK, DispatchTypeOK
<1>5. ready[h] = 0 /\ ready \in [Task -> Nat]
  BY <1>1 DEF ReadyInv, TypeOK, WaiterTypeOK, DispatchTypeOK
<1>15. ready'[h] = 1 /\ ready' \in [Task -> Nat]
  <2>1. ready' = [ready EXCEPT ![h] = ready[h] + 1]
    BY <1>2
  <2> QED
    BY <1>1, <1>5, <2>1
<1>6. TypeOK' /\ NoFault'
    BY <1>1, <1>2, <1>15 DEF TypeOK, Places, NoFault, mutexVars, WaiterTypeOK, DispatchTypeOK,
       RunStates
<1>7. ReadyInv'
  BY <1>1, <1>2, <1>4, <1>15 DEF ReadyInv
<1>8. MutualExclusion' /\ SpinInv'
  BY <1>1, <1>2, <1>4 DEF MutualExclusion, Owning, SpinInv, Spinning, mutexVars
<1>9. ListInv' /\ WaitInv' /\ WokenInv' /\ WaiterInv'
  <2>1. ListInv' /\ WaitInv'
    BY <1>1, <1>2, <1>3, <1>4, ListElements DEF ListInv, WaitInv, OnList, mutexVars
  <2>2. WokenInv'
    BY <1>1, <1>2, <1>4 DEF WokenInv, OnList, mutexVars
  <2>3. WaiterInv'
    BY <1>1, <1>2, <1>4, NullAssumption DEF WaiterInv
  <2> QED
    BY <2>1, <2>2, <2>3
<1>10. ParkedInv'
  <2>1. 1 \in DOMAIN waitqueue /\ waitqueue[1] = h
    BY <1>1, TailEffect DEF TypeOK, h
  <2> QED
    BY <1>1, <1>2, <1>4, <2>1, ListElements DEF ParkedInv, ListInv, mutexVars
<1>11. \A u \in Task \ {c} : pc[u] \notin {"unpark", "wake", "leave"}
  BY <1>1 DEF SpinInv, Spinning
<1>12. UnparkInv'
  BY <1>1, <1>2, <1>3, <1>4, <1>11 DEF UnparkInv, mutexVars, h
<1>13. \A t \in Task : Counted(t)' <=> Counted(t)
  BY <1>1, <1>4 DEF Counted
<1>14. CountInv'
  BY <1>2, <1>13 DEF CountInv, mutexVars
<1> QED
  BY <1>6, <1>7, <1>8, <1>9, <1>10, <1>12, <1>14

(* unlock drops the waiter it has unparked, and gives the mutex up. *)
LEMMA UnlockLeaveKeeps ==
  ASSUME IInv, NEW c \in Task, UnlockLeave(c)
  PROVE  IInv'
<1> USE DEF IInv, At, Goto, Running
<1>16. PICK h \in Task : waitqueue # <<>> /\ h = Head(waitqueue)
  BY ListElements DEF UnlockLeave, UnparkInv
<1>1. /\ current = c /\ pc[c] = "leave" /\ run_state[c] = "RUNNING"
      /\ spin = c /\ owner = c
      /\ pc[h] \in {"sleep", "respin"} /\ run_state[h] # "WAITING" /\ h # c
  BY <1>16, RunnerEffect
  DEF UnlockLeave, UnparkInv, SpinInv, Spinning, MutualExclusion, Owning
<1>2. /\ waitqueue' = Tail(waitqueue)
      /\ owner' = NULL /\ spin' = NULL
      /\ taken' = [taken EXCEPT ![c] = NULL]
      /\ pc' = [pc EXCEPT ![c] = "bye"]
      /\ UNCHANGED <<waiterVars, waiting>>
  BY DEF UnlockLeave
<1>3. /\ waitqueue' \in Seq(Task)
      /\ 1 \in DOMAIN waitqueue /\ waitqueue[1] = h
      /\ \A i \in DOMAIN waitqueue' :
           i + 1 \in DOMAIN waitqueue /\ waitqueue'[i] = waitqueue[i + 1] /\ i \in Nat \ {0}
      /\ \A i \in DOMAIN waitqueue :
           i = 1 \/ (i - 1 \in DOMAIN waitqueue' /\ waitqueue'[i - 1] = waitqueue[i])
  BY <1>2, <1>16, TailEffect DEF TypeOK
<1>4. /\ pc'[c] = "bye" /\ \A t \in Task \ {c} : pc'[t] = pc[t]
      /\ \A t \in Task \ {c} : ~ Owning(t) /\ ~ Spinning(t)
  BY <1>1, <1>2 DEF TypeOK, MutualExclusion, SpinInv
<1>5. DOMAIN waitqueue \subseteq Nat
  BY LenProperties DEF TypeOK
<1>6. ~ OnList(h)' /\ \A t \in Task \ {h} : OnList(t)' <=> OnList(t)
  <2>1. ~ OnList(h)'
    BY <1>1, <1>3, <1>5 DEF OnList, ListInv
  <2>2. ASSUME NEW t \in Task \ {h} PROVE OnList(t)' <=> OnList(t)
    BY <1>3 DEF OnList
  <2> QED
    BY <2>1, <2>2
<1>7. TypeOK' /\ NoFault' /\ ReadyInv'
  BY <1>1, <1>2, <1>3 DEF TypeOK, Places, NoFault, ReadyInv, waiterVars, dispatchVars,
     WaiterTypeOK, DispatchTypeOK
<1>8. MutualExclusion' /\ SpinInv'
  BY <1>1, <1>2, <1>4, NullAssumption DEF MutualExclusion, Owning, SpinInv, Spinning
<1>9. ListInv'
  <2>1. \A i, j \in DOMAIN waitqueue' : waitqueue'[i] = waitqueue'[j] => i = j
    BY <1>3 DEF ListInv
  <2>2. \A i \in DOMAIN waitqueue' : pc'[waitqueue'[i]] \in {"park", "wait", "sleep", "respin"}
    BY <1>1, <1>3, <1>4, ListElements DEF ListInv
  <2>3. \A t \in Task : pc'[t] \in {"park", "wait"} => OnList(t)'
    BY <1>1, <1>4, <1>6 DEF ListInv
  <2> QED
    BY <2>1, <2>2, <2>3 DEF ListInv
<1>10. WaitInv' /\ WaiterInv' /\ WokenInv'
  <2>1. WaitInv'
    BY <1>1, <1>2, <1>4, <1>6 DEF WaitInv, waiterVars, dispatchVars
  <2>2. WaiterInv'
    BY <1>1, <1>2, <1>4 DEF WaiterInv, waiterVars, dispatchVars
  <2>3. WokenInv'
    BY <1>1, <1>4, <1>6 DEF WokenInv
  <2> QED
    BY <2>1, <2>2, <2>3
<1>11. ParkedInv'
  BY <1>1, <1>2, <1>3, <1>4, ListElements DEF ParkedInv, waiterVars, dispatchVars
<1>12. UnparkInv'
  BY <1>1, <1>4 DEF UnparkInv, Spinning
<1>13. \A t \in Task : Counted(t)' <=> Counted(t)
  BY <1>1, <1>4 DEF Counted
<1>14. CountInv'
  BY <1>2, <1>13 DEF CountInv
<1> QED
  BY <1>7, <1>8, <1>9, <1>10, <1>11, <1>12, <1>14

-----------------------------------------------------------------------------
LEMMA InitInv == Init => IInv
<1> SUFFICES ASSUME Init PROVE IInv
  OBVIOUS
<1> USE DEF Init
<1>1. TypeOK /\ NoFault /\ ReadyInv
  BY SlotAssumption
  DEF TypeOK, WaiterTypeOK, DispatchTypeOK, RunStates, Places, NoFault, ReadyInv
<1>2. MutualExclusion /\ SpinInv /\ ListInv /\ WaitInv /\ ParkedInv /\ UnparkInv
      /\ WaiterInv /\ WokenInv
  BY NullAssumption DEF MutualExclusion, Owning, SpinInv, Spinning, ListInv, WaitInv,
     ParkedInv, UnparkInv, WaiterInv, WokenInv
<1>3. {t \in Task : Counted(t)} = {}
  BY DEF Counted
<1>4. CountInv
  BY <1>3, FS_EmptySet DEF CountInv
<1> QED
  BY <1>1, <1>2, <1>4 DEF IInv

LEMMA NextInv == IInv /\ [Next]_vars => IInv'
<1> SUFFICES ASSUME IInv, [Next]_vars PROVE IInv'
  OBVIOUS
<1>1. CASE Tick
  BY <1>1, YieldKeeps DEF Tick, IInv, TypeOK, WaiterTypeOK, DispatchTypeOK
<1>2. ASSUME NEW c \in Task, TaskStep(c) PROVE IInv'
  BY <1>2, StartKeeps, SpinKeeps, LockLookKeeps, LockParkKeeps, LockWaitKeeps, YieldOnKeeps,
     LockRespinKeeps, UnlockFreeKeeps, UnlockUnparkKeeps, UnlockWakeKeeps, UnlockLeaveKeeps
  DEF TaskStep
<1>3. CASE UNCHANGED vars
  BY <1>3 DEF vars, waiterVars, dispatchVars, mutexVars, IInv, TypeOK, WaiterTypeOK,
     DispatchTypeOK, NoFault, MutualExclusion, Owning, SpinInv, Spinning, ListInv, OnList,
     WaitInv, ParkedInv, UnparkInv, WaiterInv, ReadyInv, WokenInv, CountInv, Counted
<1> QED
  BY <1>1, <1>2, <1>3 DEF Next

(* The inductive invariant holds, whatever is preempted where. *)
THEOREM Invariant == Spec => []IInv
BY InitInv, NextInv, PTL DEF Spec

(***************************************************************************)
(* Every variable keeps its type (the state of mutex, waiter and task).    *)
(***************************************************************************)
THEOREM TypeCorrect == Spec => []TypeOK
BY Invariant, PTL DEF IInv

(***************************************************************************)
(* At most one task has the mutex, and it is the one that _owner names,    *)
(* from the assignment in lock to its clearing in unlock.                  *)
(***************************************************************************)
THEOREM MutualExclusionAlways == Spec => []MutualExclusion
BY Invariant, PTL DEF IInv

(***************************************************************************)
(* Neither an assertion of lock, park or unpark fails nor does a yield in  *)
(* them ever find the run queue empty.                                     *)
(***************************************************************************)
THEOREM NoFaultAlways == Spec => []NoFault
BY Invariant, PTL DEF IInv

(***************************************************************************)
(* unlock frees a waiter only when its task's park is done with it.        *)
(***************************************************************************)
THEOREM WaiterOutlivesParkAlways == Spec => []WaiterOutlivesPark
<1>1. IInv => WaiterOutlivesPark
  BY DEF IInv, ListInv, OnList, WaiterOutlivesPark
<1> QED
  BY <1>1, Invariant, PTL

(***************************************************************************)
(* _priority_boost is the number of tasks in lock's slow path, and the     *)
(* list has no other task and none twice, however the steps of lock and    *)
(* unlock fall between each other.                                         *)
(***************************************************************************)
THEOREM WaitersCountedAlways == Spec => []WaitersCounted
<1>1. IInv => WaitersCounted
  BY DEF IInv, CountInv, ListInv, WaitersCounted, Counted, OnList, IsInjective
<1> QED
  BY <1>1, Invariant, PTL

(***************************************************************************)
(* While a task is on the wait list, the owner or a task that was woken    *)
(* and can run is on the way to the next unlock.                           *)
(***************************************************************************)
THEOREM NoLostWakeupAlways == Spec => []NoLostWakeup
<1>1. IInv => NoLostWakeup
  <2> SUFFICES ASSUME IInv, waitqueue # <<>>
               PROVE  \E t \in Task :
                        \/ Owning(t)
                        \/ /\ pc[t] \in {"sleep", "respin", "look"}
                           /\ run_state[t] # "WAITING"
                           /\ t = current \/ ready[t] > 0
    BY DEF NoLostWakeup
  <2>1. CASE owner # NULL
    BY <2>1 DEF IInv, TypeOK, MutualExclusion
  <2>2. ASSUME NEW t \in Task, pc[t] \in {"sleep", "respin", "look"}, ~ OnList(t)
        PROVE  run_state[t] # "WAITING" /\ (t = current \/ ready[t] > 0)
    <3>1. run_state[t] # "WAITING"
      BY <2>2 DEF IInv, WaitInv
    <3>2. t # current => ready[t] = 1
      BY <3>1 DEF IInv, ReadyInv
    <3> QED
      BY <3>1, <3>2
  <2> QED
    BY <2>1, <2>2 DEF IInv, WokenInv
<1> QED
  BY <1>1, Invariant, PTL
=============================================================================
