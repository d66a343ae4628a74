------------------------------ MODULE RqProofs ------------------------------
(***************************************************************************)
(* Proofs about module Rq, for any number of tasks, any lengths of bursts  *)
(* and of sleeps: type correctness, the pace that the scheduler keeps, and *)
(* that the ordered queues implement module RunBag.                        *)
(***************************************************************************)
EXTENDS Rq, TLAPS, SequenceTheorems, FiniteSetTheorems, WellFoundedInduction

-----------------------------------------------------------------------------
(* The inductive invariant *)

Entry == [ripe : Nat, t : Task]

(* Nobody sleeps twice. *)
Distinct(s) == \A i, j \in DOMAIN s : s[i].t = s[j].t => i = j

SleepInv == sleepq \in Seq(Entry) /\ Distinct(sleepq)

(* Everybody is in one place at most: current, queued once, or asleep. *)
PlaceInv ==
  /\ run_state[current] \in {"RUNNING", "WAITING"}
  /\ ready[current] = 0
  /\ current \notin Sleepers(sleepq)
  /\ \A t \in Task :
       /\ ready[t] \in {0, 1}
       /\ t \in Sleepers(sleepq) => ready[t] = 0
       /\ run_state[t] = "STOPPED" => ready[t] = 0 /\ t \notin Sleepers(sleepq)

(* A task that was runnable ever since its spawn runs with the least virtual
   run time that is due, or is on the run queue with no less. *)
PaceInv ==
  \A t \in Task \ rested :
    run_state[t] # "STOPPED" =>
      IF t = current THEN run_state[t] = "RUNNING" /\ vruntime[t] = min_vruntime
                     ELSE ready[t] = 1

IInv == TypeOK /\ SleepInv /\ PlaceInv /\ PaceInv /\ KeepsPace

-----------------------------------------------------------------------------
(* Lemmas about numbers, orders and queues *)

(* A set of natural numbers that is not empty has a least element. *)
LEMMA LeastNat ==
  ASSUME NEW S, S \subseteq Nat, S # {}
  PROVE  \E x \in S : \A y \in S : x <= y
<1>1. \E x \in S : \A y \in S : ~ (<<y, x>> \in OpToRel(<, Nat))
  BY NatLessThanWellFounded, WFMin
<1>2. PICK x \in S : \A y \in S : ~ (<<y, x>> \in OpToRel(<, Nat))
  BY <1>1
<1>3. \A y \in S : ~ (y < x)
  BY <1>2 DEF OpToRel
<1> QED
  BY <1>3

(* A longer burst is cut to no fewer microseconds. *)
LEMMA DivMono ==
  ASSUME NEW u \in Nat \ {0}, NEW a \in Nat, NEW b \in Nat, a <= b
  PROVE  /\ a \div u \in Nat
         /\ b \div u \in Nat
         /\ a \div u <= b \div u
  BY Z3

(* _runqueue.begin() of a queue that is not empty is in it, and nobody on it
   has less virtual run time: time_ordered_compare is a total order. *)
LEMMA FirstIsLeast ==
  ASSUME NEW vr \in [Task -> Nat], NEW q, Queued(q) # {}
  PROVE  /\ First(vr, q) \in Queued(q)
         /\ \A u \in Queued(q) : vr[First(vr, q)] <= vr[u]
<1> USE TaskAssumption
<1> DEFINE V == {vr[t] : t \in Queued(q)}
<1>1. PICK v \in V : \A x \in V : v <= x
  <2>1. V \subseteq Nat /\ V # {}
    BY DEF Queued
  <2> QED
    BY <2>1, LeastNat
<1> DEFINE A == {t \in Queued(q) : vr[t] = v}
<1>2. PICK a \in A : \A x \in A : a <= x
  <2>1. A \subseteq Nat /\ A # {}
    BY <1>1 DEF Queued
  <2> QED
    BY <2>1, LeastNat
<1>3. \A u \in Queued(q) : Before(vr, a, u)
  <2> SUFFICES ASSUME NEW u \in Queued(q) PROVE Before(vr, a, u)
    OBVIOUS
  <2>1. vr[a] = v /\ v <= vr[u] /\ a \in Nat /\ u \in Nat /\ vr[u] \in Nat /\ v \in Nat
    BY <1>1, <1>2 DEF Queued
  <2>2. vr[u] = v => a <= u
    BY <1>2
  <2> QED
    BY <2>1, <2>2 DEF Before
<1>4. a \in Queued(q)
  BY <1>2
<1>5. /\ First(vr, q) \in Queued(q)
      /\ \A u \in Queued(q) : Before(vr, First(vr, q), u)
  BY <1>3, <1>4 DEF First
<1>6. \A t, u \in Queued(q) : Before(vr, t, u) => vr[t] <= vr[u]
  BY DEF Before, Queued
<1> QED
  BY <1>5, <1>6

(* A push on the sleep queue adds one sleeper. *)
LEMMA SleepPushAdds ==
  ASSUME NEW s \in Seq(Entry), NEW x \in Nat, NEW c \in Task,
         Distinct(s), c \notin Sleepers(s)
  PROVE  /\ SleepPush(s, x, c) \in Seq(Entry)
         /\ SleepPush(s, x, c) # <<>>
         /\ Distinct(SleepPush(s, x, c))
         /\ Sleepers(SleepPush(s, x, c)) = Sleepers(s) \cup {c}
<1> DEFINE K == {i \in DOMAIN s : s[i].ripe <= x}
           k == Cardinality(K)
           e == [ripe |-> x, t |-> c]
           p == SubSeq(s, 1, k) \o <<e>> \o SubSeq(s, k + 1, Len(s))
<1>1. k \in 0..Len(s)
  <2>1. DOMAIN s = 1..Len(s) /\ Len(s) \in Nat
    OBVIOUS
  <2>2. IsFiniteSet(1..Len(s)) /\ Cardinality(1..Len(s)) = Len(s)
    BY <2>1, FS_Interval, 1 \in Int, Len(s) \in Int
  <2>3. IsFiniteSet(K) /\ k <= Len(s)
    <3>1. K \subseteq 1..Len(s)
      BY <2>1
    <3> HIDE DEF K
    <3> QED
      BY <2>2, <3>1, FS_Subset
  <2>4. k \in Nat
    BY <2>3, FS_CardinalityType
  <2> QED
    BY <2>1, <2>3, <2>4
<1>2. SleepPush(s, x, c) = p
  BY DEF SleepPush
<1> HIDE DEF k
<1>3. e \in Entry
  BY DEF Entry
<1> HIDE DEF e
<1>4. /\ p \in Seq(Entry)
      /\ Len(p) = Len(s) + 1
      /\ \A i \in 1..Len(p) :
           p[i] = IF i <= k THEN s[i] ELSE IF i = k + 1 THEN e ELSE s[i - 1]
  <2> DEFINE a == SubSeq(s, 1, k)
             b == SubSeq(s, k + 1, Len(s))
             d == a \o <<e>>
  <2>1. a \in Seq(Entry) /\ Len(a) = k /\ \A i \in 1..k : a[i] = s[i]
    BY <1>1
  <2>2. /\ b \in Seq(Entry) /\ Len(b) = Len(s) - k
        /\ \A i \in 1..(Len(s) - k) : b[i] = s[k + i]
    BY <1>1
  <2> HIDE DEF a, b
  <2>3. /\ d \in Seq(Entry) /\ Len(d) = k + 1
        /\ \A i \in 1..k : d[i] = s[i]
        /\ d[k + 1] = e
    BY <1>1, <1>3, <2>1
  <2> HIDE DEF d
  <2>4. p = d \o b
    BY DEF a, b, d
  <2> HIDE DEF p
  <2>5. /\ p \in Seq(Entry) /\ Len(p) = Len(s) + 1
        /\ \A i \in 1..Len(p) : p[i] = IF i <= k + 1 THEN d[i] ELSE b[i - (k + 1)]
    BY <1>1, <2>2, <2>3, <2>4, ConcatProperties
  <2>6. ASSUME NEW i \in 1..Len(p)
        PROVE  p[i] = IF i <= k THEN s[i] ELSE IF i = k + 1 THEN e ELSE s[i - 1]
    <3>1. CASE i <= k
      BY <1>1, <2>3, <2>5, <3>1
    <3>2. CASE i = k + 1
      BY <1>1, <2>3, <2>5, <3>2
    <3>3. CASE i > k + 1
      <4>1. i - (k + 1) \in 1..(Len(s) - k) /\ k + (i - (k + 1)) = i - 1
        BY <1>1, <2>5, <3>3
      <4>2. b[i - (k + 1)] = s[i - 1]
        BY <2>2, <4>1
      <4>3. p[i] = b[i - (k + 1)]
        BY <1>1, <2>5, <3>3
      <4> QED
        BY <1>1, <3>3, <4>2, <4>3
    <3> QED
      BY <1>1, <3>1, <3>2, <3>3
  <2> QED
    BY <2>5, <2>6
<1> HIDE DEF p
<1>5. DOMAIN p = 1..(Len(s) + 1) /\ DOMAIN s = 1..Len(s) /\ Len(s) \in Nat
  BY <1>4
<1>6. p # <<>>
  BY <1>4
<1>7. e.t = c
  BY DEF e
<1>8. Distinct(p)
  <2> SUFFICES ASSUME NEW i \in DOMAIN p, NEW j \in DOMAIN p, p[i].t = p[j].t
               PROVE  i = j
    BY DEF Distinct
  <2>1. \A m \in 1..Len(s) : s[m].t # c
    BY <1>5 DEF Sleepers
  <2>2. \A m, n \in 1..Len(s) : s[m].t = s[n].t => m = n
    BY <1>5 DEF Distinct
  <2>3. \A m \in 1..(Len(s) + 1) :
          \/ m <= k /\ p[m] = s[m] /\ m \in 1..Len(s)
          \/ m = k + 1 /\ p[m].t = c
          \/ m > k + 1 /\ p[m] = s[m - 1] /\ m - 1 \in 1..Len(s)
    BY <1>1, <1>4, <1>5, <1>7
  <2> QED
    BY <1>1, <1>5, <2>1, <2>2, <2>3
<1>9. Sleepers(p) = Sleepers(s) \cup {c}
  <2>1. ASSUME NEW u \in Sleepers(p) PROVE u \in Sleepers(s) \cup {c}
    BY <1>1, <1>4, <1>5, <1>7, <2>1 DEF Sleepers
  <2>2. ASSUME NEW u \in Sleepers(s) PROVE u \in Sleepers(p)
    <3>1. PICK i \in DOMAIN s : s[i].t = u
      BY <2>2 DEF Sleepers
    <3>2. CASE i <= k
      BY <1>1, <1>4, <1>5, <3>1, <3>2 DEF Sleepers
    <3>3. CASE i > k
      <4>1. i + 1 \in DOMAIN p /\ p[i + 1] = s[i]
        BY <1>1, <1>4, <1>5, <3>1, <3>3
      <4> QED
        BY <3>1, <4>1 DEF Sleepers
    <3> QED
      BY <1>1, <1>5, <3>2, <3>3
  <2>3. c \in Sleepers(p)
    <3>1. k + 1 \in DOMAIN p /\ p[k + 1] = e
      BY <1>1, <1>4, <1>5
    <3> QED
      BY <1>7, <3>1 DEF Sleepers
  <2> QED
    BY <2>1, <2>2, <2>3
<1> QED
  BY <1>2, <1>4, <1>6, <1>8, <1>9

(* The pop of the sleep queue takes the sleeper at its head. *)
LEMMA SleepPopRemoves ==
  ASSUME NEW s \in Seq(Entry), s # <<>>, Distinct(s)
  PROVE  /\ Tail(s) \in Seq(Entry)
         /\ Distinct(Tail(s))
         /\ Head(s).t \in Task
         /\ Head(s).t \in Sleepers(s)
         /\ Sleepers(Tail(s)) = Sleepers(s) \ {Head(s).t}
<1>1. /\ Tail(s) \in Seq(Entry) /\ Len(Tail(s)) = Len(s) - 1
      /\ \A i \in 1..Len(Tail(s)) : Tail(s)[i] = s[i + 1]
      /\ Head(s) = s[1] /\ s[1] \in Entry /\ Len(s) \in Nat \ {0}
  BY EmptySeq, HeadTailProperties
<1>2. DOMAIN s = 1..Len(s) /\ DOMAIN Tail(s) = 1..(Len(s) - 1)
  BY <1>1
<1>3. Distinct(Tail(s))
  BY <1>1, <1>2 DEF Distinct
<1>4. Head(s).t \in Task /\ Head(s).t \in Sleepers(s)
  BY <1>1, <1>2 DEF Entry, Sleepers
<1>5. ASSUME NEW u \in Sleepers(Tail(s)) PROVE u \in Sleepers(s) \ {Head(s).t}
  <2>1. PICK i \in DOMAIN Tail(s) : Tail(s)[i].t = u
    BY <1>5 DEF Sleepers
  <2>2. i + 1 \in DOMAIN s /\ s[i + 1].t = u /\ 1 \in DOMAIN s /\ i + 1 # 1
    BY <1>1, <1>2, <2>1
  <2>3. u # s[1].t
    BY <2>2 DEF Distinct
  <2> QED
    BY <1>1, <2>2, <2>3 DEF Sleepers
<1>6. ASSUME NEW u \in Sleepers(s), u # Head(s).t PROVE u \in Sleepers(Tail(s))
  <2>1. PICK i \in DOMAIN s : s[i].t = u
    BY <1>6 DEF Sleepers
  <2>2. i # 1 /\ i - 1 \in DOMAIN Tail(s) /\ Tail(s)[i - 1] = s[i]
    BY <1>1, <1>2, <1>6, <2>1
  <2> QED
    BY <2>1, <2>2 DEF Sleepers
<1> QED
  BY <1>1, <1>3, <1>4, <1>5, <1>6

-----------------------------------------------------------------------------
(* get_next_task *)

(* The two queues that get_next_task finds. *)
QueuesOK(q, s) ==
  /\ q \in [Task -> {0, 1}]
  /\ s \in Seq(Entry)
  /\ Distinct(s)
  /\ \A t \in Sleepers(s) : q[t] = 0

(* The run queue once those of w came over from the sleep queue. *)
Joined(q, w) == [t \in Task |-> IF t \in w THEN q[t] + 1 ELSE q[t]]

NobodyTaken(q, s) ==
  /\ \A t \in Task : q[t] = 0
  /\ fault' = IF s = <<>> THEN "nothing to do" ELSE "null task"
  /\ UNCHANGED <<dispatchVars, vruntime, min_vruntime, ran, sleepq>>

(* n is taken, after those of w came over. *)
Taken(c, rs, vr, q, s, w, n) ==
  /\ Joined(q, w)[n] > 0
  /\ \A u \in Task : q[u] > 0 => vr[n] <= vr[u]
  /\ ready' = [Joined(q, w) EXCEPT ![n] = @ - 1]
  /\ SwitchTo(c, n, rs, {})
  /\ vruntime' = vr
  /\ min_vruntime' = IF min_vruntime < vr[n] THEN vr[n] ELSE min_vruntime
  /\ ran' = 0
  /\ sleepq' \in Seq(Entry) /\ Distinct(sleepq')
  /\ Sleepers(sleepq') = Sleepers(s) \ w
  /\ fault' = fault

LEMMA NextTaskCases ==
  ASSUME NEW c, NEW rs, NEW vr \in [Task -> 0..MaxVruntime], NEW q, NEW s, NEW now,
         QueuesOK(q, s), NextTask(c, rs, vr, q, s, now)
  PROVE  \/ NobodyTaken(q, s)
         \/ \E w \in {{}} \cup {{x} : x \in Sleepers(s)}, n \in Task :
              Taken(c, rs, vr, q, s, w, n)
<1> USE BoundAssumption
<1> DEFINE woken == s # <<>> /\ Ripe(Head(s), now)
           q1 == IF woken THEN Push(q, Head(s).t) ELSE q
           s1 == IF woken THEN Tail(s) ELSE s
           n  == First(vr, q1)
           w  == IF woken THEN {Head(s).t} ELSE {}
<1>1. /\ w \in {{}} \cup {{x} : x \in Sleepers(s)}
      /\ s1 \in Seq(Entry) /\ Distinct(s1)
      /\ Sleepers(s1) = Sleepers(s) \ w
  <2>1. CASE woken
    BY <2>1, SleepPopRemoves DEF QueuesOK
  <2>2. CASE ~ woken
    BY <2>2 DEF QueuesOK
  <2> QED
    BY <2>1, <2>2
<1>2. q1 = Joined(q, w)
  <2>1. CASE woken
    <3>1. Head(s).t \in Task
      BY <2>1, SleepPopRemoves DEF QueuesOK
    <3>2. q \in [Task -> {0, 1}]
      BY DEF QueuesOK
    <3>3. PICK h \in Task : h = Head(s).t
      BY <3>1
    <3>4. q1 = Push(q, h) /\ w = {h}
      BY <2>1, <3>3
    <3>5. Push(q, h) = Joined(q, {h})
      BY <3>2 DEF Push, Joined
    <3> QED
      BY <3>4, <3>5
  <2>2. CASE ~ woken
    BY <2>2 DEF QueuesOK, Joined
  <2> QED
    BY <2>1, <2>2
<1>3. \A t \in Task : Joined(q, w)[t] >= q[t] /\ q[t] \in Nat /\ Joined(q, w)[t] \in Nat
  BY DEF Joined, QueuesOK
<1>4. CASE Queued(q1) = {}
  <2>1. NobodyTaken(q, s)
    <3>1. \A t \in Task : q[t] = 0
      <4> HIDE DEF q1, w
      <4>1. \A t \in Task : ~ (Joined(q, w)[t] > 0)
        BY <1>2, <1>4 DEF Queued
      <4>2. ASSUME NEW t \in Task PROVE q[t] = 0
        <5>1. q[t] \in Nat /\ Joined(q, w)[t] \in Nat /\ Joined(q, w)[t] >= q[t]
          BY <1>3
        <5>2. ~ (Joined(q, w)[t] > 0)
          BY <4>1
        <5> QED
          BY <5>1, <5>2
      <4> QED
        BY <4>2
    <3>2. /\ fault' = IF s = <<>> THEN "nothing to do" ELSE "null task"
          /\ UNCHANGED <<dispatchVars, vruntime, min_vruntime, ran, sleepq>>
      BY <1>4 DEF NextTask
    <3> QED
      BY <3>1, <3>2 DEF NobodyTaken
  <2> QED
    BY <2>1
<1>5. CASE Queued(q1) # {}
  <2>1. vr \in [Task -> Nat]
    OBVIOUS
  <2>2. n \in Queued(q1) /\ \A u \in Queued(q1) : vr[n] <= vr[u]
    BY <1>5, <2>1, FirstIsLeast
  <2>3. n \in Task /\ Joined(q, w)[n] > 0
    BY <1>2, <2>2 DEF Queued
  <2>4. \A u \in Task : q[u] > 0 => vr[n] <= vr[u]
    <3>1. \A u \in Task : q[u] > 0 => u \in Queued(q1)
      <4>1. \A u \in Task : q[u] > 0 => Joined(q, w)[u] > 0
        BY <1>3 DEF Joined, QueuesOK
      <4> QED
        BY <1>2, <4>1 DEF Queued
    <3> QED
      BY <2>2, <3>1
  <2>5. /\ RunNext(c, n, rs, q1, {})
        /\ vruntime' = vr
        /\ min_vruntime' = IF min_vruntime < vr[n] THEN vr[n] ELSE min_vruntime
        /\ ran' = 0
        /\ sleepq' = s1
        /\ UNCHANGED fault
    BY <1>5 DEF NextTask
  <2>6. ready' = [Joined(q, w) EXCEPT ![n] = @ - 1] /\ SwitchTo(c, n, rs, {})
    BY <1>2, <2>5 DEF RunNext, Erase
  <2>7. Taken(c, rs, vr, q, s, w, n)
    BY <1>1, <2>3, <2>4, <2>5, <2>6 DEF Taken
  <2> QED
    BY <1>1, <2>3, <2>7
<1> QED
  BY <1>4, <1>5

-----------------------------------------------------------------------------
(* Every step keeps the inductive invariant *)

(* The parts of the type invariant about numbers. *)
LEMMA Numbers ==
  ASSUME TypeOK
  PROVE  /\ vruntime \in [Task -> 0..MaxVruntime]
         /\ vruntime \in [Task -> Nat]
         /\ min_vruntime \in 0..MaxVruntime
         /\ min_vruntime \in Nat
         /\ ran \in 0..MaxBurst
         /\ ran \in Nat /\ ran <= MaxBurst
         /\ wall \in 0..MaxWall
         /\ wall \in Nat
<1>1. /\ vruntime \in [Task -> 0..MaxVruntime]
      /\ min_vruntime \in 0..MaxVruntime
      /\ ran \in 0..MaxBurst
      /\ wall \in 0..MaxWall
  BY Zenon DEF TypeOK
<1> QED
  BY <1>1, BoundAssumption, BurstAssumption

LEMMA ChargedType ==
  ASSUME TypeOK, NEW c \in Task, Looks(c)
  PROVE  /\ Charged(c) \in [Task -> 0..MaxVruntime]
         /\ Charged(c)[c] = vruntime[c] + ran \div Unit
         /\ ran \div Unit \in Nat
         /\ ran \div Unit <= MaxBurst \div Unit
         /\ MaxBurst \div Unit \in Nat
         /\ \A t \in Task \ {c} : Charged(c)[t] = vruntime[t]
<1> USE BoundAssumption, BurstAssumption
<1>1. /\ ran \div Unit \in Nat
      /\ ran \div Unit <= MaxBurst \div Unit
      /\ MaxBurst \div Unit \in Nat
  <2>1. ran \in Nat /\ ran <= MaxBurst
    BY Numbers
  <2> QED
    BY <2>1, UnitAssumption, DivMono
<1>2. vruntime \in [Task -> 0..MaxVruntime]
  BY Numbers
<1>3. PICK b \in Nat : b = ran \div Unit
  BY <1>1
<1>4. Charged(c) = [vruntime EXCEPT ![c] = vruntime[c] + b]
  BY <1>2, <1>3 DEF Charged
<1>5. Charged(c)[c] <= MaxVruntime
  BY DEF Looks
<1>6. Charged(c)[c] = vruntime[c] + b /\ \A t \in Task \ {c} : Charged(c)[t] = vruntime[t]
  BY <1>2, <1>4
<1>7. Charged(c) \in [Task -> 0..MaxVruntime]
  BY <1>2, <1>4, <1>5, <1>6
<1> QED
  BY <1>1, <1>3, <1>6, <1>7

(* How the current task gives up the processor: it yields, it waits (on the
   sleep queue or not), or it ends. *)
GivesUp(c, rs, q, s) ==
  /\ rs \in [Task -> RunStates]
  /\ \A t \in Task \ {c} : rs[t] = run_state[t]
  /\ s \in Seq(Entry) /\ Distinct(s)
  /\ \/ rs[c] = "RUNNING" /\ q = Push(ready, c) /\ s = sleepq
     \/ rs[c] = "STOPPED" /\ q = ready /\ s = sleepq
     \/ /\ rs[c] = "WAITING" /\ q = ready /\ c \in rested'
        /\ s = sleepq \/ (s # <<>> /\ Sleepers(s) = Sleepers(sleepq) \cup {c})

(* A step in which it does. *)
GiveUpStep(c) ==
  /\ Looks(c)
  /\ \E rs, q, s, now : GivesUp(c, rs, q, s) /\ NextTask(c, rs, Charged(c), q, s, now)
  /\ rested \subseteq rested' /\ rested' \subseteq Task /\ gone' \subseteq Task
  /\ wall' \in 0..MaxWall /\ due' \in [Task -> Nat]

(* The queues with the current task where it goes. *)
LEMMA GivesUpQueues ==
  ASSUME IInv, NEW c \in Task, c = current, NEW rs, NEW q, NEW s, GivesUp(c, rs, q, s)
  PROVE  /\ QueuesOK(q, s)
         /\ \A t \in Task \ {c} : q[t] = ready[t] /\ (t \in Sleepers(s) <=> t \in Sleepers(sleepq))
         /\ rs[c] = "RUNNING" => q[c] = 1 /\ c \notin Sleepers(s)
         /\ rs[c] # "RUNNING" => q[c] = 0
         /\ rs[c] = "STOPPED" => c \notin Sleepers(s)
<1>1. /\ ready \in [Task -> {0, 1}] /\ ready[c] = 0 /\ c \notin Sleepers(sleepq)
      /\ \A t \in Task : t \in Sleepers(sleepq) => ready[t] = 0
      /\ Sleepers(sleepq) \subseteq Task
  <2>1. ready \in [Task -> Nat]
    BY Zenon DEF IInv, TypeOK, DispatchTypeOK
  <2>2. \A t \in Task : ready[t] \in {0, 1}
    BY DEF IInv, PlaceInv
  <2>3. Sleepers(sleepq) \subseteq Task
    <3>1. \A i \in DOMAIN sleepq : sleepq[i] \in Entry
      BY DEF IInv, SleepInv
    <3> QED
      BY <3>1 DEF Sleepers, Entry
  <2>4. /\ ready[c] = 0 /\ c \notin Sleepers(sleepq)
        /\ \A t \in Task : t \in Sleepers(sleepq) => ready[t] = 0
    BY DEF IInv, PlaceInv
  <2> QED
    BY <2>1, <2>2, <2>3, <2>4
<1>2. CASE rs[c] = "RUNNING" /\ q = Push(ready, c) /\ s = sleepq
  <2>1. q = [ready EXCEPT ![c] = 1]
    BY <1>1, <1>2 DEF Push
  <2> QED
    BY <1>1, <1>2, <2>1 DEF GivesUp, QueuesOK
<1>3. CASE rs[c] = "STOPPED" /\ q = ready /\ s = sleepq
  BY <1>1, <1>3 DEF GivesUp, QueuesOK
<1>4. CASE rs[c] = "WAITING" /\ q = ready
           /\ (s = sleepq \/ (s # <<>> /\ Sleepers(s) = Sleepers(sleepq) \cup {c}))
  BY <1>1, <1>4 DEF GivesUp, QueuesOK
<1> QED
  BY <1>2, <1>3, <1>4 DEF GivesUp

LEMMA GiveUpKeeps ==
  ASSUME IInv, NEW c \in Task, GiveUpStep(c)
  PROVE  IInv'
<1> USE BoundAssumption, BurstAssumption
<1>0. /\ Looks(c)
      /\ rested \subseteq rested' /\ rested' \subseteq Task /\ gone' \subseteq Task
      /\ wall' \in 0..MaxWall /\ due' \in [Task -> Nat]
  BY DEF GiveUpStep
<1> PICK rs, q, s, now : GivesUp(c, rs, q, s) /\ NextTask(c, rs, Charged(c), q, s, now)
  BY DEF GiveUpStep
<1> DEFINE vr == Charged(c)
<1>1. c = current /\ fault = "none"
  BY <1>0 DEF Looks
<1>2. /\ QueuesOK(q, s)
      /\ \A t \in Task \ {c} : q[t] = ready[t] /\ (t \in Sleepers(s) <=> t \in Sleepers(sleepq))
      /\ rs[c] = "RUNNING" => q[c] = 1 /\ c \notin Sleepers(s)
      /\ rs[c] # "RUNNING" => q[c] = 0
      /\ rs[c] = "STOPPED" => c \notin Sleepers(s)
  BY <1>1, GivesUpQueues
<1>3. /\ vr \in [Task -> 0..MaxVruntime]
      /\ vr[c] = vruntime[c] + ran \div Unit
      /\ ran \div Unit \in Nat
      /\ ran \div Unit <= MaxBurst \div Unit
      /\ MaxBurst \div Unit \in Nat
      /\ \A t \in Task \ {c} : vr[t] = vruntime[t]
  BY <1>0, ChargedType DEF IInv
<1> HIDE DEF vr
<1>4. \/ NobodyTaken(q, s)
      \/ \E w \in {{}} \cup {{x} : x \in Sleepers(s)}, n \in Task :
           Taken(c, rs, vr, q, s, w, n)
  <2>1. NextTask(c, rs, vr, q, s, now)
    BY DEF vr
  <2> QED
    BY <1>2, <1>3, <2>1, NextTaskCases
<1>5. CASE NobodyTaken(q, s)
  <2>1. UNCHANGED <<current, run_state, no_preempt_flag, ready, vruntime, min_vruntime, ran, sleepq>>
    BY <1>5 DEF NobodyTaken, dispatchVars
  <2>2. fault' \in {"none", "nothing to do", "null task"}
    BY <1>5 DEF NobodyTaken
  <2>3. TypeOK'
    BY <1>0, <2>1, <2>2 DEF IInv, TypeOK, DispatchTypeOK
  <2>4. SleepInv' /\ PlaceInv'
    BY <2>1 DEF IInv, SleepInv, PlaceInv, Distinct, Sleepers
  <2>5. PaceInv' /\ KeepsPace'
    BY <1>0, <2>1 DEF IInv, PaceInv, KeepsPace
  <2> QED
    BY <2>3, <2>4, <2>5 DEF IInv
<1>6. CASE \E w \in {{}} \cup {{x} : x \in Sleepers(s)}, n \in Task :
             Taken(c, rs, vr, q, s, w, n)
  <2>1. PICK w \in {{}} \cup {{x} : x \in Sleepers(s)}, n \in Task :
               Taken(c, rs, vr, q, s, w, n)
    BY <1>6
  <2>2. /\ current' = n
        /\ no_preempt_flag' = [t \in Task |->
             IF t = n THEN FALSE ELSE IF t = c THEN TRUE ELSE no_preempt_flag[t]]
        /\ run_state' = [t \in Task |->
             IF n # c /\ t = c /\ rs[c] = "RUNNING" THEN "SUSPENDED"
             ELSE IF n # c /\ t = n THEN "RUNNING"
             ELSE rs[t]]
    BY <2>1 DEF Taken, SwitchTo
  <2>3. /\ vruntime' = vr
        /\ min_vruntime' = IF min_vruntime < vr[n] THEN vr[n] ELSE min_vruntime
        /\ ran' = 0 /\ fault' = "none"
        /\ \A u \in Task : q[u] > 0 => vr[n] <= vr[u]
    BY <1>1, <2>1 DEF Taken
  <2>4. w \subseteq Sleepers(s) /\ \A t \in Sleepers(s) : q[t] = 0
    BY <1>2, <2>1 DEF QueuesOK
  <2>5. /\ ready' = [t \in Task |-> IF t = n THEN 0 ELSE IF t \in w THEN 1 ELSE q[t]]
        /\ n \in w \/ q[n] = 1
    <3>1. q \in [Task -> {0, 1}]
      BY <1>2 DEF QueuesOK
    <3>2. PICK j : j = Joined(q, w)
      OBVIOUS
    <3>3. j = [t \in Task |-> IF t \in w THEN 1 ELSE q[t]]
      BY <2>4, <3>1, <3>2 DEF Joined
    <3>4. ready' = [j EXCEPT ![n] = j[n] - 1] /\ j[n] > 0
      BY <2>1, <3>2, <3>3 DEF Taken
    <3>5. j[n] = 1 /\ (n \in w \/ q[n] = 1)
      BY <3>1, <3>3, <3>4
    <3>6. j[n] - 1 = 0
      BY <3>5
    <3>7. ready' = [j EXCEPT ![n] = 0]
      BY <3>4, <3>6
    <3> QED
      BY <3>3, <3>5, <3>7
  <2>6. /\ sleepq' \in Seq(Entry) /\ Distinct(sleepq')
        /\ Sleepers(sleepq') = Sleepers(s) \ w
    BY <2>1 DEF Taken
  <2>7. q \in [Task -> {0, 1}]
    BY <1>2 DEF QueuesOK
  <2>8. TypeOK'
    <3>1. DispatchTypeOK'
      <4>1. ready' \in [Task -> Nat]
        BY <2>5, <2>7
      <4>2. no_preempt_flag' \in [Task -> BOOLEAN]
        BY <2>2 DEF IInv, TypeOK, DispatchTypeOK
      <4>3. run_state' \in [Task -> RunStates]
        BY <2>2 DEF GivesUp, RunStates
      <4> QED
        BY <2>2, <4>1, <4>2, <4>3 DEF DispatchTypeOK
    <3>2. vruntime' \in [Task -> 0..MaxVruntime] /\ min_vruntime' \in 0..MaxVruntime /\ ran' \in 0..MaxBurst
      <4>1. min_vruntime \in 0..MaxVruntime
        BY Numbers DEF IInv
      <4>2. vr[n] \in 0..MaxVruntime
        BY <1>3
      <4> QED
        BY <1>3, <2>3, <4>1, <4>2
    <3>3. \A i \in DOMAIN sleepq' : sleepq'[i].t \in Task /\ sleepq'[i].ripe \in Nat
      <4>1. PICK s1 \in Seq(Entry) : s1 = sleepq'
        BY <2>6
      <4>2. \A i \in DOMAIN s1 : s1[i] \in Entry
        OBVIOUS
      <4> QED
        BY <4>1, <4>2 DEF Entry
    <3> QED
      BY <1>0, <2>3, <3>1, <3>2, <3>3 DEF TypeOK
  <2>9. SleepInv'
    BY <2>6 DEF SleepInv
  <2>10. PlaceInv'
    <3>1. run_state'[n] \in {"RUNNING", "WAITING"}
      <4>1. n = c => rs[c] \in {"RUNNING", "WAITING"}
        BY <1>2, <2>4, <2>5 DEF GivesUp
      <4> QED
        BY <2>2, <4>1
    <3>2. ready'[n] = 0
      BY <2>5
    <3>3. n \notin Sleepers(sleepq')
      BY <2>4, <2>5, <2>6
    <3>4. ASSUME NEW t \in Task
          PROVE  /\ ready'[t] \in {0, 1}
                 /\ t \in Sleepers(sleepq') => ready'[t] = 0
      BY <2>4, <2>5, <2>6, <2>7
    <3>5. ASSUME NEW t \in Task, run_state'[t] = "STOPPED"
          PROVE  ready'[t] = 0 /\ t \notin Sleepers(sleepq')
      <4>1. rs[t] = "STOPPED"
        BY <2>2, <3>5
      <4>2. q[t] = 0 /\ t \notin Sleepers(s)
        BY <1>2, <4>1 DEF GivesUp, IInv, PlaceInv
      <4> QED
        BY <2>4, <2>5, <2>6, <4>2
    <3> QED
      BY <2>2, <3>1, <3>2, <3>3, <3>4, <3>5 DEF PlaceInv
  <2>11. ASSUME NEW t \in Task, t \notin rested', run_state'[t] # "STOPPED"
         PROVE  /\ q[t] = 1 /\ t \notin rested
                /\ t = c => rs[t] = "RUNNING"
                /\ t # n => ready'[t] = 1
                /\ t = n => run_state'[t] = "RUNNING"
                /\ min_vruntime <= vr[t]
                /\ vr[t] <= min_vruntime + MaxBurst \div Unit
    <3>1. t \notin rested
      BY <1>0, <2>11
    <3>2. t = c => rs[c] = "RUNNING"
      <4>1. t = c => rs[c] # "WAITING" /\ rs[c] \in {"RUNNING", "STOPPED", "WAITING"}
        BY <2>11 DEF GivesUp
      <4>2. t = c /\ rs[c] = "STOPPED" => n # c
        BY <1>2, <2>4, <2>5
      <4> QED
        BY <2>2, <2>11, <4>1, <4>2
    <3>3. t # c => ready[t] = 1 /\ min_vruntime <= vruntime[t] /\ vruntime[t] <= min_vruntime + MaxBurst \div Unit
      <4>1. SUFFICES ASSUME t # c
                     PROVE  ready[t] = 1 /\ min_vruntime <= vruntime[t] /\ vruntime[t] <= min_vruntime + MaxBurst \div Unit
        OBVIOUS
      <4>2. run_state[t] # "STOPPED"
        <5>1. n = t => run_state[t] # "STOPPED"
          BY <1>2, <2>4, <2>5, <4>1 DEF GivesUp, IInv, PlaceInv
        <5>2. n # t => run_state'[t] = run_state[t]
          BY <2>2, <4>1 DEF GivesUp
        <5> QED
          BY <2>11, <5>1, <5>2
      <4> QED
        BY <1>1, <3>1, <4>1, <4>2 DEF IInv, PaceInv, KeepsPace
    <3>4. t = c => vruntime[t] = min_vruntime
      <4>1. t = c => run_state[t] # "STOPPED"
        BY <1>1 DEF IInv, PlaceInv
      <4> QED
        BY <1>1, <3>1, <4>1 DEF IInv, PaceInv
    <3>5. q[t] = 1
      BY <1>2, <3>2, <3>3
    <3>6. t # n => ready'[t] = 1
      BY <2>4, <2>5, <3>5
    <3>7. t = n => run_state'[t] = "RUNNING"
      BY <2>2, <3>2
    <3>8. min_vruntime <= vr[t] /\ vr[t] <= min_vruntime + MaxBurst \div Unit
      <4>1. min_vruntime \in Nat /\ vruntime[t] \in Nat
        BY Numbers DEF IInv
      <4>2. CASE t = c
        BY <1>3, <3>4, <4>1, <4>2
      <4>3. CASE t # c
        BY <1>3, <3>3, <4>3
      <4> QED
        BY <4>2, <4>3
    <3> QED
      BY <3>1, <3>2, <3>5, <3>6, <3>7, <3>8
  <2>12. ASSUME NEW t \in Task, t \notin rested', run_state'[t] # "STOPPED"
         PROVE  /\ min_vruntime' <= vruntime'[t]
                /\ vruntime'[t] <= min_vruntime' + MaxBurst \div Unit
                /\ t = n => vruntime'[t] = min_vruntime'
    <3>1. /\ q[t] = 1
          /\ min_vruntime <= vr[t]
          /\ vr[t] <= min_vruntime + MaxBurst \div Unit
      BY <2>11, <2>12
    <3>2. vr[n] <= vr[t]
      BY <2>3, <3>1
    <3>3. min_vruntime \in Nat /\ vr[t] \in Nat /\ vr[n] \in Nat
      BY <1>3, Numbers DEF IInv
    <3> QED
      BY <1>3, <2>3, <3>1, <3>2, <3>3
  <2>13. PaceInv'
    BY <2>2, <2>11, <2>12 DEF PaceInv
  <2>14. KeepsPace'
    BY <2>12 DEF KeepsPace
  <2> QED
    BY <2>8, <2>9, <2>10, <2>13, <2>14 DEF IInv
<1> QED
  BY <1>4, <1>5, <1>6

LEMMA YieldGivesUp ==
  ASSUME IInv, NEW c \in Task, Yield(c)
  PROVE  GiveUpStep(c)
<1>1. Looks(c) /\ NextTask(c, run_state, Charged(c), Requeue(c, run_state, ready), sleepq, wall)
  BY DEF Yield
<1>2. UNCHANGED <<wall, gone, due, rested>>
  BY DEF Yield
<1>3. /\ rested \subseteq rested' /\ rested' \subseteq Task /\ gone' \subseteq Task
      /\ wall' \in 0..MaxWall /\ due' \in [Task -> Nat]
  BY <1>2, Zenon DEF IInv, TypeOK
<1>4. GivesUp(c, run_state, Requeue(c, run_state, ready), sleepq)
  <2>1. run_state \in [Task -> RunStates]
    BY Zenon DEF IInv, TypeOK, DispatchTypeOK
  <2>2. sleepq \in Seq(Entry) /\ Distinct(sleepq)
    BY DEF IInv, SleepInv
  <2>3. c = current /\ run_state[c] \in {"RUNNING", "WAITING"}
    BY <1>1 DEF Looks, IInv, PlaceInv
  <2>4. run_state[c] = "WAITING" => c \in rested'
    BY <1>2, <2>3 DEF IInv, PaceInv
  <2> QED
    BY <2>1, <2>2, <2>3, <2>4 DEF GivesUp, Requeue
<1> QED
  BY <1>1, <1>3, <1>4 DEF GiveUpStep

LEMMA BlockGivesUp ==
  ASSUME IInv, NEW c \in Task, Block(c)
  PROVE  GiveUpStep(c)
<1> DEFINE rs == [run_state EXCEPT ![c] = "WAITING"]
<1>1. Looks(c) /\ NextTask(c, rs, Charged(c), ready, sleepq, wall)
  BY DEF Block
<1>2. rested' = rested \cup {c} /\ UNCHANGED <<wall, gone, due>>
  BY DEF Block
<1>3. /\ rested \subseteq rested' /\ rested' \subseteq Task /\ gone' \subseteq Task
      /\ wall' \in 0..MaxWall /\ due' \in [Task -> Nat]
  <2>1. rested \subseteq Task /\ gone \subseteq Task /\ wall \in 0..MaxWall /\ due \in [Task -> Nat]
    BY Zenon DEF IInv, TypeOK
  <2> QED
    BY <1>2, <2>1
<1>4. GivesUp(c, rs, ready, sleepq)
  <2>1. run_state \in [Task -> RunStates]
    BY Zenon DEF IInv, TypeOK, DispatchTypeOK
  <2>2. sleepq \in Seq(Entry) /\ Distinct(sleepq)
    BY DEF IInv, SleepInv
  <2> QED
    BY <1>2, <2>1, <2>2 DEF GivesUp, RunStates
<1> HIDE DEF rs
<1> QED
  BY <1>1, <1>3, <1>4 DEF GiveUpStep

LEMMA ExitGivesUp ==
  ASSUME IInv, NEW c \in Task, Exit(c)
  PROVE  GiveUpStep(c)
<1> DEFINE rs == [run_state EXCEPT ![c] = "STOPPED"]
<1>1. Looks(c) /\ NextTask(c, rs, Charged(c), ready, sleepq, wall)
  BY DEF Exit
<1>2. gone' = gone \cup {c} /\ UNCHANGED <<wall, due, rested>>
  BY DEF Exit
<1>3. /\ rested \subseteq rested' /\ rested' \subseteq Task /\ gone' \subseteq Task
      /\ wall' \in 0..MaxWall /\ due' \in [Task -> Nat]
  <2>1. rested \subseteq Task /\ gone \subseteq Task /\ wall \in 0..MaxWall /\ due \in [Task -> Nat]
    BY Zenon DEF IInv, TypeOK
  <2> QED
    BY <1>2, <2>1
<1>4. GivesUp(c, rs, ready, sleepq)
  <2>1. run_state \in [Task -> RunStates]
    BY Zenon DEF IInv, TypeOK, DispatchTypeOK
  <2>2. sleepq \in Seq(Entry) /\ Distinct(sleepq)
    BY DEF IInv, SleepInv
  <2> QED
    BY <2>1, <2>2 DEF GivesUp, RunStates
<1> HIDE DEF rs
<1> QED
  BY <1>1, <1>3, <1>4 DEF GiveUpStep

(* yield_for's sleep queue. *)
LEMMA SleepForPushes ==
  ASSUME IInv, NEW c \in Task, Looks(c), NEW d \in Durations
  PROVE  /\ wall + d \in Nat
         /\ SleepPush(sleepq, WakeTime(d), c) \in Seq(Entry)
         /\ SleepPush(sleepq, WakeTime(d), c) # <<>>
         /\ Distinct(SleepPush(sleepq, WakeTime(d), c))
         /\ Sleepers(SleepPush(sleepq, WakeTime(d), c)) = Sleepers(sleepq) \cup {c}
<1>1. wall + d \in Nat
  BY DurationAssumption, Numbers DEF IInv
<1>2. WakeTime(d) \in Nat
  BY <1>1 DEF WakeTime
<1>3. sleepq \in Seq(Entry) /\ Distinct(sleepq) /\ c \notin Sleepers(sleepq)
  BY DEF IInv, SleepInv, PlaceInv, Looks
<1> QED
  BY <1>1, <1>2, <1>3, SleepPushAdds

LEMMA SleepForGivesUp ==
  ASSUME IInv, NEW c \in Task, NEW d \in Durations, SleepFor(c, d)
  PROVE  GiveUpStep(c)
<1> DEFINE rs == [run_state EXCEPT ![c] = "WAITING"]
           s  == SleepPush(sleepq, WakeTime(d), c)
<1>1. PICK now \in {wall, wall + 1} \cap 0..MaxWall :
        /\ NextTask(c, rs, Charged(c), ready, s, now)
        /\ wall' = now
  BY DEF SleepFor
<1>2. Looks(c) /\ rested' = rested \cup {c} /\ due' = [due EXCEPT ![c] = wall + d] /\ gone' = gone
  BY DEF SleepFor
<1>3. /\ wall + d \in Nat
      /\ s \in Seq(Entry) /\ s # <<>> /\ Distinct(s)
      /\ Sleepers(s) = Sleepers(sleepq) \cup {c}
  BY <1>2, SleepForPushes
<1> HIDE DEF s
<1>4. /\ rested \subseteq rested' /\ rested' \subseteq Task /\ gone' \subseteq Task
      /\ wall' \in 0..MaxWall /\ due' \in [Task -> Nat]
  <2>1. rested \subseteq Task /\ gone \subseteq Task /\ due \in [Task -> Nat]
    BY Zenon DEF IInv, TypeOK
  <2> QED
    BY <1>1, <1>2, <1>3, <2>1
<1>5. GivesUp(c, rs, ready, s)
  <2>1. run_state \in [Task -> RunStates]
    BY Zenon DEF IInv, TypeOK, DispatchTypeOK
  <2> QED
    BY <1>2, <1>3, <2>1 DEF GivesUp, RunStates
<1> HIDE DEF rs
<1> QED
  BY <1>1, <1>2, <1>4, <1>5 DEF GiveUpStep

LEMMA ComputeKeeps == ASSUME IInv, Compute PROVE IInv'
<1>1. /\ ran' = ran + 1 /\ ran < MaxBurst
      /\ UNCHANGED <<current, run_state, no_preempt_flag, ready, vruntime, min_vruntime,
                     sleepq, wall, gone, due, rested, fault>>
  BY DEF Compute, dispatchVars
<1>2. ran' \in 0..MaxBurst
  BY <1>1, Numbers, BurstAssumption DEF IInv
<1>3. TypeOK'
  BY <1>1, <1>2 DEF IInv, TypeOK, DispatchTypeOK
<1> QED
  BY <1>1, <1>3 DEF IInv, SleepInv, PlaceInv, PaceInv, KeepsPace, Distinct, Sleepers

LEMMA ElapseKeeps == ASSUME IInv, Elapse PROVE IInv'
<1>1. /\ wall' = wall + 1 /\ wall < MaxWall
      /\ UNCHANGED <<current, run_state, no_preempt_flag, ready, vruntime, min_vruntime,
                     sleepq, ran, gone, due, rested, fault>>
  BY DEF Elapse, dispatchVars
<1>2. wall' \in 0..MaxWall
  BY <1>1, Numbers, BoundAssumption DEF IInv
<1>3. TypeOK'
  BY <1>1, <1>2 DEF IInv, TypeOK, DispatchTypeOK
<1> QED
  BY <1>1, <1>3 DEF IInv, SleepInv, PlaceInv, PaceInv, KeepsPace, Distinct, Sleepers

(* What schedule does to the virtual run times and to the run queue. *)
LEMMA StartType ==
  ASSUME TypeOK, NEW vr \in [Task -> 0..MaxVruntime], NEW t \in Task
  PROVE  /\ StartVruntime(vr, t) \in [Task -> 0..MaxVruntime]
         /\ StartVruntime(vr, t)[t] = IF vr[t] = 0 THEN min_vruntime ELSE vr[t]
         /\ \A u \in Task \ {t} : StartVruntime(vr, t)[u] = vr[u]
<1>1. min_vruntime \in 0..MaxVruntime
  BY Numbers
<1>2. PICK v \in 0..MaxVruntime : v = IF vr[t] = 0 THEN min_vruntime ELSE vr[t]
  BY <1>1
<1>3. StartVruntime(vr, t) = [vr EXCEPT ![t] = v]
  BY <1>2 DEF StartVruntime
<1> QED
  BY <1>2, <1>3

LEMMA PushFirst ==
  ASSUME NEW q \in [Task -> Nat], NEW t \in Task, q[t] = 0
  PROVE  Push(q, t) = [q EXCEPT ![t] = 1]
  BY DEF Push

LEMMA SpawnKeeps ==
  ASSUME IInv, NEW c \in Task, NEW t \in Task, Spawn(c, t)
  PROVE  IInv'
<1> USE BoundAssumption, BurstAssumption
<1> DEFINE vr0 == [vruntime EXCEPT ![t] = 0]
<1>1. /\ run_state[t] = "STOPPED"
      /\ run_state' = [run_state EXCEPT ![t] = "SUSPENDED"]
      /\ vruntime' = StartVruntime(vr0, t)
      /\ ready' = Push(ready, t)
      /\ gone' = gone \ {t}
      /\ due' = [due EXCEPT ![t] = 0]
      /\ rested' = rested \ {t}
      /\ UNCHANGED <<current, no_preempt_flag, min_vruntime, ran, sleepq, wall, fault>>
  BY DEF Spawn
<1>2. ready[t] = 0 /\ t \notin Sleepers(sleepq) /\ t # current
  BY <1>1 DEF IInv, PlaceInv
<1>3. /\ ready \in [Task -> Nat] /\ run_state \in [Task -> RunStates] /\ current \in Task
      /\ gone \subseteq Task /\ rested \subseteq Task /\ due \in [Task -> Nat]
  BY Zenon DEF IInv, TypeOK, DispatchTypeOK
<1>4. ready' = [ready EXCEPT ![t] = 1]
  BY <1>1, <1>2, <1>3, PushFirst
<1>5. /\ vruntime' \in [Task -> 0..MaxVruntime]
      /\ vruntime'[t] = min_vruntime
      /\ \A u \in Task \ {t} : vruntime'[u] = vruntime[u]
  <2>1. vruntime \in [Task -> 0..MaxVruntime]
    BY Numbers DEF IInv
  <2>2. vr0 \in [Task -> 0..MaxVruntime] /\ vr0[t] = 0 /\ \A u \in Task \ {t} : vr0[u] = vruntime[u]
    BY <2>1
  <2> HIDE DEF vr0
  <2> QED
    BY <1>1, <2>2, StartType DEF IInv
<1>6. TypeOK'
  <2>1. DispatchTypeOK'
    <3>1. no_preempt_flag \in [Task -> BOOLEAN]
      BY Zenon DEF IInv, TypeOK, DispatchTypeOK
    <3>2. ready' \in [Task -> Nat]
      BY <1>3, <1>4
    <3>3. run_state' \in [Task -> RunStates]
      BY <1>1, <1>3 DEF RunStates
    <3> QED
      BY <1>1, <1>3, <3>1, <3>2, <3>3 DEF DispatchTypeOK
  <2>2. gone' \subseteq Task /\ rested' \subseteq Task /\ due' \in [Task -> Nat]
    BY <1>1, <1>3
  <2>3. /\ min_vruntime' \in 0..MaxVruntime /\ ran' \in 0..MaxBurst /\ wall' \in 0..MaxWall
        /\ fault' \in {"none", "nothing to do", "null task"}
        /\ \A i \in DOMAIN sleepq' : sleepq'[i].t \in Task /\ sleepq'[i].ripe \in Nat
    BY <1>1, Zenon DEF IInv, TypeOK
  <2> QED
    BY <1>5, <2>1, <2>2, <2>3, Zenon DEF TypeOK
<1>7. SleepInv'
  BY <1>1 DEF IInv, SleepInv, Distinct
<1>8. PlaceInv'
  <2>1. Sleepers(sleepq)' = Sleepers(sleepq)
    BY <1>1 DEF Sleepers
  <2> QED
    BY <1>1, <1>2, <1>3, <1>4, <2>1 DEF IInv, PlaceInv
<1>9. PaceInv'
  BY <1>1, <1>2, <1>3, <1>4, <1>5 DEF IInv, PaceInv
<1>10. KeepsPace'
  <2>1. min_vruntime \in Nat /\ MaxBurst \div Unit \in Nat
    BY Numbers, UnitAssumption, DivMono DEF IInv
  <2>2. ASSUME NEW u \in Task \ rested', run_state'[u] # "STOPPED"
        PROVE  min_vruntime' <= vruntime'[u] /\ vruntime'[u] <= min_vruntime' + MaxBurst \div Unit
    <3>1. CASE u = t
      BY <1>1, <1>5, <2>1, <3>1
    <3>2. CASE u # t
      BY <1>1, <1>3, <1>5, <2>2, <3>2 DEF IInv, KeepsPace
    <3> QED
      BY <3>1, <3>2
  <2> QED
    BY <2>2 DEF KeepsPace
<1> QED
  BY <1>6, <1>7, <1>8, <1>9, <1>10 DEF IInv

(* A task that waits outside the queues is not among those KeepsPace is
   about. *)
LEMMA BlockedRested ==
  ASSUME IInv, NEW t \in Task, t \in Blocked
  PROVE  /\ t \in rested /\ t # current /\ ready[t] = 0 /\ t \notin Sleepers(sleepq)
         /\ run_state[t] = "WAITING"
  BY DEF IInv, PaceInv, Blocked

LEMMA WakeKeeps ==
  ASSUME IInv, NEW c \in Task, NEW t \in Task, Wake(c, t)
  PROVE  IInv'
<1> USE BoundAssumption, BurstAssumption
<1>1. /\ t \in Blocked
      /\ vruntime' = StartVruntime(vruntime, t)
      /\ ready' = Push(ready, t)
      /\ UNCHANGED <<current, run_state, no_preempt_flag, min_vruntime, ran, sleepq,
                     wall, gone, due, rested, fault>>
  BY DEF Wake
<1>2. /\ t \in rested /\ t # current /\ ready[t] = 0 /\ t \notin Sleepers(sleepq)
      /\ run_state[t] = "WAITING"
  BY <1>1, BlockedRested
<1>3. ready \in [Task -> Nat] /\ current \in Task
  BY Zenon DEF IInv, TypeOK, DispatchTypeOK
<1>4. ready' = [ready EXCEPT ![t] = 1]
  BY <1>1, <1>2, <1>3, PushFirst
<1>5. /\ vruntime' \in [Task -> 0..MaxVruntime]
      /\ \A u \in Task \ {t} : vruntime'[u] = vruntime[u]
  BY <1>1, Numbers, StartType DEF IInv
<1>6. TypeOK'
  <2>1. ready' \in [Task -> Nat]
    BY <1>3, <1>4
  <2> QED
    BY <1>1, <1>5, <2>1, Zenon DEF IInv, TypeOK, DispatchTypeOK
<1>7. SleepInv'
  BY <1>1 DEF IInv, SleepInv, Distinct
<1>8. PlaceInv'
  <2>1. Sleepers(sleepq)' = Sleepers(sleepq)
    BY <1>1 DEF Sleepers
  <2> QED
    BY <1>1, <1>2, <1>3, <1>4, <2>1 DEF IInv, PlaceInv
<1>9. PaceInv'
  BY <1>1, <1>2, <1>3, <1>4, <1>5 DEF IInv, PaceInv
<1>10. KeepsPace'
  BY <1>1, <1>2, <1>5 DEF IInv, KeepsPace
<1> QED
  BY <1>6, <1>7, <1>8, <1>9, <1>10 DEF IInv

LEMMA HandoffKeeps ==
  ASSUME IInv, NEW c \in Task, NEW t \in Task, Handoff(c, t)
  PROVE  IInv'
<1> USE BoundAssumption, BurstAssumption
<1> DEFINE rs == [run_state EXCEPT ![c] = "WAITING"]
<1>1. /\ Looks(c) /\ t \in Blocked
      /\ vruntime' = Charged(c)
      /\ ran' = 0
      /\ SwitchTo(c, t, rs, {})
      /\ rested' = rested \cup {c}
      /\ UNCHANGED <<ready, min_vruntime, sleepq, wall, gone, due, fault>>
  BY DEF Handoff
<1>2. c = current
  BY <1>1 DEF Looks
<1>3. /\ t \in rested /\ t # current /\ ready[t] = 0 /\ t \notin Sleepers(sleepq)
      /\ run_state[t] = "WAITING"
  BY <1>1, BlockedRested
<1>4. /\ ready \in [Task -> Nat] /\ run_state \in [Task -> RunStates]
      /\ no_preempt_flag \in [Task -> BOOLEAN]
      /\ gone \subseteq Task /\ rested \subseteq Task /\ due \in [Task -> Nat]
  BY Zenon DEF IInv, TypeOK, DispatchTypeOK
<1>5. /\ current' = t
      /\ run_state' = [u \in Task |->
           IF u = c THEN "WAITING" ELSE IF u = t THEN "RUNNING" ELSE run_state[u]]
      /\ no_preempt_flag' = [u \in Task |->
           IF u = t THEN FALSE ELSE IF u = c THEN TRUE ELSE no_preempt_flag[u]]
  BY <1>1, <1>2, <1>3, <1>4 DEF SwitchTo
<1>6. /\ vruntime' \in [Task -> 0..MaxVruntime]
      /\ \A u \in Task \ {c} : vruntime'[u] = vruntime[u]
  BY <1>1, ChargedType DEF IInv
<1>7. TypeOK'
  <2>1. DispatchTypeOK'
    BY <1>1, <1>4, <1>5 DEF DispatchTypeOK, RunStates
  <2>2. rested' \subseteq Task /\ ran' \in 0..MaxBurst
    BY <1>1, <1>4
  <2> QED
    BY <1>1, <1>6, <2>1, <2>2, Zenon DEF IInv, TypeOK
<1>8. SleepInv'
  BY <1>1 DEF IInv, SleepInv, Distinct
<1>9. PlaceInv'
  <2>1. Sleepers(sleepq)' = Sleepers(sleepq)
    BY <1>1 DEF Sleepers
  <2> QED
    BY <1>1, <1>2, <1>3, <1>5, <2>1 DEF IInv, PlaceInv
<1>10. PaceInv'
  BY <1>1, <1>2, <1>3, <1>5, <1>6 DEF IInv, PaceInv
<1>11. KeepsPace'
  BY <1>1, <1>2, <1>3, <1>5, <1>6 DEF IInv, KeepsPace
<1> QED
  BY <1>7, <1>8, <1>9, <1>10, <1>11 DEF IInv

-----------------------------------------------------------------------------
(* The theorems *)

LEMMA InitIInv == Init => IInv
<1> SUFFICES ASSUME Init PROVE IInv
  OBVIOUS
<1> USE BoundAssumption, BurstAssumption, TaskAssumption
<1>1. Sleepers(sleepq) = {} /\ sleepq \in Seq(Entry) /\ Distinct(sleepq)
  BY DEF Init, Sleepers, Distinct
<1>2. TypeOK
  <2>1. \A i \in DOMAIN sleepq : sleepq[i].t \in Task /\ sleepq[i].ripe \in Nat
    BY DEF Init
  <2>2. DispatchTypeOK
    BY DEF Init, DispatchTypeOK, RunStates
  <2>3. vruntime \in [Task -> 0..MaxVruntime] /\ due \in [Task -> Nat]
    BY DEF Init
  <2> QED
    BY <2>1, <2>2, <2>3 DEF Init, TypeOK
<1>3. PlaceInv
  BY <1>1 DEF Init, PlaceInv
<1>4. PaceInv /\ KeepsPace
  <2>1. MaxBurst \div Unit \in Nat
    BY UnitAssumption, DivMono
  <2> QED
    BY <2>1 DEF Init, PaceInv, KeepsPace
<1> QED
  BY <1>1, <1>2, <1>3, <1>4 DEF IInv, SleepInv

LEMMA NextIInv == IInv /\ [Next]_vars => IInv'
<1> SUFFICES ASSUME IInv, [Next]_vars PROVE IInv'
  OBVIOUS
<1>1. CASE UNCHANGED vars
  <2>1. UNCHANGED <<current, run_state, no_preempt_flag, ready, vruntime, min_vruntime, ran,
                    sleepq, wall, gone, due, rested, fault>>
    BY <1>1 DEF vars, dispatchVars
  <2>2. TypeOK'
    BY <2>1 DEF IInv, TypeOK, DispatchTypeOK
  <2> QED
    BY <2>1, <2>2 DEF IInv, SleepInv, PlaceInv, PaceInv, KeepsPace, Distinct, Sleepers
<1>2. CASE Compute
  BY <1>2, ComputeKeeps
<1>3. CASE Elapse
  BY <1>3, ElapseKeeps
<1>4. ASSUME NEW c \in Task, Yield(c) \/ Block(c) \/ Exit(c) PROVE IInv'
  BY <1>4, YieldGivesUp, BlockGivesUp, ExitGivesUp, GiveUpKeeps
<1>5. ASSUME NEW c \in Task, NEW d \in Durations, SleepFor(c, d) PROVE IInv'
  BY <1>5, SleepForGivesUp, GiveUpKeeps
<1>6. ASSUME NEW c \in Task, NEW t \in Task, Spawn(c, t) \/ Wake(c, t) \/ Handoff(c, t)
      PROVE  IInv'
  BY <1>6, SpawnKeeps, WakeKeeps, HandoffKeeps
<1> QED
  BY <1>1, <1>2, <1>3, <1>4, <1>5, <1>6 DEF Next

(* Nobody is ever in two of the scheduler's places at once, and the pace is
   kept: the inductive invariant holds in every reachable state. *)
THEOREM Invariant == Spec => []IInv
  BY InitIInv, NextIInv, PTL DEF Spec

(* The clocks, queues and virtual run times of rq and sched_node keep their
   types. *)
THEOREM TypeCorrect == Spec => []TypeOK
<1>1. IInv => TypeOK
  BY DEF IInv
<1> QED
  BY <1>1, Invariant, PTL

(***************************************************************************)
(* Whatever the number of tasks, the lengths of their bursts and the order *)
(* in which they spawn, yield, sleep, wait, hand over and exit: tasks that *)
(* never waited keep within one burst of min_vruntime (get_next_task,      *)
(* time_ordered_compare and schedule).                                     *)
(***************************************************************************)
THEOREM KeepsPaceAlways == Spec => []KeepsPace
<1>1. IInv => KeepsPace
  BY DEF IInv
<1> QED
  BY <1>1, Invariant, PTL

-----------------------------------------------------------------------------
(* The queues implement module RunBag *)

LEMMA GiveUpImplements ==
  ASSUME IInv, NEW c \in Task, GiveUpStep(c)
  PROVE  Bag!Next
<1>0. Looks(c)
  BY DEF GiveUpStep
<1> PICK rs, q, s, now : GivesUp(c, rs, q, s) /\ NextTask(c, rs, Charged(c), q, s, now)
  BY DEF GiveUpStep
<1> DEFINE vr == Charged(c)
<1>1. c = current /\ fault = "none"
  BY <1>0 DEF Looks
<1>2. QueuesOK(q, s)
  BY <1>1, GivesUpQueues
<1>3. vr \in [Task -> 0..MaxVruntime]
  BY <1>0, ChargedType DEF IInv
<1> HIDE DEF vr
<1>4. \/ NobodyTaken(q, s)
      \/ \E w \in {{}} \cup {{x} : x \in Sleepers(s)}, n \in Task :
           Taken(c, rs, vr, q, s, w, n)
  <2>1. NextTask(c, rs, vr, q, s, now)
    BY DEF vr
  <2> QED
    BY <1>2, <1>3, <2>1, NextTaskCases
<1>5. <<q, Sleepers(s)>> \in Bag!GaveUp
  <2>1. Bag!Add(ready, c) = Push(ready, c)
    BY DEF Bag!Add, Push
  <2> QED
    BY <1>1, <2>1 DEF Bag!GaveUp, GivesUp
<1>6. CASE NobodyTaken(q, s)
  <2>1. s = <<>> <=> Sleepers(s) = {}
    <3>1. s \in Seq(Entry)
      BY <1>2 DEF QueuesOK
    <3>2. s # <<>> => 1 \in DOMAIN s
      BY <3>1
    <3>3. s = <<>> => DOMAIN s = {}
      BY <3>1
    <3> QED
      BY <3>2, <3>3 DEF Sleepers
  <2>2. UNCHANGED <<current, ready, sleepq>>
    BY <1>6 DEF NobodyTaken, dispatchVars
  <2>3. Sleepers(sleepq)' = Sleepers(sleepq)
    BY <2>2 DEF Sleepers
  <2>4. Bag!Abort(q, Sleepers(s))
    BY <1>6, <2>1, <2>2, <2>3 DEF Bag!Abort, NobodyTaken
  <2>5. Bag!Yield
    BY <1>5, <2>4 DEF Bag!Yield
  <2> QED
    BY <1>1, <2>5 DEF Bag!Next
<1>7. CASE \E w \in {{}} \cup {{x} : x \in Sleepers(s)}, n \in Task :
             Taken(c, rs, vr, q, s, w, n)
  <2>1. PICK w \in {{}} \cup {{x} : x \in Sleepers(s)}, n \in Task :
               Taken(c, rs, vr, q, s, w, n)
    BY <1>7
  <2>2. /\ Joined(q, w)[n] > 0
        /\ current' = n
        /\ ready' = [Joined(q, w) EXCEPT ![n] = @ - 1]
        /\ Sleepers(sleepq)' = Sleepers(s) \ w
        /\ fault' = fault
    BY <2>1 DEF Taken, SwitchTo, Sleepers
  <2>3. Bag!Take(q, Sleepers(s))
    BY <2>2 DEF Bag!Take, Joined
  <2>4. Bag!Yield
    BY <1>5, <2>3 DEF Bag!Yield
  <2> QED
    BY <1>1, <2>4 DEF Bag!Next
<1> QED
  BY <1>4, <1>6, <1>7

LEMMA StepImplements == IInv /\ IInv' /\ [Next]_vars => [Bag!Next]_(Bag!bagVars)
<1> SUFFICES ASSUME IInv, [Next]_vars PROVE [Bag!Next]_(Bag!bagVars)
  OBVIOUS
<1>1. CASE UNCHANGED vars \/ Compute \/ Elapse
  <2>1. UNCHANGED <<current, ready, sleepq, fault>>
    BY <1>1 DEF vars, dispatchVars, Compute, Elapse
  <2> QED
    BY <2>1 DEF Bag!bagVars, Sleepers
<1>2. ASSUME NEW c \in Task, Yield(c) \/ Block(c) \/ Exit(c) PROVE Bag!Next
  BY <1>2, YieldGivesUp, BlockGivesUp, ExitGivesUp, GiveUpImplements
<1>3. ASSUME NEW c \in Task, NEW d \in Durations, SleepFor(c, d) PROVE Bag!Next
  BY <1>3, SleepForGivesUp, GiveUpImplements
<1>4. ASSUME NEW c \in Task, NEW t \in Task, Spawn(c, t) \/ Wake(c, t) PROVE Bag!Next
  <2>1. ready[t] = 0 /\ t \notin Sleepers(sleepq) /\ t # current
    <3>1. CASE Spawn(c, t)
      BY <3>1 DEF Spawn, IInv, PlaceInv
    <3>2. CASE Wake(c, t)
      BY <3>2, BlockedRested DEF Wake
    <3> QED
      BY <1>4, <3>1, <3>2
  <2>2. ready' = Push(ready, t) /\ UNCHANGED <<current, sleepq, fault>> /\ fault = "none"
    BY <1>4 DEF Spawn, Wake
  <2>3. Sleepers(sleepq)' = Sleepers(sleepq)
    BY <2>2 DEF Sleepers
  <2>4. Bag!Schedule
    BY <2>1, <2>2, <2>3 DEF Bag!Schedule, Bag!Add, Push
  <2> QED
    BY <2>2, <2>4 DEF Bag!Next
<1>5. ASSUME NEW c \in Task, NEW t \in Task, Handoff(c, t) PROVE Bag!Next
  <2>1. t \in Blocked /\ current' = t /\ fault = "none" /\ UNCHANGED <<ready, sleepq, fault>>
    BY <1>5 DEF Handoff, SwitchTo, Looks
  <2>2. ready[t] = 0 /\ t \notin Sleepers(sleepq) /\ t # current
    BY <2>1, BlockedRested
  <2>3. Sleepers(sleepq)' = Sleepers(sleepq)
    BY <2>1 DEF Sleepers
  <2>4. Bag!Handoff
    BY <2>1, <2>2, <2>3 DEF Bag!Handoff
  <2> QED
    BY <2>1, <2>4 DEF Bag!Next
<1> QED
  BY <1>1, <1>2, <1>3, <1>4, <1>5 DEF Next

LEMMA InitImplements == Init => Bag!Init
  BY DEF Init, Bag!Init, Sleepers

(***************************************************************************)
(* The ordered run queue and the sleep queue implement the bags that       *)
(* module RunBag promises and module Sched uses: whatever the clocks read, *)
(* the task that get_next_task takes was queued or handed over by the      *)
(* sleep queue, once, and is on neither queue afterwards.                  *)
(***************************************************************************)
THEOREM Implementation == Spec => ImplementsRunBag
<1>1. Spec => Bag!Init /\ [][Bag!Next]_(Bag!bagVars)
  BY InitImplements, StepImplements, Invariant, PTL DEF Spec
<1> QED
  BY <1>1 DEF ImplementsRunBag, Bag!Spec

=============================================================================
