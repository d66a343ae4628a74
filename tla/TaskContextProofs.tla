-------------------------- MODULE TaskContextProofs --------------------------
(***************************************************************************)
(* Proofs about module TaskContext, for any number of tasks and modules,   *)
(* any attributes and any limit of the free list: type correctness and the *)
(* safety invariants of run context.                                       *)
(***************************************************************************)
EXTENDS TaskContext, TLAPS, SequenceTheorems, FiniteSetTheorems, WellFoundedInduction

-----------------------------------------------------------------------------
(* The inductive invariant: control *)

(* On the way out of a task, or swapped out by it. *)
Left == Switching \cup {"back"}

(* Where a task is in its own code, or will be when it is back. *)
Place(t) == IF pc[t] \in Left THEN back[t] ELSE pc[t]

(* One stack executes; the others have been left, and the one that starts a
   new task waits for it. *)
FrameInv ==
  /\ stack \in live
  /\ pc[stack] \notin {"gone", "none"}
  /\ pc[stack] = "back" => back[stack] # "entry"
  /\ \A t \in Task :
       /\ t # stack => \/ pc[t] \in {"back", "entry", "gone", "none"}
                       \/ pc[t] = "started" /\ pc[stack] = "born" /\ prev[stack] = t
       /\ pc[t] \in Left => prev[t] = t /\ no_preempt_flag[t]
       /\ pc[t] = "back" => back[t] # "gone"
  /\ pc[stack] = "born" => /\ prev[stack] \in live \ {stack}
                           /\ pc[prev[stack]] = "started"
                           /\ made[prev[stack]] = stack

(* What run_state says of where a task is. *)
StateInv ==
  \A t \in Task :
    /\ Place(t) \in {"gone", "none", "born"} => run_state[t] = "STOPPED"
    /\ pc[t] \in {"user", "start", "started"} => run_state[t] = "RUNNING"
    /\ pc[t] = "entry" => run_state[t] = "SUSPENDED" \/ (run_state[t] = "STOPPED" /\ t # stack)
    /\ pc[t] \in Left /\ back[t] # "gone" => run_state[t] \in {"SUSPENDED", "WAITING"}
    /\ pc[t] \in Left /\ back[t] = "entry" => run_state[t] = "SUSPENDED"

(* Who can be switched to: a task that was scheduled and has never run, or
   one that was left and has not exited; one that a tick took away before it
   was set RUNNING is lost. *)
CanRun(t) ==
  /\ t \in live
  /\ \/ pc[t] = "entry" /\ run_state[t] = "SUSPENDED"
     \/ pc[t] \in Left /\ back[t] \notin {"gone", "entry"}

QueueInv ==
  /\ \A t \in queued : CanRun(t) /\ (t = stack => pc[t] \in Switching)
  /\ pc[stack] \in Switching =>
       CanRun(to[stack]) /\ to[stack] # stack /\ to[stack] \notin queued

(* The tasks that are being spawned: each by one spawner, not yet scheduled. *)
Making(t) == Place(t) \in {"start", "started"}

MadeInv ==
  /\ \A t \in Task :
       /\ Place(t) = "start" => made[t] \in live /\ pc[made[t]] = "none"
       /\ Place(t) = "started" => /\ made[t] \in live /\ pc[made[t]] \in {"born", "entry"}
                                  /\ run_state[made[t]] = "STOPPED"
       /\ Making(t) => ~ no_preempt_flag[made[t]]
  /\ \A t, u \in Task : Making(t) /\ Making(u) /\ made[t] = made[u] => t = u

(* Memory is a task's, or in the free list once, or free. *)
LiveInv ==
  /\ \A t \in Task \ live : pc[t] = "none"
  /\ ToSet(pool) \cap live = {}
  /\ \A i, j \in DOMAIN pool : pool[i] = pool[j] => i = j

ControlInv == FrameInv /\ StateInv /\ QueueInv /\ MadeInv /\ LiveInv /\ OwnContext

-----------------------------------------------------------------------------
(* The inductive invariant: TLS *)

(* In whose name the executing stack acts. *)
Bearer == CASE pc[stack] \in {"thunk", "go"} -> to[stack]
            [] pc[stack] = "born" -> prev[stack]
            [] OTHER -> stack

(* The block in use knows its node and is set up ... *)
Usable == tls[fs].node /\ tls[fs].ctype

(* ... or s, which borrows it, has just recycled its owner. *)
Stolen(s) == fs = made[s] /\ ~ has_tls[s] /\ ~ tls[fs].node

(* A task that has yet to run for the first time. *)
Young(t) == t \in live /\ pc[t] \in {"none", "born", "entry"}

NameInv ==
  /\ Current = Bearer
  /\ has_tls[fs]
  /\ fs \in live \cup ToSet(pool)
  /\ has_tls[Bearer] => fs = Bearer
  /\ pc[stack] = "thunk" => tls[fs].ctype
  /\ pc[stack] \in {"start", "started"} => Usable \/ Stolen(stack)
  /\ pc[stack] = "born" => Usable \/ Stolen(prev[stack])
  /\ pc[stack] \in {"user", "tls", "go", "back", "entry"} => Usable
  /\ Young(fs) => \/ fs = stack /\ pc[stack] = "entry"
                  \/ pc[stack] \in {"thunk", "go"} /\ fs = to[stack]
                  \/ pc[stack] \in {"start", "born", "started"} /\ ~ tls[fs].node

(* A block that was unmapped under the running task has no such promise. *)
TlsInv == fault # "dead tls" => NameInv

(* Blocks of dynamic TLS are behind entries that reset and ~tls look at. *)
DtvInv ==
  \A t \in Task :
    /\ tls[t].dtv[1] # Block /\ tls[t].dtv[Modules + 1] # Block
    /\ ~ has_tls[t] => Blocks(tls[t]) = {}

YoungInv ==
  \A t \in Task :
    Young(t) /\ has_tls[t] =>
      (\A m \in Static : tls[t].data[m] # "dirty") /\ Blocks(tls[t]) = {}

FreeInv == \A t \in Free : ~ has_tls[t]

(* The entries that point to a block. *)
Entries(f) == {e \in Task \X (1..Modules) : f[e[1]].dtv[e[2]] = Block}

HeapInv == IsFiniteSet(Entries(tls)) /\ heap = Cardinality(Entries(tls))

MemoryInv == DtvInv /\ YoungInv /\ FreeInv /\ HeapInv

IInv == TypeOK /\ ControlInv /\ TlsInv /\ MemoryInv /\ OnlyBorrowersFail

-----------------------------------------------------------------------------
(* The free list *)

(* Any positions but none have a first one. *)
LEMMA FirstPosition ==
  ASSUME NEW S, S \subseteq Nat, S # {}
  PROVE  Min(S) \in S
<1>1. \E x \in S : \A y \in S : ~ (<<y, x>> \in OpToRel(<, Nat))
  BY NatLessThanWellFounded, WFMin
<1>2. PICK x \in S : \A y \in S : ~ (<<y, x>> \in OpToRel(<, Nat))
  BY <1>1
<1>3. \A y \in S : ~ (y < x)
  BY <1>2 DEF OpToRel
<1>4. \A y \in S : x =< y
  BY <1>3
<1> QED
  BY <1>4 DEF Min

(* A list with one element more. *)
LEMMA InsertEffect ==
  ASSUME NEW p \in Seq(Task), NEW t \in Task, t \notin ToSet(p), NEW i \in 1..Len(p) + 1,
         \A k, j \in DOMAIN p : p[k] = p[j] => k = j
  PROVE  /\ InsertAt(p, i, t) \in Seq(Task)
         /\ ToSet(InsertAt(p, i, t)) = ToSet(p) \cup {t}
         /\ \A k, j \in DOMAIN InsertAt(p, i, t) :
              InsertAt(p, i, t)[k] = InsertAt(p, i, t)[j] => k = j
<1> DEFINE a == SubSeq(p, 1, i - 1)
           b == SubSeq(p, i, Len(p))
           d == a \o <<t>>
           q == InsertAt(p, i, t)
<1>1. Len(p) \in Nat /\ DOMAIN p = 1..Len(p) /\ i \in 1..Len(p) + 1
  OBVIOUS
<1>2. a \in Seq(Task) /\ Len(a) = i - 1 /\ \A k \in 1..i - 1 : a[k] = p[k]
  BY <1>1
<1>3. /\ b \in Seq(Task) /\ Len(b) = Len(p) - i + 1
      /\ \A k \in 1..Len(p) - i + 1 : b[k] = p[i + k - 1]
  BY <1>1
<1> HIDE DEF a, b
<1>4. d \in Seq(Task) /\ Len(d) = i /\ d[i] = t /\ \A k \in 1..i - 1 : d[k] = p[k]
  BY <1>1, <1>2
<1> HIDE DEF d
<1>5. q = d \o b
  BY DEF q, a, b, d, InsertAt
<1> HIDE DEF q
<1>6. /\ q \in Seq(Task) /\ Len(q) = Len(p) + 1
      /\ \A k \in 1..Len(q) : q[k] = IF k <= i THEN d[k] ELSE b[k - i]
  <2>0. d \in Seq(Task) /\ b \in Seq(Task)
    BY <1>3, <1>4
  <2>1. /\ d \o b \in Seq(Task) /\ Len(d \o b) = Len(d) + Len(b)
        /\ \A k \in 1..Len(d) + Len(b) :
             (d \o b)[k] = IF k <= Len(d) THEN d[k] ELSE b[k - Len(d)]
    BY <2>0, ConcatProperties, Zenon
  <2>2. Len(d) + Len(b) = Len(p) + 1
    BY <1>1, <1>3, <1>4
  <2> QED
    BY <1>4, <1>5, <2>1, <2>2
<1>7. \A k \in 1..Len(p) + 1 :
        \/ k < i /\ q[k] = p[k] /\ k \in 1..Len(p)
        \/ k = i /\ q[k] = t
        \/ k > i /\ q[k] = p[k - 1] /\ k - 1 \in 1..Len(p)
  <2> SUFFICES ASSUME NEW k \in 1..Len(p) + 1
               PROVE  \/ k < i /\ q[k] = p[k] /\ k \in 1..Len(p)
                      \/ k = i /\ q[k] = t
                      \/ k > i /\ q[k] = p[k - 1] /\ k - 1 \in 1..Len(p)
    OBVIOUS
  <2>1. CASE k <= i
    BY <1>1, <1>4, <1>6, <2>1
  <2>2. CASE k > i
    <3>1. k - i \in 1..Len(p) - i + 1 /\ i + (k - i) - 1 = k - 1
      BY <1>1, <2>2
    <3>2. b[k - i] = p[k - 1]
      BY <1>3, <3>1
    <3> QED
      BY <1>1, <1>6, <2>2, <3>2
  <2> QED
    BY <1>1, <2>1, <2>2
<1>8. DOMAIN q = 1..Len(p) + 1
  BY <1>6
<1>9. \A k \in 1..Len(p) : p[k] # t
  BY <1>1 DEF ToSet
<1>10. \A k, j \in DOMAIN q : q[k] = q[j] => k = j
  <2> SUFFICES ASSUME NEW k \in DOMAIN q, NEW j \in DOMAIN q, q[k] = q[j] PROVE k = j
    OBVIOUS
  <2>1. CASE k = i \/ j = i
    BY <1>1, <1>7, <1>8, <1>9, <2>1
  <2>2. CASE k # i /\ j # i
    <3>1. PICK x \in 1..Len(p) : q[k] = p[x] /\ x = IF k < i THEN k ELSE k - 1
      BY <1>1, <1>7, <1>8, <2>2
    <3>2. PICK y \in 1..Len(p) : q[j] = p[y] /\ y = IF j < i THEN j ELSE j - 1
      BY <1>1, <1>7, <1>8, <2>2
    <3>3. x = y
      BY <1>1, <3>1, <3>2
    <3> QED
      BY <1>1, <1>8, <2>2, <3>1, <3>2, <3>3
  <2> QED
    BY <2>1, <2>2
<1>11. ToSet(q) \subseteq ToSet(p) \cup {t}
  BY <1>1, <1>7, <1>8 DEF ToSet
<1>12. ToSet(p) \cup {t} \subseteq ToSet(q)
  <2>1. ASSUME NEW k \in 1..Len(p) PROVE p[k] \in ToSet(q)
    <3>1. CASE k < i
      BY <1>1, <1>7, <1>8, <3>1 DEF ToSet
    <3>2. CASE k >= i
      <4>1. k + 1 \in DOMAIN q /\ q[k + 1] = p[k]
        BY <1>1, <1>7, <1>8, <3>2
      <4> QED
        BY <4>1 DEF ToSet
    <3> QED
      BY <1>1, <3>1, <3>2
  <2>2. t \in ToSet(q)
    BY <1>1, <1>7, <1>8 DEF ToSet
  <2> QED
    BY <1>1, <2>1, <2>2 DEF ToSet
<1> QED
  BY <1>6, <1>10, <1>11, <1>12 DEF q

(* A list with one element less. *)
LEMMA RemoveEffect ==
  ASSUME NEW p \in Seq(Task), NEW i \in DOMAIN p,
         \A k, j \in DOMAIN p : p[k] = p[j] => k = j
  PROVE  /\ RemoveAt(p, i) \in Seq(Task)
         /\ ToSet(RemoveAt(p, i)) = ToSet(p) \ {p[i]}
         /\ \A k, j \in DOMAIN RemoveAt(p, i) : RemoveAt(p, i)[k] = RemoveAt(p, i)[j] => k = j
         /\ p[i] \in Task
<1> DEFINE a == SubSeq(p, 1, i - 1)
           b == SubSeq(p, i + 1, Len(p))
           q == RemoveAt(p, i)
<1>1. Len(p) \in Nat /\ DOMAIN p = 1..Len(p) /\ i \in 1..Len(p)
  OBVIOUS
<1>2. a \in Seq(Task) /\ Len(a) = i - 1 /\ \A k \in 1..i - 1 : a[k] = p[k]
  BY <1>1
<1>3. /\ b \in Seq(Task) /\ Len(b) = Len(p) - i
      /\ \A k \in 1..Len(p) - i : b[k] = p[i + k]
  <2>1. PICK n \in 1..Len(p) + 1 : n = i + 1
    BY <1>1
  <2>2. /\ SubSeq(p, n, Len(p)) \in Seq(Task) /\ Len(SubSeq(p, n, Len(p))) = Len(p) - n + 1
        /\ \A k \in 1..Len(p) - n + 1 : SubSeq(p, n, Len(p))[k] = p[n + k - 1]
    BY <1>1
  <2>3. b = SubSeq(p, n, Len(p)) /\ Len(p) - n + 1 = Len(p) - i
    BY <1>1, <2>1
  <2>4. \A k \in 1..Len(p) - i : n + k - 1 = i + k
    BY <1>1, <2>1
  <2> HIDE DEF b
  <2> QED
    BY <2>2, <2>3, <2>4
<1> HIDE DEF a, b
<1>4. q = a \o b
  BY DEF q, a, b, RemoveAt
<1> HIDE DEF q
<1>5. /\ q \in Seq(Task) /\ Len(q) = Len(p) - 1
      /\ \A k \in 1..Len(q) : q[k] = IF k <= i - 1 THEN a[k] ELSE b[k - (i - 1)]
  <2>0. a \in Seq(Task) /\ b \in Seq(Task)
    BY <1>2, <1>3
  <2>1. /\ a \o b \in Seq(Task) /\ Len(a \o b) = Len(a) + Len(b)
        /\ \A k \in 1..Len(a) + Len(b) :
             (a \o b)[k] = IF k <= Len(a) THEN a[k] ELSE b[k - Len(a)]
    BY <2>0, ConcatProperties, Zenon
  <2>2. Len(a) + Len(b) = Len(p) - 1
    BY <1>1, <1>2, <1>3
  <2> QED
    BY <1>2, <1>4, <2>1, <2>2
<1>6. \A k \in 1..Len(p) - 1 :
        \/ k < i /\ q[k] = p[k]
        \/ k >= i /\ q[k] = p[k + 1]
  <2> SUFFICES ASSUME NEW k \in 1..Len(p) - 1
               PROVE  (k < i /\ q[k] = p[k]) \/ (k >= i /\ q[k] = p[k + 1])
    OBVIOUS
  <2>1. CASE k < i
    BY <1>1, <1>2, <1>5, <2>1
  <2>2. CASE k >= i
    <3>1. k - (i - 1) \in 1..Len(p) - i /\ i + (k - (i - 1)) = k + 1
      BY <1>1, <2>2
    <3>2. b[k - (i - 1)] = p[k + 1]
      BY <1>3, <3>1
    <3> QED
      BY <1>1, <1>5, <2>2, <3>2
  <2> QED
    BY <1>1, <2>1, <2>2
<1>7. DOMAIN q = 1..Len(p) - 1
  BY <1>1, <1>5
<1>8. \A k, j \in DOMAIN q : q[k] = q[j] => k = j
  <2> SUFFICES ASSUME NEW k \in DOMAIN q, NEW j \in DOMAIN q, q[k] = q[j] PROVE k = j
    OBVIOUS
  <2>1. PICK x \in 1..Len(p) : q[k] = p[x] /\ x = IF k < i THEN k ELSE k + 1
    BY <1>1, <1>6, <1>7
  <2>2. PICK y \in 1..Len(p) : q[j] = p[y] /\ y = IF j < i THEN j ELSE j + 1
    BY <1>1, <1>6, <1>7
  <2>3. x = y
    BY <1>1, <2>1, <2>2
  <2> QED
    BY <1>1, <1>7, <2>1, <2>2, <2>3
<1>9. ToSet(q) \subseteq ToSet(p) \ {p[i]}
  <2> SUFFICES ASSUME NEW k \in DOMAIN q PROVE q[k] \in ToSet(p) \ {p[i]}
    BY DEF ToSet
  <2>1. CASE k < i
    BY <1>1, <1>6, <1>7, <2>1 DEF ToSet
  <2>2. CASE k >= i
    <3>1. k + 1 \in DOMAIN p /\ k + 1 # i /\ q[k] = p[k + 1]
      BY <1>1, <1>6, <1>7, <2>2
    <3> QED
      BY <3>1 DEF ToSet
  <2> QED
    BY <1>1, <1>7, <2>1, <2>2
<1>10. ToSet(p) \ {p[i]} \subseteq ToSet(q)
  <2> SUFFICES ASSUME NEW k \in DOMAIN p, k # i PROVE p[k] \in ToSet(q)
    BY DEF ToSet
  <2>1. CASE k < i
    BY <1>1, <1>6, <1>7, <2>1 DEF ToSet
  <2>2. CASE k > i
    <3>1. k - 1 \in DOMAIN q /\ q[k - 1] = p[k]
      BY <1>1, <1>6, <1>7, <2>2
    <3> QED
      BY <3>1 DEF ToSet
  <2> QED
    BY <1>1, <2>1, <2>2
<1> QED
  BY <1>5, <1>8, <1>9, <1>10 DEF q

-----------------------------------------------------------------------------
(* TLS blocks *)

LEMMA StaticIs ==
  Modules \in Nat /\ Static \subseteq 1..Modules /\ 1 \in Static
BY ModulesAssumption

(* A new block is empty: no dirty data, no dynamic TLS. *)
LEMMA NewTlsIs ==
  ASSUME NEW t \in Task
  PROVE  /\ NewTls(t) \in TlsBlocks(Task)
         /\ NewTls(t).thread = t /\ ~ NewTls(t).node /\ ~ NewTls(t).ctype
         /\ \A m \in Static : NewTls(t).data[m] # "dirty"
         /\ \A m \in 1..Modules + 1 : NewTls(t).dtv[m] # Block
         /\ Blocks(NewTls(t)) = {}
<1> USE StaticIs
<1>1. \A m \in 1..Modules + 1 : NewTls(t).dtv[m] # Block
  BY DEF NewTls, Block, Unallocated
<1>2. NewTls(t) \in TlsBlocks(Task)
  BY DEF NewTls, TlsBlocks, Dtvs, Unallocated
<1>3. Blocks(NewTls(t)) = {}
  BY <1>1 DEF Blocks
<1> QED
  BY <1>1, <1>2, <1>3 DEF NewTls

(* After a reset no entry but the first can be a dynamic block. *)
LEMMA ResetDtvIs ==
  ASSUME NEW d \in Dtvs
  PROVE  /\ ResetDtv(d) \in Dtvs
         /\ ResetDtv(d)[1] = d[1]
         /\ \A m \in 2..Modules + 1 : ResetDtv(d)[m] # Block
<1> USE StaticIs
<1>1. d[1] \in 0..Modules + 1
  BY DEF Dtvs
<1>2. ResetDtv(d)[1] = d[1]
  BY DEF ResetDtv
<1>3. \A m \in 2..Modules + 1 : ResetDtv(d)[m] \in 0..Modules
  BY DEF ResetDtv, Unallocated
<1>4. ResetDtv(d) \in Dtvs
  BY <1>1 DEF ResetDtv, Dtvs, Unallocated
<1> QED
  BY <1>2, <1>3, <1>4 DEF Block

(* A block that was reset is as empty as a new one, and keeps its name. *)
LEMMA ResetTlsIs ==
  ASSUME NEW b \in TlsBlocks(Task), b.dtv[1] # Block
  PROVE  /\ ResetTls(b) \in TlsBlocks(Task)
         /\ ResetTls(b).thread = b.thread /\ ~ ResetTls(b).node /\ ~ ResetTls(b).ctype
         /\ \A m \in Static : ResetTls(b).data[m] # "dirty"
         /\ \A m \in 1..Modules + 1 : ResetTls(b).dtv[m] # Block
         /\ Blocks(ResetTls(b)) = {}
<1> DEFINE d == ResetDtv(b.dtv)
<1>1. /\ b.thread \in Task /\ b.dtv \in Dtvs
      /\ b = [thread |-> b.thread, node |-> b.node, ctype |-> b.ctype, data |-> b.data,
              dtv |-> b.dtv]
  BY DEF TlsBlocks
<1>2. d \in Dtvs /\ d[1] = b.dtv[1] /\ \A m \in 2..Modules + 1 : d[m] # Block
  BY <1>1, ResetDtvIs
<1> HIDE DEF d
<1>3. PICK e \in [Static -> {"image", "torn", "dirty"}] :
        ResetData(b) = e /\ \A m \in Static : e[m] # "dirty"
  <2>1. /\ ResetData(b) \in [Static -> {"image", "torn", "dirty"}]
        /\ \A m \in Static : ResetData(b)[m] # "dirty"
    BY DEF ResetData
  <2> QED
    BY <2>1
<1>4. ResetTls(b) = [b EXCEPT !.node = FALSE, !.ctype = FALSE, !.data = e, !.dtv = d]
  BY <1>3, Zenon DEF ResetTls, d
<1>5. /\ ResetTls(b).thread = b.thread /\ ResetTls(b).node = FALSE
      /\ ResetTls(b).ctype = FALSE /\ ResetTls(b).data = e /\ ResetTls(b).dtv = d
  BY <1>1, <1>4
<1>6. ResetTls(b) = [thread |-> b.thread, node |-> FALSE, ctype |-> FALSE, data |-> e, dtv |-> d]
  BY <1>1, <1>4
<1>7. \A m \in 1..Modules + 1 : m = 1 \/ m \in 2..Modules + 1
  BY StaticIs
<1>8. \A m \in 1..Modules + 1 : ResetTls(b).dtv[m] # Block
  BY <1>2, <1>5, <1>7
<1>9. Blocks(ResetTls(b)) = {}
  BY <1>2, <1>5 DEF Blocks
<1>10. ResetTls(b) \in TlsBlocks(Task)
  BY <1>1, <1>2, <1>6 DEF TlsBlocks
<1> QED
  BY <1>3, <1>5, <1>8, <1>9, <1>10

(* A write to a thread_local leaves the head of the block alone and allocates at
   most the entry of its module. *)
LEMMA TouchTlsIs ==
  ASSUME NEW b \in TlsBlocks(Task), NEW m \in 1..Modules
  PROVE  /\ TouchTls(b, m) \in TlsBlocks(Task)
         /\ TouchTls(b, m).thread = b.thread
         /\ TouchTls(b, m).node = b.node
         /\ TouchTls(b, m).ctype = b.ctype
         /\ m \in 2..Modules \/ ~ Allocates(b, m)
         /\ Allocates(b, m) => b.dtv[m] # Block
         /\ TouchTls(b, m).dtv = IF Allocates(b, m) THEN [b.dtv EXCEPT ![m] = Block] ELSE b.dtv
<1> USE StaticIs
<1>1. /\ b.thread \in Task /\ b.dtv \in Dtvs /\ b.data \in [Static -> {"image", "torn", "dirty"}]
      /\ b.node \in BOOLEAN /\ b.ctype \in BOOLEAN
      /\ b = [thread |-> b.thread, node |-> b.node, ctype |-> b.ctype, data |-> b.data,
              dtv |-> b.dtv]
  BY DEF TlsBlocks
<1>2. m \in 2..Modules \/ m \in Static
  OBVIOUS
<1>3. Block # Unallocated /\ Block \in 0..Modules + 1
  BY DEF Block, Unallocated
<1>4. CASE Allocates(b, m)
  <2>1. TouchTls(b, m) = [thread |-> b.thread, node |-> b.node, ctype |-> b.ctype,
                          data |-> b.data, dtv |-> [b.dtv EXCEPT ![m] = Block]]
    BY <1>1, <1>4 DEF TouchTls, Allocates
  <2>2. [b.dtv EXCEPT ![m] = Block] \in Dtvs
    BY <1>1, <1>3 DEF Dtvs
  <2>3. TouchTls(b, m) \in TlsBlocks(Task)
    BY <1>1, <2>1, <2>2 DEF TlsBlocks
  <2> QED
    BY <1>2, <1>3, <1>4, <2>1, <2>3 DEF Allocates
<1>5. CASE ~ Allocates(b, m)
  <2>1. PICK e \in [Static -> {"image", "torn", "dirty"}] :
          TouchTls(b, m) = [thread |-> b.thread, node |-> b.node, ctype |-> b.ctype,
                            data |-> e, dtv |-> b.dtv]
    <3>1. CASE m \in Static
      <4>1. [b.data EXCEPT ![m] = "dirty"] \in [Static -> {"image", "torn", "dirty"}]
        BY <1>1
      <4> QED
        BY <1>1, <3>1, <4>1 DEF TouchTls
    <3>2. CASE m \notin Static /\ b.dtv[m] = Block
      BY <1>1, <1>3, <3>2 DEF TouchTls
    <3>3. CASE m \notin Static /\ b.dtv[m] # Block
      <4>1. [b.data EXCEPT ![b.dtv[m]] = "dirty"] \in [Static -> {"image", "torn", "dirty"}]
        BY <1>1
      <4>2. b.dtv[m] # Unallocated
        BY <1>5, <3>3 DEF Allocates
      <4> QED
        BY <1>1, <3>3, <4>1, <4>2 DEF TouchTls
    <3> QED
      BY <3>1, <3>2, <3>3
  <2>2. TouchTls(b, m) \in TlsBlocks(Task)
    BY <1>1, <2>1 DEF TlsBlocks
  <2> QED
    BY <1>5, <2>1, <2>2
<1> QED
  BY <1>4, <1>5

-----------------------------------------------------------------------------
(* Counting the blocks of dynamic TLS *)

(* What the blocks of task t add to the whole. *)
LEMMA BlocksOfOne ==
  ASSUME NEW f \in [Task -> TlsBlocks(Task)], NEW t \in Task,
         f[t].dtv[1] # Block, f[t].dtv[Modules + 1] # Block
  PROVE  /\ IsFiniteSet(Blocks(f[t])) /\ Cardinality(Blocks(f[t])) \in Nat
         /\ {t} \X Blocks(f[t]) = {e \in Entries(f) : e[1] = t}
         /\ IsFiniteSet({t} \X Blocks(f[t]))
         /\ Cardinality({t} \X Blocks(f[t])) = Cardinality(Blocks(f[t]))
<1> USE StaticIs
<1> DEFINE B == Blocks(f[t])
<1>1. B \subseteq 2..Modules + 1 /\ IsFiniteSet(2..Modules + 1)
  BY FS_Interval DEF Blocks
<1>2. IsFiniteSet(B) /\ Cardinality(B) \in Nat
  BY <1>1, FS_Subset, FS_CardinalityType
<1>3. \A m : m \in B <=> m \in 1..Modules /\ f[t].dtv[m] = Block
  BY DEF Blocks
<1>4. {t} \X B = {e \in Entries(f) : e[1] = t}
  <2>1. ASSUME NEW e \in {t} \X B PROVE e \in Entries(f) /\ e[1] = t
    <3>1. e = <<t, e[2]>> /\ e[2] \in B
      OBVIOUS
    <3> HIDE DEF B
    <3> QED
      BY <1>3, <3>1 DEF Entries
  <2>2. ASSUME NEW e \in Entries(f), e[1] = t PROVE e \in {t} \X B
    <3>1. e \in Task \X (1..Modules) /\ f[t].dtv[e[2]] = Block
      BY <2>2 DEF Entries
    <3> HIDE DEF B
    <3>2. e[2] \in B
      BY <1>3, <3>1
    <3> QED
      BY <2>2, <3>1, <3>2
  <2> HIDE DEF B
  <2> QED
    BY <2>1, <2>2
<1> HIDE DEF B
<1>5. IsFiniteSet({t}) /\ Cardinality({t}) = 1
  BY FS_Singleton
<1>6. IsFiniteSet({t} \X B) /\ Cardinality({t} \X B) = 1 * Cardinality(B)
  BY <1>2, <1>5, FS_Product
<1> QED
  BY <1>2, <1>4, <1>6 DEF B

(* Task t's blocks are freed and its entries emptied. *)
LEMMA BlocksFreed ==
  ASSUME NEW f \in [Task -> TlsBlocks(Task)], NEW t \in Task, NEW b,
         f[t].dtv[1] # Block, f[t].dtv[Modules + 1] # Block,
         \A m \in 1..Modules : b.dtv[m] # Block,
         IsFiniteSet(Entries(f))
  PROVE  LET g == [f EXCEPT ![t] = b]
         IN  /\ IsFiniteSet(Entries(g))
             /\ Cardinality(Entries(g)) = Cardinality(Entries(f)) - Cardinality(Blocks(f[t]))
             /\ Cardinality(Entries(g)) \in Nat
<1> DEFINE g == [f EXCEPT ![t] = b]
           T == {t} \X Blocks(f[t])
<1>1. /\ Cardinality(Blocks(f[t])) \in Nat
      /\ T = {e \in Entries(f) : e[1] = t}
      /\ IsFiniteSet(T) /\ Cardinality(T) = Cardinality(Blocks(f[t]))
  BY BlocksOfOne
<1>2. g[t] = b /\ \A u \in Task \ {t} : g[u] = f[u]
  OBVIOUS
<1> HIDE DEF g, T
<1>3. Entries(g) = Entries(f) \ T
  <2>1. ASSUME NEW e \in Task \X (1..Modules) PROVE e \in Entries(g) <=> e \in Entries(f) \ T
    <3>1. CASE e[1] = t
      BY <1>1, <1>2, <3>1 DEF Entries
    <3>2. CASE e[1] # t
      BY <1>1, <1>2, <3>2 DEF Entries
    <3> QED
      BY <3>1, <3>2
  <2>2. Entries(g) \subseteq Task \X (1..Modules) /\ Entries(f) \subseteq Task \X (1..Modules)
    BY DEF Entries
  <2> QED
    BY <2>1, <2>2
<1>4. Entries(f) \cap T = T
  BY <1>1
<1>5. /\ IsFiniteSet(Entries(f) \ T)
      /\ Cardinality(Entries(f) \ T) = Cardinality(Entries(f)) - Cardinality(T)
      /\ Cardinality(Entries(f) \ T) \in Nat
  BY <1>4, FS_Difference, FS_CardinalityType
<1> QED
  BY <1>1, <1>3, <1>5 DEF g

(* A block is allocated for entry m of task t. *)
LEMMA BlockAllocated ==
  ASSUME NEW f \in [Task -> TlsBlocks(Task)], NEW t \in Task, NEW m \in 1..Modules, NEW b,
         f[t].dtv[m] # Block, b.dtv = [f[t].dtv EXCEPT ![m] = Block],
         IsFiniteSet(Entries(f))
  PROVE  LET g == [f EXCEPT ![t] = b]
         IN  /\ IsFiniteSet(Entries(g))
             /\ Cardinality(Entries(g)) = Cardinality(Entries(f)) + 1
<1> USE StaticIs
<1> DEFINE g == [f EXCEPT ![t] = b]
<1>1. g[t] = b /\ \A u \in Task \ {t} : g[u] = f[u]
  OBVIOUS
<1> HIDE DEF g
<1>2. f[t].dtv \in Dtvs
  BY DEF TlsBlocks
<1>3. b.dtv[m] = Block /\ \A k \in 1..Modules : k # m => b.dtv[k] = f[t].dtv[k]
  BY <1>2 DEF Dtvs
<1>4. Entries(g) = Entries(f) \cup {<<t, m>>} /\ <<t, m>> \notin Entries(f)
  <2>1. ASSUME NEW e \in Task \X (1..Modules)
        PROVE  e \in Entries(g) <=> e \in Entries(f) \/ e = <<t, m>>
    <3>1. e = <<e[1], e[2]>> /\ e[1] \in Task /\ e[2] \in 1..Modules
      OBVIOUS
    <3>2. CASE e[1] = t /\ e[2] = m
      BY <1>1, <1>3, <3>1, <3>2 DEF Entries
    <3>3. CASE e[1] = t /\ e[2] # m
      <4>1. g[e[1]].dtv[e[2]] = f[e[1]].dtv[e[2]]
        BY <1>1, <1>3, <3>1, <3>3
      <4>2. e # <<t, m>>
        BY <3>3
      <4> QED
        BY <4>1, <4>2 DEF Entries
    <3>4. CASE e[1] # t
      BY <1>1, <3>1, <3>4 DEF Entries
    <3> QED
      BY <3>2, <3>3, <3>4
  <2>2. Entries(g) \subseteq Task \X (1..Modules) /\ Entries(f) \subseteq Task \X (1..Modules)
    BY DEF Entries
  <2>3. <<t, m>> \notin Entries(f)
    BY DEF Entries
  <2> QED
    BY <2>1, <2>2, <2>3
<1>5. /\ IsFiniteSet(Entries(f) \cup {<<t, m>>})
      /\ Cardinality(Entries(f) \cup {<<t, m>>}) = Cardinality(Entries(f)) + 1
  BY <1>4, FS_AddElement
<1> QED
  BY <1>4, <1>5 DEF g

(* A block of TLS is written to, and its dtv left alone. *)
LEMMA BlocksStay ==
  ASSUME NEW f \in [Task -> TlsBlocks(Task)], NEW t \in Task, NEW b, b.dtv = f[t].dtv
  PROVE  Entries([f EXCEPT ![t] = b]) = Entries(f)
<1> DEFINE g == [f EXCEPT ![t] = b]
<1>1. \A u \in Task : g[u].dtv = f[u].dtv
  OBVIOUS
<1> HIDE DEF g
<1> QED
  BY <1>1 DEF Entries, g

-----------------------------------------------------------------------------
(* Control: one lemma per action *)

(* The parts of the type invariant about control. *)
LEMMA Types ==
  ASSUME TypeOK
  PROVE  /\ live \subseteq Task /\ pool \in Seq(Task)
         /\ run_state \in [Task -> {"RUNNING", "SUSPENDED", "STOPPED", "WAITING"}]
         /\ no_preempt_flag \in [Task -> BOOLEAN]
         /\ queued \subseteq Task
         /\ stack \in Task
         /\ ctx \in [Task -> Task \cup {NULL}]
         /\ pc \in [Task -> Places]
         /\ back \in [Task -> {"user", "start", "started", "entry", "gone"}]
         /\ prev \in [Task -> Task \cup {NULL}]
         /\ to \in [Task -> Task \cup {NULL}]
         /\ made \in [Task -> Task \cup {NULL}]
         /\ has_tls \in [Task -> BOOLEAN]
         /\ tls \in [Task -> TlsBlocks(Task)]
         /\ fs \in Task
         /\ max_size \in 0..MaxPool /\ size \in [Task -> Nat] /\ heap \in Nat
         /\ fault \in Faults
  BY Zenon DEF TypeOK

(* ... and what makes it hold after a step. *)
LEMMA TypesNext ==
  ASSUME live' \subseteq Task, pool' \in Seq(Task),
         run_state' \in [Task -> {"RUNNING", "SUSPENDED", "STOPPED", "WAITING"}],
         no_preempt_flag' \in [Task -> BOOLEAN],
         queued' \subseteq Task,
         stack' \in Task,
         ctx' \in [Task -> Task \cup {NULL}],
         pc' \in [Task -> Places],
         back' \in [Task -> {"user", "start", "started", "entry", "gone"}],
         prev' \in [Task -> Task \cup {NULL}],
         to' \in [Task -> Task \cup {NULL}],
         made' \in [Task -> Task \cup {NULL}],
         has_tls' \in [Task -> BOOLEAN],
         tls' \in [Task -> TlsBlocks(Task)],
         fs' \in Task,
         max_size' \in 0..MaxPool, size' \in [Task -> Nat], heap' \in Nat,
         fault' \in Faults
  PROVE  TypeOK'
  BY Zenon DEF TypeOK

(* The assertions of task::start hold: nobody else has started the task. *)
LEMMA StartSucceeds ==
  ASSUME TypeOK, ControlInv, NEW s \in Task, Start(s), Current = s
  PROVE  /\ stack = s /\ pc[s] = "start"
         /\ made[s] \in live \ {s} /\ pc[made[s]] = "none"
         /\ run_state[made[s]] = "STOPPED"
         /\ ctx' = [ctx EXCEPT ![s] = s]
         /\ stack' = made[s]
         /\ prev' = [prev EXCEPT ![made[s]] = s]
         /\ pc' = [pc EXCEPT ![s] = "started", ![made[s]] = "born"]
         /\ UNCHANGED <<taskVars, memoryVars, tlsVars, to, made, back, fault>>
<1>1. stack = s /\ pc[s] = "start"
  BY DEF Start, At
<1>2. made[s] \in live /\ pc[made[s]] = "none"
  BY <1>1 DEF ControlInv, MadeInv, Place, Left, Switching
<1>3. made[s] # s
  BY <1>1, <1>2
<1>4. run_state[made[s]] = "STOPPED"
  BY <1>2, Types DEF ControlInv, StateInv, Place, Left, Switching
<1> QED
  BY <1>1, <1>2, <1>3, <1>4 DEF Start

(* task::start *)
LEMMA StartControl ==
  ASSUME TypeOK, ControlInv, NEW s \in Task, Start(s), Current = s
  PROVE  ControlInv'
<1> DEFINE n == made[s]
<1>1. /\ stack = s /\ pc[s] = "start" /\ n \in live /\ n # s /\ pc[n] = "none"
      /\ run_state[n] = "STOPPED"
      /\ ctx' = [ctx EXCEPT ![s] = s] /\ stack' = n
      /\ prev' = [prev EXCEPT ![n] = s]
      /\ pc' = [pc EXCEPT ![s] = "started", ![n] = "born"]
      /\ UNCHANGED <<run_state, no_preempt_flag, queued, live, pool, to, made, back>>
  BY StartSucceeds DEF taskVars, memoryVars
<1>2. n \in Task /\ pc \in [Task -> Places] /\ prev \in [Task -> Task \cup {NULL}]
      /\ ctx \in [Task -> Task \cup {NULL}] /\ live \subseteq Task /\ queued \subseteq Task
  BY <1>1, Types
<1>3. made[s] = n
  OBVIOUS
<1> HIDE DEF n
<1>4. /\ \A t \in Task : pc'[t] = IF t = s THEN "started" ELSE IF t = n THEN "born" ELSE pc[t]
      /\ \A t \in Task : prev'[t] = IF t = n THEN s ELSE prev[t]
      /\ \A t \in Task : ctx'[t] = IF t = s THEN s ELSE ctx[t]
  BY <1>1, <1>2
<1>5. FrameInv'
  BY <1>1, <1>2, <1>3, <1>4 DEF ControlInv, FrameInv, Left, Switching
<1>6. StateInv'
  BY <1>1, <1>2, <1>4 DEF ControlInv, StateInv, Place, Left, Switching
<1>7. QueueInv'
  BY <1>1, <1>2, <1>4 DEF ControlInv, QueueInv, CanRun, Left, Switching
<1>8. MadeInv'
  BY <1>1, <1>2, <1>3, <1>4 DEF ControlInv, MadeInv, Making, Place, Left, Switching
<1>9. LiveInv'
  BY <1>1, <1>2, <1>4 DEF ControlInv, LiveInv
<1>10. OwnContext'
  BY <1>1, <1>2, <1>4 DEF ControlInv, FrameInv, OwnContext
<1> QED
  BY <1>5, <1>6, <1>7, <1>8, <1>9, <1>10 DEF ControlInv

(* gthread_task_entry, back to the starter *)
LEMMA SwitchBackControl ==
  ASSUME TypeOK, ControlInv, NEW s \in Task, SwitchBack(s)
  PROVE  ControlInv'
<1> DEFINE p == prev[s]
<1>1. /\ stack = s /\ pc[s] = "born" /\ p \in live \ {s} /\ pc[p] = "started" /\ made[p] = s
      /\ run_state[s] = "STOPPED" /\ ctx[p] = p
      /\ ctx' = [ctx EXCEPT ![s] = s] /\ stack' = p
      /\ prev' = [prev EXCEPT ![s] = NULL]
      /\ pc' = [pc EXCEPT ![s] = "entry"]
      /\ UNCHANGED <<run_state, no_preempt_flag, queued, live, pool, to, made, back>>
  BY DEF SwitchBack, At, Goto, ControlInv, FrameInv, StateInv, OwnContext, Place, Left,
         Switching, taskVars, memoryVars
<1>2. p \in Task /\ pc \in [Task -> Places] /\ prev \in [Task -> Task \cup {NULL}]
      /\ ctx \in [Task -> Task \cup {NULL}] /\ live \subseteq Task /\ queued \subseteq Task
  BY <1>1, Types
<1>3. prev[s] = p
  OBVIOUS
<1> HIDE DEF p
<1>4. /\ \A t \in Task : pc'[t] = IF t = s THEN "entry" ELSE pc[t]
      /\ \A t \in Task : prev'[t] = IF t = s THEN NULL ELSE prev[t]
      /\ \A t \in Task : ctx'[t] = IF t = s THEN s ELSE ctx[t]
  BY <1>1, <1>2
<1>5. FrameInv'
  BY <1>1, <1>2, <1>3, <1>4 DEF ControlInv, FrameInv, Left, Switching
<1>6. StateInv'
  BY <1>1, <1>2, <1>4 DEF ControlInv, StateInv, Place, Left, Switching
<1>7. QueueInv'
  BY <1>1, <1>2, <1>4 DEF ControlInv, QueueInv, CanRun, Left, Switching
<1>8. MadeInv'
  BY <1>1, <1>2, <1>3, <1>4 DEF ControlInv, MadeInv, Making, Place, Left, Switching
<1>9. LiveInv'
  BY <1>1, <1>2, <1>4 DEF ControlInv, LiveInv
<1>10. OwnContext'
  BY <1>1, <1>2, <1>3, <1>4 DEF ControlInv, FrameInv, OwnContext
<1> QED
  BY <1>5, <1>6, <1>7, <1>8, <1>9, <1>10 DEF ControlInv

(* The end of spawn: the new task is on no queue yet. *)
LEMMA ScheduleControl ==
  ASSUME TypeOK, ControlInv, NEW s \in Task, Schedule(s), tls[fs].node
  PROVE  ControlInv'
<1> DEFINE n == made[s]
<1>1. /\ stack = s /\ pc[s] = "started" /\ n \in live /\ pc[n] \in {"born", "entry"}
      /\ run_state[n] = "STOPPED"
      /\ run_state' = [run_state EXCEPT ![n] = "SUSPENDED"]
      /\ queued' = queued \cup {n}
      /\ made' = [made EXCEPT ![s] = NULL]
      /\ pc' = [pc EXCEPT ![s] = "user"]
      /\ UNCHANGED <<no_preempt_flag, live, pool, prev, to, back, stack, ctx>>
  BY DEF Schedule, At, Goto, ControlInv, MadeInv, Place, Left, Switching, memoryVars
<1>2. n \in Task /\ pc \in [Task -> Places] /\ made \in [Task -> Task \cup {NULL}]
      /\ live \subseteq Task /\ queued \subseteq Task
      /\ run_state \in [Task -> {"RUNNING", "SUSPENDED", "STOPPED", "WAITING"}]
  BY <1>1, Types
<1>3. made[s] = n /\ n # s /\ pc[n] = "entry"
  BY <1>1, <1>2 DEF ControlInv, FrameInv
<1> HIDE DEF n
<1>4. /\ \A t \in Task : pc'[t] = IF t = s THEN "user" ELSE pc[t]
      /\ \A t \in Task : made'[t] = IF t = s THEN NULL ELSE made[t]
      /\ \A t \in Task : run_state'[t] = IF t = n THEN "SUSPENDED" ELSE run_state[t]
  BY <1>1, <1>2
<1>5. FrameInv'
  BY <1>1, <1>2, <1>3, <1>4 DEF ControlInv, FrameInv, Left, Switching
<1>6. StateInv'
  BY <1>1, <1>2, <1>3, <1>4 DEF ControlInv, StateInv, Place, Left, Switching
<1>7. QueueInv'
  BY <1>1, <1>2, <1>3, <1>4 DEF ControlInv, QueueInv, CanRun, Left, Switching
<1>8. MadeInv'
  BY <1>1, <1>2, <1>3, <1>4 DEF ControlInv, MadeInv, Making, Place, Left, Switching
<1>9. LiveInv'
  BY <1>1, <1>2, <1>4 DEF ControlInv, LiveInv
<1>10. OwnContext'
  BY <1>1, <1>2, <1>4 DEF ControlInv, OwnContext
<1> QED
  BY <1>5, <1>6, <1>7, <1>8, <1>9, <1>10 DEF ControlInv

(* The executing task leaves: it goes on where it was, or has exited. *)
LEMMA LeaveControl ==
  ASSUME TypeOK, ControlInv, NEW s \in Task, stack = s, Current = s,
         NEW state, NEW place, Leave(s, state, place),
         pc[s] \in {"user", "start", "started", "entry"},
         \/ place = pc[s] /\ state = run_state[s]
         \/ place = "user" /\ pc[s] = "user" /\ state = "WAITING"
         \/ place = "gone" /\ state = "STOPPED"
  PROVE  ControlInv'
<1> DEFINE q == IF state = "RUNNING" THEN queued \cup {s} ELSE queued
           rs == IF state = "RUNNING" THEN "SUSPENDED" ELSE state
<1>1. PICK n \in q \ {s} :
        /\ queued' = q \ {n}
        /\ run_state' = [run_state EXCEPT ![s] = rs]
        /\ no_preempt_flag' = [no_preempt_flag EXCEPT ![s] = TRUE]
        /\ prev' = [prev EXCEPT ![s] = s]
        /\ to' = [to EXCEPT ![s] = n]
        /\ back' = [back EXCEPT ![s] = place]
        /\ pc' = [pc EXCEPT ![s] = "tls"]
        /\ UNCHANGED <<live, pool, made, stack, ctx>>
  BY DEF Leave, Goto, Locked, memoryVars
<1>2. /\ pc \in [Task -> Places] /\ prev \in [Task -> Task \cup {NULL}]
      /\ to \in [Task -> Task \cup {NULL}] /\ no_preempt_flag \in [Task -> BOOLEAN]
      /\ back \in [Task -> {"user", "start", "started", "entry", "gone"}]
      /\ run_state \in [Task -> {"RUNNING", "SUSPENDED", "STOPPED", "WAITING"}]
      /\ live \subseteq Task /\ queued \subseteq Task
  BY Types
<1>3. n \in queued /\ n # s /\ n \in Task
  BY <1>1, <1>2
<1>4. /\ state = "RUNNING" => queued' = (queued \cup {s}) \ {n}
      /\ state # "RUNNING" => queued' = queued \ {n}
  BY <1>1
<1>5. /\ place = "gone" => rs = "STOPPED"
      /\ place # "gone" => rs \in {"SUSPENDED", "WAITING"}
      /\ place = "entry" => rs = "SUSPENDED" /\ state # "RUNNING"
      /\ state = "RUNNING" => place # "gone"
  BY DEF ControlInv, StateInv
<1> HIDE DEF q, rs
<1>6. /\ \A t \in Task : pc'[t] = IF t = s THEN "tls" ELSE pc[t]
      /\ \A t \in Task : prev'[t] = IF t = s THEN s ELSE prev[t]
      /\ \A t \in Task : to'[t] = IF t = s THEN n ELSE to[t]
      /\ \A t \in Task : back'[t] = IF t = s THEN place ELSE back[t]
      /\ \A t \in Task : run_state'[t] = IF t = s THEN rs ELSE run_state[t]
  BY <1>1, <1>2
<1>7. no_preempt_flag'[s] /\ \A t \in Task : t # s => no_preempt_flag'[t] = no_preempt_flag[t]
  BY <1>1, <1>2
<1>8. FrameInv'
  BY <1>1, <1>2, <1>6, <1>7 DEF ControlInv, FrameInv, Left, Switching
<1>9. StateInv'
  BY <1>1, <1>2, <1>5, <1>6 DEF ControlInv, StateInv, Place, Left, Switching
<1>10. QueueInv'
  <2>1. ASSUME NEW t \in queued, t # s PROVE CanRun(t)'
    BY <1>1, <1>2, <1>6, <2>1 DEF ControlInv, QueueInv, CanRun, Left, Switching
  <2>2. state = "RUNNING" => CanRun(s)'
    BY <1>1, <1>2, <1>5, <1>6 DEF ControlInv, FrameInv, CanRun, Left, Switching
  <2>3. s \notin queued
    BY DEF ControlInv, QueueInv, Switching
  <2> QED
    BY <1>1, <1>2, <1>3, <1>4, <1>6, <2>1, <2>2, <2>3 DEF QueueInv, Switching
<1>11. MadeInv'
  <2>1. \A t \in Task : (Place(t) = Place(t)') \/ (t = s /\ Place(t)' = "gone")
    BY <1>2, <1>6 DEF Place, Left, Switching
  <2>2. \A t \in Task : Making(t)' => Making(t)
    BY <2>1 DEF Making
  <2>3. ASSUME NEW t \in Task
        PROVE  /\ Place(t)' = "start" => (made[t] \in live /\ pc[made[t]] = "none")'
               /\ Place(t)' = "started" => (/\ made[t] \in live /\ pc[made[t]] \in {"born", "entry"}
                                            /\ run_state[made[t]] = "STOPPED")'
    <3>1. pc[s] = "entry" => run_state[s] # "STOPPED"
      BY DEF ControlInv, StateInv
    <3>2. made' = made /\ live' = live
      BY <1>1
    <3>3. Place(t)' = "start" => made[t] \in live /\ pc[made[t]] = "none"
      BY <2>1 DEF ControlInv, MadeInv
    <3>4. Place(t)' = "started" => /\ made[t] \in live /\ pc[made[t]] \in {"born", "entry"}
                                   /\ run_state[made[t]] = "STOPPED"
      BY <2>1 DEF ControlInv, MadeInv
    <3> QED
      BY <1>2, <1>6, <3>1, <3>2, <3>3, <3>4
  <2>4. ASSUME NEW t \in Task, Making(t)' PROVE ~ no_preempt_flag'[made'[t]]
    <3>1. Making(t) /\ made'[t] = made[t]
      BY <1>1, <2>2, <2>4
    <3>2. made[t] \in Task /\ made[t] # s /\ ~ no_preempt_flag[made[t]]
      BY <1>2, <3>1 DEF ControlInv, MadeInv, StateInv, Making
    <3> QED
      BY <1>7, <3>1, <3>2
  <2> QED
    BY <1>1, <2>2, <2>3, <2>4 DEF ControlInv, MadeInv
<1>12. LiveInv'
  BY <1>1, <1>2, <1>6 DEF ControlInv, LiveInv, FrameInv
<1>13. OwnContext'
  BY <1>1, <1>2, <1>6 DEF ControlInv, OwnContext
<1> QED
  BY <1>8, <1>9, <1>10, <1>11, <1>12, <1>13 DEF ControlInv

(* Who is WAITING was left and has not exited, so it can be switched to. *)
LEMMA WakeControl ==
  ASSUME TypeOK, ControlInv, NEW s \in Task, NEW t \in Task, Wake(s, t), tls[fs].node
  PROVE  ControlInv'
<1>1. /\ stack = s /\ pc[s] = "user" /\ run_state[t] = "WAITING"
      /\ queued' = queued \cup {t}
      /\ UNCHANGED <<run_state, no_preempt_flag, live, pool, prev, to, made, back, stack, ctx, pc>>
  BY DEF Wake, At, memoryVars, frameVars
<1>2. t # s /\ pc[t] \in {"back", "entry", "gone", "none"}
  BY <1>1 DEF ControlInv, StateInv, FrameInv
<1>3. pc[t] = "back" /\ back[t] \notin {"gone", "entry"} /\ t \in live
  BY <1>1, <1>2 DEF ControlInv, StateInv, FrameInv, LiveInv, Place, Left, Switching
<1>4. QueueInv'
  BY <1>1, <1>2, <1>3 DEF ControlInv, QueueInv, CanRun, Left, Switching
<1>5. (FrameInv /\ StateInv /\ MadeInv /\ LiveInv /\ OwnContext)'
  BY <1>1 DEF ControlInv, FrameInv, StateInv, MadeInv, Making, Place, LiveInv, OwnContext
<1> QED
  BY <1>4, <1>5 DEF ControlInv

(* Steps that leave control alone. *)
LEMMA ControlStays ==
  ASSUME ControlInv,
         UNCHANGED <<run_state, no_preempt_flag, queued, live, pool, prev, to, made, back,
                     stack, ctx, pc>>
  PROVE  ControlInv'
<1>1. (FrameInv /\ StateInv /\ MadeInv /\ LiveInv /\ OwnContext)'
  BY DEF ControlInv, FrameInv, StateInv, MadeInv, Making, Place, LiveInv, OwnContext
<1>2. QueueInv'
  BY DEF ControlInv, QueueInv, CanRun
<1> QED
  BY <1>1, <1>2 DEF ControlInv

(* The two steps between the choice of the next task and the switch. *)
LEMMA SwitchingControl ==
  ASSUME TypeOK, ControlInv, NEW s \in Task, NEW p \in {"thunk", "go"},
         stack = s, pc[s] \in {"tls", "thunk"}, pc' = [pc EXCEPT ![s] = p],
         UNCHANGED <<taskVars, memoryVars, frameVars, stack, ctx>>
  PROVE  ControlInv'
<1>1. UNCHANGED <<run_state, no_preempt_flag, queued, live, pool, prev, to, made, back, stack, ctx>>
  BY DEF taskVars, memoryVars, frameVars
<1>2. pc \in [Task -> Places] /\ live \subseteq Task /\ queued \subseteq Task
      /\ to \in [Task -> Task \cup {NULL}] /\ made \in [Task -> Task \cup {NULL}]
  BY Types
<1>3. \A t \in Task : pc'[t] = IF t = s THEN p ELSE pc[t]
  BY <1>2
<1>4. FrameInv'
  BY <1>1, <1>2, <1>3 DEF ControlInv, FrameInv, Left, Switching
<1>5. StateInv'
  BY <1>1, <1>2, <1>3 DEF ControlInv, StateInv, Place, Left, Switching
<1>6. QueueInv'
  BY <1>1, <1>2, <1>3 DEF ControlInv, QueueInv, CanRun, Left, Switching
<1>7. MadeInv'
  BY <1>1, <1>2, <1>3 DEF ControlInv, MadeInv, Making, Place, Left, Switching
<1>8. LiveInv'
  BY <1>1, <1>2, <1>3 DEF ControlInv, LiveInv
<1>9. OwnContext'
  BY <1>1, <1>2, <1>3 DEF ControlInv, OwnContext
<1> QED
  BY <1>4, <1>5, <1>6, <1>7, <1>8, <1>9 DEF ControlInv

(* gthread_switch_to: the context saved is the task's own, and so is the one
   that is switched to. *)
LEMMA GoEffect ==
  ASSUME TypeOK, ControlInv, NEW s \in Task, Go(s)
  PROVE  /\ stack = s /\ pc[s] = "go" /\ prev[s] = s
         /\ to[s] \in live \ {s} /\ CanRun(to[s]) /\ to[s] \notin queued
         /\ pc[to[s]] \in {"back", "entry"}
         /\ ctx' = [ctx EXCEPT ![s] = s]
         /\ stack' = to[s]
         /\ pc' = [pc EXCEPT ![s] = IF back[s] = "gone" THEN "gone" ELSE "back"]
         /\ UNCHANGED <<taskVars, memoryVars, tlsVars, frameVars, fault>>
<1>1. stack = s /\ pc[s] = "go" /\ prev[s] = s
  BY DEF Go, At, ControlInv, FrameInv, Left, Switching
<1>2. CanRun(to[s]) /\ to[s] # s /\ to[s] \notin queued
  BY <1>1 DEF ControlInv, QueueInv, Switching
<1>3. to[s] \in live /\ to[s] \in Task
  BY <1>2, Types DEF CanRun
<1>4. pc[to[s]] \in {"back", "entry"}
  BY <1>1, <1>2, <1>3 DEF ControlInv, FrameInv, CanRun, Left, Switching
<1>5. ctx[to[s]] = to[s]
  BY <1>1, <1>2, <1>3, <1>4 DEF ControlInv, OwnContext
<1> QED
  BY <1>1, <1>2, <1>3, <1>4, <1>5 DEF Go, Goto, SavedInto

(* gthread_switch_to *)
LEMMA GoControl ==
  ASSUME TypeOK, ControlInv, NEW s \in Task, Go(s)
  PROVE  ControlInv'
<1> DEFINE n == to[s]
           p == IF back[s] = "gone" THEN "gone" ELSE "back"
<1>1. /\ stack = s /\ pc[s] = "go" /\ prev[s] = s /\ n \in live /\ n # s /\ CanRun(n)
      /\ n \notin queued /\ pc[n] \in {"back", "entry"}
      /\ ctx' = [ctx EXCEPT ![s] = s] /\ stack' = n
      /\ pc' = [pc EXCEPT ![s] = p]
      /\ UNCHANGED <<run_state, no_preempt_flag, queued, live, pool, prev, to, made, back>>
  BY GoEffect DEF taskVars, memoryVars, frameVars
<1>2. /\ n \in Task /\ pc \in [Task -> Places]
      /\ back \in [Task -> {"user", "start", "started", "entry", "gone"}]
      /\ ctx \in [Task -> Task \cup {NULL}] /\ live \subseteq Task /\ queued \subseteq Task
      /\ made \in [Task -> Task \cup {NULL}]
  BY <1>1, Types
<1>3. /\ back[s] = "gone" => p = "gone"
      /\ back[s] # "gone" => p = "back"
  OBVIOUS
<1> HIDE DEF n, p
<1>4. /\ \A t \in Task : pc'[t] = IF t = s THEN p ELSE pc[t]
      /\ \A t \in Task : ctx'[t] = IF t = s THEN s ELSE ctx[t]
  BY <1>1, <1>2
<1>5. FrameInv'
  BY <1>1, <1>2, <1>3, <1>4 DEF ControlInv, FrameInv, CanRun, Left, Switching
<1>6. StateInv'
  BY <1>1, <1>2, <1>3, <1>4 DEF ControlInv, StateInv, CanRun, Place, Left, Switching
<1>7. QueueInv'
  <2>1. \A t \in queued : CanRun(t)'
    BY <1>1, <1>2, <1>3, <1>4 DEF ControlInv, QueueInv, CanRun, Left, Switching
  <2> QED
    BY <1>1, <1>2, <1>4, <2>1 DEF QueueInv, Switching
<1>8. MadeInv'
  <2>1. \A t \in Task : Place(t)' = Place(t)
    BY <1>1, <1>2, <1>3, <1>4 DEF Place, Left, Switching
  <2>2. \A t \in Task : pc[t] \in {"born", "entry", "none"} => pc'[t] = pc[t]
    BY <1>1, <1>4
  <2> QED
    BY <1>1, <1>2, <2>1, <2>2 DEF ControlInv, MadeInv, Making
<1>9. LiveInv'
  BY <1>1, <1>2, <1>4 DEF ControlInv, LiveInv, FrameInv
<1>10. OwnContext'
  BY <1>1, <1>2, <1>3, <1>4 DEF ControlInv, OwnContext
<1> QED
  BY <1>5, <1>6, <1>7, <1>8, <1>9, <1>10 DEF ControlInv

(* The assertion of switch_to_internal holds, if the TLS was switched too. *)
LEMMA BackSucceeds ==
  ASSUME TypeOK, ControlInv, NEW s \in Task, Back(s), Current = s
  PROVE  /\ stack = s /\ pc[s] = "back" /\ back[s] \notin {"gone", "entry"}
         /\ run_state' = [run_state EXCEPT ![s] = "RUNNING"]
         /\ no_preempt_flag' = [no_preempt_flag EXCEPT ![s] = FALSE]
         /\ pc' = [pc EXCEPT ![s] = back[s]]
         /\ prev' = [prev EXCEPT ![s] = NULL]
         /\ to' = [to EXCEPT ![s] = NULL]
         /\ back' = [back EXCEPT ![s] = "user"]
         /\ UNCHANGED <<queued, memoryVars, tlsVars, made, stack, ctx, fault>>
<1>1. stack = s /\ pc[s] = "back"
  BY DEF Back, At
<1>2. prev[s] = s /\ no_preempt_flag[s] /\ back[s] \notin {"gone", "entry"}
  BY <1>1 DEF ControlInv, FrameInv, Left
<1> QED
  BY <1>1, <1>2 DEF Back, Goto, Resumed

(* The end of switch_to_internal *)
LEMMA BackControl ==
  ASSUME TypeOK, ControlInv, NEW s \in Task, Back(s), Current = s
  PROVE  ControlInv'
<1> DEFINE p == back[s]
<1>1. /\ stack = s /\ pc[s] = "back" /\ p \notin {"gone", "entry"} /\ back[s] = p
      /\ run_state' = [run_state EXCEPT ![s] = "RUNNING"]
      /\ no_preempt_flag' = [no_preempt_flag EXCEPT ![s] = FALSE]
      /\ pc' = [pc EXCEPT ![s] = p]
      /\ prev' = [prev EXCEPT ![s] = NULL]
      /\ to' = [to EXCEPT ![s] = NULL]
      /\ back' = [back EXCEPT ![s] = "user"]
      /\ UNCHANGED <<queued, live, pool, made, stack, ctx>>
  BY BackSucceeds DEF memoryVars
<1>2. /\ pc \in [Task -> Places] /\ prev \in [Task -> Task \cup {NULL}]
      /\ to \in [Task -> Task \cup {NULL}] /\ no_preempt_flag \in [Task -> BOOLEAN]
      /\ back \in [Task -> {"user", "start", "started", "entry", "gone"}]
      /\ run_state \in [Task -> {"RUNNING", "SUSPENDED", "STOPPED", "WAITING"}]
      /\ live \subseteq Task /\ queued \subseteq Task
      /\ made \in [Task -> Task \cup {NULL}]
  BY Types
<1>3. p \in {"user", "start", "started"}
  BY <1>1, <1>2
<1> HIDE DEF p
<1>4. /\ \A t \in Task : pc'[t] = IF t = s THEN p ELSE pc[t]
      /\ \A t \in Task : t # s => prev'[t] = prev[t]
      /\ \A t \in Task : t # s => to'[t] = to[t]
      /\ \A t \in Task : back'[t] = IF t = s THEN "user" ELSE back[t]
      /\ \A t \in Task : run_state'[t] = IF t = s THEN "RUNNING" ELSE run_state[t]
      /\ \A t \in Task : t # s => no_preempt_flag'[t] = no_preempt_flag[t]
  BY <1>1, <1>2
<1>5. FrameInv'
  BY <1>1, <1>2, <1>3, <1>4 DEF ControlInv, FrameInv, Left, Switching
<1>6. StateInv'
  BY <1>1, <1>2, <1>3, <1>4 DEF ControlInv, StateInv, Place, Left, Switching
<1>7. QueueInv'
  BY <1>1, <1>2, <1>3, <1>4 DEF ControlInv, QueueInv, CanRun, Left, Switching
<1>8. MadeInv'
  <2>1. \A t \in Task : Place(t)' = Place(t)
    BY <1>1, <1>2, <1>3, <1>4 DEF Place, Left, Switching
  <2>2. \A t \in Task : pc[t] \in {"born", "entry", "none"} =>
          pc'[t] = pc[t] /\ run_state'[t] = run_state[t]
    BY <1>1, <1>4
  <2> QED
    BY <1>1, <1>2, <2>1, <2>2 DEF ControlInv, MadeInv, Making
<1>9. LiveInv'
  BY <1>1, <1>2, <1>4 DEF ControlInv, LiveInv, FrameInv
<1>10. OwnContext'
  BY <1>1, <1>2, <1>4 DEF ControlInv, OwnContext
<1> QED
  BY <1>5, <1>6, <1>7, <1>8, <1>9, <1>10 DEF ControlInv

(* gthread_task_entry *)
LEMMA EnterControl ==
  ASSUME TypeOK, ControlInv, NEW s \in Task, Enter(s), Current = s
  PROVE  ControlInv'
<1>1. /\ stack = s /\ pc[s] = "entry"
      /\ run_state' = [run_state EXCEPT ![s] = "RUNNING"]
      /\ pc' = [pc EXCEPT ![s] = "user"]
      /\ UNCHANGED <<no_preempt_flag, queued, live, pool, prev, to, made, back, stack, ctx>>
  BY DEF Enter, At, Goto, memoryVars, frameVars
<1>2. /\ pc \in [Task -> Places]
      /\ run_state \in [Task -> {"RUNNING", "SUSPENDED", "STOPPED", "WAITING"}]
      /\ live \subseteq Task /\ queued \subseteq Task
      /\ made \in [Task -> Task \cup {NULL}]
  BY Types
<1>3. /\ \A t \in Task : pc'[t] = IF t = s THEN "user" ELSE pc[t]
      /\ \A t \in Task : run_state'[t] = IF t = s THEN "RUNNING" ELSE run_state[t]
  BY <1>1, <1>2
<1>4. run_state[s] = "SUSPENDED" /\ s \notin queued
  BY <1>1 DEF ControlInv, StateInv, QueueInv, Switching
<1>5. FrameInv'
  BY <1>1, <1>2, <1>3 DEF ControlInv, FrameInv, Left, Switching
<1>6. StateInv'
  BY <1>1, <1>2, <1>3 DEF ControlInv, StateInv, Place, Left, Switching
<1>7. QueueInv'
  BY <1>1, <1>2, <1>3, <1>4 DEF ControlInv, QueueInv, CanRun, Left, Switching
<1>8. MadeInv'
  <2>1. \A t \in Task : Place(t)' = Place(t) \/ (t = s /\ Place(t)' = "user")
    BY <1>1, <1>2, <1>3 DEF Place, Left, Switching
  <2>2. ASSUME NEW t \in Task, Place(t) \in {"start", "started"}
        PROVE  made[t] # s /\ made[t] \in Task
    BY <1>1, <1>2, <1>4, <2>2 DEF ControlInv, MadeInv
  <2> QED
    BY <1>1, <1>2, <1>3, <2>1, <2>2 DEF ControlInv, MadeInv, Making
<1>9. LiveInv'
  BY <1>1, <1>2, <1>3 DEF ControlInv, LiveInv, FrameInv
<1>10. OwnContext'
  BY <1>1, <1>2, <1>3 DEF ControlInv, OwnContext
<1> QED
  BY <1>5, <1>6, <1>7, <1>8, <1>9, <1>10 DEF ControlInv

(* make_task: a task is created in free memory, or one of the free list is
   reset; either way the memory is nobody's. *)
LEMMA MakeEffect ==
  ASSUME TypeOK, ControlInv, NEW s \in Task, NEW a \in Attrs, MakeTask(s, a)
  PROVE  /\ stack = s /\ pc[s] = "user" /\ fault = "none"
         /\ pc' = [pc EXCEPT ![s] = "start"]
         /\ UNCHANGED <<run_state, queued, max_size, fs, prev, to, back, stack, ctx, fault>>
         /\ \E t \in Task \ live :
              /\ live' = live \cup {t}
              /\ no_preempt_flag' = [no_preempt_flag EXCEPT ![t] = FALSE]
              /\ made' = [made EXCEPT ![s] = t]
              /\ pool' \in Seq(Task) /\ ToSet(pool') = ToSet(pool) \ {t}
              /\ \A i, j \in DOMAIN pool' : pool'[i] = pool'[j] => i = j
              /\ \/ /\ t \in Free
                    /\ size' = [size EXCEPT ![t] = TotalSize(a)]
                    /\ has_tls' = [has_tls EXCEPT ![t] = a.alloc_tls]
                    /\ tls' = [tls EXCEPT ![t] = NewTls(t)]
                    /\ heap' = heap
                 \/ /\ t \in ToSet(pool)
                    /\ tls' = IF has_tls[t] THEN [tls EXCEPT ![t] = ResetTls(tls[t])] ELSE tls
                    /\ heap' = heap - Cardinality(Blocks(tls[t]))
                    /\ UNCHANGED <<size, has_tls>>
<1>1. /\ stack = s /\ pc[s] = "user" /\ fault = "none"
      /\ pc' = [pc EXCEPT ![s] = "start"]
      /\ UNCHANGED <<run_state, queued, max_size, fs, prev, to, back, stack, ctx, fault>>
  BY DEF MakeTask, At, Goto
<1>2. PICK t \in Task :
        /\ IF Fitting(a) = {} THEN Create(t, a)
                              ELSE t = pool[Min(Fitting(a))] /\ Recycle(t, Min(Fitting(a)))
        /\ live' = live \cup {t}
        /\ no_preempt_flag' = [no_preempt_flag EXCEPT ![t] = FALSE]
        /\ made' = [made EXCEPT ![s] = t]
  BY DEF MakeTask
<1>3. /\ pool \in Seq(Task) /\ ToSet(pool) \cap live = {} /\ tls \in [Task -> TlsBlocks(Task)]
      /\ \A i, j \in DOMAIN pool : pool[i] = pool[j] => i = j
  BY Types DEF ControlInv, LiveInv
<1>4. CASE Fitting(a) = {}
  <2>1. t \in Free /\ t \notin live /\ t \notin ToSet(pool)
    BY <1>2, <1>4 DEF Create, Free
  <2>2. ToSet(pool) = ToSet(pool) \ {t}
    BY <2>1
  <2> QED
    BY <1>1, <1>2, <1>3, <1>4, <2>1, <2>2 DEF Create
<1>5. CASE Fitting(a) # {}
  <2> DEFINE i == Min(Fitting(a))
  <2>1. i \in DOMAIN pool
    <3>1. Fitting(a) \subseteq DOMAIN pool /\ DOMAIN pool \subseteq Nat
      BY <1>3 DEF Fitting
    <3> QED
      BY <1>5, <3>1, FirstPosition
  <2>2. t = pool[i] /\ Recycle(t, i)
    BY <1>2, <1>5
  <2> HIDE DEF i
  <2>3. /\ RemoveAt(pool, i) \in Seq(Task)
        /\ ToSet(RemoveAt(pool, i)) = ToSet(pool) \ {pool[i]}
        /\ \A k, j \in DOMAIN RemoveAt(pool, i) :
             RemoveAt(pool, i)[k] = RemoveAt(pool, i)[j] => k = j
    BY <1>3, <2>1, RemoveEffect
  <2>4. pool' = RemoveAt(pool, i)
    BY <2>2 DEF Recycle
  <2>5. t \in ToSet(pool) /\ t \notin live
    BY <1>3, <2>1, <2>2 DEF ToSet
  <2>6. /\ tls' = IF has_tls[t] THEN [tls EXCEPT ![t] = ResetTls(tls[t])] ELSE tls
        /\ heap' = heap - Cardinality(Blocks(tls[t]))
        /\ UNCHANGED <<size, has_tls>>
    BY <2>2 DEF Recycle
  <2>7. /\ pool' \in Seq(Task) /\ ToSet(pool') = ToSet(pool) \ {t}
        /\ \A k, j \in DOMAIN pool' : pool'[k] = pool'[j] => k = j
    BY <2>2, <2>3, <2>4
  <2> QED
    BY <1>1, <1>2, <2>5, <2>6, <2>7
<1> QED
  BY <1>4, <1>5

(* make_task: nobody else spawns or is the task that is made. *)
LEMMA MakeTaskControl ==
  ASSUME TypeOK, ControlInv, NEW s \in Task, NEW a \in Attrs, MakeTask(s, a)
  PROVE  ControlInv'
<1>1. /\ stack = s /\ pc[s] = "user"
      /\ pc' = [pc EXCEPT ![s] = "start"]
      /\ UNCHANGED <<run_state, queued, prev, to, back, stack, ctx>>
  BY MakeEffect
<1>2. PICK t \in Task \ live :
        /\ live' = live \cup {t}
        /\ no_preempt_flag' = [no_preempt_flag EXCEPT ![t] = FALSE]
        /\ made' = [made EXCEPT ![s] = t]
        /\ ToSet(pool') = ToSet(pool) \ {t}
        /\ \A i, j \in DOMAIN pool' : pool'[i] = pool'[j] => i = j
  BY MakeEffect
<1>3. /\ pc \in [Task -> Places] /\ no_preempt_flag \in [Task -> BOOLEAN]
      /\ live \subseteq Task /\ queued \subseteq Task
      /\ made \in [Task -> Task \cup {NULL}]
  BY Types
<1>4. t # s /\ s \in live /\ pc[t] = "none"
  BY <1>1, <1>2 DEF ControlInv, FrameInv, LiveInv
<1>5. /\ \A u \in Task : pc'[u] = IF u = s THEN "start" ELSE pc[u]
      /\ \A u \in Task : made'[u] = IF u = s THEN t ELSE made[u]
      /\ \A u \in Task : u # t => no_preempt_flag'[u] = no_preempt_flag[u]
  BY <1>1, <1>2, <1>3
<1>6. FrameInv'
  BY <1>1, <1>2, <1>3, <1>4, <1>5 DEF ControlInv, FrameInv, Left, Switching
<1>7. StateInv'
  BY <1>1, <1>2, <1>3, <1>5 DEF ControlInv, StateInv, Place, Left, Switching
<1>8. QueueInv'
  BY <1>1, <1>2, <1>3, <1>4, <1>5 DEF ControlInv, QueueInv, CanRun, Left, Switching
<1>9. MadeInv'
  <2>1. \A u \in Task : Place(u)' = IF u = s THEN "start" ELSE Place(u)
    BY <1>1, <1>5 DEF Place, Left, Switching
  <2>2. \A u \in Task : Making(u)' <=> u = s \/ Making(u)
    BY <2>1 DEF Making
  <2>3. ASSUME NEW u \in Task, Making(u) PROVE made[u] \in live /\ made[u] # t /\ made[u] \in Task
    BY <1>2, <1>3, <2>3 DEF ControlInv, MadeInv, Making
  <2>4. ASSUME NEW u \in Task, u # s
        PROVE  /\ Place(u)' = "start" => made'[u] \in live' /\ pc'[made'[u]] = "none"
               /\ Place(u)' = "started" =>
                    /\ made'[u] \in live' /\ pc'[made'[u]] \in {"born", "entry"}
                    /\ run_state'[made'[u]] = "STOPPED"
    <3>1. made'[u] = made[u] /\ Place(u)' = Place(u)
      BY <1>5, <2>1, <2>4
    <3>2. Making(u) => made[u] # s
      BY <1>1 DEF ControlInv, MadeInv, Making
    <3> QED
      BY <1>1, <1>2, <1>5, <2>3, <3>1, <3>2 DEF ControlInv, MadeInv, Making
  <2>5. Place(s)' = "start" /\ made'[s] = t /\ t \in live' /\ pc'[t] = "none"
    BY <1>2, <1>4, <1>5, <2>1
  <2>6. \A u, v \in Task : Making(u)' /\ Making(v)' /\ made'[u] = made'[v] => u = v
    BY <1>5, <2>2, <2>3 DEF ControlInv, MadeInv
  <2>7. ASSUME NEW u \in Task, Making(u)' PROVE ~ no_preempt_flag'[made'[u]]
    <3>1. CASE u = s
      BY <1>2, <1>3, <2>5, <3>1
    <3>2. CASE u # s
      BY <1>5, <2>2, <2>3, <2>7, <3>2 DEF ControlInv, MadeInv
    <3> QED
      BY <3>1, <3>2
  <2> QED
    BY <2>4, <2>5, <2>6, <2>7 DEF MadeInv
<1>10. LiveInv'
  BY <1>1, <1>2, <1>3, <1>4, <1>5 DEF ControlInv, LiveInv
<1>11. OwnContext'
  BY <1>1, <1>2, <1>4, <1>5 DEF ControlInv, OwnContext
<1> QED
  BY <1>6, <1>7, <1>8, <1>9, <1>10, <1>11 DEF ControlInv

(* return_task: the task has exited, is in no queue and not being spawned, and
   somebody else returns it. *)
LEMMA ReturnEffect ==
  ASSUME TypeOK, ControlInv, NEW s \in Task, NEW t \in Task, ReturnTask(s, t)
  PROVE  /\ stack = s /\ pc[s] = "user" /\ fault = "none"
         /\ t \in live /\ t # Host /\ pc[t] = "gone" /\ t # s /\ t \notin queued
         /\ live' = live \ {t}
         /\ pc' = [pc EXCEPT ![t] = "none"]
         /\ ctx' = [ctx EXCEPT ![t] = NULL]
         /\ prev' = [prev EXCEPT ![t] = NULL]
         /\ to' = [to EXCEPT ![t] = NULL]
         /\ back' = [back EXCEPT ![t] = "user"]
         /\ UNCHANGED <<run_state, no_preempt_flag, queued, max_size, fs, made, stack>>
         /\ pool' \in Seq(Task)
         /\ \A i, j \in DOMAIN pool' : pool'[i] = pool'[j] => i = j
         /\ \/ /\ ToSet(pool') = ToSet(pool) \cup {t}
               /\ UNCHANGED <<size, has_tls, tls, heap, fault>>
            \/ /\ pool' = pool
               /\ heap' = heap - Cardinality(Blocks(tls[t]))
               /\ tls' = [tls EXCEPT ![t] = NewTls(t)]
               /\ size' = [size EXCEPT ![t] = 0]
               /\ has_tls' = [has_tls EXCEPT ![t] = FALSE]
               /\ fault' = IF fs = t THEN "dead tls" ELSE fault
<1>1. /\ stack = s /\ pc[s] = "user" /\ fault = "none"
      /\ t \in live /\ t # Host /\ pc[t] = "gone" /\ t # s
      /\ live' = live \ {t}
      /\ pc' = [pc EXCEPT ![t] = "none"]
      /\ ctx' = [ctx EXCEPT ![t] = NULL]
      /\ prev' = [prev EXCEPT ![t] = NULL]
      /\ to' = [to EXCEPT ![t] = NULL]
      /\ back' = [back EXCEPT ![t] = "user"]
      /\ UNCHANGED <<run_state, no_preempt_flag, queued, max_size, fs, made, stack>>
  BY DEF ReturnTask, At, Goto, taskVars
<1>2. t \notin queued
  BY <1>1 DEF ControlInv, QueueInv, CanRun, Left, Switching
<1>3. /\ pool \in Seq(Task) /\ t \notin ToSet(pool)
      /\ \A i, j \in DOMAIN pool : pool[i] = pool[j] => i = j
  BY <1>1, Types DEF ControlInv, LiveInv
<1>4. CASE Len(pool) < max_size
  <2> DEFINE before == {i \in DOMAIN pool :
                          size[t] >= size[pool[i]] /\ (has_tls[t] \/ ~ has_tls[pool[i]])}
             k == IF before = {} THEN Len(pool) + 1 ELSE Min(before)
  <2>1. k \in 1..Len(pool) + 1
    <3>1. before \subseteq DOMAIN pool /\ DOMAIN pool \subseteq Nat /\ DOMAIN pool = 1..Len(pool)
          /\ Len(pool) \in Nat
      BY <1>3
    <3> HIDE DEF before
    <3>2. before # {} => Min(before) \in before
      BY <3>1, FirstPosition
    <3> QED
      BY <3>1, <3>2
  <2>2. InsertTask(t) = InsertAt(pool, k, t)
    BY DEF InsertTask
  <2> HIDE DEF k
  <2>3. /\ InsertAt(pool, k, t) \in Seq(Task)
        /\ ToSet(InsertAt(pool, k, t)) = ToSet(pool) \cup {t}
        /\ \A i, j \in DOMAIN InsertAt(pool, k, t) :
             InsertAt(pool, k, t)[i] = InsertAt(pool, k, t)[j] => i = j
    BY <1>3, <2>1, InsertEffect
  <2>4. pool' = InsertAt(pool, k, t) /\ UNCHANGED <<size, has_tls, tls, heap, fault>>
    BY <1>4, <2>2 DEF ReturnTask
  <2> QED
    BY <1>1, <1>2, <2>3, <2>4
<1>5. CASE ~ (Len(pool) < max_size)
  BY <1>1, <1>2, <1>3, <1>5 DEF ReturnTask
<1> QED
  BY <1>4, <1>5

(* return_task *)
LEMMA ReturnTaskControl ==
  ASSUME TypeOK, ControlInv, NEW s \in Task, NEW t \in Task, ReturnTask(s, t)
  PROVE  ControlInv'
<1>1. /\ stack = s /\ pc[s] = "user"
      /\ t \in live /\ pc[t] = "gone" /\ t # s /\ t \notin queued
      /\ live' = live \ {t}
      /\ pc' = [pc EXCEPT ![t] = "none"]
      /\ ctx' = [ctx EXCEPT ![t] = NULL]
      /\ prev' = [prev EXCEPT ![t] = NULL]
      /\ to' = [to EXCEPT ![t] = NULL]
      /\ back' = [back EXCEPT ![t] = "user"]
      /\ UNCHANGED <<run_state, no_preempt_flag, queued, made, stack>>
  BY ReturnEffect
<1>2. ToSet(pool') = ToSet(pool) \cup {t} \/ pool' = pool
  BY ReturnEffect
<1>3. \A i, j \in DOMAIN pool' : pool'[i] = pool'[j] => i = j
  BY ReturnEffect
<1>4. /\ pc \in [Task -> Places] /\ prev \in [Task -> Task \cup {NULL}]
      /\ to \in [Task -> Task \cup {NULL}] /\ ctx \in [Task -> Task \cup {NULL}]
      /\ back \in [Task -> {"user", "start", "started", "entry", "gone"}]
      /\ live \subseteq Task /\ queued \subseteq Task
      /\ made \in [Task -> Task \cup {NULL}]
  BY Types
<1>5. /\ \A u \in Task : pc'[u] = IF u = t THEN "none" ELSE pc[u]
      /\ \A u \in Task : u # t => ctx'[u] = ctx[u]
      /\ \A u \in Task : u # t => prev'[u] = prev[u]
      /\ \A u \in Task : u # t => to'[u] = to[u]
      /\ \A u \in Task : u # t => back'[u] = back[u]
  BY <1>1, <1>4
<1>6. FrameInv'
  BY <1>1, <1>4, <1>5 DEF ControlInv, FrameInv, Left, Switching
<1>7. StateInv'
  BY <1>1, <1>4, <1>5 DEF ControlInv, StateInv, Place, Left, Switching
<1>8. QueueInv'
  BY <1>1, <1>4, <1>5 DEF ControlInv, QueueInv, CanRun, Left, Switching
<1>9. MadeInv'
  <2>1. \A u \in Task : Place(u)' = IF u = t THEN "none" ELSE Place(u)
    BY <1>1, <1>5 DEF Place, Left, Switching
  <2>2. \A u \in Task : Making(u)' => Making(u)
    BY <2>1 DEF Making
  <2>3. ASSUME NEW u \in Task, Making(u) PROVE made[u] # t /\ made[u] \in Task
    BY <1>1, <1>4, <2>3 DEF ControlInv, MadeInv, Making
  <2>4. ASSUME NEW u \in Task
        PROVE  /\ Place(u)' = "start" => made'[u] \in live' /\ pc'[made'[u]] = "none"
               /\ Place(u)' = "started" =>
                    /\ made'[u] \in live' /\ pc'[made'[u]] \in {"born", "entry"}
                    /\ run_state'[made'[u]] = "STOPPED"
    BY <1>1, <1>5, <2>1, <2>3 DEF ControlInv, MadeInv, Making
  <2> QED
    BY <1>1, <2>2, <2>4 DEF ControlInv, MadeInv
<1>10. LiveInv'
  BY <1>1, <1>2, <1>3, <1>4, <1>5 DEF ControlInv, LiveInv
<1>11. OwnContext'
  BY <1>1, <1>4, <1>5 DEF ControlInv, OwnContext
<1> QED
  BY <1>6, <1>7, <1>8, <1>9, <1>10, <1>11 DEF ControlInv

-----------------------------------------------------------------------------
(* TLS: one lemma per action *)

(* Who acts, when nothing has failed. *)
LEMMA Acting ==
  ASSUME IInv, fault = "none"
  PROVE  /\ NameInv
         /\ pc[stack] \notin {"thunk", "go", "born"} =>
              Current = stack /\ (has_tls[stack] => fs = stack)
         /\ pc[stack] \in {"user", "tls", "go", "back", "entry"} => tls[fs].node /\ tls[fs].ctype
  BY DEF IInv, TlsInv, NameInv, Bearer, Usable

(* Steps that fail leave everything else as it was. *)
LEMMA FailKeeps ==
  ASSUME IInv, NEW why \in {"stray", "no node"}, Fail(why),
         why = "stray" \/ ~ has_tls[stack], fault = "none"
  PROVE  IInv'
<1>1. /\ UNCHANGED <<run_state, no_preempt_flag, queued, live, pool, max_size, size, has_tls,
                     tls, fs, heap, prev, to, made, back, stack, ctx, pc>>
      /\ fault' = why
  BY DEF Fail, taskVars, memoryVars, tlsVars, frameVars
<1>2. TypeOK'
  <2>1. TypeOK /\ fault' \in Faults
    BY <1>1 DEF IInv, Faults
  <2> QED
    BY <1>1, <2>1, Types, TypesNext
<1>3. ControlInv'
  BY <1>1, ControlStays DEF IInv
<1>4. NameInv'
  BY <1>1, Acting DEF NameInv, Bearer, Usable, Stolen, Young, Current
<1>5. MemoryInv'
  BY <1>1 DEF IInv, MemoryInv, DtvInv, YoungInv, Young, FreeInv, Free, HeapInv, Entries
<1>6. OnlyBorrowersFail'
  BY <1>1 DEF OnlyBorrowersFail
<1> QED
  BY <1>2, <1>3, <1>4, <1>5, <1>6 DEF IInv, TlsInv

(* Nothing is written to TLS, and nobody becomes young. *)
LEMMA MemoryStays ==
  ASSUME IInv, UNCHANGED <<live, pool, has_tls, tls, heap>>,
         \A t \in Task : pc'[t] \in {"none", "born", "entry"} => pc[t] \in {"none", "born", "entry"}
  PROVE  MemoryInv'
<1>1. DtvInv' /\ FreeInv' /\ HeapInv'
  BY DEF IInv, MemoryInv, DtvInv, FreeInv, Free, HeapInv, Entries
<1>2. YoungInv'
  BY DEF IInv, MemoryInv, YoungInv, Young
<1> QED
  BY <1>1, <1>2 DEF MemoryInv

(* The starter keeps its name on the new stack. *)
LEMMA StartKeeps ==
  ASSUME IInv, NEW s \in Task, Start(s)
  PROVE  IInv'
<1> DEFINE n == made[s]
<1>1. fault = "none" /\ stack = s /\ pc[s] = "start" /\ TypeOK /\ ControlInv
  BY DEF Start, At, IInv
<1>2. Current = s
  BY <1>1, Acting
<1>3. /\ n \in live /\ n # s /\ pc[n] = "none" /\ made[s] = n
      /\ ctx' = [ctx EXCEPT ![s] = s] /\ stack' = n
      /\ prev' = [prev EXCEPT ![n] = s]
      /\ pc' = [pc EXCEPT ![s] = "started", ![n] = "born"]
      /\ UNCHANGED <<run_state, no_preempt_flag, queued, live, pool, max_size, size, has_tls,
                     tls, fs, heap, to, made, back, fault>>
  BY <1>1, <1>2, StartSucceeds DEF taskVars, memoryVars, tlsVars
<1>4. /\ n \in Task /\ pc \in [Task -> Places] /\ prev \in [Task -> Task \cup {NULL}]
      /\ ctx \in [Task -> Task \cup {NULL}]
  BY <1>1, <1>3, Types
<1> HIDE DEF n
<1>5. /\ \A t \in Task : pc'[t] = IF t = s THEN "started" ELSE IF t = n THEN "born" ELSE pc[t]
      /\ prev'[n] = s
  BY <1>3, <1>4
<1>6. TypeOK'
  <2>1. /\ pc' \in [Task -> Places] /\ prev' \in [Task -> Task \cup {NULL}]
        /\ ctx' \in [Task -> Task \cup {NULL}] /\ stack' \in Task
    BY <1>3, <1>4 DEF Places
  <2> QED
    BY <1>1, <1>3, <2>1, Types, TypesNext
<1>7. ControlInv'
  BY <1>1, <1>2, StartControl
<1>8. NameInv'
  BY <1>1, <1>3, <1>4, <1>5, Acting, Types
     DEF NameInv, Bearer, Usable, Stolen, Young, Current
<1>9. MemoryInv'
  <2>1. \A t \in Task : pc'[t] \in {"none", "born", "entry"} => pc[t] \in {"none", "born", "entry"}
    BY <1>1, <1>3, <1>5
  <2> QED
    BY <1>3, <2>1, MemoryStays
<1>10. OnlyBorrowersFail'
  BY <1>1, <1>3 DEF OnlyBorrowersFail
<1> QED
  BY <1>6, <1>7, <1>8, <1>9, <1>10 DEF IInv, TlsInv

(* Back on the stack of the starter, in its name. *)
LEMMA SwitchBackKeeps ==
  ASSUME IInv, NEW s \in Task, SwitchBack(s)
  PROVE  IInv'
<1> DEFINE p == prev[s]
<1>1. fault = "none" /\ stack = s /\ pc[s] = "born" /\ TypeOK /\ ControlInv
  BY DEF SwitchBack, At, IInv
<1>2. /\ p \in live \ {s} /\ pc[p] = "started" /\ made[p] = s /\ prev[s] = p
      /\ ctx' = [ctx EXCEPT ![s] = s] /\ stack' = p
      /\ prev' = [prev EXCEPT ![s] = NULL]
      /\ pc' = [pc EXCEPT ![s] = "entry"]
      /\ UNCHANGED <<run_state, no_preempt_flag, queued, live, pool, max_size, size, has_tls,
                     tls, fs, heap, to, made, back, fault>>
  BY <1>1 DEF SwitchBack, Goto, ControlInv, FrameInv, OwnContext, taskVars, memoryVars, tlsVars
<1>3. /\ p \in Task /\ pc \in [Task -> Places] /\ prev \in [Task -> Task \cup {NULL}]
      /\ ctx \in [Task -> Task \cup {NULL}]
  BY <1>1, <1>2, Types
<1> HIDE DEF p
<1>4. \A t \in Task : pc'[t] = IF t = s THEN "entry" ELSE pc[t]
  BY <1>2, <1>3
<1>5. TypeOK'
  <2>1. /\ pc' \in [Task -> Places] /\ prev' \in [Task -> Task \cup {NULL}]
        /\ ctx' \in [Task -> Task \cup {NULL}] /\ stack' \in Task
    BY <1>2, <1>3 DEF Places
  <2> QED
    BY <1>1, <1>2, <2>1, Types, TypesNext
<1>6. ControlInv'
  BY <1>1, SwitchBackControl
<1>7. NameInv'
  BY <1>1, <1>2, <1>3, <1>4, Acting, Types
     DEF NameInv, Bearer, Usable, Stolen, Young, Current
<1>8. MemoryInv'
  <2>1. \A t \in Task : pc'[t] \in {"none", "born", "entry"} => pc[t] \in {"none", "born", "entry"}
    BY <1>1, <1>4
  <2> QED
    BY <1>2, <2>1, MemoryStays
<1>9. OnlyBorrowersFail'
  BY <1>1, <1>2 DEF OnlyBorrowersFail
<1> QED
  BY <1>5, <1>6, <1>7, <1>8, <1>9 DEF IInv, TlsInv

(* A spawn fails only if the block in use was recycled for the new task. *)
LEMMA ScheduleKeeps ==
  ASSUME IInv, NEW s \in Task, Schedule(s)
  PROVE  IInv'
<1>1. fault = "none" /\ stack = s /\ pc[s] = "started" /\ TypeOK /\ ControlInv
  BY DEF Schedule, At, IInv
<1>2. CASE ~ tls[fs].node
  <2>1. ~ has_tls[stack]
    BY <1>1, <1>2, Acting DEF NameInv, Usable, Stolen
  <2> QED
    BY <1>1, <1>2, <2>1, FailKeeps DEF Schedule
<1>3. CASE tls[fs].node
  <2> DEFINE n == made[s]
  <2>1. /\ n \in live
        /\ run_state' = [run_state EXCEPT ![n] = "SUSPENDED"]
        /\ queued' = queued \cup {n}
        /\ made' = [made EXCEPT ![s] = NULL]
        /\ pc' = [pc EXCEPT ![s] = "user"]
        /\ UNCHANGED <<no_preempt_flag, live, pool, max_size, size, has_tls, tls, fs, heap,
                       prev, to, back, stack, ctx, fault>>
    BY <1>1, <1>3 DEF Schedule, Goto, ControlInv, MadeInv, Place, Left, Switching, memoryVars,
                      tlsVars
  <2>2. /\ n \in Task /\ pc \in [Task -> Places] /\ made \in [Task -> Task \cup {NULL}]
        /\ run_state \in [Task -> {"RUNNING", "SUSPENDED", "STOPPED", "WAITING"}]
        /\ queued \subseteq Task
    BY <1>1, <2>1, Types
  <2> HIDE DEF n
  <2>3. \A t \in Task : pc'[t] = IF t = s THEN "user" ELSE pc[t]
    BY <2>1, <2>2
  <2>4. TypeOK'
    <3>1. /\ pc' \in [Task -> Places] /\ made' \in [Task -> Task \cup {NULL}]
          /\ run_state' \in [Task -> {"RUNNING", "SUSPENDED", "STOPPED", "WAITING"}]
          /\ queued' \subseteq Task
      BY <2>1, <2>2 DEF Places
    <3> QED
      BY <1>1, <2>1, <3>1, Types, TypesNext
  <2>5. ControlInv'
    BY <1>1, <1>3, ScheduleControl
  <2>6. NameInv'
    BY <1>1, <1>3, <2>1, <2>3, Acting, Types
       DEF NameInv, Bearer, Usable, Stolen, Young, Current
  <2>7. MemoryInv'
    <3>1. \A t \in Task :
            pc'[t] \in {"none", "born", "entry"} => pc[t] \in {"none", "born", "entry"}
      BY <1>1, <2>3
    <3> QED
      BY <2>1, <3>1, MemoryStays
  <2>8. OnlyBorrowersFail'
    BY <1>1, <2>1 DEF OnlyBorrowersFail
  <2> QED
    BY <2>4, <2>5, <2>6, <2>7, <2>8 DEF IInv, TlsInv
<1> QED
  BY <1>2, <1>3

(* sched_node::yield in the task's own name *)
LEMMA LeaveKeeps ==
  ASSUME IInv, NEW s \in Task, stack = s, fault = "none", tls[fs].node,
         NEW state, NEW place, Leave(s, state, place),
         pc[s] \in {"user", "start", "started", "entry"},
         \/ place = pc[s] /\ state = run_state[s]
         \/ place = "user" /\ pc[s] = "user" /\ state = "WAITING"
         \/ place = "gone" /\ state = "STOPPED"
  PROVE  IInv'
<1>1. TypeOK /\ ControlInv /\ Current = s
  BY Acting DEF IInv
<1> DEFINE q == IF state = "RUNNING" THEN queued \cup {s} ELSE queued
           rs == IF state = "RUNNING" THEN "SUSPENDED" ELSE state
<1>2. PICK n \in q \ {s} :
        /\ queued' = q \ {n}
        /\ run_state' = [run_state EXCEPT ![s] = rs]
        /\ no_preempt_flag' = [no_preempt_flag EXCEPT ![s] = TRUE]
        /\ prev' = [prev EXCEPT ![s] = s]
        /\ to' = [to EXCEPT ![s] = n]
        /\ back' = [back EXCEPT ![s] = place]
        /\ pc' = [pc EXCEPT ![s] = "tls"]
        /\ UNCHANGED <<live, pool, max_size, size, has_tls, tls, fs, heap, made, stack, ctx, fault>>
  BY <1>1 DEF Leave, Goto, Locked, memoryVars, tlsVars
<1>3. /\ pc \in [Task -> Places] /\ prev \in [Task -> Task \cup {NULL}]
      /\ to \in [Task -> Task \cup {NULL}] /\ no_preempt_flag \in [Task -> BOOLEAN]
      /\ back \in [Task -> {"user", "start", "started", "entry", "gone"}]
      /\ run_state \in [Task -> {"RUNNING", "SUSPENDED", "STOPPED", "WAITING"}]
      /\ live \subseteq Task /\ queued \subseteq Task
  BY <1>1, Types
<1>4. /\ q \subseteq Task /\ n \in Task
      /\ rs \in {"RUNNING", "SUSPENDED", "STOPPED", "WAITING"}
      /\ place \in {"user", "start", "started", "entry", "gone"}
  BY <1>3
<1> HIDE DEF q, rs
<1>5. \A t \in Task : pc'[t] = IF t = s THEN "tls" ELSE pc[t]
  BY <1>2, <1>3
<1>6. TypeOK'
  <2>1. /\ pc' \in [Task -> Places] /\ prev' \in [Task -> Task \cup {NULL}]
        /\ to' \in [Task -> Task \cup {NULL}] /\ no_preempt_flag' \in [Task -> BOOLEAN]
        /\ back' \in [Task -> {"user", "start", "started", "entry", "gone"}]
        /\ run_state' \in [Task -> {"RUNNING", "SUSPENDED", "STOPPED", "WAITING"}]
        /\ queued' \subseteq Task
    BY <1>2, <1>3, <1>4 DEF Places
  <2> QED
    BY <1>1, <1>2, <2>1, Types, TypesNext
<1>7. ControlInv'
  BY <1>1, LeaveControl
<1>8. NameInv'
  BY <1>1, <1>2, <1>5, Acting, Types
     DEF NameInv, Bearer, Usable, Stolen, Young, Current
<1>9. MemoryInv'
  <2>1. \A t \in Task : pc'[t] \in {"none", "born", "entry"} => pc[t] \in {"none", "born", "entry"}
    BY <1>5
  <2> QED
    BY <1>2, <2>1, MemoryStays
<1>10. OnlyBorrowersFail'
  BY <1>2 DEF OnlyBorrowersFail
<1> QED
  BY <1>6, <1>7, <1>8, <1>9, <1>10 DEF IInv, TlsInv

(* sched::yield *)
LEMMA YieldKeeps ==
  ASSUME IInv, NEW s \in Task, Yield(s)
  PROVE  IInv'
<1>1. fault = "none" /\ stack = s /\ pc[s] = "user" /\ tls[fs].node
  BY DEF Yield, At
<1>2. Current = s
  BY <1>1, Acting
<1>3. PICK state \in {run_state[s], "WAITING"} : Leave(s, state, "user")
  BY <1>2 DEF Yield
<1> QED
  BY <1>1, <1>3, LeaveKeeps

(* An exit finds its node. *)
LEMMA ExitKeeps ==
  ASSUME IInv, NEW s \in Task, Exit(s)
  PROVE  IInv'
<1>1. fault = "none" /\ stack = s /\ pc[s] = "user"
  BY DEF Exit, At
<1>2. tls[fs].node
  BY <1>1, Acting
<1>3. Leave(s, "STOPPED", "gone")
  BY <1>2 DEF Exit
<1> QED
  BY <1>1, <1>2, <1>3, LeaveKeeps

(* Where the trap finds the task's own name: in the program's code, in spawn,
   and in gthread_task_entry. *)
LEMMA TickPlaces ==
  ASSUME IInv, NEW s \in Task, Tick(s), Current = s
  PROVE  pc[s] \in {"user", "start", "started", "entry"}
<1>1. fault = "none" /\ stack = s /\ ~ no_preempt_flag[s]
  BY DEF Tick, Preemptible
<1>2. TypeOK /\ ControlInv /\ NameInv
  BY <1>1, Acting DEF IInv
<1>3. pc[s] \notin Left
  BY <1>1, <1>2 DEF ControlInv, FrameInv
<1>4. pc[s] # "born"
  BY <1>1, <1>2 DEF NameInv, Bearer, ControlInv, FrameInv
<1> QED
  BY <1>1, <1>2, <1>3, <1>4, Types DEF ControlInv, FrameInv, Places, Left, Switching

(* A tick in another name is a stray one, where the model stops. *)
LEMMA TickKeeps ==
  ASSUME IInv, NEW s \in Task, Tick(s)
  PROVE  IInv'
<1>1. fault = "none" /\ stack = s /\ tls[fs].node
  BY DEF Tick, Preemptible
<1>2. CASE Current # s
  BY <1>1, <1>2, FailKeeps DEF Tick
<1>3. CASE Current = s
  <2>1. pc[s] \in {"user", "start", "started", "entry"}
    BY <1>3, TickPlaces
  <2>2. Leave(s, run_state[s], pc[s])
    BY <1>3 DEF Tick
  <2> QED
    BY <1>1, <2>1, <2>2, LeaveKeeps
<1> QED
  BY <1>2, <1>3

(* Who wakes another finds its node. *)
LEMMA WakeKeeps ==
  ASSUME IInv, NEW s \in Task, NEW t \in Task, Wake(s, t)
  PROVE  IInv'
<1>1. fault = "none" /\ stack = s /\ pc[s] = "user" /\ TypeOK /\ ControlInv
  BY DEF Wake, At, IInv
<1>2. tls[fs].node
  BY <1>1, Acting
<1>3. /\ queued' = queued \cup {t}
      /\ UNCHANGED <<run_state, no_preempt_flag, live, pool, max_size, size, has_tls, tls, fs,
                     heap, prev, to, made, back, stack, ctx, pc, fault>>
  BY <1>2 DEF Wake, memoryVars, tlsVars, frameVars
<1>4. TypeOK'
  <2>1. queued' \subseteq Task
    BY <1>1, <1>3, Types
  <2> QED
    BY <1>1, <1>3, <2>1, Types, TypesNext
<1>5. ControlInv'
  BY <1>1, <1>2, WakeControl
<1>6. NameInv'
  BY <1>1, <1>3, Acting DEF NameInv, Bearer, Usable, Stolen, Young, Current
<1>7. MemoryInv'
  BY <1>3, MemoryStays
<1>8. OnlyBorrowersFail'
  BY <1>1, <1>3 DEF OnlyBorrowersFail
<1> QED
  BY <1>4, <1>5, <1>6, <1>7, <1>8 DEF IInv, TlsInv

(* The name on the block in use is that of the stack switched to. *)
LEMMA GoKeeps ==
  ASSUME IInv, NEW s \in Task, Go(s)
  PROVE  IInv'
<1> DEFINE n == to[s]
           p == IF back[s] = "gone" THEN "gone" ELSE "back"
<1>1. fault = "none" /\ stack = s /\ pc[s] = "go" /\ TypeOK /\ ControlInv
  BY DEF Go, At, IInv
<1>2. /\ n \in live /\ n # s /\ pc[n] \in {"back", "entry"} /\ to[s] = n
      /\ ctx' = [ctx EXCEPT ![s] = s] /\ stack' = n
      /\ pc' = [pc EXCEPT ![s] = p]
      /\ UNCHANGED <<run_state, no_preempt_flag, queued, live, pool, max_size, size, has_tls,
                     tls, fs, heap, prev, to, made, back, fault>>
  BY <1>1, GoEffect DEF taskVars, memoryVars, tlsVars, frameVars
<1>3. /\ n \in Task /\ pc \in [Task -> Places] /\ ctx \in [Task -> Task \cup {NULL}]
      /\ p \in {"gone", "back"}
  BY <1>1, <1>2, Types
<1> HIDE DEF n, p
<1>4. \A t \in Task : pc'[t] = IF t = s THEN p ELSE pc[t]
  BY <1>2, <1>3
<1>5. TypeOK'
  <2>1. /\ pc' \in [Task -> Places] /\ ctx' \in [Task -> Task \cup {NULL}] /\ stack' \in Task
    BY <1>2, <1>3 DEF Places
  <2> QED
    BY <1>1, <1>2, <2>1, Types, TypesNext
<1>6. ControlInv'
  BY <1>1, GoControl
<1>7. NameInv'
  BY <1>1, <1>2, <1>3, <1>4, Acting, Types
     DEF NameInv, Bearer, Usable, Stolen, Young, Current
<1>8. MemoryInv'
  <2>1. \A t \in Task : pc'[t] \in {"none", "born", "entry"} => pc[t] \in {"none", "born", "entry"}
    BY <1>3, <1>4
  <2> QED
    BY <1>2, <2>1, MemoryStays
<1>9. OnlyBorrowersFail'
  BY <1>1, <1>2 DEF OnlyBorrowersFail
<1> QED
  BY <1>5, <1>6, <1>7, <1>8, <1>9 DEF IInv, TlsInv

(* The end of switch_to_internal *)
LEMMA BackKeeps ==
  ASSUME IInv, NEW s \in Task, Back(s)
  PROVE  IInv'
<1> DEFINE p == back[s]
<1>1. fault = "none" /\ stack = s /\ pc[s] = "back" /\ TypeOK /\ ControlInv
  BY DEF Back, At, IInv
<1>2. Current = s
  BY <1>1, Acting
<1>3. /\ p \notin {"gone", "entry"}
      /\ run_state' = [run_state EXCEPT ![s] = "RUNNING"]
      /\ no_preempt_flag' = [no_preempt_flag EXCEPT ![s] = FALSE]
      /\ pc' = [pc EXCEPT ![s] = p]
      /\ prev' = [prev EXCEPT ![s] = NULL]
      /\ to' = [to EXCEPT ![s] = NULL]
      /\ back' = [back EXCEPT ![s] = "user"]
      /\ UNCHANGED <<queued, live, pool, max_size, size, has_tls, tls, fs, heap, made, stack,
                     ctx, fault>>
  BY <1>1, <1>2, BackSucceeds DEF memoryVars, tlsVars
<1>4. /\ pc \in [Task -> Places] /\ prev \in [Task -> Task \cup {NULL}]
      /\ to \in [Task -> Task \cup {NULL}] /\ no_preempt_flag \in [Task -> BOOLEAN]
      /\ back \in [Task -> {"user", "start", "started", "entry", "gone"}]
      /\ run_state \in [Task -> {"RUNNING", "SUSPENDED", "STOPPED", "WAITING"}]
  BY <1>1, Types
<1>5. p \in {"user", "start", "started"}
  BY <1>3, <1>4
<1> HIDE DEF p
<1>6. \A t \in Task : pc'[t] = IF t = s THEN p ELSE pc[t]
  BY <1>3, <1>4
<1>7. TypeOK'
  <2>1. /\ pc' \in [Task -> Places] /\ prev' \in [Task -> Task \cup {NULL}]
        /\ to' \in [Task -> Task \cup {NULL}] /\ no_preempt_flag' \in [Task -> BOOLEAN]
        /\ back' \in [Task -> {"user", "start", "started", "entry", "gone"}]
        /\ run_state' \in [Task -> {"RUNNING", "SUSPENDED", "STOPPED", "WAITING"}]
    BY <1>3, <1>4, <1>5 DEF Places
  <2> QED
    BY <1>1, <1>3, <2>1, Types, TypesNext
<1>8. ControlInv'
  BY <1>1, <1>2, BackControl
<1>9. NameInv'
  BY <1>1, <1>3, <1>5, <1>6, Acting, Types
     DEF NameInv, Bearer, Usable, Stolen, Young, Current
<1>10. MemoryInv'
  <2>1. \A t \in Task : pc'[t] \in {"none", "born", "entry"} => pc[t] \in {"none", "born", "entry"}
    BY <1>5, <1>6
  <2> QED
    BY <1>3, <2>1, MemoryStays
<1>11. OnlyBorrowersFail'
  BY <1>1, <1>3 DEF OnlyBorrowersFail
<1> QED
  BY <1>7, <1>8, <1>9, <1>10, <1>11 DEF IInv, TlsInv

(* gthread_task_entry, in the name of the new task *)
LEMMA EnterKeeps ==
  ASSUME IInv, NEW s \in Task, Enter(s)
  PROVE  IInv'
<1>1. fault = "none" /\ stack = s /\ pc[s] = "entry" /\ TypeOK /\ ControlInv
  BY DEF Enter, At, IInv
<1>2. Current = s
  BY <1>1, Acting
<1>3. /\ run_state' = [run_state EXCEPT ![s] = "RUNNING"]
      /\ pc' = [pc EXCEPT ![s] = "user"]
      /\ UNCHANGED <<no_preempt_flag, queued, live, pool, max_size, size, has_tls, tls, fs, heap,
                     prev, to, made, back, stack, ctx, fault>>
  BY <1>2 DEF Enter, Goto, memoryVars, tlsVars, frameVars
<1>4. /\ pc \in [Task -> Places]
      /\ run_state \in [Task -> {"RUNNING", "SUSPENDED", "STOPPED", "WAITING"}]
  BY <1>1, Types
<1>5. \A t \in Task : pc'[t] = IF t = s THEN "user" ELSE pc[t]
  BY <1>3, <1>4
<1>6. TypeOK'
  <2>1. /\ pc' \in [Task -> Places]
        /\ run_state' \in [Task -> {"RUNNING", "SUSPENDED", "STOPPED", "WAITING"}]
    BY <1>3, <1>4 DEF Places
  <2> QED
    BY <1>1, <1>3, <2>1, Types, TypesNext
<1>7. ControlInv'
  BY <1>1, <1>2, EnterControl
<1>8. NameInv'
  BY <1>1, <1>3, <1>5, Acting, Types
     DEF NameInv, Bearer, Usable, Stolen, Young, Current
<1>9. MemoryInv'
  <2>1. \A t \in Task : pc'[t] \in {"none", "born", "entry"} => pc[t] \in {"none", "born", "entry"}
    BY <1>5
  <2> QED
    BY <1>3, <2>1, MemoryStays
<1>10. OnlyBorrowersFail'
  BY <1>1, <1>3 DEF OnlyBorrowersFail
<1> QED
  BY <1>6, <1>7, <1>8, <1>9, <1>10 DEF IInv, TlsInv

(* The head of a block is written to, not its data. *)
LEMMA MemoryHeadWritten ==
  ASSUME IInv, NEW t \in Task, NEW b \in TlsBlocks(Task),
         tls' = [tls EXCEPT ![t] = b], b.dtv = tls[t].dtv, b.data = tls[t].data,
         UNCHANGED <<live, pool, has_tls, heap>>,
         \A u \in Task : pc'[u] \in {"none", "born", "entry"} => pc[u] \in {"none", "born", "entry"}
  PROVE  MemoryInv' /\ tls' \in [Task -> TlsBlocks(Task)]
<1>1. TypeOK /\ DtvInv /\ YoungInv /\ FreeInv /\ HeapInv
  BY DEF IInv, MemoryInv
<1>2. tls \in [Task -> TlsBlocks(Task)]
  BY <1>1, Types
<1>3. tls' \in [Task -> TlsBlocks(Task)]
  BY <1>2
<1>4. \A u \in Task : tls'[u].dtv = tls[u].dtv /\ tls'[u].data = tls[u].data
  BY <1>2
<1>5. DtvInv'
  BY <1>1, <1>4 DEF DtvInv, Blocks
<1>6. YoungInv'
  BY <1>1, <1>4, StaticIs DEF YoungInv, Young, Blocks
<1>7. FreeInv'
  BY <1>1 DEF FreeInv, Free
<1>8. HeapInv'
  <2>1. Entries([tls EXCEPT ![t] = b]) = Entries(tls)
    BY <1>2, BlocksStay
  <2>2. Entries(tls)' = Entries(tls)
    BY <2>1 DEF Entries
  <2> QED
    BY <1>1, <2>2 DEF HeapInv
<1> QED
  BY <1>3, <1>5, <1>6, <1>7, <1>8 DEF MemoryInv

(* A block with another name, or one that is set up. *)
LEMMA HeadIs ==
  ASSUME NEW b \in TlsBlocks(Task), NEW n \in Task
  PROVE  /\ LET c == [b EXCEPT !.thread = n, !.ctype = TRUE]
            IN  /\ c \in TlsBlocks(Task) /\ c.dtv = b.dtv /\ c.data = b.data
                /\ c.thread = n /\ c.ctype /\ c.node = b.node
         /\ LET c == [b EXCEPT !.thread = n]
            IN  /\ c \in TlsBlocks(Task) /\ c.dtv = b.dtv /\ c.data = b.data
                /\ c.thread = n /\ c.ctype = b.ctype /\ c.node = b.node
         /\ LET c == [b EXCEPT !.node = TRUE]
            IN  /\ c \in TlsBlocks(Task) /\ c.dtv = b.dtv /\ c.data = b.data
                /\ c.thread = b.thread /\ c.ctype = b.ctype /\ c.node
  BY DEF TlsBlocks

(* set_thread and use: from here on the name is that of the next task. *)
LEMMA SetTlsKeeps ==
  ASSUME IInv, NEW s \in Task, SetTls(s)
  PROVE  IInv'
<1> DEFINE n == to[s]
<1>1. fault = "none" /\ stack = s /\ pc[s] = "tls" /\ TypeOK /\ ControlInv
  BY DEF SetTls, At, IInv
<1>2. /\ IF has_tls[n]
         THEN /\ tls' = [tls EXCEPT ![n].thread = n, ![n].ctype = TRUE]
              /\ fs' = n
         ELSE /\ tls' = [tls EXCEPT ![fs] = [tls[fs] EXCEPT !.thread = n]]
              /\ fs' = fs
      /\ pc' = [pc EXCEPT ![s] = "thunk"]
      /\ UNCHANGED <<run_state, no_preempt_flag, queued, live, pool, max_size, size, has_tls,
                     heap, prev, to, made, back, stack, ctx, fault>>
  BY DEF SetTls, Goto, Use, Borrow, taskVars, memoryVars, frameVars
<1>3. n \in live /\ n # s /\ to[s] = n
  BY <1>1 DEF ControlInv, QueueInv, CanRun, Switching
<1>4. /\ n \in Task /\ fs \in Task /\ pc \in [Task -> Places] /\ tls \in [Task -> TlsBlocks(Task)]
      /\ has_tls \in [Task -> BOOLEAN]
  BY <1>1, <1>3, Types
<1>5. NameInv /\ tls[fs].node /\ tls[fs].ctype
  BY <1>1, Acting
<1> HIDE DEF n
<1>6. \A t \in Task : pc'[t] = IF t = s THEN "thunk" ELSE pc[t]
  BY <1>2, <1>4
<1>7. PICK f \in Task, b \in TlsBlocks(Task) :
        /\ tls' = [tls EXCEPT ![f] = b] /\ fs' = f
        /\ b.dtv = tls[f].dtv /\ b.data = tls[f].data
        /\ b.thread = n /\ b.ctype
        /\ f = IF has_tls[n] THEN n ELSE fs
  <2>1. CASE has_tls[n]
    <3> DEFINE c == [tls[n] EXCEPT !.thread = n, !.ctype = TRUE]
    <3>1. tls' = [tls EXCEPT ![n] = c] /\ fs' = n
      BY <1>2, <1>4, <2>1
    <3>2. /\ c \in TlsBlocks(Task) /\ c.dtv = tls[n].dtv /\ c.data = tls[n].data
          /\ c.thread = n /\ c.ctype
      <4>1. tls[n] \in TlsBlocks(Task)
        BY <1>4
      <4> QED
        BY <1>4, <4>1, HeadIs, Zenon
    <3> HIDE DEF c
    <3> QED
      BY <1>4, <2>1, <3>1, <3>2
  <2>2. CASE ~ has_tls[n]
    <3> DEFINE c == [tls[fs] EXCEPT !.thread = n]
    <3>1. tls' = [tls EXCEPT ![fs] = c] /\ fs' = fs
      BY <1>2, <2>2
    <3>2. /\ c \in TlsBlocks(Task) /\ c.dtv = tls[fs].dtv /\ c.data = tls[fs].data
          /\ c.thread = n /\ c.ctype
      <4>1. tls[fs] \in TlsBlocks(Task)
        BY <1>4
      <4>2. /\ c \in TlsBlocks(Task) /\ c.dtv = tls[fs].dtv /\ c.data = tls[fs].data
            /\ c.thread = n /\ c.ctype = tls[fs].ctype
        BY <1>4, <4>1, HeadIs, Zenon
      <4> QED
        BY <1>5, <4>2
    <3> HIDE DEF c
    <3> QED
      BY <1>4, <2>2, <3>1, <3>2
  <2> QED
    BY <2>1, <2>2
<1>8. tls'[f] = b
  BY <1>4, <1>7
<1>9. MemoryInv' /\ tls' \in [Task -> TlsBlocks(Task)]
  <2>1. \A t \in Task : pc'[t] \in {"none", "born", "entry"} => pc[t] \in {"none", "born", "entry"}
    BY <1>6
  <2>2. UNCHANGED <<live, pool, has_tls, heap>>
    BY <1>2
  <2> QED
    BY <1>7, <2>1, <2>2, MemoryHeadWritten
<1>10. TypeOK'
  <2>1. pc' \in [Task -> Places] /\ fs' \in Task
    BY <1>2, <1>4, <1>7 DEF Places
  <2> QED
    BY <1>1, <1>2, <1>9, <2>1, Types, TypesNext
<1>11. ControlInv'
  BY <1>1, <1>2, SwitchingControl DEF taskVars, memoryVars, frameVars
<1>12. NameInv'
  <2>1. fs' \in live' \cup ToSet(pool')
    BY <1>2, <1>3, <1>5, <1>7 DEF NameInv
  <2>2. ~ Young(fs)
    BY <1>1, <1>5 DEF NameInv
  <2>3. Young(fs)' => fs' = n
    BY <1>2, <1>6, <1>7, <2>2 DEF Young
  <2>4. has_tls'[fs'] /\ (has_tls'[n] => fs' = n)
    BY <1>2, <1>5, <1>7 DEF NameInv
  <2>5. Current' = n /\ tls'[fs'].ctype
    BY <1>7, <1>8 DEF Current
  <2>6. stack' = s /\ pc'[s] = "thunk" /\ to'[s] = n
    BY <1>1, <1>2, <1>3, <1>6
  <2> QED
    BY <2>1, <2>3, <2>4, <2>5, <2>6 DEF NameInv, Bearer
<1>13. OnlyBorrowersFail'
  BY <1>1, <1>2 DEF OnlyBorrowersFail
<1> QED
  BY <1>9, <1>10, <1>11, <1>12, <1>13 DEF IInv, TlsInv

(* The thunk makes a block that was never used usable. *)
LEMMA ThunkKeeps ==
  ASSUME IInv, NEW s \in Task, Thunk(s)
  PROVE  IInv'
<1>1. fault = "none" /\ stack = s /\ pc[s] = "thunk" /\ TypeOK /\ ControlInv
  BY DEF Thunk, At, IInv
<1>2. /\ tls' = [tls EXCEPT ![fs].node = TRUE]
      /\ pc' = [pc EXCEPT ![s] = "go"]
      /\ UNCHANGED <<run_state, no_preempt_flag, queued, live, pool, max_size, size, has_tls,
                     fs, heap, prev, to, made, back, stack, ctx, fault>>
  BY DEF Thunk, Goto, taskVars, memoryVars, frameVars
<1>3. /\ fs \in Task /\ pc \in [Task -> Places] /\ tls \in [Task -> TlsBlocks(Task)]
  BY <1>1, Types
<1>4. NameInv /\ tls[fs].ctype
  BY <1>1, Acting DEF NameInv
<1>5. \A t \in Task : pc'[t] = IF t = s THEN "go" ELSE pc[t]
  BY <1>2, <1>3
<1>6. PICK b \in TlsBlocks(Task) :
        /\ tls' = [tls EXCEPT ![fs] = b]
        /\ b.dtv = tls[fs].dtv /\ b.data = tls[fs].data
        /\ b.thread = tls[fs].thread /\ b.ctype /\ b.node
  <2> DEFINE c == [tls[fs] EXCEPT !.node = TRUE]
  <2>1. tls' = [tls EXCEPT ![fs] = c]
    BY <1>2, <1>3
  <2>2. /\ c \in TlsBlocks(Task) /\ c.dtv = tls[fs].dtv /\ c.data = tls[fs].data
        /\ c.thread = tls[fs].thread /\ c.ctype /\ c.node
    BY <1>3, <1>4, HeadIs
  <2> HIDE DEF c
  <2> QED
    BY <2>1, <2>2
<1>7. tls'[fs] = b
  BY <1>3, <1>6
<1>8. MemoryInv' /\ tls' \in [Task -> TlsBlocks(Task)]
  <2>1. \A t \in Task : pc'[t] \in {"none", "born", "entry"} => pc[t] \in {"none", "born", "entry"}
    BY <1>5
  <2>2. UNCHANGED <<live, pool, has_tls, heap>>
    BY <1>2
  <2> QED
    BY <1>3, <1>6, <2>1, <2>2, MemoryHeadWritten
<1>9. TypeOK'
  <2>1. pc' \in [Task -> Places]
    BY <1>2, <1>3 DEF Places
  <2> QED
    BY <1>1, <1>2, <1>8, <2>1, Types, TypesNext
<1>10. ControlInv'
  BY <1>1, <1>2, SwitchingControl DEF taskVars, memoryVars, frameVars
<1>11. NameInv'
  <2>1. Current' = Current /\ tls'[fs'].ctype /\ tls'[fs'].node
    BY <1>2, <1>6, <1>7 DEF Current
  <2>2. stack' = s /\ pc'[s] = "go"
    BY <1>1, <1>2, <1>5
  <2> QED
    BY <1>1, <1>2, <1>4, <1>5, <2>1, <2>2 DEF NameInv, Bearer, Usable, Young
<1>12. OnlyBorrowersFail'
  BY <1>1, <1>2 DEF OnlyBorrowersFail
<1> QED
  BY <1>8, <1>9, <1>10, <1>11, <1>12 DEF IInv, TlsInv

(* The program writes to a thread_local of the block in use. *)
LEMMA TouchKeeps ==
  ASSUME IInv, NEW s \in Task, NEW m \in 1..Modules, Touch(s, m)
  PROVE  IInv'
<1> USE StaticIs
<1> DEFINE b == TouchTls(tls[fs], m)
           new == Allocates(tls[fs], m)
<1>1. /\ fault = "none" /\ stack = s /\ pc[s] = "user" /\ TypeOK /\ ControlInv
      /\ DtvInv /\ YoungInv /\ FreeInv /\ HeapInv
  BY DEF Touch, At, IInv, MemoryInv
<1>2. /\ tls' = [tls EXCEPT ![fs] = b]
      /\ heap' = heap + (IF new THEN 1 ELSE 0)
      /\ UNCHANGED <<run_state, no_preempt_flag, queued, live, pool, max_size, size, has_tls,
                     fs, prev, to, made, back, stack, ctx, pc, fault>>
  BY DEF Touch, taskVars, memoryVars, frameVars
<1>3. /\ fs \in Task /\ heap \in Nat
      /\ tls \in [Task -> TlsBlocks(Task)] /\ tls[fs] \in TlsBlocks(Task)
  BY <1>1, Types
<1>4. /\ b \in TlsBlocks(Task) /\ b.thread = tls[fs].thread
      /\ b.node = tls[fs].node /\ b.ctype = tls[fs].ctype
      /\ m \in 2..Modules \/ ~ new
      /\ new => tls[fs].dtv[m] # Block
      /\ b.dtv = IF new THEN [tls[fs].dtv EXCEPT ![m] = Block] ELSE tls[fs].dtv
  BY <1>3, TouchTlsIs
<1>5. NameInv /\ ~ Young(fs) /\ has_tls[fs]
  BY <1>1, Acting DEF NameInv
<1> HIDE DEF b, new
<1>6. /\ tls' \in [Task -> TlsBlocks(Task)]
      /\ tls'[fs] = b /\ \A t \in Task : t # fs => tls'[t] = tls[t]
  BY <1>2, <1>3, <1>4
<1>7. DtvInv'
  <2>1. b.dtv[1] = tls[fs].dtv[1] /\ b.dtv[Modules + 1] = tls[fs].dtv[Modules + 1]
    <3>1. tls[fs].dtv \in Dtvs
      BY <1>3 DEF TlsBlocks
    <3> QED
      BY <1>4, <3>1 DEF Dtvs
  <2>2. \A t \in Task : has_tls'[t] = has_tls[t]
    BY <1>2
  <2> QED
    BY <1>1, <1>5, <1>6, <2>1, <2>2 DEF DtvInv
<1>8. YoungInv'
  BY <1>1, <1>2, <1>5, <1>6 DEF YoungInv, Young
<1>9. FreeInv'
  BY <1>1, <1>2 DEF FreeInv, Free
<1>10. HeapInv' /\ heap' \in Nat
  <2>1. Entries(tls)' = Entries([tls EXCEPT ![fs] = b])
    BY <1>2 DEF Entries
  <2>2. CASE new
    <3>1. /\ IsFiniteSet(Entries([tls EXCEPT ![fs] = b]))
          /\ Cardinality(Entries([tls EXCEPT ![fs] = b])) = Cardinality(Entries(tls)) + 1
      BY <1>1, <1>3, <1>4, <2>2, BlockAllocated DEF HeapInv
    <3>2. heap' = heap + 1
      BY <1>2, <2>2
    <3> QED
      BY <1>1, <1>3, <2>1, <3>1, <3>2 DEF HeapInv
  <2>3. CASE ~ new
    <3>1. Entries([tls EXCEPT ![fs] = b]) = Entries(tls)
      BY <1>3, <1>4, <2>3, BlocksStay
    <3>2. heap' = heap
      BY <1>2, <1>3, <2>3
    <3> QED
      BY <1>1, <1>3, <2>1, <3>1, <3>2 DEF HeapInv
  <2> QED
    BY <2>2, <2>3
<1>11. TypeOK'
  BY <1>1, <1>2, <1>6, <1>10, Types, TypesNext
<1>12. ControlInv'
  BY <1>1, <1>2, ControlStays
<1>13. NameInv'
  BY <1>2, <1>4, <1>5, <1>6 DEF NameInv, Bearer, Usable, Stolen, Young, Current
<1>14. OnlyBorrowersFail'
  BY <1>1, <1>2 DEF OnlyBorrowersFail
<1> QED
  BY <1>7, <1>8, <1>9, <1>10, <1>11, <1>12, <1>13, <1>14 DEF IInv, TlsInv, MemoryInv

(* A block takes the place of task t's, and what that one had is freed. *)
LEMMA BlockReplaced ==
  ASSUME IInv, NEW t \in Task, NEW b \in TlsBlocks(Task),
         tls' = [tls EXCEPT ![t] = b],
         \A m \in 1..Modules + 1 : b.dtv[m] # Block,
         Blocks(b) = {}, \A m \in Static : b.data[m] # "dirty",
         heap' = heap - Cardinality(Blocks(tls[t])),
         \A u \in Task : u # t => has_tls'[u] = has_tls[u],
         \A u \in Task : u # t /\ Young(u)' => Young(u)
  PROVE  DtvInv' /\ YoungInv' /\ HeapInv' /\ heap' \in Nat /\ tls' \in [Task -> TlsBlocks(Task)]
<1> USE StaticIs
<1>1. TypeOK /\ DtvInv /\ YoungInv /\ HeapInv
  BY DEF IInv, MemoryInv
<1>2. tls \in [Task -> TlsBlocks(Task)]
  BY <1>1, Types
<1>3. tls' \in [Task -> TlsBlocks(Task)] /\ tls'[t] = b /\ \A u \in Task : u # t => tls'[u] = tls[u]
  BY <1>2
<1>4. DtvInv'
  <2>1. 1 \in 1..Modules + 1 /\ Modules + 1 \in 1..Modules + 1
    OBVIOUS
  <2> QED
    BY <1>1, <1>3, <2>1 DEF DtvInv
<1>5. YoungInv'
  BY <1>1, <1>3 DEF YoungInv
<1>6. HeapInv' /\ heap' \in Nat
  <2>1. Entries(tls)' = Entries([tls EXCEPT ![t] = b])
    BY DEF Entries
  <2>2. tls[t].dtv[1] # Block /\ tls[t].dtv[Modules + 1] # Block
    BY <1>1 DEF DtvInv
  <2>3. IsFiniteSet(Entries(tls)) /\ heap = Cardinality(Entries(tls))
    BY <1>1 DEF HeapInv
  <2>4. \A m \in 1..Modules : b.dtv[m] # Block
    OBVIOUS
  <2>5. /\ IsFiniteSet(Entries([tls EXCEPT ![t] = b]))
        /\ Cardinality(Entries([tls EXCEPT ![t] = b]))
             = Cardinality(Entries(tls)) - Cardinality(Blocks(tls[t]))
        /\ Cardinality(Entries([tls EXCEPT ![t] = b])) \in Nat
    BY <1>2, <2>2, <2>3, <2>4, BlocksFreed
  <2> QED
    BY <2>1, <2>3, <2>5 DEF HeapInv
<1> QED
  BY <1>3, <1>4, <1>5, <1>6

(* A task whose block holds nothing gives nothing back. *)
LEMMA NothingFreed ==
  ASSUME IInv, NEW t \in Task, Blocks(tls[t]) = {}
  PROVE  heap - Cardinality(Blocks(tls[t])) = heap
<1>1. Cardinality(Blocks(tls[t])) = 0
  BY FS_EmptySet
<1>2. heap \in Nat
  BY Types DEF IInv
<1> QED
  BY <1>1, <1>2

(* make_task may reset the block that a light spawner runs on; nobody else
   loses anything. *)
LEMMA MakeTaskKeeps ==
  ASSUME IInv, NEW s \in Task, NEW a \in Attrs, MakeTask(s, a)
  PROVE  IInv'
<1>1. /\ TypeOK /\ ControlInv /\ DtvInv /\ YoungInv /\ FreeInv /\ HeapInv
  BY DEF IInv, MemoryInv
<1>2. /\ stack = s /\ pc[s] = "user" /\ fault = "none"
      /\ pc' = [pc EXCEPT ![s] = "start"]
      /\ UNCHANGED <<run_state, queued, max_size, fs, prev, to, back, stack, ctx, fault>>
  BY <1>1, MakeEffect
<1>3. PICK t \in Task \ live :
        /\ live' = live \cup {t}
        /\ no_preempt_flag' = [no_preempt_flag EXCEPT ![t] = FALSE]
        /\ made' = [made EXCEPT ![s] = t]
        /\ pool' \in Seq(Task) /\ ToSet(pool') = ToSet(pool) \ {t}
        /\ \/ /\ t \in Free
              /\ size' = [size EXCEPT ![t] = TotalSize(a)]
              /\ has_tls' = [has_tls EXCEPT ![t] = a.alloc_tls]
              /\ tls' = [tls EXCEPT ![t] = NewTls(t)]
              /\ heap' = heap
           \/ /\ t \in ToSet(pool)
              /\ tls' = IF has_tls[t] THEN [tls EXCEPT ![t] = ResetTls(tls[t])] ELSE tls
              /\ heap' = heap - Cardinality(Blocks(tls[t]))
              /\ UNCHANGED <<size, has_tls>>
  BY <1>1, MakeEffect
<1>4. /\ pc \in [Task -> Places] /\ no_preempt_flag \in [Task -> BOOLEAN]
      /\ live \subseteq Task /\ size \in [Task -> Nat] /\ has_tls \in [Task -> BOOLEAN]
      /\ made \in [Task -> Task \cup {NULL}] /\ fs \in Task
      /\ tls \in [Task -> TlsBlocks(Task)]
  BY <1>1, Types
<1>5. t # s /\ s \in live /\ fs \in live \cup ToSet(pool)
  BY <1>1, <1>2, <1>3, Acting DEF ControlInv, FrameInv, NameInv
<1>6. /\ \A u \in Task : pc'[u] = IF u = s THEN "start" ELSE pc[u]
      /\ made'[s] = t
  BY <1>2, <1>3, <1>4
<1>7. NameInv /\ Current = s /\ (has_tls[s] => fs = s) /\ tls[fs].node /\ tls[fs].ctype
      /\ ~ Young(fs) /\ has_tls[fs]
  BY <1>2, Acting DEF NameInv
<1>8. \A u \in Task : u # t /\ Young(u)' => Young(u)
  BY <1>3, <1>6 DEF Young
<1>9. PICK b \in TlsBlocks(Task) :
        /\ tls' = [tls EXCEPT ![t] = b]
        /\ size' \in [Task -> Nat] /\ has_tls' \in [Task -> BOOLEAN]
        /\ \A u \in Task : u # t => has_tls'[u] = has_tls[u]
        /\ fs = t => has_tls'[t] /\ b.thread = tls[t].thread /\ ~ b.node
        /\ DtvInv' /\ YoungInv' /\ HeapInv' /\ heap' \in Nat /\ tls' \in [Task -> TlsBlocks(Task)]
  <2>1. CASE t \in Free /\ size' = [size EXCEPT ![t] = TotalSize(a)]
             /\ has_tls' = [has_tls EXCEPT ![t] = a.alloc_tls]
             /\ tls' = [tls EXCEPT ![t] = NewTls(t)] /\ heap' = heap
    <3>1. TotalSize(a) \in Nat /\ a.alloc_tls \in BOOLEAN
      BY AttrsAssumption, SizesAssumption DEF TotalSize
    <3>2. size' \in [Task -> Nat] /\ has_tls' \in [Task -> BOOLEAN]
      BY <1>4, <2>1, <3>1
    <3>3. fs # t
      BY <1>5, <2>1 DEF Free
    <3>4. \A u \in Task : u # t => has_tls'[u] = has_tls[u]
      BY <1>4, <2>1
    <3>5. Blocks(tls[t]) = {}
      BY <1>1, <2>1 DEF FreeInv, DtvInv
    <3>6. heap' = heap - Cardinality(Blocks(tls[t]))
      BY <2>1, <3>5, NothingFreed
    <3>7. PICK b \in TlsBlocks(Task) :
            /\ b = NewTls(t)
            /\ \A m \in Static : b.data[m] # "dirty"
            /\ \A m \in 1..Modules + 1 : b.dtv[m] # Block
            /\ Blocks(b) = {}
      BY NewTlsIs
    <3>8. tls' = [tls EXCEPT ![t] = b]
      BY <2>1, <3>7
    <3>9. DtvInv' /\ YoungInv' /\ HeapInv' /\ heap' \in Nat /\ tls' \in [Task -> TlsBlocks(Task)]
      BY <1>8, <3>4, <3>6, <3>7, <3>8, BlockReplaced
    <3> QED
      BY <3>2, <3>3, <3>4, <3>8, <3>9
  <2>2. CASE t \in ToSet(pool) /\ has_tls[t] /\ tls' = [tls EXCEPT ![t] = ResetTls(tls[t])]
             /\ heap' = heap - Cardinality(Blocks(tls[t])) /\ UNCHANGED <<size, has_tls>>
    <3>1. tls[t] \in TlsBlocks(Task) /\ tls[t].dtv[1] # Block
      BY <1>1, <1>4 DEF DtvInv
    <3>2. PICK b \in TlsBlocks(Task) :
            /\ b = ResetTls(tls[t])
            /\ b.thread = tls[t].thread /\ ~ b.node
            /\ \A m \in Static : b.data[m] # "dirty"
            /\ \A m \in 1..Modules + 1 : b.dtv[m] # Block
            /\ Blocks(b) = {}
      BY <3>1, ResetTlsIs
    <3>3. tls' = [tls EXCEPT ![t] = b]
      BY <2>2, <3>2
    <3>4. \A u \in Task : u # t => has_tls'[u] = has_tls[u]
      BY <2>2
    <3>5. DtvInv' /\ YoungInv' /\ HeapInv' /\ heap' \in Nat /\ tls' \in [Task -> TlsBlocks(Task)]
      BY <1>8, <2>2, <3>2, <3>3, <3>4, BlockReplaced
    <3> QED
      BY <1>4, <2>2, <3>2, <3>3, <3>4, <3>5
  <2>3. CASE t \in ToSet(pool) /\ ~ has_tls[t] /\ tls' = tls
             /\ heap' = heap - Cardinality(Blocks(tls[t])) /\ UNCHANGED <<size, has_tls>>
    <3>1. heap' = heap
      BY <1>1, <2>3, NothingFreed DEF DtvInv
    <3>2. DtvInv' /\ HeapInv' /\ heap' \in Nat
      BY <1>1, <2>3, <3>1, Types DEF DtvInv, HeapInv, Entries
    <3>3. YoungInv'
      BY <1>1, <1>8, <2>3 DEF YoungInv
    <3>4. tls[t] \in TlsBlocks(Task) /\ tls' = [tls EXCEPT ![t] = tls[t]]
      BY <1>4, <2>3
    <3>5. fs # t
      BY <1>7, <2>3
    <3> QED
      BY <1>4, <2>3, <3>2, <3>3, <3>4, <3>5
  <2> QED
    BY <1>3, <2>1, <2>2, <2>3
<1>10. tls'[t] = b /\ \A u \in Task : u # t => tls'[u] = tls[u]
  BY <1>4, <1>9
<1>11. TypeOK'
  <2>1. /\ pc' \in [Task -> Places] /\ made' \in [Task -> Task \cup {NULL}]
        /\ no_preempt_flag' \in [Task -> BOOLEAN] /\ live' \subseteq Task
    BY <1>2, <1>3, <1>4 DEF Places
  <2> QED
    BY <1>1, <1>2, <1>3, <1>9, <2>1, Types, TypesNext
<1>12. ControlInv'
  BY <1>1, MakeTaskControl
<1>13. FreeInv'
  BY <1>1, <1>3, <1>9 DEF FreeInv, Free
<1>14. NameInv'
  <2>1. stack' = s /\ pc'[s] = "start" /\ fs' = fs /\ has_tls'[s] = has_tls[s] /\ made'[s] = t
    BY <1>2, <1>5, <1>6, <1>9
  <2>2. fs' \in live' \cup ToSet(pool')
    BY <1>3, <1>5, <2>1
  <2>3. CASE fs = t
    <3>1. ~ has_tls[s]
      BY <1>5, <1>7, <2>3
    <3>2. Current' = s /\ ~ tls'[fs'].node /\ has_tls'[fs']
      BY <1>7, <1>9, <1>10, <2>1, <2>3 DEF Current
    <3> QED
      BY <2>1, <2>2, <2>3, <3>1, <3>2 DEF NameInv, Bearer, Stolen
  <2>4. CASE fs # t
    <3>1. Current' = s /\ tls'[fs'].node /\ tls'[fs'].ctype /\ has_tls'[fs']
      BY <1>4, <1>7, <1>9, <1>10, <2>1, <2>4 DEF Current
    <3>2. ~ Young(fs)'
      BY <1>4, <1>7, <1>8, <2>1, <2>4 DEF Young
    <3> QED
      BY <1>7, <2>1, <2>2, <3>1, <3>2 DEF NameInv, Bearer, Usable
  <2> QED
    BY <2>3, <2>4
<1>15. OnlyBorrowersFail'
  BY <1>2 DEF OnlyBorrowersFail
<1> QED
  BY <1>9, <1>11, <1>12, <1>13, <1>14, <1>15 DEF IInv, TlsInv, MemoryInv

(* return_task may unmap the block that a light task runs on, and frees what
   the block has. *)
LEMMA ReturnTaskKeeps ==
  ASSUME IInv, NEW s \in Task, NEW t \in Task, ReturnTask(s, t)
  PROVE  IInv'
<1>1. /\ TypeOK /\ ControlInv /\ DtvInv /\ YoungInv /\ FreeInv /\ HeapInv
  BY DEF IInv, MemoryInv
<1>2. /\ stack = s /\ pc[s] = "user" /\ fault = "none"
      /\ t \in live /\ pc[t] = "gone" /\ t # s
      /\ live' = live \ {t}
      /\ pc' = [pc EXCEPT ![t] = "none"]
      /\ ctx' = [ctx EXCEPT ![t] = NULL]
      /\ prev' = [prev EXCEPT ![t] = NULL]
      /\ to' = [to EXCEPT ![t] = NULL]
      /\ back' = [back EXCEPT ![t] = "user"]
      /\ UNCHANGED <<run_state, no_preempt_flag, queued, max_size, fs, made, stack>>
      /\ pool' \in Seq(Task)
  BY <1>1, ReturnEffect
<1>3. \/ /\ ToSet(pool') = ToSet(pool) \cup {t}
         /\ UNCHANGED <<size, has_tls, tls, heap, fault>>
      \/ /\ pool' = pool
         /\ heap' = heap - Cardinality(Blocks(tls[t]))
         /\ tls' = [tls EXCEPT ![t] = NewTls(t)]
         /\ size' = [size EXCEPT ![t] = 0]
         /\ has_tls' = [has_tls EXCEPT ![t] = FALSE]
         /\ fault' = IF fs = t THEN "dead tls" ELSE fault
  BY <1>1, ReturnEffect
<1>4. /\ pc \in [Task -> Places] /\ prev \in [Task -> Task \cup {NULL}]
      /\ to \in [Task -> Task \cup {NULL}] /\ ctx \in [Task -> Task \cup {NULL}]
      /\ back \in [Task -> {"user", "start", "started", "entry", "gone"}]
      /\ live \subseteq Task /\ size \in [Task -> Nat] /\ has_tls \in [Task -> BOOLEAN]
      /\ tls \in [Task -> TlsBlocks(Task)] /\ fs \in Task
  BY <1>1, Types
<1>5. \A u \in Task : pc'[u] = IF u = t THEN "none" ELSE pc[u]
  BY <1>2, <1>4
<1>6. \A u \in Task : Young(u)' => Young(u) /\ u # t
  BY <1>2, <1>5 DEF Young
<1>7. NameInv /\ Current = s /\ (has_tls[s] => fs = s) /\ tls[fs].node /\ tls[fs].ctype
      /\ ~ Young(fs) /\ has_tls[fs] /\ fs \in live \cup ToSet(pool)
  BY <1>2, Acting DEF NameInv
<1>8. /\ pc' \in [Task -> Places] /\ prev' \in [Task -> Task \cup {NULL}]
      /\ to' \in [Task -> Task \cup {NULL}] /\ ctx' \in [Task -> Task \cup {NULL}]
      /\ back' \in [Task -> {"user", "start", "started", "entry", "gone"}]
      /\ live' \subseteq Task
  BY <1>2, <1>4 DEF Places
<1>9. ControlInv'
  BY <1>1, ReturnTaskControl
<1>10. stack' = s /\ pc'[s] = "user" /\ fs' = fs
  BY <1>2, <1>5
<1>11. CASE /\ ToSet(pool') = ToSet(pool) \cup {t}
            /\ UNCHANGED <<size, has_tls, tls, heap, fault>>
  <2>1. TypeOK'
    BY <1>1, <1>2, <1>8, <1>11, Types, TypesNext
  <2>2. DtvInv' /\ HeapInv'
    BY <1>1, <1>11 DEF DtvInv, HeapInv, Entries
  <2>3. YoungInv'
    BY <1>1, <1>6, <1>11 DEF YoungInv
  <2>4. FreeInv'
    BY <1>1, <1>2, <1>11 DEF FreeInv, Free
  <2>5. NameInv'
    <3>1. fs' \in live' \cup ToSet(pool')
      BY <1>2, <1>7, <1>10, <1>11
    <3>2. ~ Young(fs)'
      BY <1>4, <1>6, <1>7, <1>10 DEF Young
    <3>3. /\ Current' = s /\ tls'[fs'].node /\ tls'[fs'].ctype
          /\ has_tls'[fs'] /\ has_tls'[s] = has_tls[s]
      BY <1>7, <1>10, <1>11 DEF Current
    <3> QED
      BY <1>7, <1>10, <3>1, <3>2, <3>3 DEF NameInv, Bearer, Usable
  <2>6. OnlyBorrowersFail'
    BY <1>2, <1>11 DEF OnlyBorrowersFail
  <2> QED
    BY <1>9, <2>1, <2>2, <2>3, <2>4, <2>5, <2>6 DEF IInv, TlsInv, MemoryInv
<1>12. CASE /\ pool' = pool
            /\ heap' = heap - Cardinality(Blocks(tls[t]))
            /\ tls' = [tls EXCEPT ![t] = NewTls(t)]
            /\ size' = [size EXCEPT ![t] = 0]
            /\ has_tls' = [has_tls EXCEPT ![t] = FALSE]
            /\ fault' = IF fs = t THEN "dead tls" ELSE fault
  <2>1. PICK b \in TlsBlocks(Task) :
          /\ b = NewTls(t)
          /\ \A m \in Static : b.data[m] # "dirty"
          /\ \A m \in 1..Modules + 1 : b.dtv[m] # Block
          /\ Blocks(b) = {}
    BY NewTlsIs
  <2>2. tls' = [tls EXCEPT ![t] = b]
    BY <1>12, <2>1
  <2>3. /\ \A u \in Task : u # t => has_tls'[u] = has_tls[u]
        /\ has_tls'[t] = FALSE /\ has_tls' \in [Task -> BOOLEAN] /\ size' \in [Task -> Nat]
    BY <1>4, <1>12
  <2>4. DtvInv' /\ YoungInv' /\ HeapInv' /\ heap' \in Nat /\ tls' \in [Task -> TlsBlocks(Task)]
    BY <1>6, <1>12, <2>1, <2>2, <2>3, BlockReplaced
  <2>5. fault' \in Faults
    BY <1>2, <1>12 DEF Faults
  <2>6. TypeOK'
    <3>1. pool' \in Seq(Task)
      BY <1>2
    <3> QED
      BY <1>1, <1>2, <1>8, <2>3, <2>4, <2>5, <3>1, Types, TypesNext
  <2>7. FreeInv'
    BY <1>1, <1>2, <1>12, <2>3 DEF FreeInv, Free
  <2>8. fs # t => NameInv'
    <3> SUFFICES ASSUME fs # t PROVE NameInv'
      OBVIOUS
    <3>1. fs' \in live' \cup ToSet(pool')
      BY <1>2, <1>7, <1>10, <1>12
    <3>2. ~ Young(fs)'
      BY <1>4, <1>6, <1>7, <1>10 DEF Young
    <3>3. tls'[fs] = tls[fs]
      BY <1>4, <2>2
    <3>4. /\ Current' = s /\ tls'[fs'].node /\ tls'[fs'].ctype
          /\ has_tls'[fs'] /\ has_tls'[s] = has_tls[s]
      BY <1>2, <1>4, <1>7, <1>10, <2>3, <3>3 DEF Current
    <3> QED
      BY <1>7, <1>10, <3>1, <3>2, <3>4 DEF NameInv, Bearer, Usable
  <2>9. TlsInv'
    BY <1>2, <1>12, <2>8 DEF TlsInv
  <2>10. OnlyBorrowersFail'
    <3>1. CASE fs = t
      BY <1>2, <1>7, <1>10, <1>12, <2>3, <3>1 DEF OnlyBorrowersFail
    <3>2. CASE fs # t
      BY <1>2, <1>12, <3>2 DEF OnlyBorrowersFail
    <3> QED
      BY <3>1, <3>2
  <2> QED
    BY <1>9, <2>4, <2>6, <2>7, <2>9, <2>10 DEF IInv, MemoryInv
<1> QED
  BY <1>3, <1>11, <1>12

-----------------------------------------------------------------------------
(* The theorems *)

(* wrap_current and start_async establish the invariant. *)
LEMMA InitInv == Init => IInv
<1> SUFFICES ASSUME Init PROVE IInv
  OBVIOUS
<1> USE HostAssumption, StaticIs
<1> DEFINE h == [NewTls(Host) EXCEPT !.node = TRUE, !.ctype = TRUE,
                                     !.data = ResetData(NewTls(Host))]
<1>1. \A t \in Task : tls[t] = IF t = Host THEN h ELSE NewTls(t)
  BY DEF Init
<1>2. /\ live = {Host} /\ pool = <<>> /\ max_size \in 0..MaxPool
      /\ size = [t \in Task |-> 0]
      /\ has_tls = [t \in Task |-> t = Host]
      /\ run_state = [t \in Task |-> IF t = Host THEN "RUNNING" ELSE "STOPPED"]
      /\ no_preempt_flag = [t \in Task |-> FALSE]
      /\ queued = {} /\ fs = Host /\ heap = 0 /\ stack = Host
      /\ ctx = [t \in Task |-> NULL]
      /\ pc = [t \in Task |-> IF t = Host THEN "user" ELSE "none"]
      /\ back = [t \in Task |-> "user"]
      /\ prev = [t \in Task |-> NULL] /\ to = [t \in Task |-> NULL] /\ made = [t \in Task |-> NULL]
      /\ fault = "none"
  BY DEF Init
<1>3. /\ h \in TlsBlocks(Task) /\ h.thread = Host /\ h.node /\ h.ctype
      /\ h.dtv = NewTls(Host).dtv
  <2>1. NewTls(Host) \in TlsBlocks(Task)
    BY NewTlsIs
  <2>2. PICK b \in TlsBlocks(Task) : b = NewTls(Host) /\ b.thread = Host
    BY <2>1 DEF NewTls
  <2>3. ResetData(NewTls(Host)) \in [Static -> {"image", "torn", "dirty"}]
    BY DEF ResetData
  <2>4. PICK d \in [Static -> {"image", "torn", "dirty"}] : d = ResetData(NewTls(Host))
    BY <2>3
  <2>5. h = [b EXCEPT !.node = TRUE, !.ctype = TRUE, !.data = d]
    BY <2>2, <2>4
  <2>6. /\ [b EXCEPT !.node = TRUE, !.ctype = TRUE, !.data = d] \in TlsBlocks(Task)
        /\ LET c == [b EXCEPT !.node = TRUE, !.ctype = TRUE, !.data = d]
           IN  c.thread = b.thread /\ c.node /\ c.ctype /\ c.dtv = b.dtv
    BY DEF TlsBlocks
  <2> HIDE DEF h
  <2> QED
    BY <2>2, <2>5, <2>6
<1> HIDE DEF h
<1>4. /\ tls \in [Task -> TlsBlocks(Task)]
      /\ \A t \in Task : \A m \in 1..Modules + 1 : tls[t].dtv[m] # Block
  <2>1. DOMAIN tls = Task /\ tls = [t \in Task |-> tls[t]]
    BY DEF Init
  <2>2. \A t \in Task : tls[t] \in TlsBlocks(Task)
    BY <1>1, <1>3, NewTlsIs
  <2> QED
    BY <1>1, <1>3, <2>1, <2>2, NewTlsIs
<1>5. TypeOK
  <2>1. /\ prev \in [Task -> Task \cup {NULL}] /\ to \in [Task -> Task \cup {NULL}]
        /\ made \in [Task -> Task \cup {NULL}] /\ ctx \in [Task -> Task \cup {NULL}]
    BY <1>2
  <2>2. /\ live \subseteq Task /\ pool \in Seq(Task) /\ size \in [Task -> Nat]
        /\ has_tls \in [Task -> BOOLEAN] /\ queued \subseteq Task /\ heap \in Nat
        /\ run_state \in [Task -> {"RUNNING", "SUSPENDED", "STOPPED", "WAITING"}]
        /\ no_preempt_flag \in [Task -> BOOLEAN]
        /\ fs \in Task /\ stack \in Task
        /\ pc \in [Task -> Places]
        /\ back \in [Task -> {"user", "start", "started", "entry", "gone"}]
        /\ fault \in Faults
    BY <1>2 DEF Places, Faults
  <2> QED
    BY <1>2, <1>4, <2>1, <2>2, Zenon DEF TypeOK
<1>6. ControlInv
  <2>1. /\ \A t \in Task : pc[t] = IF t = Host THEN "user" ELSE "none"
        /\ \A t \in Task : run_state[t] = IF t = Host THEN "RUNNING" ELSE "STOPPED"
    BY <1>2
  <2>2. FrameInv /\ StateInv
    BY <1>2, <2>1 DEF FrameInv, StateInv, Place, Left, Switching
  <2>3. QueueInv /\ MadeInv
    BY <1>2, <2>1 DEF QueueInv, MadeInv, Making, Place, Left, Switching
  <2>4. LiveInv /\ OwnContext
    BY <1>2, <2>1 DEF LiveInv, OwnContext, ToSet
  <2> QED
    BY <2>2, <2>3, <2>4 DEF ControlInv
<1>7. NameInv
  <2>1. tls[fs] = h /\ pc[stack] = "user" /\ has_tls[Host]
    BY <1>1, <1>2
  <2> QED
    BY <1>2, <1>3, <2>1 DEF NameInv, Bearer, Usable, Young, Current
<1>8. DtvInv
  <2>1. \A t \in Task : Blocks(tls[t]) = {}
    BY <1>4 DEF Blocks
  <2>2. 1 \in 1..Modules + 1 /\ Modules + 1 \in 1..Modules + 1
    OBVIOUS
  <2> QED
    BY <1>4, <2>1, <2>2 DEF DtvInv
<1>9. YoungInv /\ FreeInv
  BY <1>2 DEF YoungInv, Young, FreeInv, Free
<1>10. HeapInv
  <2>1. Entries(tls) = {}
    <3>1. \A e \in Task \X (1..Modules) : tls[e[1]].dtv[e[2]] # Block
      BY <1>4
    <3> QED
      BY <3>1 DEF Entries
  <2> QED
    BY <1>2, <2>1, FS_EmptySet DEF HeapInv
<1> QED
  BY <1>2, <1>5, <1>6, <1>7, <1>8, <1>9, <1>10
     DEF IInv, TlsInv, MemoryInv, OnlyBorrowersFail

(* Every step keeps the invariant. *)
LEMMA NextKeeps == IInv /\ [Next]_vars => IInv'
<1> SUFFICES ASSUME IInv, [Next]_vars PROVE IInv'
  OBVIOUS
<1>1. ASSUME NEW s \in Task, Step(s) PROVE IInv'
  <2>1. CASE Start(s)
    BY <2>1, StartKeeps
  <2>2. CASE SwitchBack(s)
    BY <2>2, SwitchBackKeeps
  <2>3. CASE Schedule(s)
    BY <2>3, ScheduleKeeps
  <2>4. CASE Yield(s)
    BY <2>4, YieldKeeps
  <2>5. CASE Exit(s)
    BY <2>5, ExitKeeps
  <2>6. CASE Tick(s)
    BY <2>6, TickKeeps
  <2>7. CASE SetTls(s)
    BY <2>7, SetTlsKeeps
  <2>8. CASE Thunk(s)
    BY <2>8, ThunkKeeps
  <2>9. CASE Go(s)
    BY <2>9, GoKeeps
  <2>10. CASE Back(s)
    BY <2>10, BackKeeps
  <2>11. CASE Enter(s)
    BY <2>11, EnterKeeps
  <2>12. CASE \E a \in Attrs : MakeTask(s, a)
    BY <2>12, MakeTaskKeeps
  <2>13. CASE \E t \in Task : Wake(s, t) \/ ReturnTask(s, t)
    BY <2>13, WakeKeeps, ReturnTaskKeeps
  <2>14. CASE \E m \in 1..Modules : Touch(s, m)
    BY <2>14, TouchKeeps
  <2> QED
    BY <1>1, <2>1, <2>2, <2>3, <2>4, <2>5, <2>6, <2>7, <2>8, <2>9, <2>10, <2>11, <2>12,
       <2>13, <2>14 DEF Step
<1>2. CASE UNCHANGED vars
  <2>1. UNCHANGED <<run_state, no_preempt_flag, queued, live, pool, max_size, size, has_tls,
                    tls, fs, heap, prev, to, made, back, stack, ctx, pc, fault>>
    BY <1>2 DEF vars, taskVars, memoryVars, tlsVars, frameVars
  <2>2. TypeOK /\ ControlInv /\ TlsInv /\ OnlyBorrowersFail
    BY DEF IInv
  <2>3. TypeOK'
    BY <2>1, <2>2, Types, TypesNext
  <2>4. ControlInv'
    BY <2>1, <2>2, ControlStays
  <2>5. TlsInv'
    BY <2>1, <2>2 DEF TlsInv, NameInv, Bearer, Usable, Stolen, Young, Current
  <2>6. MemoryInv'
    BY <2>1, MemoryStays
  <2>7. OnlyBorrowersFail'
    BY <2>1, <2>2 DEF OnlyBorrowersFail
  <2> QED
    BY <2>3, <2>4, <2>5, <2>6, <2>7 DEF IInv
<1> QED
  BY <1>1, <1>2 DEF Next

(* The strengthening of all the properties below holds in every reachable
   state of the switch, of spawn and of the free list. *)
THEOREM Invariant == Spec => []IInv
<1> QED
  BY InitInv, NextKeeps, PTL DEF Spec

(* Type correctness of task.cc, task_freelist.cc and tls_linux.cc as modelled:
   the count of dynamic TLS blocks never drops below zero, too. *)
THEOREM TypeCorrect == Spec => []TypeOK
<1>1. IInv => TypeOK
  BY DEF IInv
<1> QED
  BY <1>1, Invariant, PTL

(* Whoever is swapped out has saved a context that leads to its own stack, and
   only the stacks of live tasks execute (start, switch_to_internal). *)
THEOREM OwnContextAlways == Spec => []OwnContext
<1>1. IInv => OwnContext
  BY DEF IInv, ControlInv
<1> QED
  BY <1>1, Invariant, PTL

(* Outside the two windows of start and of the way to a task that has never
   run, the alarm's trap acts in the name of the task it interrupts. *)
THEOREM OwnNameAlways == Spec => []OwnName
<1>1. IInv => OwnName
  <2> SUFFICES ASSUME IInv, Preemptible
               PROVE  \/ Current = stack
                      \/ pc[stack] = "born"
                      \/ pc[stack] \in {"thunk", "go"} /\ pc[to[stack]] = "entry"
    BY DEF OwnName
  <2>1. fault = "none" /\ ~ no_preempt_flag[Current]
    BY DEF Preemptible
  <2>2. TypeOK /\ ControlInv /\ NameInv
    BY <2>1, Acting DEF IInv
  <2>3. CASE pc[stack] \in {"thunk", "go"}
    <3>1. Current = to[stack] /\ CanRun(to[stack])
      BY <2>2, <2>3 DEF NameInv, Bearer, ControlInv, QueueInv, Switching
    <3>2. to[stack] \in Task /\ (pc[to[stack]] = "entry" \/ pc[to[stack]] \in Left)
      BY <2>2, <3>1, Types DEF CanRun
    <3> QED
      BY <2>1, <2>2, <2>3, <3>1, <3>2 DEF ControlInv, FrameInv
  <2>4. CASE pc[stack] \notin {"thunk", "go"}
    BY <2>2, <2>4 DEF NameInv, Bearer
  <2> QED
    BY <2>3, <2>4
<1> QED
  BY <1>1, Invariant, PTL

(* A program's code finds its own name, its scheduler and its own TLS block,
   whatever was switched, returned or recycled before (switch_to_internal). *)
THEOREM UserReadyAlways == Spec => []UserReady
<1>1. IInv => UserReady
  BY Acting DEF UserReady
<1> QED
  BY <1>1, Invariant, PTL

(* No assertion of start, switch_to_internal or preempt_mutex fails, and only
   a light task can lose the TLS block it runs on. *)
THEOREM OnlyBorrowersFailAlways == Spec => []OnlyBorrowersFail
<1>1. IInv => OnlyBorrowersFail
  BY DEF IInv
<1> QED
  BY <1>1, Invariant, PTL

(* A task, new or recycled, begins without the thread_locals and the dynamic
   TLS of its predecessor (tls::tls, tls::reset). *)
THEOREM CleanStartAlways == Spec => []CleanStart
<1>1. IInv => CleanStart
  <2>1. IInv => live \subseteq Task
    BY Types DEF IInv
  <2> QED
    BY <2>1 DEF IInv, MemoryInv, YoungInv, Young, CleanStart
<1> QED
  BY <1>1, Invariant, PTL

(* Dynamic TLS is neither leaked nor freed twice, over all lives of all tasks
   (tls::reset, tls::~tls). *)
THEOREM BlocksAccountedAlways == Spec => []BlocksAccounted
<1>1. IInv => BlocksAccounted
  BY DEF IInv, MemoryInv, HeapInv, Entries, BlocksAccounted
<1> QED
  BY <1>1, Invariant, PTL

-----------------------------------------------------------------------------
(* The steps of a switch implement module Processor *)

(* The state of module Processor. *)
State == [t \in Task |-> IF t = Named /\ pc[t] = "back" THEN "RUNNING" ELSE run_state[t]]
Flag == [t \in Task |-> t # Named /\ no_preempt_flag[t]]
Ready == [t \in Task |-> IF t \in queued THEN 1 ELSE 0]
Fresh == {t \in Task \ {Named} : pc[t] = "entry" /\ run_state[t] = "SUSPENDED"}

(* Its steps, in terms of that state. *)
LEMMA Stutters ==
  ASSUME Named' = Named, State' = State, Flag' = Flag, Ready' = Ready, Fresh' = Fresh
  PROVE  UNCHANGED P!processorVars
  BY Zenon DEF P!processorVars, P!dispatchVars, State, Flag, Ready, Fresh

(* make_task *)
LEMMA Makes ==
  ASSUME NEW t \in Task, t # Named, State[t] = "STOPPED",
         Flag' = [Flag EXCEPT ![t] = FALSE],
         Named' = Named, State' = State, Ready' = Ready, Fresh' = Fresh
  PROVE  P!Next
<1>1. P!Make(t)
  BY Zenon DEF P!Make, State, Flag, Ready, Fresh
<1> QED
  BY <1>1 DEF P!Next

(* schedule of a new task *)
LEMMA Spawns ==
  ASSUME NEW t \in Task, State[t] = "STOPPED", ~ Flag[t],
         State' = [State EXCEPT ![t] = "SUSPENDED"],
         Ready' = [Ready EXCEPT ![t] = @ + 1],
         Fresh' = Fresh \cup {t},
         Named' = Named, Flag' = Flag
  PROVE  P!Next
<1>1. P!Spawn(t)
  BY Zenon DEF P!Spawn, P!Push, State, Flag, Ready, Fresh
<1> QED
  BY <1>1 DEF P!Next

(* gthread_task_entry *)
LEMMA Enters ==
  ASSUME State[Named] = "SUSPENDED",
         State' = [State EXCEPT ![Named] = "RUNNING"],
         Named' = Named, Flag' = Flag, Ready' = Ready, Fresh' = Fresh
  PROVE  P!Next
<1>1. P!Enter
  BY Zenon DEF P!Enter, State, Flag, Ready, Fresh
<1> QED
  BY <1>1 DEF P!Next

(* schedule of a task that was waiting *)
LEMMA Wakes ==
  ASSUME NEW t \in Task, t # Named, State[t] = "WAITING",
         Ready' = [Ready EXCEPT ![t] = @ + 1],
         Named' = Named, State' = State, Flag' = Flag, Fresh' = Fresh
  PROVE  P!Next
<1>1. P!Wake(t)
  BY Zenon DEF P!Wake, P!Push, State, Flag, Ready, Fresh
<1> QED
  BY <1>1 DEF P!Next

(* What a switch to n does, with q the queue when the next task is chosen. *)
Switched(n, state, rs, q) ==
  /\ n # Named
  /\ state \in {State[Named], "WAITING", "STOPPED"}
  /\ rs = [State EXCEPT ![Named] = state]
  /\ q = IF rs[Named] = "RUNNING" THEN [Ready EXCEPT ![Named] = @ + 1] ELSE Ready
  /\ q[n] > 0
  /\ Ready' = [q EXCEPT ![n] = @ - 1]
  /\ Named' = n
  /\ State' = [t \in Task |->
       IF n # Named /\ t = Named /\ rs[Named] = "RUNNING" THEN "SUSPENDED"
       ELSE IF n # Named /\ t = n /\ n \notin Fresh THEN "RUNNING"
       ELSE rs[t]]
  /\ Flag' = [t \in Task |-> IF t = n THEN FALSE ELSE IF t = Named THEN TRUE ELSE Flag[t]]
  /\ Fresh' = Fresh \ {n}

(* switch_to *)
LEMMA Switches ==
  ASSUME NEW n \in Task, NEW state \in {"RUNNING", "SUSPENDED", "STOPPED", "WAITING"},
         NEW rs, NEW q, Switched(n, state, rs, q)
  PROVE  P!Next
<1>1. P!Requeue(Named, rs, Ready) = q
  BY Zenon DEF Switched, P!Requeue, P!Push
<1>2. P!SwitchTo(Named, n, rs, Fresh)
  BY Zenon DEF Switched, P!SwitchTo, State, Flag
<1>3. P!RunNext(Named, n, rs, q, Fresh)
  BY <1>2, Zenon DEF Switched, P!RunNext, P!Queued, P!Erase, Ready
<1>4. P!Switch(n, state)
  BY <1>1, <1>3, Zenon DEF Switched, P!Switch, State, Ready, Fresh
<1> QED
  BY <1>4 DEF P!Next, P!RunStates

(* rq::push *)
LEMMA ReadyPush ==
  ASSUME NEW t \in Task, t \notin queued, queued' = queued \cup {t}
  PROVE  Ready' = [Ready EXCEPT ![t] = @ + 1]
<1>1. Ready' = [u \in Task |-> IF u = t THEN 1 ELSE IF u \in queued THEN 1 ELSE 0]
  BY DEF Ready
<1>2. Ready[t] + 1 = 1
  BY DEF Ready
<1>3. [Ready EXCEPT ![t] = @ + 1]
        = [u \in Task |-> IF u = t THEN Ready[t] + 1 ELSE IF u \in queued THEN 1 ELSE 0]
  BY DEF Ready
<1> QED
  BY <1>1, <1>2, <1>3

(* Steps that module Processor does not see. *)
LEMMA Unseen ==
  ASSUME NEW c, Named = c, Named' = c, queued' = queued,
         \A t \in Task : t # c =>
           /\ run_state'[t] = run_state[t] /\ no_preempt_flag'[t] = no_preempt_flag[t]
           /\ (pc'[t] = "entry" /\ run_state[t] = "SUSPENDED")
                <=> (pc[t] = "entry" /\ run_state[t] = "SUSPENDED"),
         (IF pc'[c] = "back" THEN "RUNNING" ELSE run_state'[c])
           = (IF pc[c] = "back" THEN "RUNNING" ELSE run_state[c])
  PROVE  UNCHANGED P!processorVars
<1>1. State' = State
  BY DEF State
<1>2. Flag' = Flag
  BY DEF Flag
<1>3. Ready' = Ready
  BY DEF Ready
<1>4. Fresh' = Fresh
  BY DEF Fresh
<1> QED
  BY <1>1, <1>2, <1>3, <1>4, Stutters

(* start acts in the name of the starter ... *)
LEMMA StartUnseen ==
  ASSUME IInv, NEW s \in Task, Start(s)
  PROVE  UNCHANGED P!processorVars
<1> DEFINE n == made[s]
<1>1. fault = "none" /\ stack = s /\ pc[s] = "start" /\ TypeOK /\ ControlInv
  BY DEF Start, At, IInv
<1>2. Current = s
  BY <1>1, Acting
<1>3. /\ n \in live /\ n # s /\ pc[n] = "none" /\ stack' = n
      /\ prev' = [prev EXCEPT ![n] = s]
      /\ pc' = [pc EXCEPT ![s] = "started", ![n] = "born"]
      /\ UNCHANGED <<run_state, no_preempt_flag, queued>>
  BY <1>1, <1>2, StartSucceeds DEF taskVars
<1>4. n \in Task /\ pc \in [Task -> Places] /\ prev \in [Task -> Task \cup {NULL}]
  BY <1>1, <1>3, Types
<1> HIDE DEF n
<1>5. /\ \A t \in Task : pc'[t] = IF t = s THEN "started" ELSE IF t = n THEN "born" ELSE pc[t]
      /\ prev'[n] = s
  BY <1>3, <1>4
<1>6. Named = s /\ Named' = s
  BY <1>1, <1>3, <1>4, <1>5 DEF Named, Switching
<1>7. run_state' = run_state /\ no_preempt_flag' = no_preempt_flag /\ n # s /\ pc[n] = "none"
  BY <1>3
<1>8. \A t \in Task : t # s =>
        /\ run_state'[t] = run_state[t] /\ no_preempt_flag'[t] = no_preempt_flag[t]
        /\ (pc'[t] = "entry" /\ run_state[t] = "SUSPENDED")
             <=> (pc[t] = "entry" /\ run_state[t] = "SUSPENDED")
  BY <1>5, <1>7
<1>9. (IF pc'[s] = "back" THEN "RUNNING" ELSE run_state'[s])
        = (IF pc[s] = "back" THEN "RUNNING" ELSE run_state[s])
  BY <1>1, <1>5, <1>7
<1> QED
  BY <1>3, <1>6, <1>8, <1>9, Unseen

(* ... and so does the new stack. *)
LEMMA SwitchBackUnseen ==
  ASSUME IInv, NEW s \in Task, SwitchBack(s)
  PROVE  UNCHANGED P!processorVars
<1> DEFINE p == prev[s]
<1>1. fault = "none" /\ stack = s /\ pc[s] = "born" /\ TypeOK /\ ControlInv
  BY DEF SwitchBack, At, IInv
<1>2. /\ p \in live \ {s} /\ pc[p] = "started" /\ stack' = p /\ prev[s] = p
      /\ run_state[s] = "STOPPED"
      /\ pc' = [pc EXCEPT ![s] = "entry"]
      /\ UNCHANGED <<run_state, no_preempt_flag, queued>>
  BY <1>1 DEF SwitchBack, Goto, ControlInv, FrameInv, StateInv, OwnContext, Place, Left,
              Switching, taskVars
<1>3. p \in Task /\ pc \in [Task -> Places]
  BY <1>1, <1>2, Types
<1> HIDE DEF p
<1>4. \A t \in Task : pc'[t] = IF t = s THEN "entry" ELSE pc[t]
  BY <1>2, <1>3
<1>5. Named = p /\ Named' = p
  BY <1>1, <1>2, <1>3, <1>4 DEF Named, Switching
<1> QED
  BY <1>1, <1>2, <1>3, <1>4, <1>5, Unseen

(* set_thread and use, and the thunk *)
LEMMA SwitchingUnseen ==
  ASSUME IInv, NEW s \in Task, SetTls(s) \/ Thunk(s)
  PROVE  UNCHANGED P!processorVars
<1> DEFINE n == to[s]
<1>1. stack = s /\ pc[s] \in {"tls", "thunk"} /\ TypeOK /\ ControlInv
  BY DEF SetTls, Thunk, At, IInv
<1>2. PICK p \in {"thunk", "go"} : pc' = [pc EXCEPT ![s] = p]
  BY DEF SetTls, Thunk, Goto
<1>3. UNCHANGED <<run_state, no_preempt_flag, queued, to, stack>>
  BY DEF SetTls, Thunk, taskVars, frameVars
<1>4. n # s /\ to[s] = n
  BY <1>1 DEF ControlInv, QueueInv, Switching
<1>5. pc \in [Task -> Places]
  BY <1>1, Types
<1> HIDE DEF n
<1>6. \A t \in Task : pc'[t] = IF t = s THEN p ELSE pc[t]
  BY <1>2, <1>5
<1>7. Named = n /\ Named' = n
  BY <1>1, <1>3, <1>4, <1>6 DEF Named, Switching
<1>8. n \in Task
  BY <1>1, <1>4, Types DEF ControlInv, QueueInv, CanRun, Switching
<1> QED
  BY <1>1, <1>3, <1>4, <1>6, <1>7, <1>8, Unseen

(* gthread_switch_to follows the switch of names. *)
LEMMA GoUnseen ==
  ASSUME IInv, NEW s \in Task, Go(s)
  PROVE  UNCHANGED P!processorVars
<1> DEFINE n == to[s]
           p == IF back[s] = "gone" THEN "gone" ELSE "back"
<1>1. TypeOK /\ ControlInv
  BY DEF IInv
<1>2. /\ stack = s /\ pc[s] = "go"
      /\ n \in live /\ n # s /\ pc[n] \in {"back", "entry"} /\ to[s] = n
      /\ stack' = n
      /\ pc' = [pc EXCEPT ![s] = p]
      /\ UNCHANGED <<run_state, no_preempt_flag, queued>>
  BY <1>1, GoEffect DEF taskVars
<1>3. n \in Task /\ pc \in [Task -> Places] /\ p \in {"gone", "back"}
  BY <1>1, <1>2, Types
<1> HIDE DEF n, p
<1>4. \A t \in Task : pc'[t] = IF t = s THEN p ELSE pc[t]
  BY <1>2, <1>3
<1>5. Named = n /\ Named' = n
  BY <1>2, <1>3, <1>4 DEF Named, Switching
<1> QED
  BY <1>2, <1>3, <1>4, <1>5, Unseen

(* The task that comes back was RUNNING and preemptible for Processor. *)
LEMMA BackUnseen ==
  ASSUME IInv, NEW s \in Task, Back(s)
  PROVE  UNCHANGED P!processorVars
<1> DEFINE p == back[s]
<1>1. fault = "none" /\ stack = s /\ pc[s] = "back" /\ TypeOK /\ ControlInv
  BY DEF Back, At, IInv
<1>2. Current = s
  BY <1>1, Acting
<1>3. /\ p \notin {"gone", "entry"}
      /\ run_state' = [run_state EXCEPT ![s] = "RUNNING"]
      /\ no_preempt_flag' = [no_preempt_flag EXCEPT ![s] = FALSE]
      /\ pc' = [pc EXCEPT ![s] = p]
      /\ UNCHANGED <<queued, stack>>
  BY <1>1, <1>2, BackSucceeds
<1>4. /\ pc \in [Task -> Places] /\ no_preempt_flag \in [Task -> BOOLEAN]
      /\ run_state \in [Task -> {"RUNNING", "SUSPENDED", "STOPPED", "WAITING"}]
      /\ p \in {"user", "start", "started", "entry", "gone"}
  BY <1>1, Types
<1>5. p \in {"user", "start", "started"}
  BY <1>3, <1>4
<1> HIDE DEF p
<1>6. /\ \A t \in Task : pc'[t] = IF t = s THEN p ELSE pc[t]
      /\ \A t \in Task : run_state'[t] = IF t = s THEN "RUNNING" ELSE run_state[t]
      /\ \A t \in Task : t # s => no_preempt_flag'[t] = no_preempt_flag[t]
  BY <1>3, <1>4
<1>7. Named = s /\ Named' = s
  BY <1>1, <1>3, <1>5, <1>6 DEF Named, Switching
<1>8. \A t \in Task : t # s =>
        /\ run_state'[t] = run_state[t] /\ no_preempt_flag'[t] = no_preempt_flag[t]
        /\ (pc'[t] = "entry" /\ run_state[t] = "SUSPENDED")
             <=> (pc[t] = "entry" /\ run_state[t] = "SUSPENDED")
  BY <1>6
<1>9. (IF pc'[s] = "back" THEN "RUNNING" ELSE run_state'[s])
        = (IF pc[s] = "back" THEN "RUNNING" ELSE run_state[s])
  BY <1>1, <1>5, <1>6
<1> QED
  BY <1>3, <1>7, <1>8, <1>9, Unseen

(* return_task *)
LEMMA ReturnTaskUnseen ==
  ASSUME IInv, NEW s \in Task, NEW t \in Task, ReturnTask(s, t)
  PROVE  UNCHANGED P!processorVars
<1>1. TypeOK /\ ControlInv
  BY DEF IInv
<1>2. /\ stack = s /\ pc[s] = "user" /\ pc[t] = "gone" /\ t # s
      /\ pc' = [pc EXCEPT ![t] = "none"]
      /\ UNCHANGED <<run_state, no_preempt_flag, queued, stack>>
  BY <1>1, ReturnEffect
<1>3. pc \in [Task -> Places]
  BY <1>1, Types
<1>4. \A u \in Task : pc'[u] = IF u = t THEN "none" ELSE pc[u]
  BY <1>2, <1>3
<1>5. Named = s /\ Named' = s
  BY <1>2, <1>4 DEF Named, Switching
<1> QED
  BY <1>2, <1>4, <1>5, Unseen

(* What changes nothing that is mapped. *)
LEMMA SameUnseen ==
  ASSUME UNCHANGED <<run_state, no_preempt_flag, queued, prev, to, stack, pc>>
  PROVE  UNCHANGED P!processorVars
<1>1. Named' = Named
  BY DEF Named
<1>2. PICK c : Named = c /\ Named' = c
  BY <1>1
<1> QED
  BY <1>2, Unseen

(* The new task is STOPPED and its flag is clear. *)
LEMMA ScheduleSpawns ==
  ASSUME IInv, NEW s \in Task, Schedule(s), tls[fs].node
  PROVE  P!Next
<1> DEFINE n == made[s]
<1>1. stack = s /\ pc[s] = "started" /\ TypeOK /\ ControlInv
  BY DEF Schedule, At, IInv
<1>2. /\ run_state' = [run_state EXCEPT ![n] = "SUSPENDED"]
      /\ queued' = queued \cup {n}
      /\ pc' = [pc EXCEPT ![s] = "user"]
      /\ UNCHANGED <<no_preempt_flag, stack>>
  BY DEF Schedule, Goto
<1>3. /\ n \in live /\ pc[n] \in {"born", "entry"} /\ run_state[n] = "STOPPED"
      /\ ~ no_preempt_flag[n]
  BY <1>1 DEF ControlInv, MadeInv, Making, Place, Left, Switching
<1>4. /\ n \in Task /\ pc \in [Task -> Places]
      /\ run_state \in [Task -> {"RUNNING", "SUSPENDED", "STOPPED", "WAITING"}]
  BY <1>1, <1>3, Types
<1> HIDE DEF n
<1>5. n # s /\ pc[n] = "entry" /\ n \notin queued
  BY <1>1, <1>3, <1>4 DEF ControlInv, FrameInv, QueueInv, CanRun, Left, Switching
<1>6. /\ \A t \in Task : pc'[t] = IF t = s THEN "user" ELSE pc[t]
      /\ \A t \in Task : run_state'[t] = IF t = n THEN "SUSPENDED" ELSE run_state[t]
  BY <1>2, <1>4
<1>7. Named = s /\ Named' = s
  BY <1>1, <1>2, <1>6 DEF Named, Switching
<1>8. State[n] = "STOPPED" /\ ~ Flag[n]
  BY <1>3, <1>4, <1>5, <1>7 DEF State, Flag
<1>9. State' = [State EXCEPT ![n] = "SUSPENDED"]
  BY <1>1, <1>4, <1>5, <1>6, <1>7 DEF State
<1>10. Flag' = Flag
  BY <1>2, <1>7 DEF Flag
<1>11. Ready' = [Ready EXCEPT ![n] = @ + 1]
  BY <1>2, <1>4, <1>5, ReadyPush
<1>12. Fresh' = Fresh \cup {n}
  BY <1>1, <1>4, <1>5, <1>6, <1>7 DEF Fresh
<1>13. Named' = Named
  BY <1>7
<1> QED
  BY <1>4, <1>8, <1>9, <1>10, <1>11, <1>12, <1>13, Spawns

(* A task that runs for the first time is SUSPENDED until it says otherwise. *)
LEMMA EnterEnters ==
  ASSUME IInv, NEW s \in Task, Enter(s)
  PROVE  P!Next
<1>1. fault = "none" /\ stack = s /\ pc[s] = "entry" /\ TypeOK /\ ControlInv
  BY DEF Enter, At, IInv
<1>2. Current = s
  BY <1>1, Acting
<1>3. /\ run_state' = [run_state EXCEPT ![s] = "RUNNING"]
      /\ pc' = [pc EXCEPT ![s] = "user"]
      /\ UNCHANGED <<no_preempt_flag, queued, stack>>
  BY <1>2 DEF Enter, Goto
<1>4. /\ pc \in [Task -> Places]
      /\ run_state \in [Task -> {"RUNNING", "SUSPENDED", "STOPPED", "WAITING"}]
  BY <1>1, Types
<1>5. /\ \A t \in Task : pc'[t] = IF t = s THEN "user" ELSE pc[t]
      /\ \A t \in Task : run_state'[t] = IF t = s THEN "RUNNING" ELSE run_state[t]
  BY <1>3, <1>4
<1>6. run_state[s] = "SUSPENDED"
  BY <1>1 DEF ControlInv, StateInv
<1>7. Named = s /\ Named' = s
  BY <1>1, <1>3, <1>5 DEF Named, Switching
<1>8. State[s] = "SUSPENDED"
  BY <1>1, <1>6 DEF State
<1>9. State' = [State EXCEPT ![s] = "RUNNING"]
  BY <1>5, <1>7 DEF State
<1>10. Flag' = Flag /\ Ready' = Ready
  BY <1>3, <1>7 DEF Flag, Ready
<1>11. Fresh' = Fresh
  BY <1>5, <1>7 DEF Fresh
<1> QED
  BY <1>7, <1>8, <1>9, <1>10, <1>11, Enters

(* Who is woken is WAITING and not queued. *)
LEMMA WakeWakes ==
  ASSUME IInv, NEW s \in Task, NEW t \in Task, Wake(s, t)
  PROVE  P!Next
<1>1. /\ fault = "none" /\ stack = s /\ pc[s] = "user" /\ TypeOK /\ ControlInv
      /\ run_state[t] = "WAITING" /\ t \notin queued
  BY DEF Wake, At, IInv
<1>2. tls[fs].node
  BY <1>1, Acting
<1>3. queued' = queued \cup {t} /\ UNCHANGED <<run_state, no_preempt_flag, prev, to, stack, pc>>
  BY <1>2 DEF Wake, frameVars
<1>4. t # s
  BY <1>1 DEF ControlInv, StateInv
<1>5. Named = s /\ Named' = s
  BY <1>1, <1>3 DEF Named, Switching
<1>6. State[t] = "WAITING"
  BY <1>1, <1>4, <1>5 DEF State
<1>7. State' = State /\ Flag' = Flag
  BY <1>3, <1>5 DEF State, Flag
<1>8. Fresh' = Fresh
  BY <1>3, <1>5 DEF Fresh
<1>9. Ready' = [Ready EXCEPT ![t] = @ + 1]
  BY <1>1, <1>3, ReadyPush
<1> QED
  BY <1>4, <1>5, <1>6, <1>7, <1>8, <1>9, Wakes

(* Memory that is nobody's is STOPPED. *)
LEMMA MakeTaskMakes ==
  ASSUME IInv, NEW s \in Task, NEW a \in Attrs, MakeTask(s, a)
  PROVE  P!Next
<1>1. TypeOK /\ ControlInv
  BY DEF IInv
<1>2. /\ stack = s /\ pc[s] = "user"
      /\ pc' = [pc EXCEPT ![s] = "start"]
      /\ UNCHANGED <<run_state, queued, stack>>
  BY <1>1, MakeEffect
<1>3. PICK t \in Task \ live : no_preempt_flag' = [no_preempt_flag EXCEPT ![t] = FALSE]
  BY <1>1, MakeEffect
<1>4. pc \in [Task -> Places] /\ no_preempt_flag \in [Task -> BOOLEAN]
  BY <1>1, Types
<1>5. t # s /\ pc[t] = "none" /\ run_state[t] = "STOPPED"
  BY <1>1, <1>2, <1>3 DEF ControlInv, FrameInv, LiveInv, StateInv, Place, Left, Switching
<1>6. /\ \A u \in Task : pc'[u] = IF u = s THEN "start" ELSE pc[u]
      /\ \A u \in Task : no_preempt_flag'[u] = IF u = t THEN FALSE ELSE no_preempt_flag[u]
  BY <1>2, <1>3, <1>4
<1>7. Named = s /\ Named' = s
  BY <1>2, <1>6 DEF Named, Switching
<1>8. State[t] = "STOPPED"
  BY <1>5, <1>7 DEF State
<1>9. State' = State
  BY <1>2, <1>6, <1>7 DEF State
<1>10. Flag' = [Flag EXCEPT ![t] = FALSE]
  BY <1>5, <1>6, <1>7 DEF Flag
<1>11. Ready' = Ready
  BY <1>2 DEF Ready
<1>12. Fresh' = Fresh
  BY <1>2, <1>6, <1>7 DEF Fresh
<1> QED
  BY <1>5, <1>7, <1>8, <1>9, <1>10, <1>11, <1>12, Makes

(* A yield, an exit or a preemption is Processor's switch at the moment when
   the next task is chosen. *)
LEMMA LeaveSwitches ==
  ASSUME IInv, NEW s \in Task, stack = s, fault = "none",
         NEW state \in {run_state[s], "WAITING", "STOPPED"}, NEW place, Leave(s, state, place),
         pc[s] \in {"user", "start", "started", "entry"}
  PROVE  P!Next
<1>1. TypeOK /\ ControlInv /\ Current = s
  BY Acting DEF IInv
<1> DEFINE q == IF state = "RUNNING" THEN queued \cup {s} ELSE queued
           r == IF state = "RUNNING" THEN "SUSPENDED" ELSE state
<1>2. PICK n \in q \ {s} :
        /\ queued' = q \ {n}
        /\ run_state' = [run_state EXCEPT ![s] = r]
        /\ no_preempt_flag' = [no_preempt_flag EXCEPT ![s] = TRUE]
        /\ to' = [to EXCEPT ![s] = n]
        /\ pc' = [pc EXCEPT ![s] = "tls"]
        /\ stack' = stack
  BY <1>1 DEF Leave, Goto, Locked
<1>3. /\ pc \in [Task -> Places] /\ to \in [Task -> Task \cup {NULL}]
      /\ no_preempt_flag \in [Task -> BOOLEAN]
      /\ run_state \in [Task -> {"RUNNING", "SUSPENDED", "STOPPED", "WAITING"}]
      /\ queued \subseteq Task
  BY <1>1, Types
<1>4. /\ n \in queued /\ n # s /\ n \in Task /\ s \notin queued
      /\ state \in {"RUNNING", "SUSPENDED", "STOPPED", "WAITING"}
      /\ \A t : t \in queued' <=> (t \in queued \/ (t = s /\ state = "RUNNING")) /\ t # n
      /\ state = "RUNNING" => r = "SUSPENDED"
      /\ state # "RUNNING" => r = state
  BY <1>1, <1>2, <1>3 DEF ControlInv, QueueInv, Switching
<1> HIDE DEF q, r
<1>5. /\ \A t \in Task : pc'[t] = IF t = s THEN "tls" ELSE pc[t]
      /\ to'[s] = n
      /\ \A t \in Task : run_state'[t] = IF t = s THEN r ELSE run_state[t]
      /\ \A t \in Task : t # s => no_preempt_flag'[t] = no_preempt_flag[t]
      /\ no_preempt_flag'[s] = TRUE
  BY <1>2, <1>3
<1>6. (pc[n] = "entry" /\ run_state[n] = "SUSPENDED") \/ pc[n] = "back"
  BY <1>1, <1>4 DEF ControlInv, FrameInv, QueueInv, CanRun, Left, Switching
<1>7. Named = s /\ Named' = n /\ stack' = s
  BY <1>2, <1>5 DEF Named, Switching
<1>8. State[s] = run_state[s] /\ State \in [Task -> {"RUNNING", "SUSPENDED", "STOPPED", "WAITING"}]
  BY <1>3 DEF State
<1>9. PICK rs : rs = [State EXCEPT ![s] = state]
  OBVIOUS
<1>10. rs[s] = state /\ \A t \in Task : t # s => rs[t] = run_state[t]
  BY <1>7, <1>8, <1>9 DEF State
<1>11. PICK b : b = IF rs[s] = "RUNNING" THEN [Ready EXCEPT ![s] = @ + 1] ELSE Ready
  OBVIOUS
<1>12. \A t \in Task : b[t] = IF t \in queued \/ (t = s /\ state = "RUNNING") THEN 1 ELSE 0
  BY <1>4, <1>10, <1>11 DEF Ready
<1>13. b[n] > 0 /\ Ready' = [b EXCEPT ![n] = @ - 1]
  <2>1. DOMAIN b = Task /\ b = [t \in Task |-> b[t]]
    BY <1>11 DEF Ready
  <2>2. Ready' = [t \in Task |-> IF t = n THEN b[n] - 1 ELSE b[t]]
    BY <1>4, <1>12 DEF Ready
  <2> QED
    BY <1>4, <1>12, <2>1, <2>2
<1>14. n \in Fresh <=> pc[n] = "entry"
  BY <1>4, <1>6, <1>7 DEF Fresh
<1>15. State' = [t \in Task |->
         IF n # s /\ t = s /\ rs[s] = "RUNNING" THEN "SUSPENDED"
         ELSE IF n # s /\ t = n /\ n \notin Fresh THEN "RUNNING"
         ELSE rs[t]]
  BY <1>4, <1>5, <1>6, <1>7, <1>10, <1>14 DEF State
<1>16. Flag' = [t \in Task |-> IF t = n THEN FALSE ELSE IF t = s THEN TRUE ELSE Flag[t]]
  BY <1>3, <1>4, <1>5, <1>7 DEF Flag
<1>17. Fresh' = Fresh \ {n}
  BY <1>5, <1>7 DEF Fresh
<1>18. state \in {State[s], "WAITING", "STOPPED"}
  BY <1>8
<1>19. Switched(n, state, rs, b)
  BY <1>4, <1>7, <1>9, <1>11, <1>13, <1>15, <1>16, <1>17, <1>18 DEF Switched
<1> QED
  BY <1>4, <1>19, Switches

(* Every step is a step of Processor or none at all. *)
LEMMA StepImplements == IInv /\ [Next]_vars => [P!Next]_(P!processorVars)
<1> SUFFICES ASSUME IInv, [Next]_vars PROVE P!Next \/ UNCHANGED P!processorVars
  OBVIOUS
<1>1. ASSUME NEW why, Fail(why) PROVE UNCHANGED P!processorVars
  BY <1>1, SameUnseen DEF Fail, taskVars, frameVars
<1>2. ASSUME NEW s \in Task, Step(s) PROVE P!Next \/ UNCHANGED P!processorVars
  <2>1. CASE Start(s) \/ SwitchBack(s) \/ SetTls(s) \/ Thunk(s) \/ Go(s) \/ Back(s)
    BY <2>1, StartUnseen, SwitchBackUnseen, SwitchingUnseen, GoUnseen, BackUnseen
  <2>2. CASE Schedule(s)
    <3>1. CASE tls[fs].node
      BY <2>2, <3>1, ScheduleSpawns
    <3>2. CASE ~ tls[fs].node
      BY <1>1, <2>2, <3>2 DEF Schedule
    <3> QED
      BY <3>1, <3>2
  <2>3. CASE Yield(s)
    <3>1. fault = "none" /\ stack = s /\ pc[s] = "user"
      BY <2>3 DEF Yield, At
    <3>2. PICK state \in {run_state[s], "WAITING"} : Leave(s, state, "user")
      BY <2>3, <3>1, Acting DEF Yield
    <3> QED
      BY <3>1, <3>2, LeaveSwitches
  <2>4. CASE Exit(s)
    <3>1. fault = "none" /\ stack = s /\ pc[s] = "user"
      BY <2>4 DEF Exit, At
    <3>2. CASE tls[fs].node
      <4>1. Leave(s, "STOPPED", "gone")
        BY <2>4, <3>2 DEF Exit
      <4> QED
        BY <3>1, <4>1, LeaveSwitches
    <3>3. CASE ~ tls[fs].node
      BY <1>1, <2>4, <3>3 DEF Exit
    <3> QED
      BY <3>2, <3>3
  <2>5. CASE Tick(s)
    <3>1. CASE Current # s
      BY <1>1, <2>5, <3>1 DEF Tick
    <3>2. CASE Current = s
      <4>1. fault = "none" /\ stack = s /\ Leave(s, run_state[s], pc[s])
        BY <2>5, <3>2 DEF Tick, Preemptible
      <4>2. pc[s] \in {"user", "start", "started", "entry"}
        BY <2>5, <3>2, TickPlaces
      <4> QED
        BY <4>1, <4>2, LeaveSwitches
    <3> QED
      BY <3>1, <3>2
  <2>6. CASE Enter(s)
    BY <2>6, EnterEnters
  <2>7. CASE \E a \in Attrs : MakeTask(s, a)
    BY <2>7, MakeTaskMakes
  <2>8. CASE \E t \in Task : Wake(s, t) \/ ReturnTask(s, t)
    BY <2>8, WakeWakes, ReturnTaskUnseen
  <2>9. CASE \E m \in 1..Modules : Touch(s, m)
    BY <2>9, SameUnseen DEF Touch, taskVars, frameVars
  <2> QED
    BY <1>2, <2>1, <2>2, <2>3, <2>4, <2>5, <2>6, <2>7, <2>8, <2>9 DEF Step
<1>3. CASE UNCHANGED vars
  BY <1>3, SameUnseen DEF vars, taskVars, frameVars
<1> QED
  BY <1>2, <1>3 DEF Next

(* The initial states agree. *)
LEMMA InitImplements == Init => P!Init
<1> SUFFICES ASSUME Init PROVE P!Init
  OBVIOUS
<1> USE HostAssumption
<1>1. /\ run_state = [t \in Task |-> IF t = Host THEN "RUNNING" ELSE "STOPPED"]
      /\ no_preempt_flag = [t \in Task |-> FALSE] /\ queued = {} /\ stack = Host
      /\ pc = [t \in Task |-> IF t = Host THEN "user" ELSE "none"]
  BY DEF Init
<1>2. Named = Host
  BY <1>1 DEF Named, Switching
<1>3. State = [t \in Task |-> IF t = Host THEN "RUNNING" ELSE "STOPPED"]
  BY <1>1, <1>2 DEF State
<1>4. Flag = [t \in Task |-> FALSE]
  BY <1>1 DEF Flag
<1>5. Ready = [t \in Task |-> 0]
  BY <1>1 DEF Ready
<1>6. Fresh = {}
  BY <1>1 DEF Fresh
<1> QED
  BY <1>2, <1>3, <1>4, <1>5, <1>6, Zenon DEF P!Init, State, Flag, Ready, Fresh

(***************************************************************************)
(* The steps of switch_to_internal, start and gthread_task_entry, with all *)
(* that may come between them (ticks, tasks made, returned, recycled),     *)
(* together do what modules Sched, Rq, Mutex and Channel take for one step *)
(* of the processor.                                                       *)
(***************************************************************************)
THEOREM Implementation == Spec => ImplementsProcessor
<1>1. Spec => P!Init /\ [][P!Next]_(P!processorVars)
  BY InitImplements, StepImplements, Invariant, PTL DEF Spec
<1> QED
  BY <1>1 DEF ImplementsProcessor, P!Spec
=============================================================================
