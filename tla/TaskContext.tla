----------------------------- MODULE TaskContext -----------------------------
(***************************************************************************)
(* Below module Dispatch: the parts a context switch is made of, and the   *)
(* memory that tasks lie in.  What executes is a stack; in whose name it   *)
(* does so, the thread pointer of the TLS block in use says.  The two      *)
(* agree in a program's own code, and not on the way from one task to the  *)
(* next, where the alarm may strike all the same.                          *)
(*                                                                         *)
(* A task with alloc_tls brings its own TLS block, a light one borrows the *)
(* block that is in use when it is switched to.  Who joins and who detaches *)
(* is left to module Sched: here a task that has exited is returned to the *)
(* free list by any other one.                                             *)
(*                                                                         *)
(* pc[t] is where the code on t's stack stands:                            *)
(*                                                                         *)
(*   user     in the task's own code                                       *)
(*   start    spawn: the task is made, before task::start                  *)
(*   born     gthread_task_entry on the new stack, before it switches back *)
(*   started  spawn: back from the new stack                               *)
(*   tls      switch_to_internal: before set_thread and use                *)
(*   thunk    before post_tls_switch_thunk                                 *)
(*   go       before gthread_switch_to                                     *)
(*   back     swapped out, or just switched back to                        *)
(*   entry    gthread_task_entry, before the task is set RUNNING           *)
(*   gone     exited                                                       *)
(*   none     no such task                                                 *)
(***************************************************************************)
EXTENDS Tls, SequencesExt

CONSTANTS
  Task, Host,
  Attrs,        \* the attributes programs pass to spawn
  DefaultGuard, \* guardsize -1
  KStackMin,    \* k_stack_min
  MaxPool       \* the largest task_freelist::_max_size looked at

ASSUME HostAssumption == Host \in Task /\ NULL \notin Task
ASSUME AttrsAssumption ==
  \A a \in Attrs : a.size \in Nat /\ a.guard \in Nat /\ a.alloc_tls \in BOOLEAN
ASSUME SizesAssumption == KStackMin \in Nat /\ MaxPool \in Nat

VARIABLES
  live,             \* the tasks that are neither free nor in the free list
  pool,             \* task_freelist::_l
  max_size,         \* task_freelist::_max_size
  size,             \* task::_total_stack_size
  has_tls,          \* task::_tls is not null
  run_state, no_preempt_flag,
  queued,           \* rq::_runqueue
  tls,              \* the TLS block of each task that has one
  fs,               \* the task whose block the fs register points to
  heap,             \* how many blocks of dynamic TLS are allocated
  stack,            \* the stack that is executing
  ctx,              \* task::_ctx: the stack it leads to
  pc, prev, to, made, back,  \* locals of the code on each stack: prev_task, the
                    \*   task switched to, the task spawned, where to go on
  fault

taskVars == <<run_state, no_preempt_flag, queued>>
memoryVars == <<live, pool, max_size, size, has_tls>>
tlsVars == <<tls, fs, heap>>
frameVars == <<prev, to, made, back>>
vars == <<taskVars, memoryVars, tlsVars, frameVars, stack, ctx, pc, fault>>

Places == {"user", "start", "born", "started", "tls", "thunk", "go", "back",
           "entry", "gone", "none"}
Faults == {"none", "assertion", "stray", "no node", "dead tls"}

TypeOK ==
  /\ live \subseteq Task
  /\ pool \in Seq(Task)
  /\ max_size \in 0..MaxPool
  /\ size \in [Task -> Nat]
  /\ has_tls \in [Task -> BOOLEAN]
  /\ run_state \in [Task -> {"RUNNING", "SUSPENDED", "STOPPED", "WAITING"}]
  /\ no_preempt_flag \in [Task -> BOOLEAN]
  /\ queued \subseteq Task
  /\ tls \in [Task -> TlsBlocks(Task)]
  /\ fs \in Task
  /\ heap \in Nat
  /\ stack \in Task
  /\ ctx \in [Task -> Task \cup {NULL}]
  /\ pc \in [Task -> Places]
  /\ back \in [Task -> {"user", "start", "started", "entry", "gone"}]
  /\ \A f \in {prev, to, made} : f \in [Task -> Task \cup {NULL}]
  /\ fault \in Faults

(* task::wrap_current and start_async: the kernel thread becomes Host. *)
Init ==
  /\ live = {Host}
  /\ pool = <<>>
  /\ max_size \in 0..MaxPool
  /\ size = [t \in Task |-> 0]
  /\ has_tls = [t \in Task |-> t = Host]
  /\ run_state = [t \in Task |-> IF t = Host THEN "RUNNING" ELSE "STOPPED"]
  /\ no_preempt_flag = [t \in Task |-> FALSE]
  /\ queued = {}
  /\ tls = [t \in Task |->
       IF t = Host THEN [NewTls(t) EXCEPT !.node = TRUE, !.ctype = TRUE, !.data = ResetData(NewTls(t))]
                   ELSE NewTls(t)]
  /\ fs = Host
  /\ heap = 0
  /\ stack = Host
  /\ ctx = [t \in Task |-> NULL]
  /\ pc = [t \in Task |-> IF t = Host THEN "user" ELSE "none"]
  /\ back = [t \in Task |-> "user"]
  /\ prev = [t \in Task |-> NULL]
  /\ to = [t \in Task |-> NULL]
  /\ made = [t \in Task |-> NULL]
  /\ fault = "none"

-----------------------------------------------------------------------------
(* task::current *)
Current == tls[fs].thread

At(s, p) == fault = "none" /\ stack = s /\ pc[s] = p
Goto(s, p) == pc' = [pc EXCEPT ![s] = p]

Fail(why) ==
  /\ fault' = why
  /\ UNCHANGED <<taskVars, memoryVars, tlsVars, frameVars, stack, ctx, pc>>

(* allocate_stack: the guard page is part of what is allocated. *)
TotalSize(a) == a.size + (IF a.guard = DefaultGuard THEN KStackMin ELSE a.guard)

(* find_task: the first in the free list that fits, if there is one.  It is
   the size without a guard that is asked for. *)
Fitting(a) == {i \in DOMAIN pool : size[pool[i]] = a.size /\ has_tls[pool[i]] = a.alloc_tls}

(* insert_task *)
InsertTask(t) ==
  LET GoesBefore(u) == size[t] >= size[u] /\ (has_tls[t] \/ ~ has_tls[u])
      before == {i \in DOMAIN pool : GoesBefore(pool[i])}
  IN  InsertAt(pool, IF before = {} THEN Len(pool) + 1 ELSE Min(before), t)

(* task::reset of a recycled task *)
Recycle(t, i) ==
  /\ pool' = RemoveAt(pool, i)
  /\ tls' = IF has_tls[t] THEN [tls EXCEPT ![t] = ResetTls(@)] ELSE tls
  /\ heap' = heap - Cardinality(Blocks(tls[t]))
  /\ UNCHANGED <<size, has_tls>>

(* Memory that is nobody's; all of it is alike. *)
Free == Task \ (live \cup ToSet(pool))

(* task::create *)
Create(t, a) ==
  /\ Free # {}
  /\ t = CHOOSE u \in Free : TRUE
  /\ size' = [size EXCEPT ![t] = TotalSize(a)]
  /\ has_tls' = [has_tls EXCEPT ![t] = a.alloc_tls]
  /\ tls' = [tls EXCEPT ![t] = NewTls(t)]
  /\ UNCHANGED <<pool, heap>>

(* spawn's call of make_task (the bound: Task has a name left) *)
MakeTask(s, a) ==
  /\ At(s, "user")
  /\ \E t \in Task :
       /\ IF Fitting(a) = {} THEN Create(t, a)
                             ELSE t = pool[Min(Fitting(a))] /\ Recycle(t, Min(Fitting(a)))
       /\ live' = live \cup {t}
       /\ no_preempt_flag' = [no_preempt_flag EXCEPT ![t] = FALSE]
       /\ made' = [made EXCEPT ![s] = t]
  /\ Goto(s, "start")
  /\ UNCHANGED <<run_state, queued, max_size, fs, prev, to, back, stack, ctx, fault>>

(* task::start saves the starter and goes on at the top of the new stack ... *)
Start(s) ==
  /\ At(s, "start")
  /\ IF run_state[made[s]] # "STOPPED" \/ made[s] = Current
     THEN Fail("assertion")
     ELSE /\ ctx' = [ctx EXCEPT ![Current] = s]
          /\ stack' = made[s]
          /\ prev' = [prev EXCEPT ![made[s]] = Current]
          /\ pc' = [pc EXCEPT ![s] = "started", ![made[s]] = "born"]
          /\ UNCHANGED <<taskVars, memoryVars, tlsVars, to, made, back, fault>>

(* ... which saves itself there and switches back. *)
SwitchBack(s) ==
  /\ At(s, "born")
  /\ ctx' = [ctx EXCEPT ![s] = s]
  /\ stack' = ctx[prev[s]]
  /\ prev' = [prev EXCEPT ![s] = NULL]
  /\ Goto(s, "entry")
  /\ UNCHANGED <<taskVars, memoryVars, tlsVars, to, made, back, fault>>

(* The rest of spawn; preempt_mutex::node asserts that there is a node. *)
Schedule(s) ==
  /\ At(s, "started")
  /\ IF ~ tls[fs].node THEN Fail("no node")
     ELSE /\ run_state' = [run_state EXCEPT ![made[s]] = "SUSPENDED"]
          /\ queued' = queued \cup {made[s]}
          /\ made' = [made EXCEPT ![s] = NULL]
          /\ Goto(s, "user")
          /\ UNCHANGED <<no_preempt_flag, memoryVars, tlsVars, prev, to, back,
                         stack, ctx, fault>>

-----------------------------------------------------------------------------
(* Variant: the preempt_mutex is not locked across the switch. *)
LockedNot(c) == no_preempt_flag

(* The preempt_mutex is held from here until c is switched back to. *)
Locked(c) == [no_preempt_flag EXCEPT ![c] = TRUE]

(***************************************************************************)
(* The current task stops running in the given state: sched_node::yield    *)
(* and the first lines of switch_to_internal.  Another task is queued; if  *)
(* not, nothing is switched (module Sched has what happens then).          *)
(***************************************************************************)
Leave(s, state, place) ==
  LET c == Current
      q == IF state = "RUNNING" THEN queued \cup {c} ELSE queued
  IN  \E n \in q \ {c} :
        /\ queued' = q \ {n}
        /\ run_state' = [run_state EXCEPT ![c] = IF state = "RUNNING" THEN "SUSPENDED" ELSE state]
        /\ no_preempt_flag' = Locked(c)
        /\ prev' = [prev EXCEPT ![s] = c]
        /\ to' = [to EXCEPT ![s] = n]
        /\ back' = [back EXCEPT ![s] = place]
        /\ Goto(s, "tls")
        /\ UNCHANGED <<memoryVars, tlsVars, made, stack, ctx, fault>>

(* sched::yield; without a node it only logs. *)
Yield(s) ==
  /\ At(s, "user")
  /\ tls[fs].node
  /\ \E state \in {run_state[Current], "WAITING"} : Leave(s, state, "user")

Exit(s) ==
  /\ At(s, "user")
  /\ s # Host
  /\ IF tls[fs].node THEN Leave(s, "STOPPED", "gone") ELSE Fail("no node")

(* A waiting task is queued again, by exit or unpark. *)
Wake(s, t) ==
  /\ At(s, "user")
  /\ run_state[t] = "WAITING"
  /\ t \notin queued
  /\ IF ~ tls[fs].node THEN Fail("no node")
     ELSE /\ queued' = queued \cup {t}
          /\ UNCHANGED <<run_state, no_preempt_flag, memoryVars, tlsVars, frameVars,
                         stack, ctx, pc, fault>>

(***************************************************************************)
(* The alarm's trap, on whatever stack executes: it yields in the name of  *)
(* the thread pointer.  If that is not the task whose stack this is, the   *)
(* context is saved into the wrong task: the model stops there.            *)
(***************************************************************************)
Preemptible == fault = "none" /\ tls[fs].node /\ ~ no_preempt_flag[Current]

Tick(s) ==
  /\ stack = s
  /\ Preemptible
  /\ IF Current = s THEN Leave(s, run_state[s], pc[s]) ELSE Fail("stray")

-----------------------------------------------------------------------------
(* Variant: a block is put in use only once. *)
UseOnce(n) == IF tls[n].ctype THEN fs ELSE n

(* tls::use *)
Use(n) == n

(* Variant: a light task does not put its name in the block it borrows. *)
BorrowUnnamed(b, n) == b

(* tls::current()->set_thread(this), of a light task *)
Borrow(b, n) == [b EXCEPT !.thread = n]

(* switch_to_internal: "officially in the task's context" *)
SetTls(s) ==
  LET n == to[s]
  IN  /\ At(s, "tls")
      /\ IF has_tls[n]
         THEN /\ tls' = [tls EXCEPT ![n].thread = n, ![n].ctype = TRUE]
              /\ fs' = Use(n)
         ELSE /\ tls' = [tls EXCEPT ![fs] = Borrow(@, n)]
              /\ UNCHANGED fs
      /\ Goto(s, "thunk")
      /\ UNCHANGED <<taskVars, memoryVars, heap, frameVars, stack, ctx, fault>>

(* post_tls_switch_thunk: g_current_sched_node = this *)
Thunk(s) ==
  /\ At(s, "thunk")
  /\ tls' = [tls EXCEPT ![fs].node = TRUE]
  /\ Goto(s, "go")
  /\ UNCHANGED <<taskVars, memoryVars, fs, heap, frameVars, stack, ctx, fault>>

(* Variant: the task to save into is looked up after the TLS was switched. *)
SavedIntoCurrent(s) == Current

(* &prev_task->_ctx *)
SavedInto(s) == prev[s]

(* gthread_switch_to *)
Go(s) ==
  /\ At(s, "go")
  /\ ctx' = [ctx EXCEPT ![SavedInto(s)] = s]
  /\ stack' = ctx[to[s]]
  /\ Goto(s, IF back[s] = "gone" THEN "gone" ELSE "back")
  /\ UNCHANGED <<taskVars, memoryVars, tlsVars, frameVars, fault>>

(* Variant: the task is left SUSPENDED while it runs. *)
ResumedSuspended(t) == run_state

(* prev_task->run_state = RUNNING *)
Resumed(t) == [run_state EXCEPT ![t] = "RUNNING"]

(* switch_to_internal returns, and the preempt_mutex is unlocked. *)
Back(s) ==
  /\ At(s, "back")
  /\ IF prev[s] # Current \/ ~ no_preempt_flag[Current]
     THEN Fail("assertion")
     ELSE /\ run_state' = Resumed(prev[s])
          /\ no_preempt_flag' = [no_preempt_flag EXCEPT ![Current] = FALSE]
          /\ Goto(s, back[s])
          /\ prev' = [prev EXCEPT ![s] = NULL]
          /\ to' = [to EXCEPT ![s] = NULL]
          /\ back' = [back EXCEPT ![s] = "user"]
          /\ UNCHANGED <<queued, memoryVars, tlsVars, made, stack, ctx, fault>>

(* gthread_task_entry, when the task runs for the first time *)
Enter(s) ==
  /\ At(s, "entry")
  /\ run_state' = [run_state EXCEPT ![Current] = "RUNNING"]
  /\ Goto(s, "user")
  /\ UNCHANGED <<no_preempt_flag, queued, memoryVars, tlsVars, frameVars, stack, ctx, fault>>

-----------------------------------------------------------------------------
(***************************************************************************)
(* return_task of a task that has exited: it goes into the free list, or   *)
(* its memory is unmapped, and with it its TLS block.                      *)
(***************************************************************************)
ReturnTask(s, t) ==
  /\ At(s, "user")
  /\ t \in live \ {Host}
  /\ pc[t] = "gone"
  /\ live' = live \ {t}
  /\ Goto(t, "none")
  /\ ctx' = [ctx EXCEPT ![t] = NULL]
  /\ prev' = [prev EXCEPT ![t] = NULL]
  /\ to' = [to EXCEPT ![t] = NULL]
  /\ back' = [back EXCEPT ![t] = "user"]
  /\ IF Len(pool) < max_size
     THEN pool' = InsertTask(t) /\ UNCHANGED <<size, has_tls, tls, heap, fault>>
     ELSE /\ heap' = heap - Cardinality(Blocks(tls[t]))
          /\ tls' = [tls EXCEPT ![t] = NewTls(t)]
          /\ size' = [size EXCEPT ![t] = 0]
          /\ has_tls' = [has_tls EXCEPT ![t] = FALSE]
          /\ fault' = IF fs = t THEN "dead tls" ELSE fault
          /\ UNCHANGED pool
  /\ UNCHANGED <<taskVars, max_size, fs, made, stack>>

(* The program writes to a thread_local; the host's block, which is never
   recycled, is left out. *)
Touch(s, m) ==
  /\ At(s, "user")
  /\ fs # Host
  /\ tls' = [tls EXCEPT ![fs] = TouchTls(@, m)]
  /\ heap' = heap + IF Allocates(tls[fs], m) THEN 1 ELSE 0
  /\ UNCHANGED <<taskVars, memoryVars, fs, frameVars, stack, ctx, pc, fault>>

Step(s) ==
  \/ Start(s) \/ SwitchBack(s) \/ Schedule(s) \/ Yield(s) \/ Exit(s) \/ Tick(s)
  \/ SetTls(s) \/ Thunk(s) \/ Go(s) \/ Back(s) \/ Enter(s)
  \/ \E a \in Attrs : MakeTask(s, a)
  \/ \E t \in Task : Wake(s, t) \/ ReturnTask(s, t)
  \/ \E m \in 1..Modules : Touch(s, m)

Next == \E s \in Task : Step(s)

Spec == Init /\ [][Next]_vars

-----------------------------------------------------------------------------
Switching == {"tls", "thunk", "go"}

(* The task that module Dispatch calls current: the new one from the moment
   it is chosen, the starter while the new stack is set up. *)
Named == CASE pc[stack] \in Switching -> to[stack]
           [] pc[stack] = "born" -> prev[stack]
           [] OTHER -> stack

P == INSTANCE Processor WITH
       current <- Named,
       run_state <- [t \in Task |-> IF t = Named /\ pc[t] = "back" THEN "RUNNING" ELSE run_state[t]],
       no_preempt_flag <- [t \in Task |-> t # Named /\ no_preempt_flag[t]],
       ready <- [t \in Task |-> IF t \in queued THEN 1 ELSE 0],
       fresh <- {t \in Task \ {Named} : pc[t] = "entry" /\ run_state[t] = "SUSPENDED"}

(* The steps of switch_to_internal, start and gthread_task_entry together do
   what modules Sched, Rq, Mutex and Channel take for one step. *)
ImplementsProcessor == P!Spec

(***************************************************************************)
(* Whoever is swapped out has saved a context that leads to its own stack, *)
(* and only stacks of live tasks execute (start, gthread_task_entry and    *)
(* switch_to_internal with its save into prev_task).                       *)
(***************************************************************************)
OwnContext ==
  /\ stack \in live
  /\ \A t \in live \ {stack} : pc[t] \in {"back", "entry", "started"} => ctx[t] = t

(***************************************************************************)
(* When a tick would preempt, it does so in the name of the task whose     *)
(* stack it interrupts, but for two windows: inside start, on the new      *)
(* stack, and on the way to a task that has never run, whose flag is clear *)
(* (the alarm's trap against task.cc:126 and task_impl.h:24).              *)
(***************************************************************************)
OwnName ==
  Preemptible =>
    \/ Current = stack
    \/ pc[stack] = "born"
    \/ pc[stack] \in {"thunk", "go"} /\ pc[to[stack]] = "entry"

(***************************************************************************)
(* A program's code finds its name and its scheduler in the TLS block in   *)
(* use, and a task that has a block finds its own, whoever ran before it   *)
(* and whatever was returned or recycled since (set_thread, use and the    *)
(* thunk of switch_to_internal, tls::reset).                               *)
(***************************************************************************)
UserReady ==
  fault = "none" /\ pc[stack] = "user" =>
    /\ Current = stack
    /\ has_tls[stack] => fs = stack
    /\ tls[fs].node
    /\ tls[fs].ctype

(***************************************************************************)
(* No assertion of start, switch_to_internal or preempt_mutex fails and no *)
(* TLS block disappears under a task that has its own.  A light task may   *)
(* lose the block it borrows: its owner exits and is returned while the    *)
(* light task still runs on it (switch_to_internal, line 27), which        *)
(* unmaps it, or resets it when the task is recycled.                      *)
(***************************************************************************)
OnlyBorrowersFail ==
  fault \in {"none", "stray"} \/ (fault \in {"no node", "dead tls"} /\ ~ has_tls[stack])

(***************************************************************************)
(* A task begins without the thread_locals and the dynamic TLS of the task *)
(* that had its memory before (tls::reset, tls::tls).                      *)
(***************************************************************************)
CleanStart ==
  \A t \in live :
    has_tls[t] /\ pc[t] \in {"born", "entry"} =>
      /\ \A m \in Static : tls[t].data[m] # "dirty"
      /\ Blocks(tls[t]) = {}

(***************************************************************************)
(* Every block of dynamic TLS that is allocated is the entry of one dtv,   *)
(* and no dtv has one that was freed, over all lives of a task (reset,     *)
(* ~tls).                                                                  *)
(***************************************************************************)
BlocksAccounted == heap = Cardinality({e \in Task \X (1..Modules) : tls[e[1]].dtv[e[2]] = Block})
=============================================================================
