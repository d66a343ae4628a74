# gthread in TLA+

gthread is a library of green threads: tasks with their own stacks, a fair
scheduler that runs them on one kernel thread, a timer that preempts them, and
a mutex and channels built on top. This directory specifies its scheduler,
its blocking primitives and its context switch in TLA+, checks them with TLC on small instances and
proves the scheduler's safety properties with TLAPS for any number of tasks.

## 1. The system

| part | state | operations | talks to |
|---|---|---|---|
| `sched/sched.*` | the one `sched_context` | `spawn`, `yield`, `join`, `detach`, `exit`, `sleep_for` | calls the node under the `preempt_mutex`, the free list without it |
| `sched/sched_node.*` | `_deferred`, `_rq`, `_last_tick`, `_host_task` | `yield`, `yield_for`, `schedule`, `switch_to`, `start_async` | picks the next task, charges run time, returns the deferred task |
| `sched/internal/rq*`, `time_ordered_queue*` | run queue (multiset by virtual run time), sleep queue (multimap by wake time), `_min_vruntime` | `push`, `sleep_push`, `pop` | used by the node only |
| `sched/task*` | `run_state`, `joiner`, `detached`, `return_value`, `vruntime`, `no_preempt_flag`, saved context | `create`, `reset`, `start`, `stop`, `switch_to`, `destroy` | the end handler calls `sched::exit` |
| `sched/internal/task_freelist*` | `_l`, `_mu` | `make_task`, `return_task` | called by spawn, join, detach and by the node's yield |
| `sched/preempt.*`, `platform/alarm*` | the timer, the trap | `enable_timer_preemption`, `disable_timer_preemption`, the SIGPROF handler | yields in the name of whatever task it interrupts |
| `concur/internal/waiter*` | `_waiter` | `park`, `park_if`, `unpark`, `swap` | sets run states, yields, schedules |
| `concur/mutex.*`, `concur/internal/spin_lock.h` | `_lock`, `_owner`, `_waitqueue`, `_priority_boost` | `lock`, `unlock` | one waiter per waiting task; spins by yielding |
| `concur/internal/channel_window*`, `concur/channel*`, `util/close_wrapper.h` | a waiter, the reader's slot | `read`, `write`, `close` | two parties over one waiter |
| `concur/internal/ring_buffer*` | a waiter, two counters, the slots | `read`, `write`, `close` | the same, for buffered channels |
| `gthread.h` | a handle | `g`, `join`, `detach`, `self::yield`, `self::sleep_for` | thin wrappers of `sched` |
| `platform/tls*` | per task: the thread pointer, the dtv, copies of the TLS images | `tls`, `reset`, `set_thread`, `use`, `current` | created, reset and put in use by `task` |
| `arch/switch_to*`, `platform/memory*` | a saved stack pointer, the stacks | `gthread_switch_to`, `gthread_switch_to_and_spawn`, `allocate_stack` | called by `task` |
| `platform/clock*`, `util/*` | clocks, logging | | system calls |

There is one kernel thread and one node. What makes the code hard is that the
SIGPROF handler may call the scheduler between any two instructions of a task
whose `no_preempt_flag` is clear. Code under the `preempt_mutex` is atomic up to
the switch it ends in; everything else (the free list, `join` between its
unlock and its `yield`, `park_if`, `unpark`, `lock`, `unlock`) interleaves with
all other tasks. The hazards are listed, with their lines, in `PROJECT.json`.

What makes each part correct:

- scheduler: a task that can run is where the scheduler will find it, once; a
  join returns, with the result of the right task; a stack is given back
  exactly once, and never by the task that stands on it;
- queues: whoever is popped was pushed; tasks that stay runnable get the
  processor and equal shares of it; sleepers sleep as long as they asked;
- mutex: one owner; a waiter on the list is always on somebody's way to be
  woken; a waiter is not freed under the task that parks on it;
- channels: values arrive in order, once, or are handed back; nobody stays
  parked while the other side has something for him;
- context switch and task memory: the name by which the alarm knows a task is
  that of the stack it interrupts; a saved context leads to its own stack; a
  recycled task finds nothing of the one before, and no TLS memory is freed
  twice or never.

## 2. The modules

| module | models | lines of |
|---|---|---|
| `Dispatch` | the processor: the current task, run states, the run queue as a bag, requeueing and the switch | `task_impl.h`, `sched_node.cc` |
| `Sched` | all operations of `sched.h`, the deferred return, the free list and its mutex, ticks | `sched.cc`, `sched_node.cc`, `task.cc`, `task_freelist.cc`, `preempt.cc` |
| `RunBag` | abstract specification: what Sched relies on of the queues | - |
| `Rq` | virtual run times, the ordered queues, the clocks, hand-offs | `rq*`, `time_ordered_queue*`, `sched_node.cc` |
| `Waiter` | the steps of park and unpark | `waiter*` |
| `Mutex` | `lock` and `unlock` over Waiter, with the spin lock | `mutex.cc`, `spin_lock.h` |
| `ChannelEnd` | what the two kinds of channel share: `park_if`, the unparking at the end of a call, dropping an end | `waiter*`, `channel_impl.h`, `close_wrapper.h` |
| `ChannelWindow` | `read`, `write`, `close` of the synchronous channel, with `swap` | `channel_window*`, `waiter.cc` |
| `RingBuffer` | `read`, `write`, `close` of the buffered channel | `ring_buffer*` |
| `Channel` | a channel of either kind, and its properties | `channel*` |
| `Fifo` | abstract specification: a bounded queue that closes | - |
| `Tls` | a TLS block: the constructor, `reset`, a program's writes | `tls_linux.cc`, `tls.h` |
| `TaskContext` | the inside of `switch_to`, `start` and `gthread_task_entry`; `create`, `reset`, `destroy`; the free list by attributes | `task*`, `task_freelist.cc`, `memory.cc`, `tls_linux.cc`, `arch/switch_to*` |
| `Processor` | abstract specification: a switch in one step | - |
| `SchedProofs`, `RqProofs`, `MutexProofs`, `ChannelProofs`, `TaskContextProofs` | the theorems about these modules | |
| `MCSched`, `MCRq`, `MCMutex`, `MCChannel`, `MCTaskContext` | instances for TLC (symmetry sets, attributes) | |

`Sched`, `Rq`, `Waiter` and `Processor` extend `Dispatch`; `Mutex` and
`ChannelEnd` extend `Waiter`; `ChannelWindow` and `RingBuffer` extend
`ChannelEnd`, and `Channel` extends both. Three refinements hold the modules
together:

- `Rq` implements `RunBag` (`ImplementsRunBag`), the abstraction that `Sched`
  uses of the queues: any queued task may be next;
- `TaskContext` implements `Processor` (`ImplementsProcessor`), whose only
  switch is `Dispatch!SwitchTo`: this is why a switch may be one step in all the
  other modules;
- `Channel` implements `Fifo` (`ImplementsFifo`), which is what a program may
  rely on of either kind of channel.

### State and steps

A task is a member of `Task`. `current` is `task::current()`; `ready[t]` is how
often `t` is in the run queue, so that a second push would show. In `Sched`,
`Mutex`, `Channel` and `TaskContext`, `pc[t]` is the place in the code where `t` stands, and a step is the
code from one place where a tick can strike to the next. A tick is a step of its
own: it runs the whole of `sched_node::yield` in the name of the current task,
wherever that stands, if its `no_preempt_flag` is clear.

`NodeYield` is the whole of `sched_node::yield`: it returns the deferred task,
requeues or defers the caller, pops and switches. A process that aborts or
blocks for good is in a state with a `fault`, and nothing happens any more;
safety properties are of running processes and `NoFault` is a property of its
own.

Outside `TaskContext` a switch is one step: for the task that is swapped out it ends when somebody
switches back. A fresh task is swapped in at the beginning of
`gthread_task_entry`, and `Enter` is the line that sets it RUNNING.

In `Rq` a task is a number, its address. `ran` is the time since `_last_tick` in
clock units, `Unit` of which make the microsecond that `vruntime` is counted
in. The clock of the sleep queue is another one (`wall`).

In `Channel` one task has the reading end and one the writing end, and `monitor`
says which kind of channel it is. The writer's n-th value is n; `got` and `fate`
record what reads returned and what writes reported. Either end may be dropped
whenever its task is outside a call. The test and the exchange of `unpark` and
`swap` are one step: the task that was found WAITING cannot run, and so cannot
change anything, in between.

- Synchronous: `reader` says whether `_reader` is set, `ret` is the slot it
  points to.
- Buffered: `r` and `w` count modulo `Wrap`, as `size_t` does, and are stored
  each by one end. What an end loaded of the other's counter decides between
  waiting and going on; the decision is in `pc`, and stale as soon as the other
  end moves. `Stalled` is the state in which it stays wrong: one end is parked
  that could go on, and the other, which cannot, finds the waiter taken, goes
  round its loop and unparks nobody.

`TaskContext` is below all this. What executes is a stack (`stack`); the alarm
acts in the name of `Current`, the thread pointer in the TLS block that `fs`
names. The two differ on the way from one task to the next. A light task
(`alloc_tls` false) has no block and puts its name into the one in use
(`task_impl.h:27`). The model ends in a fault when the alarm strikes while name
and stack disagree and the flag is clear ("stray"), when the block in use is
unmapped ("dead tls"), or when it has no node any more because it was reset for
another task ("no node"); `OwnName` and `OnlyBorrowersFail` say exactly who is
exposed to these. Who joins and detaches is the subject of `Sched`: here
a task that has exited is returned by any other one. Memory that is free is all
alike, so a fresh task takes any of it. The host's TLS block is never recycled,
and programs' writes to it are left out.

A TLS block (`Tls`) has a thread pointer, a dtv entry per module (into the
block's static part, a dynamic block, or unset) and for each static module
whether its data is the image, part of it ("torn") or a program's ("dirty").

Definitions whose comment begins with "Variant" are used by nothing: each is a
way in which the definition after it could have been written wrongly, and
`PROJECT.json` says which property notices.

## 3. The runs

| run | instance | expected | shows |
|---|---|---|---|
| `sched` | host and 2 tasks, ticks at `user`, `sched`, `join`, `claim` | pass | `NoLostTask`, `NoFault`, `JoinReturns`, `DetachedReclaimed` |
| `sched_any` | host and 3 tasks, ticks everywhere, sleeps | pass | `QueuedOnce`, `NoUseAfterReturn`, `JoinSeesResult`, `NoLeak`, `NeverFreesRunningStack`, `TypeOK` |
| `sched_entry` | ticks in `gthread_task_entry` only | violation | a task is lost there |
| `sched_sleep` | no ticks, sleeps | violation | a sleeper popped by its own yield is lost |
| `rq` | 3 tasks, respawned, sleeping, hand-offs | pass | `ImplementsRunBag`, `KeepsPace`, `TypeOK` |
| `rq_live` | 3 tasks, bursts of a microsecond | pass | `EveryoneRuns` |
| `rq_starve` | the same with shorter bursts | violation | a fast yielder starves the rest |
| `rq_sleep` | sleeps of one unit | violation | sleepers wake at once |
| `mutex` | 3 tasks | pass | `MutualExclusion`, `NoLostWakeup`, `WaiterOutlivesPark`, `WaitersCounted`, `NoFault`, `WaiterIsWoken`, `TypeOK` |
| `channel` | a reader and a writer, both kinds of channel, 5 values | pass | `InOrder`, `SentIsRead`, `NoDanglingReader`, `SlotsSound`, `OnlyWriteAsserts`, `CallsReturn`, `ImplementsFifo`, `TypeOK` |
| `channel_assert` | the same, synchronous only | violation | the writer's assertion can fail |
| `context` | host and 2 tasks, with and without TLS or guard | pass | `OwnContext`, `OwnName`, `UserReady`, `OnlyBorrowersFail`, `CleanStart`, `BlocksAccounted`, `ImplementsProcessor`, `TypeOK` |

What the properties of `mutex`, `channel` and `context` say:

- `WaitersCounted`: `_priority_boost` is the number of tasks in `lock`'s slow
  path, and the wait list has only their waiters, each once, whoever barged in.

- `CallsReturn`: every call returns, unless `channel_window`'s assertion fails or
  the ring is `Stalled`. Both happen (section 5); nothing else does.
- `SlotsSound`: no value is constructed over a living one and none is taken from
  an empty slot, across wrapped counters and stale loads.
- `NoDanglingReader`: the writer never stores through the pointer of a read that
  has returned.
- `OnlyWriteAsserts`: of the assertions of `channel_window` and `waiter` only the
  one in `write` (`channel_window_impl.h:56`) can fail, of a writer that was woken
  and found the channel open, and somebody can always run.
- `OwnName`: a tick that would preempt finds the right task, except inside
  `start` and on the way to a task that has never run.
- `OwnContext`: every task that is swapped out has saved its own stack.
- `UserReady`, `OnlyBorrowersFail`: programs' code finds its name, its block and
  its node; only a light task can lose the block it runs on.
- `CleanStart`, `BlocksAccounted`: recycled TLS is clean, dynamic TLS is freed
  once.

Bounds. Three tasks are enough for a joiner, a joined task and a bystander that
is dispatched between them; four let two detached tasks exit one after the other
with both a joiner and a spawner about, and with `MaxPool = 1` both branches of
`return_task` happen. The number of tasks bounds spawning only: names are
recycled. In `Rq`, `MaxVruntime` bounds the virtual run time: three or four
microseconds are two bursts more than the gap that two tasks can have. `MaxWall`
lets the clock pass one wake time. `EveryoneRuns` is asked of tasks that are
queued while the virtual run times are away from the bound (`NearBound`), since
at the bound time stands still. `rq_live` has no hand-offs: two tasks that hand
the processor to each other do so without the run queue, and nobody else runs
until a tick. Five
values fill a ring of two slots twice over, and with `Wrap = 4` carry both
counters across the wrap; in the synchronous channel they let writes follow
reads that are still returning. In `TaskContext` `max_size` is 0 or 1, so that
exited tasks are both unmapped and kept, and the three kinds of attributes make
the free list both find and miss; a host, a task with a block and one that
borrows it are the parties of every known difficulty. `Modules = 2` has one
static and one dynamic module.

Ticks. `sched` leaves out the ticks in `make_task` and `return_task`, where the
holder of the free list's `std::mutex` is preempted and the kernel thread then
blocks in it, and in `gthread_task_entry`, which `sched_entry` is about. With
ticks everywhere (`sched_any`) the properties that hold nevertheless are checked,
up to that block; no property says that it cannot happen, and `NoFault` of `sched`
does not decide it.

Fairness. `Sched`: the timer ticks while it is set; a task that ticks find on the
run queue again and again is run again and again (`Served`), which is what
`rq_live` shows of the ordered queue; a task inside a call
goes on whenever it has the processor; spawned programs end, the host may
compute for ever. `JoinReturns` and `DetachedReclaimed` ask that the timer stays
set. `Mutex`: a queued task is popped in the end, and a task goes on when it has
the processor, but need not ask for the mutex. `Channel`: the same, and a task outside a
call calls again or drops its end (the number of writes is bounded, so the
writer drops its end at last). `rq_starve` is what these assumptions leave
out: loops that yield in less than a microsecond are charged nothing, and such are
the loops of `spin_lock`, of `unlock` and of the channels. `WaiterIsWoken` and
`CallsReturn` are about the protocols, and do not say that these loops never
starve the task they wait for. `Rq`: time passes and the current task yields (or
is ticked) again and again. `TaskContext` states safety only.

Deadlock checking is off where the process may end in a fault or a bound stops
it (`sched_any`, the violation runs, `Rq`, `Channel`, where both ends are dropped
at last, and `TaskContext`), on in `sched` and `mutex`.

## 4. What is proved

Each theorem is about one component's `Spec` and holds for every value of the
constants that satisfies the assumptions named in the module that declares them.

| module | theorems |
|---|---|
| `SchedProofs` | `TypeCorrect`, `QueuedOnceAlways`, `NoUseAfterReturnAlways`, `JoinSeesResultAlways`, `NoLeakAlways`, `NeverFreesRunningStackAlways` (an action property), `NoLostTaskAlways`, `NoFaultAlways` |
| `RqProofs` | `TypeCorrect`, `KeepsPaceAlways`, `Implementation`: Rq implements `RunBag` |
| `MutexProofs` | `TypeCorrect`, `MutualExclusionAlways`, `NoLostWakeupAlways`, `WaiterOutlivesParkAlways`, `WaitersCountedAlways`, `NoFaultAlways` |
| `ChannelProofs` | `TypeCorrect`, `InOrderAlways`, `SentIsReadAlways`, `NoDanglingReaderAlways`, `SlotsSoundAlways`, `OnlyWriteAssertsAlways`, `Implementation`: Channel implements `Fifo` |
| `TaskContextProofs` | `TypeCorrect`, `OwnContextAlways`, `OwnNameAlways`, `UserReadyAlways`, `OnlyBorrowersFailAlways`, `CleanStartAlways`, `BlocksAccountedAlways`, `Implementation`: TaskContext implements `Processor` |

Each of these modules has an inductive invariant `IInv`, a conjunction of named
parts, one lemma per action that preserves it, and lemmas for the pieces that
several actions share (what a yield does, what a list with one element more or
less is). The invariants were checked by TLC on the instances of the runs
first.

### Sched

For every set of tasks, every `MaxPool` and every choice of `TickAt` and
`Sleeps`; `NoLostTaskAlways` if no tick strikes in `gthread_task_entry` and
nobody sleeps: the runs `sched_entry` and `sched_sleep` show that neither
hypothesis can be dropped. `NoFaultAlways` if moreover no tick strikes in
`make_task` and `return_task`, and `Task` is finite.

None of the properties is inductive. `QueuedOnce`, for one, needs that the
joiner of a task that still runs is on no queue when exit pushes it, which needs
that it stands in `join` about that very task, which needs that only the holder
of a handle joins, that handles are of live tasks, and that `STOPPED` says that a
task has exited. `SafeInv` is the conjunction of these facts (`AllocInv`,
`EndedInv`, `QueueInv`, `StoppedInv`, `SpawnInv`, `TargetInv`, `OwnerInv`,
`JoinInv`, `JoinerInv`, `DeferredInv`); `IInv` asks it of a process that runs.
`NoLostTask` adds `RunningInv`: the current task is RUNNING, or at its entry, or
about to wait for a task that has not exited.

`NoFault` adds `MuInv` (nobody is switched away from with the free list locked)
and `HostInv` (nobody has a handle to the host task). That a yield finds somebody
is an argument about all tasks at once: if nobody were queued, each scheduled
task would wait in `join` for another scheduled one. Who waits has the handle of
the task it waits for and a task has one handle at most, so that no task is
waited for twice; the host is waited for by nobody; so there would be as many
tasks that are waited for as tasks that wait, among one fewer
(`NotEverybodyWaits`, with the library's pigeonhole theorem). Cycles of joins
need no argument of their own.

Assumptions: `Host \in Task`, `NULL \notin Task`, `MaxPool \in Nat`,
`TickAt \subseteq Places`, `Sleeps \in BOOLEAN`.

### Rq

For any set of tasks (numbers, whose order stands for that of addresses), any
bursts and sleeps, and any bounds. `KeepsPace` is not inductive: that the pace is
kept when a task is popped rests on who can be popped. `PlaceInv` says that a
task is in one place at most (current, queued once, asleep), `SleepInv` that
nobody sleeps twice, `PaceInv` that a task that has never rested is on the run
queue whenever it is not current, and that the current one has the least virtual
run time. The refinement is then one lemma per action; what it needs of the data
is that `First`, the head of the ordered queue, is a queued task
(`FirstIsLeast`), and that inserting by time and taking the head off change the
set of sleepers by one (`SleepPush`, a filtered prefix and the rest).

Assumptions: `Task \subseteq Nat`, `Host \in Task`, `Unit` positive,
`MinBurst <= MaxBurst`, natural bounds and durations.

### Mutex

For any finite set of tasks. The core is `SpinInv` (the holder of the spin lock
is the one task in a critical stretch), `ListInv` (nobody is on the wait list
twice, nobody but tasks in lock's slow path; who is about to park is on it),
`CountInv` (`_priority_boost` is the number of these tasks), `WaitInv` and
`WaiterInv` (who waits is on the list and in its own waiter or in the hands of
the one that unparks it) and `UnparkInv` (what unlock knows of the head of the
list between its steps); `NoLostWakeup` needs `WokenInv`, which says of a list
that is not empty that somebody has the mutex or is about to find it free, and
`ReadyInv`, by which that task is queued. `NoFault` needs all of it: the
assertion of `unpark` and that of `lock`, and that a yield finds somebody.

Assumptions: `NULL \notin Task`, `Slot = Task` (each task has the waiter of its
own stack frame), `IsFiniteSet(Task)` (for the counting of
`WaitersCounted`).

### Channel

For any capacity, any wrap that is a multiple of it, and any number of values.
`IInv` has four parts:

- `ControlInv`: where the two ends can be at the same time. `SpotInv` relates the
  waiter, `WAITING` and `pc` (who waits is in the waiter or in the hands of the
  one that took it out), `HandOverInv` relates `_reader` to both (while it is
  set in an open channel, its read has not come back and no write is between
  filling the slot and waking it; a close between `write`'s test of `_closed`
  and its assertion leaves `_reader` null), `CloseInv` and `SchedInv` say what is closed
  and who is queued.
- `ReaderInv` and `WriterInv(a)`: what read returned and has in hand, and what
  write reported, with `a` the last value that was handed over.
- `StoreInv(a)`: the ring has exactly the values after those that left it, up to
  `a`, each in its slot; the difference of the counters modulo `Wrap` is their
  true difference, which is why a stale load does no harm to the values: it can only be too
  careful.

`a` is the one thing that the state does not show (it is a function of the
history), hence the existential in `ValueInv`; `Carried` and `Accepts` say of
each step whether it is the same or one more afterwards, which is what the
refinement needs: the queue of `Fifo` is the run of values after `Len(got)` up to
`a` (`OnTheWayIs`). `OnlyWriteAsserts` needs `AwaitInv` beside `IInv`: a read
whose slot is neither filled nor taken away stays in the waiter, also while the
channel is being closed.

Assumptions: the two ends are the two tasks, one waiter, `MaxWrites \in Nat`,
`Size` positive, `Wrap > Size` and `Wrap % Size = 0` (`size_t` wraps at a power
of two, and `ring_buffer` asserts that its size is one).

### TaskContext

For any sets of tasks, attributes and TLS modules, any sizes, and any limit of
the free list. The invariant `IInv` has four parts:

- `ControlInv`: where the tasks stand. `FrameInv` says that one stack executes and
  where the others were left, `StateInv` which run states go with which place,
  `QueueInv` that whoever is queued or being switched to can run, `MadeInv` what a
  spawner knows of the task it makes, `LiveInv` that memory is a task's, pooled
  once, or free; `OwnContext` is one of the parts itself. Two facts it took the
  proof to see: a task that is preempted in `gthread_task_entry` stays SUSPENDED,
  on no queue, and is never switched to again (the lost task of `sched_entry`);
  and a task that is being made has its `no_preempt_flag` clear.
- `TlsInv`: the name in the block in use is that of the task in whose name the
  executing stack acts (`Bearer`): in the middle of a switch that is the target
  already, in a task's first moments still its spawner, which is where the two
  windows come from that `OwnName` excepts. It is not asked once a block was
  unmapped under the task that runs on it.
- `MemoryInv`: dynamic TLS blocks are behind dtv entries that `reset` and `~tls`
  look at (`DtvInv`), free memory has no TLS (`FreeInv`), the block of a task that
  has yet to run holds nothing of an earlier one (`YoungInv`), and the heap has as
  many blocks as there are entries (`HeapInv`).
- `OnlyBorrowersFail`, itself.

`Implementation` maps the first step of a switch, which chooses the next task, to
`Dispatch!SwitchTo` and the steps after it to stuttering. The states and flags
that `Processor` shows are already those with which the new task will come back
(`State`, `Flag`, `Ready`, `Fresh`).

Assumptions: the host is a task and `NULL` is none; sizes and the limit of the
free list are natural numbers; attributes are records of sizes and a Boolean; the
modules with an image are the first ones, without a gap, the program itself being
module 1 (`prefix_bytes` stops at the first gap, `tls_linux.cc:190`), and no image
is empty (the loop of `reset` ends when it has come down to the base,
`tls_linux.cc:218`). `Task` need not be finite.

### Only model-checked

All liveness (`JoinReturns`, `DetachedReclaimed`, `EveryoneRuns`,
`WaiterIsWoken`, `CallsReturn`), because the proof system has no rules for
fairness here. Every invariant, every action property and every refinement that a
passing run checks is also a theorem.

## 5. Where code and documentation disagree

1. `sched_entry`: a tick between a task's first switch and `task.cc:114` loses
   the task.
2. `sched_sleep`: a task that its own `yield_for` pops stays WAITING
   (`sched_node.cc:96`) and is lost at its next yield.
3. `rq_sleep`: `time_ordered_queue_impl.h:24` hands out entries that are not
   ripe yet.
4. `rq_starve`: `sched_node.cc:61` charges bursts below a microsecond as zero.
5. `channel_assert`: a reader that parked first unparks, on its way out
   (`channel_window_impl.h:31`), the writer that parked with the next value; if
   that one runs before the reader reads again, its assertion (line 56) fails.
   The safety properties of run `channel` hold up to that point.

Two more disagreements have no run of their own:

- `README.md:66-74` claims priority inheritance: a task that holds a resource
  others wait for ages less quickly. The code only writes `task::priority_boost`
  (`mutex.cc:25`, `39`, `65`) and nothing reads it. It is also one field of the
  task, which every mutex of the task overwrites: one that has a contended mutex
  and locks a free one ends with a boost of 0. The model has no such field, since
  it decides nothing; it has the mutex's own count (`WaitersCounted`).
- `task.h:108` says that the `no_preempt_flag` is "also set to true when the task
  IS swapped out to ensure correctness". A fresh task's is clear, so a tick on the
  way to it (`task_impl.h:24`) saves the old task's context into the new one. This
  is the first of the windows that `OwnName` excepts; `sched_entry` quotes the
  same line for what happens a few instructions later.

Weaknesses that no document denies, which the models have and the properties name
as exceptions or leave out:

- `ring_buffer_impl.h:22`: `park_if` looks at `_closed` again but not at the
  counters, so an end can park on a stale view and the ring be `Stalled`
  (excepted in `CallsReturn`).
- `ring_buffer_impl.h:24`: a reader that saw an empty buffer and then a closed
  channel returns nothing although a value came in between (`SentIsRead` counts
  what lies in the buffer as sent). `channel_test.cc:39-54` drains a buffer after
  the write end is dropped; there every read loads the counter after the last
  write, and nothing is lost. `ring_buffer` destroys no value that is left.
- `task.cc:126`: the other window of `OwnName`, inside `start`.
- `rq_impl.h:18`: the null sleeper is dereferenced (`RunBag` has it as a fault).
- `task_freelist.cc:41` and `:57`: a tick under the free list's `std::mutex`.
- `task_impl.h:27`: a light task runs on a block whose owner may be gone
  (`OnlyBorrowersFail`).
- `tls_linux.cc:229`: after a reset the dtv entry of each module points to the
  image of the module before. `tls_linux.cc:160`: a new block has only the part
  of an image behind `mem_offset`, a reset one the whole.
- `task_freelist.cc:11`: `find_task` compares the size that is asked for, without
  guard, with the size that was allocated, with guard.

## 6. What is not modelled

- The macOS variants of TLS and memory, and `bit_twiddle.h`, which only they use.
- The sizes and the placement of TLS blocks and tasks on the stack
  (`prefix_bytes`), and module numbers with a gap, for which it reserves less than
  the constructor copies (`tls_linux.cc:190`); registers and calling conventions.
- A task that holds several mutexes at once: what is shown is about one mutex. Two
  tasks that lock two of them in opposite orders block each other, as with any
  mutex.
- Failing system calls (`task.cc:15` ignores the result of `allocate_stack`) and
  stacks that the program provides.
- `sched_node::start`, which nothing uses; more than one node.
- A read after the channel was reported closed, which fails the assertion of
  `channel_window_impl.h:23` because line 27 leaves `_reader` set.
- A handle that two tasks share; three parties on one waiter.
- What a stray tick does after it has saved a context into the wrong task, and
  what a program does on a TLS block that is gone: the model ends there.
- Logging, formatting, compiler helpers, the measuring `timer`, benchmarks.

## 7. Plan

All safety properties of the passing runs are proved. What is left: lemmas that
would let the proofs of `Channel` and `TaskContext` be shorter, and review of the
modules against the source when it changes.
