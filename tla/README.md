# TLA+ models of the RPCS3 lv2 kernel

RPCS3 emulates the PlayStation 3. Its `lv2` directory re-implements the console's
kernel: guest PPU threads are host threads, and the system calls by which they wait
for each other are C++ handlers that run on those host threads, with lock-free fast
paths, timeouts, and savestates that stop every thread in the middle of what it does.
This directory models that part of the emulator: the thread scheduler, the
synchronisation objects built on it, timers, SPU thread groups, and the host lock that
guards them all. All paths below are relative to `rpcs3/Emu/Cell/lv2/` unless they say
otherwise.

## The system

| part | source | state | operations | hard behaviours |
|---|---|---|---|---|
| scheduler | `lv2.cpp`, `sys_sync.h`, `../../CPU/CPUThread.cpp` | run queue `g_ppu`, `g_pending`, timeouts `g_waiting`, notification lists, flags of each thread | sleep, awake, yield, set priority, start, exit, schedule_all, check_state, load | suspended threads must acknowledge before their place is given away; sleeps overtaken by wake-ups; skipped host notifications; start after a load |
| wait queues | `sys_sync.h` | list linked through `next_cpu` | emplace, unqueue, schedule | order by priority, then age |
| semaphore | `sys_semaphore.cpp` | `val`, `sq` | wait, trywait, post, destroy | `val` changes without the mutex, `sq` does not |
| mutex | `sys_mutex.cpp/.h` | owner and queue in one word, `lock_count` | lock, trylock, unlock, destroy | queued before asleep; hand-over to a waiter that times out |
| condition variable | `sys_cond.cpp` | `sq`, the mutex | wait, signal, signal_all, signal_to, destroy | moves waiters between two queues; recursion depth kept in a local |
| reader-writer lock | `sys_rwlock.cpp` | `owner` word with wait bit, `rq`, `wq` | rlock, wlock, try locks, unlocks, destroy | fast paths stopped only by one bit |
| event flag | `sys_event_flag.cpp` | `pattern`, `sq` | wait, trywait, set, clear, cancel, destroy | decisions for all waiters published by one compare-and-swap |
| event queue, port | `sys_event.cpp` | `events`, `pq`; `queue`, `is_busy` | receive, tryreceive, drain, destroy; send, connect, disconnect, destroy | an event is stored in a waiter's registers; a full queue |
| lightweight mutex, condition variable | `sys_lwmutex.cpp`, `sys_lwcond.cpp`, `../Modules/sys_lwmutex_.cpp`, `sys_lwcond_.cpp` | `sys_lwmutex_t` in guest memory; `signaled`, `sq`, `lwcond_waiters` | lock, trylock, unlock; wait, the three signals; destroys | guest memory and kernel object change in separate steps |
| timers | `sys_timer.cpp` | `state`, `expire`, `period`, port; the thread's list and sleep | create, connect, start, stop, information, disconnect, destroy; the timer thread | the thread looks without the mutex, with a clock it read for all timers |
| SPU thread groups | `sys_spu.cpp`, `../SPUThread.cpp`, `../../CPU/CPUThread.cpp` | `run_state`, `running`, `stop_count`, exit status; flags of each SPU | start, suspend, resume, terminate, join, destroy; exits and receives of the SPUs | threads count themselves out without the mutex; several causes of an end race |
| host lock | `Utilities/mutex.*`, `cond.*` | one word each | lock, lock_shared, upgrade, downgrade, lock_unlock; wait, notify | stolen signals, upgrades, saturating counters |

The objects interact with each other only through the scheduler (`sleep`, `awake`),
except the condition variables, which work on their mutexes, and timers, SPU groups
and devices, which use event queues. `PROJECT.json` lists the other parts of the
emulator and why each is not modelled.

What the objects have to guarantee, and what a test hardly reaches: no wake-up is
lost between a lock-free path and a locked one; a timeout that races with a hand-over
loses exactly one of the two; counters agree with queues; the `ensure()`s of the code
never fail; and a thread that was stopped for a savestate in the middle of a call
repeats the call after the load without the call taking effect twice.

## Modules

* `Lv2Threads` is the abstract scheduler: a thread is `onproc`, `sleep` or `ready`;
  `Sleep`, `Awake`, `SelfAwake` and `Resume` are what the objects use of it.
* `Lv2Sched` is the scheduler itself. It is shown to implement `Lv2Threads`
  (`ImplementsThreads`): a thread outside the run queue sleeps, a queued one that
  waits to be let go is ready.
* `Lv2WaitQueue` holds the queue operators; a queue is a sequence, newest first, as
  in the list.
* `Lv2Sema`, `Lv2Mutex`, `Lv2RwLock`, `Lv2EventFlag`, `Lv2EventQueue` extend
  `Lv2Threads` and `Lv2WaitQueue` with one object each. `Lv2Mutex` holds the actions of
  the mutex only; `Lv2Cond` extends it and composes them with those of the condition
  variable, and the run `cond` checks the two together.
* `Lv2LwMutex` has the actions of the lightweight mutex, library and kernel part, and
  `Lv2LwCond` composes them with the lightweight condition variable.
* `Lv2Timer` is the timer thread and the calls on timers. Guest time is a counter; the
  events it sends are counted. `umax` is the greatest u64: expiration times are added
  with `AddSaturate`, as the code does with `add_saturate`, and the clock stays below.
* `Lv2SpuGroup` is one SPU thread group with the event queue its SPUs receive from: the
  calls of PPU threads, the life of the SPU host threads and the calls SPUs make.
* `SharedMutex` is the host's `shared_mutex`, one step per successful atomic operation;
  `CondVariable` extends it with `cond_variable`.
* `Lv2Lock` is what mutex and condition variable promise to the threads that use them: a
  recursive lock that one thread has, and a wait that gives all its levels up and gets
  them back. `Lv2Cond` is proved to implement it (`ImplementsLock`, stated in
  `Lv2CondProofs`).
* `Lv2WaitQueueProofs`, `Lv2SemaProofs`, `Lv2CondProofs`, `Lv2RwLockProofs`,
  `Lv2EventQueueProofs`, `Lv2TimerProofs`, `HostLockProofs` and `Lv2SpuGroupProofs` hold
  the proofs, `MC*` the instances.

In the object modules `pc[t]` says where a thread is in its call, `mutex` who holds
the object's host mutex where a handler has to be cut into several steps, `exists`
whether the id is registered. A handler is one step between two points at which
another thread can interfere; a compare-and-swap that compares a whole word is one
step with the load before it. A call that only returns an error is left out unless it
changes state. `st[t]` and `cancel[t]` belong to the scheduler.

Savestates are the same everywhere. `Stop` requests one. A thread in guest code
halts; a thread in a wait loop that is still queued raises `cpu_flag::again`
(`again_*`), and so does a call that meets such a waiter. `Reload` restores what the
object's `save()` writes: queues are empty, threads with `again` repeat their call
(`redo_*`) with the same arguments, and those that slept go first (`FutureSleepers`,
the list `g_to_sleep`), before anything else runs.

Abstractions: names, attributes, argument checks, logging, and the guest memory that
results are written to are left out. Deadlines are not counted: a timed wait may time
out at any moment. `idm::get` with a callback and `idm::withdraw` exclude each other,
as the id manager's lock does. Objects and threads are created before the start.

## Runs

| run | instance | checks |
|---|---|---|
| `sema` | 3 threads, max 2, posts of 1 or 2, with and without timeouts, savestates | `EnsuresHold`, `NoLostWakeup`, `TokensConserved`, `DestroyedIsDrained`, and that a served or timed wait returns (`WaiterReturns`) |
| `sched` | 2 threads on 1 hardware thread, all features, 1 notification slot | `ProcessorsMatchQueue`, `SchedulerEnsures`, `OneGuestPerHwThread`, `NoLostNotification`, `ImplementsThreads` |
| `sched_live` | the same, without timeouts and priority changes | `OnprocRuns`: a thread at the head of the run queue is let go |
| `cond` | 3 threads, a mutex recursive to depth 2 and a condition variable, timeouts of two threads, savestates | `CondOwnerIsTold` (exclusion and depth included), `CondEnsures`, `CondNoLostWakeup`, `WaitersMoveToMutex`, `CondWaiterReturns` |
| `rwlock` | 3 threads, 1 read lock each, timeouts, savestates | `OwnerMatchesHolders`, `WaitersKeepBit`, `LockReturns` |
| `eflag` | 2 waiters in all modes, 2 threads that set, clear and cancel, 2 bits | `NoneOverlooked`, `WaitersAnswered` |
| `equeue` | 2 senders, 2 receivers of different priorities, room for 2 of 3 events | `EventsKept`, `ReceiversServed` |
| `lwcond` | 2 threads that lock and wait, one with timeouts, and one that tries, signals and destroys; both values of `SYS_SYNC_RETRY` | `OneNextOwner`, `LwHolderOwns`, `NobodySleepsOnFree`, `DestroyedIsUnused` |
| `timer` | a timer, two callers and the timer thread, 4 ticks, times that saturate at 5; oneshot, periodic, periodic with a base time, and a period that is refused | `EveryPeriodSent`, `FirstExpireIsLeast`, `DueIsFired` |
| `hostsync` | 3 threads that use a `shared_mutex` in every way and a `cond_variable` with it, at most 2 waiters and 2 signals counted | `Exclusion`, `WordCounts`, `PassedOn`, `LockUnlockWaits`, `NotifyReachesAll` |
| `spugroup` | 2 SPUs, 2 PPU threads, 3 runs of the group, a queue of one event, `stop_count` about to wrap | `RunningCounted`, `StoppedIsQuiet`, `JoinOutcome`, `StatusMatchesThreads`, `StopNotMissed` |
| `spugroup_terminate` | 2 SPUs, 1 PPU thread, one run | the violation below |

The comments at the properties say what each means. The type invariants written beside
the variables hold in these instances as well, though no run lists them (`Lv2SpuGroup`
has none); that of the semaphore is proved.
`CHECK_DEADLOCK FALSE` is set where objects may be destroyed and threads may wait for
ever for something nobody does; `hostsync` checks for deadlock.

Bounds. Three threads are what the races need: one that waits, one that hands over,
and one that comes between; the third also makes the choice by priority visible. Two
priorities are enough to order them. Larger values of `MaxVal`, `MaxCount` and
`MaxReads` add nothing but counting. Four threads are used where roles are fixed.
Symmetry is used for threads of equal priority in runs without liveness. In `cond` one
thread waits without timeouts (`Patient`). Two SPUs have a first and a last one to
leave; three runs let a terminating thread lag behind one restart. In `hostsync` the
counters of the `cond_variable` are narrow, so that their limits are met; those of the
`shared_mutex` are not reached, as `SharedMutexAssumption` leaves room for all threads.
`WaiterBound`
caps the `waiter` field of the lightweight mutex, which can grow (see below), and its
`VIEW` ignores locals of calls that are over. The clock of `timer` stops at `MaxTime`,
long enough for a start, two periods of 2 and a lagging caller; `umax` is one more, so
that the expiration after the second, and that of a start at the end, saturate. `MinPeriod` stands for the 100
microseconds below which a period is refused.

All instances queue by priority. With FIFO queues the invariants of `sema`, `cond`,
`rwlock`, `eflag` and `equeue` hold as well; no run keeps this. `Patient` is there for
the time `CondWaiterReturns` takes; the invariants of `cond` hold without it.

What the constraints hide. `UntimedStops` and `PlainStops` exclude savestates requested
while a timed wait is in progress, `PlainStops` of the condition variable also those
under a recursive lock, and that of the event queue those that find a sender about to be
requeued. They are not there for the size of the instances: some properties are false
without them, because of what is described under "Observations". The runs show these
properties for the rest of the behaviours only.

| without | violated | not decided, the state space is too large |
|---|---|---|
| `UntimedStops` of `sema` | `TokensConserved` | `EnsuresHold`, `NoLostWakeup`, `DestroyedIsDrained`: proved instead |
| `UntimedStops` of `rwlock` | `OwnerMatchesHolders`, `WaitersKeepBit` | |
| `UntimedStops` of `eflag` | | `NoneOverlooked`, `WaitersAnswered` |
| `PlainStops` of `equeue` | `EventsKept`, also if only the requeued sender is allowed | `ReceiversServed`: proved instead |
| `PlainStops` of `cond` | `CondOwnerIsTold`, also if only the recursive lock is allowed; `CondEnsures`, `CondNoLostWakeup` | `WaitersMoveToMutex` |

In the same way `NobodySleepsOnFree` is false without its exception `swallowed`, and
`DueIsFired` without `overtaken`. `StopNotMissed` would be false in an instance with more
runs than values of `stop_count`: `MaxRuns` keeps a thread from lagging behind for a whole
cycle (see "Observations"). The proofs use none of these constraints, except where a
theorem says so in a hypothesis: `TokensAreConserved` and the theorems on the rwlock have
`[]UntimedStops`, `EventsAreKept` and the theorems on the mutex and the condition variable
have `[]PlainStops`, `StopIsNotMissed` has `[]NotLapped`. The liveness properties of `sema`, `rwlock` and `cond` say nothing of a call that a savestate stops: they end in
"or a savestate is requested".

Fairness. A host thread inside a handler goes on (weak fairness), and a host mutex is
granted to a thread that keeps asking for it (strong fairness of the steps that lock
it; `Lv2Cond` has one strong condition for all steps of a thread in a call, which are
either free of the lock or take it). The code does not guarantee the second:
`shared_mutex` always passes the lock on to somebody (`PassedOn`), but a thread that
waits can be overtaken by one that steals the signal. The assumption is that this does
not go on for ever. Weak fairness of `Resume` inside a wait says that the scheduler
eventually lets a ready thread run; the kernel schedules strictly by priority, so this
assumes that more important threads block now and then. Timeouts expire, and in
`Lv2Timer` time goes on and `_sys_timer_start` gets to its notification. Guest code is not assumed to call anything. `OnprocRuns` needs
only the progress of host threads.

## Violation

`spugroup_terminate`: `sys_spu_thread_group_terminate` holds the mutex of the group
while it notifies each SPU until the SPU has lost `cpu_flag::wait` ("Wait until the
threads are actually stopped"). An SPU that has begun `sys_spu_thread_group_exit` or
`sys_spu_thread_receive_event` has the flag and waits for that mutex, so neither goes on
(`sys_spu.cpp:1582`). With every step fair, `TerminateReturns` fails.

## Observations

What the models show outside the constraints of the runs, or outside what the
properties ask for. No run checks these statements, and `PROJECT.json` lists none of them
as a finding. TLC has found counterexamples for the first four, for the swallowed
wake-up, for the first of the timers and for the first three of the SPU groups, either
with the run's own property when the constraint or exception is dropped (see "What the
constraints hide") or with one that was stated for the purpose. The rest comes from
reading the code and its models. The first group are calls that savestates, timeouts or
a concurrent call interrupt:

* `sys_cond_wait` clears `lock_count` before it looks for the next owner; if that one
  is being saved the call gives up and is repeated, and the recursion depth is lost
  (`sys_cond.cpp:448`; "Save the recursive value", `:465`).
* A writer that times out awakes the readers in a loop that ends when `schedule()`
  returns none, but `schedule()` does not unlink a reader that is being saved
  (`sys_rwlock.cpp:459`); the model has the place `spin` for it.
* When the compare-and-swap of `sys_event_flag_set` fails, the next pass may break off
  before it resets what the failed pass wrote to `gpr[3]`, and a waiter is awoken whose
  bits are gone (`sys_event_flag.cpp:445`). It takes three waiters, a set and a
  concurrent clear, which the instance of `eflag` does not have: FIFO waiters for the
  bits da, ab (clearing all) and c, with d set, a set of abc and a clear of abc.
  `NoneOverlooked` and `WaitersAnswered` hold there too, as they do not ask whom a set
  may awake.
* A sender stopped after it has awoken a more important receiver sends its event again
  after the load (`sys_event.cpp:808`).
* A timed wait that has awoken itself and is then stopped for a savestate goes back to
  its loop with `check_state()` returning true; the scheduler's signal is then taken
  for a hand-over, and the call returns success while it is still queued (semaphore,
  mutex; in `sys_cond_wait` the `ensure` at `sys_cond.cpp:584` fails).
* Such a thread is saved as runnable, so its call is repeated without
  `loaded_from_savestate`: `sys_cond_wait` is refused with EPERM (`sys_cond.cpp:416`).
* A condition variable may be destroyed while its signaled waiters are in the queue of
  the mutex; after a load the repeated wait gets ESRCH and never sleeps
  (`sys_cond.cpp:129`), while the scheduler waits for it to sleep.
* After a load with a runnable timed writer, `ensure(!rwlock->rq)`
  (`sys_rwlock.cpp:329`) can fail.
* In a FIFO queue the order of the waiters after a load is the order in which they repeat
  their calls. A priority queue restores the saved order among equal priorities
  (`preserve_bit`, `sys_sync.h:237` and `PPUThread.cpp:2663`). The modules do not keep that
  order: they let the calls be repeated in any order, the saved one included, and no
  property depends on it.
* An event that a host thread sends while the receiver is being saved is dropped
  with a warning (`sys_event.cpp:176`).

The lightweight objects:

* A `sys_lwcond` waiter that times out after a signal has moved it to the queue of the
  mutex leaves `waiter` one too high: later unlocks take the way through the kernel.
* With `SYS_SYNC_RETRY` a lock whose timeout expires when it was awoken can swallow the
  wake-up of another waiter (history variable `swallowed`, excluded in
  `NobodySleepsOnFree`).
* A guest that destroys a condition variable while it holds the mutex its waiters were
  moved to waits for ever.

Timers:

* The thread reads `expire` without the mutex and calls `check_unlocked()` with its
  older clock. If `sys_timer_get_information` has fired the timer in between, `expire`
  lies ahead of that clock, no sleep time is advised (`sys_timer.cpp:83`), and the
  thread waits until another call notifies it. `DueIsFired` excludes exactly this case
  (history variable `overtaken`).
* `sys_timer_create` lists the timer after it has its ID, so a timer that was already
  destroyed may be listed.
* A comment (`sys_timer.cpp:302`) says of a base time before the start "align to be at
  least a period over start time". The code and the loop quoted below the comment give
  less: the first multiple that is not before the start, which may be the start itself
  (base 100, period 100, start 200). `FirstExpireIsLeast` states what the two agree on.
* Where the sums of that loop pass 2^64 the loop wraps and goes on, while the code
  saturates and the timer never fires. `FirstExpireIsLeast` follows the code there: the
  result is the multiple without wrap, cut off at `umax`.

SPU thread groups:

* An SPU that is stopped inside `sys_spu_thread_group_exit` or
  `sys_spu_thread_receive_event` keeps `cpu_flag::again`; its host thread ends, and the
  next run of the group does not.
* Terminating a suspended group leaves `cpu_flag::suspend` set; after the next start the
  threads are held although the group is running.
* `sys_spu_thread_group_destroy` succeeds while a thread waits in
  `sys_spu_thread_group_join` for an initialized group; that thread never returns.
* `stop_count` tells stops apart for a thread that lags behind by less than a whole
  cycle of the counter. The thread that wraps it waits for those that terminate the
  group at that moment ("ensuring they quit before value-wrapping",
  `../SPUThread.cpp:1457`), but stores the value after the wrap first: a thread that read
  this very value one cycle ago, and has slept since, sees it again and takes the stop
  for not having happened. That takes a whole cycle, 2^32 - 1000 stops, during one call.

## Proofs

`Lv2SemaProofs` proves, for every finite set of threads, every maximum and initial value
and all sets of counts and timeouts, with savestates, that `TypeOK`,
`WaitersMatchValue`, `EnsuresHold`, `NoLostWakeup` and `DestroyedIsDrained` are
invariants of `Lv2Sema`. The assumptions are `SemaAssumption` only: the maximum is
positive, the initial value within it, counts are positive, priorities are naturals.

None of the invariants is inductive alone. `SemaInv` strengthens them with `QueueInv`
(the mutex is held at exactly three places, and at each of them the length of the
queue and the deficit of `val` differ by a known amount; a value loaded by a fast path
still satisfies what its test saw; a destroyed semaphore has no deficit) and `WakeupInv` (only the post that holds the mutex
has scheduled threads, and a thread that awoke itself is not asleep). There is one lemma per action; the post's loop is the
interesting one, as each iteration unlinks the waiter `schedule()` picks and counts
down, and relies on `Lv2WaitQueueProofs`: that `schedule()` finds a waiter in a
non-empty queue, and what unlinking and linking do to a queue.

`TokensConserved` is proved under `[]UntimedStops` (theorem `TokensAreConserved`), on top of
`SemaInv`. Its own part of the invariant, `WaiterInv`, is about the threads and not their
number: a thread is queued once, sleeps while it is queued and has not expired, keeps its
place when it will repeat its call, and no post schedules beside one that will. So a wait
that finds itself signaled was taken out by a post, and at a reload the registered waits are
exactly the queued ones, which makes the `max(val, 0)` that `save()` writes the number of
tokens the clients have. The hypothesis is used at one place only, `WaitLoopTokens`: a timed
wait that is stopped while it waits to be rescheduled takes its own `awake()` for a post.

`Lv2CondProofs` proves, for every finite set of threads, any timeouts, every limit of
`lock_count` and both protocols (`MutexAssumption`), under `[]PlainStops`, that
`CondOwnerIsTold`, `CondEnsures` and `CondNoLostWakeup` are invariants of `Lv2Cond`
(theorems `CondOwnerKnows`, `CondEnsuresHold`, `CondWakeupsKept`), the action property
`WaitersMoveToMutex` (`CondWaitersMove`), and the refinement `ImplementsLock`
(`CondImplementsLock`). They rest on one inductive invariant, `CondInv`, most of which is
about a single thread (`ThreadInv`): it is in one queue at most, at a place where it waits
for what that queue is for (`Placed`); if it left the queues while it waited it is the owner
(`Fated`); it sleeps exactly as long as it waits or is about to be awoken, also when the
sleep is only announced (`Sleeping`); its calls told it the depth that `owner` and
`lock_count` have, and `sys_cond_wait` keeps the right number for later (`Counted`); and it
has `lv2_mutex::mutex` at the right places (`Locked`). What concerns all threads is short:
a free mutex has no waiters (`FreeInv`), whoever is about to be awoken is the owner
(`HeirInv`), the queues obey the laws proved in `Lv2WaitQueueProofs` (`QueueLaws`, a fact
about the operators that `QueueLawsHold` derives from it), and while threads that slept have yet to sleep again after a reload nothing
else runs (`Restoring`), so the mutex they found owned still is. Each is needed by another:
that a waiter out of the queues owns the mutex makes the return of a timed out wait right,
and it stays true because the signal that took the waiter out either finds the mutex free or
queues it. A step changes one thread, or one thread and the one it hands the mutex to;
`Frame` says once that all others keep their `ThreadInv`, and there is a lemma for every way
an action can go. The hypothesis is used where `PlainStops` names a bad case: a timed wait
that meets a savestate (`TimeoutInv`), a wait that gives way after it cleared `lock_count`
(`CondWaitGivesWayInv`), and the reload (`CondReloadInv`). The refinement needs one fact
more, `HeldInv`: only a thread inside `sys_cond_wait`, or that will repeat it in its sleep,
has levels to get back; so the call that is refused after a reload loses nothing.

`Lv2RwLockProofs` proves, for every finite set of threads and every number of read locks a
thread may have (`RwLockAssumption`), under `[]UntimedStops`, that `OwnerMatchesHolders`
and `WaitersKeepBit` are invariants of `Lv2RwLock` (theorems `HoldersMatch`, `BitsKept`),
and as a consequence that a writer excludes all others (`WritersExclude`). `RwInv` adds
three things. `QueueInv`: a thread is queued once, in the queue of what it asks for, and
sleeps there until it times out, so a thread that waits without being queued was granted
the lock. `PlaceInv`: who is in an unlock has what it gives back, and while a lock is to be
repeated after a reload nobody else runs. `BitInv`: the wait bit is set while somebody waits
or will wait again, is never set on a free lock, and readers leave it set only for a writer;
the last is what `ensure(!rwlock->rq)` rests on. Numbers change in two ways only: a thread
takes or drops one read lock (`ReadLocksMove`), or the readers of the queue are all let in
(`ReadersLetIn`, by the bijection between a queue and its members, `QueueCardinality`). The
hypothesis is used three times, always for a timed wait that meets a savestate: when it is
rescheduled, where it takes its own `awake()` for a grant (`WaitLoopInv`), when a writer
times out (`WriterExpiredInv`), and at the reload (`ReloadInv`).

`Lv2EventQueueProofs` proves, for every set of threads, every capacity and any number of
events (`QueueAssumption`), two invariants of `Lv2EventQueue`. `ReceiversServed` holds
without the constraint of the run, that is, whenever a savestate is requested. It needs
`ServedInv`: a receiver that is being saved is still queued (`WaitInv`), so those that
sleep again after a reload slept beside an empty queue (`EmptyInv`), and nobody else may
send before they do. `EventsKept` holds under `[]PlainStops`, which "Observations" shows to
be needed. Its invariant is `EventInv`: a thread is queued once and has no answer while it
is (`QueueInv`); no event is in two places or lost (`KeptInv`, in six parts); a call of
`sys_event_port_send` that will be repeated has not sent its event, and no other call has
the same one (`SendInv`). Each step is treated twice, once for the receivers and once for
the events; `KeptTake`, `KeptReturn`, `KeptAppend` and `KeptHand` are the four ways in which
an event can move. That none or one place counts as 0 or 1 follows from the definition of
`Cardinality` (`NoElement`, `OneElement`).

`HostLockProofs` proves, for every finite set of threads and every layout of the word
with room for them (`SharedMutexAssumption`), that `Exclusion`, `WordCounts` and
`PassedOn` are invariants of `SharedMutex`. `SharedInv` says that the word is the sum of
what the threads at each place have added (`WordInv`), and which places exclude each
other (`PhaseInv`): the lock is held by one writer or by readers, or passed on by one
thread about to signal, or by the signal, and if threads wait it is one of these. The
lemmas `DivMod` and `Reading` turn the code's tests on remainders and comparisons into
statements about these counts, `OnMove` says how a count changes when one thread moves,
and there is one lemma per action.

`LockUnlockWaits` (theorem `LockUnlockIsBarrier`) needs more, `SinceInv`: `lock_unlock` only
compares the number of slots in the word with the one it saw at its last look, and the
invariant says that each critical section it met and that is still going on keeps the
number at or above that one, also when the reader in it upgrades (its share becomes a slot)
or the writer downgrades. For the condition variable, `CondUsesMutex` shows that `CondSpec`
implements `Spec` of `SharedMutex` with the same variables, so all theorems about the mutex
hold in the composition; `NotificationsArrive` then proves `NotifyReachesAll` for every
limit of the two counters, with the mutex's own exclusion as the first part of the
invariant (`CondInvariant`: whoever changes the condition holds the mutex, the counter of
waiters is the number of threads in the wait, and signals stay until the last of them has
left).

`Lv2TimerProofs` proves, for any number of timers and callers, any clock and any limit
`umax` above it (so for 2^64 - 1), that `EveryPeriodSent` and `FirstExpireIsLeast` are invariants of `Lv2Timer`. The
first needs that a running timer is connected: `check_unlocked()` would otherwise step
over an expiration without sending (`Counted`). The second rests on
`FirstMultipleNotBefore`, a fact about division with remainder for all times and periods
without a limit, and on `FirstExpireSaturates`: since the start is a u64, additions that
saturate on the way change the result only where it is the limit.

`Lv2SpuGroupProofs` proves, for any number of SPUs, PPU threads and runs and
every width of `stop_count` (`SpuGroupAssumption`: the identities of threads are distinct
and their number is finite), that `RunningCounted`, `StoppedIsQuiet`, `JoinOutcome` and
`StatusMatchesThreads` are invariants of `Lv2SpuGroup`. They are proved together, as
`GroupInv`, because each needs the others: that `running` is the number of threads which
have not counted themselves out (`RunInv`) needs the flags of each thread (`FlagsOf`: `ret`
is raised once and consumed before the count); that a result belongs to its run
(`ResultInv`) needs who holds the mutex at the end of a run and while a termination
notifies (`MutexInv`); and an SPU that sleeps in the event queue holds all others
(`SleepInv`). `PlaceMove`, `PpuMove` and `StatusMove` say once what a step that only moves a
thread, or only changes the status, keeps; there is a lemma for every action, those that
need facts about cardinalities last.
`StopNotMissed` is proved under the hypothesis `[]NotLapped`: no thread in a termination that
read the value after a wrap is still waiting when the counter reaches its maximum. It is
needed, see "Observations"; `StopInv` is the invariant, which says how the count has passed
what a thread read, or that it wrapped and the thread that did so still waits.

Only model-checked: everything about the event flag, the lightweight objects and the
scheduler, the refinement of `Lv2Threads` by `Lv2Sched`, and all liveness (fairness is
outside the prover's reach). The scheduler and the event flag are built on folds over
sequences and sorted sets, and what a fold computes needs an induction over data that the
provers do not find. Nothing of the kind stands in the way of the lightweight objects; their
proof has not been written. Only proved, and checked by no run: `ImplementsLock`,
`WritersExclude`, and the type invariant and `WaitersMatchValue` of the semaphore.

## Not modelled

* Join, detach and interrupt threads of `sys_ppu_thread`; usleep and the pausing of the
  emulator; the scheduler's pausing of SPU threads.
* Savestates of the lightweight objects, timers and SPU groups. In `Lv2SpuGroup` also
  lost host notifications, raw SPUs, interrupts and connections, and the forced
  destruction of the queue.
* Event ports found by an IPC key; events sent by devices.
* Reservations, MFC and the range locks of `vm.cpp`: protocols over host memory and page
  protection.
* The interpreters and recompilers, RSX, devices, files, network, loaders and the user
  interface: instruction semantics, rendering, I/O and data formats, which a model
  checker does not reach. They are by far the largest part of the repository.

## Plan

1. Proofs: the lightweight mutex and condition variable, along the lines of `CondInv`;
   `AcknowledgementsComing` of `Lv2Sched`.
2. Abstract specifications of the semaphore and the rwlock (a counter; readers and a
   writer) that the modules implement, as `Lv2Lock` is for the mutex.
3. `Lv2PpuThread`: join, detach and exit.

## Using it

    tlc -config MCLv2Sema.cfg MCLv2Sema
    tlapm Lv2SemaProofs.tla
