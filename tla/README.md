# TLA+ models of cyclictest and of the RTEMS kernel under it

The repository holds two systems: `rt-tests-2.10`, whose main program
`cyclictest` measures how late a periodic thread wakes up, and `rtems-6.1`, the
real-time kernel on which it is to run. This directory models the parts of each
that are hardest to test: how the threads of cyclictest start, measure and end
together; and, of the kernel, how a thread that waits is woken by exactly one of
several events, how periodic tasks are released, how time is read without a
lock, and how the block buffer cache keeps its users, writers and lists in step.

| Module | Models | Used by |
|---|---|---|
| `Cyclictest` | the process: `main`, the timer threads, the fifo thread, `sighand` | two runs |
| `Cyclictest_proof` | theorems about `Cyclictest`, for every number of threads | TLAPS |
| `CyclicTimer` | the measuring loop of one timer thread against clock and kernel timer | one run |
| `CyclicTimer_proof` | theorems about `CyclicTimer`, for every interval and resolution | TLAPS |
| `Samples` | a latency on its way to the `-v` lines and to the histogram | one run |
| `Samples_proof` | theorems about `Samples`, for every size of the ring and the histogram | TLAPS |
| `Semaphore` | what an RTEMS counting semaphore promises (abstract) | instantiated by `ThreadQueue` |
| `Semaphore_proof` | theorems about `Semaphore`, for every set of threads and count | TLAPS |
| `ThreadQueue` | blocking and unblocking on one RTEMS thread queue on SMP; implements `Semaphore` | `MCThreadQueue` |
| `MCThreadQueue` | `ThreadQueue` with its symmetry for TLC | three runs |
| `ThreadQueue_proof` | theorems about `ThreadQueue`, the refinement of `Semaphore` among them, for every set of threads and processors | TLAPS |
| `RateMonotonic` | the periods of the RTEMS rate monotonic manager on SMP | one run |
| `RateMonotonic_proof` | theorems about `RateMonotonic`, for every set of periods and processors | TLAPS |
| `Timecounter` | the timehands of `kern_tc.c`, their writers and lock-free readers | one run |
| `Timecounter_proof` | theorems about `Timecounter`, for every counter and set of readers | TLAPS |
| `BlockBuffers` | the block device buffer cache `bdbuf.c` with its tasks | two runs |
| `BlockBuffers_proof` | theorems about `BlockBuffers`, for every number of users, groups, devices and blocks | TLAPS |
| `MCBlockBuffers` | `BlockBuffers` with its symmetry for TLC | one run |

To check a run: `tlc -config <run>.cfg <module>`; the proofs: `tlapm <module>_proof.tla`
(a few seconds to three minutes each, ten for `BlockBuffers_proof`). `PROJECT.json` maps each definition to the lines
it models. The definitions marked *mutant* in the modules are plausible mistakes
in the code: with one of them in place of the definition it is named after, TLC
refutes the property it is listed with, which shows that the property depends on
that piece of code.

## 1. Inventory

### cyclictest (`rt-tests-2.10/src/cyclictest/cyclictest.c`)

*State.* The global `shutdown`; per thread a `thread_param` and a `thread_stat`
(`threadstarted`, `cycles`, `min`, `max`, `values[]`, ...); the condition variable
`refresh_on_max_cond` with its lock; the break record (`break_thread_id`,
`break_thread_value`); the trigger list with `trigger_lock`; the barriers
`globalt_barr` and `align_barr` around `globalt`.

*Actors.* `main` creates the threads, displays, and winds up; N `timerthread`s
measure; `fifothread` serves readers of a named pipe; `sighand` runs in any of
them. They interact only through that state: `shutdown` is a plain word without
a lock, `-M` adds the condition variable, `-A` the barriers.

*Hard.* The wind-up: six causes set `shutdown` (signal, `-b`, `-D`, `-l`, an error,
a failed allocation), four of them without the lock that `main` holds when it
goes to wait; blocks are freed while threads may still be ending. The
arithmetic of a period: the thread may be preempted between waking up and
reading the clock, and a difference of times is stored unsigned.

*Correct when* every thread that can touch its block still has it, the end is
never missed and never comes unasked, what is reported is what was measured.

### rt-tests library and the other tools

`lib/histogram.c` (sequential), `rt-utils` (time arithmetic, tracing, JSON frame),
`rt-numa`, `rt-sched`, `rt-error`; `pi_stress`, `pip_stress`, `signaltest`,
`sigwaittest`, `ptsematest`, `svsematest`, `pmqtest`, `cyclicdeadline`, `hackbench`,
`oslat`, `queuelat`, `rt-migrate-test`, `ssdd`, `backfire`, `hwlatdetect`. Not modelled;
see section 11. (`hist_sample` is in `Samples`.)

### RTEMS (`rtems-6.1/cpukit`)

*Thread queues* (`threadqenqueue.c`, `threadqflush.c`, `threadqtimeout.c`). A queue
has a lock and waiters; `_Thread_queue_Enqueue` publishes the thread, releases the
lock, arms the timer and only then blocks.

*Thread wait information* (`threadimpl.h`). The wait flags go READY →
INTEND_TO_BLOCK → BLOCKED → READY by atomic accesses; the lock of a thread is its
default lock, or the lock of the queue it waits on; requests for that lock that
are under way are kept on `Pending_requests`, and a `Tranquilizer` gate keeps the
thread from going on before they are gone.

*Watchdogs* (`watchdogtick.c`). A clock tick takes expired timers out and calls
their routines with the lock released.

*Core semaphore* (`coresemimpl.h`). The count and a thread queue.

*Rate monotonic periods* (`ratemon*.c`). A period has a state (inactive, active,
expired), a count of postponed jobs, a watchdog and statistics, under a lock of its
own. Its owner calls `rtems_rate_monotonic_period`, which begins the period, or
waits for its end, or takes up a postponed job; the watchdog's routine ends the
period on some processor.

*Timecounter* (`kern_tc.c`). Two timehands with generations; writers hold a lock,
readers none.

*Block buffers* (`bdbuf.c`). Descriptors in groups, an AVL tree, three lists, three
condition variables, a lock for the cache and one for synchronization; a swap-out
task with workers, a read-ahead task.

*Others*: SMP locks, SMP barrier, per-processor jobs, schedulers and dispatch,
mutexes with priority protocols, events, message queues and barriers of the classic
API, POSIX API, file systems, board support packages. Not modelled.

*Hard.* All the ways to end a wait race with each other and with the thread's own
way into it; the lock changes identity under a waiting requester; a routine of an
expired timer may run late; data is read while it is rewritten; the cache's lock
is given up in the middle of almost every directive.

*Correct when* units are neither lost nor made up, a status tells the truth, no job
is lost, time does not jump, released data reaches the disk, whoever waits is
woken, and the kernel's own assertions hold.

## 2. Cyclictest

One step is one access to shared words or one section under a lock. `mpc` and
`tpc[t]` are control points of `main` and of timer thread t; `M_*`, `T_*` and `F_*`
are the statements of `main`, `timerthread` and `fifothread` in the order of the
source, `Sighand` and `SighandStatus` the two halves of the signal handler. Each
option that changes the control is a constant (`refresh_on_max`, `aligned`,
`tracelimit`, `trigger`, `duration`, `verbose`, `histogram`, `use_fifo`; `jsonfile` is the
set of its possible values, so that one run can have both).

A measured latency is any member of `Latencies`. `trigger_update` takes it as an `int`
(`ToInt`, with `IntSize` for 2^32): a latency of 2^31 or more, which is 2.2 seconds
with `-N`, or a wrapped difference with `-x`, is recorded as another number. In
`Cyclictest_limits` the latency 5 does not fit its `int` of 8 values. The end of the `-D` duration is
a choice at each cycle. `Failures` allows every allocation and system call that
the code checks to fail. `stat[t]` follows the statistics block from NULL over
live to freed; a step that follows a pointer that is NULL ends the process
(`crashed`), one that follows a freed one records it in `fault`, since C leaves
the outcome open. `main` frees one block at a time, and the others run in between.
`why` and `started_at` are history.

Left out: option parsing, memory locking, scheduling parameters, SMI counters,
the text of the output; the sample ring and the histogram are in `Samples`.

Bounds: `MaxSignals`, and `CycleBound` for an endless test. The number of threads
is 2 or 3: every race in the list of hazards needs two threads, or one and
`main`; three make the trigger list (two nodes) overflow and let two threads race
for the break record while a third is between the barriers.

Fairness: weak fairness of `main` and of each timer thread, because the operating
system schedules every runnable thread and `clock_nanosleep` returns; and strong
fairness of `T_Out`, which needs `refresh_on_max_lock`: `main` takes it again and
again while it displays, but sleeps without it between two turns. Nothing obliges
a signal, a failure, a reader of the pipe or a spurious wake-up to happen.

| Run | Shows |
|---|---|
| `Cyclictest_refresh` | `-M -l -A -v -h -D -F`, with and without `--json`, failing calls, two end or status signals at any moment: `TypeOK`, `NoLostWakeup`, `StatsLive`, `ExposedReads`; and `EndsByItself` (213 157 states) |
| `Cyclictest_limits` | `-A -b --spike`, endless, three threads: `BreakRecord`, `AlignedStart`, `TriggerLog`, `StopReason` (3.1 million states) |

`EndsByItself` excepts one state, `Stranded`: after a failed `-v` allocation with
`-A` the threads created so far wait in a barrier for ever and `main` joins them.
`ExposedReads` confines, but does not exclude, reads of missing and freed blocks:

* The handlers are installed before `parameters[]` is filled, so a status signal
  at start-up follows a NULL pointer (`cyclictest.c:1462`), and one between `main`'s
  first free and its exit, when all timer threads have ended, a freed one.
* Nobody joins the fifo thread. It can test `shutdown`, open the pipe, and print
  through `parameters[i]->stats` (1711) while `main` frees the blocks, or later.
* After a failed `-v` allocation `main` itself follows NULL pointers: in `write_stats`,
  in the kill loop (2292), or, when the last of the allocations was the one that
  failed, in `print_hist` and `print_tids` (1528, 1495). The run reaches the first two.
  With two aligned threads it does not come to the third, because `main` then joins a
  thread that waits in the barrier; for it there is the theorem only.

Seen while modelling and not stated as properties, because no document says what
is wanted or because they are about the text: `write_stats` divides by `cycles`
without the guard `print_stat` has, so a thread without a sample yields `nan`, which
is not JSON (1891); the JSON file is written before the threads are joined, so its
numbers may be older than the last displayed ones (2288); a thread that ends on an
error without `-M` leaves `main` displaying; the last sample can be counted between
`print_stat` and the test that ends the display (2260), and is then not printed.

## 3. CyclicTimer

One thread, the clock and the kernel's timer. `mode` is one of the four ways to
wait, `use_nsecs` the unit of the latencies, `delay` bounds the time between waking
up and reading the clock; all are chosen in the initial state and stay. `Tick` may
come between any two steps. A timespec is an integer number of nanoseconds;
`calcdiff` splits it again into seconds and nanoseconds and truncates as the C
division does. `U64` and `ToLong` are the conversions between the signed difference,
the `uint64_t diff` and the `long` statistics, with `W` standing for 2^64: the
assumption makes it more than twice every difference, which is what matters of
2^64. `Sigwait` and `Tick` are external: one queued signal, expirations that find
it pending are counted as overruns.

`CyclicTimer_modes` (interval 3, a second of 6, two nanoseconds to the microsecond,
horizon 14: four periods, two beginnings of a second, a preemption as long as a
period, a start up to 4 in the future; 1.3 million states) shows: the grid is kept
(`OnGrid`), no backlog (`NoBacklog`), no period is measured twice (`OnePerPeriod`),
and, where wake-up and `next` cannot drift apart (`Faithful`), every stored latency
is the real one to less than one unit (`LatencyIsReal`) and the POSIX timer and
`next` stay in step (`InStep`).

What `Faithful` excludes: with `-x`, a thread that is preempted between `sigwait` and
`clock_gettime` moves `next` past an expiration that is already pending (883). The
next signal comes before `next`; the difference is negative, its unsigned image is
huge (831), and `-b` breaks the trace though no latency was above the limit. The
same happens to the first difference with `-x -r` and a start time in the future.

The specification has no fairness: only safety is checked. At `Horizon` the model
stops (`Stop`), so that deadlocks are still found elsewhere.

## 4. Samples

One timer thread and `main`, which runs `print_stat` with `-v` and shares the
statistics block with it without a lock. The thread stores the value (`T_Store`),
calls `hist_sample` (`T_Hist`) and counts the cycle (`T_Count`); `main` reads
(`M_Read`), reduces and prints (`M_Reduce`) as long as it sees an unread cycle.
`measured` and `lines` are history: what was measured, what was printed. The
difference is unsigned, the elements of `values[]`, `diff` and `redmax` are `long`: `ToLong`
is that conversion, with `W` for 2^64. The histogram is given the unsigned value.

`KeepsUp` is an assumption about the environment: the display never falls a whole
ring behind. The code has nothing that would ensure it; with 16384 entries and
an interval of 1 ms it takes 16 seconds on a blocked output to break it.

`Samples_outputs` (a ring of 2, groups of 2, six cycles: the ring is used three
times over, the log of 2 overflows, the magnitude passes its word of 8, and the
latency 6 is one that a `long` of that width cannot hold; 186 866 states) shows
that a counted sample stays in the ring until it is read (`UnreadKept`), that each
line shows the maximum of its group with the first cycle that had it
(`LinesShowMaxima`), and that the histogram agrees with a count made from the
history (`HistogramExact`): each bucket counts its own (`BucketsExact`), the log holds
the first overflows in order (`LogExact`), and the magnitude is the sum of the
excesses as long as a word can hold it (`MagnitudeExact`).

`LinesShowMaxima` excepts zero: `redmax` starts from 0 and the comparison is strict,
so a sample of 0 is printed under the cycle number of an earlier one (1608). A
latency beyond a `long`, in practice a wrapped difference, is negative in the ring and
never shown.

## 5. Semaphore and ThreadQueue

`Semaphore` is the promise made to users of a counting semaphore: a count, a stage
for each thread (running, owning, waiting, or how its wait has ended), and one step
each for obtaining, waiting, releasing (to a waiter, or to the count if there is
none), flushing, expiring and returning. It is five lines per operation, with no
locks, no flags and no processors.

`ThreadQueue` is the code. A step is a section under one lock or one atomic access.
The whole of `_CORE_semaphore_Seize` is `SeizeUnit`, or `SeizeWait`, `Claim`, `Enqueue`,
a callout (`CalloutNone`, `CalloutTicks`, `CalloutPast`), `SetState`, `TryBlock`, and
`Resume` or `SelfUnblock`; a surrender is `SurrenderUnit`, or `SurrenderTo`, `Restore`,
`RemoveTimer`, `Unblock`, `WakeEnd`; a flush is `FlushBegin`, `FlushOne`, `FlushEnd`
around the same. `_Thread_Continue` (from `Cancel` to `UnblockTarget`) runs on a
processor, started by `Fire`, or on the waiting thread itself for a time that has
passed. `pending`, `tranq` and `cqueue` are the requests, the gate, and the queue a
request was told.

The order of the waiters is a choice, so the result holds for FIFO and priority
queues; scheduling is reduced to ready and blocked; priority inheritance,
deadlock detection and destruction are left out. Units are surrendered only by
threads that hold one, as when a semaphore guards resources, so that the count never
reaches `max_count` and its error is left out, and so is the no-wait option, which
leaves no trace in the state.

*Refinement.* `Sem` instantiates `Semaphore` with `Stage(t)` for its stage. A thread
waits from the moment it is enqueued. Whoever takes it off the queue under the
queue lock decides how the wait ends; a flush decides it for all waiters when it
takes the lock, because nobody can get between it and the last of them. `granted`
(history) tells a unit on its way. `ActsAsSemaphore` is the safety part,
`ReturnsAsSemaphore` adds the fairness of `Return`. Together with the theorems of
section 9 this says: units are conserved whichever of surrender, timeout and flush
ends a wait, a thread owns a unit exactly when its status says so, no release
passes over a waiter, and only a wait begun with a timeout times out.

`Prompt` is an assumption about the environment: the routine of an expired timer
has finished before its thread begins another wait. The kernel does not enforce it.

| Run | Shows |
|---|---|
| `ThreadQueue_units` | three threads, one ticking processor, all kinds of timeouts, flushes, symmetric, `Prompt`: `ActsAsSemaphore`; nothing outlives a wait (`CleanReturn`); the assertions of the code and the possession of the locks (`AssertionsHold`) |
| `ThreadQueue_arrives` | two threads, two processors, `Prompt`: `ReturnsAsSemaphore` |
| `ThreadQueue_late_timeout` | violated, without `Prompt`: `NoTimeoutHonoured` |

Three threads are a surrenderer, a waiter and a flusher; the processor is the
fourth party that can end a wait.

`ThreadQueue_late_timeout`: a timer is taken out, its wait ends by a surrender, the
thread begins a new wait without a timeout, and the late routine ends that one
with STATUS_TIMEOUT. Without `Prompt` TLC also finds violations of
`ActsAsSemaphore`, `CleanReturn` and `AssertionsHold`, all from the same cause: a
second context of `_Thread_Continue` works on a thread that has one already.

Fairness: strong fairness of what a thread does inside a directive and of the
routine, because processors do not stop and the locks are ticket locks: whoever
asks for one gets it although others take it in between. Nothing obliges a
thread to begin a directive, or a timer to expire.

## 6. RateMonotonic

One task owns `Periods`; `Create`, `Enter` (with `Activate`, `Block_while_active`,
`Block_while_expired` as its outcomes), `Cancel`, `Delete` and `Reset_statistics` are
the directives, split where a lock is given up. `SetState`, `TryBlock`, `SelfUnblock`
and `Resume` are the owner's way into the wait and out of it. On each processor
`Tick` advances the watchdogs, `Fire` takes an expired one out, and `TimeoutLook`,
`TimeoutRestart`, `TimeoutUnblock`, `TimeoutRenew` are `_Rate_monotonic_Timeout`, which
holds the lock of the period from the first to the last of them. `jobs` and `late`
are history: the jobs released and not completed, and whether the last completion
was late. Of the statistics only what the last completion added is kept; the
deadline priorities for EDF and the CPU times are left out.

`RateMonotonic_periods` (two periods of one tick, two processors, `MaxPostponed` 2 for
UINT32_MAX; 413 556 states) shows that no job is lost and none is done twice, up to
the value at which the counter stays (`JobsConserved`), that a completion counts as
missed exactly when it was late (`MissesCounted`), that the watchdog runs exactly
when the state says so (`WatchdogMatchesState`), that the assertions of the code hold
(`AssertionsHold`), and that every wait ends (`EveryWaitEnds`). Two periods are what it
takes for one to expire while the other is waited for; two processors run both
expirations at once.

All of these are stated up to `raced`, which is set when a period is cancelled or
deleted in the middle of its use. What can happen then:

* `ratemoncancel.c:56`: the cancel removes the watchdog, but an expiration that was
  taken out before still runs; it makes the cancelled period EXPIRED and inserts the
  watchdog again.
* `ratemondelete.c:58`: a task that deletes the period another task waits for leaves
  the owner blocked; if it comes between the owner's lookup and its lock, the owner
  activates an object that is free.

Fairness: weak, of the clock tick, the timeout routines and the owner inside the
blocking code. The owner is not obliged to call anything.

## 7. Timecounter

`hw` is the true number of counter ticks since boot; the counter shows it modulo
`Size`, or, for the simple counters of `rtems/timecounter.h`, the position in the
current clock tick and a pending flag. A writer under the lock is `TickWindup` or
`SetClock`, followed by `Copy`, `Count`, `Offset`, `Wall`, `Gen` and `Publish`, each one
store; or `AtTick`, `TickSimple`, `SimpleCount`. A reader is `Start`, `LoadHand`, `LoadGen`,
`LoadBase`, `LoadCount`, `LoadCounter`, `LoadPending` and `Check`, and starts over when the
generation is zero or has changed. It reads the uptime, the wall clock or, for
"get", the uptime of the last update. The order of the accesses is that of the
fences. One counter tick is one unit of time; NTP, a change of the counter hardware
and the output formats are left out.

`Timecounter_reads` (a counter of 4 values, time up to 5, generations up to 4, three
updates and one setting of the clock against one reader; 3.5 million states) shows
that a read returns the time of an instant between its beginning and its end, on
the clock as it was set at an instant in between (`ReadsTrueTime`), that a get is no
older than the update that was current when it began (`GetsCurrentUpdate`), and that
the current hand is valid between updates, also when the generation wraps
(`TypeOK`). Readers do not see each other, so one is enough; three updates write the
hand it reads, the other one and the first again. The bounds let the model stop,
so deadlock is not checked.

`InTime` is an assumption about the environment: the hands are updated before the
counter wraps against the older of them. `MaxUpdates < MaxGen` is another: no reader
is held up for 2^32 updates. For simple counters the property is weaker, because
the code is: a tick adds a fixed interval, so one handled late sets the time back
by the delay (`Slack`, `timecounter.h:256`); a windup by a setting of the clock is
counted again by the next tick (`drift`); and a reader between `at_tick`, which clears
the pending flag, and the marking of the hand misses an interval (`window`, 249).

## 8. BlockBuffers

A buffer is a group and an index in it; `state`, `key`, `hold` are its fields, `tree`,
`lru`, `modified`, `syncq` the containers, `users` and `per` the fields of a group. A
step is a section under the cache's mutex. A user's `Call` leads through `Find*`,
`Recycle*`, `AccessWait`, `AccessTake` to the buffer, with `AccessRead` and `ReadDone` or
`ReadError` around a transfer; `Release`, `ReleaseDiscard`, `ReleaseModified`, `Sync*`,
`Syncdev*`, `Purge` and `Resize*` are the other directives. `Sleep` and `Resume` are the
condition waits, `Scan`, `WriteDone`, `SyncEnd` and `SwapoutWake` the swap-out task and
its workers, `Peek` and `Ra*` the read-ahead. Contents are abstracted to whether they
are the latest released ones (`cur`, `dcur`) and to whether those were discarded
unwritten, by a purge or a failed write (`lost`, until a user releases new ones). The
conversion of block numbers, the
statistics and the positions of the read-ahead trigger are left out; a user has at
most one buffer.

Taking buffers off a list (`Without`) selects what is left by rank (`Ranked`), and the
buffers of a transfer are put in block order (`InOrder`) by choosing an ordered
sequence; neither recurses over a list, so that both can be reasoned about. `CacheAssumption` and `NoneAssumption` say that users
and groups are finite, that block numbers are integers and block sizes divide a group,
and that the values for "nothing" and for the tasks are no users, blocks or buffers.

`raced` is set when a purge meets a directive of another user between two of its
sections, `resized` when a change of the block size meets a buffer in use.

| Run | Shows |
|---|---|
| `BlockBuffers_cache` | three users, two devices, one group of two, a worker, read-ahead, failing transfers, purges, block sizes; three calls; symmetric (1 324 747 states): the table of states of `bdbuf.h` (`TableUnlessRaced`), one user to a buffer and one buffer to a block (`Exclusive`), reads see the last release (`ReadsLatest`) and modified contents are kept until written (`NothingLost`), unless `lost` to a purge or a failed write, and what was modified when `rtems_bdbuf_syncdev` was called is written when it is told so (`SyncWritten`), with the exceptions below |
| `BlockBuffers_returns` | two users, two blocks, multi-block writes, synchronization, block sizes; four calls (261 973 states): `EveryCallReturns` |
| `BlockBuffers_purge` | violated: `FollowsTable` |

Three users and two buffers make one user wait for access, one for any buffer, and
let the third change either; two block sizes divide the group anew.

`BlockBuffers_purge`: a purge during a read makes the buffer TRANSFER PURGED;
`rtems_bdbuf_execute_transfer_request` discards it and reports success, and
`rtems_bdbuf_read` (2097) hands it out as ACCESS CACHED though it has left the tree. A
second buffer for the block can be made beside it.

Other cases met, which the properties allow for by name:

* 1006: a release that waits for a synchronization does so without the cache's lock;
  if the buffer is purged meanwhile it is put on the modified list all the same
  (`raced`).
* 1563, 1605: after a change of the block size one who waited for a buffer gets one
  of the old size, or runs into the fatal error STATE_10 when it is found EMPTY
  (`resized`).
* 1916: a failed write discards the contents. The comment at 2520 says that the
  buffers go back on the modified list; they do not, and nobody is told. The block is
  `lost`, and `ReadsLatest`, `NothingLost` and `SyncWritten` except it: they say that
  there is no way to lose contents but this and a purge, not that this one is right.
* 2577: `rtems_bdbuf_syncdev` is told that it is done when the swap-out task finds
  nothing more to write for the device. A worker that had begun a transfer before may
  still be writing, though `bdbuf.h:635` says that the call waits until the transfers
  have completed. `SyncPromise` has those buffers, and `SyncWritten` excepts them for as
  long as the worker is at it; it also excepts what another user has taken or a purge
  has discarded, and the failed writes.
* 2562: a worker taken from the free chain for a scan that finds nothing is not put
  back; after as many empty scans the swap-out task writes alone (`wpc = "lost"`).
* 1030: a modified buffer released to its own waiters does not wake the swap-out
  task for those who wait for any buffer; they wait for its period.

Fairness: weak, of each user inside a directive or with a buffer in hand, of the
tasks and the drivers: tasks are scheduled, transfers end, the swap-out period
elapses, and users give their buffers back, which the manual asks of them.

## 9. Proofs

Each `_proof` module states an inductive invariant, `IInv` or one `...Inv` per
theorem, proves that the initial states have it and that each action keeps it,
and draws the theorems from it. TLC has checked every one of these invariants on
the instance of a run before it was proved. The hypotheses are the named
assumptions on the constants of the module, and nothing else except where it is
said here.

### Cyclictest, for every number of threads and all options

* `TypeCorrect` (`TypeOK`). The bound on `cycles` needs that a thread which still
  measures is below `-l` (`CyclesInv`), the bound on `threadstarted` that it is 1
  before and 2 after the start (`StartedInv`), and the array accesses of `main`
  that its index is in range at each control point (`IndexInv`).
* `StatsOutliveThreads` (`StatsLive`): every thread that the join loop has passed has
  returned or was never created (`JoinedInv`).
* `WakeupNeverLost` (`NoLostWakeup`). `WakeInv` speaks of `main` between its test
  under the lock and the wait: there no thread can pass its `out` section, because
  that section needs the lock.
* `AlignedThreadsShareStart` (`AlignedStart`): thread 0 reaches the second barrier
  with `globalt` written (`AlignInv`).
* `SpikesAllLogged` (`TriggerLog`): the holder of `trigger_lock` is the one that has
  filled in the current node (`TriggerInv`). What a node holds is the `int` made of a
  latency above the trigger; for one that fits an `int` that is the latency.
* `BreakRecordBelongsTogether` (`BreakRecord`): a thread that met the limit never
  measures again, so the value that follows its id into the record is its last
  one (`BreakInv`).
* `NeverStopsUnasked` (`StopReason`): each control point on the way to the end has its
  reason behind it (`ReasonInv`), `main`'s look at the counters without a lock too.
* `ReadsExposedOnlyAtTheEnds` (`ExposedReads`): between the creation of the last
  thread and the first free every block is live, a block is freed only when all timer
  threads have ended, and one that was never filled in belongs to a thread that was
  never created (`ReadInv`).

### CyclicTimer, for every interval, resolution, preemption and horizon

`TypeCorrect`, `LatenciesAreReal`, `PeriodsOnGrid`, `NeverBacklog`, `StaysInStep` and
`MeasuredOnce` (`TypeOK`, `LatencyIsReal`, `OnGrid`, `NoBacklog`, `InStep`,
`OnePerPeriod`). `SleepInv` says that a thread is not woken before `next` by a sleep,
`TimerInv` relates `next`, the overruns and the expiration of the kernel timer at each
control point, `GridInv` counts periods since the start, `SampledInv` places the period
to be measured after the last one. The rest is arithmetic: truncated division for
`calcdiff`, and the conversions through the unsigned word, which are exact for a
difference that is not negative.

### Samples, for every size of the ring, the groups, the buckets and the log

`TypeCorrect`, `UnreadStayInRing`, `LinesAreMaxima` (`TypeOK`, `UnreadKept`,
`LinesShowMaxima`), and `HistogramCounts`: `BucketsExact` and `LogExact`. Two cycles less
than a ring apart have different slots, so a store hits no unread cycle (`RingInv`,
from `KeepsUp`); `redmax` and `cycleofmax` are the maximum of the group read so far
and its first cycle (`LinesInv`); both are about the latencies as `long`. The third part of `HistogramExact`, `MagnitudeExact`,
is a fold over a set; what a fold yields is beyond this prover and stays with TLC.

### ThreadQueue and Semaphore, for every number of threads and processors

All theorems about `ThreadQueue` assume `Prompt`, without which they are false (section
5). `TypeCorrect`, `ReturnsClean`, `WaitAssertionsHold`, `TimeoutsHonoured` (`TypeOK`,
`CleanReturn`, `AssertionsHold`, `NoTimeoutHonoured`) follow from the invariant, which
says who may touch a waiting thread:

* one context of `_Thread_Continue` at a time works on a thread, none before the
  callout or while the timer runs (`ContextInv`, `TimerInv`);
* the requests pending for a thread and its default lock are those of that context,
  and the context knows which lock it asked for (`PendingInv`, `RequestInv`); the gate
  is open exactly when none is left (`GateInv`);
* the wait flags and the wait queue tell how far the others are (`FlagsInv`,
  `QueueInv`);
* the duty to unblock the thread is with one surrenderer or flusher, or with the
  context, and never with both (`DutyInv`, `UnblockInv`);
* the unit goes with the status (`OutcomeInv`).

`ImplementsSemaphore` (`ActsAsSemaphore`) shows step by step that every action is an
action of `Semaphore` under the mapping of section 5, or a stutter: enqueueing is the
abstract wait, taking a thread off the queue decides how the wait ends, the return
of the directive is the abstract return. `OutcomeInv` is what makes the mapped stage
agree with the status that is returned.

`Semaphore_proof`: `SemaphoreKeepsUnits`, `Safety => []UnitsKept`, and `SemaphoreServes`,
that nobody waits while a unit is free and that a wait times out only if it was
begun with a timeout, for every finite set of threads and initial count. The argument
is about the number of holders, which each of the four ways in which a unit changes
hands leaves or changes by one (`HoldersChange`). That the wait protocol inherits both
through `ImplementsSemaphore` is the usual consequence of refinement; it is not stated
as a theorem, because the prover cannot carry a temporal theorem through the
instance.

### RateMonotonic, for every number of periods and processors

`TypeCorrect`, `JobsNeverLost`, `MissesAreCounted`, `WatchdogRuns`, `AssertionsNeverFail`
(`TypeOK`, `JobsConserved`, `MissesCounted`, `WatchdogMatchesState`, `AssertionsHold`).
`OwnerInv` is the owner's way into the wait, which only a timeout can run ahead of;
`TimeoutInv` says that a timeout that has found the owner waiting holds the lock of the
period and has taken the return argument, so that it is the only one; `WatchdogInv`
that the watchdog of a period not `raced` is on its list, or with one expiration, or
the period is inactive; `JobsInv` ties the postponed jobs to the jobs released.

### Timecounter, for every counter, every number of readers and all settings

`TypeCorrect` (`TypeOK`) and, as action properties, `ReadsAreTrue` (`ReadsTrueTime`) and
`GetsAreCurrent` (`GetsCurrentUpdate`). The assumptions on the environment are those of
section 7: `InTime`, which is a guard of `Advance`, and `MaxUpdates < MaxGen`.

* A generation stands for a number of updates (`Rank`; `UINT_MAX`, the initial one,
  for none), and `GenInv` says that it grows with each update of a hand: a reader that
  finds the generation it read has had the same hand all the time.
* `LiveInv`: the current hand shows the time to within `Slack` and `drift`, except while
  a simple tick is handled, and then it is marked or every reader that uses it is in
  the `window`.
* `WindupInv` and `InPlaceInv` follow the hand that is being written, field by field:
  when its generation is stored it is right again (`NewHandRight`).
* `HandRead` is a reader's hand, as long as it is valid: right, and not older than the
  beginning of the read. `DataRead`: if the hand was not written meanwhile, the base and
  the count are those of the hand, and the counter was read at an instant of the read
  not before the update; so `tc_delta` is the time that had passed since the update
  (`OperandsBelongTogether`, by the arithmetic of remainders).

### BlockBuffers, for every number of users, groups, devices, blocks and workers

`TableHolds`, `ExclusiveHolds`, `ReadsLatestHolds`, `NothingLostHolds` (`TableUnlessRaced`,
`Exclusive`, `ReadsLatest`, `NothingLost`), and `SyncWrittenHolds` and `TypesHold`
(`SyncWritten`, `TypeOK`), from `CacheInvariant`. The properties speak of buffers in the
hands of users. What keeps them true is who may touch a buffer while the mutex is
given up, in waits and transfers, and that is the invariant:

* the mutex is with who runs under it (`LockInv`); who has found a buffer, awake or
  asleep, has one of the tree and of its block (`UserInv`);
* tree, lists and group counts agree with the states (`TreeInv`, `ListInv`, `CountInv`;
  the counts include those who sleep on a buffer, which is what keeps its group from
  being divided anew under them);
* a buffer that is with a user is in a state that says so, and with one only
  (`OwnInv`); it is in one transfer at most (`WriterInv`); an EMPTY one has somebody who
  will take it or free it (`EmptyInv`);
* a buffer of the wrong size is EMPTY, and those who have it are synchronizing it,
  unless the size was changed with buffers in use (`SizeInv`); this is why STATE_10 is
  out of reach before that (`FaultInv`);
* a block that `rtems_bdbuf_syncdev` was promised is in a buffer which the swap-out task
  will find, or which it or a worker is writing, or is `lost` (`SyncInv`);
* the latest contents are on the disk, or in a buffer that is to be written, or are
  `lost` (`DataInv`).

`Core` is all of them, `Always` all but `OwnInv`. A purge that hits a directive of another
user (`raced`) breaks `OwnInv` and nothing else, and the next step of that user breaks
the rest. So `CacheInv` is `Core` until the race and, where the model stops at it, `Always`
in the last state as well. `TypeOK` and `SyncWritten` are not restricted to states before
a race; their theorems assume that the model stops there (`~AfterRace`, as in
`BlockBuffers_cache`). After a race the group counts and lists no longer agree with the
states, which is what `BlockBuffers_purge` shows, and the argument ends there; TLC finds
`TypeOK` and `SyncWritten` to hold beyond it too when `BlockBuffers_cache` is run with
`AfterRace = TRUE` (1 637 791 states).

There is one lemma for each of the 37 actions. The lemmas under them are about what
the actions share: a buffer given back, kept or taken (`GiveBack`, `Keep`, `TakeStep`,
`Leave`), made from a group that nobody uses (`RecycledFacts`, `FreshInv`), or several
changed at once by a purge or a transfer (`PurgedStep`, `WrittenStep`), and about lists
without repetition (`Lists`): what is left on one, that sorting keeps it, that a group
is divided into different buffers.

### Only model-checked

Liveness (`EndsByItself`, `ReturnsAsSemaphore`, `EveryWaitEnds`, `EveryCallReturns`), which
needs fairness and `ENABLED`, and `MagnitudeExact`, the third part of `HistogramExact`,
which needs induction over data: both are out of the prover's reach. Of `BlockBuffers`
nothing is proved about the states after a race.

## 10. Plan

1. Other users of the wait protocol: events, message queue, barrier.
2. `TicketLock`, `MCSLock`, `SeqLock` against an abstract mutex; the SMP barrier and the
   jobs of a processor.
3. The lock step of `pi_stress` and its watchdog.

## 11. Not modelled

* Text output, option parsing, memory locking, NUMA placement, tracing: I/O
  without an effect on the shared state.
* `cyclicdeadline`, `deadline_test`, `backfire`, `hwlatdetect`: they depend on parts of
  the Linux kernel that are not in the repository.
* The other rt-tests tools: load generators and two-thread ping-pong tests, with
  little state of their own.
* RTEMS file systems, network services, board support packages, vendor code:
  data formats and hardware access. They are by far the largest part of the
  repository: of its 3.3 million lines 2.3 million are board support packages, mostly
  register headers of microcontrollers and drivers, and 0.4 million are tests. Models
  can reach only a small share of the lines, however much of the kernel's own logic
  (`cpukit/score`, `cpukit/rtems`, `cpukit/libblock`) they cover.
* Schedulers, dispatch, priority protocols, SMP locks, POSIX API: later, see the plan.
* `grub/`: boot images.
