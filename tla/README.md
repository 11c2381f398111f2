# A verification of the Vx runtimes

TLA+ models of the concurrent and distributed parts of Vx, the TLC runs that check them on
small instances, and TLAPS proofs of the properties that matter most for instances of any
size. Vx is a compiler with a standard library and a runtime. This project covers the parts
where steps of many actors meet: the runtime of `tasks` blocks with the waits for sockets
and files; the mutex, the channel and `Arc` on top of it; and of the device runtime the
buffer pool, the remote workers and the start of a job of several GPUs.

## The system

| Part | Source | State | Operations |
| --- | --- | --- | --- |
| wait table | `stdlib/rust_core/src/ffi/wait.rs`, `std/sync/wait.vx` | buckets with a lock, a condvar, lists of parked fibers, sleeping threads, blocked schedulers, notes; the timer's heap | `vx_wait_while`, `vx_wait_while_until`, `vx_wake_all`, `wake_every_thread`, the timer thread |
| scheduler | `ffi/sched.rs` | the queue of ready fibers, the counts `running`, `blocked`, `idle`, the state of each fiber | `push`, `pop`, `run`, `park`, `wake`, `monitor`, callbacks; a seeded variant on one thread |
| tasks | `ffi/tasks.rs` | a done word for each task, a tree of cancel marks, deadline scopes | start, join, cancel, end, free |
| deadlock watcher | `wait.rs`, `mod deadlock` | `PROGRESS`, `THREADS`, `WAITING`, what the last tick saw | one tick: a series of loads, then a report |
| mutex | `std/sync/mutex.vx` | `next`, `serving`, `sleepers` | `lock`, drop of the guard, `into_inner` |
| channel | `std/sync/channel.vx`, the skip set of `wait.rs` | a ring of slots and its counters | `send`, `recv`, `try_recv`, their deadlines, `clone`, drops, `select` |
| IO poller, helpers | `ffi/io.rs` | the list of socket waits, the helpers' queue | wait, poll, wake, run a blocking call |
| stack pool, `Arc` | `ffi/stack.rs`, `std/sync/arc.vx` | free stacks; a count | take, give; clone, drop, unwrap |
| device runtime | `runtime/*.h`, `*.cpp` | device pool, arrival counts, remote regions, connections, the collective id file | allocate, release, dispatch, transfer, exchange |
| compiler | `src/src/**` | a batch program over one source tree | lex, parse, check, lower, emit |
| libraries, editors, fleet | `stdlib/core`, `stdlib/std`, `stdlib/graph`, `vx-analyzer`, `fleet`, `packages` | values of one task | sequential code |

How they meet: a task calls the mutex or the channel, these sleep on a word through
the wait table, the wait table parks the fiber in the scheduler or puts the thread on
its condvar, a wake takes it off the list and back to the queue, and the watcher reads
the counts of all of them while they move. A socket or file call sleeps in the same way on
a word of its own stack, which the poller or a helper thread sets. The device runtime is
apart: a dispatch stages its operands through the buffer pool of its own machine, or through
one connection to a worker, which keeps a table of the buffers its hosts placed there.
`PROJECT.json` lists every component, also
the ones not modelled, and every hazard with the line where it bites.

The hard behaviours are these:

- a wake that comes between the check of a word and the sleep;
- a wake of a fiber that has not yet left its worker;
- a join that frees a fiber while its worker and its wakers still know it;
- a deadline or a cancel that races with the wake;
- a count that is changed by one actor and read by another;
- a worker that is kept by a callback while ready fibers wait;
- a report of a deadlock that rests on loads made at several moments;
- a send that gives up a place in the ring that other sends already follow;
- a poller or a helper that writes to the stack of a call that may have ended;
- a last clone that goes away while another is unwrapped;
- a drain of the pool, with the lock released, while others acquire and release;
- a host or a worker that dies between a request and its reply;
- an address of a buffer that was freed, used when its slot has another;
- a file left by a job that was killed, read by the ranks of the next.

## Modules

| Module | What it is |
| --- | --- |
| `FifoLock` | the promise of the mutex: one holder, first come first served |
| `TicketMutex` | `mutex.vx`, one action for each atomic access |
| `WaitWord` | the promise of wait and wake on a word |
| `TaskRuntime` | `wait.rs`, `sched.rs` and `tasks.rs` together |
| `TaskRuntimeProofs` | the types of `TaskRuntime`, the owners of fibers, the joins, the wakes, and the promise `WaitWord` |
| `TaskCountProofs` | its counts and notes |
| `DeadlockWatcher` | `TaskRuntime` with the watcher's thread |
| `DeadlockWatcherProofs` | its theorems, on top of those of `TaskRuntime` |
| `ChannelPromise` | the promise of a channel: one line of values |
| `Channel` | `channel.vx` with the skip set |
| `ChannelProofs` | its theorems |
| `IoWait` | `io.rs`: the poller and the helper threads, with the watcher's reads of them |
| `IoWaitProofs` | its theorems |
| `Arc` | `arc.vx`, one action for each atomic access |
| `DevicePool` | `vx_device_pool.h`, and the dispatches around it |
| `DevicePoolProofs` | its theorems |
| `RemoteRegion` | `vx_remote_region.h`: a worker's table of buffers |
| `RemoteSession` | hosts and a worker: `vx_remote_client.h`, `vx_remote_routing.h`, `vx_worker_main.cpp` |
| `RemoteProofs` | the theorems of the table, alone and under the session, and of the session |
| `CollectiveJob` | `vx_collective.h`: the exchange of the NCCL id |
| `LibraryProofs` | the theorems of `TicketMutex`, `Arc` and `CollectiveJob` |
| `MC...` | the programs and constants of the runs |

The parts are composed in two ways. `DeadlockWatcher` extends `TaskRuntime`, so the
watcher runs beside every step of the runtime, and `RemoteSession` extends `RemoteRegion`.
`TicketMutex`, `Channel` and `IoWait` do not carry the wait table with them: they use the
promise `WaitWord`, and the runtime keeps that promise (`KeepsThePromise`, proved as
`TaskRuntimeProofs!WaitsAndWakes`).

A definition `X_mutant` is a faulty form of `X`. No specification uses it. For each
property of each run, one of them put in the place of `X` makes TLC find the property
violated.

### TicketMutex

`next`, `serving` and `sleepers` are the words of the mutex and `value` is its cell. A
task takes a ticket, loads `serving`, counts itself, checks and sleeps, and starts again
until it is served. It reads the value, writes it plus one, and drops its guard, which
bumps `serving` and wakes when it saw a sleeper. `EarlyReturn` is a wait that ends with no
change of the word, which `wait_while` allows. `into_inner` takes the value out when
nobody uses the mutex. `MaxTickets` bounds the lock calls of a TLC run; the theorems
hold for every value of it.

### TaskRuntime

An actor is a Vx thread or a fiber. It runs a program, which is a sequence of calls of the
runtime: `await` a word (with a deadline, or until a cancel), `signal` a word, `spawn`,
`free`, `cancel`, and enter or exit a callback. The done word of a task has the name of
the task, so a join is an `await` of the task. A word goes from 0 to 1 once: every caller
loops until its own condition holds, so a word that goes on changing adds no other case.

| State | Code |
| --- | --- |
| `lock`, `fibers`, `sleepers`, `blockedOn`, `notes` | the fields of `Bucket` and `Waiters` |
| `woke` | a sleeping thread's test that `wakes` moved |
| `waking` | the local state of a call of `wake`: what it does next, the fibers in its hand, the one it pushes |
| `heap`, `firing` | the timer |
| `ready`, `cur`, `started`, `running`, `blocked`, `switched`, `state` | the scheduler, its workers, and the `AtomicU8` of each fiber |
| `mark`, `expired`, `callbacks` | `CancelMark`, the deadlines that passed, the depth of callbacks |
| `THREADS`, `WAITING`, `progressed`, `watching` | what the watcher reads |

An action is one access of shared memory or one critical section. The check of a word and
the commit to the sleep are two actions under one hold of the lock, since the word and the
mark change without it. These steps of the code are merged, because no other actor can
tell the state between them from the one before or after:

- the decrement of `WAITING` or `THREADS` with the `progress()` after it: the watcher loads
  `PROGRESS` before them, and a thread between the two steps of `sleep_ended` is in `THREADS`
  and not in `WAITING`, so that tick is not stuck;
- the append of `push` with the `notify_one` after it: a worker that looks in between takes
  the fiber, and a worker that wakes for a fiber that is gone waits again;
- the two loads of `all_parked`: no fiber starts to run under the lock of the queue, so equal
  loads mean that the counts were equal at the second.

`notify_one` picks some idle worker; idle workers are alike. `CALLBACKS` is a count of
the OS thread. The model keeps it for each actor, because a fiber parks only at 0, so it
never leaves a thread with a count.

### DeadlockWatcher

A tick loads `PROGRESS`, then asks `all_parked`, `WAITING`, `THREADS` and the timer, one
step each; `io::pending`, the last question, is in `IoWait`. `PROGRESS` is only compared with its last value, so the model keeps whether it
moved since the load. After a report the program stops.

### Channel

The counters of the channel are one record, `words`. `slot` and `data` are the ring,
`skips` the numbers of this channel in the skip set. `WAKE` is only compared with an
earlier load, so the model keeps for each task whether it changed since (`news`). The
value of the send with number `k` is `k`. `RECVS` is read only by the receiver and by the
last end, which is why its update is merged with the step next to it, and why the last
end's release is one step. A receiver that was told `Closed` goes on to drop its end.

`select` waits on the word that all channels share. It is modelled with one open channel in
its list: the others are empty and closed, and what happens on them only ends a sleep early.
`notify` is whole: it bumps `WAKE` and the shared word, loads the counts of sleepers and of
selects, and wakes for each that is not 0. The locals of a call (`num`, `closed`, `mode`,
`news`) go back to their first values when it ends, which no later call can notice.

### IoWait

`waiting` is the poller's list and `pipe` says whether its pipe has a byte; `ppc`, `words`
and `left` are the poller's place and locals. `queue`, `idle` and `BUSY` are the words of the
helpers. Helpers are alike, so `helpers` counts them at each place. `runs` is the set of
tasks whose calls they are in, and `stored` has the calls that are done and whose wake a
helper still owes; such a call is named by its task and the calls that the task had left. `word[t]` is the word on the stack of the
call of `t`; the next call of `t` has its word at the same address, which is what makes a late
store a fault. The poller's `retain` and the count in `WAKING` are one critical section of
the list, as in the code; its wakes follow one by one. The watcher's loads of `BUSY`,
`WAKING` and the list are steps of their own.

### Arc

Clones are alike, so `at` counts them at each place of a call. A task is in one `clone` at a
time. `core_arc_max_count` is the limit that `clone` tests after its `fetch_add`, and the
count wraps at twice that number, as an `AtomicI64` does for the limit of 2^62.

### DevicePool

`free_lists_`, `pooled_bytes_` and `live_` are the records under the lock. `driver` is the
device's memory: an address that was freed may be handed out again. Each call of the driver
is a step with the lock released. `taken` holds, by size, the buffers a thread took from the
driver or is about to free; a drain frees the smaller sizes first, as the `std::map` of the
code does.

### RemoteRegion and RemoteSession

`regions` is the table and `next_offset` the next free offset of each worker id. `minted`
remembers every region there ever was, for the properties only. The lookup is the binary search of
the code: `Round` is one round of its loop, and `Search` is what `best` is after as many
rounds as there are slots, when the loop is over.

A host makes one call at a time. `doing` is the call it is in, `resident` what the program
placed on the worker, `staged` what the current dispatch staged and has still to free. A
request and its reply are messages in `requests` and `replies`. `link` is `cut` from the end
of a host until the worker notices. The worker serves one host until then; it answers a
request in one step, because it alone uses its table and its device. `restart` is the death
of the worker: a new table, a new device, and every connection broken.

### CollectiveJob

`file` and `partial` are the two paths. A process may stop at any step, and a new job starts
when no process of the last is left, with its file removed or not. `comm[i]` is the set of
ranks that joined with the id `i`; NCCL is external and lets a rank join with an id once.

## Runs

| Run | Config | States | What it checks |
| --- | --- | --- | --- |
| `ticket_mutex` | `TicketMutex.cfg` | 32,278 | three tasks, five lock calls: exclusion, the refinement of `FifoLock`, every lock call is served |
| `task_runtime` | `TaskRuntime.cfg` | 290,817 | main and two tasks, two buckets, eight programs, each with fibers (two workers, of which one is started by the monitor) and with a thread for each task: the safety properties and the refinement of `WaitWord` |
| `task_runtime_live` | `TaskRuntimeLive.cfg` | 13,754 | under fairness each wait that is satisfied ends, and main ends |
| `watcher_fibers` | `WatcherFibers.cfg` | 464,830 | a report with no `PROGRESS` since its load is true; a stuck program is reported |
| `watcher_threads` | `WatcherThreads.cfg` | 52,119 | with threads each report is true; a stuck program is reported |
| `watcher_false_report` | `WatcherFalseReport.cfg` | | a false report (below) |
| `channel` | `Channel.cfg` | 374,662 | two senders, a ring of two, three sends, one sender with deadlines, a receiver that receives, tries, selects and can be cancelled: values, order, closing, freeing, wakes, the refinement of `ChannelPromise`; under fairness the channel is freed |
| `io_wait` | `IoWait.cfg` | 1,016,374 | two fibers on one socket, file calls, a cancel: no store to a word whose call ended, each sleeper and each queued call is served, the watcher takes no wait for IO for a deadlock unless `PROGRESS` moved |
| `arc` | `Arc.cfg` | 975 | a limit of 4, eight clones: a held value is there, it is taken and freed once, the count is the number of owners |
| `device_pool` | `DevicePool.cfg` | 30,501 | two threads, three addresses, two sizes: each buffer in one place, true records |
| `remote_session` | `RemoteSession.cfg` | 280,218 | two hosts, a worker that dies once: replies in step, handles find their buffers, nothing leaks, stale handles stay dead, the lookup is exact; under fairness the memory comes back |
| `collective_job` | `CollectiveJob.cfg` | 56,056 | three ranks, three ids, jobs in a row: all ranks of a job have the id of rank 0 |

**Bounds.** The races are between one waiter, one waker and one third party (a timer, a
canceller, a second waker, a joiner), so two fibers and main reach them. Two buckets with
three words in one give a wake that meets waiters of another word. Two workers are needed
for a wake while the fiber's own worker still has it, and the second starts only through
`monitor`. Five tickets for three tasks let a task lock again while others wait. Three
sends through a ring of two reach the second lap of a slot, and make a send wait. The two
calls of a task in `IoWait` put two words at one address, and the third program gives more
file calls than helpers that wait. An `Arc` limit of 4 is met by the fifth clone, with both
tasks past their `fetch_add`. A device of three units with buffers of one and two fills
up, and a capacity of two makes a release keep or free. In `RemoteSession` the sizes 1 and 3 in a
space of eight offsets reach its end, a table of two slots is full before the device or the
space is, and one restart suffices since it forgets everything. Three ids are two jobs and
a start that finds an old file. The programs of an MC module are chosen so that every call meets every other kind
of call it can race with.

**Fairness.** `TicketMutex` and `Channel`: weak fairness of the steps of a task inside a
call, because the OS runs every thread; no fairness of a new lock call, of an early return
or of a cancel. A task of `Channel` also goes on to use its end until it drops it, or
`ChannelIsFreed` would say nothing; and the drop of a cancelled receiver is strongly fair,
because a cancelled block makes no endless series of new calls. `RemoteSession`: weak
fairness of the worker's loop and of a host that is in a call, none of a new call, of a death
or of the restart. `TaskRuntime`: weak fairness of each thread, worker,
waker, the monitor and the timer, and strong fairness of taking the lock of a bucket. The
latter says that the mutex of a bucket does not starve a thread for ever. The Rust
library does not promise it, but the OS mutex gives it in practice, and without it a
thread whose sleep ends early again and again could keep the lock from the others.
`DeadlockWatcher`: weak fairness of the watcher alone.

**Deadlock** is checked in every run but `collective_job`, whose ids run out (`MaxIds`) and
where ranks may wait in NCCL for one that stopped. `Finished` is the only step of a program
that is over, and for the watcher a program that was reported.

### A false report

`docs/discussions/progress_model_across_nodes.md:34` says "F9: the runtime reports a
deadlock only when no task can ever continue." The watcher loads `PROGRESS` at
`wait.rs:760`, and `stuck()` makes its loads after it. In the run, the first tick
finds the queue empty just before main pushes a fiber and sleeps, then finds main asleep,
and so takes the program for stuck. After the second tick's load of `PROGRESS`, the fiber
wakes main and ends. The watcher finds no fiber that runs or is ready, then main starts
another task and sleeps, and the watcher finds every thread asleep and the `PROGRESS` of the
tick before. It reports a deadlock while the new task is ready. `TrueReportWithoutProgress` shows that a
second load of `PROGRESS` before the report would be enough. `WaitsForIoArePending` has the
same shape for the same reason: a poller that stalls between its `retain` and its wakes can
be missed by the three loads of `pending`, but then `PROGRESS` moved.

### What the models assume where the code says little

- A worker's table is proved and checked for one worker id, as `vx_worker_main.cpp` uses it.
  "Bases are ascending" (`vx_remote_region.h:235`) would not hold for two ids in one table,
  and the search relies on it; the gaps alone (`TableGaps`) hold for any number of ids.
- In the pool, a release of another thread between the drain and the retry keeps its buffer,
  so the retry may fail with memory in the cache. `stage` then stops the program. No document
  promises otherwise, and no property is about it.
- A dispatch that the worker refuses ends the host. `vx_remote_routing.h:294` says that the
  backend "then runs the kernel itself"; line 421 says why it does not once the wire was
  touched. The model follows the code.
- Rank 0 finds its own file when it joins again after `finish`, and stops. The model does the same.

## Proofs

TLAPS proves every safety property that a run checks, and all three refinements. The proofs
are for constants of any value that satisfies the named assumptions:

| Assumption | What it asks |
| --- | --- |
| `TicketAssumption` | a finite set of tasks |
| `RuntimeAssumption` | finite sets of fibers, threads and workers, which differ; any words, buckets and programs, as long as a task is joined before it is freed, which is what `vx_tasks_end` does |
| `ChannelAssumption` | a ring with at least one slot; any set of senders and any tasks with deadlines or cancels |
| `IoAssumption` | a finite set of tasks; any sockets and any series of calls |
| `ArcAssumption` | a limit above the number of tasks plus one |
| `PoolAssumption` | sizes are not 0; any threads, addresses, memory and capacity |
| `RegionAssumption`, `SessionAssumption` | one worker id in the session, a least gap that fits the space; any hosts, sizes and table |
| `JobAssumption` | there is a rank 0 |

| Theorem | Argument |
| --- | --- |
| `LibraryProofs!TypeCorrect`, `Exclusion`, `UpdatesKept`, `WakesKept` | the invariant `IInv`: tickets in use are distinct and between `serving` and `next`, the holder's ticket is the one served, what a holder read is the value, `sleepers` is the number of tasks between their two updates of it |
| `LibraryProofs!Implements` | the mutex implements `FifoLock`: the queue of the lock is the tasks by their tickets from `serving` to `next`. `Covered`: each of these tickets has a task, so the queue has no hole |
| `LibraryProofs!ValueIsThere`, `OneTakes`, `CountTrue` | `ArcInv`: the count is the number of clones that are held, in a `clone` or leaked (`ArcOwners`); it stays below the wrap, because each task adds at most one above the limit (`ArcRoom`); at most one call saw the count go to 0, and then no owner is left (`OneLast`); what became of the value fits where that call is (`Fate`) |
| `LibraryProofs!OneId` | `JobInv`: no file is there while rank 0 writes one, so no other rank has an id yet; a rank that joins has the id that the file holds |
| `TaskRuntimeProofs!WakesMeetParkedFibers`, `FibersAreKept`, `TaskCountProofs!EachFiberHasOneOwner` | the invariant `OwnInv`: the state word of a fiber fits its place, and each place (queue, worker, list, waker's hand, push) excludes the others; a fiber that parks is in a list or a hand |
| `TaskRuntimeProofs!FreedFibersAreNotUsed` | `JoinInv`: a join that is over saw the done word, and only the end of a task sets it; with `OwnInv` a fiber that ended is nowhere but on the worker that leaves it |
| `TaskRuntimeProofs!NoWakeIsLost` | `WakeKept`: from the check under the lock on, a waiter whose wait can end has a wake that has yet to look at its list; `LockInv` makes the check and the commit one step for wakes |
| `TaskRuntimeProofs!WaitsAndWakes` | the runtime implements `WaitWord`. `StoreInv`: once a word is set, no waiter of it is on a list that no wake will look at; so the end of a wake finds every waiter of the promise awake |
| `TaskCountProofs!TheCountsAreTrue`, `TypeCorrect` | `CountInv`: each bucket's lists are the actors that wait on it, so a wake takes from the counts exactly those; no count goes below 0 |
| `TaskCountProofs!TheNotesAreTrue` | `NotesInv`: a note is there from the moment a waiter is on its list or in a counted sleep until it is neither |
| `DeadlockWatcherProofs!ReportsWithoutProgressAreTrue` | `WatchInv`, below |
| `DeadlockWatcherProofs!ThreadReportsAreTrue` | `HaltInv`, below |
| `ChannelProofs!ValuesAreKept` | `RingInv`: the slots belong to the next `cap` numbers from the one to receive on, each free or full. `NumInv`: senders have distinct numbers that no receive passed. `ValueInv`: a number handed out is held, full, received or given back, and no two of these |
| `ChannelProofs!ClosedEnds` | `ClosedInv`: `SKIPS` counts the skips that a receive has not passed, and a receive that saw no sender and then neither a value nor a skip at its number has passed them all |
| `ChannelProofs!FreedLast` | `CountInv`: `ENDS` and `SENDERS` are the numbers of ends and of senders, in a call or not |
| `ChannelProofs!WakesAreKept` | `WakeInv`: a task whose wait is over and that has not seen it has a change of its word on the way, and one that sleeps after the change has a wake on the way; `SLEEPERS` and `SELECTS` are true, so the wake is not skipped |
| `ChannelProofs!SendsInOneLine` | the channel implements `ChannelPromise`: each step of the ring joins the line, fills a place, gives one up, takes or passes its head, or keeps it |
| `IoWaitProofs!StoresMeetTheirCalls` | `ListInv`, `HelpInv` and `StoredInv`: the list has only waits that go on, each call is with the helpers once, and a call that is done is the task's own or an earlier one |
| `IoWaitProofs!SleepersAreServed` | `PollInv`: an entry that the poll does not have is told of by a byte in the pipe, and `WAKING` counts the wakes the poller owes. `CountInv` and `ServeInv`: `idle` counts the helpers that wait or were notified, and the queue is no longer than the helpers that will look and the notifies to come |
| `IoWaitProofs!IoIsPending` | its `WatchInv`: what the watcher knows at each of its loads, unless `PROGRESS` moved |
| `DevicePoolProofs!BuffersAreInOnePlace`, `ThePoolsRecordsAreTrue` | `PoolInv`: an address is nowhere and free, or allocated with a size and in one list, one hand or one `DeviceBuffer` of that size (`Placed`); the two counts are the sizes of sets of entries and of buffers (`CacheInv`, `LiveInv`) |
| `RemoteProofs!TableTypes`, `TableGaps` | `TableInv`: every region ever made lies below the next offset of its worker, its gap included (`Below`), each slot has the base and size it was made with (`Recorded`), and the gaps hold; for a table of any number of workers |
| `RemoteProofs!TableResolves`, `SessionResolves` | `Sorted`: bases are ascending in a table in which one worker allocates. `Narrowed`: after `k` rounds of the search the slots up to `lo` are not above the address, those after `hi` are, and the range is shorter by `k` or empty |
| `RemoteProofs!SessionGaps`, `SessionStale` | `SessionInv`: `TableInv` with the types of the wires and of what hosts keep, so that a message can only ask for a size or name a handle; slots accept only addresses of their own region, and regions are apart |
| `RemoteProofs!SessionInStep`, `SessionHandles`, `SessionLeaks`, `SessionDispatch` | `OwnerInv`: on an open connection one message is out for a host in a call and none for another (`InTurn`); what a host holds, or is about to, is exactly the worker's live regions but for the one it gives back, each once (`Ledger`); the device has the buffer of each live region and no other (`Stocked`) |

The properties alone are not inductive. `OneOwner`, for example, does not say that a fiber
in a waker's hand has a state that lets the waker push it only once; `StateInv` and
`HandInv` do. `NoLostWake` says nothing of a waiter between its check and its commit, where
the wake is most easily lost; `WakeKept` includes it. `DispatchLeavesNothing` speaks only of
a host between two calls; `Ledger` follows each handle through the messages of a call.

**Why a report is true.** `program_scheduler` (`sched.rs:435`) is one choice for the life of
the program, so its tasks are all fibers, beside the main thread, or all threads. The two
theorems assume this, as `Threads = {Main} \/ Fibers = {}` and `Fibers = {}`. A step that
leaves `PROGRESS` alone ends no sleep and wakes no thread (`Silent`). So what a load of the
tick found lasts until the report, if `PROGRESS` does not move: `WatchInv` says this of each
load in turn, and that what the last tick found of the threads lasts through this one. At
the report every thread waits, no fiber is ready, each busy worker carries a fiber that
blocks it, and no deadline is in the heap; with `CountInv`, `OwnInv`, `TimedInv` (a wait with
a deadline has its entry) and `ReadyInv` (a ready fiber is on the queue) no step can go
on. With threads alone more is true. Once the second tick loads the same `PROGRESS`, what the
first one found makes the program stuck for good, since only a thread can move `PROGRESS`
and each of them waits; `HaltInv` says so, and nothing between the loads can spoil the
report. With fibers it can, as `watcher_false_report` shows, and no theorem says otherwise.

**Induction.** The prover has no induction for operators. What the search computes is proved
with sets instead: `Induct` is induction for a set of numbers, `Rec` shows that the function
`Rounds` exists and unfolds, and `RoundKeeps` is the step. Counts of sets that need not be
finite beforehand are stated in `ChannelProofs` with a list of the elements (`Counts`).

Only model-checked:

- the liveness properties `EachLockIsServed`, `EachWaitEnds`, `MainEnds`,
  `DeadlockIsReported`, `ChannelIsFreed` and `MemoryComesBack`, since fairness is beyond the
  prover.

## What is not modelled

- Memory orderings. The models interleave the atomic accesses of the code as sequentially
  consistent steps. `formal/` has Lean proofs about the orderings.
- The seeded scheduler, which runs one task at a time in an order that a seed gives: it has
  no races of its own.
- Task groups, nested cancel marks and deadline scopes. A mark of the model has no parent,
  and a wait has one deadline.
- The round robin of `select` over several open channels.
- The stack pool and the arrival counts: lists under one lock, each call one critical section.
- Two threads of a host that dispatch at once. They share one connection and its buffers
  (`vx_remote_routing.h:409`), and no document says that a program may do so.
- Malformed and oversized messages, results published through empty slots, the encoding on
  the wire, and payloads.
- The collectives themselves, which hand the communicator to NCCL and keep no state.
- Spurious wakes of a worker's own condvar, which loops, and the monitor's message about
  its limit.
- The wrap of 64-bit counters other than that of `Arc`, which no run of a program reaches.
- The compiler, the sequential libraries and the vendor backends: their state is a whole
  program or a device, out of TLC's reach. `PROJECT.json` gives the reason for each part.
