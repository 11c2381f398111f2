---------------------------- MODULE TaskRuntime -----------------------------
(***************************************************************************)
(* The runtime of `tasks` blocks: the wait and wake of a word              *)
(* (src/stdlib/rust_core/src/ffi/wait.rs), the scheduler of fibers         *)
(* (sched.rs) and the start, end, join and cancel of a task (tasks.rs).    *)
(*                                                                         *)
(* An actor is a fiber or a Vx thread.  It runs a program: a sequence of   *)
(* calls of the runtime.  A task has a `done` word, which is named as the  *)
(* task is.  A word goes from 0 to 1 once.                                 *)
(*                                                                         *)
(* One action is one access of shared state, or one critical section of a  *)
(* bucket.  Only the check of the word and the commit to the sleep are two *)
(* actions under one hold of the lock, because the word and the mark       *)
(* change without the lock.                                                *)
(*                                                                         *)
(* A definition X_mutant is a faulty form of X.  No specification uses it: *)
(* it shows that a property notices the fault.                             *)
(***************************************************************************)
EXTENDS Integers, Sequences, FiniteSets

CONSTANTS
  Fibers, Threads, Main,   \* the fibers; the Vx threads that are not workers; one of them
  Workers,                 \* the worker threads, VX_TASK_MAX_WORKERS of them
  StartWorkers,            \* the ones that VX_TASK_WORKERS starts
  UserWords,               \* the words of channels, locks and user code
  BUCKETS, BucketOf,       \* the number of buckets, and the bucket of each word
  Programs,                \* the programs to run, each a function from actors to calls
  Nobody

Actors == Fibers \cup Threads
Tasks  == Actors \ {Main}
Words  == UserWords \cup Tasks
Buckets == 1..BUCKETS
Timer  == "timer"
NoFiber == {"next", "idle", "called", "leaving"}  \* the places of a worker with no fiber
Wakers == Actors \cup {Timer}

Calls ==
  [op : {"await"}, on : Words, timed : BOOLEAN, or_cancel : BOOLEAN]
    \cup [op : {"signal"}, on : UserWords] \cup [op : {"spawn", "free"}, on : Tasks]
    \cup [op : {"cancel", "callback_enter", "callback_exit"}]

\* vx_tasks_end, which frees a task, has joined it.
JoinsBeforeFree(p) ==
  \A a \in Actors : \A i \in 1..Len(p[a]) : p[a][i].op = "free" =>
    \E j \in 1..(i - 1) : /\ p[a][j].op = "await" /\ p[a][j].on = p[a][i].on
                          /\ ~p[a][j].timed /\ ~p[a][j].or_cancel

ASSUME RuntimeAssumption ==
  /\ Main \in Threads /\ Fibers \cap Threads = {}
  /\ IsFiniteSet(Fibers) /\ IsFiniteSet(Threads) /\ IsFiniteSet(Workers)
  /\ Timer \notin Actors /\ Nobody \notin Actors \cup UserWords \cup NoFiber
  /\ Actors \cap (NoFiber \cup UserWords) = {}
  /\ StartWorkers \subseteq Workers
  /\ BUCKETS \in Nat \ {0}
  /\ BucketOf \in [Words -> Buckets]
  /\ Programs \subseteq [Actors -> Seq(Calls)] /\ \A p \in Programs : JoinsBeforeFree(p)

VARIABLES
  prog, ip,      \* the program of the run, and the next call of each actor
  pc,            \* the place of each actor in its call
  word,          \* the value of each word
  mark,          \* CancelMark.set of the tasks block
  callbacks,     \* CALLBACKS of the actor's thread
  expired,       \* the timed calls, as <<actor, ip>>, whose deadline passed
  \* the table of wait.rs
  lock,          \* who holds the lock of each bucket across two steps
  fibers,        \* Waiters.fibers: the parked fibers with their word
  sleepers,      \* Waiters.sleepers
  blockedOn,     \* the length of Waiters.blocked
  notes,         \* the owners in Waiters.notes
  woke,          \* whether Waiters.wakes changed since the actor read it
  waking,        \* the call of `wake` that each waker is in
  \* the timer of wait.rs
  heap, firing,
  \* the scheduler
  state, ready,
  cur,           \* the fiber of each worker, or its place in its loop
  started, running, blocked,
  switched,      \* whether `switches` went up since the monitor read it
  freed,         \* the fibers whose Box is dropped
  \* the counts of the deadlock watcher
  THREADS, WAITING, progressed, watching

progVars  == <<prog, ip, pc, word, mark, callbacks, expired>>
tableVars == <<lock, fibers, sleepers, blockedOn, notes, woke>>
timerVars == <<heap, firing>>
schedVars == <<state, ready, cur, started, running, blocked, switched, freed>>
countVars == <<THREADS, WAITING, progressed, watching>>
vars == <<progVars, tableVars, waking, timerVars, schedVars, countVars>>

Call(a)  == prog[a][ip[a]]
Over(a)  == ip[a] > Len(prog[a])
On(a)    == Call(a).on
Bkt(a)   == BucketOf[On(a)]
Doing(a, op) == pc[a] = "run" /\ ~Over(a) /\ Call(a).op = op
Awaits(a)    == ~Over(a) /\ Call(a).op = "await"

\* The calls of `wake`: not in one, or at a step of it for a word or for each bucket in turn.
NoWake == [at |-> "no", of |-> Nobody, b |-> 1, hand |-> {}, push |-> Nobody]
WakeOf(w) == [at |-> "progress", of |-> w, b |-> BucketOf[w], hand |-> {}, push |-> Nobody]
WakeEvery(b) == [at |-> "progress", of |-> Nobody, b |-> b, hand |-> {}, push |-> Nobody]

Init ==
  /\ prog \in Programs
  /\ ip = [a \in Actors |-> 1]
  /\ pc = [a \in Actors |-> IF a = Main THEN "run" ELSE "new"]
  /\ word = [w \in Words |-> 0]
  /\ mark = FALSE
  /\ callbacks = [a \in Actors |-> 0]
  /\ expired = {}
  /\ lock = [b \in Buckets |-> Nobody]
  /\ fibers = [b \in Buckets |-> {}]
  /\ sleepers = [b \in Buckets |-> {}]
  /\ blockedOn = [b \in Buckets |-> 0]
  /\ notes = [b \in Buckets |-> {}]
  /\ woke = [a \in Actors |-> TRUE]
  /\ waking = [p \in Wakers |-> NoWake]
  /\ heap = {} /\ firing = FALSE
  /\ state = [f \in Fibers |-> "RUNNING"]
  /\ ready = <<>>
  /\ cur = [w \in Workers |-> "next"]
  /\ started = StartWorkers
  /\ running = 0 /\ blocked = 0 /\ switched = FALSE
  /\ freed = {}
  /\ THREADS = 1 /\ WAITING = 0 /\ progressed = TRUE /\ watching = FALSE

Goto(a, to) == pc' = [pc EXCEPT ![a] = to]
Advance(a)  == ip' = [ip EXCEPT ![a] = ip[a] + 1]
-----------------------------------------------------------------------------
\* wait: the loop of the caller, the check and the commit under the lock of the bucket

Satisfied_mutant(a) == word[On(a)] # 0 \/ mark \/ (Call(a).timed /\ <<a, ip[a]>> \in expired)
Satisfied(a) ==
  \/ word[On(a)] # 0
  \/ Call(a).or_cancel /\ mark
  \/ Call(a).timed /\ <<a, ip[a]>> \in expired

Await(a) ==
  /\ Doing(a, "await")
  /\ \/ Satisfied(a) /\ Advance(a) /\ UNCHANGED pc
     \/ ~Satisfied(a) /\ Goto(a, "wait") /\ UNCHANGED ip
  /\ UNCHANGED <<prog, word, mark, callbacks, expired, tableVars, waking, timerVars, schedVars, countVars>>

Hold_mutant(a) == lock
Hold(a) == [lock EXCEPT ![Bkt(a)] = a]

wait_check(a) ==
  /\ pc[a] = "wait" /\ lock[Bkt(a)] = Nobody
  /\ \/ Satisfied(a) /\ Goto(a, "run") /\ UNCHANGED lock
     \/ ~Satisfied(a) /\ Goto(a, "commit") /\ lock' = Hold(a)
  /\ UNCHANGED <<prog, ip, word, mark, callbacks, expired, fibers, sleepers, blockedOn, notes, woke,
                 waking, timerVars, schedVars, countVars>>

fiber_that_can_park(a) == a \in Fibers /\ callbacks[a] = 0

will_park_mutant(f) == state
will_park(f) == [state EXCEPT ![f] = "PARKING"]

\* The fiber goes on the list of its bucket as PARKING.  Its timer comes after the lock.
wait_fiber(a) ==
  /\ pc[a] = "commit" /\ fiber_that_can_park(a)
  /\ lock' = [lock EXCEPT ![Bkt(a)] = Nobody]
  /\ state' = will_park(a)
  /\ fibers' = [fibers EXCEPT ![Bkt(a)] = @ \cup {<<a, On(a)>>}]
  /\ notes' = [notes EXCEPT ![Bkt(a)] = @ \cup {a}]
  /\ Goto(a, IF Call(a).timed THEN "arm" ELSE "park")
  /\ watching' = (watching \/ ~Call(a).timed)
  /\ UNCHANGED <<prog, ip, word, mark, callbacks, expired, sleepers, blockedOn, woke, waking, timerVars,
                 ready, cur, started, running, blocked, switched, freed, THREADS, WAITING, progressed>>

wake_at(a) ==
  /\ pc[a] = "arm"
  /\ heap' = heap \cup {<<a, ip[a]>>}
  /\ Goto(a, "park")
  /\ UNCHANGED <<prog, ip, word, mark, callbacks, expired, tableVars, waking, firing, schedVars, countVars>>

\* A timed sleep of a thread is on no list, and a wake of the bucket or the deadline ends it.
wait_thread_timed(a) ==
  /\ pc[a] = "commit" /\ ~fiber_that_can_park(a) /\ Call(a).timed
  /\ lock' = [lock EXCEPT ![Bkt(a)] = Nobody]
  /\ Goto(a, "sleep")
  /\ UNCHANGED <<prog, ip, word, mark, callbacks, expired, fibers, sleepers, blockedOn, notes, woke,
                 waking, timerVars, schedVars, countVars>>

wait_thread(a) ==
  /\ pc[a] = "commit" /\ ~fiber_that_can_park(a) /\ ~Call(a).timed
  /\ lock' = [lock EXCEPT ![Bkt(a)] = Nobody]
  /\ woke' = [woke EXCEPT ![a] = FALSE]
  /\ notes' = [notes EXCEPT ![Bkt(a)] = @ \cup {a}]
  /\ \/ /\ a \in Fibers
        /\ blockedOn' = [blockedOn EXCEPT ![Bkt(a)] = @ + 1] /\ blocked' = blocked + 1
        /\ UNCHANGED <<sleepers, WAITING>>
     \/ /\ a \in Threads
        /\ sleepers' = [sleepers EXCEPT ![Bkt(a)] = @ \cup {a}] /\ WAITING' = WAITING + 1
        /\ UNCHANGED <<blockedOn, blocked>>
  /\ Goto(a, "sleep")
  /\ watching' = TRUE
  /\ UNCHANGED <<prog, ip, word, mark, callbacks, expired, fibers, waking, timerVars,
                 state, ready, cur, started, running, switched, freed, THREADS, progressed>>

Counted_mutant(a) == 1
Counted(a) == IF woke[a] THEN 0 ELSE 1

\* The end of a sleep, under the lock of the bucket.  After no wake of the bucket,
\* the waiter takes itself off the lists.
wait_return(a) ==
  /\ lock[Bkt(a)] = Nobody
  /\ Goto(a, "run")
  /\ woke' = [woke EXCEPT ![a] = TRUE]
  /\ notes' = IF woke[a] THEN notes ELSE [notes EXCEPT ![Bkt(a)] = @ \ {a}]
  /\ \/ /\ a \in Fibers
        /\ blockedOn' = [blockedOn EXCEPT ![Bkt(a)] = @ - Counted(a)]
        /\ blocked' = blocked - Counted(a)
        /\ UNCHANGED <<sleepers, WAITING>>
     \/ /\ a \in Threads
        /\ sleepers' = IF woke[a] THEN sleepers ELSE [sleepers EXCEPT ![Bkt(a)] = @ \ {a}]
        /\ WAITING' = WAITING - Counted(a)
        /\ UNCHANGED <<blockedOn, blocked>>
  /\ progressed' = (progressed \/ ~woke[a])
  /\ UNCHANGED <<prog, ip, word, mark, callbacks, expired, lock, fibers, waking, timerVars,
                 state, ready, cur, started, running, switched, freed, THREADS, watching>>

Notified(a) == pc[a] = "notified" /\ wait_return(a)
TimedOut(a) == pc[a] = "sleep" /\ Call(a).timed /\ <<a, ip[a]>> \in expired /\ wait_return(a)
Spurious(a) == pc[a] = "sleep" /\ wait_return(a)

-----------------------------------------------------------------------------
\* wake: for a word, or for each bucket in turn

wake_progress(p) ==
  /\ waking[p].at = "progress"
  /\ progressed' = TRUE
  /\ waking' = [waking EXCEPT ![p].at = "take"]
  /\ UNCHANGED <<progVars, tableVars, timerVars, schedVars, THREADS, WAITING, watching>>

take_fibers_mutant(b, of) == {e \in fibers[b] : e[2] = of}
take_fibers(b, of) == {e \in fibers[b] : of \in {Nobody, e[2]}}
FibersOf(entries)  == {e[1] : e \in entries}

keep_the_notes_of_parked_fibers_mutant(b, kept) == {}
keep_the_notes_of_parked_fibers(b, kept) == notes[b] \cap FibersOf(kept)

unblocked_mutant(b) == blocked
unblocked(b) == blocked - blockedOn[b]

wake_under_the_lock(p) ==
  LET b     == waking[p].b
      taken == take_fibers(b, waking[p].of)
  IN
  /\ waking[p].at = "take" /\ lock[b] = Nobody
  /\ waking' = [waking EXCEPT ![p].at = "notify", ![p].hand = FibersOf(taken)]
  /\ fibers' = [fibers EXCEPT ![b] = @ \ taken]
  /\ notes' = [notes EXCEPT ![b] = keep_the_notes_of_parked_fibers(b, fibers[b] \ taken)]
  /\ sleepers' = [sleepers EXCEPT ![b] = {}]
  /\ WAITING' = WAITING - Cardinality(sleepers[b])
  /\ progressed' = (progressed \/ sleepers[b] # {})
  /\ blockedOn' = [blockedOn EXCEPT ![b] = 0]
  /\ blocked' = unblocked(b)
  /\ woke' = [a \in Actors |-> woke[a] \/ (pc[a] \in {"sleep", "notified"} /\ Bkt(a) = b)]
  /\ UNCHANGED <<progVars, lock, timerVars, state, ready, cur, started, running, switched, freed, THREADS, watching>>

wake_notify_all(p) ==
  /\ waking[p].at = "notify"
  /\ pc' = [a \in Actors |-> IF pc[a] = "sleep" /\ Bkt(a) = waking[p].b THEN "notified" ELSE pc[a]]
  /\ waking' = [waking EXCEPT ![p].at = "push"]
  /\ UNCHANGED <<prog, ip, word, mark, callbacks, expired, tableVars, timerVars, schedVars, countVars>>

\* The idle workers are alike, so the choice of the one that the OS wakes is arbitrary.
notify_one ==
  IF \A w \in Workers : cur[w] # "idle" THEN cur
  ELSE [cur EXCEPT ![CHOOSE w \in Workers : cur[w] = "idle"] = "called"]

ToPush_mutant(f) == f
ToPush(f) == IF state[f] = "PARKED" THEN f ELSE Nobody

\* sched::wake: the waker of a PARKED fiber puts it on the queue, and a PARKING one
\* is left to its worker.
sched_wake(p, f) ==
  /\ waking[p].at = "push" /\ waking[p].push = Nobody /\ f \in waking[p].hand
  /\ waking' = [waking EXCEPT ![p].hand = @ \ {f}, ![p].push = ToPush(f)]
  /\ state' = [state EXCEPT ![f] = "WOKEN"]
  /\ UNCHANGED <<progVars, tableVars, timerVars, ready, cur, started, running, blocked, switched, freed, countVars>>

\* push: the queue under its lock, and then the notify of one idle worker.
push(p) ==
  /\ waking[p].push # Nobody
  /\ ready' = Append(ready, waking[p].push)
  /\ cur' = notify_one
  /\ waking' = [waking EXCEPT ![p].push = Nobody]
  /\ UNCHANGED <<progVars, tableVars, timerVars, state, started, running, blocked, switched, freed, countVars>>

WakeIsOver(p) == waking[p].at = "push" /\ waking[p].hand = {} /\ waking[p].push = Nobody

-----------------------------------------------------------------------------
\* The calls that wake

signal(a) ==
  /\ Doing(a, "signal")
  /\ word' = [word EXCEPT ![On(a)] = 1]
  /\ waking' = [waking EXCEPT ![a] = WakeOf(On(a))]
  /\ Goto(a, "waking")
  /\ UNCHANGED <<prog, ip, mark, callbacks, expired, tableVars, timerVars, schedVars, countVars>>

cancel(a) ==
  /\ Doing(a, "cancel")
  /\ mark' = TRUE
  /\ waking' = [waking EXCEPT ![a] = WakeEvery(1)]
  /\ Goto(a, "waking")
  /\ UNCHANGED <<prog, ip, word, callbacks, expired, tableVars, timerVars, schedVars, countVars>>

NextBucket(a) ==
  /\ a \in Actors /\ WakeIsOver(a)
  /\ waking[a].of = Nobody /\ waking[a].b + 1 \in Buckets
  /\ waking' = [waking EXCEPT ![a] = WakeEvery(waking[a].b + 1)]
  /\ UNCHANGED <<progVars, tableVars, timerVars, schedVars, countVars>>

WakeReturns(a) ==
  /\ a \in Actors /\ WakeIsOver(a) /\ ~Over(a)
  /\ waking[a].of = Nobody => waking[a].b + 1 \notin Buckets
  /\ waking' = [waking EXCEPT ![a] = NoWake]
  /\ Advance(a) /\ Goto(a, "run")
  /\ UNCHANGED <<prog, word, mark, callbacks, expired, tableVars, timerVars, schedVars, countVars>>

-----------------------------------------------------------------------------
\* The timer

expire(e) ==
  /\ e \notin expired
  /\ \/ e \in heap
     \/ \E a \in Actors : Awaits(a) /\ pc[a] # "new" /\ Call(a).timed /\ e = <<a, ip[a]>>
  /\ expired' = expired \cup {e}
  /\ UNCHANGED <<prog, ip, pc, word, mark, callbacks, tableVars, waking, timerVars, schedVars, countVars>>

timer_fire(e) ==
  /\ ~firing /\ e \in heap \cap expired
  /\ heap' = heap \ {e} /\ firing' = TRUE
  /\ waking' = [waking EXCEPT ![Timer] = WakeOf(prog[e[1]][e[2]].on)]
  /\ UNCHANGED <<progVars, tableVars, schedVars, countVars>>

timer_fired ==
  /\ WakeIsOver(Timer)
  /\ firing' = FALSE
  /\ waking' = [waking EXCEPT ![Timer] = NoWake]
  /\ UNCHANGED <<progVars, tableVars, heap, schedVars, countVars>>

-----------------------------------------------------------------------------
\* The scheduler

pop(w) ==
  /\ w \in started /\ cur[w] \in {"next", "called"} /\ ready # <<>>
  /\ ready' = Tail(ready)
  /\ switched' = TRUE /\ running' = running + 1
  /\ cur' = [cur EXCEPT ![w] = Head(ready)]
  /\ state' = [state EXCEPT ![Head(ready)] = "RUNNING"]
  /\ Goto(Head(ready), "run")
  /\ UNCHANGED <<prog, ip, word, mark, callbacks, expired, tableVars, waking, timerVars,
                 started, blocked, freed, countVars>>

pop_waits(w) ==
  /\ w \in started /\ cur[w] \in {"next", "called"} /\ ready = <<>>
  /\ cur' = [cur EXCEPT ![w] = "idle"]
  /\ UNCHANGED <<progVars, tableVars, waking, timerVars, state, ready, started, running, blocked, switched, freed,
                 countVars>>

\* The worker after the switch from a fiber that parks: a wake that came first
\* left the fiber WOKEN, and the worker puts it on the queue.
compare_exchange_mutant(f) == state' = [state EXCEPT ![f] = "PARKED"] /\ UNCHANGED ready
compare_exchange(f) ==
  \/ state[f] = "PARKING" /\ state' = [state EXCEPT ![f] = "PARKED"] /\ UNCHANGED ready
  \/ state[f] # "PARKING" /\ ready' = Append(ready, f) /\ UNCHANGED state

park(w) ==
  LET f == cur[w] IN
  /\ f \in Fibers /\ pc[f] = "park"
  /\ compare_exchange(f)
  /\ Goto(f, "parked")
  /\ cur' = [(IF state[f] = "PARKING" THEN cur ELSE notify_one) EXCEPT ![w] = "leaving"]
  /\ UNCHANGED <<prog, ip, word, mark, callbacks, expired, tableVars, waking, timerVars,
                 started, running, blocked, switched, freed, countVars>>

leave(w) ==
  /\ cur[w] = "leaving"
  /\ cur' = [cur EXCEPT ![w] = "next"]
  /\ running' = running - 1
  /\ UNCHANGED <<progVars, tableVars, waking, timerVars, state, ready, started, blocked, switched, freed, countVars>>

NoneIdle_mutant == \E v \in started : cur[v] = "idle"
NoneIdle == \A v \in started : cur[v] \notin {"idle", "called"}

\* A tick of the monitor.  It adds a worker when tasks are ready, no worker is idle,
\* and no worker switched to a task since the last tick.
monitor ==
  /\ switched' = FALSE
  /\ started' \in IF ~switched /\ NoneIdle /\ ready # <<>> /\ started # Workers
                   THEN {started \cup {w} : w \in Workers \ started}
                   ELSE {started}
  /\ UNCHANGED <<progVars, tableVars, waking, timerVars, state, ready, cur, running, blocked, freed, countVars>>

-----------------------------------------------------------------------------
\* The life of a task

spawn(a) ==
  /\ Doing(a, "spawn") /\ pc[On(a)] = "new"
  /\ Advance(a)
  /\ \/ /\ On(a) \in Fibers
        /\ pc' = [pc EXCEPT ![On(a)] = "ready"]
        /\ ready' = Append(ready, On(a)) /\ cur' = notify_one
        /\ UNCHANGED THREADS
     \/ /\ On(a) \in Threads
        /\ pc' = [pc EXCEPT ![On(a)] = "run"]
        /\ THREADS' = THREADS + 1
        /\ UNCHANGED <<ready, cur>>
  /\ UNCHANGED <<prog, word, mark, callbacks, expired, tableVars, waking, timerVars,
                 state, started, running, blocked, switched, freed, WAITING, progressed, watching>>

\* The end of the task's function: its done word, and the wake of its join.
task_ends(a) ==
  /\ a # Main /\ pc[a] = "run" /\ Over(a)
  /\ word' = [word EXCEPT ![a] = 1]
  /\ waking' = [waking EXCEPT ![a] = WakeOf(a)]
  /\ Goto(a, "waking")
  /\ UNCHANGED <<prog, ip, mark, callbacks, expired, tableVars, timerVars, schedVars, countVars>>

fiber_ended(w) ==
  LET f == cur[w] IN
  /\ f \in Fibers /\ Over(f) /\ WakeIsOver(f)
  /\ waking' = [waking EXCEPT ![f] = NoWake]
  /\ Goto(f, "ended")
  /\ cur' = [cur EXCEPT ![w] = "leaving"]
  /\ UNCHANGED <<prog, ip, word, mark, callbacks, expired, tableVars, timerVars,
                 state, ready, started, running, blocked, switched, freed, countVars>>

thread_ended(a) ==
  /\ a \in Threads /\ Over(a) /\ WakeIsOver(a)
  /\ waking' = [waking EXCEPT ![a] = NoWake]
  /\ Goto(a, "ended")
  /\ THREADS' = THREADS - 1 /\ progressed' = TRUE
  /\ UNCHANGED <<prog, ip, word, mark, callbacks, expired, tableVars, timerVars, schedVars, WAITING, watching>>

\* vx_tasks_end joins each task, and then drops the Box of its fiber.
free(a) ==
  /\ Doing(a, "free")
  /\ freed' = freed \cup ({On(a)} \cap Fibers)
  /\ Advance(a)
  /\ UNCHANGED <<prog, pc, word, mark, callbacks, expired, tableVars, waking, timerVars,
                 state, ready, cur, started, running, blocked, switched, countVars>>

vx_callback(a) ==
  /\ \/ Doing(a, "callback_enter") /\ callbacks' = [callbacks EXCEPT ![a] = @ + 1]
     \/ Doing(a, "callback_exit") /\ callbacks' = [callbacks EXCEPT ![a] = @ - 1]
  /\ Advance(a)
  /\ UNCHANGED <<prog, pc, word, mark, expired, tableVars, waking, timerVars, schedVars, countVars>>

-----------------------------------------------------------------------------
Act(a) ==
  \/ Await(a) \/ wait_check(a) \/ wait_fiber(a) \/ wake_at(a) \/ wait_thread_timed(a) \/ wait_thread(a)
  \/ Notified(a) \/ TimedOut(a)
  \/ signal(a) \/ cancel(a) \/ NextBucket(a) \/ WakeReturns(a)
  \/ spawn(a) \/ task_ends(a) \/ thread_ended(a) \/ free(a) \/ vx_callback(a)

DoWake(p) ==
  \/ wake_progress(p) \/ wake_under_the_lock(p) \/ wake_notify_all(p)
  \/ push(p) \/ \E f \in Fibers : sched_wake(p, f)

Work(w) == pop(w) \/ pop_waits(w) \/ park(w) \/ leave(w) \/ fiber_ended(w)

Entries == UNION {{<<a, i>> : i \in 1..Len(prog[a])} : a \in Actors}
RunTimer == (\E e \in Entries : expire(e) \/ timer_fire(e)) \/ timer_fired

Finished == Over(Main) /\ pc[Main] = "run" /\ UNCHANGED vars

Next ==
  \/ \E a \in Actors : Act(a) \/ Spurious(a)
  \/ \E p \in Wakers : DoWake(p)
  \/ \E w \in Workers : Work(w)
  \/ monitor \/ RunTimer
  \/ Finished

Spec == Init /\ [][Next]_vars

\* The OS runs every thread, and the mutex of a bucket starves no thread, even
\* one that competes with sleeps that end early again and again.
Fairness ==
  /\ \A a \in Actors : WF_vars(Act(a)) /\ SF_vars(wait_check(a) \/ Notified(a) \/ TimedOut(a))
  /\ \A p \in Wakers : WF_vars(DoWake(p)) /\ SF_vars(wake_under_the_lock(p))
  /\ \A w \in Workers : WF_vars(Work(w))
  /\ WF_vars(monitor) /\ WF_vars(RunTimer)

FairSpec == Spec /\ Fairness

-----------------------------------------------------------------------------
Places == {"new", "run", "wait", "commit", "arm", "park", "parked", "ready",
           "sleep", "notified", "waking", "ended"}

TypeOK ==
  /\ prog \in Programs
  /\ ip \in [Actors -> Nat \ {0}] /\ pc \in [Actors -> Places]
  /\ word \in [Words -> {0, 1}] /\ mark \in BOOLEAN /\ callbacks \in [Actors -> Int]
  /\ expired \subseteq Actors \X Nat
  /\ lock \in [Buckets -> Actors \cup {Nobody}]
  /\ fibers \in [Buckets -> SUBSET (Fibers \X Words)]
  /\ sleepers \in [Buckets -> SUBSET Threads]
  /\ blockedOn \in [Buckets -> Nat]
  /\ notes \in [Buckets -> SUBSET Actors]
  /\ woke \in [Actors -> BOOLEAN]
  /\ waking \in [Wakers -> [at : {"no", "progress", "take", "notify", "push"},
                            of : Words \cup {Nobody}, b : Buckets, hand : SUBSET Fibers,
                            push : Fibers \cup {Nobody}]]
  /\ heap \subseteq Actors \X Nat /\ firing \in BOOLEAN
  /\ state \in [Fibers -> {"RUNNING", "PARKING", "PARKED", "WOKEN"}]
  /\ ready \in Seq(Fibers)
  /\ cur \in [Workers -> Fibers \cup NoFiber]
  /\ started \subseteq Workers
  /\ running \in Nat /\ blocked \in Nat /\ switched \in BOOLEAN
  /\ freed \subseteq Fibers
  /\ THREADS \in Nat /\ WAITING \in Nat /\ progressed \in BOOLEAN /\ watching \in BOOLEAN

Queued(f)    == {i \in 1..Len(ready) : ready[i] = f}
Carriers(f)  == {w \in Workers : cur[w] = f}
Listed(f)    == {b \in Buckets : \E w \in Words : <<f, w>> \in fibers[b]}
HeldBy(f)    == {p \in Wakers : f \in waking[p].hand}
PushedBy(f)  == {p \in Wakers : waking[p].push = f}

\* A fiber has one owner: the queue, a worker, the list of one bucket or one waker.
\* Only a fiber that parks has a worker and a place to be woken from at once
\* (sched.rs: "A fiber is in at most one of them at once").
OneOwner ==
  \A f \in Fibers :
    LET off == Cardinality(Listed(f)) + Cardinality(HeldBy(f)) IN
    /\ Cardinality(Queued(f)) + Cardinality(Carriers(f)) + Cardinality(PushedBy(f)) <= 1
    /\ off <= 1
    /\ off = 1 => Queued(f) = {} /\ PushedBy(f) = {}
    /\ off = 1 /\ Carriers(f) # {} => state[f] = "PARKING"

\* sched::wake meets a fiber that is PARKING or PARKED (the other states are its unreachable!).
WakeMeetsAParkedFiber ==
  \A p \in Wakers : \A f \in waking[p].hand : state[f] \in {"PARKING", "PARKED"}

\* No fiber is lost: a PARKED fiber can still be woken, and a WOKEN one gets to the queue.
NoFiberIsLost ==
  \A f \in Fibers :
    /\ state[f] = "PARKED" => Listed(f) # {} \/ HeldBy(f) # {}
    /\ state[f] = "WOKEN" => Queued(f) # {} \/ Carriers(f) # {} \/ PushedBy(f) # {}

\* A wake that will still look at the list of the word's bucket.
WakeComes(w) ==
  \E p \in Wakers :
    LET early == waking[p].at \in {"progress", "take"} IN
    \/ early /\ waking[p].of \in {w, Nobody} /\ waking[p].b = BucketOf[w]
    \/ waking[p].at # "no" /\ waking[p].of = Nobody /\ waking[p].b < BucketOf[w]

\* No wake is lost: a waiter whose wait is over has a wake of its word on its way.
\* wait checks the word under the lock, and vx_wake_all and cancel come after the store.
NoLostWake ==
  \A a \in Actors :
    /\ \/ pc[a] \in {"sleep", "notified"} /\ ~woke[a]
       \/ a \in Fibers /\ Listed(a) # {}
    /\ word[On(a)] # 0 \/ (Call(a).or_cancel /\ mark)
    => WakeComes(On(a))

\* The counts that the deadlock watcher reads are the truth: the workers that run
\* a fiber, the fibers that block their worker, the threads, and the ones that wait.
CountsAreTrue ==
  /\ running = Cardinality({w \in Workers : cur[w] \in Fibers \cup {"leaving"}})
  /\ blocked = Cardinality({f \in Fibers : pc[f] \in {"sleep", "notified"} /\ ~woke[f]})
  /\ WAITING = Cardinality({t \in Threads : pc[t] \in {"sleep", "notified"} /\ ~woke[t]})
  /\ THREADS = Cardinality({t \in Threads : pc[t] \notin {"new", "ended"}})

\* Each waiter on a list has a note for the report, in the bucket of its word.
NotesAreTrue ==
  \A b \in Buckets :
    notes[b] = FibersOf(fibers[b]) \cup sleepers[b]
                 \cup {f \in Fibers : pc[f] \in {"sleep", "notified"} /\ ~woke[f] /\ Bkt(f) = b}

\* After the join of a task freed its fiber, nothing has the fiber, but for its
\* worker, which has only the address of its done word.
NoUseAfterFree ==
  \A f \in freed :
    /\ Queued(f) = {} /\ Listed(f) = {} /\ HeldBy(f) = {} /\ PushedBy(f) = {}
    /\ Carriers(f) # {} => pc[f] = "waking"

\* The runtime keeps the promise of WaitWord.  A waiter sleeps from its check under
\* the lock until it is off the list of fibers, or until the notify of its thread.
Asleep(a) == pc[a] \in {"commit", "sleep"} \/ (a \in Fibers /\ Listed(a) # {})
Promise == INSTANCE WaitWord
  WITH Callers <- Actors, AllWords <- Words, value <- word,
       asleep <- {<<a, On(a)>> : a \in {c \in Actors : Asleep(c)}},
       pending <- {w \in Words : word[w] = 1 /\ \E p \in Wakers :
                                   waking[p].of = w /\ waking[p].at \in {"progress", "take", "notify"}}

KeepsThePromise == Promise!WaitSpec

\* A wait ends when its word is set, and when its block is cancelled or its deadline passed.
EachWaitEnds ==
  \A a \in Actors : []<>~(pc[a] # "new" /\ Awaits(a) /\ Satisfied(a))

\* The program ends.
MainEnds == <>(Over(Main) /\ pc[Main] = "run")
=============================================================================
