------------------------- MODULE TaskRuntimeProofs --------------------------
(***************************************************************************)
(* For any number of fibers, threads, workers and words, and any programs  *)
(* of TaskRuntime: every step keeps the types of the variables; who owns   *)
(* each fiber follows from its state, the queue, the lists and the wakes   *)
(* in progress; a wake meets only a fiber that parks, no fiber is lost,    *)
(* none is used after its join frees it, no wake is lost, and the runtime  *)
(* implements WaitWord.                                                    *)
(***************************************************************************)
EXTENDS TaskRuntime, TLAPS

\* The first-order prover is the one to try, unless a leaf names another.
USE Zenon

\* The places of an actor inside a call of `wait`.
InWait == {"wait", "commit", "arm", "park", "parked", "sleep", "notified"}

AwaitAt(e) ==
  /\ e \in Actors \X Nat /\ e[2] \in 1..Len(prog[e[1]])
  /\ prog[e[1]][e[2]].op = "await"

\* The types of the variables, by group, with counts that could be below 0.
ProgTypes ==
  /\ prog \in Programs
  /\ ip \in [Actors -> Nat \ {0}] /\ pc \in [Actors -> Places]
  /\ word \in [Words -> {0, 1}] /\ callbacks \in [Actors -> Int]
  /\ expired \subseteq Actors \X Nat

TableTypes ==
  /\ lock \in [Buckets -> Actors \cup {Nobody}]
  /\ fibers \in [Buckets -> SUBSET (Fibers \X Words)]
  /\ sleepers \in [Buckets -> SUBSET Threads]
  /\ blockedOn \in [Buckets -> Int]
  /\ notes \in [Buckets -> SUBSET Actors]
  /\ woke \in [Actors -> BOOLEAN]

WakeCalls == [at : {"no", "progress", "take", "notify", "push"}, of : Words \cup {Nobody},
              b : Buckets, hand : SUBSET Fibers, push : Fibers \cup {Nobody}]

TimerTypes == heap \subseteq Actors \X Nat

SchedTypes ==
  /\ state \in [Fibers -> {"RUNNING", "PARKING", "PARKED", "WOKEN"}]
  /\ ready \in Seq(Fibers)
  /\ cur \in [Workers -> Fibers \cup NoFiber]
  /\ started \subseteq Workers
  /\ running \in Int /\ blocked \in Int
  /\ freed \subseteq Fibers

Flags ==
  /\ mark \in BOOLEAN /\ firing \in BOOLEAN /\ switched \in BOOLEAN
  /\ progressed \in BOOLEAN /\ watching \in BOOLEAN

Types ==
  /\ ProgTypes /\ TableTypes /\ waking \in [Wakers -> WakeCalls]
  /\ TimerTypes /\ SchedTypes

\* A place in a wait belongs to a call of it, and so does a deadline of the timer.
PlaceInv ==
  /\ \A a \in Actors : pc[a] \in InWait => Awaits(a)
  /\ \A e \in heap : AwaitAt(e)

USE DEF Actors, Tasks, Words, Buckets, Timer, Wakers, NoFiber

\* What the proofs use of the assumption on the constants.
LEMMA Constants ==
  /\ Main \in Threads /\ Fibers \cap Threads = {}
  /\ Timer \notin Actors /\ Nobody \notin Actors /\ Nobody \notin Words /\ Nobody \notin NoFiber
  /\ Actors \cap NoFiber = {} /\ Actors \cap UserWords = {}
  /\ StartWorkers \subseteq Workers
  /\ 1 \in Buckets /\ BucketOf \in [Words -> Buckets]
BY SMT, RuntimeAssumption

\* The sets of actors and of workers are finite, so they can be counted.
LEMMA Finite == IsFiniteSet(Fibers) /\ IsFiniteSet(Threads) /\ IsFiniteSet(Workers)
BY RuntimeAssumption

\* An actor whose program goes on is in a call with a word, a bucket and a task of the
\* right kind.
LEMMA CallType ==
  ASSUME Types, NEW a \in Actors, ~Over(a)
  PROVE  /\ prog[a] \in Seq(Calls) /\ ip[a] \in 1..Len(prog[a])
         /\ Call(a) \in Calls
         /\ Call(a).op \in {"await", "signal", "spawn", "free"} => On(a) \in Words /\ Bkt(a) \in Buckets
         /\ Call(a).op \in {"spawn", "free"} => On(a) \in Tasks
         /\ Call(a).op = "await" => Call(a).timed \in BOOLEAN
<1>1. prog[a] \in Seq(Calls) /\ ip[a] \in 1..Len(prog[a]) /\ Call(a) \in Calls
  BY SMT, RuntimeAssumption DEF Types, ProgTypes, Over, Call
<1>2. Call(a).op \in {"await", "signal", "spawn", "free"} => On(a) \in Words
  BY <1>1 DEF Calls, On
<1>3. Call(a).op \in {"spawn", "free"} => On(a) \in Tasks
  BY <1>1 DEF Calls, On
<1>4. Call(a).op = "await" => Call(a).timed \in BOOLEAN
  BY <1>1 DEF Calls
<1> QED BY <1>1, <1>2, <1>3, <1>4, Constants DEF Bkt

\* The variables have their types at the start.
LEMMA InitTypes == Init => Types /\ Flags /\ PlaceInv
<1> SUFFICES ASSUME Init PROVE Types /\ Flags /\ PlaceInv
  OBVIOUS
<1>1. ProgTypes
  BY SMT, Constants DEF Init, ProgTypes, Places
<1>2. TableTypes
  BY SMT DEF Init, TableTypes
<1>3. waking \in [Wakers -> WakeCalls]
  BY Constants DEF Init, WakeCalls, NoWake
<1>4. TimerTypes
  BY DEF Init, TimerTypes
<1>5. SchedTypes
  BY SMT, Constants DEF Init, SchedTypes
<1>6. PlaceInv
  BY DEF Init, PlaceInv, InWait
<1>7. Flags
  BY DEF Init, Flags
<1> QED BY <1>1, <1>2, <1>3, <1>4, <1>5, <1>6, <1>7 DEF Types

USE DEF progVars, tableVars, timerVars, schedVars, countVars, Goto, Advance, Doing

\* Every step keeps the types of the programs, the places and the words.
LEMMA ProgTypesStep ==
  ASSUME Types, PlaceInv, [Next]_vars
  PROVE  ProgTypes'
<1> USE DEF Types, ProgTypes, Places
<1>1. ASSUME NEW a \in Actors, Await(a) PROVE ProgTypes'
  BY SMT, <1>1 DEF Await
<1>2. ASSUME NEW a \in Actors, wait_check(a) PROVE ProgTypes'
  BY <1>2 DEF wait_check
<1>3. ASSUME NEW a \in Actors, wait_fiber(a) PROVE ProgTypes'
  BY <1>3 DEF wait_fiber
<1>4. ASSUME NEW a \in Actors, wake_at(a) PROVE ProgTypes'
  BY <1>4 DEF wake_at
<1>5. ASSUME NEW a \in Actors, wait_thread_timed(a) PROVE ProgTypes'
  BY <1>5 DEF wait_thread_timed
<1>6. ASSUME NEW a \in Actors, wait_thread(a) PROVE ProgTypes'
  BY <1>6 DEF wait_thread
<1>7. ASSUME NEW a \in Actors, Notified(a) PROVE ProgTypes'
  BY <1>7 DEF Notified, wait_return
<1>8. ASSUME NEW a \in Actors, TimedOut(a) PROVE ProgTypes'
  BY <1>8 DEF TimedOut, wait_return
<1>9. ASSUME NEW a \in Actors, Spurious(a) PROVE ProgTypes'
  BY <1>9 DEF Spurious, wait_return
<1>10. ASSUME NEW a \in Actors, signal(a) PROVE ProgTypes'
  BY <1>10, CallType, Constants DEF signal, Over
<1>11. ASSUME NEW a \in Actors, cancel(a) PROVE ProgTypes'
  BY <1>11 DEF cancel
<1>12. ASSUME NEW a \in Actors, WakeReturns(a) PROVE ProgTypes'
  BY SMT, <1>12 DEF WakeReturns
<1>13. ASSUME NEW a \in Actors, spawn(a) PROVE ProgTypes'
  <2>1. On(a) \in Actors /\ pc' \in [Actors -> Places]
    BY <1>13, CallType, Constants DEF spawn, Over
  <2> QED BY SMT, <1>13, <2>1 DEF spawn
<1>14. ASSUME NEW a \in Actors, task_ends(a) PROVE ProgTypes'
  BY <1>14, Constants DEF task_ends
<1>15. ASSUME NEW a \in Actors, thread_ended(a) PROVE ProgTypes'
  BY <1>15 DEF thread_ended
<1>16. ASSUME NEW a \in Actors, free(a) PROVE ProgTypes'
  BY SMT, <1>16 DEF free
<1>17. ASSUME NEW a \in Actors, vx_callback(a) PROVE ProgTypes'
  BY SMT, <1>17 DEF vx_callback
<1>18. ASSUME NEW p \in Wakers, wake_notify_all(p) PROVE ProgTypes'
  BY <1>18 DEF wake_notify_all
<1>19. ASSUME NEW w \in Workers, pop(w) PROVE ProgTypes'
  BY <1>19, Constants DEF pop, SchedTypes
<1>20. ASSUME NEW w \in Workers, park(w) PROVE ProgTypes'
  BY <1>20, Constants DEF park
<1>21. ASSUME NEW w \in Workers, fiber_ended(w) PROVE ProgTypes'
  BY <1>21, Constants DEF fiber_ended
<1>22. ASSUME NEW e \in Entries, expire(e) PROVE ProgTypes'
  BY SMT, <1>22 DEF expire, Entries
<1>23. ASSUME NEW a \in Actors, NextBucket(a) PROVE ProgTypes'
  BY <1>23 DEF NextBucket
<1>24. ASSUME NEW p \in Wakers, wake_progress(p) \/ wake_under_the_lock(p) \/ push(p) PROVE ProgTypes'
  BY <1>24 DEF wake_progress, wake_under_the_lock, push
<1>25. ASSUME NEW p \in Wakers, NEW f \in Fibers, sched_wake(p, f) PROVE ProgTypes'
  BY <1>25 DEF sched_wake
<1>26. ASSUME NEW w \in Workers, pop_waits(w) \/ leave(w) PROVE ProgTypes'
  BY <1>26 DEF pop_waits, leave
<1>27. ASSUME NEW e \in Entries, timer_fire(e) PROVE ProgTypes'
  BY <1>27 DEF timer_fire
<1>28. ASSUME timer_fired \/ monitor \/ Finished PROVE ProgTypes'
  BY <1>28 DEF timer_fired, monitor, Finished, vars
<1>29. CASE UNCHANGED vars
  BY <1>29 DEF vars
<1> QED
  BY <1>1, <1>2, <1>3, <1>4, <1>5, <1>6, <1>7, <1>8, <1>9, <1>10, <1>11, <1>12, <1>13, <1>14, <1>15, <1>16,
     <1>17, <1>18, <1>19, <1>20, <1>21, <1>22, <1>23, <1>24, <1>25, <1>26, <1>27, <1>28, <1>29
     DEF Next, Act, DoWake, Work, RunTimer

\* Every step keeps the types of the table of wait.rs.
LEMMA TableTypesStep ==
  ASSUME Types, PlaceInv, [Next]_vars
  PROVE  TableTypes'
<1> USE DEF TableTypes
<1>a. TableTypes
  BY DEF Types
<1>b. lock \in [Buckets -> Actors \cup {Nobody}]
  BY <1>a
<1>c. fibers \in [Buckets -> SUBSET (Fibers \X Words)]
  BY <1>a
<1>d. sleepers \in [Buckets -> SUBSET Threads] /\ blockedOn \in [Buckets -> Int]
  BY <1>a
<1>e. notes \in [Buckets -> SUBSET Actors] /\ woke \in [Actors -> BOOLEAN]
  BY <1>a
<1>f. ASSUME NEW a \in Actors, pc[a] \in InWait PROVE Bkt(a) \in Buckets
  BY <1>f, CallType DEF PlaceInv, Awaits
<1>1. ASSUME NEW a \in Actors, wait_check(a) PROVE TableTypes'
  <2>0. Bkt(a) \in Buckets
    BY <1>1, <1>f DEF wait_check, InWait
  <2>1. /\ lock' = lock \/ lock' = [lock EXCEPT ![Bkt(a)] = a]
        /\ UNCHANGED <<fibers, sleepers, blockedOn, notes, woke>>
    BY <1>1 DEF wait_check, Hold
  <2>2. lock' \in [Buckets -> Actors \cup {Nobody}]
    BY <1>b, <2>0, <2>1
  <2> QED BY <1>a, <2>1, <2>2
<1>2. ASSUME NEW a \in Actors, wait_fiber(a) PROVE TableTypes'
  <2>0. Bkt(a) \in Buckets
    BY <1>2, <1>f DEF wait_fiber, InWait
  <2>1. a \in Fibers /\ <<a, On(a)>> \in Fibers \X Words
    BY <1>2, CallType DEF wait_fiber, PlaceInv, InWait, Awaits, fiber_that_can_park
  <2>2. /\ lock' = [lock EXCEPT ![Bkt(a)] = Nobody]
        /\ fibers' = [fibers EXCEPT ![Bkt(a)] = @ \cup {<<a, On(a)>>}]
        /\ notes' = [notes EXCEPT ![Bkt(a)] = @ \cup {a}]
        /\ UNCHANGED <<sleepers, blockedOn, woke>>
    BY <1>2 DEF wait_fiber
  <2>3. fibers' \in [Buckets -> SUBSET (Fibers \X Words)]
    BY <1>c, <2>0, <2>1, <2>2
  <2>4. lock' \in [Buckets -> Actors \cup {Nobody}]
    BY <1>b, <2>0, <2>2
  <2>5. notes' \in [Buckets -> SUBSET Actors]
    BY <1>e, <2>0, <2>2
  <2> QED BY <1>a, <2>2, <2>3, <2>4, <2>5
<1>3. ASSUME NEW a \in Actors, wait_thread_timed(a) PROVE TableTypes'
  <2>0. Bkt(a) \in Buckets
    BY <1>3, <1>f DEF wait_thread_timed, InWait
  <2>1. lock' = [lock EXCEPT ![Bkt(a)] = Nobody] /\ UNCHANGED <<fibers, sleepers, blockedOn, notes, woke>>
    BY <1>3 DEF wait_thread_timed
  <2>2. lock' \in [Buckets -> Actors \cup {Nobody}]
    BY <1>b, <2>0, <2>1
  <2> QED BY <1>a, <2>1, <2>2
<1>4. ASSUME NEW a \in Actors, wait_thread(a) PROVE TableTypes'
  <2>0. Bkt(a) \in Buckets
    BY <1>4, <1>f DEF wait_thread, InWait
  <2>1. /\ lock' = [lock EXCEPT ![Bkt(a)] = Nobody]
        /\ woke' = [woke EXCEPT ![a] = FALSE]
        /\ notes' = [notes EXCEPT ![Bkt(a)] = @ \cup {a}]
        /\ UNCHANGED fibers
    BY <1>4 DEF wait_thread
  <2>2. blockedOn' = [blockedOn EXCEPT ![Bkt(a)] = @ + 1] \/ UNCHANGED blockedOn
    BY <1>4 DEF wait_thread
  <2>3. (a \in Threads /\ sleepers' = [sleepers EXCEPT ![Bkt(a)] = @ \cup {a}]) \/ UNCHANGED sleepers
    BY <1>4 DEF wait_thread
  <2>4. lock' \in [Buckets -> Actors \cup {Nobody}]
    BY <1>b, <2>0, <2>1
  <2>5. woke' \in [Actors -> BOOLEAN]
    BY <1>e, <2>0, <2>1
  <2>6. notes' \in [Buckets -> SUBSET Actors]
    BY <1>e, <2>0, <2>1
  <2>7. blockedOn' \in [Buckets -> Int]
    BY SMT, <1>d, <2>0, <2>2
  <2>8. sleepers' \in [Buckets -> SUBSET Threads]
    BY <1>d, <2>0, <2>3
  <2> QED BY <1>c, <2>1, <2>4, <2>5, <2>6, <2>7, <2>8
<1>5. ASSUME NEW a \in Actors, wait_return(a), pc[a] \in InWait PROVE TableTypes'
  <2>0. Bkt(a) \in Buckets
    BY <1>5, <1>f
  <2>1. Counted(a) \in Int
    BY SMT DEF Counted
  <2>2. UNCHANGED <<lock, fibers>>
    BY <1>5 DEF wait_return
  <2>3. blockedOn' = [blockedOn EXCEPT ![Bkt(a)] = @ - Counted(a)] \/ UNCHANGED blockedOn
    BY <1>5 DEF wait_return
  <2>4. sleepers' = [sleepers EXCEPT ![Bkt(a)] = @ \ {a}] \/ UNCHANGED sleepers
    BY <1>5 DEF wait_return
  <2>5. notes' = [notes EXCEPT ![Bkt(a)] = @ \ {a}] \/ UNCHANGED notes
    BY <1>5 DEF wait_return
  <2>6. woke' = [woke EXCEPT ![a] = TRUE]
    BY <1>5 DEF wait_return
  <2>7. blockedOn' \in [Buckets -> Int]
    BY SMT, <1>d, <2>0, <2>1, <2>3
  <2>8. sleepers' \in [Buckets -> SUBSET Threads]
    BY <1>d, <2>0, <2>4
  <2>9. notes' \in [Buckets -> SUBSET Actors]
    BY <1>e, <2>0, <2>5
  <2>10. woke' \in [Actors -> BOOLEAN]
    BY <1>e, <2>0, <2>6
  <2> QED BY <1>b, <1>c, <2>2, <2>7, <2>8, <2>9, <2>10
<1>6. ASSUME NEW a \in Actors, Notified(a) \/ TimedOut(a) \/ Spurious(a) PROVE TableTypes'
  BY <1>5, <1>6 DEF Notified, TimedOut, Spurious, InWait
<1>8. ASSUME NEW p \in Wakers, wake_under_the_lock(p) PROVE TableTypes'
  <2> DEFINE b == waking[p].b
             taken == take_fibers(b, waking[p].of)
             kept == keep_the_notes_of_parked_fibers(b, fibers[b] \ taken)
  <2>0. b \in Buckets
    BY DEF Types, WakeCalls
  <2>1. kept \subseteq notes[b]
    BY DEF keep_the_notes_of_parked_fibers
  <2> HIDE DEF taken, kept
  <2>2. /\ fibers' = [fibers EXCEPT ![b] = @ \ taken]
        /\ notes' = [notes EXCEPT ![b] = kept]
        /\ sleepers' = [sleepers EXCEPT ![b] = {}]
        /\ blockedOn' = [blockedOn EXCEPT ![b] = 0]
        /\ UNCHANGED lock
    BY <1>8 DEF wake_under_the_lock, taken, kept
  <2>3. woke' \in [Actors -> BOOLEAN]
    BY <1>8, <1>e DEF wake_under_the_lock
  <2> HIDE DEF b
  <2>4. fibers' \in [Buckets -> SUBSET (Fibers \X Words)]
    BY <1>c, <2>0, <2>2
  <2>5. notes' \in [Buckets -> SUBSET Actors]
    BY <1>e, <2>0, <2>1, <2>2
  <2>6. sleepers' \in [Buckets -> SUBSET Threads]
    BY <1>d, <2>0, <2>2
  <2>7. blockedOn' \in [Buckets -> Int]
    BY SMT, <1>d, <2>0, <2>2
  <2> QED BY <1>b, <2>2, <2>3, <2>4, <2>5, <2>6, <2>7
<1>9. ASSUME NEW a \in Actors, Await(a) \/ wake_at(a) \/ signal(a) \/ cancel(a) \/ NextBucket(a)
                               \/ WakeReturns(a) \/ spawn(a) \/ task_ends(a) \/ thread_ended(a)
                               \/ free(a) \/ vx_callback(a)
      PROVE  TableTypes'
  BY <1>a, <1>9 DEF Await, wake_at, signal, cancel, NextBucket, WakeReturns, spawn, task_ends, thread_ended,
                    free, vx_callback
<1>10. ASSUME NEW p \in Wakers, wake_progress(p) \/ wake_notify_all(p) \/ push(p) PROVE TableTypes'
  BY <1>a, <1>10 DEF wake_progress, wake_notify_all, push
<1>11. ASSUME NEW p \in Wakers, NEW f \in Fibers, sched_wake(p, f) PROVE TableTypes'
  BY <1>a, <1>11 DEF sched_wake
<1>12. ASSUME NEW w \in Workers, pop(w) \/ pop_waits(w) \/ park(w) \/ leave(w) \/ fiber_ended(w)
       PROVE  TableTypes'
  BY <1>a, <1>12 DEF pop, pop_waits, park, leave, fiber_ended
<1>13. ASSUME NEW e \in Entries, expire(e) \/ timer_fire(e) PROVE TableTypes'
  BY <1>a, <1>13 DEF expire, timer_fire
<1>14. ASSUME timer_fired \/ monitor \/ Finished PROVE TableTypes'
  BY <1>a, <1>14 DEF timer_fired, monitor, Finished, vars
<1>15. CASE UNCHANGED vars
  BY <1>a, <1>15 DEF vars
<1> QED
  BY <1>1, <1>2, <1>3, <1>4, <1>5, <1>6, <1>8, <1>9, <1>10, <1>11, <1>12, <1>13, <1>14, <1>15
     DEF Next, Act, DoWake, Work, RunTimer

\* A deadline of the heap is one of an await on a word.
LEMMA DeadlineWord ==
  ASSUME ProgTypes, PlaceInv, NEW e \in heap, e \in Entries
  PROVE  prog[e[1]][e[2]].on \in Words
<1>1. PICK a \in Actors : \E i \in 1..Len(prog[a]) : e = <<a, i>>
  BY DEF Entries
<1>2. PICK i \in 1..Len(prog[a]) : e = <<a, i>>
  BY <1>1
<1>3. prog[a] \in Seq(Calls)
  BY SMT, RuntimeAssumption DEF ProgTypes
<1>4. prog[a][i] \in Calls
  BY SMT, <1>3
<1>5. prog[a][i].op = "await"
  BY <1>2 DEF PlaceInv, AwaitAt
<1> QED BY <1>2, <1>4, <1>5 DEF Calls

\* Every step keeps the types of the calls of `wake`.
LEMMA WakingTypesStep ==
  ASSUME Types, PlaceInv, [Next]_vars
  PROVE  (waking \in [Wakers -> WakeCalls])'
<1> USE Constants DEF Types, WakeCalls
<1>1. ASSUME NEW a \in Actors, signal(a) PROVE (waking \in [Wakers -> WakeCalls])'
  BY <1>1, CallType, Constants DEF signal, WakeOf, Over
<1>2. ASSUME NEW a \in Actors, cancel(a) PROVE (waking \in [Wakers -> WakeCalls])'
  BY <1>2 DEF cancel, WakeEvery
<1>3. ASSUME NEW a \in Actors, NextBucket(a) PROVE (waking \in [Wakers -> WakeCalls])'
  BY <1>3 DEF NextBucket, WakeEvery
<1>4. ASSUME NEW a \in Actors, WakeReturns(a) PROVE (waking \in [Wakers -> WakeCalls])'
  BY <1>4 DEF WakeReturns, NoWake
<1>5. ASSUME NEW a \in Actors, task_ends(a) PROVE (waking \in [Wakers -> WakeCalls])'
  BY <1>5 DEF task_ends, WakeOf
<1>6. ASSUME NEW a \in Actors, thread_ended(a) PROVE (waking \in [Wakers -> WakeCalls])'
  BY <1>6 DEF thread_ended, NoWake
<1>7. ASSUME NEW p \in Wakers, wake_progress(p) PROVE (waking \in [Wakers -> WakeCalls])'
  BY SMT, <1>7 DEF wake_progress
<1>8. ASSUME NEW p \in Wakers, wake_under_the_lock(p) PROVE (waking \in [Wakers -> WakeCalls])'
  <2>1. FibersOf(take_fibers(waking[p].b, waking[p].of)) \subseteq Fibers
    BY SMT DEF FibersOf, take_fibers, TableTypes
  <2>2. waking' = [waking EXCEPT ![p].at = "notify", ![p].hand = FibersOf(take_fibers(waking[p].b, waking[p].of))]
    BY <1>8 DEF wake_under_the_lock
  <2> QED BY SMT, <2>1, <2>2
<1>9. ASSUME NEW p \in Wakers, wake_notify_all(p) PROVE (waking \in [Wakers -> WakeCalls])'
  BY SMT, <1>9 DEF wake_notify_all
<1>10. ASSUME NEW p \in Wakers, push(p) PROVE (waking \in [Wakers -> WakeCalls])'
  <2>1. waking' = [waking EXCEPT ![p].push = Nobody]
    BY <1>10 DEF push
  <2> QED BY SMT, <2>1
<1>11. ASSUME NEW p \in Wakers, NEW f \in Fibers, sched_wake(p, f) PROVE (waking \in [Wakers -> WakeCalls])'
  BY SMT, <1>11 DEF sched_wake, ToPush
<1>12. ASSUME NEW w \in Workers, fiber_ended(w) PROVE (waking \in [Wakers -> WakeCalls])'
  BY <1>12 DEF fiber_ended, NoWake
<1>13. ASSUME NEW e \in Entries, timer_fire(e) PROVE (waking \in [Wakers -> WakeCalls])'
  <2>1. e \in heap
    BY <1>13 DEF timer_fire
  <2>3. prog[e[1]][e[2]].on \in Words
    BY <2>1, DeadlineWord
  <2> QED BY <1>13, <2>3 DEF timer_fire, WakeOf
<1>14. ASSUME timer_fired PROVE (waking \in [Wakers -> WakeCalls])'
  BY <1>14 DEF timer_fired, NoWake
<1>15. ASSUME NEW a \in Actors, Await(a) \/ wait_check(a) \/ wait_fiber(a) \/ wake_at(a)
                                \/ wait_thread_timed(a) \/ wait_thread(a) \/ Notified(a)
                                \/ TimedOut(a) \/ Spurious(a) \/ spawn(a) \/ free(a) \/ vx_callback(a)
       PROVE  (waking \in [Wakers -> WakeCalls])'
  BY <1>15 DEF Await, wait_check, wait_fiber, wake_at, wait_thread_timed, wait_thread, Notified, TimedOut,
               Spurious, spawn, free, vx_callback, wait_return
<1>16. ASSUME NEW w \in Workers, pop(w) \/ pop_waits(w) \/ park(w) \/ leave(w)
       PROVE  (waking \in [Wakers -> WakeCalls])'
  BY <1>16 DEF pop, pop_waits, park, leave
<1>17. ASSUME NEW e \in Entries, expire(e) PROVE (waking \in [Wakers -> WakeCalls])'
  BY <1>17 DEF expire
<1>18. ASSUME monitor \/ Finished PROVE (waking \in [Wakers -> WakeCalls])'
  BY <1>18 DEF monitor, Finished, vars
<1>19. CASE UNCHANGED vars
  BY <1>19 DEF vars
<1> QED
  BY <1>1, <1>2, <1>3, <1>4, <1>5, <1>6, <1>7, <1>8, <1>9, <1>10, <1>11, <1>12, <1>13, <1>14, <1>15, <1>16,
     <1>17, <1>18, <1>19 DEF Next, Act, DoWake, Work, RunTimer

\* The return of a wait keeps the types of the scheduler.
LEMMA ReturnTypes ==
  ASSUME SchedTypes, NEW a \in Actors, wait_return(a)
  PROVE  SchedTypes'
<1>1. Counted(a) \in Int
  BY SMT DEF Counted
<1>2. blocked' = blocked - Counted(a) \/ blocked' = blocked
  BY DEF wait_return
<1>3. blocked' \in Int
  BY SMT, <1>1, <1>2 DEF SchedTypes
<1>4. UNCHANGED <<state, ready, cur, started, running, freed>>
  BY DEF wait_return
<1> QED BY <1>3, <1>4 DEF SchedTypes

\* Every step keeps the types of the scheduler.
LEMMA SchedTypesStep ==
  ASSUME Types, PlaceInv, [Next]_vars
  PROVE  SchedTypes'
<1> USE Constants DEF Types, SchedTypes
<1>1. ASSUME NEW a \in Actors, wait_fiber(a) PROVE SchedTypes'
  BY <1>1 DEF wait_fiber, will_park
<1>2. ASSUME NEW a \in Actors, wait_thread(a) PROVE SchedTypes'
  BY SMT, <1>2 DEF wait_thread
<1>3. ASSUME NEW a \in Actors, Notified(a) PROVE SchedTypes'
  <2>1. wait_return(a)
    BY <1>3 DEF Notified
  <2> QED BY <2>1, ReturnTypes
<1>4. ASSUME NEW a \in Actors, TimedOut(a) PROVE SchedTypes'
  <2>1. wait_return(a)
    BY <1>4 DEF TimedOut
  <2> QED BY <2>1, ReturnTypes
<1>5. ASSUME NEW a \in Actors, Spurious(a) PROVE SchedTypes'
  <2>1. wait_return(a)
    BY <1>5 DEF Spurious
  <2> QED BY <2>1, ReturnTypes
<1>6. ASSUME NEW a \in Actors, spawn(a) PROVE SchedTypes'
  <2>1. notify_one \in [Workers -> Fibers \cup NoFiber]
    BY DEF notify_one
  <2>2. ready' \in Seq(Fibers)
    <3>1. CASE On(a) \in Fibers /\ ready' = Append(ready, On(a))
      BY SMT, <3>1
    <3>2. CASE UNCHANGED ready
      BY <3>2
    <3> QED BY <1>6, <3>1, <3>2 DEF spawn
  <2> QED BY <1>6, <2>1, <2>2 DEF spawn
<1>7. ASSUME NEW a \in Actors, free(a) PROVE SchedTypes'
  BY <1>7 DEF free
<1>8. ASSUME NEW p \in Wakers, wake_under_the_lock(p) PROVE SchedTypes'
  <2>1. UNCHANGED <<state, ready, cur, started, running, freed>>
    BY <1>8 DEF wake_under_the_lock
  <2>2. waking[p].b \in Buckets
    BY DEF WakeCalls
  <2>3. unblocked(waking[p].b) \in Int
    BY SMT, <2>2 DEF unblocked, TableTypes
  <2>4. blocked' \in Int
    BY <1>8, <2>3 DEF wake_under_the_lock
  <2> QED BY <2>1, <2>4
<1>9. ASSUME NEW p \in Wakers, push(p) PROVE SchedTypes'
  BY SMT, <1>9 DEF push, notify_one, WakeCalls
<1>10. ASSUME NEW p \in Wakers, NEW f \in Fibers, sched_wake(p, f) PROVE SchedTypes'
  BY <1>10 DEF sched_wake
<1>11. ASSUME NEW w \in Workers, pop(w) PROVE SchedTypes'
  BY SMT, <1>11 DEF pop
<1>12. ASSUME NEW w \in Workers, pop_waits(w) PROVE SchedTypes'
  BY <1>12 DEF pop_waits
<1>13. ASSUME NEW w \in Workers, park(w) PROVE SchedTypes'
  <2>1. notify_one \in [Workers -> Fibers \cup NoFiber]
    BY DEF notify_one
  <2>2. cur' \in [Workers -> Fibers \cup NoFiber] /\ UNCHANGED <<started, running, blocked, freed>>
    BY <1>13, <2>1 DEF park
  <2>3. ready' \in Seq(Fibers) /\ state' \in [Fibers -> {"RUNNING", "PARKING", "PARKED", "WOKEN"}]
    <3>1. cur[w] \in Fibers /\ compare_exchange(cur[w])
      BY <1>13 DEF park
    <3>2. Append(ready, cur[w]) \in Seq(Fibers)
      BY SMT, <3>1
    <3> QED BY <3>1, <3>2 DEF compare_exchange
  <2> QED BY <2>2, <2>3
<1>14. ASSUME NEW w \in Workers, leave(w) PROVE SchedTypes'
  BY SMT, <1>14 DEF leave
<1>15. ASSUME monitor PROVE SchedTypes'
  BY SMT, <1>15 DEF monitor
<1>16. ASSUME NEW a \in Actors, Await(a) \/ wait_check(a) \/ wake_at(a) \/ wait_thread_timed(a)
                                \/ signal(a) \/ cancel(a) \/ NextBucket(a) \/ WakeReturns(a)
                                \/ task_ends(a) \/ thread_ended(a) \/ vx_callback(a)
       PROVE  SchedTypes'
  BY <1>16 DEF Await, wait_check, wake_at, wait_thread_timed, signal, cancel, NextBucket, WakeReturns,
               task_ends, thread_ended, vx_callback
<1>17. ASSUME NEW p \in Wakers, wake_progress(p) \/ wake_notify_all(p) PROVE SchedTypes'
  BY <1>17 DEF wake_progress, wake_notify_all
<1>18. ASSUME NEW w \in Workers, fiber_ended(w) PROVE SchedTypes'
  BY <1>18 DEF fiber_ended
<1>19. ASSUME NEW e \in Entries, expire(e) \/ timer_fire(e) PROVE SchedTypes'
  BY <1>19 DEF expire, timer_fire
<1>20. ASSUME timer_fired \/ Finished PROVE SchedTypes'
  BY <1>20 DEF timer_fired, Finished, vars
<1>21. CASE UNCHANGED vars
  BY <1>21 DEF vars
<1> QED
  BY <1>1, <1>2, <1>3, <1>4, <1>5, <1>6, <1>7, <1>8, <1>9, <1>10, <1>11, <1>12, <1>13, <1>14, <1>15, <1>16,
     <1>17, <1>18, <1>19, <1>20, <1>21 DEF Next, Act, DoWake, Work, RunTimer

\* Every step keeps an actor inside `wait` at an await, and each deadline of the heap one
\* of an await.
LEMMA PlaceInvStep ==
  ASSUME Types, PlaceInv, [Next]_vars
  PROVE  PlaceInv' /\ TimerTypes'
<1> USE DEF Types, ProgTypes, PlaceInv, TimerTypes, InWait, Awaits, Over, Call, AwaitAt, Places
<1>1. ASSUME NEW a \in Actors, Await(a) PROVE PlaceInv' /\ TimerTypes'
  BY <1>1 DEF Await
<1>2. ASSUME NEW a \in Actors, wait_check(a) PROVE PlaceInv' /\ TimerTypes'
  BY <1>2 DEF wait_check
<1>3. ASSUME NEW a \in Actors, wait_fiber(a) PROVE PlaceInv' /\ TimerTypes'
  BY <1>3 DEF wait_fiber
<1>4. ASSUME NEW a \in Actors, wake_at(a) PROVE PlaceInv' /\ TimerTypes'
  <2>1. /\ pc[a] = "arm" /\ pc' = [pc EXCEPT ![a] = "park"] /\ UNCHANGED <<prog, ip>>
        /\ heap' = heap \cup {<<a, ip[a]>>}
    BY <1>4 DEF wake_at, Goto
  <2>2. Awaits(a)
    BY <2>1
  <2>3. ip[a] \in 1..Len(prog[a])
    BY <2>2, CallType
  <2>4. <<a, ip[a]>> \in Actors \X Nat
    BY <2>3
  <2>5. AwaitAt(<<a, ip[a]>>)
    BY <2>2, <2>3, <2>4
  <2>6. \A b \in Actors : pc'[b] \in InWait => Awaits(b)'
    BY <2>1, <2>2
  <2>7. \A e \in heap' : AwaitAt(e)'
    BY <2>1, <2>5
  <2>8. TimerTypes'
    BY <2>1, <2>4
  <2> QED BY <2>6, <2>7, <2>8
<1>5. ASSUME NEW a \in Actors, wait_thread_timed(a) PROVE PlaceInv' /\ TimerTypes'
  BY <1>5 DEF wait_thread_timed
<1>6. ASSUME NEW a \in Actors, wait_thread(a) PROVE PlaceInv' /\ TimerTypes'
  BY <1>6 DEF wait_thread
<1>7. ASSUME NEW a \in Actors, Notified(a) PROVE PlaceInv' /\ TimerTypes'
  BY <1>7 DEF Notified, wait_return
<1>8. ASSUME NEW a \in Actors, TimedOut(a) PROVE PlaceInv' /\ TimerTypes'
  BY <1>8 DEF TimedOut, wait_return
<1>9. ASSUME NEW a \in Actors, Spurious(a) PROVE PlaceInv' /\ TimerTypes'
  BY <1>9 DEF Spurious, wait_return
<1>10. ASSUME NEW a \in Actors, signal(a) PROVE PlaceInv' /\ TimerTypes'
  BY <1>10 DEF signal
<1>11. ASSUME NEW a \in Actors, cancel(a) PROVE PlaceInv' /\ TimerTypes'
  BY <1>11 DEF cancel
<1>12. ASSUME NEW a \in Actors, WakeReturns(a) PROVE PlaceInv' /\ TimerTypes'
  BY <1>12 DEF WakeReturns
<1>13. ASSUME NEW a \in Actors, spawn(a) PROVE PlaceInv' /\ TimerTypes'
  BY <1>13 DEF spawn
<1>14. ASSUME NEW a \in Actors, task_ends(a) PROVE PlaceInv' /\ TimerTypes'
  BY <1>14 DEF task_ends
<1>15. ASSUME NEW a \in Actors, thread_ended(a) PROVE PlaceInv' /\ TimerTypes'
  BY <1>15 DEF thread_ended
<1>16. ASSUME NEW a \in Actors, free(a) PROVE PlaceInv' /\ TimerTypes'
  BY <1>16 DEF free
<1>17. ASSUME NEW a \in Actors, vx_callback(a) PROVE PlaceInv' /\ TimerTypes'
  BY <1>17 DEF vx_callback
<1>18. ASSUME NEW p \in Wakers, wake_notify_all(p) PROVE PlaceInv' /\ TimerTypes'
  BY <1>18 DEF wake_notify_all
<1>19. ASSUME NEW w \in Workers, pop(w) PROVE PlaceInv' /\ TimerTypes'
  BY <1>19 DEF pop
<1>20. ASSUME NEW w \in Workers, park(w) PROVE PlaceInv' /\ TimerTypes'
  BY <1>20 DEF park
<1>21. ASSUME NEW w \in Workers, fiber_ended(w) PROVE PlaceInv' /\ TimerTypes'
  BY <1>21 DEF fiber_ended
<1>22. ASSUME NEW e \in Entries, timer_fire(e) PROVE PlaceInv' /\ TimerTypes'
  BY <1>22 DEF timer_fire
<1>23. ASSUME NEW a \in Actors, NextBucket(a) PROVE PlaceInv' /\ TimerTypes'
  BY <1>23 DEF NextBucket
<1>24. ASSUME NEW p \in Wakers, wake_progress(p) \/ wake_under_the_lock(p) \/ push(p)
       PROVE  PlaceInv' /\ TimerTypes'
  BY <1>24 DEF wake_progress, wake_under_the_lock, push
<1>25. ASSUME NEW p \in Wakers, NEW f \in Fibers, sched_wake(p, f) PROVE PlaceInv' /\ TimerTypes'
  BY <1>25 DEF sched_wake
<1>26. ASSUME NEW w \in Workers, pop_waits(w) \/ leave(w) PROVE PlaceInv' /\ TimerTypes'
  BY <1>26 DEF pop_waits, leave
<1>27. ASSUME NEW e \in Entries, expire(e) PROVE PlaceInv' /\ TimerTypes'
  BY <1>27 DEF expire
<1>28. ASSUME timer_fired \/ monitor \/ Finished PROVE PlaceInv' /\ TimerTypes'
  BY <1>28 DEF timer_fired, monitor, Finished, vars
<1>29. CASE UNCHANGED vars
  BY <1>29 DEF vars
<1> QED
  BY <1>1, <1>2, <1>3, <1>4, <1>5, <1>6, <1>7, <1>8, <1>9, <1>10, <1>11, <1>12, <1>13, <1>14, <1>15, <1>16,
     <1>17, <1>18, <1>19, <1>20, <1>21, <1>22, <1>23, <1>24, <1>25, <1>26, <1>27, <1>28, <1>29
     DEF Next, Act, DoWake, Work, RunTimer

\* Every step keeps the flags Boolean.
LEMMA FlagsStep ==
  ASSUME Flags, [Next]_vars
  PROVE  Flags'
<1> USE DEF Flags
<1>1. ASSUME NEW a \in Actors, wait_fiber(a) PROVE Flags'
  BY <1>1 DEF wait_fiber
<1>2. ASSUME NEW a \in Actors, wait_thread(a) PROVE Flags'
  BY <1>2 DEF wait_thread
<1>3. ASSUME NEW a \in Actors, Notified(a) PROVE Flags'
  BY <1>3 DEF Notified, wait_return
<1>4. ASSUME NEW a \in Actors, TimedOut(a) PROVE Flags'
  BY <1>4 DEF TimedOut, wait_return
<1>5. ASSUME NEW a \in Actors, Spurious(a) PROVE Flags'
  BY <1>5 DEF Spurious, wait_return
<1>6. ASSUME NEW a \in Actors, cancel(a) PROVE Flags'
  BY <1>6 DEF cancel
<1>7. ASSUME NEW a \in Actors, thread_ended(a) PROVE Flags'
  BY <1>7 DEF thread_ended
<1>8. ASSUME NEW p \in Wakers, wake_progress(p) PROVE Flags'
  BY <1>8 DEF wake_progress
<1>9. ASSUME NEW p \in Wakers, wake_under_the_lock(p) PROVE Flags'
  BY <1>9 DEF wake_under_the_lock
<1>10. ASSUME NEW w \in Workers, pop(w) PROVE Flags'
  BY <1>10 DEF pop
<1>11. ASSUME NEW e \in Entries, timer_fire(e) PROVE Flags'
  BY <1>11 DEF timer_fire
<1>12. ASSUME timer_fired PROVE Flags'
  BY <1>12 DEF timer_fired
<1>13. ASSUME monitor PROVE Flags'
  BY <1>13 DEF monitor
<1>14. ASSUME Finished PROVE Flags'
  BY <1>14 DEF Finished, vars
<1>15. ASSUME NEW a \in Actors, Await(a) \/ wait_check(a) \/ wake_at(a) \/ wait_thread_timed(a)
                                \/ signal(a) \/ NextBucket(a) \/ WakeReturns(a) \/ spawn(a)
                                \/ task_ends(a) \/ free(a) \/ vx_callback(a)
       PROVE  Flags'
  BY <1>15 DEF Await, wait_check, wake_at, wait_thread_timed, signal, NextBucket, WakeReturns, spawn, task_ends,
               free, vx_callback
<1>16. ASSUME NEW p \in Wakers, wake_notify_all(p) \/ push(p) PROVE Flags'
  BY <1>16 DEF wake_notify_all, push
<1>17. ASSUME NEW p \in Wakers, NEW f \in Fibers, sched_wake(p, f) PROVE Flags'
  BY <1>17 DEF sched_wake
<1>18. ASSUME NEW w \in Workers, pop_waits(w) \/ park(w) \/ leave(w) \/ fiber_ended(w) PROVE Flags'
  BY <1>18 DEF pop_waits, park, leave, fiber_ended
<1>19. ASSUME NEW e \in Entries, expire(e) PROVE Flags'
  BY <1>19 DEF expire
<1>20. CASE UNCHANGED vars
  BY <1>20 DEF vars
<1> QED
  BY <1>1, <1>2, <1>3, <1>4, <1>5, <1>6, <1>7, <1>8, <1>9, <1>10, <1>11, <1>12, <1>13, <1>14, <1>15, <1>16,
     <1>17, <1>18, <1>19, <1>20 DEF Next, Act, DoWake, Work, RunTimer

\* Every step keeps all of the types.
LEMMA TypesStep ==
  ASSUME Types, Flags, PlaceInv, [Next]_vars
  PROVE  Types' /\ Flags' /\ PlaceInv'
BY ProgTypesStep, TableTypesStep, WakingTypesStep, SchedTypesStep, PlaceInvStep, FlagsStep DEF Types

-----------------------------------------------------------------------------
\* The inductive invariant: who owns each fiber.

\* A waker has fibers in its hand only after it took them, and a `wake` is in the
\* call of an actor that is "waking", or of the timer that fires.
WakeInv ==
  /\ \A a \in Actors : waking[a].at = "no" <=> pc[a] # "waking"
  /\ waking[Timer].at = "no" <=> ~firing
  /\ \A p \in Wakers : waking[p].at \in {"no", "progress", "take"} => waking[p].hand = {}
  /\ \A p \in Wakers : waking[p].at # "push" => waking[p].push = Nobody

\* The state of a fiber at each place.
StateInv ==
  \A f \in Fibers :
    /\ pc[f] \in {"arm", "park"} => state[f] \in {"PARKING", "WOKEN"}
    /\ pc[f] = "parked" => state[f] \in {"PARKED", "WOKEN"}
    /\ pc[f] \notin {"arm", "park", "parked"} => state[f] = "RUNNING"

\* The places of a fiber that is on a worker.
Aboard == {"run", "wait", "commit", "arm", "park", "sleep", "notified", "waking"}

CarryInv ==
  /\ \A w \in Workers : cur[w] \in Fibers => pc[cur[w]] \in Aboard
  /\ \A v, w \in Workers : cur[w] \in Fibers /\ cur[v] = cur[w] => v = w
  /\ \A f \in Fibers : pc[f] \in Aboard => \E w \in Workers : cur[w] = f

In(f, q) == \E i \in 1..Len(q) : q[i] = f
Once(q)  == \A i, j \in 1..Len(q) : q[i] = q[j] => i = j

QueueInv ==
  /\ Once(ready)
  /\ \A f \in Fibers : In(f, ready) => pc[f] = "ready" \/ (pc[f] = "parked" /\ state[f] = "WOKEN")

ListInv ==
  \A b \in Buckets : \A e \in fibers[b] :
    /\ state[e[1]] \in {"PARKING", "PARKED"}
    /\ e[2] = On(e[1]) /\ b = Bkt(e[1])

HandInv ==
  \A p \in Wakers : \A f \in waking[p].hand :
    /\ state[f] \in {"PARKING", "PARKED"}
    /\ \A b \in Buckets : \A e \in fibers[b] : e[1] # f
    /\ \A q \in Wakers : f \in waking[q].hand => q = p

PushInv ==
  \A p \in Wakers : waking[p].push # Nobody =>
    /\ pc[waking[p].push] = "parked" /\ state[waking[p].push] = "WOKEN"
    /\ ~In(waking[p].push, ready)
    /\ \A q \in Wakers : waking[q].push = waking[p].push => q = p

OnList(f) == \E b \in Buckets : \E e \in fibers[b] : e[1] = f
InHand(f) == \E p \in Wakers : f \in waking[p].hand
Pushed(f) == \E p \in Wakers : waking[p].push = f

\* Each fiber that parks is where a wake finds it, or on its way to the queue.
FoundInv ==
  \A f \in Fibers :
    /\ state[f] \in {"PARKING", "PARKED"} => OnList(f) \/ InHand(f)
    /\ state[f] = "WOKEN" /\ pc[f] = "parked" => In(f, ready) \/ Pushed(f)

\* The inductive invariant of ownership.
OwnInv ==
  /\ WakeInv /\ StateInv /\ CarryInv /\ QueueInv /\ ListInv /\ HandInv /\ PushInv /\ FoundInv

\* A fiber put at the end of a queue that has it nowhere is on the queue once.
LEMMA QueueAppend ==
  ASSUME NEW S, NEW q \in Seq(S), NEW f \in S
  PROVE  /\ Once(q) /\ ~In(f, q) => Once(Append(q, f))
         /\ \A g : In(g, Append(q, f)) <=> In(g, q) \/ g = f
BY SMT DEF Once, In

\* The fiber at the head of a queue that has each fiber once is not in the rest.
LEMMA QueueTail ==
  ASSUME NEW S, NEW q \in Seq(S), q # <<>>
  PROVE  /\ Head(q) \in S /\ In(Head(q), q)
         /\ Once(q) => Once(Tail(q)) /\ ~In(Head(q), Tail(q))
         /\ \A g : In(g, q) <=> In(g, Tail(q)) \/ g = Head(q)
<1>1. /\ Head(q) = q[1] /\ 1 \in 1..Len(q) /\ Len(q) \in Nat
      /\ Tail(q) \in Seq(S) /\ Len(Tail(q)) = Len(q) - 1 /\ \A i \in 1..Len(Tail(q)) : Tail(q)[i] = q[i + 1]
  BY SMT
<1>2. Head(q) \in S /\ In(Head(q), q)
  BY SMT, <1>1 DEF In
<1>3. Once(q) => Once(Tail(q))
  BY SMT, <1>1 DEF Once
<1>4. Once(q) => ~In(Head(q), Tail(q))
  BY SMT, <1>1 DEF Once, In
<1>5. ASSUME NEW g, In(g, q) PROVE In(g, Tail(q)) \/ g = Head(q)
  <2>1. PICK i \in 1..Len(q) : q[i] = g
    BY <1>5 DEF In
  <2>2. CASE i = 1
    BY <1>1, <2>1, <2>2
  <2>3. CASE i # 1
    <3>1. i - 1 \in 1..Len(Tail(q)) /\ Tail(q)[i - 1] = g
      BY SMT, <1>1, <2>1, <2>3
    <3> QED BY <3>1 DEF In
  <2> QED BY <2>2, <2>3
<1>6. ASSUME NEW g, In(g, Tail(q)) PROVE In(g, q)
  <2>1. PICK i \in 1..Len(Tail(q)) : Tail(q)[i] = g
    BY <1>6 DEF In
  <2>2. i + 1 \in 1..Len(q) /\ q[i + 1] = g
    BY SMT, <1>1, <2>1
  <2> QED BY <2>2 DEF In
<1> QED BY <1>2, <1>3, <1>4, <1>5, <1>6

\* notify_one changes the place of an idle worker only.
LEMMA NotifyOne ==
  ASSUME Types
  PROVE  /\ notify_one \in [Workers -> Fibers \cup NoFiber]
         /\ \A w \in Workers : notify_one[w] = cur[w] \/ (cur[w] = "idle" /\ notify_one[w] = "called")
BY Constants DEF notify_one, Types, SchedTypes

\* What a step keeps for the hands of the wakers when no waker takes or gives a fiber.
LEMMA HandKept ==
  ASSUME HandInv,
         \A p \in Wakers : waking'[p].hand = waking[p].hand,
         \A p \in Wakers : \A f \in waking[p].hand : state'[f] \in {"PARKING", "PARKED"},
         \A p \in Wakers : \A f \in waking[p].hand : \A b \in Buckets : \A e \in fibers'[b] : e[1] # f
  PROVE  HandInv'
BY DEF HandInv

\* What a step keeps for the pushes of the wakers when none begins or ends.
LEMMA PushKept ==
  ASSUME PushInv,
         \A p \in Wakers : waking'[p].push = waking[p].push,
         \A p \in Wakers : waking[p].push # Nobody =>
           /\ pc'[waking[p].push] = "parked" /\ state'[waking[p].push] = "WOKEN"
           /\ ~In(waking[p].push, ready')
  PROVE  PushInv'
BY SMT DEF PushInv

\* A waker pushes only fibers that are parked, woken and not on the queue.
LEMMA PushedFibers ==
  ASSUME Types, OwnInv
  PROVE  \A p \in Wakers : waking[p].push # Nobody =>
           /\ waking[p].push \in Fibers /\ pc[waking[p].push] = "parked"
           /\ state[waking[p].push] = "WOKEN" /\ ~In(waking[p].push, ready)
<1>1. \A p \in Wakers : waking[p].push \in Fibers \cup {Nobody}
  BY DEF Types, WakeCalls
<1>2. PushInv
  BY DEF OwnInv
<1> QED BY <1>1, <1>2 DEF PushInv

\* A waker holds only fibers, which park and are off the lists.
LEMMA HeldFibers ==
  ASSUME Types, OwnInv
  PROVE  \A p \in Wakers : \A f \in waking[p].hand :
           /\ f \in Fibers /\ state[f] \in {"PARKING", "PARKED"}
           /\ \A b \in Buckets : \A e \in fibers[b] : e[1] # f
<1>1. \A p \in Wakers : waking[p].hand \subseteq Fibers
  BY DEF Types, WakeCalls
<1>2. HandInv
  BY DEF OwnInv
<1> QED BY <1>1, <1>2 DEF HandInv

\* Every step keeps a call of `wake` with the actor that made it, and its hand empty
\* until it took fibers.
LEMMA WakeInvStep ==
  ASSUME Types, PlaceInv, OwnInv, [Next]_vars
  PROVE  WakeInv'
<1>0. /\ pc \in [Actors -> Places] /\ waking \in [Wakers -> WakeCalls] /\ Timer \notin Actors /\ WakeInv
  BY Constants DEF Types, ProgTypes, OwnInv
<1> USE <1>0 DEF WakeCalls, WakeInv
<1>1. ASSUME NEW a \in Actors, Await(a) PROVE WakeInv'
  BY SMT, <1>1 DEF Await
<1>2. ASSUME NEW a \in Actors, wait_check(a) PROVE WakeInv'
  BY SMT, <1>2 DEF wait_check
<1>3. ASSUME NEW a \in Actors, wait_fiber(a) PROVE WakeInv'
  BY <1>3 DEF wait_fiber
<1>4. ASSUME NEW a \in Actors, wake_at(a) PROVE WakeInv'
  BY <1>4 DEF wake_at
<1>5. ASSUME NEW a \in Actors, wait_thread_timed(a) PROVE WakeInv'
  BY <1>5 DEF wait_thread_timed
<1>6. ASSUME NEW a \in Actors, wait_thread(a) PROVE WakeInv'
  BY <1>6 DEF wait_thread
<1>7. ASSUME NEW a \in Actors, Notified(a) PROVE WakeInv'
  BY <1>7 DEF Notified, wait_return
<1>8. ASSUME NEW a \in Actors, TimedOut(a) PROVE WakeInv'
  BY <1>8 DEF TimedOut, wait_return
<1>9. ASSUME NEW a \in Actors, Spurious(a) PROVE WakeInv'
  BY <1>9 DEF Spurious, wait_return
<1>10. ASSUME NEW a \in Actors, signal(a) PROVE WakeInv'
  BY <1>10 DEF signal, WakeOf
<1>11. ASSUME NEW a \in Actors, cancel(a) PROVE WakeInv'
  BY <1>11 DEF cancel, WakeEvery
<1>12. ASSUME NEW a \in Actors, NextBucket(a) PROVE WakeInv'
  BY <1>12 DEF NextBucket, WakeEvery, WakeIsOver
<1>13. ASSUME NEW a \in Actors, WakeReturns(a) PROVE WakeInv'
  BY <1>13 DEF WakeReturns, NoWake, WakeIsOver
<1>14. ASSUME NEW a \in Actors, spawn(a) PROVE WakeInv'
  <2>1. PICK to \in {"ready", "run"} : pc' = [pc EXCEPT ![On(a)] = to]
    BY <1>14 DEF spawn
  <2>2. pc[On(a)] = "new" /\ On(a) \in Actors /\ UNCHANGED <<waking, firing>>
    BY <1>14, CallType DEF spawn
  <2>3. \A c \in Actors : pc'[c] # "waking" <=> pc[c] # "waking"
    BY SMT, <2>1, <2>2
  <2> QED BY <2>2, <2>3
<1>15. ASSUME NEW a \in Actors, task_ends(a) PROVE WakeInv'
  BY <1>15 DEF task_ends, WakeOf
<1>16. ASSUME NEW a \in Actors, thread_ended(a) PROVE WakeInv'
  BY <1>16 DEF thread_ended, NoWake, WakeIsOver
<1>17. ASSUME NEW a \in Actors, free(a) PROVE WakeInv'
  BY <1>17 DEF free
<1>18. ASSUME NEW a \in Actors, vx_callback(a) PROVE WakeInv'
  BY <1>18 DEF vx_callback
<1>19. ASSUME NEW p \in Wakers, wake_progress(p) PROVE WakeInv'
  BY SMT, <1>19 DEF wake_progress
<1>20. ASSUME NEW p \in Wakers, wake_under_the_lock(p) PROVE WakeInv'
  <2>1. waking[p].at = "take" /\ UNCHANGED <<pc, firing>>
    BY <1>20 DEF wake_under_the_lock
  <2>2. /\ waking'[p].at = "notify" /\ waking'[p].push = waking[p].push
        /\ \A q \in Wakers : q # p => waking'[q] = waking[q]
    <3>1. PICK h : waking' = [waking EXCEPT ![p].at = "notify", ![p].hand = h]
      BY <1>20 DEF wake_under_the_lock
    <3> QED BY SMT, <3>1
  <2> QED BY SMT, <2>1, <2>2
<1>21. ASSUME NEW p \in Wakers, wake_notify_all(p) PROVE WakeInv'
  BY <1>21 DEF wake_notify_all
<1>22. ASSUME NEW p \in Wakers, push(p) PROVE WakeInv'
  BY SMT, <1>22 DEF push
<1>23. ASSUME NEW p \in Wakers, NEW f \in Fibers, sched_wake(p, f) PROVE WakeInv'
  <2>1. PICK h, q : waking' = [waking EXCEPT ![p].hand = h, ![p].push = q]
    BY <1>23 DEF sched_wake
  <2>2. waking[p].at = "push" /\ UNCHANGED <<pc, firing>>
    BY <1>23 DEF sched_wake
  <2> QED BY SMT, <2>1, <2>2
<1>24. ASSUME NEW w \in Workers, pop(w) PROVE WakeInv'
  <2>1. Head(ready) \in Fibers /\ pc[Head(ready)] # "waking" /\ Goto(Head(ready), "run")
          /\ UNCHANGED <<waking, firing>>
    BY <1>24, QueueTail DEF pop, Types, SchedTypes, OwnInv, QueueInv
  <2> QED BY <2>1
<1>25. ASSUME NEW w \in Workers, park(w) PROVE WakeInv'
  BY <1>25 DEF park
<1>26. ASSUME NEW w \in Workers, fiber_ended(w) PROVE WakeInv'
  BY <1>26 DEF fiber_ended, NoWake, WakeIsOver
<1>27. ASSUME NEW e \in Entries, timer_fire(e) PROVE WakeInv'
  BY <1>27 DEF timer_fire, WakeOf
<1>28. ASSUME timer_fired PROVE WakeInv'
  BY <1>28 DEF timer_fired, NoWake, WakeIsOver
<1>29. ASSUME NEW w \in Workers, pop_waits(w) \/ leave(w) PROVE WakeInv'
  BY SMT, <1>29 DEF pop_waits, leave
<1>30. ASSUME NEW e \in Entries, expire(e) PROVE WakeInv'
  BY <1>30 DEF expire
<1>31. ASSUME monitor PROVE WakeInv'
  BY <1>31 DEF monitor
<1>32. CASE UNCHANGED vars
  <2>1. UNCHANGED <<pc, waking, firing>>
    BY <1>32 DEF vars
  <2> QED BY <2>1
<1>33. ASSUME Finished PROVE WakeInv'
  BY <1>32, <1>33 DEF Finished
<1> HIDE DEF WakeInv
<1> QED
  BY <1>1, <1>2, <1>3, <1>4, <1>5, <1>6, <1>7, <1>8, <1>9, <1>10, <1>11, <1>12, <1>13, <1>14, <1>15, <1>16,
     <1>17, <1>18, <1>19, <1>20, <1>21, <1>22, <1>23, <1>24, <1>25, <1>26, <1>27, <1>28, <1>29, <1>30, <1>31,
     <1>32, <1>33 DEF Next, Act, DoWake, Work, RunTimer

\* A step that takes no fiber from one owner to another.
Quiet ==
  /\ UNCHANGED <<state, ready, fibers>>
  /\ \A w \in Workers : cur'[w] = cur[w] \/ (cur'[w] \notin Fibers /\ cur[w] \notin Fibers)
  /\ \A p \in Wakers : waking'[p].hand = waking[p].hand /\ waking'[p].push = waking[p].push
  /\ \A f \in Fibers :
       /\ pc'[f] \in Aboard <=> pc[f] \in Aboard
       /\ pc'[f] \in {"arm", "park"} <=> pc[f] \in {"arm", "park"}
       /\ \A at \in {"ready", "parked"} : pc'[f] = at <=> pc[f] = at
       /\ pc[f] \in {"arm", "park", "parked"} => On(f)' = On(f)

\* All actions but eight take no fiber from one owner to another.
LEMMA QuietSteps ==
  ASSUME Types, PlaceInv, WakeInv
  PROVE  /\ \A a \in Actors : Act(a) \/ Spurious(a) =>
              Quiet \/ wait_fiber(a) \/ (spawn(a) /\ On(a) \in Fibers)
         /\ \A p \in Wakers : wake_progress(p) \/ wake_notify_all(p) => Quiet
         /\ \A w \in Workers : pop_waits(w) \/ leave(w) => Quiet
         /\ monitor \/ RunTimer \/ UNCHANGED vars => Quiet
<1>0. /\ pc \in [Actors -> Places] /\ ip \in [Actors -> Nat \ {0}]
      /\ waking \in [Wakers -> WakeCalls] /\ cur \in [Workers -> Fibers \cup NoFiber]
      /\ Main \notin Fibers /\ Fibers \cap Threads = {}
      /\ Fibers \cap NoFiber = {} /\ Timer \notin Actors
  BY Constants DEF Types, ProgTypes, SchedTypes
<1>w. \A a \in Actors : pc[a] # "waking" => waking[a].hand = {} /\ waking[a].push = Nobody
  BY DEF WakeInv
<1> USE <1>0
<1> USE DEF Quiet, Aboard, Places, On, Call
<1>1. ASSUME NEW a \in Actors, Await(a) PROVE Quiet
  BY <1>1 DEF Await
<1>2. ASSUME NEW a \in Actors, wait_check(a) PROVE Quiet
  BY <1>2 DEF wait_check
<1>3. ASSUME NEW a \in Actors, wake_at(a) PROVE Quiet
  BY <1>3 DEF wake_at
<1>4. ASSUME NEW a \in Actors, wait_thread_timed(a) PROVE Quiet
  BY <1>4 DEF wait_thread_timed
<1>5. ASSUME NEW a \in Actors, wait_thread(a) PROVE Quiet
  BY <1>5 DEF wait_thread
<1>6. ASSUME NEW a \in Actors, Notified(a) PROVE Quiet
  BY <1>6 DEF Notified, wait_return
<1>7. ASSUME NEW a \in Actors, TimedOut(a) PROVE Quiet
  BY <1>7 DEF TimedOut, wait_return
<1>8. ASSUME NEW a \in Actors, Spurious(a) PROVE Quiet
  BY <1>8 DEF Spurious, wait_return
<1>9. ASSUME NEW a \in Actors, signal(a) PROVE Quiet
  BY <1>9, <1>w DEF signal, WakeOf, WakeCalls
<1>10. ASSUME NEW a \in Actors, cancel(a) PROVE Quiet
  BY <1>10, <1>w DEF cancel, WakeEvery, WakeCalls
<1>11. ASSUME NEW a \in Actors, NextBucket(a) PROVE Quiet
  BY <1>11 DEF NextBucket, WakeEvery, WakeIsOver, WakeCalls
<1>12. ASSUME NEW a \in Actors, WakeReturns(a) PROVE Quiet
  BY <1>12 DEF WakeReturns, NoWake, WakeIsOver, WakeCalls, WakeInv
<1>13. ASSUME NEW a \in Actors, task_ends(a) PROVE Quiet
  BY <1>13, <1>w DEF task_ends, WakeOf, WakeCalls
<1>14. ASSUME NEW a \in Actors, thread_ended(a) PROVE Quiet
  <2>1. /\ a \notin Fibers /\ pc' = [pc EXCEPT ![a] = "ended"]
             /\ UNCHANGED <<prog, ip, state, ready, fibers, cur>>
        /\ waking' = [waking EXCEPT ![a] = NoWake] /\ waking[a].hand = {} /\ waking[a].push = Nobody
    BY <1>14 DEF thread_ended, WakeIsOver
  <2>2. \A p \in Wakers : waking'[p].hand = waking[p].hand /\ waking'[p].push = waking[p].push
    BY <2>1 DEF NoWake
  <2> QED BY <2>1, <2>2
<1>15. ASSUME NEW a \in Actors, free(a) PROVE Quiet
  BY <1>15 DEF free
<1>16. ASSUME NEW a \in Actors, vx_callback(a) PROVE Quiet
  BY <1>16 DEF vx_callback
<1>17. ASSUME NEW a \in Actors, spawn(a), On(a) \notin Fibers PROVE Quiet
  BY <1>17, CallType DEF spawn, Over
<1>18. ASSUME NEW p \in Wakers, wake_progress(p) PROVE Quiet
  BY SMT, <1>18 DEF wake_progress, WakeCalls
<1>19. ASSUME NEW p \in Wakers, wake_notify_all(p) PROVE Quiet
  BY SMT, <1>19 DEF wake_notify_all, WakeCalls
<1>20. ASSUME NEW w \in Workers, pop_waits(w) PROVE Quiet
  BY <1>20 DEF pop_waits
<1>21. ASSUME NEW w \in Workers, leave(w) PROVE Quiet
  BY <1>21 DEF leave
<1>22. ASSUME monitor PROVE Quiet
  BY <1>22 DEF monitor
<1>23. ASSUME NEW e \in Entries, expire(e) PROVE Quiet
  BY <1>23 DEF expire
<1>24. ASSUME NEW e \in Entries, timer_fire(e) PROVE Quiet
  BY <1>24 DEF timer_fire, WakeOf, WakeCalls, WakeInv
<1>25. ASSUME timer_fired PROVE Quiet
  BY <1>25 DEF timer_fired, NoWake, WakeIsOver, WakeCalls
<1>26. CASE UNCHANGED vars
  BY <1>26 DEF vars
<1> HIDE DEF Quiet, Aboard, Places, On, Call
<1> QED
  BY <1>1, <1>2, <1>3, <1>4, <1>5, <1>6, <1>7, <1>8, <1>9, <1>10, <1>11, <1>12, <1>13, <1>14, <1>15, <1>16,
     <1>17, <1>18, <1>19, <1>20, <1>21, <1>22, <1>23, <1>24, <1>25, <1>26 DEF Act, RunTimer

\* A step that moves no fiber between owners keeps the invariant of ownership.
LEMMA QuietKeeps ==
  ASSUME Types, OwnInv, Quiet
  PROVE  StateInv' /\ CarryInv' /\ QueueInv' /\ ListInv' /\ HandInv' /\ PushInv' /\ FoundInv'
<1>0. /\ cur \in [Workers -> Fibers \cup NoFiber] /\ waking \in [Wakers -> WakeCalls]
      /\ fibers \in [Buckets -> SUBSET (Fibers \X Words)]
  BY DEF Types, SchedTypes, TableTypes
<1>1. StateInv'
  BY <1>0 DEF OwnInv, Quiet, StateInv
<1>2. CarryInv'
  <2>1. /\ \A w \in Workers : cur'[w] = cur[w] \/ (cur'[w] \notin Fibers /\ cur[w] \notin Fibers)
        /\ \A f \in Fibers : pc'[f] \in Aboard <=> pc[f] \in Aboard
    BY DEF Quiet
  <2>2. CarryInv
    BY DEF OwnInv
  <2> QED BY <2>1, <2>2 DEF CarryInv
<1>3. QueueInv'
  BY <1>0 DEF OwnInv, Quiet, QueueInv
<1>4. ListInv'
  <2> SUFFICES ASSUME NEW b \in Buckets, NEW e \in fibers'[b]
               PROVE  (state[e[1]] \in {"PARKING", "PARKED"} /\ e[2] = On(e[1]) /\ b = Bkt(e[1]))'
    BY DEF ListInv
  <2>0. fibers' = fibers /\ state' = state
    BY DEF Quiet
  <2>1. e[1] \in Fibers
    BY SMT, <1>0, <2>0
  <2>2. state[e[1]] \in {"PARKING", "PARKED"} /\ e[2] = On(e[1]) /\ b = Bkt(e[1])
    BY <2>0 DEF OwnInv, ListInv
  <2>3. pc[e[1]] \in {"arm", "park", "parked"}
    BY <2>1, <2>2 DEF OwnInv, StateInv
  <2>4. On(e[1])' = On(e[1])
    BY <2>1, <2>3 DEF Quiet
  <2> QED BY <2>0, <2>2, <2>4 DEF Bkt
<1>5. HandInv'
  <2>1. /\ \A p \in Wakers : waking'[p].hand = waking[p].hand
        /\ fibers' = fibers /\ state' = state /\ HandInv
    BY DEF Quiet, OwnInv
  <2> QED BY <2>1, HeldFibers, HandKept
<1>6. PushInv'
  <2>1. /\ \A p \in Wakers : waking'[p].push = waking[p].push
        /\ \A f \in Fibers : pc[f] = "parked" => pc'[f] = "parked"
        /\ state' = state /\ ready' = ready /\ PushInv
    BY DEF Quiet, OwnInv
  <2> QED BY <2>1, PushedFibers, PushKept
<1>7. FoundInv'
  <2>1. \A f \in Fibers : (OnList(f)' <=> OnList(f)) /\ (InHand(f)' <=> InHand(f))
          /\ (Pushed(f)' <=> Pushed(f))
    BY <1>0 DEF Quiet, OnList, InHand, Pushed
  <2> QED BY <2>1 DEF Quiet, OwnInv, FoundInv
<1> QED BY <1>1, <1>2, <1>3, <1>4, <1>5, <1>6, <1>7

\* A fiber that gets on the list of its bucket keeps its worker, and has no other owner.
LEMMA WaitFiberKeeps ==
  ASSUME Types, PlaceInv, OwnInv, NEW a \in Actors, wait_fiber(a)
  PROVE  StateInv' /\ CarryInv' /\ QueueInv' /\ ListInv' /\ HandInv' /\ PushInv' /\ FoundInv'
<1>0. /\ a \in Fibers /\ pc[a] = "commit" /\ Bkt(a) \in Buckets /\ On(a) \in Words
      /\ pc \in [Actors -> Places] /\ state \in [Fibers -> {"RUNNING", "PARKING", "PARKED", "WOKEN"}]
      /\ fibers \in [Buckets -> SUBSET (Fibers \X Words)]
      /\ waking \in [Wakers -> WakeCalls] /\ cur \in [Workers -> Fibers \cup NoFiber]
  BY CallType DEF wait_fiber, fiber_that_can_park, PlaceInv, InWait, Awaits, Types, ProgTypes, SchedTypes,
                  TableTypes
<1>1. /\ pc' = [pc EXCEPT ![a] = IF Call(a).timed THEN "arm" ELSE "park"]
      /\ state' = [state EXCEPT ![a] = "PARKING"]
      /\ fibers' = [fibers EXCEPT ![Bkt(a)] = @ \cup {<<a, On(a)>>}]
      /\ UNCHANGED <<prog, ip, cur, ready, waking>>
  BY DEF wait_fiber, will_park
<1>2. \A f \in Fibers : On(f)' = On(f) /\ Bkt(f)' = Bkt(f)
  BY <1>1 DEF On, Call, Bkt
<1>3. state[a] = "RUNNING"
  BY <1>0 DEF OwnInv, StateInv
<1>4. pc' \in [Actors -> Places] /\ pc'[a] \in {"arm", "park"} /\ \A f \in Fibers : f # a =>
        pc'[f] = pc[f] /\ state'[f] = state[f]
  BY <1>0, <1>1 DEF Places
<1>5. StateInv'
  BY <1>0, <1>1, <1>4 DEF OwnInv, StateInv
<1>6. CarryInv'
  <2>1. \A f \in Fibers : pc'[f] \in Aboard <=> pc[f] \in Aboard
    BY <1>0, <1>4 DEF Aboard
  <2>2. CarryInv /\ cur' = cur
    BY <1>1 DEF OwnInv
  <2> QED BY <2>1, <2>2 DEF CarryInv
<1>7. QueueInv'
  BY <1>0, <1>1, <1>4 DEF OwnInv, QueueInv
<1>8. \A b \in Buckets : \A e \in fibers'[b] : e \in fibers[b] \/ (b = Bkt(a) /\ e = <<a, On(a)>>)
  BY <1>0, <1>1
<1>9. ListInv'
  <2> SUFFICES ASSUME NEW b \in Buckets, NEW e \in fibers'[b]
               PROVE  (state[e[1]] \in {"PARKING", "PARKED"} /\ e[2] = On(e[1]) /\ b = Bkt(e[1]))'
    BY DEF ListInv
  <2>1. CASE e \in fibers[b]
    BY SMT, <2>1, <1>0, <1>1, <1>2 DEF OwnInv, ListInv
  <2>2. CASE b = Bkt(a) /\ e = <<a, On(a)>>
    BY <2>2, <1>0, <1>1, <1>2
  <2> QED BY <1>8, <2>1, <2>2
<1>10. HandInv'
  <2>1. \A p \in Wakers : \A f \in waking[p].hand : f \in Fibers /\ f # a
    BY <1>3, HeldFibers
  <2>2. \A p \in Wakers : \A f \in waking[p].hand : state'[f] \in {"PARKING", "PARKED"}
    BY <1>4, <2>1, HeldFibers
  <2>3. \A p \in Wakers : \A f \in waking[p].hand : \A b \in Buckets : \A e \in fibers'[b] : e[1] # f
    BY SMT, <1>8, <2>1, HeldFibers
  <2>4. HandInv /\ waking' = waking
    BY <1>1 DEF OwnInv
  <2> QED BY <2>2, <2>3, <2>4, HandKept
<1>11. PushInv'
  <2>1. \A p \in Wakers : waking[p].push # Nobody => waking[p].push # a
    BY <1>0, PushedFibers
  <2>2. PushInv /\ waking' = waking /\ ready' = ready
    BY <1>1 DEF OwnInv
  <2> QED BY <1>4, <2>1, <2>2, PushedFibers, PushKept
<1>12. FoundInv'
  <2>1. \A f \in Fibers : (OnList(f) => OnList(f)') /\ (InHand(f) <=> InHand(f)')
          /\ (Pushed(f) <=> Pushed(f)')
    BY <1>0, <1>1 DEF OnList, InHand, Pushed
  <2>2. OnList(a)'
    <3>1. <<a, On(a)>> \in fibers'[Bkt(a)] /\ <<a, On(a)>>[1] = a
      BY <1>0, <1>1
    <3> QED BY <1>0, <3>1 DEF OnList
  <2> QED BY <1>0, <1>1, <1>4, <2>1, <2>2 DEF OwnInv, FoundInv
<1> QED BY <1>5, <1>6, <1>7, <1>9, <1>10, <1>11, <1>12

\* A new fiber gets on the queue.
LEMMA SpawnKeeps ==
  ASSUME Types, PlaceInv, OwnInv, NEW a \in Actors, spawn(a), On(a) \in Fibers
  PROVE  StateInv' /\ CarryInv' /\ QueueInv' /\ ListInv' /\ HandInv' /\ PushInv' /\ FoundInv'
<1> DEFINE t == On(a)
<1>0. /\ t \in Fibers /\ t \notin Threads /\ pc[t] = "new"
      /\ pc \in [Actors -> Places] /\ ip \in [Actors -> Nat \ {0}]
      /\ fibers \in [Buckets -> SUBSET (Fibers \X Words)] /\ ready \in Seq(Fibers)
      /\ waking \in [Wakers -> WakeCalls] /\ cur \in [Workers -> Fibers \cup NoFiber]
  BY Constants DEF spawn, Types, ProgTypes, SchedTypes, TableTypes
<1>1. /\ pc' = [pc EXCEPT ![t] = "ready"] /\ ready' = Append(ready, t) /\ cur' = notify_one
      /\ ip' = [ip EXCEPT ![a] = ip[a] + 1]
      /\ UNCHANGED <<prog, state, fibers, waking>>
  BY <1>0 DEF spawn
<1>2. pc[a] = "run"
  BY DEF spawn
<1> HIDE DEF t
<1>3. ~In(t, ready) /\ state[t] = "RUNNING"
  BY <1>0 DEF OwnInv, QueueInv, StateInv
<1>4. /\ Once(ready') /\ \A f : In(f, ready') <=> In(f, ready) \/ f = t
  BY <1>0, <1>1, <1>3, QueueAppend DEF OwnInv, QueueInv
<1>5. pc'[t] = "ready" /\ \A f \in Fibers : f # t => pc'[f] = pc[f]
  BY <1>0, <1>1
<1>6. StateInv'
  BY <1>0, <1>1, <1>3, <1>5 DEF OwnInv, StateInv
<1>7. CarryInv'
  <2>1. \A w \in Workers : (cur'[w] \in Fibers \/ cur[w] \in Fibers) => cur'[w] = cur[w]
    BY <1>0, <1>1, NotifyOne, Constants
  <2>2. \A w \in Workers : cur'[w] \in Fibers => pc'[cur'[w]] \in Aboard
    BY SMT, <1>0, <1>5, <2>1 DEF OwnInv, CarryInv, Aboard
  <2>3. \A v, w \in Workers : cur'[w] \in Fibers /\ cur'[v] = cur'[w] => v = w
    BY <2>1 DEF OwnInv, CarryInv
  <2>4. \A f \in Fibers : pc'[f] \in Aboard => \E w \in Workers : cur'[w] = f
    <3>1. \A f \in Fibers : pc'[f] \in Aboard => pc[f] \in Aboard
      BY <1>5 DEF Aboard
    <3> QED BY <2>1, <3>1 DEF OwnInv, CarryInv
  <2> QED BY <2>2, <2>3, <2>4 DEF CarryInv
<1>8. QueueInv'
  BY <1>0, <1>1, <1>4, <1>5 DEF OwnInv, QueueInv
<1>9. ListInv'
  <2>1. \A b \in Buckets : \A e \in fibers[b] : e[1] \in Fibers /\ pc[e[1]] \in {"arm", "park", "parked"}
    <3>1. \A b \in Buckets : \A e \in fibers[b] : e[1] \in Fibers
      BY SMT, <1>0
    <3> QED BY <3>1 DEF OwnInv, ListInv, StateInv
  <2>2. \A f \in Fibers : pc[f] \in {"arm", "park", "parked"} => On(f)' = On(f)
    BY <1>0, <1>1, <1>2 DEF On, Call
  <2> QED BY SMT, <1>0, <1>1, <2>1, <2>2 DEF OwnInv, ListInv, Bkt
<1>10. HandInv'
  BY <1>1 DEF OwnInv, HandInv
<1>11. PushInv'
  <2>1. \A p \in Wakers : waking[p].push \in Fibers \cup {Nobody}
    BY <1>0 DEF WakeCalls
  <2> QED BY <1>0, <1>1, <1>4, <1>5, <2>1 DEF OwnInv, PushInv
<1>12. FoundInv'
  <2>1. \A f \in Fibers : (OnList(f)' <=> OnList(f)) /\ (InHand(f)' <=> InHand(f))
          /\ (Pushed(f)' <=> Pushed(f))
    BY <1>1 DEF OnList, InHand, Pushed
  <2> QED BY <1>0, <1>1, <1>4, <1>5, <2>1 DEF OwnInv, FoundInv
<1> QED BY <1>6, <1>7, <1>8, <1>9, <1>10, <1>11, <1>12

\* A wake takes fibers from the list of a bucket to its hand.
LEMMA TakeKeeps ==
  ASSUME Types, PlaceInv, OwnInv, NEW p \in Wakers, wake_under_the_lock(p)
  PROVE  StateInv' /\ CarryInv' /\ QueueInv' /\ ListInv' /\ HandInv' /\ PushInv' /\ FoundInv'
<1> DEFINE b == waking[p].b
           taken == take_fibers(b, waking[p].of)
<1>0. /\ b \in Buckets /\ taken \subseteq fibers[b]
      /\ fibers \in [Buckets -> SUBSET (Fibers \X Words)]
      /\ waking \in [Wakers -> WakeCalls]
  BY DEF Types, TableTypes, WakeCalls, take_fibers
<1>1. /\ waking' = [waking EXCEPT ![p].at = "notify", ![p].hand = FibersOf(taken)]
      /\ fibers' = [fibers EXCEPT ![b] = @ \ taken]
      /\ waking[p].hand = {} /\ waking[p].push = Nobody
      /\ UNCHANGED <<prog, ip, pc, state, ready, cur>>
  BY DEF wake_under_the_lock, OwnInv, WakeInv
<1> HIDE DEF b, taken
<1>2. /\ waking'[p].hand = FibersOf(taken)
      /\ \A q \in Wakers : q # p => waking'[q].hand = waking[q].hand
      /\ \A q \in Wakers : waking'[q].push = waking[q].push
  BY SMT, <1>0, <1>1 DEF WakeCalls
<1>3. \A c \in Buckets : \A e : e \in fibers'[c] <=> e \in fibers[c] /\ ~(c = b /\ e \in taken)
  BY <1>0, <1>1
<1>4. \A f : On(f)' = On(f) /\ Bkt(f)' = Bkt(f)
  BY <1>1 DEF On, Call, Bkt
<1>5. StateInv' /\ CarryInv' /\ QueueInv'
  BY <1>1 DEF OwnInv, StateInv, CarryInv, QueueInv
<1>6. ListInv'
  BY <1>1, <1>3, <1>4 DEF OwnInv, ListInv
<1>7. HandInv'
  <2>1. \A f \in FibersOf(taken) : f \in Fibers /\ state[f] \in {"PARKING", "PARKED"}
          /\ \A q \in Wakers : f \notin waking[q].hand
    BY SMT, <1>0, <1>1 DEF FibersOf, OwnInv, ListInv, HandInv
  <2>2. \A f \in FibersOf(taken) : \A c \in Buckets : \A e \in fibers'[c] : e[1] # f
    <3> SUFFICES ASSUME NEW f \in FibersOf(taken), NEW c \in Buckets, NEW e \in fibers'[c], e[1] = f
                 PROVE  FALSE
      OBVIOUS
    <3>1. PICK d \in taken : d[1] = f
      BY DEF FibersOf
    <3>2. d \in fibers[b] /\ e \in fibers[c] /\ d \in Fibers \X Words /\ e \in Fibers \X Words
      BY <1>0, <1>3, <3>1
    <3>3. d[2] = On(f) /\ b = Bkt(f) /\ e[2] = On(f) /\ c = Bkt(f)
      <4>1. ListInv
        BY DEF OwnInv
      <4> QED BY SMT, <1>0, <3>1, <3>2, <4>1 DEF ListInv
    <3>4. d = e /\ b = c
      BY SMT, <3>1, <3>2, <3>3
    <3> QED BY <1>3, <3>1, <3>4
  <2>3. \A q \in Wakers : q # p => \A f \in waking'[q].hand : f \in waking[q].hand /\ f \notin FibersOf(taken)
    BY <1>2, <2>1
  <2>4. \A q \in Wakers : q # p =>
          \A f \in waking'[q].hand : \A c \in Buckets : \A e \in fibers'[c] : e[1] # f
    <3>1. \A q \in Wakers : \A f \in waking[q].hand : \A c \in Buckets : \A e \in fibers[c] : e[1] # f
      BY HeldFibers
    <3> QED BY <1>3, <2>3, <3>1
  <2>5. \A q \in Wakers : \A f \in waking'[q].hand : state'[f] \in {"PARKING", "PARKED"}
    <3>1. \A f \in waking'[p].hand : state[f] \in {"PARKING", "PARKED"}
      BY <1>2, <2>1
    <3>2. \A q \in Wakers : q # p => \A f \in waking'[q].hand : state[f] \in {"PARKING", "PARKED"}
      BY <2>3 DEF OwnInv, HandInv
    <3> QED BY <1>1, <3>1, <3>2
  <2>6. \A q \in Wakers : \A f \in waking'[q].hand : \A r \in Wakers : f \in waking'[r].hand => r = q
    <3>1. \A q, r \in Wakers : \A f \in waking[q].hand : f \in waking[r].hand => r = q
      BY DEF OwnInv, HandInv
    <3>2. \A r \in Wakers : \A f \in waking'[r].hand : r # p =>
            f \in waking[r].hand /\ f \notin FibersOf(taken)
      BY <2>3
    <3> QED BY SMT, <1>2, <3>1, <3>2
  <2>7. \A q \in Wakers : \A f \in waking'[q].hand : \A c \in Buckets : \A e \in fibers'[c] : e[1] # f
    BY <1>2, <2>2, <2>4
  <2> QED BY <2>5, <2>6, <2>7 DEF HandInv
<1>8. PushInv'
  <2>1. PushInv /\ pc' = pc /\ state' = state /\ ready' = ready
    BY <1>1 DEF OwnInv
  <2> QED BY <1>2, <2>1, PushedFibers, PushKept
<1>9. FoundInv'
  <2>1. \A f \in Fibers : OnList(f) => OnList(f)' \/ f \in FibersOf(taken)
    BY <1>3 DEF OnList, FibersOf
  <2>2. \A f \in Fibers : InHand(f) \/ f \in FibersOf(taken) => InHand(f)'
    BY <1>1, <1>2 DEF InHand
  <2>3. \A f \in Fibers : Pushed(f)' <=> Pushed(f)
    BY <1>2 DEF Pushed
  <2> QED BY <1>1, <2>1, <2>2, <2>3 DEF OwnInv, FoundInv
<1> QED BY <1>5, <1>6, <1>7, <1>8, <1>9

\* sched::wake takes a PARKED fiber to its push, and leaves a PARKING one to its worker.
LEMMA SchedWakeKeeps ==
  ASSUME Types, PlaceInv, OwnInv, NEW p \in Wakers, NEW f \in Fibers, sched_wake(p, f)
  PROVE  StateInv' /\ CarryInv' /\ QueueInv' /\ ListInv' /\ HandInv' /\ PushInv' /\ FoundInv'
<1>0. /\ f \in waking[p].hand /\ waking[p].push = Nobody
      /\ fibers \in [Buckets -> SUBSET (Fibers \X Words)]
      /\ waking \in [Wakers -> WakeCalls]
      /\ state \in [Fibers -> {"RUNNING", "PARKING", "PARKED", "WOKEN"}]
      /\ Nobody \notin Fibers
  BY Constants DEF sched_wake, Types, TableTypes, SchedTypes
<1>1. /\ waking' = [waking EXCEPT ![p].hand = @ \ {f}, ![p].push = ToPush(f)]
      /\ state' = [state EXCEPT ![f] = "WOKEN"]
      /\ UNCHANGED <<prog, ip, pc, fibers, ready, cur>>
  BY DEF sched_wake
<1>2. /\ waking'[p].hand = waking[p].hand \ {f} /\ waking'[p].push = ToPush(f)
      /\ \A q \in Wakers : q # p => waking'[q].hand = waking[q].hand /\ waking'[q].push = waking[q].push
  BY SMT, <1>0, <1>1 DEF WakeCalls
<1>3. /\ state[f] \in {"PARKING", "PARKED"} /\ state'[f] = "WOKEN"
      /\ \A g \in Fibers : g # f => state'[g] = state[g]
  BY <1>0, <1>1 DEF OwnInv, HandInv
<1>4. \A g : On(g)' = On(g) /\ Bkt(g)' = Bkt(g)
  BY <1>1 DEF On, Call, Bkt
<1>5. /\ ToPush(f) \in {f, Nobody}
      /\ ToPush(f) = f => pc[f] = "parked"
      /\ pc[f] = "parked" => ToPush(f) = f
      /\ pc[f] \in {"arm", "park", "parked"}
  BY <1>0, <1>3 DEF ToPush, OwnInv, StateInv
<1>6. ~In(f, ready)
  BY <1>3, <1>5 DEF OwnInv, QueueInv
<1>7. \A q \in Wakers : waking[q].push # f
  BY <1>0, <1>3 DEF OwnInv, PushInv
<1>8. StateInv'
  BY <1>1, <1>3, <1>5 DEF OwnInv, StateInv
<1>9. CarryInv' /\ QueueInv'
  BY <1>1, <1>3, <1>6 DEF OwnInv, CarryInv, QueueInv
<1>10. ListInv'
  <2>1. \A b \in Buckets : \A e \in fibers[b] : e[1] \in Fibers /\ e[1] # f
    BY SMT, <1>0 DEF OwnInv, HandInv
  <2> QED BY <1>1, <1>3, <1>4, <2>1 DEF OwnInv, ListInv
<1>11. HandInv'
  <2>1. \A q \in Wakers : \A g \in waking'[q].hand : g \in waking[q].hand /\ g # f /\ g \in Fibers
    <3>1. \A q \in Wakers : q # p => f \notin waking[q].hand
      BY <1>0 DEF OwnInv, HandInv
    <3> QED BY <1>2, <3>1, HeldFibers
  <2>2. \A q \in Wakers : \A g \in waking'[q].hand : state'[g] \in {"PARKING", "PARKED"}
    BY SMT, <1>3, <2>1 DEF OwnInv, HandInv
  <2>3. \A q \in Wakers : \A g \in waking'[q].hand : \A b \in Buckets : \A e \in fibers'[b] : e[1] # g
    BY <1>1, <2>1 DEF OwnInv, HandInv
  <2>4. \A q, r \in Wakers : \A g \in waking'[q].hand : g \in waking'[r].hand => r = q
    BY SMT, <2>1 DEF OwnInv, HandInv
  <2> QED BY <2>2, <2>3, <2>4 DEF HandInv
<1>12. PushInv'
  <2>1. \A q \in Wakers : q # p => waking'[q].push = waking[q].push /\ waking'[q].push # f
          /\ waking[q].push \in Fibers \cup {Nobody}
    BY <1>0, <1>2, <1>7 DEF WakeCalls
  <2>2. \A q \in Wakers : waking'[q].push # Nobody =>
          /\ pc'[waking'[q].push] = "parked" /\ state'[waking'[q].push] = "WOKEN"
               /\ ~In(waking'[q].push, ready')
    <3>1. ToPush(f) # Nobody =>
            pc'[ToPush(f)] = "parked" /\ state'[ToPush(f)] = "WOKEN" /\ ~In(ToPush(f), ready')
      BY <1>1, <1>3, <1>5, <1>6
    <3>2. \A q \in Wakers : q # p /\ waking'[q].push # Nobody =>
            /\ pc[waking[q].push] = "parked" /\ state[waking[q].push] = "WOKEN" /\ ~In(waking[q].push, ready)
            /\ waking[q].push \in Fibers /\ waking[q].push # f
      BY <2>1 DEF OwnInv, PushInv
    <3>3. \A q \in Wakers : q # p /\ waking'[q].push # Nobody =>
            /\ pc'[waking'[q].push] = "parked" /\ state'[waking'[q].push] = "WOKEN"
                 /\ ~In(waking'[q].push, ready')
      <4>1. pc' = pc /\ ready' = ready
        BY <1>1
      <4> QED BY <1>3, <2>1, <3>2, <4>1
    <3> QED BY <1>2, <3>1, <3>3
  <2>3. \A q, r \in Wakers : waking'[q].push # Nobody /\ waking'[r].push = waking'[q].push => r = q
    <3>1. \A q, r \in Wakers : q # p /\ r # p /\ waking[q].push # Nobody /\ waking[r].push = waking[q].push =>
            r = q
      BY DEF OwnInv, PushInv
    <3>2. waking'[p].push \in {f, Nobody}
      BY <1>2, <1>5
    <3> QED BY SMT, <2>1, <3>1, <3>2
  <2> QED BY <2>2, <2>3 DEF PushInv
<1>13. FoundInv'
  <2>1. \A g \in Fibers : (OnList(g)' <=> OnList(g)) /\ (g # f /\ InHand(g) => InHand(g)')
    BY <1>1, <1>2 DEF OnList, InHand
  <2>2. \A g \in Fibers : Pushed(g) => Pushed(g)'
    BY <1>0, <1>2 DEF Pushed
  <2>3. ToPush(f) = f => Pushed(f)'
    BY <1>2 DEF Pushed
  <2> QED BY <1>1, <1>3, <1>5, <2>1, <2>2, <2>3 DEF OwnInv, FoundInv
<1> QED BY <1>8, <1>9, <1>10, <1>11, <1>12, <1>13

\* A push takes the fiber to the queue.
LEMMA PushKeeps ==
  ASSUME Types, PlaceInv, OwnInv, NEW p \in Wakers, push(p)
  PROVE  StateInv' /\ CarryInv' /\ QueueInv' /\ ListInv' /\ HandInv' /\ PushInv' /\ FoundInv'
<1> DEFINE f == waking[p].push
<1>0. /\ f \in Fibers /\ f # Nobody
      /\ waking \in [Wakers -> WakeCalls] /\ ready \in Seq(Fibers)
      /\ cur \in [Workers -> Fibers \cup NoFiber]
  BY Constants DEF push, Types, SchedTypes, WakeCalls
<1>1. /\ waking' = [waking EXCEPT ![p].push = Nobody] /\ ready' = Append(ready, f) /\ cur' = notify_one
      /\ UNCHANGED <<prog, ip, pc, fibers, state>>
  BY DEF push
<1>2. pc[f] = "parked" /\ state[f] = "WOKEN" /\ ~In(f, ready) /\ \A q \in Wakers : waking[q].push = f => q = p
  BY <1>0 DEF OwnInv, PushInv
<1> HIDE DEF f
<1>3. /\ waking'[p].push = Nobody /\ waking[p].push = f
      /\ \A q \in Wakers : waking'[q].hand = waking[q].hand /\ (q # p => waking'[q].push = waking[q].push)
  BY <1>0, <1>1 DEF WakeCalls, f
<1>4. Once(ready') /\ \A g : In(g, ready') <=> In(g, ready) \/ g = f
  BY <1>0, <1>1, <1>2, QueueAppend DEF OwnInv, QueueInv
<1>5. \A g : On(g)' = On(g) /\ Bkt(g)' = Bkt(g)
  BY <1>1 DEF On, Call, Bkt
<1>6. StateInv' /\ ListInv'
  BY <1>1, <1>5 DEF OwnInv, StateInv, ListInv
<1>7. CarryInv'
  <2>1. \A w \in Workers : (cur'[w] \in Fibers \/ cur[w] \in Fibers) => cur'[w] = cur[w]
    BY <1>0, <1>1, NotifyOne, Constants
  <2>2. \A w \in Workers : cur'[w] \in Fibers => pc'[cur'[w]] \in Aboard
    BY <1>1, <2>1 DEF OwnInv, CarryInv
  <2>3. \A v, w \in Workers : cur'[w] \in Fibers /\ cur'[v] = cur'[w] => v = w
    BY <2>1 DEF OwnInv, CarryInv
  <2>4. \A g \in Fibers : pc'[g] \in Aboard => \E w \in Workers : cur'[w] = g
    BY <1>1, <2>1 DEF OwnInv, CarryInv
  <2> QED BY <2>2, <2>3, <2>4 DEF CarryInv
<1>8. QueueInv'
  BY <1>0, <1>1, <1>2, <1>4 DEF OwnInv, QueueInv
<1>9. HandInv'
  BY SMT, <1>1, <1>3 DEF OwnInv, HandInv
<1>10. PushInv'
  <2>1. \A q \in Wakers : waking'[q].push # Nobody =>
          q # p /\ waking'[q].push = waking[q].push /\ waking[q].push # f
    BY <1>2, <1>3
  <2> QED BY SMT, <1>1, <1>3, <1>4, <2>1 DEF OwnInv, PushInv
<1>11. FoundInv'
  <2>1. \A g \in Fibers : (OnList(g)' <=> OnList(g)) /\ (InHand(g)' <=> InHand(g))
          /\ (g # f /\ Pushed(g) => Pushed(g)')
    BY <1>1, <1>3 DEF OnList, InHand, Pushed
  <2> QED BY <1>1, <1>4, <2>1 DEF OwnInv, FoundInv
<1> QED BY <1>6, <1>7, <1>8, <1>9, <1>10, <1>11

\* A worker takes the fiber at the head of the queue.
LEMMA PopKeeps ==
  ASSUME Types, PlaceInv, OwnInv, NEW w \in Workers, pop(w)
  PROVE  StateInv' /\ CarryInv' /\ QueueInv' /\ ListInv' /\ HandInv' /\ PushInv' /\ FoundInv'
<1> DEFINE f == Head(ready)
<1>0. /\ ready \in Seq(Fibers) /\ ready # <<>> /\ cur[w] \notin Fibers
      /\ pc \in [Actors -> Places] /\ state \in [Fibers -> {"RUNNING", "PARKING", "PARKED", "WOKEN"}]
      /\ fibers \in [Buckets -> SUBSET (Fibers \X Words)]
      /\ waking \in [Wakers -> WakeCalls] /\ cur \in [Workers -> Fibers \cup NoFiber]
  BY Constants DEF pop, Types, ProgTypes, SchedTypes, TableTypes
<1>1. /\ ready' = Tail(ready) /\ cur' = [cur EXCEPT ![w] = f]
      /\ state' = [state EXCEPT ![f] = "RUNNING"] /\ pc' = [pc EXCEPT ![f] = "run"]
      /\ UNCHANGED <<prog, ip, fibers, waking>>
  BY DEF pop
<1>2. /\ f \in Fibers /\ In(f, ready)
      /\ Once(ready') /\ ~In(f, ready') /\ \A g : In(g, ready) <=> In(g, ready') \/ g = f
  BY <1>0, <1>1, QueueTail DEF OwnInv, QueueInv
<1> HIDE DEF f
<1>3. state[f] \notin {"PARKING", "PARKED"} /\ pc[f] \notin Aboard
  BY <1>2 DEF OwnInv, QueueInv, StateInv, Aboard
<1>4. /\ pc'[f] = "run" /\ state'[f] = "RUNNING"
      /\ \A g \in Fibers : g # f => pc'[g] = pc[g] /\ state'[g] = state[g]
  BY <1>0, <1>1, <1>2
<1>5. \A g : On(g)' = On(g) /\ Bkt(g)' = Bkt(g)
  BY <1>1 DEF On, Call, Bkt
<1>6. StateInv'
  BY <1>4 DEF OwnInv, StateInv
<1>7. CarryInv'
  <2>1. cur'[w] = f /\ \A v \in Workers : v # w => cur'[v] = cur[v]
    BY <1>0, <1>1
  <2>2. \A v \in Workers : cur[v] # f
    BY <1>2, <1>3 DEF OwnInv, CarryInv
  <2>3. \A v \in Workers : cur'[v] \in Fibers => pc'[cur'[v]] \in Aboard
    <3>1. pc'[f] \in Aboard
      BY <1>4 DEF Aboard
    <3>2. \A v \in Workers : cur[v] \in Fibers => pc[cur[v]] \in Aboard
      BY DEF OwnInv, CarryInv
    <3> QED BY <1>4, <2>1, <2>2, <3>1, <3>2
  <2>4. \A u, v \in Workers : cur'[v] \in Fibers /\ cur'[u] = cur'[v] => u = v
    <3>1. \A u, v \in Workers : cur[v] \in Fibers /\ cur[u] = cur[v] => u = v
      BY DEF OwnInv, CarryInv
    <3> QED BY <2>1, <2>2, <3>1
  <2>5. \A g \in Fibers : pc'[g] \in Aboard => \E v \in Workers : cur'[v] = g
    BY SMT, <1>0, <1>4, <2>1 DEF OwnInv, CarryInv
  <2> QED BY <2>3, <2>4, <2>5 DEF CarryInv
<1>8. QueueInv'
  BY <1>2, <1>4 DEF OwnInv, QueueInv
<1>9. ListInv'
  <2>1. \A b \in Buckets : \A e \in fibers[b] : e[1] \in Fibers
    BY SMT, <1>0
  <2>2. \A b \in Buckets : \A e \in fibers[b] : e[1] # f
    BY <1>3 DEF OwnInv, ListInv
  <2> QED BY <1>1, <1>4, <1>5, <2>1, <2>2 DEF OwnInv, ListInv
<1>10. HandInv'
  <2>1. \A p \in Wakers : \A g \in waking[p].hand : g \in Fibers /\ g # f
    BY <1>3, HeldFibers
  <2>2. HandInv /\ waking' = waking /\ fibers' = fibers
    BY <1>1 DEF OwnInv
  <2> QED BY <1>4, <2>1, <2>2, HeldFibers, HandKept
<1>11. PushInv'
  <2>1. \A p \in Wakers : waking[p].push # Nobody => waking[p].push # f
    BY <1>2, PushedFibers
  <2>2. PushInv /\ waking' = waking
    BY <1>1 DEF OwnInv
  <2>3. \A p \in Wakers : waking[p].push # Nobody => ~In(waking[p].push, ready')
    BY <1>2, PushedFibers
  <2> QED BY <1>4, <2>1, <2>2, <2>3, PushedFibers, PushKept
<1>12. FoundInv'
  <2>1. \A g \in Fibers : (OnList(g)' <=> OnList(g)) /\ (InHand(g)' <=> InHand(g))
          /\ (Pushed(g)' <=> Pushed(g))
    BY <1>1 DEF OnList, InHand, Pushed
  <2> QED BY <1>2, <1>4, <2>1 DEF OwnInv, FoundInv
<1> QED BY <1>6, <1>7, <1>8, <1>9, <1>10, <1>11, <1>12

\* A worker leaves a fiber that parked, or puts a fiber that was woken on the queue.
LEMMA ParkKeeps ==
  ASSUME Types, PlaceInv, OwnInv, NEW w \in Workers, park(w)
  PROVE  StateInv' /\ CarryInv' /\ QueueInv' /\ ListInv' /\ HandInv' /\ PushInv' /\ FoundInv'
<1> DEFINE f == cur[w]
<1>0. /\ f \in Fibers /\ pc[f] = "park" /\ ready \in Seq(Fibers)
      /\ pc \in [Actors -> Places] /\ state \in [Fibers -> {"RUNNING", "PARKING", "PARKED", "WOKEN"}]
      /\ fibers \in [Buckets -> SUBSET (Fibers \X Words)]
      /\ waking \in [Wakers -> WakeCalls] /\ cur \in [Workers -> Fibers \cup NoFiber]
  BY DEF park, Types, ProgTypes, SchedTypes, TableTypes
<1>1. /\ compare_exchange(f) /\ pc' = [pc EXCEPT ![f] = "parked"]
      /\ cur' = [(IF state[f] = "PARKING" THEN cur ELSE notify_one) EXCEPT ![w] = "leaving"]
      /\ UNCHANGED <<prog, ip, fibers, waking>>
  BY DEF park
<1>2. /\ cur'[w] \notin Fibers /\ cur[w] = f
      /\ \A v \in Workers : v # w => (cur'[v] \in Fibers \/ cur[v] \in Fibers => cur'[v] = cur[v])
  <2> DEFINE c == IF state[f] = "PARKING" THEN cur ELSE notify_one
  <2>1. /\ c \in [Workers -> Fibers \cup NoFiber]
        /\ \A v \in Workers : c[v] \in Fibers \/ cur[v] \in Fibers => c[v] = cur[v]
    BY <1>0, NotifyOne, Constants
  <2>2. cur' = [c EXCEPT ![w] = "leaving"]
    BY <1>1
  <2> HIDE DEF c
  <2> QED BY <2>1, <2>2, Constants
<1> HIDE DEF f
<1>3. state[f] \in {"PARKING", "WOKEN"} /\ ~In(f, ready) /\ \A p \in Wakers : waking[p].push # f
  <2>1. \A p \in Wakers : waking[p].push # f
    BY <1>0, PushedFibers, Constants
  <2> QED BY <1>0, <2>1 DEF OwnInv, StateInv, QueueInv
<1>4. /\ pc'[f] = "parked" /\ \A g \in Fibers : g # f => pc'[g] = pc[g]
  BY <1>0, <1>1
<1>5. \A g : On(g)' = On(g) /\ Bkt(g)' = Bkt(g)
  BY <1>1 DEF On, Call, Bkt
<1>6. /\ state[f] = "PARKING" => state'[f] = "PARKED" /\ ready' = ready
      /\ state[f] = "WOKEN" => state'[f] = "WOKEN" /\ ready' = Append(ready, f)
      /\ \A g \in Fibers : g # f => state'[g] = state[g]
  BY <1>0, <1>1, <1>3 DEF compare_exchange
<1>7. /\ Once(ready')
      /\ \A g : In(g, ready') <=> In(g, ready) \/ (g = f /\ state[f] = "WOKEN")
  <2>1. CASE state[f] = "PARKING"
    BY <1>6, <2>1 DEF OwnInv, QueueInv
  <2>2. CASE state[f] = "WOKEN"
    <3>1. ready' = Append(ready, f) /\ Once(ready)
      BY <1>6, <2>2 DEF OwnInv, QueueInv
    <3>2. Once(Append(ready, f)) /\ \A g : In(g, Append(ready, f)) <=> In(g, ready) \/ g = f
      BY <1>0, <1>3, <3>1, QueueAppend
    <3> QED BY <2>2, <3>1, <3>2
  <2> QED BY <1>3, <2>1, <2>2
<1>8. StateInv'
  BY <1>3, <1>4, <1>6 DEF OwnInv, StateInv
<1>9. CarryInv'
  <2>1. \A v \in Workers : cur'[v] \in Fibers => v # w /\ cur'[v] = cur[v] /\ cur[v] # f
    BY <1>0, <1>2 DEF OwnInv, CarryInv
  <2>2. \A v \in Workers : cur'[v] \in Fibers => pc'[cur'[v]] \in Aboard
    BY <1>4, <2>1 DEF OwnInv, CarryInv
  <2>3. \A u, v \in Workers : cur'[v] \in Fibers /\ cur'[u] = cur'[v] => u = v
    BY <2>1 DEF OwnInv, CarryInv
  <2>4. \A g \in Fibers : pc'[g] \in Aboard => \E v \in Workers : cur'[v] = g
    <3> SUFFICES ASSUME NEW g \in Fibers, pc'[g] \in Aboard PROVE \E v \in Workers : cur'[v] = g
      OBVIOUS
    <3>1. g # f /\ pc[g] \in Aboard
      BY <1>4 DEF Aboard
    <3>2. PICK v \in Workers : cur[v] = g
      BY <3>1 DEF OwnInv, CarryInv
    <3> QED BY <1>2, <3>1, <3>2
  <2> QED BY <2>2, <2>3, <2>4 DEF CarryInv
<1>10. QueueInv'
  BY <1>3, <1>4, <1>6, <1>7 DEF OwnInv, QueueInv
<1>11. ListInv'
  <2>1. \A b \in Buckets : \A e \in fibers[b] : e[1] \in Fibers
    BY SMT, <1>0
  <2> QED BY <1>1, <1>3, <1>5, <1>6, <2>1 DEF OwnInv, ListInv
<1>12. HandInv'
  <2>1. \A g \in Fibers : state[g] \in {"PARKING", "PARKED"} => state'[g] \in {"PARKING", "PARKED"}
    BY <1>3, <1>6
  <2>2. HandInv /\ waking' = waking /\ fibers' = fibers
    BY <1>1 DEF OwnInv
  <2> QED BY <2>1, <2>2, HeldFibers, HandKept
<1>13. PushInv'
  <2>1. PushInv /\ waking' = waking
    BY <1>1 DEF OwnInv
  <2>2. \A g \in Fibers : g # f => pc'[g] = pc[g] /\ state'[g] = state[g] /\ (In(g, ready') <=> In(g, ready))
    BY <1>4, <1>6, <1>7
  <2> QED BY <1>3, <2>1, <2>2, PushedFibers, PushKept
<1>14. FoundInv'
  <2>1. \A g \in Fibers : (OnList(g)' <=> OnList(g)) /\ (InHand(g)' <=> InHand(g))
          /\ (Pushed(g)' <=> Pushed(g))
    BY <1>1 DEF OnList, InHand, Pushed
  <2> QED BY <1>3, <1>4, <1>6, <1>7, <2>1 DEF OwnInv, FoundInv
<1> QED BY <1>8, <1>9, <1>10, <1>11, <1>12, <1>13, <1>14

\* A worker leaves a fiber that ended.
LEMMA FiberEndedKeeps ==
  ASSUME Types, PlaceInv, OwnInv, NEW w \in Workers, fiber_ended(w)
  PROVE  StateInv' /\ CarryInv' /\ QueueInv' /\ ListInv' /\ HandInv' /\ PushInv' /\ FoundInv'
<1> DEFINE f == cur[w]
<1>0. /\ f \in Fibers /\ WakeIsOver(f)
      /\ pc \in [Actors -> Places] /\ fibers \in [Buckets -> SUBSET (Fibers \X Words)]
      /\ waking \in [Wakers -> WakeCalls] /\ cur \in [Workers -> Fibers \cup NoFiber]
  BY DEF fiber_ended, Types, ProgTypes, SchedTypes, TableTypes
<1>1. /\ pc' = [pc EXCEPT ![f] = "ended"] /\ cur' = [cur EXCEPT ![w] = "leaving"]
      /\ waking' = [waking EXCEPT ![f] = NoWake]
      /\ UNCHANGED <<prog, ip, fibers, state, ready>>
  BY DEF fiber_ended
<1>2. pc[f] = "waking" /\ state[f] = "RUNNING"
  BY <1>0 DEF WakeIsOver, OwnInv, WakeInv, StateInv
<1>3. cur[w] = f
  OBVIOUS
<1> HIDE DEF f
<1>4. pc'[f] = "ended" /\ \A g \in Fibers : g # f => pc'[g] = pc[g]
  BY <1>0, <1>1
<1>5. \A g : On(g)' = On(g) /\ Bkt(g)' = Bkt(g)
  BY <1>1 DEF On, Call, Bkt
<1>6. \A p \in Wakers : waking'[p].hand = waking[p].hand /\ waking'[p].push = waking[p].push
  BY <1>0, <1>1 DEF WakeIsOver, NoWake
<1>7. StateInv'
  BY <1>1, <1>2, <1>4 DEF OwnInv, StateInv
<1>8. CarryInv'
  <2>0. cur'[w] \notin Fibers /\ \A v \in Workers : v # w => cur'[v] = cur[v]
    BY <1>0, <1>1, Constants
  <2>1. \A v \in Workers : cur'[v] \in Fibers => v # w /\ cur'[v] = cur[v] /\ cur[v] # f
    BY <1>0, <1>3, <2>0 DEF OwnInv, CarryInv
  <2>2. \A v \in Workers : cur'[v] \in Fibers => pc'[cur'[v]] \in Aboard
    BY <1>4, <2>1 DEF OwnInv, CarryInv
  <2>3. \A u, v \in Workers : cur'[v] \in Fibers /\ cur'[u] = cur'[v] => u = v
    BY <2>1 DEF OwnInv, CarryInv
  <2>4. \A g \in Fibers : pc'[g] \in Aboard => \E v \in Workers : cur'[v] = g
    <3> SUFFICES ASSUME NEW g \in Fibers, pc'[g] \in Aboard PROVE \E v \in Workers : cur'[v] = g
      OBVIOUS
    <3>1. g # f /\ pc[g] \in Aboard
      BY <1>4 DEF Aboard
    <3>2. PICK v \in Workers : cur[v] = g
      BY <3>1 DEF OwnInv, CarryInv
    <3> QED BY <1>3, <2>0, <3>1, <3>2
  <2> QED BY <2>2, <2>3, <2>4 DEF CarryInv
<1>9. QueueInv' /\ ListInv'
  BY <1>1, <1>2, <1>4, <1>5 DEF OwnInv, QueueInv, ListInv
<1>10. HandInv'
  <2>1. HandInv /\ state' = state /\ fibers' = fibers
    BY <1>1 DEF OwnInv
  <2> QED BY <1>6, <2>1, HeldFibers, HandKept
<1>11. PushInv'
  <2>1. PushInv /\ state' = state /\ ready' = ready
    BY <1>1 DEF OwnInv
  <2>2. \A p \in Wakers : waking[p].push # Nobody => waking[p].push # f
    BY <1>2, PushedFibers
  <2> QED BY <1>4, <1>6, <2>1, <2>2, PushedFibers, PushKept
<1>12. FoundInv'
  <2>1. \A g \in Fibers : (OnList(g)' <=> OnList(g)) /\ (InHand(g)' <=> InHand(g))
          /\ (Pushed(g)' <=> Pushed(g))
    BY <1>1, <1>6 DEF OnList, InHand, Pushed
  <2> QED BY <1>1, <1>4, <2>1 DEF OwnInv, FoundInv
<1> QED BY <1>7, <1>8, <1>9, <1>10, <1>11, <1>12

\* The invariant of ownership holds at the start.
LEMMA OwnInvInit == Init => OwnInv
<1> SUFFICES ASSUME Init PROVE OwnInv
  OBVIOUS
<1>0. /\ pc = [a \in Actors |-> IF a = Main THEN "run" ELSE "new"] /\ Main \notin Fibers
      /\ waking = [p \in Wakers |-> NoWake] /\ firing = FALSE
      /\ fibers = [b \in Buckets |-> {}] /\ state = [f \in Fibers |-> "RUNNING"]
      /\ ready = <<>> /\ cur = [w \in Workers |-> "next"] /\ "next" \notin Fibers
  BY Constants DEF Init
<1>1. WakeInv
  BY <1>0 DEF WakeInv, NoWake
<1>2. StateInv /\ CarryInv /\ ListInv
  BY <1>0 DEF StateInv, CarryInv, ListInv, Aboard
<1>3. QueueInv
  BY SMT, <1>0 DEF QueueInv, Once, In
<1>4. HandInv /\ PushInv
  BY <1>0 DEF HandInv, PushInv, NoWake
<1>5. FoundInv
  BY <1>0 DEF FoundInv
<1> QED BY <1>1, <1>2, <1>3, <1>4, <1>5 DEF OwnInv

\* Every step keeps the invariant of ownership.
LEMMA OwnInvStep ==
  ASSUME Types, PlaceInv, OwnInv, [Next]_vars
  PROVE  OwnInv'
<1>1. WakeInv'
  BY WakeInvStep
<1> DEFINE Rest == StateInv /\ CarryInv /\ QueueInv /\ ListInv /\ HandInv /\ PushInv /\ FoundInv
<1>2. Quiet => Rest'
  BY QuietKeeps
<1>3. ASSUME NEW a \in Actors, Act(a) \/ Spurious(a) PROVE Rest'
  BY <1>2, <1>3, QuietSteps, WaitFiberKeeps, SpawnKeeps DEF OwnInv
<1>4. ASSUME NEW p \in Wakers, DoWake(p) PROVE Rest'
  BY <1>2, <1>4, QuietSteps, TakeKeeps, SchedWakeKeeps, PushKeeps DEF OwnInv, DoWake
<1>5. ASSUME NEW w \in Workers, Work(w) PROVE Rest'
  BY <1>2, <1>5, QuietSteps, PopKeeps, ParkKeeps, FiberEndedKeeps DEF OwnInv, Work
<1>6. monitor \/ RunTimer \/ UNCHANGED vars => Quiet
  BY QuietSteps DEF OwnInv
<1>7. Finished => UNCHANGED vars
  BY DEF Finished
<1> HIDE DEF Rest
<1>8. Rest'
  BY <1>2, <1>3, <1>4, <1>5, <1>6, <1>7 DEF Next
<1> QED BY <1>1, <1>8 DEF OwnInv, Rest

\* The inductive invariant of the types and of ownership holds in every run.
THEOREM Ownership == Spec => [](Types /\ Flags /\ PlaceInv /\ OwnInv)
<1>1. Init => Types /\ Flags /\ PlaceInv /\ OwnInv
  BY InitTypes, OwnInvInit
<1>2. Types /\ Flags /\ PlaceInv /\ OwnInv /\ [Next]_vars => (Types /\ Flags /\ PlaceInv /\ OwnInv)'
  BY TypesStep, OwnInvStep
<1> QED BY <1>1, <1>2, PTL DEF Spec

-----------------------------------------------------------------------------
\* The owners of a fiber in the terms of the ownership invariant.
LEMMA OwnersAre ==
  ASSUME Types, OwnInv, NEW f \in Fibers
  PROVE  /\ \A i, j \in Queued(f) : i = j
         /\ \A v, w \in Carriers(f) : v = w
         /\ \A b, c \in Listed(f) : b = c
         /\ \A p, q \in HeldBy(f) : p = q
         /\ \A p, q \in PushedBy(f) : p = q
         /\ Queued(f) # {} <=> In(f, ready)
         /\ Carriers(f) # {} => pc[f] \in Aboard
         /\ Listed(f) # {} <=> OnList(f)
         /\ HeldBy(f) # {} <=> InHand(f)
         /\ PushedBy(f) # {} <=> Pushed(f)
         /\ In(f, ready) => pc[f] \in {"ready", "parked"} /\ state[f] \in {"RUNNING", "WOKEN"}
         /\ OnList(f) \/ InHand(f) => state[f] \in {"PARKING", "PARKED"}
         /\ Pushed(f) => pc[f] = "parked" /\ state[f] = "WOKEN" /\ ~In(f, ready)
         /\ ~(OnList(f) /\ InHand(f))
         /\ pc[f] \in Aboard => state[f] # "PARKED"
<1>0. /\ ready \in Seq(Fibers) /\ cur \in [Workers -> Fibers \cup NoFiber] /\ waking \in [Wakers -> WakeCalls]
      /\ fibers \in [Buckets -> SUBSET (Fibers \X Words)] /\ Nobody \notin Fibers
      /\ state \in [Fibers -> {"RUNNING", "PARKING", "PARKED", "WOKEN"}]
  BY Constants DEF Types, SchedTypes, TableTypes
<1>1. /\ \A i, j \in Queued(f) : i = j
      /\ \A v, w \in Carriers(f) : v = w
      /\ \A b, c \in Listed(f) : b = c
      /\ \A p, q \in HeldBy(f) : p = q
      /\ \A p, q \in PushedBy(f) : p = q
  <2>1. \A i, j \in Queued(f) : i = j
    BY SMT DEF Queued, OwnInv, QueueInv, Once
  <2>2. \A v, w \in Carriers(f) : v = w
    BY SMTT(30) DEF Carriers, OwnInv, CarryInv
  <2>3. \A b, c \in Listed(f) : b = c
    <3>1. \A b \in Listed(f) : \E e \in fibers[b] : e[1] = f
      BY DEF Listed
    <3>2. \A b \in Listed(f) : b \in Buckets /\ b = Bkt(f)
      BY SMT, <3>1 DEF Listed, OwnInv, ListInv
    <3> QED BY <3>2
  <2>4. \A p, q \in HeldBy(f) : p = q
    BY DEF HeldBy, OwnInv, HandInv
  <2>5. \A p, q \in PushedBy(f) : p = q
    BY SMT, <1>0 DEF PushedBy, OwnInv, PushInv
  <2> QED BY <2>1, <2>2, <2>3, <2>4, <2>5
<1>2. /\ Queued(f) # {} <=> In(f, ready)
      /\ Carriers(f) # {} => pc[f] \in Aboard
      /\ Listed(f) # {} <=> OnList(f)
      /\ HeldBy(f) # {} <=> InHand(f)
      /\ PushedBy(f) # {} <=> Pushed(f)
  <2>1. Queued(f) # {} <=> In(f, ready)
    BY DEF Queued, In
  <2>2. Carriers(f) # {} => pc[f] \in Aboard
    BY DEF Carriers, OwnInv, CarryInv
  <2>3. Listed(f) # {} <=> OnList(f)
    <3>1. ASSUME Listed(f) # {} PROVE OnList(f)
      <4>1. PICK b \in Buckets, w \in Words : <<f, w>> \in fibers[b]
        BY <3>1 DEF Listed
      <4> QED BY <4>1 DEF OnList
    <3>2. ASSUME OnList(f) PROVE Listed(f) # {}
      <4>1. PICK b \in Buckets : \E e \in fibers[b] : e[1] = f
        BY <3>2 DEF OnList
      <4>2. PICK e \in fibers[b] : e[1] = f
        BY <4>1
      <4>3. e[2] \in Words /\ e = <<f, e[2]>>
        BY SMT, <1>0, <4>2
      <4> QED BY <4>2, <4>3 DEF Listed
    <3> QED BY <3>1, <3>2
  <2>4. (HeldBy(f) # {} <=> InHand(f)) /\ (PushedBy(f) # {} <=> Pushed(f))
    BY DEF HeldBy, InHand, PushedBy, Pushed
  <2> QED BY <2>1, <2>2, <2>3, <2>4
<1>3. /\ In(f, ready) => pc[f] \in {"ready", "parked"} /\ state[f] \in {"RUNNING", "WOKEN"}
      /\ OnList(f) \/ InHand(f) => state[f] \in {"PARKING", "PARKED"}
      /\ Pushed(f) => pc[f] = "parked" /\ state[f] = "WOKEN" /\ ~In(f, ready)
      /\ ~(OnList(f) /\ InHand(f))
      /\ pc[f] \in Aboard => state[f] # "PARKED"
  <2>1. In(f, ready) => pc[f] \in {"ready", "parked"} /\ state[f] \in {"RUNNING", "WOKEN"}
    BY DEF OwnInv, QueueInv, StateInv
  <2>2. OnList(f) \/ InHand(f) => state[f] \in {"PARKING", "PARKED"}
    BY DEF OnList, InHand, OwnInv, ListInv, HandInv
  <2>3. Pushed(f) => pc[f] = "parked" /\ state[f] = "WOKEN" /\ ~In(f, ready)
    BY SMT, <1>0 DEF Pushed, OwnInv, PushInv
  <2>4. ~(OnList(f) /\ InHand(f))
    BY DEF OnList, InHand, OwnInv, HandInv
  <2>5. pc[f] \in Aboard => state[f] # "PARKED"
    BY DEF OwnInv, StateInv, Aboard
  <2> QED BY <2>1, <2>2, <2>3, <2>4, <2>5
<1> QED BY <1>1, <1>2, <1>3

\* What the properties of the wakes say.
LEMMA OwnInvImplies ==
  ASSUME Types, OwnInv
  PROVE  WakeMeetsAParkedFiber /\ NoFiberIsLost
<1>1. WakeMeetsAParkedFiber
  BY DEF WakeMeetsAParkedFiber, OwnInv, HandInv
<1>2. NoFiberIsLost
  <2> SUFFICES ASSUME NEW f \in Fibers
               PROVE  /\ state[f] = "PARKED" => Listed(f) # {} \/ HeldBy(f) # {}
                      /\ state[f] = "WOKEN" => Queued(f) # {} \/ Carriers(f) # {} \/ PushedBy(f) # {}
    BY DEF NoFiberIsLost
  <2>1. state[f] = "WOKEN" => pc[f] \in {"arm", "park", "parked"}
    BY DEF OwnInv, StateInv
  <2>2. pc[f] \in {"arm", "park"} => Carriers(f) # {}
    BY DEF OwnInv, CarryInv, Aboard, Carriers
  <2> QED BY OwnersAre, <2>1, <2>2 DEF OwnInv, FoundInv
<1> QED BY <1>1, <1>2

\* sched::wake never meets a fiber that runs or that was woken, so its unreachable! is.
THEOREM WakesMeetParkedFibers == Spec => []WakeMeetsAParkedFiber
BY Ownership, OwnInvImplies, PTL

\* The race of a wake with the worker of a fiber that parks never loses the fiber.
THEOREM FibersAreKept == Spec => []NoFiberIsLost
BY Ownership, OwnInvImplies, PTL

-----------------------------------------------------------------------------
\* The call j of a is a join: a wait with no deadline and no cancel.
Joined(a, j) == prog[a][j].op = "await" /\ ~prog[a][j].timed /\ ~prog[a][j].or_cancel

\* A wait that ended with no deadline and no cancel saw its word, and only the end
\* of a task sets its done word.
JoinInv ==
  /\ \A a \in Actors : ip[a] <= Len(prog[a]) + 1
  /\ \A a \in Actors : \A j \in 1..(ip[a] - 1) : Joined(a, j) => word[prog[a][j].on] = 1
  /\ \A t \in Tasks : word[t] = 1 => pc[t] \in {"waking", "ended"} /\ Over(t)
  /\ \A f \in freed : word[f] = 1

\* An actor that wakes is in a call that wakes, or ends.
CallInv == \A a \in Actors : pc[a] = "waking" /\ ~Over(a) => Call(a).op \in {"signal", "cancel"}

\* The shape of a step for JoinInv: a word that is set stays set, the calls before
\* ip are the old ones and perhaps the call at ip, and an ended task stays ended.
JoinShape ==
  /\ prog' = prog
  /\ \A w \in Words : word[w] = 1 => word'[w] = 1
  /\ \A a \in Actors : ip'[a] = ip[a]
       \/ (ip'[a] = ip[a] + 1 /\ ~Over(a) /\ (Joined(a, ip[a]) => word[On(a)] = 1))
  /\ \A t \in Tasks : word'[t] = 1 => pc'[t] \in {"waking", "ended"} /\ Over(t)
  /\ \A f \in freed' : f \in freed \/ word[f] = 1

\* Every step keeps an actor that wakes in a call that wakes, or at its end.
LEMMA CallInvStep ==
  ASSUME Types, PlaceInv, OwnInv, CallInv, [Next]_vars
  PROVE  CallInv'
<1>0. pc \in [Actors -> Places] /\ ip \in [Actors -> Nat \ {0}]
  BY DEF Types, ProgTypes
<1> USE <1>0, Constants DEF CallInv, Over, Call
<1>1. ASSUME NEW a \in Actors, Await(a) PROVE CallInv'
  BY <1>1 DEF Await
<1>2. ASSUME NEW a \in Actors, wait_check(a) PROVE CallInv'
  BY <1>2 DEF wait_check
<1>3. ASSUME NEW a \in Actors, wait_fiber(a) PROVE CallInv'
  BY <1>3 DEF wait_fiber
<1>4. ASSUME NEW a \in Actors, wake_at(a) PROVE CallInv'
  BY <1>4 DEF wake_at
<1>5. ASSUME NEW a \in Actors, wait_thread_timed(a) PROVE CallInv'
  BY <1>5 DEF wait_thread_timed
<1>6. ASSUME NEW a \in Actors, wait_thread(a) PROVE CallInv'
  BY <1>6 DEF wait_thread
<1>7. ASSUME NEW a \in Actors, Notified(a) PROVE CallInv'
  BY <1>7 DEF Notified, wait_return
<1>8. ASSUME NEW a \in Actors, TimedOut(a) PROVE CallInv'
  BY <1>8 DEF TimedOut, wait_return
<1>9. ASSUME NEW a \in Actors, Spurious(a) PROVE CallInv'
  BY <1>9 DEF Spurious, wait_return
<1>10. ASSUME NEW a \in Actors, signal(a) PROVE CallInv'
  BY <1>10 DEF signal
<1>11. ASSUME NEW a \in Actors, cancel(a) PROVE CallInv'
  BY <1>11 DEF cancel
<1>12. ASSUME NEW a \in Actors, WakeReturns(a) PROVE CallInv'
  BY <1>12 DEF WakeReturns
<1>13. ASSUME NEW a \in Actors, spawn(a) PROVE CallInv'
  <2>1. /\ pc[a] = "run" /\ UNCHANGED prog /\ ip' = [ip EXCEPT ![a] = ip[a] + 1]
        /\ pc' \in {[pc EXCEPT ![On(a)] = "ready"], [pc EXCEPT ![On(a)] = "run"]}
    BY <1>13 DEF spawn
  <2> QED BY <2>1
<1>14. ASSUME NEW a \in Actors, task_ends(a) PROVE CallInv'
  BY <1>14 DEF task_ends
<1>15. ASSUME NEW a \in Actors, thread_ended(a) PROVE CallInv'
  BY <1>15 DEF thread_ended
<1>16. ASSUME NEW a \in Actors, free(a) PROVE CallInv'
  BY <1>16 DEF free
<1>17. ASSUME NEW a \in Actors, vx_callback(a) PROVE CallInv'
  BY <1>17 DEF vx_callback
<1>18. ASSUME NEW p \in Wakers, wake_notify_all(p) PROVE CallInv'
  BY <1>18 DEF wake_notify_all
<1>19. ASSUME NEW w \in Workers, pop(w) PROVE CallInv'
  <2>1. Head(ready) \in Fibers /\ pc[Head(ready)] \in {"ready", "parked"}
    BY <1>19, QueueTail DEF pop, Types, SchedTypes, OwnInv, QueueInv
  <2> QED BY <1>19, <2>1 DEF pop
<1>20. ASSUME NEW w \in Workers, park(w) PROVE CallInv'
  BY <1>20 DEF park
<1>21. ASSUME NEW w \in Workers, fiber_ended(w) PROVE CallInv'
  BY <1>21 DEF fiber_ended
<1>22. ASSUME NEW a \in Actors, NextBucket(a) PROVE CallInv'
  BY <1>22 DEF NextBucket
<1>23. ASSUME NEW p \in Wakers, wake_progress(p) \/ wake_under_the_lock(p) \/ push(p) PROVE CallInv'
  BY <1>23 DEF wake_progress, wake_under_the_lock, push
<1>24. ASSUME NEW p \in Wakers, NEW f \in Fibers, sched_wake(p, f) PROVE CallInv'
  BY <1>24 DEF sched_wake
<1>25. ASSUME NEW w \in Workers, pop_waits(w) \/ leave(w) PROVE CallInv'
  BY <1>25 DEF pop_waits, leave
<1>26. ASSUME NEW e \in Entries, expire(e) \/ timer_fire(e) PROVE CallInv'
  BY <1>26 DEF expire, timer_fire
<1>27. ASSUME timer_fired \/ monitor \/ Finished PROVE CallInv'
  BY <1>27 DEF timer_fired, monitor, Finished, vars
<1>28. CASE UNCHANGED vars
  BY <1>28 DEF vars
<1> QED
  BY <1>1, <1>2, <1>3, <1>4, <1>5, <1>6, <1>7, <1>8, <1>9, <1>10, <1>11, <1>12, <1>13, <1>14, <1>15, <1>16,
     <1>17, <1>18, <1>19, <1>20, <1>21, <1>22, <1>23, <1>24, <1>25, <1>26, <1>27, <1>28
     DEF Next, Act, DoWake, Work, RunTimer

\* Every step has the shape that JoinInv needs.
LEMMA JoinSteps ==
  ASSUME Types, PlaceInv, OwnInv, CallInv, JoinInv, [Next]_vars
  PROVE  JoinShape
<1>0. /\ pc \in [Actors -> Places] /\ ip \in [Actors -> Nat \ {0}]
      /\ word \in [Words -> {0, 1}] /\ prog \in Programs
  BY DEF Types, ProgTypes
<1>1. ASSUME NEW a \in Actors, Await(a) PROVE JoinShape
  <2>1. Satisfied(a) /\ Joined(a, ip[a]) => word[On(a)] = 1
    BY <1>0, <1>1, CallType DEF Await, Satisfied, Joined, Call, On, Over
  <2>2. ~Over(a) /\ pc[a] = "run" /\ UNCHANGED <<prog, word, freed>>
          /\ pc' \in {pc, [pc EXCEPT ![a] = "wait"]}
    BY <1>1 DEF Await
  <2>3. ip' = ip \/ (ip' = [ip EXCEPT ![a] = ip[a] + 1] /\ Satisfied(a))
    BY <1>1 DEF Await
  <2>4. ASSUME NEW c \in Actors
        PROVE  \/ ip'[c] = ip[c]
               \/ ip'[c] = ip[c] + 1 /\ ~Over(c) /\ (Joined(c, ip[c]) => word[On(c)] = 1)
    <3>1. CASE ip' = ip
      BY <3>1
    <3>2. CASE ip' = [ip EXCEPT ![a] = ip[a] + 1] /\ Satisfied(a)
      <4>1. c # a => ip'[c] = ip[c]
        BY <1>0, <3>2
      <4>2. c = a => ip'[c] = ip[c] + 1
        BY <1>0, <3>2
      <4> QED BY <2>1, <2>2, <3>2, <4>1, <4>2
    <3> QED BY <2>3, <3>1, <3>2
  <2>5. \A t \in Tasks : word[t] = 1 => pc'[t] \in {"waking", "ended"} /\ Over(t)
    <3>1. \A t \in Tasks : word[t] = 1 => pc[t] \in {"waking", "ended"} /\ Over(t)
      BY DEF JoinInv
    <3>2. \A t \in Tasks : t # a => pc'[t] = pc[t]
      BY <1>0, <2>2
    <3> QED BY <2>2, <3>1, <3>2
  <2> QED BY <2>2, <2>4, <2>5 DEF JoinShape
<1> USE <1>0, Constants DEF JoinInv, JoinShape
<1>2. ASSUME NEW a \in Actors, wait_check(a) PROVE JoinShape
  BY <1>2 DEF wait_check
<1>3. ASSUME NEW a \in Actors, wait_fiber(a) PROVE JoinShape
  BY <1>3 DEF wait_fiber
<1>4. ASSUME NEW a \in Actors, wake_at(a) PROVE JoinShape
  BY <1>4 DEF wake_at
<1>5. ASSUME NEW a \in Actors, wait_thread_timed(a) PROVE JoinShape
  BY <1>5 DEF wait_thread_timed
<1>6. ASSUME NEW a \in Actors, wait_thread(a) PROVE JoinShape
  BY <1>6 DEF wait_thread
<1>7. ASSUME NEW a \in Actors, Notified(a) PROVE JoinShape
  BY <1>7 DEF Notified, wait_return
<1>8. ASSUME NEW a \in Actors, TimedOut(a) PROVE JoinShape
  BY <1>8 DEF TimedOut, wait_return
<1>9. ASSUME NEW a \in Actors, Spurious(a) PROVE JoinShape
  BY <1>9 DEF Spurious, wait_return
<1>10. ASSUME NEW a \in Actors, signal(a) PROVE JoinShape
  <2>1. /\ On(a) \in UserWords /\ On(a) \notin Actors /\ pc[a] = "run" /\ UNCHANGED <<prog, ip, freed>>
        /\ word' = [word EXCEPT ![On(a)] = 1] /\ pc' = [pc EXCEPT ![a] = "waking"]
    BY CallType, <1>10 DEF signal, Calls, Call, On
  <2> HIDE DEF Joined
  <2> QED BY <2>1
<1>11. ASSUME NEW a \in Actors, cancel(a) PROVE JoinShape
  BY <1>11 DEF cancel
<1>12. ASSUME NEW a \in Actors, WakeReturns(a) PROVE JoinShape
  <2>1. /\ pc[a] = "waking" /\ ~Over(a) /\ UNCHANGED <<prog, word, freed>>
        /\ ip' = [ip EXCEPT ![a] = ip[a] + 1] /\ pc' = [pc EXCEPT ![a] = "run"]
    BY <1>12 DEF WakeReturns, WakeIsOver, OwnInv, WakeInv
  <2>2. Call(a).op # "await"
    BY <1>12, <2>1 DEF CallInv
  <2> QED BY <2>1, <2>2 DEF Joined, Call
<1>13. ASSUME NEW a \in Actors, spawn(a) PROVE JoinShape
  <2>1. /\ ~Over(a) /\ pc[a] = "run" /\ Call(a).op = "spawn" /\ pc[On(a)] = "new"
             /\ UNCHANGED <<prog, word, freed>>
        /\ ip' = [ip EXCEPT ![a] = ip[a] + 1]
        /\ pc' \in {[pc EXCEPT ![On(a)] = "ready"], [pc EXCEPT ![On(a)] = "run"]}
    BY <1>13 DEF spawn
  <2>2. ~Joined(a, ip[a])
    BY <2>1 DEF Joined, Call
  <2> QED BY <2>1, <2>2
<1>14. ASSUME NEW a \in Actors, task_ends(a) PROVE JoinShape
  BY <1>14 DEF task_ends
<1>15. ASSUME NEW a \in Actors, thread_ended(a) PROVE JoinShape
  BY <1>15 DEF thread_ended, WakeIsOver, OwnInv, WakeInv
<1>16. ASSUME NEW a \in Actors, free(a) PROVE JoinShape
  <2>1. /\ ~Over(a) /\ Call(a).op = "free" /\ UNCHANGED <<prog, pc, word>>
        /\ ip' = [ip EXCEPT ![a] = ip[a] + 1] /\ freed' = freed \cup ({On(a)} \cap Fibers)
    BY <1>16 DEF free
  <2>2. ~Joined(a, ip[a])
    BY <2>1 DEF Joined, Call
  <2>3. PICK j \in 1..(ip[a] - 1) : Joined(a, j) /\ prog[a][j].on = On(a)
    <3>1. JoinsBeforeFree(prog)
      BY RuntimeAssumption
    <3>2. ip[a] \in 1..Len(prog[a]) /\ prog[a][ip[a]].op = "free" /\ On(a) = prog[a][ip[a]].on
      BY <2>1, CallType DEF Call, On
    <3>3. PICK j \in 1..(ip[a] - 1) : /\ prog[a][j].op = "await" /\ prog[a][j].on = prog[a][ip[a]].on
                                      /\ ~prog[a][j].timed /\ ~prog[a][j].or_cancel
      BY <3>1, <3>2 DEF JoinsBeforeFree
    <3> QED BY <3>2, <3>3 DEF Joined
  <2>4. word[On(a)] = 1
    BY <2>3
  <2> QED BY <2>1, <2>2, <2>4
<1>17. ASSUME NEW a \in Actors, vx_callback(a) PROVE JoinShape
  <2>1. /\ ~Over(a) /\ Call(a).op # "await" /\ UNCHANGED <<prog, pc, word, freed>>
        /\ ip' = [ip EXCEPT ![a] = ip[a] + 1]
    BY <1>17 DEF vx_callback
  <2>2. ~Joined(a, ip[a])
    BY <2>1 DEF Joined, Call
  <2> QED BY <2>1, <2>2
<1>18. ASSUME NEW p \in Wakers, wake_notify_all(p) PROVE JoinShape
  BY <1>18 DEF wake_notify_all
<1>19. ASSUME NEW w \in Workers, pop(w) PROVE JoinShape
  <2>1. Head(ready) \in Fibers /\ pc[Head(ready)] \in {"ready", "parked"}
    BY <1>19, QueueTail DEF pop, Types, SchedTypes, OwnInv, QueueInv
  <2> QED BY <1>19, <2>1 DEF pop
<1>20. ASSUME NEW w \in Workers, park(w) PROVE JoinShape
  BY <1>20 DEF park
<1>21. ASSUME NEW w \in Workers, fiber_ended(w) PROVE JoinShape
  BY <1>21 DEF fiber_ended, WakeIsOver, OwnInv, WakeInv
<1>22. ASSUME NEW a \in Actors, NextBucket(a) PROVE JoinShape
  BY <1>22 DEF NextBucket
<1>23. ASSUME NEW p \in Wakers, wake_progress(p) \/ wake_under_the_lock(p) \/ push(p) PROVE JoinShape
  BY <1>23 DEF wake_progress, wake_under_the_lock, push
<1>24. ASSUME NEW p \in Wakers, NEW f \in Fibers, sched_wake(p, f) PROVE JoinShape
  BY <1>24 DEF sched_wake
<1>25. ASSUME NEW w \in Workers, pop_waits(w) \/ leave(w) PROVE JoinShape
  BY <1>25 DEF pop_waits, leave
<1>26. ASSUME NEW e \in Entries, expire(e) \/ timer_fire(e) PROVE JoinShape
  BY <1>26 DEF expire, timer_fire
<1>27. ASSUME timer_fired \/ monitor \/ Finished PROVE JoinShape
  BY <1>27 DEF timer_fired, monitor, Finished, vars
<1>28. CASE UNCHANGED vars
  BY <1>28 DEF vars
<1> QED
  BY <1>1, <1>2, <1>3, <1>4, <1>5, <1>6, <1>7, <1>8, <1>9, <1>10, <1>11, <1>12, <1>13, <1>14, <1>15, <1>16,
     <1>17, <1>18, <1>19, <1>20, <1>21, <1>22, <1>23, <1>24, <1>25, <1>26, <1>27, <1>28
     DEF Next, Act, DoWake, Work, RunTimer

\* Every step keeps JoinInv.
LEMMA JoinInvStep ==
  ASSUME Types, PlaceInv, OwnInv, CallInv, JoinInv, [Next]_vars
  PROVE  JoinInv'
<1>0. /\ JoinShape /\ ip \in [Actors -> Nat \ {0}] /\ word \in [Words -> {0, 1}]
      /\ freed \subseteq Fibers /\ Fibers \subseteq Tasks
  BY JoinSteps, Constants DEF Types, ProgTypes, SchedTypes
<1>4. \A a \in Actors : prog[a] \in Seq(Calls) /\ Len(prog[a]) \in Nat
  <2>1. prog \in [Actors -> Seq(Calls)]
    BY RuntimeAssumption DEF Types, ProgTypes
  <2>2. ASSUME NEW a \in Actors PROVE prog[a] \in Seq(Calls) /\ Len(prog[a]) \in Nat
    <3>1. prog[a] \in Seq(Calls)
      BY <2>1
    <3> QED BY SMT, <3>1
  <2> QED BY <2>2
<1>5. ASSUME NEW a \in Actors PROVE ip'[a] <= Len(prog'[a]) + 1
  <2>1. ip[a] \in Nat /\ Len(prog[a]) \in Nat /\ prog' = prog /\ ip[a] <= Len(prog[a]) + 1
    BY <1>0, <1>4 DEF JoinShape, JoinInv
  <2>2. ip'[a] = ip[a] \/ (ip'[a] = ip[a] + 1 /\ ~(ip[a] > Len(prog[a])))
    BY <1>0 DEF JoinShape, Over
  <2> QED BY SMT, <2>1, <2>2
<1>1. ASSUME NEW a \in Actors, NEW j \in 1..(ip'[a] - 1), Joined(a, j)' PROVE word'[prog'[a][j].on] = 1
  <2>1. prog' = prog /\ Joined(a, j)
    BY <1>0, <1>1 DEF JoinShape, Joined
  <2>2. word[prog[a][j].on] = 1
    <3>1. CASE j \in 1..(ip[a] - 1)
      BY <2>1, <3>1 DEF JoinInv
    <3>2. CASE j = ip[a] /\ ip'[a] = ip[a] + 1
      <4>1. Joined(a, ip[a]) => word[On(a)] = 1
        <5>1. ip'[a] # ip[a]
          BY SMT, <1>0, <3>2
        <5> QED BY <1>0, <5>1 DEF JoinShape
      <4>2. On(a) = prog[a][j].on
        BY <3>2 DEF On, Call
      <4> QED BY <2>1, <3>2, <4>1, <4>2
    <3>3. ip'[a] = ip[a] \/ ip'[a] = ip[a] + 1
      BY <1>0 DEF JoinShape
    <3>4. ip[a] \in Nat /\ j \in 1..(ip'[a] - 1)
      BY <1>0
    <3>5. j \in 1..(ip[a] - 1) \/ (j = ip[a] /\ ip'[a] = ip[a] + 1)
      BY SMT, <3>3, <3>4
    <3> QED BY <3>1, <3>2, <3>5
  <2>3. prog[a][j].on \in Words
    <3>1. j \in 1..Len(prog[a]) /\ prog[a] \in Seq(Calls)
      BY SMTT(30), <1>0, <1>4, <1>5 DEF JoinShape
    <3>2. prog[a][j] \in Calls
      BY SMT, <3>1
    <3> QED BY <2>1, <3>2 DEF Joined, Calls
  <2> QED BY <1>0, <2>1, <2>2, <2>3 DEF JoinShape
<1>2. ASSUME NEW t \in Tasks, word'[t] = 1 PROVE pc'[t] \in {"waking", "ended"} /\ Over(t)'
  BY <1>0, <1>2 DEF JoinShape, Over
<1>3. ASSUME NEW f \in freed' PROVE word'[f] = 1
  <2>1. word[f] = 1
    BY <1>0, <1>3 DEF JoinShape, JoinInv
  <2>2. f \in Words
    BY <1>0, SchedTypesStep DEF SchedTypes
  <2> QED BY <1>0, <2>1, <2>2 DEF JoinShape
<1> QED BY <1>1, <1>2, <1>3, <1>5 DEF JoinInv

\* CallInv and JoinInv hold at the start.
LEMMA JoinInvInit == Init => CallInv /\ JoinInv
<1> SUFFICES ASSUME Init PROVE CallInv /\ JoinInv
  OBVIOUS
<1>0. /\ pc = [a \in Actors |-> IF a = Main THEN "run" ELSE "new"] /\ ip = [a \in Actors |-> 1]
      /\ word = [w \in Words |-> 0] /\ freed = {} /\ prog \in Programs
  BY DEF Init
<1>1. ASSUME NEW a \in Actors PROVE Len(prog[a]) \in Nat
  <2>1. prog[a] \in Seq(Calls)
    BY <1>0, RuntimeAssumption
  <2> QED BY SMT, <2>1
<1>2. ASSUME NEW a \in Actors PROVE ip[a] <= Len(prog[a]) + 1 /\ 1..(ip[a] - 1) = {}
  <2>1. ip[a] = 1
    BY <1>0
  <2> QED BY SMT, <1>1, <2>1
<1>3. CallInv
  BY <1>0 DEF CallInv
<1>4. \A a \in Actors : \A j \in 1..(ip[a] - 1) : Joined(a, j) => word[prog[a][j].on] = 1
  BY <1>2
<1>5. \A t \in Tasks : word[t] # 1
  BY SMT, <1>0
<1> QED BY <1>0, <1>2, <1>3, <1>4, <1>5 DEF JoinInv

\* A fiber whose done word is set has ended, and so has no owner but its worker.
LEMMA NoUseAfterFreeHolds ==
  ASSUME Types, OwnInv, JoinInv
  PROVE  NoUseAfterFree
<1> SUFFICES ASSUME NEW f \in freed
             PROVE  /\ Queued(f) = {} /\ Listed(f) = {} /\ HeldBy(f) = {} /\ PushedBy(f) = {}
                    /\ Carriers(f) # {} => pc[f] = "waking"
  BY DEF NoUseAfterFree
<1>0. /\ f \in Fibers /\ f \in Tasks /\ ready \in Seq(Fibers)
      /\ fibers \in [Buckets -> SUBSET (Fibers \X Words)] /\ Nobody \notin Fibers
  BY Constants DEF Types, SchedTypes, TableTypes
<1>1. pc[f] \in {"waking", "ended"}
  BY <1>0 DEF JoinInv
<1>2. state[f] = "RUNNING"
  BY <1>0, <1>1 DEF OwnInv, StateInv
<1>3. Queued(f) = {}
  BY <1>0, <1>1 DEF Queued, OwnInv, QueueInv, In
<1>4. Listed(f) = {} /\ HeldBy(f) = {}
  <2>1. ~OnList(f) /\ ~InHand(f)
    BY <1>2 DEF OnList, InHand, OwnInv, ListInv, HandInv
  <2>2. \A b \in Buckets, w \in Words : <<f, w>> \in fibers[b] => OnList(f)
    BY DEF OnList
  <2> QED BY <2>1, <2>2 DEF Listed, HeldBy, InHand
<1>5. PushedBy(f) = {}
  BY <1>0, <1>2 DEF PushedBy, OwnInv, PushInv
<1>6. Carriers(f) # {} => pc[f] = "waking"
  BY SMT, <1>0, <1>1 DEF Carriers, OwnInv, CarryInv, Aboard
<1> QED BY <1>3, <1>4, <1>5, <1>6

\* After vx_tasks_end joined a task and dropped its fiber, nothing has the fiber but
\* its worker, which is past its last use of it.
THEOREM FreedFibersAreNotUsed == Spec => []NoUseAfterFree
<1> DEFINE Inv == Types /\ Flags /\ PlaceInv /\ OwnInv
<1>1. Spec => []Inv
  BY Ownership
<1>2. Init => CallInv /\ JoinInv
  BY JoinInvInit
<1>3. Inv /\ CallInv /\ JoinInv /\ [Next]_vars => (CallInv /\ JoinInv)'
  BY CallInvStep, JoinInvStep
<1>4. Inv /\ JoinInv => NoUseAfterFree
  BY NoUseAfterFreeHolds
<1> QED BY <1>1, <1>2, <1>3, <1>4, PTL DEF Spec

-----------------------------------------------------------------------------
\* No wake is lost.

\* The lock of a bucket is held from the check of a wait to its commit.
LockInv ==
  /\ \A a \in Actors : pc[a] = "commit" => lock[Bkt(a)] = a
  /\ \A b \in Buckets : lock[b] # Nobody => pc[lock[b]] = "commit" /\ Bkt(lock[b]) = b

\* Only a cancel wakes every bucket.
EveryInv ==
  /\ waking[Timer].at # "no" => waking[Timer].of # Nobody
  /\ \A a \in Actors : waking[a].at # "no" /\ waking[a].of = Nobody => ~Over(a)

\* A waiter that a wake has to find: it has checked, and no wake of its bucket came since.
Due(a) ==
  \/ pc[a] = "commit"
  \/ pc[a] \in {"sleep", "notified"} /\ ~woke[a]
  \/ a \in Fibers /\ OnList(a)

Ends(a) == word[On(a)] # 0 \/ (Call(a).or_cancel /\ mark)

WakeKept == \A a \in Actors : Due(a) /\ Ends(a) => WakeComes(On(a))

\* A step after which each waiter that is due was due before.
KeepsDue ==
  /\ prog' = prog
  /\ \A a \in Actors : Due(a)' => Due(a) /\ ip'[a] = ip[a]

\* A waiter that is due is inside an await.
LEMMA DueAwaits ==
  ASSUME Types, PlaceInv, OwnInv, NEW a \in Actors, Due(a)
  PROVE  /\ Awaits(a) /\ On(a) \in Words /\ Bkt(a) \in Buckets
         /\ pc[a] \in {"commit", "sleep", "notified", "arm", "park", "parked"}
<1>1. pc[a] \in {"commit", "sleep", "notified", "arm", "park", "parked"}
  <2>1. CASE a \in Fibers /\ OnList(a)
    BY <2>1 DEF OnList, OwnInv, ListInv, StateInv
  <2> QED BY <2>1 DEF Due
<1>2. Awaits(a)
  BY <1>1 DEF PlaceInv, InWait
<1> QED BY <1>1, <1>2, CallType DEF Awaits

\* Every step keeps the lock of a bucket with the waiter between its check and its
\* commit.
LEMMA LockInvStep ==
  ASSUME Types, PlaceInv, OwnInv, LockInv, [Next]_vars
  PROVE  LockInv'
<1>0. /\ pc \in [Actors -> Places] /\ ip \in [Actors -> Nat \ {0}]
      /\ lock \in [Buckets -> Actors \cup {Nobody}] /\ Nobody \notin Actors
      /\ \A a \in Actors : pc[a] \in InWait => Bkt(a) \in Buckets
  BY Constants, CallType DEF Types, ProgTypes, TableTypes, PlaceInv, Awaits
<1> DEFINE Calm == /\ UNCHANGED <<lock, prog>>
                   /\ \A a \in Actors : /\ pc'[a] = "commit" <=> pc[a] = "commit"
                                        /\ pc[a] = "commit" => ip'[a] = ip[a]
<1>1. ASSUME Calm PROVE LockInv'
  <2>1. \A a \in Actors : pc[a] = "commit" => Bkt(a)' = Bkt(a)
    BY <1>1 DEF Bkt, On, Call
  <2> QED BY <1>0, <1>1, <2>1 DEF LockInv
<1>2. ASSUME NEW a \in Actors, wait_check(a) PROVE LockInv'
  <2>0. pc[a] = "wait" /\ lock[Bkt(a)] = Nobody /\ Bkt(a) \in Buckets /\ UNCHANGED <<prog, ip>>
    BY <1>0, <1>2 DEF wait_check, InWait
  <2>b. \A c \in Actors : Bkt(c)' = Bkt(c)
    BY <2>0 DEF Bkt, On, Call
  <2>1. CASE pc' = [pc EXCEPT ![a] = "run"] /\ UNCHANGED lock
    BY <1>0, <2>0, <2>b, <2>1 DEF LockInv
  <2>2. CASE pc' = [pc EXCEPT ![a] = "commit"] /\ lock' = [lock EXCEPT ![Bkt(a)] = a]
    BY SMT, <1>0, <2>0, <2>b, <2>2 DEF LockInv
  <2> QED BY <1>2, <2>1, <2>2 DEF wait_check, Hold
<1>3. ASSUME NEW a \in Actors, wait_fiber(a) \/ wait_thread_timed(a) \/ wait_thread(a) PROVE LockInv'
  <2>0. /\ pc[a] = "commit" /\ lock' = [lock EXCEPT ![Bkt(a)] = Nobody] /\ UNCHANGED <<prog, ip>>
        /\ \E to \in {"arm", "park", "sleep"} : pc' = [pc EXCEPT ![a] = to]
    BY <1>3 DEF wait_fiber, wait_thread_timed, wait_thread
  <2>1. Bkt(a) \in Buckets /\ \A c \in Actors : Bkt(c)' = Bkt(c)
    BY <1>0, <2>0 DEF Bkt, On, Call, InWait
  <2> QED BY SMT, <1>0, <2>0, <2>1 DEF LockInv
<1> USE <1>0
<1>4. ASSUME NEW a \in Actors, Await(a) PROVE Calm
  BY <1>4 DEF Await
<1>5. ASSUME NEW a \in Actors, wake_at(a) PROVE Calm
  BY <1>5 DEF wake_at
<1>6. ASSUME NEW a \in Actors, Notified(a) PROVE Calm
  BY <1>6 DEF Notified, wait_return
<1>7. ASSUME NEW a \in Actors, TimedOut(a) PROVE Calm
  BY <1>7 DEF TimedOut, wait_return
<1>8. ASSUME NEW a \in Actors, Spurious(a) PROVE Calm
  BY <1>8 DEF Spurious, wait_return
<1>9. ASSUME NEW a \in Actors, signal(a) PROVE Calm
  BY <1>9 DEF signal
<1>10. ASSUME NEW a \in Actors, cancel(a) PROVE Calm
  BY <1>10 DEF cancel
<1>11. ASSUME NEW a \in Actors, NextBucket(a) PROVE Calm
  BY <1>11 DEF NextBucket
<1>12. ASSUME NEW a \in Actors, WakeReturns(a) PROVE Calm
  BY <1>12 DEF WakeReturns, WakeIsOver, OwnInv, WakeInv
<1>13. ASSUME NEW a \in Actors, spawn(a) PROVE Calm
  <2>1. /\ pc[a] = "run" /\ pc[On(a)] = "new" /\ UNCHANGED <<prog, lock>>
             /\ ip' = [ip EXCEPT ![a] = ip[a] + 1]
        /\ pc' \in {[pc EXCEPT ![On(a)] = "ready"], [pc EXCEPT ![On(a)] = "run"]}
    BY <1>13 DEF spawn
  <2> QED BY <2>1
<1>14. ASSUME NEW a \in Actors, task_ends(a) PROVE Calm
  BY <1>14 DEF task_ends
<1>15. ASSUME NEW a \in Actors, thread_ended(a) PROVE Calm
  BY <1>15 DEF thread_ended, WakeIsOver, OwnInv, WakeInv
<1>16. ASSUME NEW a \in Actors, free(a) PROVE Calm
  BY <1>16 DEF free
<1>17. ASSUME NEW a \in Actors, vx_callback(a) PROVE Calm
  BY <1>17 DEF vx_callback
<1>18. ASSUME NEW p \in Wakers, wake_progress(p) PROVE Calm
  BY <1>18 DEF wake_progress
<1>19. ASSUME NEW p \in Wakers, wake_under_the_lock(p) PROVE Calm
  BY <1>19 DEF wake_under_the_lock
<1>20. ASSUME NEW p \in Wakers, wake_notify_all(p) PROVE Calm
  BY <1>20 DEF wake_notify_all
<1>21. ASSUME NEW p \in Wakers, push(p) PROVE Calm
  BY <1>21 DEF push
<1>22. ASSUME NEW p \in Wakers, NEW f \in Fibers, sched_wake(p, f) PROVE Calm
  BY <1>22 DEF sched_wake
<1>23. ASSUME NEW w \in Workers, pop(w) PROVE Calm
  <2>1. Head(ready) \in Fibers /\ pc[Head(ready)] \in {"ready", "parked"}
    BY <1>23, QueueTail DEF pop, Types, SchedTypes, OwnInv, QueueInv
  <2> QED BY <1>23, <2>1 DEF pop
<1>24. ASSUME NEW w \in Workers, pop_waits(w) PROVE Calm
  BY <1>24 DEF pop_waits
<1>25. ASSUME NEW w \in Workers, park(w) PROVE Calm
  BY <1>25 DEF park
<1>26. ASSUME NEW w \in Workers, leave(w) PROVE Calm
  BY <1>26 DEF leave
<1>27. ASSUME NEW w \in Workers, fiber_ended(w) PROVE Calm
  BY <1>27 DEF fiber_ended, WakeIsOver, OwnInv, WakeInv
<1>28. ASSUME monitor \/ RunTimer \/ Finished \/ UNCHANGED vars PROVE Calm
  BY <1>28 DEF monitor, RunTimer, expire, timer_fire, timer_fired, Finished, vars
<1> HIDE DEF Calm
<1> QED
  BY <1>1, <1>2, <1>3, <1>4, <1>5, <1>6, <1>7, <1>8, <1>9, <1>10, <1>11, <1>12, <1>13, <1>14, <1>15, <1>16,
     <1>17, <1>18, <1>19, <1>20, <1>21, <1>22, <1>23, <1>24, <1>25, <1>26, <1>27, <1>28
     DEF Next, Act, DoWake, Work

\* Every step keeps a wake of every bucket one of a cancel.
LEMMA EveryInvStep ==
  ASSUME Types, PlaceInv, OwnInv, EveryInv, [Next]_vars
  PROVE  EveryInv'
<1>0. /\ pc \in [Actors -> Places] /\ ip \in [Actors -> Nat \ {0}] /\ waking \in [Wakers -> WakeCalls]
      /\ Timer \notin Actors /\ Nobody \notin Words
      /\ \A a \in Actors : waking[a].at = "no" <=> pc[a] # "waking"
  BY Constants DEF Types, ProgTypes, OwnInv, WakeInv
<1>1. ASSUME UNCHANGED prog,
             \A p \in Wakers : waking'[p].of = waking[p].of /\ (waking'[p].at = "no" <=> waking[p].at = "no"),
             \A a \in Actors : pc[a] = "waking" => ip'[a] = ip[a]
      PROVE  EveryInv'
  BY <1>0, <1>1 DEF EveryInv, Over
<1> USE <1>0
<1>2. ASSUME NEW a \in Actors, signal(a) PROVE EveryInv'
  BY <1>2, CallType DEF signal, WakeOf, EveryInv, Over
<1>3. ASSUME NEW a \in Actors, cancel(a) PROVE EveryInv'
  BY <1>3 DEF cancel, WakeEvery, EveryInv, Over
<1>4. ASSUME NEW a \in Actors, NextBucket(a) PROVE EveryInv'
  BY <1>4 DEF NextBucket, WakeEvery, WakeIsOver, EveryInv, Over
<1>5. ASSUME NEW a \in Actors, WakeReturns(a) PROVE EveryInv'
  BY <1>5 DEF WakeReturns, NoWake, WakeIsOver, EveryInv, Over
<1>6. ASSUME NEW a \in Actors, task_ends(a) PROVE EveryInv'
  BY <1>6 DEF task_ends, WakeOf, EveryInv, Over
<1>7. ASSUME NEW a \in Actors, thread_ended(a) PROVE EveryInv'
  BY <1>7 DEF thread_ended, NoWake, WakeIsOver, EveryInv, Over
<1>8. ASSUME NEW w \in Workers, fiber_ended(w) PROVE EveryInv'
  BY <1>8 DEF fiber_ended, NoWake, WakeIsOver, EveryInv, Over
<1>9. ASSUME NEW e \in Entries, timer_fire(e) PROVE EveryInv'
  <2>1. e \in heap /\ ProgTypes
    BY <1>9 DEF timer_fire, Types
  <2>3. prog[e[1]][e[2]].on \in Words
    BY <2>1, DeadlineWord
  <2> QED BY <1>9, <2>3 DEF timer_fire, WakeOf, EveryInv, Over
<1>10. ASSUME timer_fired PROVE EveryInv'
  BY <1>10 DEF timer_fired, NoWake, EveryInv, Over
<1>11. ASSUME NEW a \in Actors, Await(a) PROVE EveryInv'
  BY <1>1, <1>11 DEF Await
<1>12. ASSUME NEW a \in Actors, wait_check(a) PROVE EveryInv'
  BY <1>1, <1>12 DEF wait_check
<1>13. ASSUME NEW a \in Actors, wait_fiber(a) PROVE EveryInv'
  BY <1>1, <1>13 DEF wait_fiber
<1>14. ASSUME NEW a \in Actors, wake_at(a) PROVE EveryInv'
  BY <1>1, <1>14 DEF wake_at
<1>15. ASSUME NEW a \in Actors, wait_thread_timed(a) PROVE EveryInv'
  BY <1>1, <1>15 DEF wait_thread_timed
<1>16. ASSUME NEW a \in Actors, wait_thread(a) PROVE EveryInv'
  BY <1>1, <1>16 DEF wait_thread
<1>17. ASSUME NEW a \in Actors, Notified(a) PROVE EveryInv'
  BY <1>1, <1>17 DEF Notified, wait_return
<1>18. ASSUME NEW a \in Actors, TimedOut(a) PROVE EveryInv'
  BY <1>1, <1>18 DEF TimedOut, wait_return
<1>19. ASSUME NEW a \in Actors, Spurious(a) PROVE EveryInv'
  BY <1>1, <1>19 DEF Spurious, wait_return
<1>20. ASSUME NEW a \in Actors, spawn(a) PROVE EveryInv'
  BY <1>1, <1>20 DEF spawn
<1>21. ASSUME NEW a \in Actors, free(a) PROVE EveryInv'
  BY <1>1, <1>21 DEF free
<1>22. ASSUME NEW a \in Actors, vx_callback(a) PROVE EveryInv'
  BY <1>1, <1>22 DEF vx_callback
<1>23. ASSUME NEW p \in Wakers, wake_progress(p) PROVE EveryInv'
  BY SMT, <1>1, <1>23 DEF wake_progress, WakeCalls
<1>24. ASSUME NEW p \in Wakers, wake_under_the_lock(p) PROVE EveryInv'
  <2>1. PICK h : waking' = [waking EXCEPT ![p].at = "notify", ![p].hand = h]
    BY <1>24 DEF wake_under_the_lock
  <2>2. waking[p].at = "take" /\ UNCHANGED <<prog, ip>>
    BY <1>24 DEF wake_under_the_lock
  <2>3. \A q \in Wakers : waking'[q].of = waking[q].of /\ (waking'[q].at = "no" <=> waking[q].at = "no")
    BY SMT, <2>1, <2>2 DEF WakeCalls
  <2> QED BY <1>1, <2>2, <2>3
<1>25. ASSUME NEW p \in Wakers, wake_notify_all(p) PROVE EveryInv'
  BY SMT, <1>1, <1>25 DEF wake_notify_all, WakeCalls
<1>26. ASSUME NEW p \in Wakers, push(p) PROVE EveryInv'
  BY SMT, <1>1, <1>26 DEF push, WakeCalls
<1>27. ASSUME NEW p \in Wakers, NEW f \in Fibers, sched_wake(p, f) PROVE EveryInv'
  BY SMT, <1>1, <1>27 DEF sched_wake, WakeCalls
<1>28. ASSUME NEW w \in Workers, pop(w) \/ pop_waits(w) \/ park(w) \/ leave(w) PROVE EveryInv'
  BY <1>1, <1>28 DEF pop, pop_waits, park, leave
<1>29. ASSUME monitor \/ Finished \/ UNCHANGED vars \/ \E e \in Entries : expire(e) PROVE EveryInv'
  BY <1>1, <1>29 DEF monitor, expire, Finished, vars
<1> QED
  BY <1>2, <1>3, <1>4, <1>5, <1>6, <1>7, <1>8, <1>9, <1>10, <1>11, <1>12, <1>13, <1>14, <1>15, <1>16, <1>17,
     <1>18, <1>19, <1>20, <1>21, <1>22, <1>23, <1>24, <1>25, <1>26, <1>27, <1>28, <1>29
     DEF Next, Act, DoWake, Work, RunTimer

-----------------------------------------------------------------------------
\* A call of `wake` that goes on, or that did not begin.
GoesOn(p) ==
  \/ waking[p].at = "no"
  \/ /\ waking'[p].of = waking[p].of /\ waking'[p].b = waking[p].b /\ waking'[p].at # "no"
     /\ waking[p].at \in {"progress", "take"} => waking'[p].at \in {"progress", "take"}

\* Calls of `wake` that go on will still find what they would have found.
LEMMA ComesKept ==
  ASSUME \A p \in Wakers : GoesOn(p)
  PROVE  \A w \in Words : WakeComes(w) => WakeComes(w)'
<1> SUFFICES ASSUME NEW w \in Words, WakeComes(w) PROVE WakeComes(w)'
  OBVIOUS
<1>1. PICK p \in Wakers :
        \/ waking[p].at \in {"progress", "take"} /\ waking[p].of \in {w, Nobody} /\ waking[p].b = BucketOf[w]
        \/ waking[p].at # "no" /\ waking[p].of = Nobody /\ waking[p].b < BucketOf[w]
  BY DEF WakeComes
<1>2. waking[p].at # "no" /\ GoesOn(p)
  BY <1>1
<1> QED BY <1>1, <1>2 DEF WakeComes, GoesOn

\* A step that makes no waiter due, ends no wait and keeps each wake.
LEMMA KeptByKeepsDue ==
  ASSUME Types, PlaceInv, OwnInv, WakeKept, KeepsDue, UNCHANGED <<word, mark>>,
         \A w \in Words : WakeComes(w) => WakeComes(w)'
  PROVE  WakeKept'
<1> SUFFICES ASSUME NEW a \in Actors, Due(a)', Ends(a)' PROVE WakeComes(On(a))'
  BY DEF WakeKept
<1>1. Due(a) /\ prog' = prog /\ ip'[a] = ip[a]
  BY DEF KeepsDue
<1>2. Call(a)' = Call(a) /\ On(a)' = On(a)
  BY <1>1 DEF Call, On
<1>3. Ends(a) /\ On(a) \in Words
  BY <1>1, <1>2, DueAwaits DEF Ends
<1>4. WakeComes(On(a))
  BY <1>1, <1>3 DEF WakeKept
<1>5. \A w : w = On(a) => (WakeComes(w)' => WakeComes(On(a))')
  BY <1>2 DEF WakeComes
<1> QED BY <1>3, <1>4, <1>5

\* Only the check of a wait makes a waiter due.
LEMMA DueSteps ==
  ASSUME Types, PlaceInv, OwnInv, [Next]_vars
  PROVE  KeepsDue \/ (\E a \in Actors : wait_check(a)) \/ (\E p \in Wakers : wake_under_the_lock(p))
<1>0. /\ pc \in [Actors -> Places] /\ ip \in [Actors -> Nat \ {0}]
      /\ \A a \in Actors : Due(a) => pc[a] \in {"commit", "sleep", "notified", "arm", "park", "parked"}
      /\ \A f \in Fibers : OnList(f) => pc[f] \in {"arm", "park", "parked"}
  <2>1. \A f \in Fibers : OnList(f) => pc[f] \in {"arm", "park", "parked"}
    BY DEF OnList, OwnInv, ListInv, StateInv
  <2> QED BY <2>1, DueAwaits DEF Types, ProgTypes
<1>1. ASSUME fibers' = fibers PROVE \A f \in Fibers : OnList(f)' <=> OnList(f)
  BY <1>1 DEF OnList
<1>2. ASSUME NEW a \in Actors, wait_fiber(a) PROVE KeepsDue
  <2>0. /\ pc[a] = "commit" /\ UNCHANGED <<prog, ip, woke>>
        /\ \E to \in {"arm", "park"} : pc' = [pc EXCEPT ![a] = to]
        /\ fibers' = [fibers EXCEPT ![Bkt(a)] = @ \cup {<<a, On(a)>>}]
        /\ fibers \in [Buckets -> SUBSET (Fibers \X Words)]
    BY <1>2 DEF wait_fiber, Types, TableTypes
  <2>1. \A f \in Fibers : f # a => (OnList(f)' => OnList(f))
    BY SMT, <2>0 DEF OnList
  <2>2. Due(a)
    BY <2>0 DEF Due
  <2> QED BY <1>0, <2>0, <2>1, <2>2 DEF KeepsDue, Due
<1>3. ASSUME NEW a \in Actors, wait_thread(a) PROVE KeepsDue
  <2>0. /\ pc[a] = "commit" /\ UNCHANGED <<prog, ip, fibers>> /\ pc' = [pc EXCEPT ![a] = "sleep"]
        /\ woke' = [woke EXCEPT ![a] = FALSE] /\ woke \in [Actors -> BOOLEAN]
    BY <1>3 DEF wait_thread, Types, TableTypes
  <2>1. Due(a)
    BY <2>0 DEF Due
  <2> QED BY <1>0, <1>1, <2>0, <2>1 DEF KeepsDue, Due
<1>4. ASSUME NEW a \in Actors, pc[a] \in {"sleep", "notified"}, wait_return(a) PROVE KeepsDue
  <2>0. UNCHANGED <<prog, ip, fibers>> /\ pc' = [pc EXCEPT ![a] = "run"] /\ woke' = [woke EXCEPT ![a] = TRUE]
        /\ woke \in [Actors -> BOOLEAN]
    BY <1>4 DEF wait_return, Types, TableTypes
  <2> QED BY <1>0, <1>1, <2>0 DEF KeepsDue, Due
<1>5. ASSUME UNCHANGED <<prog, fibers, woke>>,
             \A a \in Actors :
               /\ pc'[a] = "commit" => pc[a] = "commit"
               /\ pc'[a] \in {"sleep", "notified"} => pc[a] \in {"commit", "sleep", "notified"}
               /\ pc[a] \in {"commit", "sleep", "notified", "arm", "park", "parked"} => ip'[a] = ip[a]
      PROVE  KeepsDue
  BY <1>0, <1>1, <1>5 DEF KeepsDue, Due
<1> USE <1>0
<1>6. ASSUME NEW a \in Actors, Await(a) PROVE KeepsDue
  BY <1>5, <1>6 DEF Await
<1>7. ASSUME NEW a \in Actors, wake_at(a) PROVE KeepsDue
  BY <1>5, <1>7 DEF wake_at
<1>8. ASSUME NEW a \in Actors, wait_thread_timed(a) PROVE KeepsDue
  BY <1>5, <1>8 DEF wait_thread_timed
<1>9. ASSUME NEW a \in Actors, signal(a) PROVE KeepsDue
  BY <1>5, <1>9 DEF signal
<1>10. ASSUME NEW a \in Actors, cancel(a) PROVE KeepsDue
  BY <1>5, <1>10 DEF cancel
<1>11. ASSUME NEW a \in Actors, NextBucket(a) PROVE KeepsDue
  BY <1>5, <1>11 DEF NextBucket
<1>12. ASSUME NEW a \in Actors, WakeReturns(a) PROVE KeepsDue
  BY <1>5, <1>12 DEF WakeReturns, WakeIsOver, OwnInv, WakeInv
<1>13. ASSUME NEW a \in Actors, spawn(a) PROVE KeepsDue
  <2>1. /\ pc[a] = "run" /\ pc[On(a)] = "new" /\ UNCHANGED <<prog, fibers, woke>>
             /\ ip' = [ip EXCEPT ![a] = ip[a] + 1]
        /\ pc' \in {[pc EXCEPT ![On(a)] = "ready"], [pc EXCEPT ![On(a)] = "run"]}
    BY <1>13 DEF spawn
  <2> QED BY <1>5, <2>1
<1>14. ASSUME NEW a \in Actors, task_ends(a) PROVE KeepsDue
  BY <1>5, <1>14 DEF task_ends
<1>15. ASSUME NEW a \in Actors, thread_ended(a) PROVE KeepsDue
  BY <1>5, <1>15 DEF thread_ended, WakeIsOver, OwnInv, WakeInv
<1>16. ASSUME NEW a \in Actors, free(a) PROVE KeepsDue
  BY <1>5, <1>16 DEF free
<1>17. ASSUME NEW a \in Actors, vx_callback(a) PROVE KeepsDue
  BY <1>5, <1>17 DEF vx_callback
<1>18. ASSUME NEW p \in Wakers, wake_progress(p) PROVE KeepsDue
  BY <1>5, <1>18 DEF wake_progress
<1>19. ASSUME NEW p \in Wakers, wake_notify_all(p) PROVE KeepsDue
  BY <1>5, <1>19 DEF wake_notify_all
<1>20. ASSUME NEW p \in Wakers, push(p) PROVE KeepsDue
  BY <1>5, <1>20 DEF push
<1>21. ASSUME NEW p \in Wakers, NEW f \in Fibers, sched_wake(p, f) PROVE KeepsDue
  BY <1>5, <1>21 DEF sched_wake
<1>22. ASSUME NEW w \in Workers, pop(w) PROVE KeepsDue
  BY <1>5, <1>22 DEF pop
<1>23. ASSUME NEW w \in Workers, pop_waits(w) PROVE KeepsDue
  BY <1>5, <1>23 DEF pop_waits
<1>24. ASSUME NEW w \in Workers, park(w) PROVE KeepsDue
  BY <1>5, <1>24 DEF park
<1>25. ASSUME NEW w \in Workers, leave(w) PROVE KeepsDue
  BY <1>5, <1>25 DEF leave
<1>26. ASSUME NEW w \in Workers, fiber_ended(w) PROVE KeepsDue
  BY <1>5, <1>26 DEF fiber_ended, WakeIsOver, OwnInv, WakeInv
<1>27. ASSUME monitor \/ RunTimer \/ Finished \/ UNCHANGED vars PROVE KeepsDue
  BY <1>5, <1>27 DEF monitor, RunTimer, expire, timer_fire, timer_fired, Finished, vars
<1>28. ASSUME NEW a \in Actors, Notified(a) \/ TimedOut(a) \/ Spurious(a) PROVE KeepsDue
  BY <1>4, <1>28 DEF Notified, TimedOut, Spurious
<1> QED
  BY <1>2, <1>3, <1>6, <1>7, <1>8, <1>9, <1>10, <1>11, <1>12, <1>13, <1>14, <1>15, <1>16, <1>17, <1>18, <1>19,
     <1>20, <1>21, <1>22, <1>23, <1>24, <1>25, <1>26, <1>27, <1>28 DEF Next, Act, DoWake, Work

\* The steps that end waits start a wake of their word, or of every bucket.
LEMMA SetKeeps ==
  ASSUME Types, PlaceInv, OwnInv, WakeKept, KeepsDue, NEW a \in Actors,
         signal(a) \/ cancel(a) \/ task_ends(a)
  PROVE  WakeKept'
<1>0. /\ pc[a] = "run" /\ waking[a].at = "no" /\ waking \in [Wakers -> WakeCalls]
      /\ word \in [Words -> {0, 1}] /\ Nobody \notin Words /\ BucketOf \in [Words -> 1..BUCKETS]
      /\ BUCKETS \in Nat
  BY RuntimeAssumption, Constants DEF signal, cancel, task_ends, OwnInv, WakeInv, Types, ProgTypes
<1>1. \A p \in Wakers : GoesOn(p)
  BY <1>0 DEF signal, cancel, task_ends, GoesOn
<1>2. \A w \in Words : WakeComes(w) => WakeComes(w)'
  BY <1>1, ComesKept
<1> SUFFICES ASSUME NEW c \in Actors, Due(c)', Ends(c)' PROVE WakeComes(On(c))'
  BY DEF WakeKept
<1>3. Due(c) /\ prog' = prog /\ ip'[c] = ip[c]
  BY DEF KeepsDue
<1>4. Call(c)' = Call(c) /\ On(c)' = On(c) /\ On(c) \in Words
  BY <1>3, DueAwaits DEF Call, On
<1>5. \A w : w = On(c) => (WakeComes(w)' => WakeComes(On(c))')
  BY <1>4 DEF WakeComes
<1>6. CASE Ends(c)
  BY <1>2, <1>3, <1>4, <1>5, <1>6 DEF WakeKept
<1>7. CASE ~Ends(c) /\ signal(a)
  <2>1. /\ word' = [word EXCEPT ![On(a)] = 1] /\ waking' = [waking EXCEPT ![a] = WakeOf(On(a))]
             /\ UNCHANGED mark
    BY <1>7 DEF signal
  <2>2. On(c) = On(a)
    BY <1>0, <1>4, <1>7, <2>1 DEF Ends
  <2>3. waking'[a].at = "progress" /\ waking'[a].of = On(c) /\ waking'[a].b = BucketOf[On(c)]
    BY <1>0, <2>1, <2>2 DEF WakeOf
  <2> QED BY <1>4, <2>3 DEF WakeComes
<1>8. CASE ~Ends(c) /\ task_ends(a)
  <2>1. /\ word' = [word EXCEPT ![a] = 1] /\ waking' = [waking EXCEPT ![a] = WakeOf(a)] /\ UNCHANGED mark
    BY <1>8 DEF task_ends
  <2>2. On(c) = a
    BY <1>0, <1>4, <1>8, <2>1 DEF Ends
  <2>3. waking'[a].at = "progress" /\ waking'[a].of = On(c) /\ waking'[a].b = BucketOf[On(c)]
    BY <1>0, <2>1, <2>2 DEF WakeOf
  <2> QED BY <1>4, <2>3 DEF WakeComes
<1>9. CASE ~Ends(c) /\ cancel(a)
  <2>1. waking' = [waking EXCEPT ![a] = WakeEvery(1)]
    BY <1>9 DEF cancel
  <2>2. waking'[a].at = "progress" /\ waking'[a].of = Nobody /\ waking'[a].b = 1
    BY <1>0, <2>1 DEF WakeEvery
  <2>3. BucketOf[On(c)] = 1 \/ 1 < BucketOf[On(c)]
    BY SMT, <1>0, <1>4
  <2> QED BY <1>4, <2>2, <2>3 DEF WakeComes
<1> QED BY <1>6, <1>7, <1>8, <1>9

\* A waiter becomes due only after it saw that its wait goes on.
LEMMA CheckKeeps ==
  ASSUME Types, PlaceInv, OwnInv, WakeKept, NEW a \in Actors, wait_check(a)
  PROVE  WakeKept'
<1>0. /\ pc[a] = "wait" /\ pc \in [Actors -> Places]
      /\ UNCHANGED <<prog, ip, word, mark, fibers, woke, waking>>
      /\ \/ pc' = [pc EXCEPT ![a] = "run"]
         \/ pc' = [pc EXCEPT ![a] = "commit"] /\ ~Satisfied(a)
  BY DEF wait_check, Types, ProgTypes
<1>1. \A c \in Actors : Ends(c)' = Ends(c) /\ On(c)' = On(c) /\ (WakeComes(On(c))' <=> WakeComes(On(c)))
  BY <1>0 DEF Ends, On, Call, WakeComes
<1>2. \A c \in Actors : Due(c)' => Due(c) \/ (c = a /\ ~Satisfied(a))
  BY <1>0 DEF Due, OnList
<1>3. ~Satisfied(a) => ~Ends(a)
  BY DEF Satisfied, Ends
<1> QED BY <1>1, <1>2, <1>3 DEF WakeKept

\* A wake that looked at a bucket leaves no waiter of its word due: the lock was free, so
\* none was between its check and its sleep.
LEMMA TakeKeepsWakes ==
  ASSUME Types, PlaceInv, OwnInv, LockInv, WakeKept, NEW p \in Wakers, wake_under_the_lock(p)
  PROVE  WakeKept'
<1> DEFINE b == waking[p].b
           taken == take_fibers(b, waking[p].of)
<1>0. /\ b \in Buckets /\ waking \in [Wakers -> WakeCalls] /\ lock[b] = Nobody /\ waking[p].at = "take"
      /\ fibers \in [Buckets -> SUBSET (Fibers \X Words)] /\ Nobody \notin Actors
  BY Constants DEF Types, TableTypes, WakeCalls, wake_under_the_lock
<1>1. /\ waking' = [waking EXCEPT ![p].at = "notify", ![p].hand = FibersOf(taken)]
      /\ fibers' = [fibers EXCEPT ![b] = @ \ taken]
      /\ UNCHANGED <<prog, ip, pc, word, mark>>
      /\ \A a \in Actors : woke'[a] = (woke[a] \/ (pc[a] \in {"sleep", "notified"} /\ Bkt(a) = b))
  BY DEF wake_under_the_lock
<1>2. /\ waking'[p].at = "notify" /\ waking'[p].of = waking[p].of /\ waking'[p].b = b
      /\ \A q \in Wakers : q # p => waking'[q] = waking[q]
  BY SMT, <1>0, <1>1 DEF WakeCalls
<1>3. \A c \in Actors : On(c)' = On(c) /\ Ends(c)' = Ends(c) /\ Bkt(c)' = Bkt(c)
  BY <1>1 DEF On, Call, Ends, Bkt
<1>4. \A f \in Fibers : OnList(f)' => OnList(f)
  BY <1>0, <1>1 DEF OnList
<1>5. \A c \in Actors : Due(c)' => Due(c)
  BY <1>1, <1>4 DEF Due
<1> SUFFICES ASSUME NEW c \in Actors, Due(c)', Ends(c)' PROVE WakeComes(On(c))'
  BY DEF WakeKept
<1>6. Due(c) /\ Ends(c) /\ On(c) \in Words /\ Bkt(c) \in Buckets /\ WakeComes(On(c))
  BY <1>3, <1>5, DueAwaits DEF WakeKept
<1>7. PICK q \in Wakers :
        \/ waking[q].at \in {"progress", "take"} /\ waking[q].of \in {On(c), Nobody} /\ waking[q].b = Bkt(c)
        \/ waking[q].at # "no" /\ waking[q].of = Nobody /\ waking[q].b < Bkt(c)
  BY <1>6 DEF WakeComes, Bkt
<1>8. CASE q # p
  <2>1. waking'[q] = waking[q]
    BY <1>2, <1>8
  <2> QED BY <1>3, <1>7, <2>1 DEF WakeComes, Bkt
<1>9. CASE q = p /\ waking[p].of = Nobody /\ waking[p].b < Bkt(c)
  <2>1. waking'[p].at # "no" /\ waking'[p].of = Nobody /\ waking'[p].b < BucketOf[On(c)]
    BY <1>2, <1>9 DEF Bkt
  <2> QED BY <1>3, <2>1 DEF WakeComes
<1>10. CASE q = p /\ waking[p].of \in {On(c), Nobody} /\ b = Bkt(c)
  <2>1. pc[c] # "commit"
    BY <1>0, <1>10 DEF LockInv
  <2>2. ~(pc'[c] \in {"sleep", "notified"} /\ ~woke'[c])
    BY <1>1, <1>10
  <2>3. c \in Fibers /\ OnList(c)'
    BY <1>1, <2>1, <2>2 DEF Due
  <2>4. PICK d \in Buckets : \E e \in fibers'[d] : e[1] = c
    BY <2>3 DEF OnList
  <2>5. PICK e \in fibers'[d] : e[1] = c
    BY <2>4
  <2>6. e \in fibers[d] /\ (d = b => e \notin taken)
    BY <1>0, <1>1, <2>5
  <2>7. e[2] = On(c) /\ d = Bkt(c)
    BY <2>5, <2>6 DEF OwnInv, ListInv
  <2>8. e \in taken
    BY <1>10, <2>6, <2>7 DEF take_fibers
  <2> QED BY <1>10, <2>6, <2>7, <2>8
<1> QED BY <1>7, <1>8, <1>9, <1>10

\* A wake that is over had no bucket left to look at.
LEMMA EndKeeps ==
  ASSUME Types, OwnInv, EveryInv, NEW p \in Wakers, WakeIsOver(p),
         waking' = [waking EXCEPT ![p] = NoWake],
         waking[p].of = Nobody => waking[p].b + 1 \notin Buckets
  PROVE  \A w \in Words : WakeComes(w) => WakeComes(w)'
<1>0. waking \in [Wakers -> WakeCalls] /\ BucketOf \in [Words -> 1..BUCKETS] /\ BUCKETS \in Nat
  BY RuntimeAssumption DEF Types
<1> SUFFICES ASSUME NEW w \in Words, WakeComes(w) PROVE WakeComes(w)'
  OBVIOUS
<1>1. PICK q \in Wakers :
        \/ waking[q].at \in {"progress", "take"} /\ waking[q].of \in {w, Nobody} /\ waking[q].b = BucketOf[w]
        \/ waking[q].at # "no" /\ waking[q].of = Nobody /\ waking[q].b < BucketOf[w]
  BY DEF WakeComes
<1>2. q # p
  <2>1. waking[p].b \in 1..BUCKETS /\ BucketOf[w] \in 1..BUCKETS
    BY <1>0 DEF WakeCalls
  <2> QED BY SMT, <1>0, <1>1, <2>1 DEF WakeIsOver
<1>3. waking'[q] = waking[q]
  BY <1>0, <1>2
<1> QED BY <1>1, <1>3 DEF WakeComes

\* A wake of every bucket misses no bucket.
LEMMA NextBucketKeeps ==
  ASSUME Types, NEW a \in Actors, NextBucket(a)
  PROVE  \A w \in Words : WakeComes(w) => WakeComes(w)'
<1>0. /\ waking \in [Wakers -> WakeCalls] /\ BucketOf \in [Words -> 1..BUCKETS] /\ BUCKETS \in Nat
      /\ waking' = [waking EXCEPT ![a] = WakeEvery(waking[a].b + 1)]
      /\ waking[a].at = "push" /\ waking[a].of = Nobody
  BY RuntimeAssumption DEF Types, NextBucket, WakeIsOver
<1>1. /\ waking'[a].at = "progress" /\ waking'[a].of = Nobody /\ waking'[a].b = waking[a].b + 1
      /\ waking[a].b \in 1..BUCKETS
      /\ \A q \in Wakers : q # a => waking'[q] = waking[q]
  BY <1>0 DEF WakeEvery, WakeCalls
<1> SUFFICES ASSUME NEW w \in Words, WakeComes(w) PROVE WakeComes(w)'
  OBVIOUS
<1>2. PICK q \in Wakers :
        \/ waking[q].at \in {"progress", "take"} /\ waking[q].of \in {w, Nobody} /\ waking[q].b = BucketOf[w]
        \/ waking[q].at # "no" /\ waking[q].of = Nobody /\ waking[q].b < BucketOf[w]
  BY DEF WakeComes
<1>3. CASE q # a
  BY <1>1, <1>2, <1>3 DEF WakeComes
<1>4. CASE q = a
  <2>1. waking[a].b < BucketOf[w] /\ BucketOf[w] \in 1..BUCKETS
    BY <1>0, <1>2, <1>4
  <2>2. waking'[a].b = BucketOf[w] \/ waking'[a].b < BucketOf[w]
    <3> DEFINE m == waking[a].b
               n == BucketOf[w]
    <3>1. m \in Int /\ n \in Int /\ m < n
      BY SMT, <1>0, <1>1, <2>1
    <3> HIDE DEF m, n
    <3>2. m + 1 = n \/ m + 1 < n
      BY SMT, <3>1
    <3> QED BY <1>1, <3>2 DEF m, n
  <2> QED BY <1>1, <2>2 DEF WakeComes
<1> QED BY <1>3, <1>4

\* Every step loses no wake.
LEMMA WakeKeptStep ==
  ASSUME Types, PlaceInv, OwnInv, LockInv, EveryInv, WakeKept, [Next]_vars
  PROVE  WakeKept'
<1> DEFINE Held == UNCHANGED <<word, mark>> /\ \A w \in Words : WakeComes(w) => WakeComes(w)'
<1>0. waking \in [Wakers -> WakeCalls]
  BY DEF Types
<1>1. ASSUME KeepsDue, Held PROVE WakeKept'
  BY <1>1, KeptByKeepsDue
<1>2. ASSUME UNCHANGED <<word, mark>>, \A p \in Wakers : GoesOn(p) PROVE Held
  BY <1>2, ComesKept
<1>3. ASSUME UNCHANGED <<word, mark, waking>> PROVE Held
  BY <1>3 DEF WakeComes
<1> HIDE DEF Held
<1>4. ASSUME NEW a \in Actors, Await(a) \/ wait_fiber(a) \/ wake_at(a) \/ wait_thread_timed(a)
               \/ wait_thread(a)
                               \/ Notified(a) \/ TimedOut(a) \/ Spurious(a) \/ spawn(a) \/ free(a)
                                    \/ vx_callback(a)
      PROVE  Held
  BY <1>3, <1>4 DEF Await, wait_fiber, wake_at, wait_thread_timed, wait_thread, Notified, TimedOut, Spurious,
                    wait_return, spawn, free, vx_callback
<1>5. ASSUME NEW a \in Actors, NextBucket(a) PROVE Held
  BY <1>5, NextBucketKeeps DEF Held, NextBucket
<1>6. ASSUME NEW a \in Actors, WakeReturns(a) PROVE Held
  BY <1>6, EndKeeps DEF Held, WakeReturns
<1>7. ASSUME NEW a \in Actors, thread_ended(a) PROVE Held
  <2>1. waking[a].of # Nobody
    BY <1>7 DEF thread_ended, WakeIsOver, EveryInv
  <2> QED BY <1>7, <2>1, EndKeeps DEF Held, thread_ended
<1>8. ASSUME NEW w \in Workers, fiber_ended(w) PROVE Held
  <2>1. waking[cur[w]].of # Nobody /\ cur[w] \in Wakers
    BY <1>8 DEF fiber_ended, WakeIsOver, EveryInv
  <2> QED BY <1>8, <2>1, EndKeeps DEF Held, fiber_ended
<1>9. ASSUME timer_fired PROVE Held
  <2>1. waking[Timer].of # Nobody
    BY <1>9 DEF timer_fired, WakeIsOver, EveryInv
  <2> QED BY <1>9, <2>1, EndKeeps DEF Held, timer_fired
<1>10. ASSUME NEW p \in Wakers, wake_progress(p) \/ wake_notify_all(p) \/ push(p) PROVE Held
  <2>1. UNCHANGED <<word, mark>>
    BY <1>10 DEF wake_progress, wake_notify_all, push
  <2>2. CASE wake_progress(p)
    BY <1>0, <1>2, <2>1, <2>2 DEF wake_progress, GoesOn, WakeCalls
  <2>3. CASE wake_notify_all(p)
    BY <1>0, <1>2, <2>1, <2>3 DEF wake_notify_all, GoesOn, WakeCalls
  <2>4. CASE push(p)
    BY SMT, <1>0, <1>2, <2>1, <2>4 DEF push, GoesOn, WakeCalls
  <2> QED BY <1>10, <2>2, <2>3, <2>4
<1>11. ASSUME NEW p \in Wakers, NEW f \in Fibers, sched_wake(p, f) PROVE Held
  <2>1. PICK h, q : waking' = [waking EXCEPT ![p].hand = h, ![p].push = q]
    BY <1>11 DEF sched_wake
  <2>2. UNCHANGED <<word, mark>>
    BY <1>11 DEF sched_wake
  <2>3. \A c \in Wakers : /\ waking'[c].of = waking[c].of /\ waking'[c].b = waking[c].b
                          /\ waking'[c].at = waking[c].at
    BY SMT, <1>0, <2>1 DEF WakeCalls
  <2> QED BY <1>2, <2>2, <2>3 DEF GoesOn
<1>12. ASSUME NEW w \in Workers, pop(w) \/ pop_waits(w) \/ park(w) \/ leave(w) PROVE Held
  BY <1>3, <1>12 DEF pop, pop_waits, park, leave
<1>13. ASSUME NEW e \in Entries, timer_fire(e) PROVE Held
  <2>1. waking[Timer].at = "no" /\ UNCHANGED <<word, mark>>
    BY <1>13 DEF timer_fire, OwnInv, WakeInv
  <2>2. \A p \in Wakers : GoesOn(p)
    BY <1>0, <1>13, <2>1, Constants DEF timer_fire, GoesOn
  <2> QED BY <1>2, <2>1, <2>2
<1>14. ASSUME monitor \/ Finished \/ UNCHANGED vars \/ \E e \in Entries : expire(e) PROVE Held
  BY <1>3, <1>14 DEF monitor, expire, Finished, vars
<1>15. KeepsDue \/ (\E a \in Actors : wait_check(a)) \/ (\E p \in Wakers : wake_under_the_lock(p))
  BY DueSteps
<1>16. ASSUME NEW a \in Actors, wait_check(a) PROVE WakeKept'
  BY <1>16, CheckKeeps
<1>17. ASSUME NEW p \in Wakers, wake_under_the_lock(p) PROVE WakeKept'
  BY <1>17, TakeKeepsWakes
<1>18. CASE KeepsDue
  <2>1. ASSUME NEW a \in Actors, signal(a) \/ cancel(a) \/ task_ends(a) PROVE WakeKept'
    BY <1>18, <2>1, SetKeeps
  <2> QED
    BY <1>1, <1>4, <1>5, <1>6, <1>7, <1>8, <1>9, <1>10, <1>11, <1>12, <1>13, <1>14, <1>16, <1>17, <1>18, <2>1
       DEF Next, Act, DoWake, Work, RunTimer
<1> QED BY <1>15, <1>16, <1>17, <1>18

\* No waiter is due at the start.
LEMMA WakeInit == Init => LockInv /\ EveryInv /\ WakeKept
<1> SUFFICES ASSUME Init PROVE LockInv /\ EveryInv /\ WakeKept
  OBVIOUS
<1>0. /\ pc = [a \in Actors |-> IF a = Main THEN "run" ELSE "new"] /\ lock = [b \in Buckets |-> Nobody]
      /\ waking = [p \in Wakers |-> NoWake] /\ fibers = [b \in Buckets |-> {}]
  BY DEF Init
<1>1. LockInv /\ EveryInv
  BY <1>0 DEF LockInv, EveryInv, NoWake
<1>2. \A a \in Actors : ~Due(a)
  BY <1>0 DEF Due, OnList
<1> QED BY <1>1, <1>2 DEF WakeKept

\* No wake is lost: a waiter that slept, whose word is set or whose block is cancelled,
\* has a wake that will still find it, whatever the order of the check, the sleep,
\* the store and the wake.
THEOREM NoWakeIsLost == Spec => []NoLostWake
<1> DEFINE Inv == Types /\ Flags /\ PlaceInv /\ OwnInv
           WInv == LockInv /\ EveryInv /\ WakeKept
<1>1. Spec => []Inv
  BY Ownership
<1>2. Init => WInv
  BY WakeInit
<1>3. Inv /\ WInv /\ [Next]_vars => WInv'
  BY LockInvStep, EveryInvStep, WakeKeptStep
<1>4. Inv /\ WInv => NoLostWake
  <2> SUFFICES ASSUME Inv, WInv, NEW a \in Actors,
                      \/ pc[a] \in {"sleep", "notified"} /\ ~woke[a]
                      \/ a \in Fibers /\ Listed(a) # {},
                      word[On(a)] # 0 \/ (Call(a).or_cancel /\ mark)
               PROVE  WakeComes(On(a))
    BY DEF NoLostWake
  <2>1. Listed(a) # {} => OnList(a)
    BY DEF Listed, OnList
  <2> QED BY <2>1 DEF WakeKept, Due, Ends
<1> QED BY <1>1, <1>2, <1>3, <1>4, PTL DEF Spec

-----------------------------------------------------------------------------
\* The runtime keeps the promise of module WaitWord.

\* A waiter that only a look at the list of its bucket can find.
Lined(a) == pc[a] = "commit" \/ (a \in Fibers /\ OnList(a))

\* A wake of the word that will look at the list, and one that will still notify.
Takes(q, w) == waking[q].of = w /\ waking[q].at \in {"progress", "take"}
Owes(q, w)  == waking[q].of = w /\ waking[q].at \in {"progress", "take", "notify"}

\* Once a word is set, a waiter of it is on no list unless a wake will look there; and
\* the wake of a word looks at the bucket of the word.
StoreInv ==
  /\ \A w \in Words : word[w] # 0 => \/ \E q \in Wakers : Takes(q, w)
                                     \/ \A a \in Actors : Lined(a) => On(a) # w
  /\ \A p \in Wakers : waking[p].at # "no" /\ waking[p].of # Nobody => waking[p].b = BucketOf[waking[p].of]

\* A step that puts no new waiter to sleep.
Stays ==
  /\ prog' = prog
  /\ \A a \in Actors :
       /\ pc'[a] = "commit" => pc[a] = "commit"
       /\ pc'[a] = "sleep" => pc[a] \in {"commit", "sleep"}
       /\ a \in Fibers /\ OnList(a)' => OnList(a) \/ pc[a] = "commit"
       /\ pc[a] \in {"commit", "sleep"} \/ (a \in Fibers /\ OnList(a)) => ip'[a] = ip[a]

\* A fiber on a list is at a place of a park.
LEMMA ListedPlace ==
  ASSUME OwnInv, NEW f \in Fibers, OnList(f)
  PROVE  pc[f] \in {"arm", "park", "parked"}
BY DEF OnList, OwnInv, ListInv, StateInv

\* Only the check of a wait puts a new waiter to sleep.
LEMMA StaySteps ==
  ASSUME Types, PlaceInv, OwnInv, [Next]_vars
  PROVE  Stays \/ \E a \in Actors : wait_check(a)
<1>0. /\ pc \in [Actors -> Places] /\ ip \in [Actors -> Nat \ {0}]
      /\ \A f \in Fibers : OnList(f) => pc[f] \in {"arm", "park", "parked"}
  BY ListedPlace DEF Types, ProgTypes
<1>1. ASSUME fibers' = fibers PROVE \A f \in Fibers : OnList(f)' <=> OnList(f)
  BY <1>1 DEF OnList
<1>2. ASSUME NEW a \in Actors, wait_fiber(a) PROVE Stays
  <2>0. /\ pc[a] = "commit" /\ UNCHANGED <<prog, ip>>
        /\ \E to \in {"arm", "park"} : pc' = [pc EXCEPT ![a] = to]
        /\ fibers' = [fibers EXCEPT ![Bkt(a)] = @ \cup {<<a, On(a)>>}]
        /\ fibers \in [Buckets -> SUBSET (Fibers \X Words)]
    BY <1>2 DEF wait_fiber, Types, TableTypes
  <2>1. \A f \in Fibers : f # a => (OnList(f)' => OnList(f))
    BY SMT, <2>0 DEF OnList
  <2> QED BY <1>0, <2>0, <2>1 DEF Stays
<1>3. ASSUME NEW p \in Wakers, wake_under_the_lock(p) PROVE Stays
  <2>1. /\ UNCHANGED <<prog, ip, pc>> /\ fibers \in [Buckets -> SUBSET (Fibers \X Words)]
        /\ \A b \in Buckets : fibers'[b] \subseteq fibers[b]
    BY <1>3 DEF wake_under_the_lock, Types, TableTypes
  <2> QED BY <2>1 DEF Stays, OnList
<1>4. ASSUME UNCHANGED <<prog, fibers>>,
             \A a \in Actors :
               /\ pc'[a] = "commit" => pc[a] = "commit"
               /\ pc'[a] = "sleep" => pc[a] \in {"commit", "sleep"}
               /\ pc[a] \in {"commit", "sleep", "arm", "park", "parked"} => ip'[a] = ip[a]
      PROVE  Stays
  BY <1>0, <1>1, <1>4 DEF Stays
<1> USE <1>0
<1>5. ASSUME NEW a \in Actors, Await(a) PROVE Stays
  BY <1>4, <1>5 DEF Await
<1>6. ASSUME NEW a \in Actors, wake_at(a) PROVE Stays
  BY <1>4, <1>6 DEF wake_at
<1>7. ASSUME NEW a \in Actors, wait_thread_timed(a) PROVE Stays
  BY <1>4, <1>7 DEF wait_thread_timed
<1>8. ASSUME NEW a \in Actors, wait_thread(a) PROVE Stays
  BY <1>4, <1>8 DEF wait_thread
<1>9. ASSUME NEW a \in Actors, wait_return(a) PROVE Stays
  BY <1>4, <1>9 DEF wait_return
<1>10. ASSUME NEW a \in Actors, signal(a) \/ cancel(a) \/ task_ends(a) PROVE Stays
  BY <1>4, <1>10 DEF signal, cancel, task_ends
<1>11. ASSUME NEW a \in Actors, NextBucket(a) PROVE Stays
  BY <1>4, <1>11 DEF NextBucket
<1>12. ASSUME NEW a \in Actors, WakeReturns(a) PROVE Stays
  BY <1>4, <1>12 DEF WakeReturns, WakeIsOver, OwnInv, WakeInv
<1>13. ASSUME NEW a \in Actors, spawn(a) PROVE Stays
  <2>1. /\ pc[a] = "run" /\ pc[On(a)] = "new" /\ UNCHANGED <<prog, fibers>>
             /\ ip' = [ip EXCEPT ![a] = ip[a] + 1]
        /\ pc' \in {[pc EXCEPT ![On(a)] = "ready"], [pc EXCEPT ![On(a)] = "run"]}
    BY <1>13 DEF spawn
  <2> QED BY <1>4, <2>1
<1>14. ASSUME NEW a \in Actors, thread_ended(a) PROVE Stays
  BY <1>4, <1>14 DEF thread_ended, WakeIsOver, OwnInv, WakeInv
<1>15. ASSUME NEW a \in Actors, free(a) \/ vx_callback(a) PROVE Stays
  BY <1>4, <1>15 DEF free, vx_callback
<1>16. ASSUME NEW p \in Wakers, wake_progress(p) \/ push(p) PROVE Stays
  BY <1>4, <1>16 DEF wake_progress, push
<1>17. ASSUME NEW p \in Wakers, wake_notify_all(p) PROVE Stays
  BY <1>4, <1>17 DEF wake_notify_all
<1>18. ASSUME NEW p \in Wakers, NEW f \in Fibers, sched_wake(p, f) PROVE Stays
  BY <1>4, <1>18 DEF sched_wake
<1>19. ASSUME NEW w \in Workers, pop(w) PROVE Stays
  BY <1>4, <1>19 DEF pop
<1>20. ASSUME NEW w \in Workers, park(w) PROVE Stays
  BY <1>4, <1>20 DEF park
<1>21. ASSUME NEW w \in Workers, pop_waits(w) \/ leave(w) PROVE Stays
  BY <1>4, <1>21 DEF pop_waits, leave
<1>22. ASSUME NEW w \in Workers, fiber_ended(w) PROVE Stays
  BY <1>4, <1>22 DEF fiber_ended, WakeIsOver, OwnInv, WakeInv
<1>23. ASSUME monitor \/ RunTimer \/ Finished \/ UNCHANGED vars PROVE Stays
  BY <1>4, <1>23 DEF monitor, RunTimer, expire, timer_fire, timer_fired, Finished, vars
<1>24. ASSUME NEW a \in Actors, Notified(a) \/ TimedOut(a) \/ Spurious(a) PROVE Stays
  BY <1>9, <1>24 DEF Notified, TimedOut, Spurious
<1> QED
  BY <1>2, <1>3, <1>5, <1>6, <1>7, <1>8, <1>10, <1>11, <1>12, <1>13, <1>14, <1>15, <1>16, <1>17, <1>18, <1>19,
     <1>20, <1>21, <1>22, <1>23, <1>24 DEF Next, Act, DoWake, Work

\* A call of `wake` that goes on at its place before the list, before the notify or after
\* them, and one that is over or wakes every bucket next.
Goes(q) ==
  \/ /\ waking'[q].of = waking[q].of /\ waking'[q].b = waking[q].b
     /\ waking'[q].at \in {"progress", "take"} <=> waking[q].at \in {"progress", "take"}
     /\ waking'[q].at = "notify" <=> waking[q].at = "notify"
     /\ waking'[q].at = "no" <=> waking[q].at = "no"
  \/ /\ waking[q].at \in {"no", "push"}
     /\ waking'[q].at = "no" \/ waking'[q].of = Nobody

Steady == UNCHANGED word /\ \A q \in Wakers : Goes(q)

\* The steps of a wake, but for the start of one for a word, the look at the list and
\* the notify, leave what the wakes owe.
LEMMA SteadySteps ==
  ASSUME Types, OwnInv, [Next]_vars
  PROVE  \/ Steady
         \/ \E a \in Actors : signal(a) \/ task_ends(a)
         \/ \E e \in Entries : timer_fire(e)
         \/ \E p \in Wakers : wake_under_the_lock(p) \/ wake_notify_all(p)
<1>0. waking \in [Wakers -> WakeCalls] /\ \A a \in Actors : pc[a] # "waking" => waking[a].at = "no"
  BY DEF Types, OwnInv, WakeInv
<1>1. ASSUME UNCHANGED <<word, waking>> PROVE Steady
  BY <1>1 DEF Steady, Goes
<1>2. ASSUME NEW p \in Wakers, waking' = [waking EXCEPT ![p] = NoWake], WakeIsOver(p), UNCHANGED word
      PROVE  Steady
  BY <1>0, <1>2 DEF Steady, Goes, NoWake, WakeIsOver
<1>3. ASSUME NEW a \in Actors, cancel(a) PROVE Steady
  BY <1>0, <1>3 DEF cancel, WakeEvery, Steady, Goes
<1>4. ASSUME NEW a \in Actors, NextBucket(a) PROVE Steady
  BY <1>0, <1>4 DEF NextBucket, WakeEvery, WakeIsOver, Steady, Goes
<1>5. ASSUME NEW p \in Wakers, wake_progress(p) PROVE Steady
  BY SMT, <1>0, <1>5 DEF wake_progress, WakeCalls, Steady, Goes
<1>6. ASSUME NEW p \in Wakers, push(p) PROVE Steady
  BY SMT, <1>0, <1>6 DEF push, WakeCalls, Steady, Goes
<1>7. ASSUME NEW p \in Wakers, NEW f \in Fibers, sched_wake(p, f) PROVE Steady
  <2>1. PICK h, q : waking' = [waking EXCEPT ![p].hand = h, ![p].push = q]
    BY <1>7 DEF sched_wake
  <2>2. UNCHANGED word
    BY <1>7 DEF sched_wake
  <2>3. \A c \in Wakers : /\ waking'[c].of = waking[c].of /\ waking'[c].b = waking[c].b
                          /\ waking'[c].at = waking[c].at
    BY SMT, <1>0, <2>1 DEF WakeCalls
  <2> QED BY <2>2, <2>3 DEF Steady, Goes
<1>8. ASSUME NEW a \in Actors, WakeReturns(a) \/ thread_ended(a) PROVE Steady
  BY <1>2, <1>8 DEF WakeReturns, thread_ended
<1>9. ASSUME NEW w \in Workers, fiber_ended(w) PROVE Steady
  BY <1>2, <1>9 DEF fiber_ended
<1>10. ASSUME timer_fired PROVE Steady
  BY <1>2, <1>10 DEF timer_fired
<1>11. ASSUME NEW a \in Actors, Await(a) \/ wait_check(a) \/ wait_fiber(a) \/ wake_at(a)
                \/ wait_thread_timed(a)
                                \/ wait_thread(a) \/ Notified(a) \/ TimedOut(a) \/ Spurious(a)
                                \/ spawn(a) \/ free(a) \/ vx_callback(a)
       PROVE  UNCHANGED <<word, waking>>
  BY <1>11 DEF Await, wait_check, wait_fiber, wake_at, wait_thread_timed, wait_thread, Notified, TimedOut,
               Spurious, wait_return, spawn, free, vx_callback
<1>12. ASSUME NEW w \in Workers, pop(w) \/ pop_waits(w) \/ park(w) \/ leave(w)
       PROVE  UNCHANGED <<word, waking>>
  BY <1>12 DEF pop, pop_waits, park, leave
<1>13. ASSUME monitor \/ Finished \/ UNCHANGED vars \/ \E e \in Entries : expire(e)
       PROVE  UNCHANGED <<word, waking>>
  BY <1>13 DEF monitor, expire, Finished, vars
<1> QED
  BY <1>1, <1>3, <1>4, <1>5, <1>6, <1>7, <1>8, <1>9, <1>10, <1>11, <1>12, <1>13
     DEF Next, Act, DoWake, Work, RunTimer

\* What the wakes owe after a step that leaves it.
LEMMA SteadyOwes ==
  ASSUME Steady, StoreInv
  PROVE  /\ \A q \in Wakers : \A w \in Words : (Takes(q, w)' <=> Takes(q, w)) /\ (Owes(q, w)' <=> Owes(q, w))
         /\ \A p \in Wakers : waking'[p].at # "no" /\ waking'[p].of # Nobody =>
              waking'[p].b = BucketOf[waking'[p].of]
<1>0. \A w \in Words : w # Nobody
  BY Constants
<1>1. ASSUME NEW q \in Wakers, NEW w \in Words
      PROVE  (Takes(q, w)' <=> Takes(q, w)) /\ (Owes(q, w)' <=> Owes(q, w))
  BY <1>0 DEF Steady, Goes, Takes, Owes
<1>2. ASSUME NEW p \in Wakers, waking'[p].at # "no", waking'[p].of # Nobody
      PROVE  waking'[p].b = BucketOf[waking'[p].of]
  BY <1>2 DEF Steady, Goes, StoreInv
<1> QED BY <1>1, <1>2

\* The waiters on a list after a step that puts none there.
LEMMA StaysLined ==
  ASSUME Stays, NEW a \in Actors, Lined(a)'
  PROVE  Lined(a) /\ On(a)' = On(a)
BY DEF Stays, Lined, On, Call

\* The store of a word and the start of its wake.
StoreOf(p, w) ==
  /\ waking[p].at = "no" /\ waking' = [waking EXCEPT ![p] = WakeOf(w)]
  /\ word' = [word EXCEPT ![w] = 1] \/ UNCHANGED word

\* A signal, the end of a task and a deadline start a wake of their word, and move no waiter.
LEMMA StoreSteps ==
  ASSUME Types, PlaceInv, OwnInv,
         (\E a \in Actors : signal(a) \/ task_ends(a)) \/ (\E e \in Entries : timer_fire(e))
  PROVE  \E p \in Wakers, w \in Words :
           /\ StoreOf(p, w)
           /\ \A c \in Actors : Asleep(c)' <=> Asleep(c)
           /\ \A c \in Actors : Lined(c)' <=> Lined(c)
           /\ UNCHANGED <<prog, ip>>
           /\ p # Timer => word' = [word EXCEPT ![w] = 1]
<1>1. ASSUME NEW a \in Actors, NEW w, pc[a] = "run", pc' = [pc EXCEPT ![a] = "waking"], UNCHANGED fibers
      PROVE  \A c \in Actors : (Asleep(c)' <=> Asleep(c)) /\ (Lined(c)' <=> Lined(c))
  BY <1>1 DEF Asleep, Lined, Listed, OnList, Types, ProgTypes
<1>2. ASSUME NEW a \in Actors, signal(a)
      PROVE  On(a) \in Words /\ StoreOf(a, On(a)) /\ word' = [word EXCEPT ![On(a)] = 1]
  BY <1>2, CallType DEF signal, StoreOf, OwnInv, WakeInv
<1>3. ASSUME NEW a \in Actors, task_ends(a)
      PROVE  a \in Words /\ StoreOf(a, a) /\ word' = [word EXCEPT ![a] = 1]
  BY <1>3 DEF task_ends, StoreOf, OwnInv, WakeInv
<1>4. ASSUME NEW e \in Entries, timer_fire(e)
      PROVE  /\ prog[e[1]][e[2]].on \in Words /\ StoreOf(Timer, prog[e[1]][e[2]].on)
             /\ UNCHANGED <<pc, fibers, prog, ip>>
  <2>1. e \in heap /\ ProgTypes
    BY <1>4 DEF timer_fire, Types
  <2>2. prog[e[1]][e[2]].on \in Words
    BY <2>1, DeadlineWord
  <2> QED BY <1>4, <2>2 DEF timer_fire, StoreOf, OwnInv, WakeInv
<1>5. ASSUME UNCHANGED <<pc, fibers>>
      PROVE  \A c \in Actors : (Asleep(c)' <=> Asleep(c)) /\ (Lined(c)' <=> Lined(c))
  BY <1>5 DEF Asleep, Lined, Listed, OnList
<1>6. CASE \E a \in Actors : signal(a)
  <2>1. PICK a \in Actors : signal(a)
    BY <1>6
  <2>2. pc[a] = "run" /\ pc' = [pc EXCEPT ![a] = "waking"] /\ UNCHANGED <<fibers, prog, ip>>
    BY <2>1 DEF signal
  <2> QED BY <1>1, <1>2, <2>1, <2>2
<1>7. CASE \E a \in Actors : task_ends(a)
  <2>1. PICK a \in Actors : task_ends(a)
    BY <1>7
  <2>2. pc[a] = "run" /\ pc' = [pc EXCEPT ![a] = "waking"] /\ UNCHANGED <<fibers, prog, ip>>
    BY <2>1 DEF task_ends
  <2> QED BY <1>1, <1>3, <2>1, <2>2
<1>8. CASE \E e \in Entries : timer_fire(e)
  BY <1>4, <1>5, <1>8
<1> QED BY <1>6, <1>7, <1>8

\* Every step keeps the invariant of the stores.
LEMMA StoreInvStep ==
  ASSUME Types, PlaceInv, OwnInv, LockInv, StoreInv, [Next]_vars
  PROVE  StoreInv'
<1>0. /\ waking \in [Wakers -> WakeCalls] /\ word \in [Words -> {0, 1}] /\ Nobody \notin Words
      /\ fibers \in [Buckets -> SUBSET (Fibers \X Words)] /\ pc \in [Actors -> Places]
  BY Constants DEF Types, ProgTypes, TableTypes
<1>1. CASE Steady /\ Stays
  <2>1. ASSUME NEW w \in Words, word'[w] # 0
        PROVE  (\E q \in Wakers : Takes(q, w)') \/ \A a \in Actors : Lined(a)' => On(a)' # w
    <3>1. (\E q \in Wakers : Takes(q, w)) \/ \A a \in Actors : Lined(a) => On(a) # w
      BY <1>1, <2>1 DEF StoreInv, Steady
    <3>2. CASE \E q \in Wakers : Takes(q, w)
      BY <1>1, <3>2, SteadyOwes
    <3>3. CASE \A a \in Actors : Lined(a) => On(a) # w
      BY <1>1, <3>3, StaysLined
    <3> QED BY <3>1, <3>2, <3>3
  <2>2. \A p \in Wakers : waking'[p].at # "no" /\ waking'[p].of # Nobody =>
          waking'[p].b = BucketOf[waking'[p].of]
    BY <1>1, SteadyOwes
  <2> QED BY <2>1, <2>2 DEF StoreInv
<1>2. ASSUME NEW a \in Actors, wait_check(a), Steady PROVE StoreInv'
  <2>1. /\ UNCHANGED <<prog, ip, word, fibers>>
        /\ \A c \in Actors : pc'[c] = "commit" => pc[c] = "commit" \/ (c = a /\ word[On(a)] = 0)
    BY <1>0, <1>2 DEF wait_check, Satisfied
  <2>2. \A c \in Actors : Lined(c)' => Lined(c) \/ (c = a /\ word[On(a)] = 0)
    BY <2>1 DEF Lined, OnList
  <2>3. \A c \in Actors : On(c)' = On(c)
    BY <2>1 DEF On, Call
  <2>4. ASSUME NEW w \in Words, word'[w] # 0
        PROVE  (\E q \in Wakers : Takes(q, w)') \/ \A c \in Actors : Lined(c)' => On(c)' # w
    <3>1. word[w] # 0
      BY <2>1, <2>4
    <3>2. (\E q \in Wakers : Takes(q, w)) \/ \A c \in Actors : Lined(c) => On(c) # w
      BY <3>1 DEF StoreInv
    <3>3. CASE \E q \in Wakers : Takes(q, w)
      BY <1>2, <3>3, SteadyOwes
    <3>4. CASE \A c \in Actors : Lined(c) => On(c) # w
      BY <2>2, <2>3, <3>1, <3>4
    <3> QED BY <3>2, <3>3, <3>4
  <2>5. \A p \in Wakers : waking'[p].at # "no" /\ waking'[p].of # Nobody =>
          waking'[p].b = BucketOf[waking'[p].of]
    BY <1>2, SteadyOwes
  <2> QED BY <2>4, <2>5 DEF StoreInv
<1>3. ASSUME NEW p \in Wakers, NEW w \in Words, StoreOf(p, w),
             \A c \in Actors : Lined(c)' <=> Lined(c), UNCHANGED <<prog, ip>>
      PROVE  StoreInv'
  <2>1. /\ waking'[p].of = w /\ waking'[p].at = "progress" /\ waking'[p].b = BucketOf[w]
        /\ \A q \in Wakers : q # p => waking'[q] = waking[q]
    BY <1>0, <1>3 DEF StoreOf, WakeOf
  <2>2. \A q \in Wakers, v \in Words : Takes(q, v) => Takes(q, v)'
    BY <1>3, <2>1 DEF Takes, StoreOf
  <2>3. Takes(p, w)'
    BY <2>1 DEF Takes
  <2>4. \A v \in Words : v # w => word'[v] = word[v]
    BY <1>0, <1>3 DEF StoreOf
  <2>5. \A c \in Actors : On(c)' = On(c)
    BY <1>3 DEF On, Call
  <2>6. \A q \in Wakers : waking'[q].at # "no" /\ waking'[q].of # Nobody =>
          waking'[q].b = BucketOf[waking'[q].of]
    BY <2>1 DEF StoreInv
  <2>7. ASSUME NEW v \in Words, word'[v] # 0
        PROVE  (\E q \in Wakers : Takes(q, v)') \/ \A c \in Actors : Lined(c)' => On(c)' # v
    <3>1. CASE v = w
      BY <2>3, <3>1
    <3>2. CASE v # w
      <4>1. (\E q \in Wakers : Takes(q, v)) \/ \A c \in Actors : Lined(c) => On(c) # v
        BY <2>4, <2>7, <3>2 DEF StoreInv
      <4> QED BY <1>3, <2>2, <2>5, <4>1
    <3> QED BY <3>1, <3>2
  <2> QED BY <2>6, <2>7 DEF StoreInv
<1>4. ASSUME NEW p \in Wakers, wake_under_the_lock(p), Stays PROVE StoreInv'
  <2> DEFINE b == waking[p].b
             taken == take_fibers(b, waking[p].of)
  <2>1. /\ b \in Buckets /\ lock[b] = Nobody /\ waking[p].at = "take" /\ UNCHANGED <<word, pc, prog, ip>>
        /\ waking' = [waking EXCEPT ![p].at = "notify", ![p].hand = FibersOf(taken)]
        /\ fibers' = [fibers EXCEPT ![b] = @ \ taken]
    BY <1>0, <1>4 DEF wake_under_the_lock, WakeCalls
  <2>2. /\ waking'[p].at = "notify" /\ waking'[p].of = waking[p].of /\ waking'[p].b = b
        /\ \A q \in Wakers : q # p => waking'[q] = waking[q]
    BY SMT, <1>0, <2>1 DEF WakeCalls
  <2>3. \A q \in Wakers : waking'[q].at # "no" /\ waking'[q].of # Nobody =>
          waking'[q].b = BucketOf[waking'[q].of]
    BY ZenonT(40), <2>1, <2>2 DEF StoreInv
  <2>4. \A q \in Wakers, v \in Words : q # p => (Takes(q, v) => Takes(q, v)')
    BY <2>2 DEF Takes
  <2>5. ASSUME NEW v \in Words, Takes(p, v), NEW c \in Actors, Lined(c)', On(c)' = v PROVE FALSE
    <3>0. Lined(c) /\ On(c) = v
      BY <1>4, <2>5, StaysLined
    <3>1. Lined(c) /\ On(c) = v /\ waking[p].of = v /\ b = BucketOf[v] /\ Bkt(c) = b
      BY <1>0, <2>1, <2>5, <3>0 DEF Takes, StoreInv, Bkt
    <3>2. pc[c] # "commit"
      BY <2>1, <3>1, Constants DEF LockInv
    <3>3. c \in Fibers /\ OnList(c)'
      BY <2>1, <2>5, <3>2 DEF Lined
    <3>4. PICK d \in Buckets : \E e \in fibers'[d] : e[1] = c
      BY <3>3 DEF OnList
    <3>5. PICK e \in fibers'[d] : e[1] = c
      BY <3>4
    <3>6. e \in fibers[d] /\ (d = b => e \notin taken)
      BY <1>0, <2>1, <3>5
    <3>7. e[2] = On(c) /\ d = Bkt(c)
      BY <3>5, <3>6 DEF OwnInv, ListInv
    <3>8. e \in taken
      BY <3>1, <3>6, <3>7 DEF take_fibers
    <3> QED BY <3>1, <3>6, <3>7, <3>8
  <2>6. ASSUME NEW v \in Words, word'[v] # 0, \A q \in Wakers :
                 ~Takes(q, v)', NEW c \in Actors, Lined(c)', On(c)' = v
        PROVE  FALSE
    <3>1. word[v] # 0 /\ Lined(c) /\ On(c) = v
      BY <1>4, <2>1, <2>6, StaysLined
    <3>2. PICK q \in Wakers : Takes(q, v)
      BY <3>1 DEF StoreInv
    <3>3. q = p
      BY <2>4, <2>6, <3>2
    <3> QED BY <2>5, <2>6, <3>2, <3>3
  <2> QED BY <2>3, <2>6 DEF StoreInv
<1>5. ASSUME NEW p \in Wakers, wake_notify_all(p), Stays PROVE StoreInv'
  <2>1. waking[p].at = "notify" /\ waking' = [waking EXCEPT ![p].at = "push"] /\ UNCHANGED word
    BY <1>5 DEF wake_notify_all
  <2>2. /\ waking'[p].at = "push" /\ waking'[p].of = waking[p].of /\ waking'[p].b = waking[p].b
        /\ \A q \in Wakers : q # p => waking'[q] = waking[q]
    BY SMT, <1>0, <2>1 DEF WakeCalls
  <2>3. \A q \in Wakers, v \in Words : Takes(q, v) => Takes(q, v)'
    BY <2>1, <2>2 DEF Takes
  <2>4. \A q \in Wakers : waking'[q].at # "no" /\ waking'[q].of # Nobody =>
          waking'[q].b = BucketOf[waking'[q].of]
    BY <2>1, <2>2 DEF StoreInv
  <2> QED BY SMT, <1>5, <2>1, <2>3, <2>4, StaysLined DEF StoreInv
<1>6. ASSUME NEW a \in Actors, wait_check(a) PROVE Steady
  BY <1>6 DEF wait_check, Steady, Goes
<1> QED BY <1>1, <1>2, <1>3, <1>4, <1>5, <1>6, StaySteps, SteadySteps, StoreSteps

\* The sleeping waiters with their words, and the words whose wake did not come yet.
Sleeping == {<<a, On(a)>> : a \in {c \in Actors : Asleep(c)}}
Pending  == {w \in Words : word[w] = 1 /\ \E p \in Wakers : Owes(p, w)}

\* A fiber has an entry in a set of pairs when it is there with some word.
LEMMA PairOf ==
  ASSUME NEW S \in SUBSET (Fibers \X Words), NEW f \in Fibers
  PROVE  (\E e \in S : e[1] = f) <=> (\E w \in Words : <<f, w>> \in S)
<1>1. ASSUME NEW e \in S, e[1] = f PROVE \E w \in Words : <<f, w>> \in S
  <2>1. e \in Fibers \X Words
    OBVIOUS
  <2>2. e[2] \in Words /\ e = <<e[1], e[2]>>
    BY SMT, <2>1
  <2> QED BY <1>1, <2>2
<1>2. ASSUME NEW w \in Words, <<f, w>> \in S PROVE \E e \in S : e[1] = f
  BY <1>2
<1> QED BY <1>1, <1>2

\* A waiter of the promise sleeps, or has checked its word and is on its way to sleep.
LEMMA AsleepIs ==
  ASSUME Types, Types'
  PROVE  \A a \in Actors : /\ Asleep(a) <=> pc[a] = "sleep" \/ Lined(a)
                           /\ Asleep(a)' <=> pc'[a] = "sleep" \/ Lined(a)'
<1>0. /\ fibers \in [Buckets -> SUBSET (Fibers \X Words)]
      /\ fibers' \in [Buckets -> SUBSET (Fibers \X Words)]
  BY DEF Types, TableTypes
<1>1. ASSUME NEW f \in Fibers PROVE (Listed(f) # {} <=> OnList(f)) /\ (Listed(f)' # {} <=> OnList(f)')
  <2>1. \A b \in Buckets : (\E e \in fibers[b] : e[1] = f) <=> (\E w \in Words : <<f, w>> \in fibers[b])
    BY <1>0, PairOf
  <2>2. \A b \in Buckets : (\E e \in fibers'[b] : e[1] = f) <=> (\E w \in Words : <<f, w>> \in fibers'[b])
    BY <1>0, PairOf
  <2> QED BY <2>1, <2>2 DEF Listed, OnList
<1> QED BY <1>1 DEF Asleep, Lined

\* No step of Stays adds a sleeping waiter.
LEMMA StaysAsleep ==
  ASSUME Types, Types', Stays
  PROVE  /\ \A a \in Actors : Asleep(a)' => Asleep(a) /\ On(a)' = On(a)
         /\ Sleeping' \subseteq Sleeping
<1>1. ASSUME NEW a \in Actors, Asleep(a)' PROVE Asleep(a) /\ On(a)' = On(a)
  <2>1. CASE Lined(a)'
    BY <2>1, AsleepIs, StaysLined
  <2>2. CASE pc'[a] = "sleep"
    <3>1. pc[a] \in {"commit", "sleep"} /\ prog' = prog /\ ip'[a] = ip[a]
      BY <2>2 DEF Stays
    <3> QED BY <3>1 DEF Asleep, On, Call
  <2> QED BY <1>1, <2>1, <2>2, AsleepIs
<1> QED BY <1>1 DEF Sleeping

\* What a step of the runtime is to the callers of a wait and of a wake.
LEMMA PromiseStep ==
  ASSUME Types, Types', PlaceInv, OwnInv, LockInv, StoreInv, StoreInv', [Next]_vars
  PROVE  \/ Sleeping' \subseteq Sleeping /\ UNCHANGED <<word, Pending>>
         \/ \E w \in Words :
              \/ word' = [word EXCEPT ![w] = 1] /\ Pending' = Pending \cup {w} /\ UNCHANGED Sleeping
              \/ /\ w \in Pending /\ Pending' = Pending \ {w} /\ UNCHANGED word
                 /\ Sleeping' \subseteq {e \in Sleeping : e[2] # w}
              \/ \E a \in Actors : /\ word[w] = 0 /\ Sleeping' = Sleeping \cup {<<a, w>>}
                                   /\ UNCHANGED <<word, Pending>>
<1> DEFINE Goal == \/ Sleeping' \subseteq Sleeping /\ UNCHANGED <<word, Pending>>
                   \/ \E w \in Words :
                        \/ word' = [word EXCEPT ![w] = 1] /\ Pending' = Pending \cup {w} /\ UNCHANGED Sleeping
                        \/ /\ w \in Pending /\ Pending' = Pending \ {w} /\ UNCHANGED word
                           /\ Sleeping' \subseteq {e \in Sleeping : e[2] # w}
                        \/ \E a \in Actors : /\ word[w] = 0 /\ Sleeping' = Sleeping \cup {<<a, w>>}
                                             /\ UNCHANGED <<word, Pending>>
<1> SUFFICES Goal
  OBVIOUS
<1>0. /\ waking \in [Wakers -> WakeCalls] /\ word \in [Words -> {0, 1}] /\ Nobody \notin Words
      /\ pc \in [Actors -> Places] /\ ProgTypes
  BY Constants DEF Types, ProgTypes
<1>1. ASSUME Steady PROVE UNCHANGED <<word, Pending>>
  <2>1. UNCHANGED word /\ \A w \in Words, q \in Wakers : Owes(q, w)' <=> Owes(q, w)
    BY <1>1, SteadyOwes DEF Steady
  <2> QED BY <2>1 DEF Pending
<1>2. CASE Steady /\ Stays
  BY <1>1, <1>2, StaysAsleep
<1>3. ASSUME NEW a \in Actors, wait_check(a) PROVE Goal
  <2>1. Steady /\ UNCHANGED <<prog, ip, fibers>> /\ pc[a] = "wait"
    BY <1>3 DEF wait_check, Steady, Goes
  <2>0. On(a) \in Words
    <3>1. ~Over(a) /\ Call(a).op = "await"
      BY <2>1 DEF PlaceInv, InWait, Awaits
    <3> QED BY <3>1, CallType
  <2>2. \A c \in Actors : On(c)' = On(c) /\ (c # a => (Asleep(c)' <=> Asleep(c)))
    BY <1>0, <1>3, <2>1 DEF wait_check, On, Call, Asleep, Listed
  <2>3. CASE ~Satisfied(a)
    <3>1. Asleep(a)' /\ word[On(a)] = 0
      BY <1>0, <1>3, <2>0, <2>3 DEF wait_check, Asleep, Satisfied
    <3>2. Sleeping' = Sleeping \cup {<<a, On(a)>>}
      BY <2>2, <3>1 DEF Sleeping
    <3> QED BY <1>1, <2>0, <2>1, <3>1, <3>2
  <2>4. CASE Satisfied(a)
    <3>1. Asleep(a)' => Asleep(a)
      BY <1>0, <1>3, <2>1, <2>4 DEF wait_check, Asleep, Listed
    <3>2. Sleeping' \subseteq Sleeping
      BY <2>2, <3>1 DEF Sleeping
    <3> QED BY <1>1, <2>1, <3>2
  <2> QED BY <2>3, <2>4
<1>4. ASSUME NEW p \in Wakers, NEW w \in Words, StoreOf(p, w),
             \A c \in Actors : Asleep(c)' <=> Asleep(c), UNCHANGED <<prog, ip>>
      PROVE  Goal
  <2>1. \A c \in Actors : On(c)' = On(c)
    BY <1>4 DEF On, Call
  <2>2. UNCHANGED Sleeping
    BY <1>4, <2>1 DEF Sleeping
  <2>3. /\ Owes(p, w)' /\ ~\E v \in Words : Owes(p, v)
        /\ \A v \in Words : v # w => ~Owes(p, v)'
        /\ \A q \in Wakers, v \in Words : q # p => (Owes(q, v)' <=> Owes(q, v))
    BY <1>0, <1>4 DEF StoreOf, WakeOf, Owes
  <2>4. CASE word' = [word EXCEPT ![w] = 1]
    <3>1. word'[w] = 1 /\ \A v \in Words : v # w => word'[v] = word[v]
      BY <1>0, <2>4
    <3>2. Pending' = Pending \cup {w}
      BY <2>3, <3>1 DEF Pending
    <3> QED BY <2>2, <2>4, <3>2
  <2>5. CASE UNCHANGED word /\ word[w] = 1
    <3>1. word' = [word EXCEPT ![w] = 1]
      BY <1>0, <2>5
    <3> QED BY <2>4, <3>1
  <2>6. CASE UNCHANGED word /\ word[w] # 1
    <3>1. Pending' = Pending
      BY <2>3, <2>6 DEF Pending
    <3> QED BY <2>2, <2>6, <3>1
  <2> QED BY <1>4, <2>4, <2>5, <2>6 DEF StoreOf
<1>5. ASSUME NEW p \in Wakers, wake_under_the_lock(p), Stays PROVE Goal
  <2>1. waking[p].at = "take" /\ UNCHANGED word
          /\ \E h : waking' = [waking EXCEPT ![p].at = "notify", ![p].hand = h]
    BY <1>5 DEF wake_under_the_lock
  <2>2. \A q \in Wakers, w \in Words : Owes(q, w)' <=> Owes(q, w)
    BY SMT, <1>0, <2>1 DEF WakeCalls, Owes
  <2>3. UNCHANGED Pending
    BY <2>1, <2>2 DEF Pending
  <2> QED BY <1>5, <2>1, <2>3, StaysAsleep
<1>6. ASSUME NEW p \in Wakers, wake_notify_all(p), Stays PROVE Goal
  <2>1. /\ waking[p].at = "notify" /\ waking' = [waking EXCEPT ![p].at = "push"]
             /\ UNCHANGED <<word, prog, ip>>
        /\ \A c \in Actors : pc'[c] = "sleep" => Bkt(c) # waking[p].b
    BY <1>0, <1>6 DEF wake_notify_all
  <2>2. /\ waking'[p].at = "push" /\ waking'[p].of = waking[p].of /\ waking'[p].b = waking[p].b
        /\ \A q \in Wakers : q # p => waking'[q] = waking[q]
    BY <1>0, <2>1 DEF WakeCalls
  <2>3. \A w \in Words : ~Owes(p, w)' /\ (Owes(p, w) <=> w = waking[p].of)
    BY <2>1, <2>2 DEF Owes
  <2>4. \A q \in Wakers, w \in Words : q # p => (Owes(q, w)' <=> Owes(q, w))
    BY <2>2 DEF Owes
  <2>5. CASE Pending' = Pending
    BY <1>6, <2>1, <2>5, StaysAsleep
  <2>6. CASE Pending' # Pending
    <3>1. PICK w \in Words : w = waking[p].of /\ word[w] = 1 /\ \A q \in Wakers : ~Owes(q, w)'
      BY SMT, <2>1, <2>3, <2>4, <2>6 DEF Pending
    <3>2. w \in Pending /\ Pending' = Pending \ {w}
      BY SMT, <2>1, <2>3, <2>4, <3>1 DEF Pending
    <3>3. \A c \in Actors : Lined(c)' => On(c)' # w
      BY SMT, <2>1, <3>1 DEF StoreInv, Takes, Owes
    <3>4. waking[p].b = BucketOf[w]
      BY <1>0, <2>1, <3>1 DEF StoreInv
    <3>5. \A c \in Actors : Asleep(c)' => On(c)' # w
      BY <2>1, <3>3, <3>4, AsleepIs DEF Bkt, On, Call
    <3>6. Sleeping' \subseteq {e \in Sleeping : e[2] # w}
      <4>1. ASSUME NEW e \in Sleeping' PROVE e \in Sleeping /\ e[2] # w
        <5>1. PICK c \in Actors : Asleep(c)' /\ e = <<c, On(c)'>>
          BY DEF Sleeping
        <5>2. e[2] = On(c)'
          BY <5>1
        <5> QED BY <1>6, <3>5, <4>1, <5>1, <5>2, StaysAsleep
      <4> QED BY <4>1
    <3> QED BY <2>1, <3>2, <3>6
  <2> QED BY <2>5, <2>6
<1> HIDE DEF Goal
<1> QED BY <1>2, <1>3, <1>4, <1>5, <1>6, StaySteps, SteadySteps, StoreSteps

\* No wait sleeps and no word is set at the start.
LEMMA PromiseInit == Init => StoreInv /\ Promise!WaitInit
<1> SUFFICES ASSUME Init PROVE StoreInv /\ Promise!WaitInit
  OBVIOUS
<1>0. /\ pc = [a \in Actors |-> IF a = Main THEN "run" ELSE "new"] /\ word = [w \in Words |-> 0]
      /\ waking = [p \in Wakers |-> NoWake] /\ fibers = [b \in Buckets |-> {}]
  BY DEF Init
<1>1. StoreInv
  BY <1>0 DEF StoreInv, NoWake
<1>2. \A a \in Actors : ~Asleep(a)
  BY <1>0 DEF Asleep, Listed
<1>3. \A w \in Words : word[w] # 1
  BY SMT, <1>0
<1> QED BY <1>0, <1>1, <1>2, <1>3 DEF Promise!WaitInit

\* The runtime implements WaitWord: a sleep starts only while its word has the old value,
\* and the wake after the store ends every sleep on it.
THEOREM WaitsAndWakes == Spec => KeepsThePromise
<1> DEFINE Inv == Types /\ Flags /\ PlaceInv /\ OwnInv
           SInv == LockInv /\ StoreInv
<1>1. Spec => []Inv
  BY Ownership
<1>2. Init => SInv /\ Promise!WaitInit
  BY WakeInit, PromiseInit
<1>3. Inv /\ SInv /\ [Next]_vars => SInv'
  BY LockInvStep, StoreInvStep
<1>4. Inv /\ Inv' /\ SInv /\ SInv' /\ [Next]_vars => Promise!WaitNext
  <2> SUFFICES ASSUME Inv, Inv', SInv, SInv', [Next]_vars PROVE Promise!WaitNext
    OBVIOUS
  <2>1. \/ Sleeping' \subseteq Sleeping /\ UNCHANGED <<word, Pending>>
        \/ \E w \in Words :
             \/ word' = [word EXCEPT ![w] = 1] /\ Pending' = Pending \cup {w} /\ UNCHANGED Sleeping
             \/ /\ w \in Pending /\ Pending' = Pending \ {w} /\ UNCHANGED word
                /\ Sleeping' \subseteq {e \in Sleeping : e[2] # w}
             \/ \E a \in Actors : /\ word[w] = 0 /\ Sleeping' = Sleeping \cup {<<a, w>>}
                                  /\ UNCHANGED <<word, Pending>>
    BY PromiseStep
  <2> QED
    BY <2>1 DEF Promise!WaitNext, Promise!Early, Promise!Store, Promise!WakeAll, Promise!Sleep, Sleeping,
                Pending, Owes
<1> QED BY <1>1, <1>2, <1>3, <1>4, PTL DEF Spec, KeepsThePromise, Promise!WaitSpec

=============================================================================
