-------------------------- MODULE TaskCountProofs ---------------------------
(***************************************************************************)
(* For any number of fibers, threads, workers and words, and any programs  *)
(* of TaskRuntime: each fiber has one owner; the counts that the deadlock  *)
(* watcher reads are the truth, and so no count is below 0 and the type    *)
(* invariant holds; and the report has a note for each waiter.             *)
(***************************************************************************)
EXTENDS TaskRuntimeProofs, FiniteSetTheorems

\* The first-order prover is the one to try, unless a leaf names another.
USE Zenon

USE DEF Actors, Tasks, Words, Buckets, Timer, Wakers, NoFiber,
        progVars, tableVars, timerVars, schedVars, countVars, Goto, Advance, Doing

\* A set with no two different elements has 0 or 1 elements.
LEMMA AtMostOne ==
  ASSUME NEW S, \A x, y \in S : x = y
  PROVE  (S = {} /\ Cardinality(S) = 0) \/ (S # {} /\ Cardinality(S) = 1)
<1>1. CASE S = {}
  BY <1>1, FS_EmptySet
<1>2. CASE S # {}
  <2>1. PICK x : x \in S
    BY <1>2
  <2>2. S = {x}
    BY <2>1
  <2> QED BY <2>2, FS_Singleton
<1> QED BY <1>1, <1>2

\* The owners of a fiber are one at most.
LEMMA OwnInvIsOneOwner ==
  ASSUME Types, OwnInv
  PROVE  OneOwner
<1> SUFFICES ASSUME NEW f \in Fibers
             PROVE  LET off == Cardinality(Listed(f)) + Cardinality(HeldBy(f)) IN
                    /\ Cardinality(Queued(f)) + Cardinality(Carriers(f)) + Cardinality(PushedBy(f)) <= 1
                    /\ off <= 1
                    /\ off = 1 => Queued(f) = {} /\ PushedBy(f) = {}
                    /\ off = 1 /\ Carriers(f) # {} => state[f] = "PARKING"
  BY DEF OneOwner
<1>1. /\ (Queued(f) = {} /\ Cardinality(Queued(f)) = 0) \/ (Queued(f) # {} /\ Cardinality(Queued(f)) = 1)
      /\ (Carriers(f) = {} /\ Cardinality(Carriers(f)) = 0)
           \/ (Carriers(f) # {} /\ Cardinality(Carriers(f)) = 1)
      /\ (PushedBy(f) = {} /\ Cardinality(PushedBy(f)) = 0)
           \/ (PushedBy(f) # {} /\ Cardinality(PushedBy(f)) = 1)
  BY OwnersAre, AtMostOne
<1>2. /\ (Listed(f) = {} /\ Cardinality(Listed(f)) = 0) \/ (Listed(f) # {} /\ Cardinality(Listed(f)) = 1)
      /\ (HeldBy(f) = {} /\ Cardinality(HeldBy(f)) = 0) \/ (HeldBy(f) # {} /\ Cardinality(HeldBy(f)) = 1)
  BY OwnersAre, AtMostOne
<1>3. /\ ~(Queued(f) # {} /\ Carriers(f) # {}) /\ ~(Queued(f) # {} /\ PushedBy(f) # {})
      /\ ~(Carriers(f) # {} /\ PushedBy(f) # {})
  BY OwnersAre DEF Aboard
<1>4. Listed(f) # {} \/ HeldBy(f) # {} =>
        Queued(f) = {} /\ PushedBy(f) = {} /\ (Carriers(f) # {} => state[f] = "PARKING")
  BY OwnersAre
<1>5. ~(Listed(f) # {} /\ HeldBy(f) # {})
  BY OwnersAre
<1>6. Cardinality(Queued(f)) + Cardinality(Carriers(f)) + Cardinality(PushedBy(f)) <= 1
  BY SMT, <1>1, <1>3
<1>7. /\ Cardinality(Listed(f)) + Cardinality(HeldBy(f)) <= 1
      /\ Cardinality(Listed(f)) + Cardinality(HeldBy(f)) = 1 => Listed(f) # {} \/ HeldBy(f) # {}
  BY SMT, <1>2, <1>5
<1> QED BY <1>4, <1>6, <1>7

\* Each fiber has one owner: the queue, a worker, the list of a bucket or a waker.
\* Only its worker and the place it is woken from overlap, while it parks.
THEOREM EachFiberHasOneOwner == Spec => []OneOwner
BY Ownership, OwnInvIsOneOwner, PTL

-----------------------------------------------------------------------------
\* The counts, and the notes of the report.

Busy  == {w \in Workers : cur[w] \in Fibers \cup {"leaving"}}
Alive == {t \in Threads : pc[t] \notin {"new", "ended"}}
Waits(a) == pc[a] \in {"sleep", "notified"} /\ ~woke[a]
BlockedFibers  == {f \in Fibers : Waits(f)}
WaitingThreads == {t \in Threads : Waits(t)}
BlockedIn(b) == {f \in BlockedFibers : Bkt(f) = b}
WaitingIn(b) == {t \in WaitingThreads : Bkt(t) = b}

\* Each bucket has the threads that wait on it, and the number of the blocked fibers.
WaitInv ==
  /\ \A a \in Actors : pc[a] \notin {"sleep", "notified"} => woke[a]
  /\ \A b \in Buckets : sleepers[b] = WaitingIn(b) /\ blockedOn[b] = Cardinality(BlockedIn(b))
  /\ blocked = Cardinality(BlockedFibers) /\ WAITING = Cardinality(WaitingThreads)

\* Every step keeps `running` the number of the busy workers.
LEMMA RunningStep ==
  ASSUME Types, OwnInv, running = Cardinality(Busy), [Next]_vars
  PROVE  running' = Cardinality(Busy')
<1>0. cur \in [Workers -> Fibers \cup NoFiber] /\ Fibers \cap NoFiber = {} /\ running \in Int
  BY Constants DEF Types, SchedTypes
<1>1. IsFiniteSet(Busy)
  BY Finite, FS_Subset DEF Busy
<1>2. \A w \in Workers : (notify_one[w] \in Fibers \cup {"leaving"}) <=> (cur[w] \in Fibers \cup {"leaving"})
  BY NotifyOne, Constants
<1>3. ASSUME NEW w \in Workers, pop(w) PROVE running' = Cardinality(Busy')
  <2>1. cur' = [cur EXCEPT ![w] = Head(ready)] /\ Head(ready) \in Fibers /\ w \notin Busy
          /\ running' = running + 1
    BY <1>3, <1>0, QueueTail DEF pop, Types, SchedTypes, Busy
  <2>2. Busy' = Busy \cup {w}
    BY <1>0, <2>1 DEF Busy
  <2> QED BY <1>1, <2>1, <2>2, FS_AddElement
<1>4. ASSUME NEW w \in Workers, leave(w) PROVE running' = Cardinality(Busy')
  <2>1. cur' = [cur EXCEPT ![w] = "next"] /\ w \in Busy /\ running' = running - 1
    BY <1>4, <1>0 DEF leave, Busy
  <2>2. Busy' = Busy \ {w}
    BY <1>0, <2>1 DEF Busy
  <2> QED BY <1>1, <2>1, <2>2, FS_RemoveElement
<1>5. ASSUME NEW w \in Workers, park(w) PROVE running' = Cardinality(Busy')
  <2> DEFINE c == IF state[cur[w]] = "PARKING" THEN cur ELSE notify_one
  <2>1. c \in [Workers -> Fibers \cup NoFiber] /\ \A v \in Workers : (c[v] \in Fibers \cup {"leaving"}) <=>
          v \in Busy
    BY <1>0, <1>2, NotifyOne DEF Busy
  <2>2. cur' = [c EXCEPT ![w] = "leaving"] /\ w \in Busy /\ UNCHANGED running
    BY <1>5 DEF park, Busy
  <2> HIDE DEF c
  <2>3. Busy' = Busy
    BY <2>1, <2>2 DEF Busy
  <2> QED BY <2>2, <2>3
<1>6. ASSUME NEW w \in Workers, pop_waits(w) PROVE running' = Cardinality(Busy')
  <2>1. Busy' = Busy /\ UNCHANGED running
    BY <1>6, <1>0 DEF pop_waits, Busy
  <2> QED BY <2>1
<1>7. ASSUME NEW w \in Workers, fiber_ended(w) PROVE running' = Cardinality(Busy')
  <2>1. Busy' = Busy /\ UNCHANGED running
    BY <1>7, <1>0 DEF fiber_ended, Busy
  <2> QED BY <2>1
<1>8. ASSUME cur' \in {cur, notify_one}, UNCHANGED running PROVE running' = Cardinality(Busy')
  <2>1. Busy' = Busy
    BY <1>2, <1>8 DEF Busy
  <2> QED BY <1>8, <2>1
<1>9. ASSUME NEW a \in Actors, Act(a) \/ Spurious(a) PROVE cur' \in {cur, notify_one} /\ UNCHANGED running
  BY <1>9 DEF Act, Await, wait_check, wait_fiber, wake_at, wait_thread_timed, wait_thread, Notified, TimedOut,
              Spurious, signal, cancel, NextBucket, WakeReturns, spawn, task_ends, thread_ended, free,
              vx_callback, wait_return
<1>10. ASSUME NEW p \in Wakers, DoWake(p) PROVE cur' \in {cur, notify_one} /\ UNCHANGED running
  BY <1>10 DEF DoWake, wake_progress, wake_under_the_lock, wake_notify_all, push, sched_wake
<1>11. ASSUME monitor \/ RunTimer \/ Finished \/ UNCHANGED vars
       PROVE  cur' \in {cur, notify_one} /\ UNCHANGED running
  <2>1. CASE monitor
    BY <2>1 DEF monitor
  <2>2. CASE RunTimer
    BY <2>2 DEF RunTimer, expire, timer_fire, timer_fired
  <2>3. CASE Finished \/ UNCHANGED vars
    BY <2>3 DEF Finished, vars
  <2> QED BY <1>11, <2>1, <2>2, <2>3
<1> QED
  BY <1>3, <1>4, <1>5, <1>6, <1>7, <1>8, <1>9, <1>10, <1>11 DEF Next, Work

\* Every step keeps THREADS the number of the threads that live.
LEMMA ThreadsStep ==
  ASSUME Types, OwnInv, THREADS = Cardinality(Alive), [Next]_vars
  PROVE  THREADS' = Cardinality(Alive')
<1>1. IsFiniteSet(Alive)
  BY Finite, FS_Subset DEF Alive
<1>0. pc \in [Actors -> Places] /\ Fibers \cap Threads = {} /\ THREADS \in Int
  BY SMT, <1>1, Constants, FS_CardinalityType DEF Types, ProgTypes
<1> DEFINE Same == Alive' = Alive /\ THREADS' = THREADS
<1>2. ASSUME NEW a \in Actors, thread_ended(a) PROVE THREADS' = Cardinality(Alive')
  <2>1. a \in Threads /\ pc[a] = "waking" /\ pc' = [pc EXCEPT ![a] = "ended"] /\ THREADS' = THREADS - 1
    BY <1>2 DEF thread_ended, WakeIsOver, OwnInv, WakeInv
  <2>2. a \in Alive /\ Alive' = Alive \ {a}
    BY <1>0, <2>1 DEF Alive
  <2> QED BY <1>1, <2>1, <2>2, FS_RemoveElement
<1>3. ASSUME NEW a \in Actors, spawn(a) PROVE THREADS' = Cardinality(Alive')
  <2>1. CASE On(a) \in Fibers
    <3>1. pc' = [pc EXCEPT ![On(a)] = "ready"] /\ UNCHANGED THREADS
      BY <1>0, <1>3, <2>1 DEF spawn
    <3>2. Alive' = Alive
      BY <1>0, <2>1, <3>1 DEF Alive
    <3> QED BY <3>1, <3>2
  <2>2. CASE On(a) \in Threads
    <3>1. pc' = [pc EXCEPT ![On(a)] = "run"] /\ THREADS' = THREADS + 1 /\ pc[On(a)] = "new"
      BY <1>0, <1>3, <2>2 DEF spawn
    <3>2. On(a) \notin Alive /\ Alive' = Alive \cup {On(a)}
      BY <1>0, <2>2, <3>1 DEF Alive
    <3> QED BY <1>1, <3>1, <3>2, FS_AddElement
  <2> QED BY <1>3, <2>1, <2>2 DEF spawn
<1>4. ASSUME NEW w \in Workers, pop(w) PROVE Same
  <2>1. Head(ready) \in Fibers /\ pc' = [pc EXCEPT ![Head(ready)] = "run"] /\ UNCHANGED THREADS
    BY <1>4, QueueTail DEF pop, Types, SchedTypes
  <2> QED BY <1>0, <2>1 DEF Alive
<1>5. ASSUME NEW w \in Workers, park(w) PROVE Same
  BY <1>0, <1>5 DEF park, Alive
<1>6. ASSUME NEW w \in Workers, fiber_ended(w) PROVE Same
  BY <1>0, <1>6 DEF fiber_ended, Alive
<1>7. ASSUME NEW a \in Actors, Await(a) PROVE Same
  BY <1>0, <1>7 DEF Await, Alive
<1>8. ASSUME NEW a \in Actors, wait_check(a) PROVE Same
  BY <1>0, <1>8 DEF wait_check, Alive
<1>9. ASSUME NEW a \in Actors, wait_fiber(a) PROVE Same
  BY <1>0, <1>9 DEF wait_fiber, Alive
<1>10. ASSUME NEW a \in Actors, wake_at(a) PROVE Same
  BY <1>0, <1>10 DEF wake_at, Alive
<1>11. ASSUME NEW a \in Actors, wait_thread_timed(a) PROVE Same
  BY <1>0, <1>11 DEF wait_thread_timed, Alive
<1>12. ASSUME NEW a \in Actors, wait_thread(a) PROVE Same
  BY <1>0, <1>12 DEF wait_thread, Alive
<1>13. ASSUME NEW a \in Actors, Notified(a) PROVE Same
  BY <1>0, <1>13 DEF Notified, wait_return, Alive
<1>14. ASSUME NEW a \in Actors, TimedOut(a) PROVE Same
  BY <1>0, <1>14 DEF TimedOut, wait_return, Alive
<1>15. ASSUME NEW a \in Actors, Spurious(a) PROVE Same
  BY <1>0, <1>15 DEF Spurious, wait_return, Alive
<1>16. ASSUME NEW a \in Actors, signal(a) PROVE Same
  BY <1>0, <1>16 DEF signal, Alive
<1>17. ASSUME NEW a \in Actors, cancel(a) PROVE Same
  BY <1>0, <1>17 DEF cancel, Alive
<1>18. ASSUME NEW a \in Actors, WakeReturns(a) PROVE Same
  BY <1>0, <1>18 DEF WakeReturns, WakeIsOver, OwnInv, WakeInv, Alive
<1>19. ASSUME NEW a \in Actors, task_ends(a) PROVE Same
  BY <1>0, <1>19 DEF task_ends, Alive
<1>20. ASSUME NEW p \in Wakers, wake_notify_all(p) PROVE Same
  BY <1>0, <1>20 DEF wake_notify_all, Alive
<1>21. ASSUME UNCHANGED <<pc, THREADS>> PROVE Same
  BY <1>21 DEF Alive
<1>22. ASSUME NEW a \in Actors, NextBucket(a) \/ free(a) \/ vx_callback(a) PROVE UNCHANGED <<pc, THREADS>>
  BY <1>22 DEF NextBucket, free, vx_callback
<1>23. ASSUME NEW p \in Wakers, wake_progress(p) \/ wake_under_the_lock(p) \/ push(p)
                \/ \E f \in Fibers : sched_wake(p, f)
      PROVE  UNCHANGED <<pc, THREADS>>
  BY <1>23 DEF wake_progress, wake_under_the_lock, push, sched_wake
<1>24. ASSUME NEW w \in Workers, pop_waits(w) \/ leave(w) PROVE UNCHANGED <<pc, THREADS>>
  BY <1>24 DEF pop_waits, leave
<1>25. ASSUME monitor \/ RunTimer \/ Finished \/ UNCHANGED vars PROVE UNCHANGED <<pc, THREADS>>
  BY <1>25 DEF monitor, RunTimer, expire, timer_fire, timer_fired, Finished, vars
<1>26. Same => THREADS' = Cardinality(Alive')
  OBVIOUS
<1> HIDE DEF Same
<1> QED
  BY <1>2, <1>3, <1>4, <1>5, <1>6, <1>7, <1>8, <1>9, <1>10, <1>11, <1>12, <1>13, <1>14, <1>15, <1>16, <1>17,
     <1>18, <1>19, <1>20, <1>21, <1>22, <1>23, <1>24, <1>25, <1>26 DEF Next, Act, DoWake, Work

-----------------------------------------------------------------------------
\* A step that begins and ends no counted sleep.
Still ==
  /\ UNCHANGED <<sleepers, blockedOn, blocked, WAITING, woke, prog>>
  /\ \A a \in Actors :
       /\ Waits(a)' <=> Waits(a)
       /\ pc'[a] \in {"sleep", "notified"} => pc[a] \in {"sleep", "notified"} \/ woke[a]
       /\ pc[a] \in {"sleep", "notified"} => pc'[a] \in {"sleep", "notified"}
       /\ Waits(a) => ip'[a] = ip[a]

\* A step that begins and ends no counted sleep keeps the counts of the sleeps.
LEMMA StillKeeps ==
  ASSUME WaitInv, Still
  PROVE  WaitInv'
<1>1. \A a \in Actors : Waits(a) => Bkt(a)' = Bkt(a)
  BY DEF Still, Bkt, On, Call
<1>2. BlockedFibers' = BlockedFibers /\ WaitingThreads' = WaitingThreads
  BY DEF Still, BlockedFibers, WaitingThreads
<1>3. \A b \in Buckets : BlockedIn(b)' = BlockedIn(b) /\ WaitingIn(b)' = WaitingIn(b)
  BY <1>1, <1>2 DEF BlockedIn, WaitingIn, BlockedFibers, WaitingThreads
<1>4. \A a \in Actors : pc'[a] \notin {"sleep", "notified"} => woke'[a]
  BY DEF Still, WaitInv
<1> QED BY <1>2, <1>3, <1>4 DEF WaitInv, Still

\* The sets of waiters are finite.
LEMMA FiniteWaits ==
  /\ IsFiniteSet(BlockedFibers) /\ IsFiniteSet(WaitingThreads)
  /\ \A b \in Buckets : IsFiniteSet(BlockedIn(b)) /\ IsFiniteSet(WaitingIn(b))
<1>1. IsFiniteSet(BlockedFibers) /\ IsFiniteSet(WaitingThreads)
  BY Finite, FS_Subset DEF BlockedFibers, WaitingThreads
<1>2. ASSUME NEW b \in Buckets PROVE IsFiniteSet(BlockedIn(b)) /\ IsFiniteSet(WaitingIn(b))
  BY <1>1, FS_Subset DEF BlockedIn, WaitingIn
<1> QED BY <1>1, <1>2

\* WAITING is a number.
LEMMA WaitingType ==
  ASSUME WaitInv
  PROVE  WAITING \in Int
BY SMT, FiniteWaits, FS_CardinalityType DEF WaitInv

\* A sleep that begins is counted once, in its bucket and in the total.
LEMMA SleepKeeps ==
  ASSUME Types, PlaceInv, WaitInv, NEW a \in Actors, wait_thread(a)
  PROVE  WaitInv'
<1>0. /\ pc \in [Actors -> Places] /\ woke \in [Actors -> BOOLEAN] /\ Fibers \cap Threads = {}
      /\ sleepers \in [Buckets -> SUBSET Threads] /\ blockedOn \in [Buckets -> Int]
      /\ pc[a] = "commit" /\ Bkt(a) \in Buckets /\ blocked \in Int /\ WAITING \in Int
  BY Constants, CallType, WaitingType DEF Types, ProgTypes, TableTypes, SchedTypes, wait_thread, PlaceInv,
                                          InWait, Awaits
<1>1. pc' = [pc EXCEPT ![a] = "sleep"] /\ woke' = [woke EXCEPT ![a] = FALSE] /\ UNCHANGED <<prog, ip>>
  BY DEF wait_thread
<1>2. \A c \in Actors : Bkt(c)' = Bkt(c)
  BY <1>1 DEF Bkt, On, Call
<1>3. ~Waits(a) /\ Waits(a)' /\ \A c \in Actors : c # a => (Waits(c)' <=> Waits(c))
  BY <1>0, <1>1 DEF Waits
<1>4. \A c \in Actors : pc'[c] \notin {"sleep", "notified"} => woke'[c]
  BY <1>0, <1>1 DEF WaitInv
<1>8. PICK k \in Buckets : k = Bkt(a)
  BY <1>0
<1>5. CASE a \in Fibers
  <2>1. /\ blockedOn' = [blockedOn EXCEPT ![Bkt(a)] = @ + 1] /\ blocked' = blocked + 1
             /\ UNCHANGED <<sleepers, WAITING>>
    BY <1>0, <1>5 DEF wait_thread
  <2>2. WaitingThreads' = WaitingThreads /\ \A b \in Buckets : WaitingIn(b)' = WaitingIn(b)
    BY <1>0, <1>2, <1>3, <1>5 DEF WaitingThreads, WaitingIn
  <2>3. BlockedFibers' = BlockedFibers \cup {a} /\ a \notin BlockedFibers
    BY <1>3, <1>5 DEF BlockedFibers
  <2>4. /\ BlockedIn(k)' = BlockedIn(k) \cup {a} /\ a \notin BlockedIn(k)
        /\ \A b \in Buckets : b # k => BlockedIn(b)' = BlockedIn(b)
    BY <1>2, <1>5, <1>8, <2>3 DEF BlockedIn, BlockedFibers
  <2>5. blocked' = Cardinality(BlockedFibers')
    BY <2>1, <2>3, FiniteWaits, FS_AddElement DEF WaitInv
  <2>6. blockedOn'[k] = Cardinality(BlockedIn(k)')
    <3>1. Cardinality(BlockedIn(k) \cup {a}) = Cardinality(BlockedIn(k)) + 1
      BY <2>4, FiniteWaits, FS_AddElement
    <3> QED BY <1>0, <1>8, <2>1, <2>4, <3>1 DEF WaitInv
  <2>7. \A b \in Buckets : blockedOn'[b] = Cardinality(BlockedIn(b)')
    <3>1. ASSUME NEW b \in Buckets, b # k PROVE blockedOn'[b] = Cardinality(BlockedIn(b)')
      BY <1>0, <1>8, <2>1, <2>4, <3>1 DEF WaitInv
    <3> QED BY <2>6, <3>1
  <2> QED BY <1>4, <2>1, <2>2, <2>5, <2>7 DEF WaitInv
<1>6. CASE a \in Threads
  <2>1. /\ sleepers' = [sleepers EXCEPT ![Bkt(a)] = @ \cup {a}] /\ WAITING' = WAITING + 1
             /\ UNCHANGED <<blockedOn, blocked>>
    BY <1>0, <1>6 DEF wait_thread
  <2>2. BlockedFibers' = BlockedFibers /\ \A b \in Buckets : BlockedIn(b)' = BlockedIn(b)
    BY <1>0, <1>2, <1>3, <1>6 DEF BlockedFibers, BlockedIn
  <2>3. WaitingThreads' = WaitingThreads \cup {a} /\ a \notin WaitingThreads
    BY <1>3, <1>6 DEF WaitingThreads
  <2>4. \A b \in Buckets : WaitingIn(b)' = IF b = Bkt(a) THEN WaitingIn(b) \cup {a} ELSE WaitingIn(b)
    BY <1>2, <1>6, <2>3 DEF WaitingIn, WaitingThreads
  <2>5. WAITING' = Cardinality(WaitingThreads')
    BY <2>1, <2>3, FiniteWaits, FS_AddElement DEF WaitInv
  <2>6. \A b \in Buckets : sleepers'[b] = WaitingIn(b)'
    BY <1>0, <2>1, <2>4 DEF WaitInv
  <2> QED BY <1>4, <2>1, <2>2, <2>5, <2>6 DEF WaitInv
<1> QED BY <1>5, <1>6

\* A sleep that ends takes its count back unless a wake did.
LEMMA ReturnKeeps ==
  ASSUME Types, PlaceInv, WaitInv, NEW a \in Actors, pc[a] \in {"sleep", "notified"}, wait_return(a)
  PROVE  WaitInv'
<1>0. /\ pc \in [Actors -> Places] /\ woke \in [Actors -> BOOLEAN] /\ Fibers \cap Threads = {}
      /\ sleepers \in [Buckets -> SUBSET Threads] /\ blockedOn \in [Buckets -> Int]
      /\ Bkt(a) \in Buckets /\ blocked \in Int /\ WAITING \in Int
  BY Constants, CallType, WaitingType DEF Types, ProgTypes, TableTypes, SchedTypes, PlaceInv, InWait, Awaits
<1>1. pc' = [pc EXCEPT ![a] = "run"] /\ woke' = [woke EXCEPT ![a] = TRUE] /\ UNCHANGED <<prog, ip>>
  BY DEF wait_return
<1>2. \A c \in Actors : Bkt(c)' = Bkt(c)
  BY <1>1 DEF Bkt, On, Call
<1>3. ~Waits(a)' /\ (Waits(a) <=> ~woke[a]) /\ \A c \in Actors : c # a => (Waits(c)' <=> Waits(c))
  BY <1>0, <1>1 DEF Waits
<1>4. \A c \in Actors : pc'[c] \notin {"sleep", "notified"} => woke'[c]
  BY <1>0, <1>1 DEF WaitInv
<1>8. PICK k \in Buckets : k = Bkt(a)
  BY <1>0
<1>5. CASE woke[a]
  <2>1. Counted(a) = 0
    BY <1>5 DEF Counted
  <2>2. UNCHANGED <<sleepers, blockedOn, blocked, WAITING>>
    <3>1. CASE a \in Fibers
      <4>1. /\ blockedOn' = [blockedOn EXCEPT ![Bkt(a)] = @ - 0] /\ blocked' = blocked - 0
            /\ UNCHANGED <<sleepers, WAITING>>
        BY <1>0, <2>1, <3>1 DEF wait_return
      <4> QED BY SMT, <1>0, <4>1
    <3>2. CASE a \in Threads
      BY SMT, <1>0, <1>5, <2>1, <3>2 DEF wait_return
    <3> QED BY <3>1, <3>2
  <2>3. BlockedFibers' = BlockedFibers /\ WaitingThreads' = WaitingThreads
    BY <1>3, <1>5 DEF BlockedFibers, WaitingThreads
  <2>4. \A b \in Buckets : BlockedIn(b)' = BlockedIn(b) /\ WaitingIn(b)' = WaitingIn(b)
    BY <1>2, <2>3 DEF BlockedIn, WaitingIn, BlockedFibers, WaitingThreads
  <2> QED BY <1>4, <2>2, <2>3, <2>4 DEF WaitInv
<1>6. CASE ~woke[a] /\ a \in Fibers
  <2>0. Counted(a) = 1
    BY <1>6 DEF Counted
  <2>1. /\ blockedOn' = [blockedOn EXCEPT ![Bkt(a)] = @ - 1] /\ blocked' = blocked - 1
             /\ UNCHANGED <<sleepers, WAITING>>
    BY <1>0, <1>6, <2>0 DEF wait_return
  <2>2. WaitingThreads' = WaitingThreads /\ \A b \in Buckets : WaitingIn(b)' = WaitingIn(b)
    BY <1>0, <1>2, <1>3, <1>6 DEF WaitingThreads, WaitingIn
  <2>3. BlockedFibers' = BlockedFibers \ {a} /\ a \in BlockedFibers
    BY <1>3, <1>6 DEF BlockedFibers
  <2>4. /\ BlockedIn(k)' = BlockedIn(k) \ {a} /\ a \in BlockedIn(k)
        /\ \A b \in Buckets : b # k => BlockedIn(b)' = BlockedIn(b)
    BY <1>2, <1>6, <1>8, <2>3 DEF BlockedIn, BlockedFibers
  <2>5. blocked' = Cardinality(BlockedFibers')
    BY <2>1, <2>3, FiniteWaits, FS_RemoveElement DEF WaitInv
  <2>6. blockedOn'[k] = Cardinality(BlockedIn(k)')
    <3>1. Cardinality(BlockedIn(k) \ {a}) = Cardinality(BlockedIn(k)) - 1
      BY <2>4, FiniteWaits, FS_RemoveElement
    <3> QED BY <1>0, <1>8, <2>1, <2>4, <3>1 DEF WaitInv
  <2>7. \A b \in Buckets : blockedOn'[b] = Cardinality(BlockedIn(b)')
    <3>1. ASSUME NEW b \in Buckets, b # k PROVE blockedOn'[b] = Cardinality(BlockedIn(b)')
      BY <1>0, <1>8, <2>1, <2>4, <3>1 DEF WaitInv
    <3> QED BY <2>6, <3>1
  <2> QED BY <1>4, <2>1, <2>2, <2>5, <2>7 DEF WaitInv
<1>7. CASE ~woke[a] /\ a \in Threads
  <2>0. Counted(a) = 1
    BY <1>7 DEF Counted
  <2>1. /\ sleepers' = [sleepers EXCEPT ![Bkt(a)] = @ \ {a}] /\ WAITING' = WAITING - 1
             /\ UNCHANGED <<blockedOn, blocked>>
    BY <1>0, <1>7, <2>0 DEF wait_return
  <2>2. BlockedFibers' = BlockedFibers /\ \A b \in Buckets : BlockedIn(b)' = BlockedIn(b)
    BY <1>0, <1>2, <1>3, <1>7 DEF BlockedFibers, BlockedIn
  <2>3. WaitingThreads' = WaitingThreads \ {a} /\ a \in WaitingThreads
    BY <1>3, <1>7 DEF WaitingThreads
  <2>4. \A b \in Buckets : WaitingIn(b)' = IF b = Bkt(a) THEN WaitingIn(b) \ {a} ELSE WaitingIn(b)
    BY <1>2, <1>7, <2>3 DEF WaitingIn, WaitingThreads
  <2>5. WAITING' = Cardinality(WaitingThreads')
    BY <2>1, <2>3, FiniteWaits, FS_RemoveElement DEF WaitInv
  <2>6. \A b \in Buckets : sleepers'[b] = WaitingIn(b)'
    BY <1>0, <2>1, <2>4 DEF WaitInv
  <2> QED BY <1>4, <2>1, <2>2, <2>5, <2>6 DEF WaitInv
<1> QED BY <1>5, <1>6, <1>7

\* A wake takes back the counts of all of the sleeps of its bucket.
LEMMA TakeKeepsCounts ==
  ASSUME Types, PlaceInv, WaitInv, NEW p \in Wakers, wake_under_the_lock(p)
  PROVE  WaitInv'
<1> DEFINE b == waking[p].b
<1>0. /\ b \in Buckets /\ pc \in [Actors -> Places] /\ woke \in [Actors -> BOOLEAN]
      /\ sleepers \in [Buckets -> SUBSET Threads] /\ blockedOn \in [Buckets -> Int]
      /\ blocked \in Int /\ WAITING \in Int
  BY WaitingType DEF Types, ProgTypes, TableTypes, SchedTypes, WakeCalls
<1>1. /\ sleepers' = [sleepers EXCEPT ![b] = {}] /\ WAITING' = WAITING - Cardinality(sleepers[b])
      /\ blockedOn' = [blockedOn EXCEPT ![b] = 0] /\ blocked' = blocked - blockedOn[b]
      /\ UNCHANGED <<prog, ip, pc>>
  BY DEF wake_under_the_lock, unblocked
<1>2. \A a \in Actors : woke'[a] = (woke[a] \/ (pc[a] \in {"sleep", "notified"} /\ Bkt(a) = b))
  BY DEF wake_under_the_lock
<1> HIDE DEF b
<1>3. \A c \in Actors : Bkt(c)' = Bkt(c)
  BY <1>1 DEF Bkt, On, Call
<1>4. \A a \in Actors : Waits(a)' <=> Waits(a) /\ Bkt(a) # b
  BY <1>1, <1>2 DEF Waits
<1>5. \A a \in Actors : pc'[a] \notin {"sleep", "notified"} => woke'[a]
  BY <1>1, <1>2 DEF WaitInv
<1>6. /\ WaitingThreads' = WaitingThreads \ WaitingIn(b) /\ WaitingThreads \cap WaitingIn(b) = WaitingIn(b)
      /\ BlockedFibers' = BlockedFibers \ BlockedIn(b) /\ BlockedFibers \cap BlockedIn(b) = BlockedIn(b)
  BY <1>4 DEF WaitingThreads, WaitingIn, BlockedFibers, BlockedIn
<1>7. /\ WAITING' = Cardinality(WaitingThreads') /\ blocked' = Cardinality(BlockedFibers')
  <2>1. /\ Cardinality(WaitingThreads \ WaitingIn(b)) = Cardinality(WaitingThreads) - Cardinality(WaitingIn(b))
        /\ Cardinality(BlockedFibers \ BlockedIn(b)) = Cardinality(BlockedFibers) - Cardinality(BlockedIn(b))
    <3>1. IsFiniteSet(WaitingThreads) /\ IsFiniteSet(BlockedFibers)
      BY FiniteWaits
    <3>2. Cardinality(WaitingThreads \ WaitingIn(b))
            = Cardinality(WaitingThreads) - Cardinality(WaitingThreads \cap WaitingIn(b))
      BY <3>1, FS_Difference
    <3>3. Cardinality(BlockedFibers \ BlockedIn(b))
            = Cardinality(BlockedFibers) - Cardinality(BlockedFibers \cap BlockedIn(b))
      BY <3>1, FS_Difference
    <3> QED BY <1>6, <3>2, <3>3
  <2> QED BY <1>0, <1>1, <1>6, <2>1 DEF WaitInv
<1>8. \A c \in Buckets : /\ WaitingIn(c)' = IF c = b THEN {} ELSE WaitingIn(c)
                         /\ BlockedIn(c)' = IF c = b THEN {} ELSE BlockedIn(c)
  BY <1>3, <1>6 DEF WaitingThreads, WaitingIn, BlockedFibers, BlockedIn
<1>9. \A c \in Buckets : sleepers'[c] = WaitingIn(c)'
  BY <1>0, <1>1, <1>8 DEF WaitInv
<1>10. \A c \in Buckets : blockedOn'[c] = Cardinality(BlockedIn(c)')
  <2>1. ASSUME NEW c \in Buckets, c = b PROVE blockedOn'[c] = Cardinality(BlockedIn(c)')
    BY <1>0, <1>1, <1>8, <2>1, FS_EmptySet
  <2>2. ASSUME NEW c \in Buckets, c # b PROVE blockedOn'[c] = Cardinality(BlockedIn(c)')
    BY <1>0, <1>1, <1>8, <2>2 DEF WaitInv
  <2> QED BY <2>1, <2>2
<1> QED BY <1>5, <1>7, <1>9, <1>10 DEF WaitInv

\* The steps of a waiter that put it on a list, begin its sleep or end it.
Moves(a) ==
  \/ wait_fiber(a) \/ wait_thread(a)
  \/ pc[a] \in {"sleep", "notified"} /\ wait_return(a)

\* The other steps leave the sleeps and the notes alone.
LEMMA StillSteps ==
  ASSUME Types, OwnInv, WaitInv, [Next]_vars
  PROVE  \/ Still /\ UNCHANGED <<fibers, notes>>
         \/ \E a \in Actors : Moves(a)
         \/ \E p \in Wakers : wake_under_the_lock(p)
<1>0. /\ pc \in [Actors -> Places] /\ ip \in [Actors -> Nat \ {0}]
      /\ \A a \in Actors : pc[a] \notin {"sleep", "notified"} => woke[a]
  BY DEF Types, ProgTypes, WaitInv
<1> USE <1>0
<1> DEFINE Quietly == Still /\ UNCHANGED <<fibers, notes>>
<1> USE DEF Still, Waits, Places
<1>1. ASSUME NEW a \in Actors, Await(a) PROVE Quietly
  BY <1>1 DEF Await
<1>2. ASSUME NEW a \in Actors, wait_check(a) PROVE Quietly
  BY <1>2 DEF wait_check
<1>4. ASSUME NEW a \in Actors, wake_at(a) PROVE Quietly
  BY <1>4 DEF wake_at
<1>5. ASSUME NEW a \in Actors, wait_thread_timed(a) PROVE Quietly
  BY <1>5 DEF wait_thread_timed
<1>6. ASSUME NEW a \in Actors, signal(a) PROVE Quietly
  BY <1>6 DEF signal
<1>7. ASSUME NEW a \in Actors, cancel(a) PROVE Quietly
  BY <1>7 DEF cancel
<1>8. ASSUME NEW a \in Actors, NextBucket(a) PROVE Quietly
  BY <1>8 DEF NextBucket
<1>9. ASSUME NEW a \in Actors, WakeReturns(a) PROVE Quietly
  BY <1>9 DEF WakeReturns, WakeIsOver, OwnInv, WakeInv
<1>10. ASSUME NEW a \in Actors, spawn(a) PROVE Quietly
  <2>1. /\ pc[a] = "run" /\ pc[On(a)] = "new"
        /\ UNCHANGED <<prog, woke, sleepers, blockedOn, blocked, WAITING, fibers, notes>>
        /\ ip' = [ip EXCEPT ![a] = ip[a] + 1]
        /\ pc' \in {[pc EXCEPT ![On(a)] = "ready"], [pc EXCEPT ![On(a)] = "run"]}
    BY <1>10 DEF spawn
  <2> QED BY <2>1
<1>11. ASSUME NEW a \in Actors, task_ends(a) PROVE Quietly
  BY <1>11 DEF task_ends
<1>12. ASSUME NEW a \in Actors, thread_ended(a) PROVE Quietly
  BY <1>12 DEF thread_ended, WakeIsOver, OwnInv, WakeInv
<1>13. ASSUME NEW a \in Actors, free(a) PROVE Quietly
  BY <1>13 DEF free
<1>14. ASSUME NEW a \in Actors, vx_callback(a) PROVE Quietly
  BY <1>14 DEF vx_callback
<1>15. ASSUME NEW p \in Wakers, wake_progress(p) PROVE Quietly
  BY <1>15 DEF wake_progress
<1>16. ASSUME NEW p \in Wakers, wake_notify_all(p) PROVE Quietly
  BY <1>16 DEF wake_notify_all
<1>17. ASSUME NEW p \in Wakers, push(p) PROVE Quietly
  BY <1>17 DEF push
<1>18. ASSUME NEW p \in Wakers, NEW f \in Fibers, sched_wake(p, f) PROVE Quietly
  BY <1>18 DEF sched_wake
<1>19. ASSUME NEW w \in Workers, pop(w) PROVE Quietly
  <2>1. Head(ready) \in Fibers /\ pc[Head(ready)] \in {"ready", "parked"}
    BY <1>19, QueueTail DEF pop, Types, SchedTypes, OwnInv, QueueInv
  <2> QED BY <1>19, <2>1 DEF pop
<1>20. ASSUME NEW w \in Workers, pop_waits(w) PROVE Quietly
  BY <1>20 DEF pop_waits
<1>21. ASSUME NEW w \in Workers, park(w) PROVE Quietly
  BY <1>21 DEF park
<1>22. ASSUME NEW w \in Workers, leave(w) PROVE Quietly
  BY <1>22 DEF leave
<1>23. ASSUME NEW w \in Workers, fiber_ended(w) PROVE Quietly
  BY <1>23 DEF fiber_ended, WakeIsOver, OwnInv, WakeInv
<1>24. ASSUME monitor \/ RunTimer \/ Finished \/ UNCHANGED vars PROVE Quietly
  BY <1>24 DEF monitor, RunTimer, expire, timer_fire, timer_fired, Finished, vars
<1> HIDE DEF Quietly
<1>25. ASSUME NEW a \in Actors, Notified(a) \/ TimedOut(a) \/ Spurious(a) PROVE Moves(a)
  BY <1>25 DEF Notified, TimedOut, Spurious, Moves
<1>26. ASSUME NEW a \in Actors, wait_fiber(a) \/ wait_thread(a) PROVE Moves(a)
  BY SMT, <1>26 DEF Moves
<1>27. Quietly \/ (\E a \in Actors : Moves(a)) \/ (\E p \in Wakers : wake_under_the_lock(p))
  BY <1>1, <1>2, <1>4, <1>5, <1>6, <1>7, <1>8, <1>9, <1>10, <1>11, <1>12, <1>13, <1>14, <1>15, <1>16, <1>17,
     <1>18, <1>19, <1>20, <1>21, <1>22, <1>23, <1>24, <1>25, <1>26 DEF Next, Act, DoWake, Work
<1> QED BY <1>27 DEF Quietly

\* Every step keeps the counts of the sleeps.
LEMMA WaitInvStep ==
  ASSUME Types, PlaceInv, OwnInv, WaitInv, [Next]_vars
  PROVE  WaitInv'
<1>1. ASSUME NEW a \in Actors, wait_fiber(a) PROVE Still
  BY <1>1 DEF wait_fiber, Still, Waits, Types, ProgTypes, Places, WaitInv
<1> QED BY <1>1, StillSteps, StillKeeps, SleepKeeps, ReturnKeeps, TakeKeepsCounts DEF Moves

-----------------------------------------------------------------------------
\* Who has a note in a bucket: a fiber on its list, and an actor in a counted sleep.
HasNote(a, b) == a \in FibersOf(fibers[b]) \/ (Waits(a) /\ Bkt(a) = b)

NotesInv == \A b \in Buckets : \A a \in Actors : a \in notes[b] <=> HasNote(a, b)

\* A fiber on the list of a bucket is not in a sleep.
LEMMA ListedIsNotAsleep ==
  ASSUME Types, OwnInv, NEW b \in Buckets, NEW f \in FibersOf(fibers[b])
  PROVE  f \in Fibers /\ pc[f] \in {"arm", "park", "parked"}
<1>1. PICK e \in fibers[b] : f = e[1]
  BY DEF FibersOf
<1>2. f \in Fibers /\ state[f] \in {"PARKING", "PARKED"}
  BY SMT, <1>1 DEF Types, TableTypes, OwnInv, ListInv
<1> QED BY <1>2 DEF OwnInv, StateInv

\* Every step keeps the notes: wait leaves one with its place on a list, and the wake
\* and the end of the sleep take it back.
LEMMA NotesStep ==
  ASSUME Types, PlaceInv, OwnInv, WaitInv, NotesInv, [Next]_vars
  PROVE  NotesInv'
<1>0. /\ pc \in [Actors -> Places] /\ woke \in [Actors -> BOOLEAN]
      /\ notes \in [Buckets -> SUBSET Actors] /\ fibers \in [Buckets -> SUBSET (Fibers \X Words)]
      /\ \A a \in Actors : pc[a] \notin {"sleep", "notified"} => woke[a]
      /\ \A a \in Actors : pc[a] \in {"commit", "sleep", "notified"} => Bkt(a) \in Buckets
  BY CallType DEF Types, ProgTypes, TableTypes, WaitInv, PlaceInv, InWait, Awaits
<1>1. CASE Still /\ UNCHANGED <<fibers, notes>>
  <2>1. \A a \in Actors : Waits(a) => Bkt(a)' = Bkt(a)
    BY <1>1 DEF Still, Bkt, On, Call
  <2>2. \A b \in Buckets : \A a \in Actors : HasNote(a, b)' <=> HasNote(a, b)
    BY <1>1, <2>1 DEF Still, HasNote, FibersOf
  <2> QED BY <1>1, <2>2 DEF NotesInv
<1>2. ASSUME NEW a \in Actors, wait_fiber(a) PROVE NotesInv'
  <2>1. /\ pc[a] = "commit" /\ UNCHANGED <<prog, ip, woke>>
        /\ \E to \in {"arm", "park"} : pc' = [pc EXCEPT ![a] = to]
        /\ fibers' = [fibers EXCEPT ![Bkt(a)] = @ \cup {<<a, On(a)>>}]
        /\ notes' = [notes EXCEPT ![Bkt(a)] = @ \cup {a}]
    BY <1>2 DEF wait_fiber
  <2>2. \A c \in Actors : (Waits(c)' <=> Waits(c)) /\ Bkt(c)' = Bkt(c)
    BY <1>0, <2>1 DEF Waits, Bkt, On, Call
  <2>3. PICK k \in Buckets : k = Bkt(a)
    BY <1>0, <2>1
  <2>4. \A b \in Buckets : \A c \in Actors :
          c \in FibersOf(fibers'[b]) <=> c \in FibersOf(fibers[b]) \/ (b = k /\ c = a)
    <3>1. \A b \in Buckets : fibers'[b] = IF b = k THEN fibers[b] \cup {<<a, On(a)>>} ELSE fibers[b]
      BY <1>0, <2>1, <2>3
    <3>2. FibersOf(fibers[k] \cup {<<a, On(a)>>}) = FibersOf(fibers[k]) \cup {a}
      <4> DEFINE e == <<a, On(a)>>
      <4>1. e[1] = a
        OBVIOUS
      <4> HIDE DEF e
      <4>2. FibersOf(fibers[k] \cup {e}) = FibersOf(fibers[k]) \cup {a}
        BY <4>1 DEF FibersOf
      <4> QED BY <4>2 DEF e
    <3> QED BY <3>1, <3>2
  <2>5. \A b \in Buckets : \A c \in Actors : c \in notes'[b] <=> c \in notes[b] \/ (b = k /\ c = a)
    BY <1>0, <2>1, <2>3
  <2>6. \A b \in Buckets : \A c \in Actors : HasNote(c, b)' <=> HasNote(c, b) \/ (b = k /\ c = a)
    BY <2>2, <2>4 DEF HasNote
  <2> QED BY <2>5, <2>6 DEF NotesInv
<1>3. ASSUME NEW a \in Actors, wait_thread(a) PROVE NotesInv'
  <2>1. /\ pc[a] = "commit" /\ UNCHANGED <<prog, ip, fibers>>
        /\ pc' = [pc EXCEPT ![a] = "sleep"] /\ woke' = [woke EXCEPT ![a] = FALSE]
        /\ notes' = [notes EXCEPT ![Bkt(a)] = @ \cup {a}]
    BY <1>3 DEF wait_thread
  <2>2. \A c \in Actors : (Waits(c)' <=> Waits(c) \/ c = a) /\ Bkt(c)' = Bkt(c)
    BY <1>0, <2>1 DEF Waits, Bkt, On, Call
  <2>3. PICK k \in Buckets : k = Bkt(a)
    BY <1>0, <2>1
  <2>4. \A b \in Buckets : \A c \in Actors : c \in notes'[b] <=> c \in notes[b] \/ (b = k /\ c = a)
    BY <1>0, <2>1, <2>3
  <2>5. \A b \in Buckets : \A c \in Actors : HasNote(c, b)' <=> HasNote(c, b) \/ (b = k /\ c = a)
    BY <2>1, <2>2, <2>3 DEF HasNote
  <2> QED BY <2>4, <2>5 DEF NotesInv
<1>4. ASSUME NEW a \in Actors, pc[a] \in {"sleep", "notified"}, wait_return(a) PROVE NotesInv'
  <2>1. /\ UNCHANGED <<prog, ip, fibers>>
        /\ pc' = [pc EXCEPT ![a] = "run"] /\ woke' = [woke EXCEPT ![a] = TRUE]
        /\ notes' = IF woke[a] THEN notes ELSE [notes EXCEPT ![Bkt(a)] = @ \ {a}]
    BY <1>4 DEF wait_return
  <2>2. \A c \in Actors : (Waits(c)' <=> Waits(c) /\ c # a) /\ Bkt(c)' = Bkt(c)
    BY <1>0, <2>1 DEF Waits, Bkt, On, Call
  <2>3. \A b \in Buckets : a \notin FibersOf(fibers[b])
    BY <1>4, ListedIsNotAsleep
  <2>4. \A b \in Buckets : \A c \in Actors : HasNote(c, b)' <=> HasNote(c, b) /\ c # a
    BY <2>1, <2>2, <2>3 DEF HasNote
  <2>5. \A b \in Buckets : a \in notes[b] => ~woke[a] /\ b = Bkt(a)
    BY <2>3 DEF NotesInv, HasNote, Waits
  <2>6. \A b \in Buckets : \A c \in Actors : c \in notes'[b] <=> c \in notes[b] /\ c # a
    BY <1>0, <1>4, <2>1, <2>5
  <2> QED BY <2>4, <2>6 DEF NotesInv
<1>5. ASSUME NEW p \in Wakers, wake_under_the_lock(p) PROVE NotesInv'
  <2>0. PICK k \in Buckets : k = waking[p].b
    BY DEF Types, WakeCalls
  <2> DEFINE kept == fibers[k] \ take_fibers(k, waking[p].of)
  <2>1. /\ UNCHANGED <<prog, ip, pc>>
        /\ fibers' = [fibers EXCEPT ![k] = kept]
        /\ notes' = [notes EXCEPT ![k] = notes[k] \cap FibersOf(kept)]
    BY <1>5, <2>0 DEF wake_under_the_lock, keep_the_notes_of_parked_fibers
  <2>2. \A c \in Actors : woke'[c] = (woke[c] \/ (pc[c] \in {"sleep", "notified"} /\ Bkt(c) = k))
    BY <1>5, <2>0 DEF wake_under_the_lock
  <2>3. FibersOf(kept) \subseteq FibersOf(fibers[k])
    BY DEF FibersOf
  <2> HIDE DEF kept
  <2>4. \A c \in Actors : (Waits(c)' <=> Waits(c) /\ Bkt(c) # k) /\ Bkt(c)' = Bkt(c)
    BY <2>1, <2>2 DEF Waits, Bkt, On, Call
  <2>5. \A b \in Buckets : b # k => notes'[b] = notes[b] /\ fibers'[b] = fibers[b]
    BY <1>0, <2>1
  <2>6. notes'[k] = notes[k] \cap FibersOf(kept) /\ fibers'[k] = kept
    BY <1>0, <2>1
  <2>7. \A b \in Buckets : \A c \in Actors : b # k => (HasNote(c, b)' <=> HasNote(c, b))
    BY <2>4, <2>5 DEF HasNote
  <2>8. \A c \in Actors : c \in FibersOf(kept) => c \in notes[k]
    BY <2>1, <2>3 DEF NotesInv, HasNote
  <2>9. \A c \in Actors : HasNote(c, k)' <=> c \in FibersOf(kept)
    BY <2>4, <2>6 DEF HasNote
  <2> QED BY <2>5, <2>6, <2>7, <2>8, <2>9 DEF NotesInv
<1> QED BY <1>1, <1>2, <1>3, <1>4, <1>5, StillSteps DEF Moves

\* The counts are true at the start.
LEMMA CountsInit == Init => running = Cardinality(Busy) /\ THREADS = Cardinality(Alive) /\ WaitInv
<1> SUFFICES ASSUME Init PROVE running = Cardinality(Busy) /\ THREADS = Cardinality(Alive) /\ WaitInv
  OBVIOUS
<1>0. /\ pc = [a \in Actors |-> IF a = Main THEN "run" ELSE "new"] /\ woke = [a \in Actors |-> TRUE]
      /\ sleepers = [b \in Buckets |-> {}] /\ blockedOn = [b \in Buckets |-> 0]
           /\ cur = [w \in Workers |-> "next"]
      /\ running = 0 /\ blocked = 0 /\ THREADS = 1 /\ WAITING = 0
      /\ Main \in Threads /\ Fibers \cap NoFiber = {}
  BY Constants DEF Init
<1>1. Busy = {} /\ Alive = {Main} /\ BlockedFibers = {} /\ WaitingThreads = {}
  BY <1>0 DEF Busy, Alive, BlockedFibers, WaitingThreads, Waits
<1>2. \A b \in Buckets : BlockedIn(b) = {} /\ WaitingIn(b) = {}
  BY <1>1 DEF BlockedIn, WaitingIn
<1> QED BY <1>0, <1>1, <1>2, FS_EmptySet, FS_Singleton DEF WaitInv

CountInv == running = Cardinality(Busy) /\ THREADS = Cardinality(Alive) /\ WaitInv

\* The inductive invariant of the counts holds in every run.
THEOREM Counts == Spec => [](Types /\ Flags /\ CountInv)
<1> DEFINE Inv == Types /\ Flags /\ PlaceInv /\ OwnInv
<1>1. Spec => []Inv
  BY Ownership
<1>2. Init => CountInv
  BY CountsInit DEF CountInv
<1>3. Inv /\ CountInv /\ [Next]_vars => CountInv'
  BY RunningStep, ThreadsStep, WaitInvStep DEF CountInv
<1> QED BY <1>1, <1>2, <1>3, PTL DEF Spec

\* The counts that the deadlock watcher reads (running, blocked, THREADS, WAITING) are
\* the numbers of the workers and of the threads that they stand for.
THEOREM TheCountsAreTrue == Spec => []CountsAreTrue
<1>1. CountInv => CountsAreTrue
  BY DEF CountInv, WaitInv, CountsAreTrue, Busy, Alive, BlockedFibers, WaitingThreads, Waits
<1> QED BY <1>1, Counts, PTL

\* There are no notes at the start.
LEMMA NotesInit == Init => NotesInv
<1> SUFFICES ASSUME Init PROVE NotesInv
  OBVIOUS
<1>1. \A b \in Buckets : notes[b] = {} /\ fibers[b] = {}
  BY DEF Init
<1>2. \A a \in Actors : ~Waits(a)
  BY DEF Init, Waits
<1>3. \A b \in Buckets : FibersOf(fibers[b]) = {}
  BY <1>1 DEF FibersOf
<1> QED BY <1>1, <1>2, <1>3 DEF NotesInv, HasNote

\* The report of a deadlock has a note for each waiter on a list, in the bucket of its
\* word, and for nothing else.
THEOREM TheNotesAreTrue == Spec => []NotesAreTrue
<1> DEFINE Inv == Types /\ Flags /\ PlaceInv /\ OwnInv
<1>1. Spec => []Inv
  BY Ownership
<1>2. Inv /\ CountInv /\ NotesInv /\ [Next]_vars => NotesInv'
  BY NotesStep DEF CountInv
<1>3. ASSUME Types, OwnInv, WaitInv, NotesInv PROVE NotesAreTrue
  <2>1. SUFFICES ASSUME NEW b \in Buckets
                 PROVE  notes[b] = FibersOf(fibers[b]) \cup sleepers[b] \cup BlockedIn(b)
    BY DEF NotesAreTrue, BlockedIn, BlockedFibers, Waits
  <2>2. notes[b] \subseteq Actors /\ FibersOf(fibers[b]) \subseteq Actors
    BY <1>3, ListedIsNotAsleep DEF Types, TableTypes
  <2>3. \A a \in Actors : a \in sleepers[b] \cup BlockedIn(b) <=> Waits(a) /\ Bkt(a) = b
    BY <1>3 DEF WaitInv, WaitingIn, WaitingThreads, BlockedIn, BlockedFibers
  <2>4. sleepers[b] \subseteq Actors /\ BlockedIn(b) \subseteq Actors
    BY <1>3 DEF WaitInv, WaitingIn, WaitingThreads, BlockedIn, BlockedFibers
  <2>5. \A a \in Actors : a \in notes[b] <=> a \in FibersOf(fibers[b]) \/ (Waits(a) /\ Bkt(a) = b)
    BY <1>3 DEF NotesInv, HasNote
  <2> QED BY <2>2, <2>3, <2>4, <2>5
<1>4. Inv /\ CountInv /\ NotesInv => NotesAreTrue
  BY <1>3 DEF CountInv
<1> QED BY <1>1, <1>2, <1>4, NotesInit, Counts, PTL DEF Spec

\* Every variable has its type, and so no count wraps below 0.
THEOREM TypeCorrect == Spec => []TypeOK
<1>1. ASSUME Types, CountInv
      PROVE  running \in Nat /\ blocked \in Nat /\ THREADS \in Nat /\ WAITING \in Nat
               /\ blockedOn \in [Buckets -> Nat]
  <2>1. IsFiniteSet(Busy) /\ IsFiniteSet(Alive)
    BY Finite, FS_Subset DEF Busy, Alive
  <2>2. Cardinality(Busy) \in Nat /\ Cardinality(Alive) \in Nat
    BY <2>1, FS_CardinalityType
  <2>3. Cardinality(BlockedFibers) \in Nat /\ Cardinality(WaitingThreads) \in Nat
    BY FiniteWaits, FS_CardinalityType
  <2>4. \A b \in Buckets : Cardinality(BlockedIn(b)) \in Nat
    BY FiniteWaits, FS_CardinalityType
  <2>5. blockedOn \in [Buckets -> Int] /\ \A b \in Buckets : blockedOn[b] \in Nat
    BY <1>1, <2>4 DEF Types, TableTypes, CountInv, WaitInv
  <2> QED BY <1>1, <2>2, <2>3, <2>5 DEF CountInv, WaitInv
<1>2. Types /\ Flags /\ CountInv => TypeOK
  BY <1>1 DEF TypeOK, Types, Flags, ProgTypes, TableTypes, TimerTypes, SchedTypes, WakeCalls
<1> QED BY <1>2, Counts, PTL

=============================================================================
