----------------------- MODULE DeadlockWatcherProofs ------------------------
(***************************************************************************)
(* A report of the deadlock watcher is about a program that can not go on, *)
(* for any number of fibers or threads, workers and words, and any         *)
(* programs of TaskRuntime.                                                *)
(***************************************************************************)
EXTENDS TaskCountProofs, DeadlockWatcher

\* The first-order prover is the one to try, unless a leaf names another.
USE Zenon

USE DEF Actors, Tasks, Words, Buckets, Timer, Wakers, NoFiber,
        progVars, tableVars, timerVars, schedVars, countVars, Goto, Advance, Doing

\* A sleep that the counts have has no deadline, and a parked fiber whose wait has one has its
\* entry in the heap of the timer, or the timer wakes its word.
TimedInv ==
  /\ \A a \in Actors : Waits(a) => ~Call(a).timed
  /\ \A f \in Fibers : OnList(f) /\ Call(f).timed /\ pc[f] # "arm" =>
                         <<f, ip[f]>> \in heap \/ Takes(Timer, On(f))
  /\ \A a \in Actors : pc[a] = "arm" => a \in Fibers
  /\ heap # {} \/ firing => Fibers # {}

\* A sleep that the counts have has no deadline.
LEMMA WaitsAreUntimed ==
  ASSUME Types, OwnInv, WaitInv, \A a \in Actors : Waits(a) => ~Call(a).timed, [Next]_vars
  PROVE  \A a \in Actors : Waits(a)' => ~Call(a)'.timed
<1>0. woke \in [Actors -> BOOLEAN] /\ pc \in [Actors -> Places]
  BY DEF Types, ProgTypes, TableTypes
<1>1. CASE Still
  BY <1>1 DEF Still, Call
<1>2. ASSUME NEW c \in Actors, wait_fiber(c) PROVE \A a \in Actors : Waits(a)' => ~Call(a)'.timed
  <2>1. /\ UNCHANGED <<prog, ip, woke>> /\ \E to \in {"arm", "park"} : pc' = [pc EXCEPT ![c] = to]
    BY <1>2 DEF wait_fiber
  <2> QED BY <1>0, <2>1 DEF Waits, Call
<1>3. ASSUME NEW c \in Actors, wait_thread(c) PROVE \A a \in Actors : Waits(a)' => ~Call(a)'.timed
  <2>1. /\ UNCHANGED <<prog, ip>> /\ woke' = [woke EXCEPT ![c] = FALSE] /\ pc' = [pc EXCEPT ![c] = "sleep"]
        /\ ~Call(c).timed
    BY <1>3 DEF wait_thread
  <2> QED BY <1>0, <2>1 DEF Waits, Call
<1>4. ASSUME NEW c \in Actors, wait_return(c) PROVE \A a \in Actors : Waits(a)' => ~Call(a)'.timed
  <2>1. UNCHANGED <<prog, ip>> /\ woke' = [woke EXCEPT ![c] = TRUE] /\ pc' = [pc EXCEPT ![c] = "run"]
    BY <1>4 DEF wait_return
  <2> QED BY <1>0, <2>1 DEF Waits, Call
<1>5. ASSUME NEW p \in Wakers, wake_under_the_lock(p) PROVE \A a \in Actors : Waits(a)' => ~Call(a)'.timed
  <2>1. UNCHANGED <<prog, ip, pc>> /\ \A a \in Actors : woke[a] => woke'[a]
    BY <1>0, <1>5 DEF wake_under_the_lock
  <2> QED BY <2>1 DEF Waits, Call
<1> QED BY <1>1, <1>2, <1>3, <1>4, <1>5, StillSteps DEF Moves

\* A step that arms no deadline, and puts no fiber on a list.
Unarmed ==
  /\ heap' = heap /\ (firing' => firing)
  /\ \A a \in Actors : pc'[a] = "arm" <=> pc[a] = "arm"
  /\ \A f \in Fibers : OnList(f)' => OnList(f)

\* The steps that change the heap, or who is to arm a deadline.
LEMMA ArmSteps ==
  ASSUME Types, OwnInv, [Next]_vars
  PROVE  \/ Unarmed
         \/ \E a \in Actors : wait_fiber(a) \/ wake_at(a)
         \/ \E e \in Entries : timer_fire(e)
<1>0. pc \in [Actors -> Places]
  BY DEF Types, ProgTypes
<1>1. ASSUME UNCHANGED <<heap, fibers>>, firing' => firing, \A a \in Actors : pc'[a] = "arm" <=> pc[a] = "arm"
      PROVE  Unarmed
  BY <1>1 DEF Unarmed, OnList
<1> USE <1>0
<1>2. ASSUME NEW a \in Actors, Await(a) PROVE Unarmed
  BY <1>1, <1>2 DEF Await
<1>3. ASSUME NEW a \in Actors, wait_check(a) PROVE Unarmed
  BY <1>1, <1>3 DEF wait_check
<1>4. ASSUME NEW a \in Actors, wait_thread_timed(a) PROVE Unarmed
  BY <1>1, <1>4 DEF wait_thread_timed
<1>5. ASSUME NEW a \in Actors, wait_thread(a) PROVE Unarmed
  BY <1>1, <1>5 DEF wait_thread
<1>6. ASSUME NEW a \in Actors, pc[a] \in {"sleep", "notified"}, wait_return(a) PROVE Unarmed
  BY <1>1, <1>6 DEF wait_return
<1>7. ASSUME NEW a \in Actors, signal(a) \/ cancel(a) \/ task_ends(a) PROVE Unarmed
  BY <1>1, <1>7 DEF signal, cancel, task_ends
<1>8. ASSUME NEW a \in Actors, NextBucket(a) PROVE Unarmed
  BY <1>1, <1>8 DEF NextBucket
<1>9. ASSUME NEW a \in Actors, WakeReturns(a) \/ thread_ended(a) PROVE Unarmed
  BY <1>1, <1>9 DEF WakeReturns, thread_ended, WakeIsOver, OwnInv, WakeInv
<1>10. ASSUME NEW a \in Actors, spawn(a) PROVE Unarmed
  <2>1. /\ pc[On(a)] = "new" /\ UNCHANGED <<heap, firing, fibers>>
        /\ pc' \in {[pc EXCEPT ![On(a)] = "ready"], [pc EXCEPT ![On(a)] = "run"]}
    BY <1>10 DEF spawn
  <2> QED BY <1>1, <2>1
<1>11. ASSUME NEW a \in Actors, free(a) \/ vx_callback(a) PROVE Unarmed
  BY <1>1, <1>11 DEF free, vx_callback
<1>12. ASSUME NEW p \in Wakers, wake_progress(p) \/ push(p) PROVE Unarmed
  BY <1>1, <1>12 DEF wake_progress, push
<1>13. ASSUME NEW p \in Wakers, wake_under_the_lock(p) PROVE Unarmed
  <2>1. UNCHANGED <<pc, heap, firing>> /\ \A b \in Buckets : fibers'[b] \subseteq fibers[b]
    BY <1>13 DEF wake_under_the_lock, Types, TableTypes
  <2> QED BY <2>1 DEF Unarmed, OnList
<1>14. ASSUME NEW p \in Wakers, wake_notify_all(p) PROVE Unarmed
  BY <1>1, <1>14 DEF wake_notify_all
<1>15. ASSUME NEW p \in Wakers, NEW f \in Fibers, sched_wake(p, f) PROVE Unarmed
  BY <1>1, <1>15 DEF sched_wake
<1>16. ASSUME NEW w \in Workers, pop(w) PROVE Unarmed
  <2>1. Head(ready) \in Fibers /\ pc[Head(ready)] \in {"ready", "parked"}
    BY <1>16, QueueTail DEF pop, Types, SchedTypes, OwnInv, QueueInv
  <2> QED BY <1>1, <1>16, <2>1 DEF pop
<1>17. ASSUME NEW w \in Workers, park(w) PROVE Unarmed
  BY <1>1, <1>17 DEF park
<1>18. ASSUME NEW w \in Workers, pop_waits(w) \/ leave(w) PROVE Unarmed
  BY <1>1, <1>18 DEF pop_waits, leave
<1>19. ASSUME NEW w \in Workers, fiber_ended(w) PROVE Unarmed
  BY <1>1, <1>19 DEF fiber_ended, WakeIsOver, OwnInv, WakeInv
<1>20. ASSUME monitor \/ Finished \/ UNCHANGED vars \/ \E e \in Entries : expire(e) PROVE Unarmed
  <2>1. UNCHANGED <<heap, firing, fibers, pc>>
    BY <1>20 DEF monitor, expire, Finished, vars
  <2> QED BY <1>1, <2>1
<1>22. ASSUME timer_fired PROVE Unarmed
  <2>1. UNCHANGED <<heap, fibers, pc>> /\ ~firing'
    BY <1>22 DEF timer_fired
  <2> QED BY <1>1, <2>1
<1>21. ASSUME NEW a \in Actors, Notified(a) \/ TimedOut(a) \/ Spurious(a) PROVE Unarmed
  BY <1>6, <1>21 DEF Notified, TimedOut, Spurious
<1> QED
  BY <1>2, <1>3, <1>4, <1>5, <1>7, <1>8, <1>9, <1>10, <1>11, <1>12, <1>13, <1>14, <1>15, <1>16, <1>17, <1>18,
     <1>19, <1>20, <1>21, <1>22 DEF Next, Act, DoWake, Work, RunTimer

\* A fiber that a step leaves on a list past its arm was there before, or just armed.
LEMMA DeadlineSteps ==
  ASSUME Types, PlaceInv, OwnInv, [Next]_vars
  PROVE  /\ prog' = prog
         /\ \A f \in Fibers : OnList(f)' /\ Call(f)'.timed /\ pc'[f] # "arm" =>
              OnList(f) /\ ip'[f] = ip[f] /\ (pc[f] # "arm" \/ <<f, ip[f]>> \in heap')
<1> DEFINE Good == /\ prog' = prog
                   /\ \A f \in Fibers : OnList(f)' /\ Call(f)'.timed /\ pc'[f] # "arm" =>
                        OnList(f) /\ ip'[f] = ip[f] /\ (pc[f] # "arm" \/ <<f, ip[f]>> \in heap')
<1>0. /\ pc \in [Actors -> Places] /\ \A f \in Fibers : OnList(f) => pc[f] \in {"arm", "park", "parked"}
  BY ListedPlace DEF Types, ProgTypes
<1>1. ASSUME NEW a \in Actors, wait_check(a) PROVE Good
  <2>1. UNCHANGED <<prog, ip, fibers>> /\ pc[a] = "wait"
          /\ \E to \in {"run", "commit"} : pc' = [pc EXCEPT ![a] = to]
    BY <1>1 DEF wait_check
  <2>2. \A f \in Fibers : OnList(f)' <=> OnList(f)
    BY <2>1 DEF OnList
  <2> QED BY <1>0, <2>1, <2>2
<1>2. ASSUME NEW a \in Actors, wait_fiber(a) PROVE Good
  <2>1. /\ UNCHANGED <<prog, ip>> /\ pc[a] = "commit" /\ Call(a)' = Call(a)
        /\ pc' = [pc EXCEPT ![a] = IF Call(a).timed THEN "arm" ELSE "park"]
    BY <1>2 DEF wait_fiber, Call
  <2>2. pc'[a] = "arm" \/ ~Call(a)'.timed
    BY <1>0, <2>1
  <2>3. \A f \in Fibers : f # a => pc'[f] = pc[f]
    BY <1>0, <2>1
  <2>4. \A f \in Fibers : OnList(f)' /\ f # a => OnList(f)
    <3>1. /\ fibers' = [fibers EXCEPT ![Bkt(a)] = @ \cup {<<a, On(a)>>}]
          /\ fibers \in [Buckets -> SUBSET (Fibers \X Words)]
      BY <1>2 DEF wait_fiber, Types, TableTypes
    <3> QED BY SMT, <3>1 DEF OnList
  <2> QED BY <2>1, <2>2, <2>3, <2>4
<1>3. ASSUME NEW a \in Actors, wake_at(a) PROVE Good
  <2>1. UNCHANGED <<prog, ip, fibers>> /\ pc' = [pc EXCEPT ![a] = "park"] /\ <<a, ip[a]>> \in heap'
    BY <1>3 DEF wake_at
  <2>2. \A f \in Fibers : OnList(f)' <=> OnList(f)
    BY <2>1 DEF OnList
  <2> QED BY <1>0, <2>1, <2>2
<1>4. ASSUME NEW e \in Entries, timer_fire(e) PROVE Good
  <2>1. UNCHANGED <<prog, ip, pc, fibers>>
    BY <1>4 DEF timer_fire
  <2> QED BY <2>1 DEF OnList
<1>5. ASSUME Stays, Unarmed PROVE Good
  BY <1>5 DEF Stays, Unarmed
<1>6. Good
  BY <1>1, <1>2, <1>3, <1>4, <1>5, StaySteps, ArmSteps
<1> QED BY <1>6

\* A deadline leaves the heap when the timer starts the wake of its word, and that wake
\* goes on to the list.
LEMMA TimerSteps ==
  ASSUME Types, PlaceInv, OwnInv, StoreInv, [Next]_vars
  PROVE  /\ \A e \in heap : e \in heap' \/ Takes(Timer, prog[e[1]][e[2]].on)'
         /\ \A w \in Words : Takes(Timer, w) => Takes(Timer, w)' \/ wake_under_the_lock(Timer)
<1>0. waking \in [Wakers -> WakeCalls] /\ Timer \in Wakers /\ Timer \notin Actors
  BY Constants DEF Types
<1>1. ASSUME NEW e \in heap PROVE e \in heap' \/ Takes(Timer, prog[e[1]][e[2]].on)'
  <2>1. ASSUME NEW k \in Entries, timer_fire(k) PROVE e \in heap' \/ Takes(Timer, prog[e[1]][e[2]].on)'
    <3>1. heap' = heap \ {k} /\ prog' = prog
            /\ waking' = [waking EXCEPT ![Timer] = WakeOf(prog[k[1]][k[2]].on)]
      BY <2>1 DEF timer_fire
    <3>2. waking'[Timer] = WakeOf(prog[k[1]][k[2]].on)
      BY <1>0, <3>1
    <3>3. waking'[Timer].of = prog[k[1]][k[2]].on /\ waking'[Timer].at = "progress"
      BY SMT, <3>2 DEF WakeOf
    <3> QED BY <3>1, <3>3 DEF Takes
  <2>2. ASSUME NEW a \in Actors, wait_fiber(a) \/ wake_at(a) PROVE e \in heap'
    BY <2>2 DEF wait_fiber, wake_at
  <2> QED BY <2>1, <2>2, ArmSteps DEF Unarmed
<1>2. ASSUME NEW w \in Words, Takes(Timer, w) PROVE Takes(Timer, w)' \/ wake_under_the_lock(Timer)
  <2>1. waking[Timer].of = w /\ waking[Timer].at \in {"progress", "take"} /\ firing
    BY <1>2 DEF Takes, OwnInv, WakeInv
  <2>2. CASE Steady
    BY <1>0, <1>2, <2>2, SteadyOwes
  <2>3. ASSUME NEW a \in Actors, signal(a) \/ task_ends(a) PROVE waking'[Timer] = waking[Timer]
    BY <1>0, <2>3 DEF signal, task_ends
  <2>4. ASSUME NEW p \in Wakers, p # Timer, wake_under_the_lock(p) \/ wake_notify_all(p)
        PROVE  waking'[Timer] = waking[Timer]
    BY <1>0, <2>4 DEF wake_under_the_lock, wake_notify_all
  <2>5. ~wake_notify_all(Timer)
    BY <2>1 DEF wake_notify_all
  <2>6. \A e \in Entries : ~timer_fire(e)
    BY <2>1 DEF timer_fire
  <2> QED BY <1>2, <2>2, <2>3, <2>4, <2>5, <2>6, SteadySteps DEF Takes
<1> QED BY <1>1, <1>2

\* Every step keeps the deadlines of the waits.
LEMMA TimedInvStep ==
  ASSUME Types, PlaceInv, OwnInv, WaitInv, StoreInv, TimedInv, [Next]_vars
  PROVE  TimedInv'
<1>1. \A a \in Actors : Waits(a)' => ~Call(a)'.timed
  BY WaitsAreUntimed DEF TimedInv
<1>2. ASSUME NEW f \in Fibers, OnList(f)', Call(f)'.timed, pc'[f] # "arm"
      PROVE  <<f, ip'[f]>> \in heap' \/ Takes(Timer, On(f))'
  <2>1. OnList(f) /\ ip'[f] = ip[f] /\ prog' = prog /\ (pc[f] # "arm" \/ <<f, ip[f]>> \in heap')
    BY <1>2, DeadlineSteps
  <2>2. Call(f)' = Call(f) /\ On(f)' = On(f)
    BY <2>1 DEF On, Call
  <2>3. pc[f] # "arm" => <<f, ip[f]>> \in heap \/ Takes(Timer, On(f))
    BY <1>2, <2>1, <2>2 DEF TimedInv
  <2>4. CASE <<f, ip[f]>> \in heap
    <3>1. PICK e \in heap : e = <<f, ip[f]>>
      BY <2>4
    <3>2. e[1] = f /\ e[2] = ip[f]
      BY <3>1
    <3>3. e \in heap' \/ Takes(Timer, prog[e[1]][e[2]].on)'
      BY TimerSteps
    <3> QED BY <2>1, <3>1, <3>2, <3>3 DEF Takes, On, Call
  <2>5. CASE Takes(Timer, On(f))
    <3>1. pc[f] \in {"arm", "park", "parked"} /\ Awaits(f)
      BY <2>1, ListedPlace DEF PlaceInv, InWait
    <3>2. On(f) \in Words
      BY <3>1, CallType DEF Awaits, On, Calls
    <3>3. ~wake_under_the_lock(Timer)
      <4>1. SUFFICES ASSUME wake_under_the_lock(Timer) PROVE FALSE
        OBVIOUS
      <4>2. PICK k \in Buckets : k = waking[Timer].b
        BY DEF Types, WakeCalls
      <4>3. PICK b \in Buckets : \E e \in fibers'[b] : e[1] = f
        BY <1>2 DEF OnList
      <4>4. PICK e \in fibers'[b] : e[1] = f
        BY <4>3
      <4>5. waking[Timer].of = On(f) /\ k = BucketOf[On(f)]
        BY <2>5, <3>2, <4>2, Constants DEF Takes, StoreInv
      <4>6. fibers' = [fibers EXCEPT ![k] = @ \ take_fibers(k, On(f))]
              /\ fibers \in [Buckets -> SUBSET (Fibers \X Words)]
        BY <4>1, <4>2, <4>5 DEF wake_under_the_lock, Types, TableTypes
      <4>7. e \in fibers[b]
        BY <4>4, <4>6
      <4>8. b = k /\ e[2] = On(f)
        BY <4>4, <4>5, <4>7 DEF OwnInv, ListInv, Bkt
      <4>9. e \in take_fibers(k, On(f))
        BY <4>7, <4>8 DEF take_fibers
      <4> QED BY <4>4, <4>6, <4>8, <4>9
    <3> QED BY <2>1, <2>2, <2>5, <3>2, <3>3, TimerSteps DEF Takes
  <2> QED BY <2>1, <2>3, <2>4, <2>5
<1>3. ASSUME NEW a \in Actors, pc'[a] = "arm" PROVE a \in Fibers
  <2>0. pc \in [Actors -> Places]
    BY DEF Types, ProgTypes
  <2>1. ASSUME NEW c \in Actors, wait_fiber(c) PROVE pc[a] = "arm" \/ a \in Fibers
    BY <1>3, <2>0, <2>1 DEF wait_fiber, fiber_that_can_park
  <2>2. ASSUME NEW c \in Actors, wake_at(c) PROVE pc[a] = "arm"
    BY <1>3, <2>0, <2>2 DEF wake_at
  <2>3. ASSUME NEW e \in Entries, timer_fire(e) PROVE pc[a] = "arm"
    BY <1>3, <2>3 DEF timer_fire
  <2> QED BY <1>3, <2>1, <2>2, <2>3, ArmSteps DEF Unarmed, TimedInv
<1>4. ASSUME heap' # {} \/ firing' PROVE Fibers # {}
  <2>1. ASSUME NEW c \in Actors, wait_fiber(c) PROVE Fibers # {}
    BY <2>1 DEF wait_fiber, fiber_that_can_park
  <2>2. ASSUME NEW c \in Actors, wake_at(c) PROVE Fibers # {}
    BY <2>2 DEF wake_at, TimedInv
  <2>3. ASSUME NEW e \in Entries, timer_fire(e) PROVE Fibers # {}
    BY <2>3 DEF timer_fire, TimedInv
  <2> QED BY <1>4, <2>1, <2>2, <2>3, ArmSteps DEF Unarmed, TimedInv
<1> QED BY <1>1, <1>2, <1>3, <1>4 DEF TimedInv

\* No deadline is armed at the start.
LEMMA TimedInit == Init => TimedInv
<1> SUFFICES ASSUME Init PROVE TimedInv
  OBVIOUS
<1>1. /\ \A a \in Actors : ~Waits(a) /\ pc[a] # "arm"
      /\ heap = {} /\ ~firing /\ \A b \in Buckets : fibers[b] = {}
  BY DEF Init, Waits
<1> QED BY <1>1 DEF TimedInv, OnList

\* A fiber that is ready is on the queue.
ReadyInv == \A f \in Fibers : pc[f] = "ready" => In(f, ready)

\* Every step keeps them there.
LEMMA ReadyInvStep ==
  ASSUME Types, PlaceInv, OwnInv, ReadyInv, [Next]_vars
  PROVE  ReadyInv'
<1>0. pc \in [Actors -> Places] /\ ready \in Seq(Fibers)
  BY DEF Types, ProgTypes, SchedTypes
<1>1. ASSUME UNCHANGED ready, \A f \in Fibers : pc'[f] = "ready" => pc[f] = "ready" PROVE ReadyInv'
  BY <1>1 DEF ReadyInv, In
<1>2. ASSUME NEW g \in Fibers, ready' = Append(ready, g), \A f \in Fibers : pc'[f] = "ready" =>
               pc[f] = "ready" \/ f = g
      PROVE  ReadyInv'
  <2>1. \A f : In(f, ready') <=> In(f, ready) \/ f = g
    BY <1>0, <1>2, QueueAppend
  <2> QED BY <1>2, <2>1 DEF ReadyInv, In
<1>3. Quiet => ReadyInv'
  BY <1>1 DEF Quiet
<1>4. ASSUME NEW a \in Actors, wait_fiber(a) PROVE ReadyInv'
  BY <1>0, <1>1, <1>4 DEF wait_fiber
<1>5. ASSUME NEW a \in Actors, spawn(a), On(a) \in Fibers PROVE ReadyInv'
  <2>1. ready' = Append(ready, On(a)) /\ pc' = [pc EXCEPT ![On(a)] = "ready"]
    BY <1>5, Constants DEF spawn
  <2>2. \A f \in Fibers : pc'[f] = "ready" => pc[f] = "ready" \/ f = On(a)
    BY <1>0, <2>1
  <2> QED BY <1>2, <1>5, <2>1, <2>2
<1>6. ASSUME NEW p \in Wakers, wake_under_the_lock(p) \/ \E f \in Fibers : sched_wake(p, f) PROVE ReadyInv'
  BY <1>1, <1>6 DEF wake_under_the_lock, sched_wake
<1>7. ASSUME NEW p \in Wakers, push(p) PROVE ReadyInv'
  BY <1>2, <1>7, PushedFibers DEF push
<1>8. ASSUME NEW w \in Workers, pop(w) PROVE ReadyInv'
  <2>1. /\ ready # <<>> /\ ready' = Tail(ready) /\ pc' = [pc EXCEPT ![Head(ready)] = "run"]
    BY <1>8 DEF pop
  <2>2. PICK g \in Fibers : g = Head(ready)
    BY <1>0, <2>1, QueueTail
  <2>3. \A f : In(f, ready) <=> In(f, ready') \/ f = g
    BY <1>0, <2>1, <2>2, QueueTail
  <2>4. \A f \in Fibers : pc'[f] = "ready" => pc[f] = "ready" /\ f # g
    BY <1>0, <2>1, <2>2
  <2> QED BY <2>3, <2>4 DEF ReadyInv, In
<1>9. ASSUME NEW w \in Workers, park(w) PROVE ReadyInv'
  <2>1. /\ cur[w] \in Fibers /\ pc' = [pc EXCEPT ![cur[w]] = "parked"]
             /\ ready' \in {ready, Append(ready, cur[w])}
    BY <1>9 DEF park, compare_exchange
  <2> QED BY <1>0, <1>1, <1>2, <2>1
<1>10. ASSUME NEW w \in Workers, fiber_ended(w) PROVE ReadyInv'
  BY <1>0, <1>1, <1>10 DEF fiber_ended
<1>11. ASSUME NEW a \in Actors, Act(a) \/ Spurious(a) PROVE ReadyInv'
  BY <1>3, <1>4, <1>5, <1>11, QuietSteps DEF OwnInv
<1>12. ASSUME NEW p \in Wakers, DoWake(p) PROVE ReadyInv'
  BY <1>3, <1>6, <1>7, <1>12, QuietSteps DEF OwnInv, DoWake
<1>13. ASSUME NEW w \in Workers, Work(w) PROVE ReadyInv'
  BY <1>3, <1>8, <1>9, <1>10, <1>13, QuietSteps DEF OwnInv, Work
<1>14. monitor \/ RunTimer \/ Finished \/ UNCHANGED vars => Quiet
  BY QuietSteps DEF OwnInv, Finished
<1> QED BY <1>3, <1>11, <1>12, <1>13, <1>14 DEF Next

\* The inductive invariants of the runtime, together.
RunInv ==
  /\ Types /\ Flags /\ PlaceInv /\ OwnInv /\ LockInv /\ EveryInv /\ WakeKept /\ StoreInv
  /\ CountInv /\ TimedInv /\ ReadyInv

\* They hold at the start.
LEMMA RunInit == Init => RunInv
<1>1. Init => ReadyInv
  BY DEF Init, ReadyInv
<1> QED BY <1>1, InitTypes, OwnInvInit, WakeInit, PromiseInit, CountsInit, TimedInit DEF RunInv, CountInv

\* Every step of the program keeps them.
LEMMA RunInvStep ==
  ASSUME RunInv, [Next]_vars
  PROVE  RunInv'
<1>1. Types' /\ Flags' /\ PlaceInv' /\ OwnInv'
  BY TypesStep, OwnInvStep DEF RunInv
<1>2. LockInv' /\ EveryInv' /\ WakeKept' /\ StoreInv'
  BY LockInvStep, EveryInvStep, WakeKeptStep, StoreInvStep DEF RunInv
<1>3. CountInv' /\ TimedInv' /\ ReadyInv'
  BY RunningStep, ThreadsStep, WaitInvStep, TimedInvStep, ReadyInvStep DEF RunInv, CountInv
<1> QED BY <1>1, <1>2, <1>3 DEF RunInv

\* A tick of the watcher changes only `progressed` of the runtime's variables, and keeps them.
LEMMA TickKeeps ==
  ASSUME RunInv, tick
  PROVE  RunInv'
<1>1. UNCHANGED <<progVars, tableVars, waking, timerVars, schedVars, THREADS, WAITING, watching>>
        /\ progressed' = FALSE
  BY DEF tick
<1>2. Types' /\ Flags'
  BY <1>1 DEF RunInv, Types, Flags, ProgTypes, TableTypes, TimerTypes, SchedTypes
<1>3. PlaceInv' /\ LockInv'
  BY <1>1 DEF RunInv, PlaceInv, AwaitAt, Awaits, Over, Call, LockInv, Bkt, On
<1>4. WakeInv' /\ StateInv' /\ CarryInv'
  BY <1>1 DEF RunInv, OwnInv, WakeInv, StateInv, CarryInv
<1>5. QueueInv' /\ PushInv'
  BY ZenonT(40), <1>1 DEF RunInv, OwnInv, QueueInv, PushInv, Once, In
<1>6. ListInv' /\ HandInv'
  <2>1. ListInv'
    BY <1>1 DEF RunInv, OwnInv, ListInv, Bkt, On, Call
  <2>2. HandInv'
    BY <1>1 DEF RunInv, OwnInv, HandInv
  <2> QED BY <2>1, <2>2
<1>7. FoundInv'
  BY <1>1 DEF RunInv, OwnInv, FoundInv, In, OnList, InHand, Pushed
<1>8. EveryInv'
  BY <1>1 DEF RunInv, EveryInv, Over
<1>9. WakeKept'
  BY ZenonT(40), <1>1 DEF RunInv, WakeKept, WakeComes, Due, Ends, OnList, On, Call
<1>10. StoreInv'
  BY <1>1 DEF RunInv, StoreInv, Takes, Lined, OnList, On, Call
<1>11. Busy' = Busy /\ Alive' = Alive /\ BlockedFibers' = BlockedFibers /\ WaitingThreads' = WaitingThreads
  BY <1>1 DEF Busy, Alive, BlockedFibers, WaitingThreads, Waits
<1>12. \A b \in Buckets : BlockedIn(b)' = BlockedIn(b) /\ WaitingIn(b)' = WaitingIn(b)
  BY <1>1, <1>11 DEF BlockedIn, WaitingIn, Bkt, On, Call
<1>13. CountInv'
  BY <1>1, <1>11, <1>12 DEF RunInv, CountInv, WaitInv
<1>14. TimedInv'
  BY <1>1 DEF RunInv, TimedInv, Waits, OnList, Takes, On, Call
<1>15. ReadyInv'
  BY <1>1 DEF RunInv, ReadyInv, In
<1> QED BY <1>2, <1>3, <1>4, <1>5, <1>6, <1>7, <1>8, <1>9, <1>10, <1>13, <1>14, <1>15 DEF RunInv, OwnInv

-----------------------------------------------------------------------------
\* The threads rest when each that is not new and not ended waits, as WAITING has it.
\* A wake begins before it adds to PROGRESS.  The fibers rest when none is ready, and
\* each worker that is busy carries one that blocks it.
ThreadsRest == \A t \in Threads : pc[t] \in {"new", "ended"} \/ Waits(t)
WakesBegin(S) == \A p \in S : waking[p].at \in {"no", "progress"}
FibersRest ==
  /\ ready = <<>>
  /\ \A w \in Workers : cur[w] \in Fibers \cup {"leaving"} => cur[w] \in Fibers /\ Waits(cur[w])

\* What a step without PROGRESS leaves: it wakes no thread, and ends no sleep.
Silent ==
  /\ ~progressed
  /\ \A p \in Wakers : waking[p].at \in {"no", "progress"} => waking'[p].at \in {"no", "progress"}
  /\ \A t \in Threads : Waits(t) => Waits(t)'
  /\ \A a \in Actors : pc[a] = "ended" => pc'[a] = "ended"
  /\ \A a \in Actors : pc[a] = "new" => pc'[a] = "new" \/ \E c \in Actors : spawn(c) /\ On(c) = a
  /\ WAITING' >= WAITING

\* Every step without PROGRESS is silent.
LEMMA SilentSteps ==
  ASSUME Types, OwnInv, WaitInv, [Next]_vars, ~progressed'
  PROVE  Silent
<1>0. /\ pc \in [Actors -> Places] /\ waking \in [Wakers -> WakeCalls] /\ WAITING \in Int
      /\ woke \in [Actors -> BOOLEAN]
  BY WaitingType DEF Types, ProgTypes, TableTypes
<1> DEFINE Quietly(a) ==
      /\ UNCHANGED <<progressed, WAITING, woke>> /\ pc[a] \notin {"new", "ended", "sleep", "notified"}
      /\ \A c \in Actors : c # a => pc'[c] = pc[c]
<1>01. WAITING >= WAITING
  BY SMT, <1>0
<1>1. ASSUME NEW a \in Actors, Quietly(a), UNCHANGED waking PROVE Silent
  BY <1>0, <1>01, <1>1 DEF Silent, Waits
<1>2. ASSUME NEW a \in Actors, Quietly(a), waking'[a].at \in {"no", "progress"},
             \A p \in Wakers : p # a => waking'[p] = waking[p]
      PROVE  Silent
  BY <1>0, <1>01, <1>2 DEF Silent, Waits
<1>3. NoWake.at = "no" /\ (\A w : WakeOf(w).at = "progress") /\ \A b : WakeEvery(b).at = "progress"
  BY DEF NoWake, WakeOf, WakeEvery
<1>4. ASSUME UNCHANGED <<progressed, WAITING, woke, pc>>,
             \A p \in Wakers : waking[p].at \in {"no", "progress"} => waking'[p].at \in {"no", "progress"}
      PROVE  Silent
  BY <1>01, <1>4 DEF Silent, Waits
<1>5. ASSUME NEW a \in Actors, Await(a) \/ wait_check(a) \/ wait_fiber(a) \/ wake_at(a)
               \/ wait_thread_timed(a)
      PROVE  Silent
  BY <1>0, <1>1, <1>5 DEF Await, wait_check, wait_fiber, wake_at, wait_thread_timed
<1>6. ASSUME NEW a \in Actors, wait_thread(a) PROVE Silent
  <2>1. /\ UNCHANGED <<progressed, waking>> /\ pc[a] = "commit" /\ pc' = [pc EXCEPT ![a] = "sleep"]
        /\ woke' = [woke EXCEPT ![a] = FALSE] /\ WAITING' \in {WAITING, WAITING + 1}
    BY <1>6 DEF wait_thread
  <2>2. WAITING' >= WAITING
    BY SMT, <1>0, <2>1
  <2> QED BY <1>0, <2>1, <2>2 DEF Silent, Waits
<1>7. ASSUME NEW a \in Actors, pc[a] \in {"sleep", "notified"}, wait_return(a) PROVE Silent
  <2>1. /\ UNCHANGED waking /\ pc' = [pc EXCEPT ![a] = "run"] /\ woke' = [woke EXCEPT ![a] = TRUE]
        /\ progressed' = (progressed \/ ~woke[a]) /\ WAITING' \in {WAITING, WAITING - Counted(a)}
    BY <1>7 DEF wait_return
  <2>2. woke[a] /\ ~progressed
    BY <2>1
  <2>3. Counted(a) = 0
    BY <2>2 DEF Counted
  <2>4. WAITING' >= WAITING
    BY SMT, <1>0, <2>1, <2>3
  <2> QED BY <1>0, <1>7, <2>1, <2>2, <2>4 DEF Silent, Waits
<1>8. ASSUME NEW a \in Actors, signal(a) PROVE Silent
  <2>1. Quietly(a) /\ waking' = [waking EXCEPT ![a] = WakeOf(On(a))]
    BY <1>0, <1>8 DEF signal
  <2> QED BY <1>0, <1>2, <1>3, <2>1
<1>9. ASSUME NEW a \in Actors, cancel(a) PROVE Silent
  <2>1. Quietly(a) /\ waking' = [waking EXCEPT ![a] = WakeEvery(1)]
    BY <1>0, <1>9 DEF cancel
  <2> QED BY <1>0, <1>2, <1>3, <2>1
<1>10. ASSUME NEW a \in Actors, task_ends(a) PROVE Silent
  <2>1. Quietly(a) /\ waking' = [waking EXCEPT ![a] = WakeOf(a)]
    BY <1>0, <1>10 DEF task_ends
  <2> QED BY <1>0, <1>2, <1>3, <2>1
<1>11. ASSUME NEW a \in Actors, NextBucket(a) PROVE Silent
  <2>1. pc[a] = "waking"
    BY <1>11 DEF NextBucket, WakeIsOver, OwnInv, WakeInv
  <2>2. Quietly(a) /\ waking' = [waking EXCEPT ![a] = WakeEvery(waking[a].b + 1)]
    BY <1>11, <2>1 DEF NextBucket
  <2> QED BY <1>0, <1>2, <1>3, <2>2
<1>12. ASSUME NEW a \in Actors, WakeReturns(a) PROVE Silent
  <2>1. pc[a] = "waking"
    BY <1>12 DEF WakeReturns, WakeIsOver, OwnInv, WakeInv
  <2>2. Quietly(a) /\ waking' = [waking EXCEPT ![a] = NoWake]
    BY <1>0, <1>12, <2>1 DEF WakeReturns
  <2> QED BY <1>0, <1>2, <1>3, <2>2
<1>13. ASSUME NEW a \in Actors, spawn(a) PROVE Silent
  <2>1. /\ pc[On(a)] = "new" /\ UNCHANGED <<progressed, WAITING, woke, waking>>
        /\ pc' \in {[pc EXCEPT ![On(a)] = "ready"], [pc EXCEPT ![On(a)] = "run"]}
    BY <1>13 DEF spawn
  <2>2. \A c \in Actors : c # On(a) => pc'[c] = pc[c]
    BY <1>0, <2>1
  <2>3. \A c \in Actors : pc[c] = "new" => pc'[c] = "new" \/ (spawn(a) /\ On(a) = c)
    BY <1>13, <2>2
  <2> QED BY <1>01, <2>1, <2>2, <2>3 DEF Silent, Waits
<1>14. ASSUME NEW a \in Actors, thread_ended(a) PROVE Silent
  BY <1>14 DEF thread_ended
<1>15. ASSUME NEW a \in Actors, free(a) \/ vx_callback(a) PROVE Silent
  BY <1>4, <1>15 DEF free, vx_callback
<1>16. ASSUME NEW p \in Wakers, wake_progress(p) PROVE Silent
  BY <1>16 DEF wake_progress
<1>17. ASSUME NEW p \in Wakers, wake_under_the_lock(p) PROVE Silent
  <2>1. PICK b \in Buckets : b = waking[p].b
    BY <1>0 DEF WakeCalls
  <2>2. /\ waking[p].at = "take" /\ UNCHANGED pc /\ WAITING' = WAITING - Cardinality(sleepers[b])
        /\ progressed' = (progressed \/ sleepers[b] # {})
        /\ \A a \in Actors : woke'[a] = (woke[a] \/ (pc[a] \in {"sleep", "notified"} /\ Bkt(a) = b))
        /\ \A q \in Wakers : q # p => waking'[q] = waking[q]
    BY <1>0, <1>17, <2>1 DEF wake_under_the_lock
  <2>3. sleepers[b] = {} /\ ~progressed
    BY <2>2
  <2>4. \A t \in Threads : Waits(t) => Bkt(t) # b
    BY <2>3 DEF WaitInv, WaitingIn, WaitingThreads
  <2>5. \A t \in Threads : Waits(t) => Waits(t)'
    BY <2>2, <2>4 DEF Waits
  <2>6. Cardinality(sleepers[b]) = 0
    BY <2>3, FS_EmptySet
  <2>7. WAITING' >= WAITING
    BY SMT, <1>0, <2>2, <2>6
  <2>8. \A q \in Wakers : waking[q].at \in {"no", "progress"} => waking'[q].at \in {"no", "progress"}
    BY <2>2
  <2> QED BY <2>2, <2>3, <2>5, <2>7, <2>8 DEF Silent
<1>18. ASSUME NEW p \in Wakers, wake_notify_all(p) PROVE Silent
  <2>1. /\ UNCHANGED <<progressed, WAITING, woke>> /\ waking[p].at = "notify"
        /\ \A a \in Actors : pc'[a] = pc[a] \/ (pc[a] = "sleep" /\ pc'[a] = "notified")
        /\ \A q \in Wakers : q # p => waking'[q] = waking[q]
    BY <1>0, <1>18 DEF wake_notify_all
  <2> QED BY <1>01, <2>1 DEF Silent, Waits
<1>19. ASSUME NEW p \in Wakers, push(p) PROVE Silent
  <2>1. UNCHANGED <<progressed, WAITING, woke, pc>> /\ waking' = [waking EXCEPT ![p].push = Nobody]
    BY <1>19 DEF push
  <2>2. \A q \in Wakers : waking'[q].at = waking[q].at
    BY SMT, <1>0, <2>1 DEF WakeCalls
  <2> QED BY <1>4, <2>1, <2>2
<1>20. ASSUME NEW p \in Wakers, NEW f \in Fibers, sched_wake(p, f) PROVE Silent
  <2>1. /\ UNCHANGED <<progressed, WAITING, woke, pc>> /\ waking[p].at = "push"
        /\ \A q \in Wakers : q # p => waking'[q] = waking[q]
    BY <1>0, <1>20 DEF sched_wake
  <2> QED BY <1>4, <2>1
<1>21. ASSUME NEW w \in Workers, pop(w) PROVE Silent
  <2>1. Head(ready) \in Fibers /\ pc[Head(ready)] \in {"ready", "parked"}
    BY <1>21, QueueTail DEF pop, Types, SchedTypes, OwnInv, QueueInv
  <2> QED BY <1>0, <1>1, <1>21, <2>1 DEF pop
<1>22. ASSUME NEW w \in Workers, park(w) PROVE Silent
  BY <1>0, <1>1, <1>22 DEF park
<1>23. ASSUME NEW w \in Workers, pop_waits(w) \/ leave(w) PROVE Silent
  BY <1>4, <1>23 DEF pop_waits, leave
<1>24. ASSUME NEW w \in Workers, fiber_ended(w) PROVE Silent
  <2>1. cur[w] \in Fibers /\ pc[cur[w]] = "waking"
    BY <1>24 DEF fiber_ended, WakeIsOver, OwnInv, WakeInv
  <2>2. Quietly(cur[w]) /\ waking' = [waking EXCEPT ![cur[w]] = NoWake]
    BY <1>0, <1>24, <2>1 DEF fiber_ended
  <2> QED BY <1>0, <1>2, <1>3, <2>1, <2>2
<1>25. ASSUME NEW e \in Entries, timer_fire(e) PROVE Silent
  <2>1. UNCHANGED <<progressed, WAITING, woke, pc>> /\ \E w : waking' = [waking EXCEPT ![Timer] = WakeOf(w)]
    BY <1>25 DEF timer_fire
  <2> QED BY <1>0, <1>3, <1>4, <2>1
<1>26. ASSUME timer_fired PROVE Silent
  <2>1. UNCHANGED <<progressed, WAITING, woke, pc>> /\ waking' = [waking EXCEPT ![Timer] = NoWake]
    BY <1>26 DEF timer_fired
  <2> QED BY <1>0, <1>3, <1>4, <2>1
<1>27. ASSUME monitor \/ Finished \/ UNCHANGED vars \/ \E e \in Entries : expire(e) PROVE Silent
  <2>1. UNCHANGED <<progressed, WAITING, woke, pc, waking>>
    BY <1>27 DEF monitor, expire, Finished, vars
  <2> QED BY <1>4, <2>1
<1>28. ASSUME NEW a \in Actors, Notified(a) \/ TimedOut(a) \/ Spurious(a) PROVE Silent
  BY <1>7, <1>28 DEF Notified, TimedOut, Spurious
<1> QED
  BY <1>5, <1>6, <1>8, <1>9, <1>10, <1>11, <1>12, <1>13, <1>14, <1>15, <1>16, <1>17, <1>18, <1>19, <1>20, <1>21,
     <1>22, <1>23, <1>24, <1>25, <1>26, <1>27, <1>28 DEF Next, Act, DoWake, Work, RunTimer

\* The runtime has one kind of tasks: fibers on workers, beside the main thread, or
\* Vx threads (program_scheduler is one static choice).
OneKind == Threads = {Main} \/ Fibers = {}

\* Threads that rest go on to rest until PROGRESS.
LEMMA ThreadsRestStep ==
  ASSUME OneKind, Types, OwnInv, WaitInv, ThreadsRest, [Next]_vars, ~progressed'
  PROVE  ThreadsRest'
<1>1. Silent
  BY SilentSteps
<1>2. ASSUME NEW c \in Actors, spawn(c) PROVE On(c) # Main /\ pc[c] = "run"
  <2>1. Call(c) \in Calls /\ Call(c).op = "spawn" /\ pc[c] = "run"
    BY <1>2, CallType DEF spawn
  <2> QED BY SMT, <2>1 DEF Calls, On
<1>3. ASSUME NEW c \in Actors, pc[c] = "run" PROVE c \in Fibers
  BY <1>3 DEF ThreadsRest, Waits
<1>4. SUFFICES ASSUME NEW t \in Threads PROVE (pc[t] \in {"new", "ended"} \/ Waits(t))'
  BY DEF ThreadsRest
<1>5. CASE pc[t] = "new"
  BY <1>1, <1>2, <1>3, <1>5 DEF Silent, OneKind
<1>6. CASE pc[t] = "ended" \/ Waits(t)
  BY <1>1, <1>6 DEF Silent
<1> QED BY <1>5, <1>6 DEF ThreadsRest

\* When the fibers and the threads rest and no wake is past its begin, each step without
\* PROGRESS leaves the fibers at rest.
LEMMA FibersRestStep ==
  ASSUME Types, OwnInv, WaitInv, ThreadsRest, WakesBegin(Wakers), FibersRest, [Next]_vars, ~progressed'
  PROVE  FibersRest'
<1>0. /\ pc \in [Actors -> Places] /\ cur \in [Workers -> Fibers \cup NoFiber]
      /\ ready = <<>> /\ \A p \in Wakers : waking[p].at \notin {"take", "notify", "push"}
  BY DEF Types, ProgTypes, SchedTypes, FibersRest, WakesBegin
<1>1. ASSUME UNCHANGED <<ready, pc, woke>>, \A w \in Workers : cur'[w] = cur[w]
               \/ cur'[w] \notin Fibers \cup {"leaving"}
      PROVE  FibersRest'
  BY <1>1 DEF FibersRest, Waits
<1>2. ASSUME NEW a \in Actors PROVE pc[a] \in {"new", "ended", "ready", "parked"} \/ Waits(a)
  <2>1. ASSUME a \in Fibers, pc[a] \in Aboard PROVE Waits(a)
    <3>1. PICK w \in Workers : cur[w] = a
      BY <2>1 DEF OwnInv, CarryInv
    <3> QED BY <2>1, <3>1 DEF FibersRest
  <2> QED BY <1>0, <2>1 DEF ThreadsRest, Aboard, Places
<1>3. ASSUME NEW a \in Actors PROVE pc[a] \notin {"run", "wait", "commit", "arm", "park", "waking"}
  BY <1>2 DEF Waits
<1>4. ASSUME NEW a \in Actors, pc[a] \in {"sleep", "notified"}, wait_return(a) PROVE FALSE
  BY <1>2, <1>4 DEF wait_return, Waits
<1>5. ASSUME NEW a \in Actors, Notified(a) \/ TimedOut(a) \/ Spurious(a) PROVE FALSE
  BY <1>4, <1>5 DEF Notified, TimedOut, Spurious
<1>6. ASSUME NEW a \in Actors, Await(a) \/ wait_check(a) \/ wait_fiber(a) \/ wake_at(a)
               \/ wait_thread_timed(a)
                               \/ wait_thread(a) \/ signal(a) \/ cancel(a) \/ spawn(a) \/ task_ends(a)
                                    \/ free(a)
                               \/ vx_callback(a)
      PROVE  FALSE
  BY <1>3, <1>6 DEF Await, wait_check, wait_fiber, wake_at, wait_thread_timed, wait_thread, signal, cancel,
                    spawn, task_ends, free, vx_callback
<1>7. ASSUME NEW p \in Wakers PROVE ~WakeIsOver(p)
  BY <1>0 DEF WakeIsOver
<1>8. ASSUME NEW a \in Actors, NextBucket(a) \/ WakeReturns(a) \/ thread_ended(a) PROVE FALSE
  BY <1>7, <1>8 DEF NextBucket, WakeReturns, thread_ended
<1>9. ASSUME NEW p \in Wakers, DoWake(p) PROVE FALSE
  <2>1. ~wake_progress(p) /\ ~wake_under_the_lock(p) /\ ~wake_notify_all(p)
          /\ \A f \in Fibers : ~sched_wake(p, f)
    BY <1>0 DEF wake_progress, wake_under_the_lock, wake_notify_all, sched_wake
  <2>2. ~push(p)
    BY <1>0 DEF push, OwnInv, WakeInv
  <2> QED BY <1>9, <2>1, <2>2 DEF DoWake
<1>10. ASSUME NEW w \in Workers, Work(w) PROVE FibersRest'
  <2>1. ~pop(w)
    BY <1>0 DEF pop
  <2>2. ~park(w)
    BY <1>3 DEF park
  <2>3. ~leave(w)
    <3>1. "leaving" \notin Fibers
      BY Constants
    <3> QED BY <3>1 DEF leave, FibersRest
  <2>4. ~fiber_ended(w)
    BY <1>7 DEF fiber_ended
  <2>5. ASSUME pop_waits(w) PROVE FibersRest'
    <3>1. UNCHANGED <<ready, pc, woke>> /\ cur' = [cur EXCEPT ![w] = "idle"] /\ "idle" \notin Fibers
      BY <2>5, Constants DEF pop_waits
    <3> QED BY <1>0, <1>1, <3>1
  <2> QED BY <1>10, <2>1, <2>2, <2>3, <2>4, <2>5 DEF Work
<1>11. ASSUME monitor \/ RunTimer \/ Finished \/ UNCHANGED vars PROVE FibersRest'
  <2>1. UNCHANGED <<ready, pc, woke, cur>>
    BY <1>11 DEF monitor, RunTimer, expire, timer_fire, timer_fired, Finished, vars
  <2> QED BY <1>1, <2>1
<1> QED BY <1>5, <1>6, <1>8, <1>9, <1>10, <1>11 DEF Next, Act

\* all_parked: when `running` and `blocked` are the same, each busy worker carries a fiber
\* that blocks it, for each blocked fiber has its worker.
LEMMA AllParked ==
  ASSUME RunInv, ready = <<>>, running = blocked
  PROVE  FibersRest /\ WakesBegin(Fibers)
<1> DEFINE Blocking == {w \in Busy : cur[w] \in BlockedFibers}
<1>1. IsFiniteSet(Busy) /\ IsFiniteSet(BlockedFibers) /\ IsFiniteSet(Blocking)
  BY Finite, FiniteWaits, FS_Subset DEF Busy
<1>2. Cardinality(Busy) = Cardinality(BlockedFibers)
  BY DEF RunInv, CountInv, WaitInv
<1>3. [w \in Blocking |-> cur[w]] \in Surjection(Blocking, BlockedFibers)
  <2>1. \A f \in BlockedFibers : \E w \in Workers : cur[w] = f
    BY DEF BlockedFibers, Waits, RunInv, OwnInv, CarryInv, Aboard
  <2>2. \A f \in BlockedFibers : \E w \in Blocking : cur[w] = f
    BY <2>1 DEF Busy, BlockedFibers
  <2> QED BY <2>2 DEF Surjection
<1>4. Cardinality(BlockedFibers) <= Cardinality(Blocking)
  BY <1>1, <1>3, FS_Surjection
<1>5. Blocking \subseteq Busy /\ (Cardinality(Blocking) = Cardinality(Busy) => Blocking = Busy)
      /\ Cardinality(Blocking) <= Cardinality(Busy)
  BY <1>1, FS_Subset
<1>6. Cardinality(Blocking) \in Nat /\ Cardinality(Busy) \in Nat
  BY <1>1, FS_CardinalityType
<1>7. Cardinality(Blocking) = Cardinality(Busy)
  <2> HIDE DEF Blocking
  <2> QED BY SMT, <1>2, <1>4, <1>5, <1>6
<1>8. \A w \in Busy : cur[w] \in BlockedFibers
  BY <1>5, <1>7
<1>9. FibersRest
  BY <1>8 DEF FibersRest, Busy, BlockedFibers
<1>10. ASSUME NEW f \in Fibers PROVE waking[f].at = "no"
  <2>1. pc[f] # "waking"
    <3>1. SUFFICES ASSUME pc[f] = "waking" PROVE FALSE
      OBVIOUS
    <3>2. PICK w \in Workers : cur[w] = f
      BY <3>1 DEF RunInv, OwnInv, CarryInv, Aboard
    <3>3. Waits(f)
      BY <1>9, <3>2 DEF FibersRest
    <3> QED BY <3>1, <3>3 DEF Waits
  <2> QED BY <2>1 DEF RunInv, OwnInv, WakeInv
<1> QED BY <1>9, <1>10 DEF WakesBegin

\* When WAITING is as large as THREADS, each thread waits.
LEMMA AllWaiting ==
  ASSUME RunInv, WAITING >= THREADS
  PROVE  ThreadsRest
<1>1. WaitingThreads \subseteq Alive
  BY DEF WaitingThreads, Alive, Waits
<1>2. IsFiniteSet(Alive)
  BY Finite, FS_Subset DEF Alive
<1>3. WAITING = Cardinality(WaitingThreads) /\ THREADS = Cardinality(Alive)
  BY DEF RunInv, CountInv, WaitInv
<1>4. /\ Cardinality(WaitingThreads) <= Cardinality(Alive)
      /\ Cardinality(WaitingThreads) = Cardinality(Alive) => WaitingThreads = Alive
  BY <1>1, <1>2, FS_Subset
<1>5. Cardinality(WaitingThreads) \in Nat /\ Cardinality(Alive) \in Nat
  BY <1>2, FiniteWaits, FS_CardinalityType
<1>6. WaitingThreads = Alive
  BY SMT, <1>3, <1>4, <1>5
<1> QED BY <1>6 DEF ThreadsRest, WaitingThreads, Alive

\* With no deadline pending, a runtime whose threads and fibers rest, and whose wakes are
\* past no begin, is stuck: no wake is on its way, so by WakeKept no wait is satisfied.
LEMMA RestIsStuck ==
  ASSUME RunInv, ThreadsRest, FibersRest, WakesBegin(Wakers), ~timer_pending
  PROVE  Stuck
<1>0. pc \in [Actors -> Places] /\ heap = {} /\ ~firing /\ ready = <<>>
  BY DEF RunInv, Types, ProgTypes, timer_pending, FibersRest
<1>1. ASSUME NEW f \in Fibers, pc[f] \in Aboard PROVE Waits(f)
  <2>1. PICK w \in Workers : cur[w] = f
    BY <1>1 DEF RunInv, OwnInv, CarryInv
  <2> QED BY <1>1, <2>1 DEF FibersRest
<1>2. \A a \in Actors : pc[a] \in {"new", "ended", "ready", "parked"} \/ Waits(a)
  BY <1>0, <1>1 DEF ThreadsRest, Aboard, Places
<1>3. \A p \in Wakers : waking[p].at = "no"
  BY <1>0, <1>2 DEF RunInv, OwnInv, WakeInv, Waits
<1>4. \A w \in Words : ~WakeComes(w)
  BY <1>3 DEF WakeComes
<1>5. ASSUME NEW a \in Actors, Due(a) PROVE Awaits(a) /\ ~Ends(a)
  BY <1>4, <1>5, DueAwaits DEF RunInv, WakeKept
<1>6. ASSUME NEW a \in Actors, Due(a), ~Call(a).timed PROVE Awaits(a) /\ ~Call(a).timed /\ ~Satisfied(a)
  BY <1>5, <1>6 DEF Ends, Satisfied
<1>7. ASSUME NEW a \in Actors, Waits(a) PROVE Awaits(a) /\ ~Call(a).timed /\ ~Satisfied(a)
  BY <1>6, <1>7 DEF Due, Waits, RunInv, TimedInv
<1>8. ASSUME NEW a \in Actors, pc[a] \in {"ready", "parked"}
      PROVE  Awaits(a) /\ ~Call(a).timed /\ ~Satisfied(a)
  <2>1. a \in Fibers
    BY <1>8 DEF ThreadsRest, Waits
  <2>2. ~In(a, ready) /\ ~Pushed(a) /\ ~InHand(a)
    <3>1. \A p \in Wakers : waking[p].hand = {} /\ waking[p].push = Nobody
      BY <1>3 DEF RunInv, OwnInv, WakeInv
    <3>2. Nobody \notin Fibers
      BY Constants
    <3>3. ~In(a, ready)
      BY SMT, <1>0 DEF In
    <3> QED BY <2>1, <3>1, <3>2, <3>3 DEF Pushed, InHand
  <2>3. pc[a] = "parked"
    BY <1>8, <2>1, <2>2 DEF RunInv, ReadyInv
  <2>4. state[a] = "PARKED"
    BY <2>1, <2>2, <2>3 DEF RunInv, OwnInv, StateInv, FoundInv
  <2>5. OnList(a)
    BY <2>1, <2>2, <2>4 DEF RunInv, OwnInv, FoundInv
  <2>6. ~Takes(Timer, On(a))
    BY <1>3 DEF Takes
  <2>7. ~Call(a).timed
    BY <1>0, <2>1, <2>3, <2>5, <2>6 DEF RunInv, TimedInv
  <2> QED BY <1>6, <2>1, <2>5, <2>7 DEF Due
<1> QED BY <1>2, <1>7, <1>8 DEF Stuck

\* Without fibers, threads that rest are stuck.
LEMMA ThreadsAreStuck ==
  ASSUME RunInv, Fibers = {}, ThreadsRest
  PROVE  Stuck /\ \A p \in Wakers : waking[p].at = "no"
<1>1. ~firing
  BY DEF RunInv, TimedInv
<1>2. \A p \in Wakers : waking[p].at = "no"
  BY <1>1 DEF RunInv, OwnInv, WakeInv, ThreadsRest, Waits
<1>3. \A w \in Words : ~WakeComes(w)
  BY <1>2 DEF WakeComes
<1>4. ASSUME NEW a \in Actors, Waits(a) PROVE Awaits(a) /\ ~Call(a).timed /\ ~Satisfied(a)
  <2>1. Due(a)
    BY <1>4 DEF Due, Waits
  <2>2. Awaits(a) /\ ~Ends(a)
    BY <1>3, <2>1, DueAwaits DEF RunInv, WakeKept
  <2>3. ~Call(a).timed
    BY <1>4 DEF RunInv, TimedInv
  <2> QED BY <2>2, <2>3 DEF Ends, Satisfied
<1> QED BY <1>2, <1>4 DEF Stuck, ThreadsRest

\* Threads that are stuck stay stuck, whatever sleeps end too early.
LEMMA StuckStep ==
  ASSUME RunInv, Fibers = {}, Stuck, \A p \in Wakers : waking[p].at = "no", [Next]_vars
  PROVE  (Stuck /\ \A p \in Wakers : waking[p].at = "no")'
<1> DEFINE Good == (Stuck /\ \A p \in Wakers : waking[p].at = "no")'
<1>0. /\ pc \in [Actors -> Places] /\ heap = {}
      /\ \A a \in Actors : pc[a] \notin {"arm", "waking"}
      /\ \A a \in Actors : pc[a] \notin {"new", "ended"} => Awaits(a) /\ ~Call(a).timed /\ ~Satisfied(a)
  BY DEF RunInv, Types, ProgTypes, TimedInv, OwnInv, WakeInv, Stuck
<1>1. ASSUME UNCHANGED <<prog, ip, word, mark, waking>>,
             \A a \in Actors : pc[a] \in {"new", "ended"} => pc'[a] = pc[a] PROVE Good
  <2>1. \A a \in Actors : /\ Awaits(a)' <=> Awaits(a)
                          /\ Call(a)' = Call(a)
                          /\ ~Call(a).timed => (Satisfied(a)' <=> Satisfied(a))
    BY <1>1 DEF Awaits, Over, Call, Satisfied, On
  <2> QED BY <1>0, <1>1, <2>1 DEF Stuck
<1> HIDE DEF Good
<1>2. ASSUME NEW a \in Actors, Await(a) \/ wait_check(a) \/ wait_thread(a) PROVE Good
  <2>1. /\ pc[a] \notin {"new", "ended"} /\ \A c \in Actors : c # a => pc'[c] = pc[c]
        /\ UNCHANGED <<prog, word, mark, waking>>
    BY <1>0, <1>2 DEF Await, wait_check, wait_thread
  <2>2. ~Satisfied(a)
    BY <1>0, <2>1
  <2>3. UNCHANGED ip
    BY <1>2, <2>2 DEF Await, wait_check, wait_thread
  <2> QED BY <1>1, <2>1, <2>3
<1>3. ASSUME NEW a \in Actors, Notified(a) \/ TimedOut(a) \/ Spurious(a) PROVE Good
  <2>1. pc[a] \in {"sleep", "notified"} /\ wait_return(a)
    BY <1>3 DEF Notified, TimedOut, Spurious
  <2> QED BY <1>0, <1>1, <2>1 DEF wait_return
<1>4. ASSUME NEW a \in Actors
      PROVE  ~wait_fiber(a) /\ ~wake_at(a) /\ ~wait_thread_timed(a)
  BY <1>0 DEF wait_fiber, fiber_that_can_park, wake_at, wait_thread_timed
<1>5. ASSUME NEW a \in Actors
      PROVE  ~signal(a) /\ ~cancel(a) /\ ~spawn(a) /\ ~task_ends(a) /\ ~free(a) /\ ~vx_callback(a)
  BY <1>0 DEF signal, cancel, spawn, task_ends, free, vx_callback, Awaits
<1>6. \A p \in Wakers : ~WakeIsOver(p)
  BY DEF WakeIsOver
<1>7. ASSUME NEW a \in Actors PROVE ~NextBucket(a) /\ ~WakeReturns(a) /\ ~thread_ended(a)
  BY <1>6 DEF NextBucket, WakeReturns, thread_ended
<1>8. ASSUME NEW p \in Wakers PROVE ~DoWake(p)
  <2>1. ~push(p)
    BY DEF push, RunInv, OwnInv, WakeInv
  <2> QED BY <2>1 DEF DoWake, wake_progress, wake_under_the_lock, wake_notify_all
<1>9. ASSUME NEW w \in Workers, Work(w) PROVE Good
  <2>1. ~pop(w)
    <3>1. ready \in Seq(Fibers)
      BY DEF RunInv, Types, SchedTypes
    <3>2. ASSUME ready # <<>> PROVE Head(ready) \in Fibers
      BY <3>1, <3>2, QueueTail
    <3> QED BY <3>2 DEF pop
  <2>2. ~park(w) /\ ~fiber_ended(w)
    BY DEF park, fiber_ended
  <2>3. pop_waits(w) \/ leave(w)
    BY <1>9, <2>1, <2>2 DEF Work
  <2>4. UNCHANGED <<prog, ip, word, mark, waking, pc>>
    BY <2>3 DEF pop_waits, leave
  <2> QED BY <1>1, <2>4
<1>10. ASSUME monitor \/ Finished \/ UNCHANGED vars \/ \E e \in Entries : expire(e) PROVE Good
  <2>1. UNCHANGED <<prog, ip, word, mark, waking, pc>>
    BY <1>10 DEF monitor, expire, Finished, vars
  <2> QED BY <1>1, <2>1
<1>11. (\A e \in Entries : ~timer_fire(e)) /\ ~timer_fired
  BY <1>0, <1>6 DEF timer_fire, timer_fired
<1>12. Good
  BY <1>2, <1>3, <1>4, <1>5, <1>7, <1>8, <1>9, <1>10, <1>11 DEF Next, Act, RunTimer
<1> QED BY <1>12 DEF Good

-----------------------------------------------------------------------------
\* What each load of a tick found still holds, as long as PROGRESS did not go up after the
\* tick's load of it; what the last tick found holds until this tick ends.
Reading == {"waiting", "threads", "timer"}

WatchInv ==
  /\ wwaiting \in Int
  /\ wpc = "threads" /\ ~progressed => WAITING >= wwaiting
  /\ wpc = "timer" /\ ~progressed => ThreadsRest
  /\ wpc \in Reading /\ ~progressed => WakesBegin(Fibers)
  /\ wseen /\ (wpc = "sleep" \/ wsame) /\ ~progressed => ThreadsRest /\ WakesBegin(Wakers)
  /\ wseen /\ wsame /\ wpc \in Reading /\ ~progressed => FibersRest
  /\ TrueReportWithoutProgress

\* A step of the program keeps what the watcher found.
LEMMA ProgramKeeps ==
  ASSUME OneKind, RunInv, WatchInv, ~reported, [Next]_vars, UNCHANGED watchVars
  PROVE  WatchInv'
<1>0. UNCHANGED <<wpc, wseen, wsame, wwaiting, reported>>
  BY DEF watchVars
<1>1. CASE progressed'
  BY <1>0, <1>1 DEF WatchInv, TrueReportWithoutProgress
<1>2. CASE ~progressed'
  <2>0. Types /\ OwnInv /\ WaitInv /\ WAITING \in Int /\ WAITING' \in Int
    <3>1. WaitInv /\ WaitInv'
      BY RunInvStep DEF RunInv, CountInv
    <3>2. WAITING' = Cardinality(WaitingThreads') /\ WaitingThreads' \subseteq Threads
      BY <3>1 DEF WaitInv, WaitingThreads
    <3>3. IsFiniteSet(WaitingThreads')
      BY <3>2, Finite, FS_Subset
    <3>4. Cardinality(WaitingThreads') \in Nat
      BY <3>3, FS_CardinalityType
    <3>5. WAITING' \in Int
      BY SMT, <3>2, <3>4
    <3> QED BY <3>1, <3>5, WaitingType DEF RunInv
  <2>1. Silent
    BY <1>2, <2>0, SilentSteps
  <2>2. ~progressed
    BY <2>1 DEF Silent
  <2>3. ThreadsRest => ThreadsRest'
    BY <1>2, <2>0, ThreadsRestStep
  <2>4. (WakesBegin(Fibers) => WakesBegin(Fibers)') /\ (WakesBegin(Wakers) => WakesBegin(Wakers)')
    BY <2>1 DEF Silent, WakesBegin
  <2>5. ThreadsRest /\ WakesBegin(Wakers) /\ FibersRest => FibersRest'
    BY <1>2, <2>0, FibersRestStep
  <2>6. WAITING >= wwaiting => WAITING' >= wwaiting
    BY SMT, <2>0, <2>1 DEF Silent, WatchInv
  <2> QED BY <1>0, <2>2, <2>3, <2>4, <2>5, <2>6 DEF WatchInv, TrueReportWithoutProgress, Reading
<1> QED BY <1>1, <1>2

\* A step of the watcher adds what it loads.
LEMMA WatcherKeeps ==
  ASSUME OneKind, RunInv, WatchInv, ~reported, Watch
  PROVE  WatchInv'
<1>1. CASE tick
  <2>1. /\ wpc = "sleep" /\ wpc' = "all_parked" /\ wsame' = ~progressed
             /\ UNCHANGED <<wseen, wwaiting, reported>>
        /\ UNCHANGED <<pc, woke, waking>>
    BY <1>1 DEF tick
  <2>2. /\ ThreadsRest' <=> ThreadsRest
        /\ WakesBegin(Wakers)' <=> WakesBegin(Wakers)
    BY <2>1 DEF ThreadsRest, WakesBegin, Waits
  <2> QED BY <2>1, <2>2 DEF WatchInv, TrueReportWithoutProgress, Reading
<1>2. ASSUME UNCHANGED vars
      PROVE  /\ ThreadsRest' <=> ThreadsRest
             /\ WakesBegin(Wakers)' <=> WakesBegin(Wakers)
             /\ WakesBegin(Fibers)' <=> WakesBegin(Fibers)
             /\ FibersRest' <=> FibersRest
             /\ UNCHANGED <<progressed, WAITING>>
  BY <1>2 DEF ThreadsRest, WakesBegin, FibersRest, Waits, vars
<1>3. CASE all_parked
  <2>1. wpc = "all_parked" /\ UNCHANGED <<wsame, wwaiting, reported, vars>>
    BY <1>3 DEF all_parked
  <2>2. CASE ready = <<>> /\ running = blocked
    <3>1. FibersRest /\ WakesBegin(Fibers)
      BY <2>2, AllParked
    <3>2. wpc' = "waiting" /\ UNCHANGED wseen
      BY <1>3, <2>2 DEF all_parked
    <3> QED BY <1>2, <2>1, <3>1, <3>2 DEF WatchInv, TrueReportWithoutProgress
  <2>3. CASE ~(ready = <<>> /\ running = blocked)
    <3>1. wpc' = "sleep" /\ ~wseen'
      BY <1>3, <2>3 DEF all_parked, NotStuck
    <3> QED BY <1>2, <2>1, <3>1 DEF WatchInv, TrueReportWithoutProgress, Reading
  <2> QED BY <2>2, <2>3
<1>4. CASE load_waiting
  <2>1. wpc = "waiting" /\ wwaiting' = WAITING /\ wpc' = "threads"
          /\ UNCHANGED <<wseen, wsame, reported, vars>>
    BY <1>4 DEF load_waiting
  <2>2. WAITING \in Int
    BY WaitingType DEF RunInv, CountInv
  <2>3. WAITING >= WAITING
    BY SMT, <2>2
  <2> QED BY <1>2, <2>1, <2>2, <2>3 DEF WatchInv, TrueReportWithoutProgress, Reading
<1>5. CASE load_threads
  <2>1. wpc = "threads" /\ UNCHANGED <<wsame, wwaiting, reported, vars>>
    BY <1>5 DEF load_threads
  <2>2. CASE wwaiting = THREADS
    <3>1. ~progressed => ThreadsRest
      BY <2>1, <2>2, AllWaiting DEF WatchInv
    <3>2. wpc' = "timer" /\ UNCHANGED wseen
      BY <1>5, <2>2 DEF load_threads
    <3> QED BY <1>2, <2>1, <3>1, <3>2 DEF WatchInv, TrueReportWithoutProgress, Reading
  <2>3. CASE wwaiting # THREADS
    <3>1. wpc' = "sleep" /\ ~wseen'
      BY <1>5, <2>3 DEF load_threads, NotStuck
    <3> QED BY <1>2, <2>1, <3>1 DEF WatchInv, TrueReportWithoutProgress, Reading
  <2> QED BY <2>2, <2>3
<1>6. CASE look_at_timer
  <2>1. wpc = "timer" /\ wpc' = "sleep" /\ UNCHANGED <<wsame, wwaiting, vars>>
    BY <1>6 DEF look_at_timer, NotStuck
  <2>2. CASE timer_pending
    <3>1. wseen' = FALSE /\ reported' = reported
      BY <1>6, <2>2 DEF look_at_timer, NotStuck
    <3>2. ~wseen' /\ ~reported'
      BY <3>1
    <3> QED BY <1>2, <2>1, <3>2 DEF WatchInv, TrueReportWithoutProgress, Reading
  <2>3. CASE ~timer_pending
    <3>1. reported' = (wseen /\ wsame)
      BY <1>6, <2>3 DEF look_at_timer, SeenBefore
    <3>2. ~progressed => ThreadsRest /\ WakesBegin(Wakers)
      <4>1. SUFFICES ASSUME ~progressed PROVE ThreadsRest /\ WakesBegin(Wakers)
        OBVIOUS
      <4>2. ThreadsRest /\ WakesBegin(Fibers)
        BY <2>1, <4>1 DEF WatchInv, Reading
      <4>3. \A t \in Threads : waking[t].at = "no"
        BY <4>2 DEF ThreadsRest, Waits, RunInv, OwnInv, WakeInv
      <4>4. waking[Timer].at = "no"
        BY <2>3 DEF timer_pending, RunInv, OwnInv, WakeInv
      <4> QED BY <4>2, <4>3, <4>4 DEF WakesBegin
    <3>3. wseen /\ wsame /\ ~progressed => Stuck
      BY <2>1, <2>3, <3>2, RestIsStuck DEF WatchInv, Reading
    <3>4. Stuck' <=> Stuck
      BY <2>1 DEF vars, Stuck, Awaits, Over, Call, Satisfied, On
    <3>0. /\ progressed' = progressed
          /\ ThreadsRest' <=> ThreadsRest
          /\ WakesBegin(Wakers)' <=> WakesBegin(Wakers)
      BY <1>2, <2>1
    <3>5. reported' /\ ~progressed' => Stuck'
      BY <3>0, <3>1, <3>3, <3>4
    <3>6. ~progressed' => ThreadsRest' /\ WakesBegin(Wakers)'
      BY <3>0, <3>2
    <3>7. wwaiting' \in Int /\ wpc' = "sleep" /\ wpc' \notin Reading
      BY <2>1 DEF WatchInv, Reading
    <3> QED BY <3>5, <3>6, <3>7 DEF WatchInv, TrueReportWithoutProgress, Reading
  <2> QED BY <2>2, <2>3
<1> QED BY <1>1, <1>3, <1>4, <1>5, <1>6 DEF Watch

\* Every step of the program and of the watcher keeps the invariants.
LEMMA WatchInvStep ==
  ASSUME OneKind, RunInv, WatchInv, [WatchNext]_allVars
  PROVE  RunInv' /\ WatchInv'
<1>1. CASE ~reported /\ Next /\ UNCHANGED watchVars
  BY <1>1, RunInvStep, ProgramKeeps
<1>2. CASE ~reported /\ Watch
  <2>1. RunInv'
    <3>1. CASE tick
      BY <3>1, TickKeeps
    <3>2. CASE ~tick
      <4>1. UNCHANGED vars
        BY <1>2, <3>2 DEF Watch, all_parked, load_waiting, load_threads, look_at_timer
      <4> QED BY <4>1, RunInvStep
    <3> QED BY <3>1, <3>2
  <2> QED BY <1>2, <2>1, WatcherKeeps
<1>3. CASE UNCHANGED allVars
  <2>1. UNCHANGED <<vars, wpc, wseen, wsame, wwaiting, reported>>
    BY <1>3 DEF allVars, watchVars
  <2>2. RunInv'
    BY <2>1, RunInvStep
  <2>3. /\ ThreadsRest' <=> ThreadsRest
        /\ WakesBegin(Wakers)' <=> WakesBegin(Wakers)
        /\ WakesBegin(Fibers)' <=> WakesBegin(Fibers)
        /\ FibersRest' <=> FibersRest
        /\ UNCHANGED <<progressed, WAITING>>
    BY <2>1 DEF ThreadsRest, WakesBegin, FibersRest, Waits, vars
  <2>4. Stuck' <=> Stuck
    BY <2>1 DEF vars, Stuck, Awaits, Over, Call, Satisfied, On
  <2> QED BY <2>1, <2>2, <2>3, <2>4 DEF WatchInv, TrueReportWithoutProgress
<1> QED BY <1>1, <1>2, <1>3 DEF WatchNext, Stopped

\* The watcher starts with nothing found.
LEMMA WatchInvInit == WatchInit => RunInv /\ WatchInv
<1> SUFFICES ASSUME WatchInit PROVE RunInv /\ WatchInv
  OBVIOUS
<1>1. Init /\ wpc = "sleep" /\ wseen = FALSE /\ wwaiting = 0 /\ reported = FALSE
  BY DEF WatchInit
<1>2. wwaiting \in Int
  BY SMT, <1>1
<1>3. ~wseen /\ ~reported /\ wpc \notin Reading /\ wpc # "threads" /\ wpc # "timer"
  BY <1>1 DEF Reading
<1> QED BY <1>1, <1>2, <1>3, RunInit DEF WatchInv, TrueReportWithoutProgress

\* A report is about a program that can not go on, when no PROGRESS came between the
\* second tick's load of it and the report: for tasks that are fibers, and for threads.
THEOREM ReportsWithoutProgressAreTrue ==
  ASSUME Threads = {Main} \/ Fibers = {}
  PROVE  WatchSpec => []TrueReportWithoutProgress
<1>1. RunInv /\ WatchInv /\ [WatchNext]_allVars => (RunInv /\ WatchInv)'
  BY WatchInvStep DEF OneKind
<1>2. WatchInv => TrueReportWithoutProgress
  BY DEF WatchInv
<1> QED BY <1>1, <1>2, WatchInvInit, PTL DEF WatchSpec

\* In a program of threads, what the first tick found makes the program stuck for good at
\* the second, so that no PROGRESS between the loads can spoil the report.
HaltInv ==
  /\ wseen /\ wsame /\ wpc # "sleep" => Stuck /\ \A p \in Wakers : waking[p].at = "no"
  /\ NoFalseReport

\* Every step keeps a program of threads that is stuck for good.
LEMMA HaltInvStep ==
  ASSUME Fibers = {}, RunInv, WatchInv, HaltInv, [WatchNext]_allVars
  PROVE  HaltInv'
<1> DEFINE Halted == Stuck /\ \A p \in Wakers : waking[p].at = "no"
<1>1. CASE ~reported /\ Next /\ UNCHANGED watchVars
  <2>1. UNCHANGED <<wpc, wseen, wsame, reported>>
    BY <1>1 DEF watchVars
  <2>2. Halted => Halted'
    BY <1>1, StuckStep
  <2>3. ~reported'
    BY <1>1, <2>1
  <2> QED BY <2>1, <2>2, <2>3 DEF HaltInv, NoFalseReport
<1>2. ASSUME UNCHANGED <<pc, prog, ip, word, mark, expired, waking>>
      PROVE  (Halted' <=> Halted) /\ (Stuck' <=> Stuck)
  BY <1>2 DEF Stuck, Awaits, Over, Call, Satisfied, On
<1>3. CASE ~reported /\ tick
  <2>1. /\ wpc = "sleep" /\ wsame' = ~progressed /\ UNCHANGED <<wseen, reported>>
        /\ UNCHANGED <<pc, prog, ip, word, mark, expired, waking>>
    BY <1>3 DEF tick
  <2>2. wseen /\ ~progressed => Halted
    BY <2>1, ThreadsAreStuck DEF WatchInv
  <2>3. wseen' /\ wsame' => Halted'
    BY <1>2, <2>1, <2>2
  <2>4. ~reported'
    BY <1>3, <2>1
  <2> QED BY <2>3, <2>4 DEF HaltInv, NoFalseReport
<1>4. CASE ~reported /\ (all_parked \/ load_waiting \/ load_threads)
  <2>1. /\ UNCHANGED <<wsame, reported, vars>> /\ wpc # "sleep" /\ (wseen' = wseen \/ wseen' = FALSE)
    BY <1>4 DEF all_parked, load_waiting, load_threads, NotStuck
  <2>2. Halted' <=> Halted
    BY <1>2, <2>1 DEF vars
  <2>3. ~reported'
    BY <1>4, <2>1
  <2>4. wseen' => wseen
    BY <2>1
  <2> QED BY <2>1, <2>2, <2>3, <2>4 DEF HaltInv, NoFalseReport
<1>5. CASE ~reported /\ look_at_timer
  <2>1. wpc = "timer" /\ wpc' = "sleep" /\ UNCHANGED vars
          /\ (reported' = reported \/ reported' = (wseen /\ wsame))
    BY <1>5 DEF look_at_timer, NotStuck, SeenBefore
  <2>2. reported' => wseen /\ wsame
    BY <1>5, <2>1
  <2>3. reported' => Stuck
    BY <2>1, <2>2 DEF HaltInv
  <2>4. Stuck' <=> Stuck
    BY <1>2, <2>1 DEF vars
  <2> QED BY <2>1, <2>3, <2>4 DEF HaltInv, NoFalseReport
<1>6. CASE UNCHANGED allVars
  <2>1. UNCHANGED <<wpc, wseen, wsame, reported, vars>>
    BY <1>6 DEF allVars, watchVars
  <2>2. (Halted' <=> Halted) /\ (Stuck' <=> Stuck)
    BY <1>2, <2>1 DEF vars
  <2> QED BY <2>1, <2>2 DEF HaltInv, NoFalseReport
<1> QED BY <1>1, <1>3, <1>4, <1>5, <1>6 DEF WatchNext, Watch, Stopped

\* A report is about a program that can not go on, when its tasks are threads (F9 of
\* progress_model_across_nodes.md).
THEOREM ThreadReportsAreTrue ==
  ASSUME Fibers = {}
  PROVE  WatchSpec => []NoFalseReport
<1> DEFINE Inv == RunInv /\ WatchInv /\ HaltInv
<1>1. WatchInit => Inv
  <2> SUFFICES ASSUME WatchInit PROVE HaltInv
    BY WatchInvInit
  <2>1. wseen = FALSE /\ reported = FALSE
    BY DEF WatchInit
  <2> QED BY <2>1 DEF HaltInv, NoFalseReport
<1>2. Inv /\ [WatchNext]_allVars => Inv'
  BY WatchInvStep, HaltInvStep DEF OneKind
<1>3. Inv => NoFalseReport
  BY DEF HaltInv
<1> QED BY <1>1, <1>2, <1>3, PTL DEF WatchSpec

=============================================================================
