---------------------------- MODULE IoWaitProofs ----------------------------
(***************************************************************************)
(* For any number of tasks and sockets, and any programs of calls: the     *)
(* store to a caller's word meets the call it is for, each sleeper is      *)
(* served, and a wait for a socket or a file is not reported as a          *)
(* deadlock.                                                               *)
(***************************************************************************)
EXTENDS IoWait, FiniteSetTheorems, TLAPS

\* The first-order prover is the one to try, unless a leaf names another.
USE Zenon

\* The places of a task whose entry may be on the poller's list, and of one whose call
\* may be with the helpers.
Entered == {"byte", "load", "remove", "asleep"}
Handed  == {"notify", "done", "parked"}

Places == {"idle"} \cup WaitFrame \cup CallFrame
Helped == runs \cup Range(queue)
Running == {t \in Tasks : pc[t] = "run"}
Notifying == {t \in Tasks : pc[t] = "notify"}

Types ==
  /\ pc \in [Tasks -> Places] /\ word \in [Tasks -> {0, 1}]
  /\ todo \in [Tasks -> Seq({"socket", "file"})] /\ cancelled \subseteq Tasks
  /\ waiting \subseteq Tasks /\ pipe \in BOOLEAN
  /\ ppc \in {"list", "poll", "drain", "retain", "wake"}
  /\ words \subseteq Tasks /\ left \subseteq Tasks /\ WAKING \in Nat
  /\ queue \in Seq(Tasks) /\ idle \in Nat /\ BUSY \in Nat
  /\ helpers \in [looks : Nat, waits : Nat, notified : Nat, leaves : Nat]
  /\ runs \subseteq Tasks /\ stored \subseteq Tasks \X Nat /\ IsFiniteSet(stored)
  /\ progressed \in BOOLEAN
  /\ wpc \in {"sleep", "tasks", "BUSY", "WAKING", "waiting"}
  /\ wseen \in BOOLEAN /\ wsame \in BOOLEAN /\ reported \in BOOLEAN

\* A task has a call to make for as long as it is in one, and the word of a call is 0
\* until the call is with the poller or the helpers.
FrameInv ==
  \A t \in Tasks : /\ pc[t] # "idle" => todo[t] # <<>>
                   /\ pc[t] \in {"push", "run"} => word[t] = 0

\* The poller's list has the waits that have not ended.
ListInv ==
  \A t \in Tasks : /\ t \in waiting => pc[t] \in Entered
                   /\ pc[t] \in Entered => (t \in waiting <=> word[t] = 0)

\* The helpers have each call once, until its word is stored.
HelpInv ==
  /\ \A i, j \in DOMAIN queue : queue[i] = queue[j] => i = j
  /\ \A i \in DOMAIN queue : queue[i] \notin runs
  /\ \A t \in Tasks : /\ t \in Helped => pc[t] \in Handed
                      /\ pc[t] \in Handed => (t \in Helped <=> word[t] = 0)

\* A call that a helper has stored is the task's own or an earlier one.
StoredInv ==
  /\ \A c \in stored : /\ c[2] >= Len(todo[c[1]])
                       /\ c[2] = Len(todo[c[1]]) => pc[c[1]] \in Handed /\ word[c[1]] # 0
  /\ \A t \in Tasks : pc[t] = "parked" /\ word[t] # 0 => \E c \in stored : c[1] = t

\* WAKING counts the wakes of the poller, and the poll has every entry of the list that
\* no byte in the pipe tells of.
PollInv ==
  /\ ppc # "wake" => left = {} /\ WAKING = 0
  /\ ppc = "wake" => left \subseteq words /\ WAKING = Cardinality(words)
  /\ \A t \in Tasks : pc[t] = "asleep" /\ word[t] # 0 => t \in left
  /\ ppc = "poll" => \A t \in waiting : pipe \/ t \in words \/ pc[t] = "byte"

\* What `idle` and BUSY count.
CountInv ==
  /\ idle = helpers.waits + helpers.notified
  /\ BUSY = Cardinality(Running) + Len(queue) + Cardinality(runs) + Cardinality(stored) + helpers.leaves

Coming == helpers.looks + helpers.notified + helpers.leaves + Cardinality(stored)

ServeInv ==
  \/ Len(queue) <= Coming + helpers.waits /\ helpers.waits <= Cardinality(Notifying)
  \/ Len(queue) <= Coming + Cardinality(Notifying) /\ Cardinality(Notifying) <= helpers.waits

NoneParked == \A t \in Tasks : pc[t] # "parked"
AllLeft == \A t \in Tasks : pc[t] = "asleep" => t \in left

\* What the watcher knows at each place, unless PROGRESS went up since its tick: every
\* task sleeps; none for a file; and if it saw an empty list before, each sleeper is one
\* whose wake WAKING counts, so that it cannot get to the list again.
WatchInv ==
  ~progressed =>
    /\ wpc \in {"BUSY", "WAKING", "waiting"} => AllSleep
    /\ wpc \in {"WAKING", "waiting"} => NoneParked
    /\ wseen /\ (wpc = "sleep" \/ wsame) => AllSleep /\ NoneParked /\ AllLeft /\ wpc # "waiting"
    /\ ~reported

IInv ==
  /\ Types /\ FrameInv /\ ListInv /\ HelpInv /\ StoredInv
  /\ PollInv /\ CountInv /\ ServeInv /\ WatchInv

-----------------------------------------------------------------------------
\* What the steps do to the places of the tasks

\* The end of a sleep moves at most the sleeper.
LEMMA EndSleepIs ==
  ASSUME Types, NEW t \in Tasks, EndSleep(t)
  PROVE  /\ pc' \in [Tasks -> Places] /\ progressed' \in BOOLEAN
         /\ \A u \in Tasks : \/ pc'[u] = pc[u]
                             \/ u = t /\ pc[u] = "asleep" /\ pc'[u] = "load"
                             \/ u = t /\ pc[u] = "parked" /\ pc'[u] = "done"
         /\ ~Sleeps(t)'
         /\ progressed' = (progressed \/ Sleeps(t))
<1> USE DEF Places, WaitFrame, CallFrame
<1>1. /\ pc \in [Tasks -> Places] /\ progressed \in BOOLEAN
  BY DEF Types
<1>2. CASE pc[t] = "asleep"
  BY <1>1, <1>2 DEF EndSleep, Goto, Sleeps
<1>3. CASE pc[t] = "parked"
  BY <1>1, <1>3 DEF EndSleep, Goto, Sleeps
<1>4. CASE pc[t] \notin {"asleep", "parked"}
  BY <1>1, <1>4 DEF EndSleep, Goto, Sleeps
<1> QED BY <1>2, <1>3, <1>4

\* A call that ends leaves the task with one call less.
LEMMA CallEndsIs ==
  ASSUME Types, FrameInv, NEW t \in Tasks, todo[t] # <<>>, CallEnds(t)
  PROVE  /\ pc' = [pc EXCEPT ![t] = "idle"]
         /\ todo' \in [Tasks -> Seq({"socket", "file"})]
         /\ \A u \in Tasks \ {t} : todo'[u] = todo[u]
         /\ Len(todo'[t]) = Len(todo[t]) - 1 /\ Len(todo[t]) \in Nat
<1>1. todo \in [Tasks -> Seq({"socket", "file"})]
  BY DEF Types
<1>2. PICK s \in Seq({"socket", "file"}) : s = todo[t]
  BY <1>1
<1>3. s # <<>> /\ Tail(s) \in Seq({"socket", "file"}) /\ Len(Tail(s)) = Len(s) - 1 /\ Len(s) \in Nat
  BY SMT, <1>2
<1>4. todo' = [todo EXCEPT ![t] = Tail(s)]
  BY <1>2 DEF CallEnds
<1> QED BY <1>1, <1>2, <1>3, <1>4 DEF CallEnds, Goto

\* The steps of a wait for a socket keep the types.
LEMMA TaskTypes ==
  ASSUME IoAssumption, Types, FrameInv, NEW t \in Tasks,
         \/ when_ready(t) \/ push(t) \/ write_byte(t) \/ load_ready(t) \/ remove(t) \/ load_done(t)
         \/ wake_caller(t) \/ cancel(t) \/ sleep_ends_early(t)
  PROVE  /\ pc' \in [Tasks -> Places] /\ word' \in [Tasks -> {0, 1}]
         /\ todo' \in [Tasks -> Seq({"socket", "file"})] /\ cancelled' \subseteq Tasks
         /\ waiting' \subseteq Tasks /\ pipe' \in BOOLEAN /\ left' \subseteq Tasks /\ progressed' \in BOOLEAN
         /\ UNCHANGED <<ppc, words, WAKING, helping>>
<1> USE DEF Places, WaitFrame, CallFrame
<1>0. /\ pc \in [Tasks -> Places] /\ word \in [Tasks -> {0, 1}] /\ cancelled \subseteq Tasks
      /\ waiting \subseteq Tasks /\ pipe \in BOOLEAN /\ left \subseteq Tasks /\ progressed \in BOOLEAN
      /\ todo \in [Tasks -> Seq({"socket", "file"})] /\ Cancels \subseteq Tasks
  BY DEF Types, IoAssumption
<1>1. CASE when_ready(t)
  <2>1. todo[t] # <<>>
    BY <1>1 DEF when_ready, Calls
  <2>2. CASE CallEnds(t) /\ UNCHANGED word
    BY <1>0, <1>1, <2>1, <2>2, CallEndsIs DEF when_ready, poller, helping
  <2>3. CASE word' = [word EXCEPT ![t] = 0] /\ Goto(t, "push") /\ UNCHANGED <<ready, todo>>
    BY <1>0, <1>1, <2>3 DEF when_ready, poller, helping, Goto
  <2> QED BY <1>1, <2>2, <2>3 DEF when_ready
<1>2. CASE push(t)
  BY <1>0, <1>2 DEF push, Goto
<1>3. CASE write_byte(t)
  BY <1>0, <1>3 DEF write_byte, Goto
<1>4. CASE load_ready(t)
  BY <1>0, <1>4 DEF load_ready, Goto, poller
<1>5. CASE remove(t)
  <2>1. todo[t] # <<>>
    BY <1>5 DEF remove, FrameInv
  <2>2. CASE CallEnds(t)
    BY <1>0, <1>5, <2>1, <2>2, CallEndsIs DEF remove
  <2>3. CASE Goto(t, "load") /\ UNCHANGED todo
    BY <1>0, <1>5, <2>3 DEF remove, Goto
  <2> QED BY <1>5, <2>2, <2>3 DEF remove
<1>6. CASE load_done(t)
  <2>1. todo[t] # <<>>
    BY <1>6 DEF load_done, FrameInv
  <2>2. CASE CallEnds(t)
    BY <1>0, <1>6, <2>1, <2>2, CallEndsIs DEF load_done, poller
  <2>3. CASE Goto(t, "parked") /\ UNCHANGED todo
    BY <1>0, <1>6, <2>3 DEF load_done, Goto, poller
  <2> QED BY <1>6, <2>2, <2>3 DEF load_done
<1>7. CASE wake_caller(t)
  BY <1>0, <1>7, EndSleepIs DEF wake_caller
<1>8. CASE cancel(t)
  BY <1>0, <1>8, EndSleepIs DEF cancel, poller
<1>9. CASE sleep_ends_early(t)
  BY <1>0, <1>9, EndSleepIs DEF sleep_ends_early, poller
<1> QED BY <1>1, <1>2, <1>3, <1>4, <1>5, <1>6, <1>7, <1>8, <1>9

\* The queue with one more call, and with the first one taken.
LEMMA QueueIs ==
  ASSUME NEW q \in Seq(Tasks), NEW t \in Tasks
  PROVE  /\ Append(q, t) \in Seq(Tasks) /\ Len(Append(q, t)) = Len(q) + 1 /\ Len(q) \in Nat
         /\ DOMAIN q = 1 .. Len(q) /\ DOMAIN Append(q, t) = 1 .. (Len(q) + 1)
         /\ \A i \in 1 .. Len(q) : q[i] \in Tasks /\ Append(q, t)[i] = q[i]
         /\ Append(q, t)[Len(q) + 1] = t
         /\ q # <<>> =>
              /\ Head(q) = q[1] /\ Tail(q) \in Seq(Tasks) /\ Len(Tail(q)) = Len(q) - 1 /\ Len(q) >= 1
              /\ DOMAIN Tail(q) = 1 .. (Len(q) - 1)
              /\ \A i \in 1 .. (Len(q) - 1) : Tail(q)[i] = q[i + 1]
  BY SMT

\* The fields of the helpers after a step.
LEMMA HelpersAre ==
  ASSUME Types
  PROVE  /\ helpers.looks \in Nat /\ helpers.waits \in Nat /\ helpers.notified \in Nat
           /\ helpers.leaves \in Nat
         /\ Notified = [looks |-> helpers.looks, leaves |-> helpers.leaves,
                        waits |-> IF helpers.waits > 0 THEN helpers.waits - 1 ELSE helpers.waits,
                        notified |-> IF helpers.waits > 0 THEN helpers.notified + 1 ELSE helpers.notified]
         /\ [helpers EXCEPT !.looks = @ + 1] =
              [looks |-> helpers.looks + 1, waits |-> helpers.waits,
               notified |-> helpers.notified, leaves |-> helpers.leaves]
         /\ [helpers EXCEPT !.leaves = @ + 1] =
              [looks |-> helpers.looks, waits |-> helpers.waits,
               notified |-> helpers.notified, leaves |-> helpers.leaves + 1]
<1>1. helpers \in [looks : Nat, waits : Nat, notified : Nat, leaves : Nat]
  BY DEF Types
<1>2. /\ helpers.looks \in Nat /\ helpers.waits \in Nat /\ helpers.notified \in Nat /\ helpers.leaves \in Nat
  BY <1>1
<1>3. Notified = [looks |-> helpers.looks, leaves |-> helpers.leaves,
                  waits |-> IF helpers.waits > 0 THEN helpers.waits - 1 ELSE helpers.waits,
                  notified |-> IF helpers.waits > 0 THEN helpers.notified + 1 ELSE helpers.notified]
  BY <1>1 DEF Notified
<1>4. [helpers EXCEPT !.looks = @ + 1] =
        [looks |-> helpers.looks + 1, waits |-> helpers.waits,
         notified |-> helpers.notified, leaves |-> helpers.leaves]
  BY SMT, <1>1
<1>5. [helpers EXCEPT !.leaves = @ + 1] =
        [looks |-> helpers.looks, waits |-> helpers.waits,
         notified |-> helpers.notified, leaves |-> helpers.leaves + 1]
  BY SMT, <1>1
<1> QED BY <1>2, <1>3, <1>4, <1>5

\* A helper that leaves a call looks at the queue again.
LEMMA LeaveIs ==
  ASSUME Types, leave_call
  PROVE  /\ helpers' \in [looks : Nat, waits : Nat, notified : Nat, leaves : Nat]
         /\ helpers'.looks = helpers.looks + 1 /\ helpers'.leaves = helpers.leaves - 1
         /\ helpers'.waits = helpers.waits /\ helpers'.notified = helpers.notified
<1> DEFINE Counts == [looks : Nat, waits : Nat, notified : Nat, leaves : Nat]
<1>1. helpers \in Counts /\ helpers.leaves > 0
  BY DEF Types, leave_call
<1>2. \A h \in Counts : \A n \in Nat : [h EXCEPT !.leaves = n] \in Counts /\ [h EXCEPT !.looks = n] \in Counts
  OBVIOUS
<1>3. helpers.leaves - 1 \in Nat /\ helpers.looks + 1 \in Nat
  BY SMT, <1>1
<1>4. PICK g \in Counts : g = [helpers EXCEPT !.leaves = helpers.leaves - 1]
  BY <1>1, <1>2, <1>3
<1>5. g.looks = helpers.looks
  BY <1>1, <1>4
<1>6. helpers' = [g EXCEPT !.looks = helpers.looks + 1]
  BY <1>1, <1>4, <1>5 DEF leave_call
<1>7. helpers' \in Counts
  BY <1>2, <1>3, <1>6
<1>8. /\ helpers'.looks = helpers.looks + 1 /\ helpers'.leaves = helpers.leaves - 1
      /\ helpers'.waits = helpers.waits /\ helpers'.notified = helpers.notified
  BY <1>1 DEF leave_call
<1> QED BY <1>7, <1>8

\* The order of the fields of the count of helpers does not matter.
LEMMA HelperRecord ==
  ASSUME NEW a \in Nat, NEW b \in Nat, NEW c \in Nat, NEW d \in Nat
  PROVE  /\ [looks |-> a, waits |-> b, notified |-> c, leaves |-> d] \in
              [looks : Nat, waits : Nat, notified : Nat, leaves : Nat]
         /\ [looks |-> a, notified |-> c, waits |-> b, leaves |-> d] =
              [looks |-> a, waits |-> b, notified |-> c, leaves |-> d]
  OBVIOUS

\* What a helper leaves behind that takes a call, or waits for one.
ServeTakes(from) ==
  /\ queue # <<>> /\ runs' = runs \cup {Head(queue)} /\ queue' = Tail(queue)
  /\ helpers' = [looks |-> IF from = "looks" THEN helpers.looks - 1 ELSE helpers.looks,
                 notified |-> IF from = "notified" THEN helpers.notified - 1 ELSE helpers.notified,
                 waits |-> helpers.waits, leaves |-> helpers.leaves]
  /\ idle' = IF from = "notified" THEN idle - 1 ELSE idle

ServeWaits(from) ==
  /\ queue = <<>> /\ runs' = runs /\ queue' = queue
  /\ helpers' = [looks |-> IF from = "looks" THEN helpers.looks - 1 ELSE helpers.looks,
                 notified |-> IF from = "notified" THEN helpers.notified - 1 ELSE helpers.notified,
                 waits |-> helpers.waits + 1, leaves |-> helpers.leaves]
  /\ idle' = (IF from = "notified" THEN idle - 1 ELSE idle) + 1

\* A helper that looks at the queue takes its first call, or waits.
LEMMA ServeIs ==
  ASSUME Types, NEW from \in {"looks", "notified"}, serve(from)
  PROVE  /\ from = "looks" => helpers.looks > 0
         /\ from = "notified" => helpers.notified > 0
         /\ ServeTakes(from) \/ ServeWaits(from)
         /\ UNCHANGED <<task, poller, BUSY, stored, progressed>>
<1>1. helpers \in [looks : Nat, waits : Nat, notified : Nat, leaves : Nat]
  BY DEF Types
<1>2. CASE from = "looks"
  BY <1>1, <1>2 DEF serve, ServeTakes, ServeWaits
<1>3. CASE from = "notified"
  BY <1>1, <1>3 DEF serve, ServeTakes, ServeWaits
<1> QED BY <1>2, <1>3

\* All that is counted is finite.
LEMMA Finite ==
  ASSUME IoAssumption, Types
  PROVE  /\ IsFiniteSet(Running) /\ IsFiniteSet(Notifying) /\ IsFiniteSet(runs) /\ IsFiniteSet(words)
         /\ Cardinality(Running) \in Nat /\ Cardinality(Notifying) \in Nat /\ Cardinality(runs) \in Nat
         /\ Cardinality(stored) \in Nat /\ Cardinality(words) \in Nat /\ Len(queue) \in Nat
<1>1. IsFiniteSet(Tasks) /\ IsFiniteSet(stored)
  BY DEF IoAssumption, Types
<1>2. Running \subseteq Tasks /\ Notifying \subseteq Tasks /\ runs \subseteq Tasks /\ words \subseteq Tasks
  BY DEF Types, Running, Notifying
<1>3. IsFiniteSet(Running) /\ IsFiniteSet(Notifying) /\ IsFiniteSet(runs) /\ IsFiniteSet(words)
  BY <1>1, <1>2, FS_Subset
<1>4. Len(queue) \in Nat
  BY SMT DEF Types
<1> QED BY <1>1, <1>3, <1>4, FS_CardinalityType

\* The steps of file calls and of the helpers keep the types.
LEMMA HelpTypes ==
  ASSUME IoAssumption, Types, CountInv,
         \/ \E t \in Tasks : off_the_worker(t) \/ run(t) \/ notify_one(t) \/ call_ends(t) \/ wake_fiber(t)
         \/ serve("looks") \/ serve("notified") \/ wait_ends \/ leave_call
  PROVE  /\ pc' \in [Tasks -> Places] /\ word' \in [Tasks -> {0, 1}]
         /\ queue' \in Seq(Tasks) /\ idle' \in Nat /\ BUSY' \in Nat
         /\ helpers' \in [looks : Nat, waits : Nat, notified : Nat, leaves : Nat]
         /\ runs' \subseteq Tasks /\ stored' \subseteq Tasks \X Nat /\ IsFiniteSet(stored')
         /\ progressed' \in BOOLEAN
         /\ UNCHANGED <<todo, cancelled, poller>>
<1> DEFINE Kept ==
             /\ pc' \in [Tasks -> Places] /\ word' \in [Tasks -> {0, 1}]
             /\ queue' \in Seq(Tasks) /\ idle' \in Nat /\ BUSY' \in Nat
             /\ helpers' \in [looks : Nat, waits : Nat, notified : Nat, leaves : Nat]
             /\ runs' \subseteq Tasks /\ stored' \subseteq Tasks \X Nat /\ IsFiniteSet(stored')
             /\ progressed' \in BOOLEAN
             /\ UNCHANGED <<todo, cancelled, poller>>
<1> USE DEF Places, WaitFrame, CallFrame
<1>0. /\ pc \in [Tasks -> Places] /\ word \in [Tasks -> {0, 1}] /\ progressed \in BOOLEAN
      /\ todo \in [Tasks -> Seq({"socket", "file"})]
      /\ queue \in Seq(Tasks) /\ idle \in Nat /\ BUSY \in Nat
      /\ helpers \in [looks : Nat, waits : Nat, notified : Nat, leaves : Nat]
      /\ runs \subseteq Tasks /\ stored \subseteq Tasks \X Nat /\ IsFiniteSet(stored)
  BY DEF Types
<1>1. ASSUME NEW t \in Tasks, off_the_worker(t)
      PROVE  Kept
  BY SMT, <1>0, <1>1 DEF off_the_worker, Goto, poller
<1>2. ASSUME NEW t \in Tasks, run(t)
      PROVE  Kept
  <2>1. pc' \in [Tasks -> Places]
    BY <1>0, <1>2 DEF run, Goto
  <2>2. queue' \in Seq(Tasks)
    BY <1>0, <1>2, QueueIs DEF run
  <2>3. helpers' \in [looks : Nat, waits : Nat, notified : Nat, leaves : Nat]
    BY SMT, <1>0, <1>2, HelpersAre, HelperRecord DEF run
  <2> QED BY <1>0, <1>2, <2>1, <2>2, <2>3 DEF run, poller
<1>3. ASSUME NEW t \in Tasks, notify_one(t)
      PROVE  Kept
  <2>1. helpers' \in [looks : Nat, waits : Nat, notified : Nat, leaves : Nat]
    BY SMT, <1>3, HelpersAre DEF notify_one
  <2> QED BY <1>0, <1>3, <2>1 DEF notify_one, Goto, poller
<1>4. ASSUME NEW t \in Tasks, call_ends(t)
      PROVE  Kept
  <2>1. Len(todo[t]) \in Nat
    BY SMT, <1>0
  <2>2. stored' = stored \cup {<<t, Len(todo[t])>>}
    BY <1>4 DEF call_ends
  <2>3. IsFiniteSet(stored')
    BY <1>0, <2>2, FS_AddElement
  <2>4. stored' \subseteq Tasks \X Nat
    BY SMT, <1>0, <2>1, <2>2
  <2> QED BY <1>0, <1>4, <2>3, <2>4 DEF call_ends, poller
<1>5. ASSUME NEW t \in Tasks, wake_fiber(t)
      PROVE  Kept
  <2>1. PICK c \in stored : stored' = stored \ {c}
    BY <1>5 DEF wake_fiber
  <2>2. IsFiniteSet(stored')
    BY <1>0, <2>1, FS_RemoveElement
  <2>3. pc' \in [Tasks -> Places] /\ progressed' \in BOOLEAN
    BY <1>5, EndSleepIs DEF wake_fiber
  <2>4. helpers' \in [looks : Nat, waits : Nat, notified : Nat, leaves : Nat]
    BY SMT, <1>5, HelpersAre, HelperRecord DEF wake_fiber
  <2> QED BY <1>0, <1>5, <2>1, <2>2, <2>3, <2>4 DEF wake_fiber, poller
<1>6. ASSUME NEW from \in {"looks", "notified"}, serve(from)
      PROVE  /\ queue' \in Seq(Tasks) /\ idle' \in Nat /\ runs' \subseteq Tasks
             /\ helpers' \in [looks : Nat, waits : Nat, notified : Nat, leaves : Nat]
             /\ UNCHANGED <<task, poller, BUSY, stored, progressed>>
  <2>1. /\ from = "looks" => helpers.looks > 0
        /\ from = "notified" => helpers.notified > 0
        /\ ServeTakes(from) \/ ServeWaits(from)
        /\ UNCHANGED <<task, poller, BUSY, stored, progressed>>
    BY <1>6, ServeIs
  <2>2. idle = helpers.waits + helpers.notified
    BY DEF CountInv
  <2>3. queue # <<>> => Head(queue) \in Tasks /\ Tail(queue) \in Seq(Tasks)
    BY SMT, <1>0
  <2>4. queue' \in Seq(Tasks) /\ runs' \subseteq Tasks
    BY <1>0, <2>1, <2>3 DEF ServeTakes, ServeWaits
  <2>5. idle' \in Nat
    BY SMT, <2>1, <2>2, HelpersAre DEF ServeTakes, ServeWaits
  <2>6. helpers' \in [looks : Nat, waits : Nat, notified : Nat, leaves : Nat]
    <3>1. CASE from = "looks"
      BY SMT, <2>1, <3>1, HelpersAre, HelperRecord DEF ServeTakes, ServeWaits
    <3>2. CASE from = "notified"
      BY SMT, <2>1, <3>2, HelpersAre, HelperRecord DEF ServeTakes, ServeWaits
    <3> QED BY <3>1, <3>2
  <2> QED BY <2>1, <2>4, <2>5, <2>6
<1>7. CASE wait_ends
  <2>1. helpers' \in [looks : Nat, waits : Nat, notified : Nat, leaves : Nat]
    BY SMT, <1>7, HelpersAre DEF wait_ends
  <2> QED BY <1>0, <1>7, <2>1 DEF wait_ends, task, poller
<1>8. CASE leave_call
  <2>1. BUSY' \in Nat
    <3>1. helpers.leaves > 0 /\ BUSY' = BUSY - 1 /\ helpers.leaves \in Nat
      BY <1>8, HelpersAre DEF leave_call
    <3>2. BUSY >= helpers.leaves
      BY SMT, <3>1, Finite DEF CountInv
    <3> QED BY SMT, <1>0, <3>1, <3>2
  <2>2. helpers' \in [looks : Nat, waits : Nat, notified : Nat, leaves : Nat]
    BY <1>8, LeaveIs
  <2> QED BY <1>0, <1>8, <2>1, <2>2 DEF leave_call, task, poller
<1>9. CASE serve("looks") \/ serve("notified")
  BY <1>0, <1>6, <1>9 DEF task
<1> QED BY <1>1, <1>2, <1>3, <1>4, <1>5, <1>7, <1>8, <1>9

\* The steps of the poller keep the types.
LEMMA PollTypes ==
  ASSUME IoAssumption, Types, PollInv,
         read_list \/ poll \/ poll_interrupted \/ drain \/ retain \/ wakes_ended
  PROVE  /\ word' \in [Tasks -> {0, 1}] /\ waiting' \subseteq Tasks /\ pipe' \in BOOLEAN
         /\ ppc' \in {"list", "poll", "drain", "retain", "wake"}
         /\ words' \subseteq Tasks /\ left' \subseteq Tasks /\ WAKING' \in Nat
         /\ UNCHANGED <<pc, todo, cancelled, helping, progressed>>
<1>0. /\ word \in [Tasks -> {0, 1}] /\ waiting \subseteq Tasks /\ pipe \in BOOLEAN
      /\ words \subseteq Tasks /\ left \subseteq Tasks /\ WAKING \in Nat
  BY DEF Types
<1>1. CASE read_list
  BY <1>0, <1>1 DEF read_list, task
<1>2. CASE poll
  BY <1>0, <1>2 DEF poll, task, Fired
<1>3. CASE poll_interrupted
  BY <1>0, <1>3 DEF poll_interrupted, task
<1>4. CASE drain
  BY <1>0, <1>4 DEF drain, task
<1>5. CASE retain
  <2>1. StillListed \subseteq Tasks
    BY <1>0 DEF StillListed
  <2>2. Cardinality(StillListed) \in Nat
    BY <2>1, FS_Subset, FS_CardinalityType DEF IoAssumption
  <2>3. WAKING' \in Nat
    BY SMT, <1>0, <1>5, <2>2 DEF retain, Counted
  <2> QED BY <1>0, <1>5, <2>1, <2>3 DEF retain
<1>6. CASE wakes_ended
  <2>1. WAKING = Cardinality(words)
    BY <1>6 DEF PollInv, wakes_ended
  <2>2. WAKING' = 0
    BY SMT, <1>0, <1>6, <2>1 DEF wakes_ended
  <2> QED BY SMT, <1>0, <1>6, <2>2 DEF wakes_ended, task
<1> QED BY <1>1, <1>2, <1>3, <1>4, <1>5, <1>6

\* Every step keeps the types.
LEMMA TypesStep ==
  ASSUME IoAssumption, IInv, [Next]_vars
  PROVE  Types'
<1> USE DEF IInv
<1>1. CASE Program /\ UNCHANGED watcher
  <2>1. ASSUME NEW t \in Tasks,
               \/ when_ready(t) \/ push(t) \/ write_byte(t) \/ load_ready(t) \/ remove(t) \/ load_done(t)
               \/ wake_caller(t) \/ cancel(t) \/ sleep_ends_early(t)
        PROVE  Types'
    BY <1>1, <2>1, TaskTypes DEF Types, helping, watcher
  <2>2. CASE \/ \E t \in Tasks : off_the_worker(t) \/ run(t) \/ notify_one(t) \/ call_ends(t) \/ wake_fiber(t)
             \/ serve("looks") \/ serve("notified") \/ wait_ends \/ leave_call
    BY ZenonT(40), <1>1, <2>2, HelpTypes DEF Types, poller, watcher
  <2>3. CASE read_list \/ poll \/ poll_interrupted \/ drain \/ retain \/ wakes_ended
    BY <1>1, <2>3, PollTypes DEF Types, helping, watcher
  <2>4. ASSUME NEW s \in Sockets, becomes_ready(s)
        PROVE  Types'
    BY SMT, <1>1, <2>4 DEF Types, becomes_ready, poller, helping, watcher
  <2> QED BY <1>1, <2>1, <2>2, <2>3, <2>4 DEF Program
<1>2. CASE Watches
  BY ZenonT(40), <1>2 DEF Types, Watches, tick, stuck, load_BUSY, load_WAKING, look_at_list, Look, task, poller,
                             helping
<1>3. CASE UNCHANGED vars
  BY SMT, <1>3 DEF Types, vars, task, poller, helping, watcher
<1> QED BY <1>1, <1>2, <1>3 DEF Next

-----------------------------------------------------------------------------
\* The words and the calls

\* A step leaves the words, the places and the calls of all tasks alone.
Still == UNCHANGED <<pc, word, todo>>

\* The steps that move a task t, by what they do to t and leave alone of the others.
Moves(t, from, to) ==
  /\ pc[t] \in from /\ pc' = [pc EXCEPT ![t] = to] /\ UNCHANGED todo

Leaves(t, from) ==
  /\ pc[t] \in from /\ todo[t] # <<>> /\ pc' = [pc EXCEPT ![t] = "idle"] /\ UNCHANGED word
  /\ \A u \in Tasks \ {t} : todo'[u] = todo[u]
  /\ Len(todo'[t]) = Len(todo[t]) - 1 /\ Len(todo[t]) \in Nat

Awakes == \A u \in Tasks : \/ pc'[u] = pc[u]
                           \/ pc[u] = "asleep" /\ pc'[u] = "load"
                           \/ pc[u] = "parked" /\ pc'[u] = "done"

\* What each step does to the tasks, the list and the calls of the helpers.
Step(t) ==
  \/ /\ Leaves(t, {"idle"}) /\ UNCHANGED <<waiting, runs, queue, stored>>
  \/ /\ Moves(t, {"idle"}, "push") /\ todo[t] # <<>> /\ word' = [word EXCEPT ![t] = 0]
     /\ UNCHANGED <<waiting, runs, queue, stored>>
  \/ /\ Moves(t, {"idle"}, "run") /\ todo[t] # <<>> /\ word' = [word EXCEPT ![t] = 0]
     /\ UNCHANGED <<waiting, runs, queue, stored>>
  \/ Moves(t, {"push"}, "byte") /\ waiting' = waiting \cup {t} /\ UNCHANGED <<word, runs, queue, stored>>
  \/ Moves(t, {"byte"}, "load") /\ UNCHANGED <<word, waiting, runs, queue, stored>>
  \/ Moves(t, {"load"}, "idle") /\ word[t] # 0 /\ UNCHANGED <<word, waiting, runs, queue, stored>>
  \/ Moves(t, {"load"}, "remove") /\ word[t] = 0 /\ UNCHANGED <<word, waiting, runs, queue, stored>>
  \/ Moves(t, {"load"}, "asleep") /\ word[t] = 0 /\ UNCHANGED <<word, waiting, runs, queue, stored>>
  \/ Leaves(t, {"remove"}) /\ waiting' = waiting \ {t} /\ UNCHANGED <<runs, queue, stored>>
  \/ Moves(t, {"remove"}, "load") /\ t \notin waiting /\ UNCHANGED <<word, waiting, runs, queue, stored>>
  \/ Moves(t, {"run"}, "notify") /\ queue' = Append(queue, t) /\ UNCHANGED <<word, waiting, runs, stored>>
  \/ Moves(t, {"notify"}, "done") /\ UNCHANGED <<word, waiting, runs, queue, stored>>
  \/ Leaves(t, {"done"}) /\ word[t] # 0 /\ UNCHANGED <<waiting, runs, queue, stored>>
  \/ Moves(t, {"done"}, "parked") /\ word[t] = 0 /\ UNCHANGED <<word, waiting, runs, queue, stored>>
  \/ /\ t \in runs /\ runs' = runs \ {t} /\ stored' = stored \cup {<<t, Len(todo[t])>>}
     /\ word' = [word EXCEPT ![t] = 1] /\ UNCHANGED <<pc, todo, waiting, queue>>
  \/ /\ \E c \in stored : c[1] = t /\ stored' = stored \ {c}
     /\ Awakes /\ ~Sleeps(t)' /\ UNCHANGED <<word, todo, waiting, runs, queue>>
  \/ Awakes /\ UNCHANGED <<word, todo, waiting, runs, queue, stored>>

\* Each step that moves a task has one of the forms of Step.
LEMMA TaskSteps ==
  ASSUME Types, FrameInv, NEW t \in Tasks,
         \/ when_ready(t) \/ push(t) \/ write_byte(t) \/ load_ready(t) \/ remove(t) \/ wake_caller(t)
         \/ off_the_worker(t) \/ run(t) \/ notify_one(t) \/ load_done(t) \/ call_ends(t) \/ wake_fiber(t)
         \/ cancel(t) \/ sleep_ends_early(t)
  PROVE  Step(t)
<1> USE DEF Goto, poller, helping
<1>0. \A from : CallEnds(t) /\ todo[t] # <<>> /\ pc[t] \in from /\ UNCHANGED word => Leaves(t, from)
  BY CallEndsIs DEF Leaves
<1>a. EndSleep(t) => Awakes /\ ~Sleeps(t)'
  BY EndSleepIs DEF Awakes
<1> HIDE DEF CallEnds, EndSleep
<1>1. CASE when_ready(t)
  <2>1. CASE CallEnds(t) /\ UNCHANGED word
    <3>1. Leaves(t, {"idle"})
      BY <1>0, <1>1, <2>1 DEF when_ready, Calls
    <3> QED BY <1>1, <3>1 DEF Step, when_ready
  <2>2. CASE word' = [word EXCEPT ![t] = 0] /\ Goto(t, "push") /\ UNCHANGED <<ready, todo>>
    BY <1>1, <2>2 DEF Step, Moves, when_ready, Calls
  <2> QED BY <1>1, <2>1, <2>2 DEF when_ready
<1>2. CASE push(t)
  BY <1>2 DEF Step, Moves, push
<1>3. CASE write_byte(t)
  BY <1>3 DEF Step, Moves, write_byte
<1>4. CASE load_ready(t)
  BY <1>4 DEF Step, Moves, load_ready
<1>5. CASE remove(t)
  <2>1. CASE CallEnds(t)
    <3>1. Leaves(t, {"remove"})
      BY <1>0, <1>5, <2>1 DEF remove, FrameInv
    <3> QED BY <1>5, <3>1 DEF Step, remove
  <2>2. CASE t \notin waiting /\ Goto(t, "load") /\ UNCHANGED todo
    BY <1>5, <2>2 DEF Step, Moves, remove
  <2> QED BY <1>5, <2>1, <2>2 DEF remove
<1>6. CASE wake_caller(t)
  BY <1>a, <1>6 DEF Step, wake_caller
<1>7. CASE off_the_worker(t)
  BY <1>7 DEF Step, Moves, off_the_worker, Calls
<1>8. CASE run(t)
  BY <1>8 DEF Step, Moves, run
<1>9. CASE notify_one(t)
  BY <1>9 DEF Step, Moves, notify_one
<1>10. CASE load_done(t)
  <2>1. CASE word[t] # 0 /\ CallEnds(t)
    <3>1. Leaves(t, {"done"})
      BY <1>0, <1>10, <2>1 DEF load_done, FrameInv
    <3> QED BY <1>10, <2>1, <3>1 DEF Step, load_done
  <2>2. CASE word[t] = 0 /\ Goto(t, "parked") /\ UNCHANGED todo
    BY <1>10, <2>2 DEF Step, Moves, load_done
  <2> QED BY <1>10, <2>1, <2>2 DEF load_done
<1>11. CASE call_ends(t)
  BY <1>11 DEF Step, call_ends
<1>12. CASE wake_fiber(t)
  BY <1>a, <1>12 DEF Step, wake_fiber
<1>13. CASE cancel(t)
  <2>1. Awakes
    BY <1>a, <1>13 DEF Awakes, cancel
  <2> QED BY <1>13, <2>1 DEF Step, cancel
<1>14. CASE sleep_ends_early(t)
  BY <1>a, <1>14 DEF Step, sleep_ends_early
<1> QED BY <1>1, <1>2, <1>3, <1>4, <1>5, <1>6, <1>7, <1>8, <1>9, <1>10, <1>11, <1>12, <1>13, <1>14

\* A step that moves a task keeps each task's word and call in order.
LEMMA FrameStep ==
  ASSUME Types, FrameInv, ListInv, HelpInv, NEW t \in Tasks, Step(t)
  PROVE  FrameInv'
<1>0. pc \in [Tasks -> Places] /\ word \in [Tasks -> {0, 1}]
  BY DEF Types
<1>1. t \in runs => pc[t] \in Handed
  BY DEF HelpInv, Helped
<1> QED BY <1>0, <1>1 DEF FrameInv, Step, Moves, Leaves, Awakes, Handed

\* A step that moves a task keeps on the list the waits that have not ended.
LEMMA ListStep ==
  ASSUME Types, FrameInv, ListInv, HelpInv, NEW t \in Tasks, Step(t)
  PROVE  ListInv'
<1>0. pc \in [Tasks -> Places] /\ word \in [Tasks -> {0, 1}] /\ waiting \subseteq Tasks
  BY DEF Types
<1>1. t \in runs => pc[t] \in Handed
  BY DEF HelpInv, Helped
<1>2. CASE Moves(t, {"push"}, "byte") /\ waiting' = waiting \cup {t} /\ UNCHANGED word
  BY SMT, <1>0, <1>2 DEF ListInv, FrameInv, Moves, Entered
<1>3. CASE Leaves(t, {"remove"}) /\ waiting' = waiting \ {t}
  BY SMT, <1>0, <1>3 DEF ListInv, Leaves, Entered
<1>4. CASE t \in runs /\ word' = [word EXCEPT ![t] = 1] /\ UNCHANGED <<pc, waiting>>
  BY SMT, <1>0, <1>1, <1>4 DEF ListInv, Handed, Entered
<1>5. CASE Awakes /\ UNCHANGED <<word, waiting>>
  BY SMT, <1>0, <1>5 DEF ListInv, Awakes, Entered
<1>6. CASE /\ pc[t] = "idle" /\ UNCHANGED waiting /\ \A u \in Tasks \ {t} : word'[u] = word[u]
           /\ \E to \in {"idle", "push", "run"} : pc' = [pc EXCEPT ![t] = to]
  BY SMT, <1>0, <1>6 DEF ListInv, Entered
<1>7. CASE /\ UNCHANGED <<word, waiting>>
           /\ \E from, to \in Places :
                /\ pc[t] = from /\ pc' = [pc EXCEPT ![t] = to]
                /\ to \in Entered => from \in Entered
                /\ from \in Entered => to \in Entered \/ word[t] # 0
  BY SMT, <1>0, <1>7 DEF ListInv
<1>8. Handed \cap Entered = {} /\ Entered \cup Handed \cup {"idle", "push", "run"} \subseteq Places
      /\ {"byte", "load", "remove", "asleep"} = Entered /\ {"notify", "done", "parked"} = Handed
      /\ "run" \notin Entered /\ "idle" \notin Entered
  BY SMT DEF Handed, Entered, Places, WaitFrame, CallFrame
<1>9. CASE Leaves(t, {"idle"}) /\ UNCHANGED waiting
  BY <1>6, <1>9 DEF Leaves
<1>10. CASE \E to \in {"push", "run"} : Moves(t, {"idle"}, to) /\ word' = [word EXCEPT ![t] = 0] /\ UNCHANGED waiting
  BY <1>0, <1>6, <1>10 DEF Moves
<1>11. CASE /\ UNCHANGED <<word, waiting>>
            /\ \/ Moves(t, {"byte"}, "load") \/ (Moves(t, {"load"}, "idle") /\ word[t] # 0)
               \/ Moves(t, {"load"}, "remove") \/ Moves(t, {"load"}, "asleep") \/ Moves(t, {"remove"}, "load")
  BY <1>7, <1>8, <1>11 DEF Moves
<1>12. CASE /\ UNCHANGED <<word, waiting>>
            /\ \/ Moves(t, {"run"}, "notify") \/ Moves(t, {"notify"}, "done") \/ Moves(t, {"done"}, "parked")
               \/ Leaves(t, {"done"})
  BY <1>7, <1>8, <1>12 DEF Moves, Leaves
<1> QED BY <1>2, <1>3, <1>4, <1>5, <1>9, <1>10, <1>11, <1>12 DEF Step, Leaves

\* A step that moves a task keeps the finished calls its own or earlier ones.
LEMMA StoredStep ==
  ASSUME Types, FrameInv, HelpInv, StoredInv, NEW t \in Tasks, Step(t)
  PROVE  StoredInv'
<1>0. /\ pc \in [Tasks -> Places] /\ word \in [Tasks -> {0, 1}] /\ stored \subseteq Tasks \X Nat
      /\ todo \in [Tasks -> Seq({"socket", "file"})]
  BY DEF Types
<1>1. t \in runs => pc[t] \in Handed
  BY DEF HelpInv, Helped
<1>2. Len(todo[t]) \in Nat
  BY SMT, <1>0
<1>3. CASE Leaves(t, {"idle", "remove", "done"}) /\ UNCHANGED stored
  BY SMT, <1>0, <1>3 DEF StoredInv, Leaves, Handed
<1>4. CASE /\ UNCHANGED <<todo, stored>> /\ \A u \in Tasks \ {t} : pc'[u] = pc[u] /\ word'[u] = word[u]
           /\ pc'[t] = "parked" => word'[t] = 0
           /\ pc[t] \in Handed /\ word[t] # 0 => pc'[t] \in Handed /\ word'[t] # 0
  BY <1>0, <1>2, <1>4 DEF StoredInv
<1>5. CASE /\ t \in runs /\ stored' = stored \cup {<<t, Len(todo[t])>>}
           /\ word' = [word EXCEPT ![t] = 1] /\ UNCHANGED <<pc, todo>>
  <2> DEFINE d == <<t, Len(todo[t])>>
  <2>1. d \in stored' /\ d[1] = t /\ d[2] = Len(todo[t])
    BY <1>5
  <2>2. \A c \in stored' : c \in stored \/ c = d
    BY <1>5
  <2>3. word'[t] # 0 /\ pc'[t] \in Handed /\ \A u \in Tasks : u # t => word'[u] = word[u]
    BY SMT, <1>0, <1>1, <1>5
  <2> HIDE DEF d
  <2>4. \A c \in stored' : /\ c[2] >= Len(todo'[c[1]])
                           /\ c[2] = Len(todo'[c[1]]) => pc'[c[1]] \in Handed /\ word'[c[1]] # 0
    BY SMT, <1>0, <1>2, <1>5, <2>1, <2>2, <2>3 DEF StoredInv
  <2>5. \A u \in Tasks : pc'[u] = "parked" /\ word'[u] # 0 => \E c \in stored' : c[1] = u
    BY <1>5, <2>1, <2>3 DEF StoredInv
  <2> QED BY <2>4, <2>5 DEF StoredInv
<1>6. CASE /\ \E c \in stored : c[1] = t /\ stored' = stored \ {c}
           /\ Awakes /\ ~Sleeps(t)' /\ UNCHANGED <<word, todo>>
  BY ZenonT(40), <1>0, <1>6 DEF StoredInv, Awakes, Sleeps, Handed
<1>7. CASE Awakes /\ UNCHANGED <<word, todo, stored>>
  BY <1>0, <1>7 DEF StoredInv, Awakes, Handed
<1> QED BY <1>0, <1>3, <1>4, <1>5, <1>6, <1>7 DEF Step, Moves, Leaves, Handed

\* A step that moves a task keeps each call with the helpers once.
LEMMA HelpStep ==
  ASSUME Types, FrameInv, HelpInv, NEW t \in Tasks, Step(t)
  PROVE  HelpInv'
<1>0. /\ pc \in [Tasks -> Places] /\ word \in [Tasks -> {0, 1}] /\ queue \in Seq(Tasks)
           /\ runs \subseteq Tasks
  BY DEF Types
<1>1. CASE /\ UNCHANGED <<runs, queue>> /\ \A u \in Tasks \ {t} : pc'[u] = pc[u] /\ word'[u] = word[u]
           /\ pc[t] \in Handed /\ word[t] = 0 => pc'[t] \in Handed /\ word'[t] = 0
           /\ pc'[t] \in Handed => pc[t] \in Handed /\ word'[t] = word[t]
  <2>1. Helped' = Helped
    BY <1>1 DEF Helped
  <2>2. \A u \in Tasks : (u \in Helped' => pc'[u] \in Handed)
          /\ (pc'[u] \in Handed => (u \in Helped' <=> word'[u] = 0))
    BY <1>1, <2>1 DEF HelpInv
  <2> QED BY <1>1, <2>2 DEF HelpInv
<1>2. CASE Moves(t, {"run"}, "notify") /\ queue' = Append(queue, t) /\ UNCHANGED <<word, runs>>
  <2>1. t \notin Helped /\ word[t] = 0
    BY <1>2 DEF Moves, HelpInv, FrameInv, Handed
  <2>2. /\ DOMAIN queue = 1 .. Len(queue) /\ DOMAIN queue' = 1 .. (Len(queue) + 1) /\ Len(queue) \in Nat
        /\ \A i \in 1 .. Len(queue) : queue'[i] = queue[i] /\ queue[i] # t /\ queue[i] \in Helped
        /\ queue'[Len(queue) + 1] = t
    BY SMT, <1>0, <1>2, <2>1, QueueIs DEF Helped, Range
  <2>3. Helped' = Helped \cup {t}
    BY SMT, <1>2, <2>2 DEF Helped, Range
  <2>4. \A i, j \in DOMAIN queue' : queue'[i] = queue'[j] => i = j
    BY SMT, <2>2 DEF HelpInv
  <2>5. \A i \in DOMAIN queue' : queue'[i] \notin runs'
    BY SMT, <1>2, <2>1, <2>2 DEF HelpInv, Helped
  <2>6. \A u \in Tasks : /\ u \in Helped' => pc'[u] \in Handed
                         /\ pc'[u] \in Handed => (u \in Helped' <=> word'[u] = 0)
    BY <1>0, <1>2, <2>1, <2>3 DEF HelpInv, Moves, Handed
  <2> QED BY <2>4, <2>5, <2>6 DEF HelpInv
<1>3. CASE t \in runs /\ runs' = runs \ {t} /\ word' = [word EXCEPT ![t] = 1] /\ UNCHANGED <<pc, queue>>
  <2>1. t \notin Range(queue)
    BY <1>3 DEF HelpInv, Range
  <2>2. Helped' = Helped \ {t}
    BY <1>3, <2>1 DEF Helped
  <2>3. \A u \in Tasks : /\ u \in Helped' => pc'[u] \in Handed
                         /\ pc'[u] \in Handed => (u \in Helped' <=> word'[u] = 0)
    BY SMT, <1>0, <1>3, <2>2 DEF HelpInv
  <2> QED BY <1>3, <2>3 DEF HelpInv
<1>4. CASE Awakes /\ UNCHANGED <<word, runs, queue>>
  <2>1. Helped' = Helped
    BY <1>4 DEF Helped
  <2>2. \A u \in Tasks : pc'[u] \in Handed <=> pc[u] \in Handed
    BY <1>4 DEF Awakes, Handed
  <2>3. \A u \in Tasks : /\ u \in Helped' => pc'[u] \in Handed
                         /\ pc'[u] \in Handed => (u \in Helped' <=> word'[u] = 0)
    BY <1>4, <2>1, <2>2 DEF HelpInv
  <2> QED BY <1>4, <2>3 DEF HelpInv
<1> QED BY <1>0, <1>1, <1>2, <1>3, <1>4 DEF Step, Moves, Leaves, Handed

\* The poller stores to the words of waits that have not ended, and takes them off its list.
LEMMA RetainKeeps ==
  ASSUME Types, FrameInv, ListInv, HelpInv, StoredInv, retain
  PROVE  FrameInv' /\ ListInv' /\ HelpInv' /\ StoredInv'
<1>0. /\ pc \in [Tasks -> Places] /\ word \in [Tasks -> {0, 1}] /\ waiting \subseteq Tasks
      /\ stored \subseteq Tasks \X Nat
  BY DEF Types
<1>1. /\ \A u \in Tasks : word'[u] = IF u \in StillListed THEN 1 ELSE word[u]
      /\ waiting' = waiting \ StillListed /\ StillListed \subseteq waiting
      /\ UNCHANGED <<pc, todo, runs, queue, stored>>
  BY DEF retain, StillListed, helping
<1>2. \A u \in StillListed : u \in Tasks /\ pc[u] \in Entered
  BY <1>0, <1>1 DEF ListInv
<1>3. FrameInv'
  BY <1>1, <1>2 DEF FrameInv, Entered
<1>4. ListInv'
  BY SMT, <1>1, <1>2 DEF ListInv
<1>5. HelpInv'
  <2>1. Helped' = Helped
    BY <1>1 DEF Helped
  <2>2. \A u \in Tasks : pc[u] \in Handed => word'[u] = word[u]
    BY <1>1, <1>2 DEF Entered, Handed
  <2>3. \A u \in Tasks : /\ u \in Helped' => pc'[u] \in Handed
                         /\ pc'[u] \in Handed => (u \in Helped' <=> word'[u] = 0)
    BY <1>1, <2>1, <2>2 DEF HelpInv
  <2> QED BY <1>1, <2>3 DEF HelpInv
<1>6. StoredInv'
  <2>1. \A u \in Tasks : pc[u] \in Handed => word'[u] = word[u]
    BY <1>1, <1>2 DEF Entered, Handed
  <2> QED BY <1>0, <1>1, <2>1 DEF StoredInv, Handed
<1> QED BY <1>3, <1>4, <1>5, <1>6

\* A helper takes the first call of the queue.
LEMMA TakeKeeps ==
  ASSUME Types, HelpInv, queue # <<>>, runs' = runs \cup {Head(queue)}, queue' = Tail(queue), UNCHANGED <<pc, word>>
  PROVE  HelpInv' /\ Head(queue) \notin runs
<1>0. queue \in Seq(Tasks) /\ runs \subseteq Tasks
  BY DEF Types
<1>1. /\ Head(queue) = queue[1] /\ Len(queue) \in Nat /\ Len(queue) >= 1 /\ DOMAIN queue = 1 .. Len(queue)
      /\ DOMAIN queue' = 1 .. (Len(queue) - 1) /\ \A i \in 1 .. (Len(queue) - 1) : queue'[i] = queue[i + 1]
  BY SMT, <1>0
<1>2. queue[1] \notin runs
  BY SMT, <1>1 DEF HelpInv
<1>3. Helped' = Helped
  <2>1. \A u : u \in Helped' => u \in Helped
    BY SMT, <1>1 DEF Helped, Range
  <2>2. ASSUME NEW i \in 1 .. Len(queue)
        PROVE  queue[i] \in Helped'
    <3>1. CASE i = 1
      BY <1>1, <3>1 DEF Helped
    <3>2. CASE i > 1
      <4>1. i - 1 \in 1 .. (Len(queue) - 1) /\ queue'[i - 1] = queue[i]
        BY SMT, <1>1, <3>2
      <4> QED BY <1>1, <4>1 DEF Helped, Range
    <3> QED BY SMT, <1>1, <3>1, <3>2
  <2> QED BY SMT, <1>1, <2>1, <2>2 DEF Helped, Range
<1>4. \A i, j \in DOMAIN queue' : queue'[i] = queue'[j] => i = j
  BY SMT, <1>1 DEF HelpInv
<1>5. \A i \in DOMAIN queue' : queue'[i] \notin runs'
  BY SMT, <1>1 DEF HelpInv
<1>6. \A u \in Tasks : /\ u \in Helped' => pc'[u] \in Handed
                       /\ pc'[u] \in Handed => (u \in Helped' <=> word'[u] = 0)
  BY <1>3 DEF HelpInv
<1> QED BY <1>1, <1>2, <1>4, <1>5, <1>6 DEF HelpInv

\* Every step keeps the words, the list and the calls in order.
LEMMA WordsStep ==
  ASSUME IoAssumption, IInv, [Next]_vars
  PROVE  FrameInv' /\ ListInv' /\ HelpInv' /\ StoredInv'
<1>0. Types /\ FrameInv /\ ListInv /\ HelpInv /\ StoredInv
  BY DEF IInv
<1>1. CASE Still /\ UNCHANGED <<waiting, runs, queue, stored>>
  BY <1>0, <1>1 DEF Still, FrameInv, ListInv, HelpInv, StoredInv, Helped
<1>2. ASSUME NEW from \in {"looks", "notified"}, serve(from)
      PROVE  FrameInv' /\ ListInv' /\ HelpInv' /\ StoredInv'
  <2>1. /\ ServeTakes(from) \/ ServeWaits(from)
        /\ UNCHANGED <<pc, word, todo, waiting, stored>>
    BY <1>0, <1>2, ServeIs DEF task, poller
  <2>2. CASE ServeWaits(from)
    BY <1>1, <2>1, <2>2 DEF ServeWaits, Still
  <2>3. CASE ServeTakes(from)
    BY <1>0, <2>1, <2>3, TakeKeeps DEF ServeTakes, FrameInv, ListInv, StoredInv
  <2> QED BY <2>1, <2>2, <2>3
<1>3. ASSUME NEW t \in Tasks, Step(t)
      PROVE  FrameInv' /\ ListInv' /\ HelpInv' /\ StoredInv'
  BY <1>0, <1>3, FrameStep, ListStep, HelpStep, StoredStep
<1>4. CASE Program
  <2>1. CASE read_list \/ poll \/ poll_interrupted \/ drain \/ wakes_ended
    BY <1>1, <2>1 DEF read_list, poll, poll_interrupted, drain, wakes_ended, Still, task, helping
  <2>2. CASE wait_ends \/ leave_call \/ \E s \in Sockets : becomes_ready(s)
    BY <1>1, <2>2 DEF wait_ends, leave_call, becomes_ready, Still, task, poller, helping
  <2> QED BY <1>0, <1>2, <1>3, <1>4, <2>1, <2>2, TaskSteps, RetainKeeps DEF Program
<1>5. CASE Watches
  BY <1>1, <1>5 DEF Watches, tick, stuck, load_BUSY, load_WAKING, look_at_list, Look, Still, task, poller,
                    helping
<1>6. CASE UNCHANGED vars
  BY <1>1, <1>6 DEF vars, Still, task, poller, helping
<1> QED BY <1>4, <1>5, <1>6 DEF Next

-----------------------------------------------------------------------------
\* The poller

\* Every step keeps WAKING true, and each entry in the poll or told of by the pipe.
LEMMA PollStep ==
  ASSUME IoAssumption, IInv, [Next]_vars
  PROVE  PollInv'
<1>0. /\ pc \in [Tasks -> Places] /\ word \in [Tasks -> {0, 1}] /\ waiting \subseteq Tasks
      /\ left \subseteq Tasks /\ words \subseteq Tasks /\ WAKING \in Nat /\ PollInv
  BY DEF IInv, Types
<1>a. \A t \in runs : pc[t] \in Handed
  BY DEF IInv, Types, HelpInv, Helped
<1>1. CASE /\ UNCHANGED poller /\ \A u \in Tasks : pc[u] = "byte" => pc'[u] = "byte"
           /\ \A u \in Tasks : pc'[u] = "asleep" /\ word'[u] # 0 => pc[u] = "asleep" /\ word[u] # 0
  BY <1>0, <1>1 DEF PollInv, poller
<1>2. ASSUME NEW t \in Tasks, EndSleep(t)
      PROVE  /\ \A u \in Tasks : pc[u] = "byte" => pc'[u] = "byte"
             /\ \A u \in Tasks : pc'[u] = "asleep" => pc[u] = "asleep"
             /\ pc'[t] # "asleep"
  BY <1>2, EndSleepIs DEF IInv, Sleeps
<1>3. ASSUME NEW t \in Tasks,
             \/ when_ready(t) \/ load_ready(t) \/ off_the_worker(t) \/ run(t) \/ notify_one(t) \/ load_done(t)
             \/ call_ends(t)
      PROVE  PollInv'
  <2>1. UNCHANGED poller
    BY <1>3 DEF when_ready, load_ready, off_the_worker, run, notify_one, load_done, call_ends
  <2>2. \A u \in Tasks : pc[u] = "byte" => pc'[u] = "byte"
    BY <1>0, <1>3 DEF when_ready, load_ready, off_the_worker, run, notify_one, load_done, call_ends, Goto,
                      CallEnds, Calls
  <2>3. \A u \in Tasks : pc'[u] = "asleep" /\ word'[u] # 0 => pc[u] = "asleep" /\ word[u] # 0
    BY <1>0, <1>a, <1>3 DEF when_ready, load_ready, off_the_worker, run, notify_one, load_done, call_ends, Goto,
                            CallEnds, Handed
  <2> QED BY <1>1, <2>1, <2>2, <2>3
<1>4. ASSUME NEW t \in Tasks, wake_fiber(t) \/ cancel(t) \/ sleep_ends_early(t)
      PROVE  PollInv'
  <2>1. UNCHANGED <<poller, word>> /\ (EndSleep(t) \/ UNCHANGED pc)
    BY <1>4 DEF wake_fiber, cancel, sleep_ends_early
  <2> QED BY <1>1, <1>2, <2>1
<1>5. ASSUME NEW t \in Tasks, push(t)
      PROVE  PollInv'
  BY <1>0, <1>5 DEF PollInv, push, Goto
<1>6. ASSUME NEW t \in Tasks, write_byte(t)
      PROVE  PollInv'
  BY <1>0, <1>6 DEF PollInv, write_byte, Goto
<1>7. ASSUME NEW t \in Tasks, remove(t)
      PROVE  PollInv'
  BY <1>0, <1>7 DEF PollInv, remove, Goto, CallEnds
<1>8. ASSUME NEW t \in Tasks, wake_caller(t)
      PROVE  PollInv'
  BY <1>0, <1>2, <1>8 DEF PollInv, wake_caller
<1>9. CASE read_list \/ poll \/ poll_interrupted \/ drain
  BY <1>0, <1>9 DEF PollInv, read_list, poll, poll_interrupted, drain, task
<1>10. CASE retain
  <2>1. left = {} /\ WAKING = 0 /\ ppc' = "wake" /\ words' = StillListed /\ left' = StillListed
    BY <1>0, <1>10 DEF PollInv, retain
  <2>2. WAKING' = Cardinality(words')
    <3>1. Cardinality(StillListed) \in Nat
      BY <1>0, FS_Subset, FS_CardinalityType DEF IoAssumption, StillListed
    <3> QED BY SMT, <1>10, <2>1, <3>1 DEF retain, Counted
  <2>3. \A u \in Tasks : pc'[u] = "asleep" /\ word'[u] # 0 => u \in left'
    BY <1>0, <1>10, <2>1 DEF PollInv, retain
  <2> QED BY <2>1, <2>2, <2>3 DEF PollInv
<1>11. CASE wakes_ended
  BY SMT, <1>0, <1>11 DEF PollInv, wakes_ended, task
<1>12. CASE \/ serve("looks") \/ serve("notified") \/ wait_ends \/ leave_call
            \/ (\E s \in Sockets : becomes_ready(s)) \/ Watches \/ UNCHANGED vars
  <2>1. UNCHANGED <<poller, pc, word>>
    BY <1>12 DEF serve, wait_ends, leave_call, becomes_ready, Watches, tick, stuck, load_BUSY, load_WAKING,
                 look_at_list, Look, vars, task
  <2> QED BY <1>1, <2>1
<1> QED BY <1>3, <1>4, <1>5, <1>6, <1>7, <1>8, <1>9, <1>10, <1>11, <1>12 DEF Next, Program

-----------------------------------------------------------------------------
\* The counts

\* A new element adds one to the size of a finite set.
LEMMA OneMore ==
  ASSUME NEW S, IsFiniteSet(S), NEW x, x \notin S
  PROVE  Cardinality(S \cup {x}) = Cardinality(S) + 1
  BY FS_AddElement

\* An element that goes takes one from the size of a finite set.
LEMMA OneLess ==
  ASSUME NEW S, IsFiniteSet(S), NEW x, x \in S
  PROVE  Cardinality(S \ {x}) = Cardinality(S) - 1
  BY FS_RemoveElement

Numeric ==
  /\ Cardinality(Running) \in Nat /\ Cardinality(Notifying) \in Nat /\ Cardinality(runs) \in Nat
  /\ Cardinality(stored) \in Nat /\ Len(queue) \in Nat /\ BUSY \in Nat /\ idle \in Nat
  /\ helpers.looks \in Nat /\ helpers.waits \in Nat /\ helpers.notified \in Nat /\ helpers.leaves \in Nat

\* The counts of the model are natural numbers.
LEMMA Numbers ==
  ASSUME IoAssumption, Types
  PROVE  Numeric
<1>1. BUSY \in Nat /\ idle \in Nat
  BY DEF Types
<1> QED BY <1>1, Finite, HelpersAre DEF Numeric

\* The steps of a helper keep the counts and the service, and so do the steps of a task
\* that gives a call to the helpers.
LEMMA OffKeeps ==
  ASSUME IoAssumption, IInv, NEW t \in Tasks, off_the_worker(t)
  PROVE  CountInv' /\ ServeInv'
<1>0. pc \in [Tasks -> Places] /\ Types /\ CountInv /\ ServeInv /\ BUSY \in Nat
  BY DEF IInv, Types
<1>n. Numeric
  BY <1>0, Numbers
<1>1. t \notin Running /\ Running' = Running \cup {t} /\ Notifying' = Notifying
  BY <1>0 DEF off_the_worker, Calls, Goto, Running, Notifying
<1>2. Cardinality(Running') = Cardinality(Running) + 1
  BY <1>0, <1>1, Finite, OneMore
<1>3. BUSY' = BUSY + 1 /\ UNCHANGED <<queue, idle, helpers, runs, stored>>
  BY DEF off_the_worker
<1>4. CountInv'
  <2>1. idle' = helpers'.waits + helpers'.notified
    BY <1>0, <1>3 DEF CountInv
  <2>2. BUSY + 1 = (Cardinality(Running) + 1) + Len(queue) + Cardinality(runs) + Cardinality(stored) + helpers.leaves
    <3>1. BUSY = Cardinality(Running) + Len(queue) + Cardinality(runs) + Cardinality(stored) + helpers.leaves
      BY <1>0 DEF CountInv
    <3>2. /\ Cardinality(Running) \in Nat /\ Len(queue) \in Nat /\ Cardinality(runs) \in Nat
          /\ Cardinality(stored) \in Nat /\ helpers.leaves \in Nat
      BY <1>n DEF Numeric
    <3> QED BY SMT, <3>1, <3>2
  <2> QED BY <1>2, <1>3, <2>1, <2>2 DEF CountInv
<1>5. ServeInv'
  BY <1>0, <1>1, <1>3 DEF ServeInv, Coming
<1> QED BY <1>4, <1>5

\* A call that goes to the queue has a helper started for it, or one to notify.
LEMMA RunKeeps ==
  ASSUME IoAssumption, IInv, NEW t \in Tasks, run(t)
  PROVE  CountInv' /\ ServeInv'
<1>0. pc \in [Tasks -> Places] /\ Types /\ CountInv /\ ServeInv /\ BUSY \in Nat /\ queue \in Seq(Tasks)
  BY DEF IInv, Types
<1>n. Numeric
  BY <1>0, Numbers
<1>1. /\ t \in Running /\ Running' = Running \ {t}
      /\ t \notin Notifying /\ Notifying' = Notifying \cup {t}
  BY <1>0 DEF run, Goto, Running, Notifying
<1>2. Cardinality(Running') = Cardinality(Running) - 1 /\ Cardinality(Notifying') = Cardinality(Notifying) + 1
  BY <1>0, <1>1, Finite, OneMore, OneLess
<1>3. Len(queue') = Len(queue) + 1 /\ UNCHANGED <<idle, BUSY, runs, stored>>
  BY <1>0, QueueIs DEF run
<1>4. /\ helpers'.waits = helpers.waits /\ helpers'.notified = helpers.notified
           /\ helpers'.leaves = helpers.leaves
      /\ \/ helpers'.looks = helpers.looks + 1
         \/ helpers'.looks = helpers.looks /\ Len(queue) + 1 <= idle
  <2>1. CASE NeedsAThread
    BY <1>0, <2>1, HelpersAre DEF run
  <2>2. CASE ~NeedsAThread
    BY SMT, <1>0, <2>2, Finite DEF run, NeedsAThread, Types
  <2> QED BY <2>1, <2>2
<1>5. CountInv'
  BY SMT, <1>0, <1>2, <1>3, <1>4, <1>n DEF Numeric, CountInv
<1>6. ServeInv'
  <2>1. PICK n, l, c, k, w, o, v \in Nat :
          /\ n = Cardinality(Notifying) /\ l = Len(queue) /\ c = Cardinality(stored)
          /\ k = helpers.looks /\ w = helpers.waits /\ o = helpers.notified /\ v = helpers.leaves
    BY <1>n DEF Numeric
  <2>2. (l <= k + o + v + c + w /\ w <= n) \/ (l <= k + o + v + c + n /\ n <= w)
    BY <1>0, <2>1 DEF ServeInv, Coming
  <2>3. PICK m \in Nat : m = helpers'.looks /\ (m = k + 1 \/ (m = k /\ l + 1 <= w + o))
    BY SMT, <1>0, <1>4, <2>1 DEF CountInv
  <2>4. (l + 1 <= m + o + v + c + w /\ w <= n + 1) \/ (l + 1 <= m + o + v + c + (n + 1) /\ n + 1 <= w)
    <3>1. m = k + 1 \/ (m = k /\ l + 1 <= w + o)
      BY <2>3
    <3>2. CASE m = k + 1
      BY SMT, <2>2, <3>2
    <3>3. CASE m = k /\ l + 1 <= w + o
      BY SMT, <2>2, <3>3
    <3> QED BY <3>1, <3>2, <3>3
  <2> QED BY <1>2, <1>3, <1>4, <2>1, <2>3, <2>4 DEF ServeInv, Coming
<1> QED BY <1>5, <1>6

\* A notify gets one helper that waits to look at the queue.
LEMMA NotifyKeeps ==
  ASSUME IoAssumption, IInv, NEW t \in Tasks, notify_one(t)
  PROVE  CountInv' /\ ServeInv'
<1>0. pc \in [Tasks -> Places] /\ Types /\ CountInv /\ ServeInv /\ BUSY \in Nat /\ queue \in Seq(Tasks)
  BY DEF IInv, Types
<1>n. Numeric
  BY <1>0, Numbers
<1>1. t \in Notifying /\ Notifying' = Notifying \ {t} /\ Running' = Running
  BY <1>0 DEF notify_one, Goto, Running, Notifying
<1>2. Cardinality(Notifying') = Cardinality(Notifying) - 1
  BY <1>0, <1>1, Finite, OneLess
<1>3. UNCHANGED <<queue, idle, BUSY, runs, stored>>
  BY DEF notify_one
<1>4. /\ helpers'.looks = helpers.looks /\ helpers'.leaves = helpers.leaves
      /\ \/ helpers.waits > 0 /\ helpers'.waits = helpers.waits - 1
           /\ helpers'.notified = helpers.notified + 1
         \/ helpers.waits = 0 /\ helpers'.waits = 0 /\ helpers'.notified = helpers.notified
  BY SMT, <1>0, HelpersAre DEF notify_one
<1>5. CountInv'
  <2>1. PICK w, o \in Nat : w = helpers.waits /\ o = helpers.notified
    BY <1>n DEF Numeric
  <2>2. idle' = w + o
    BY <1>0, <1>3, <2>1 DEF CountInv
  <2>3. (helpers'.waits = w - 1 /\ helpers'.notified = o + 1) \/ (helpers'.waits = w /\ helpers'.notified = o)
    BY <1>4, <2>1
  <2>4. idle' = helpers'.waits + helpers'.notified
    BY SMT, <2>2, <2>3
  <2> QED BY <1>0, <1>1, <1>3, <1>4, <2>4 DEF CountInv
<1>6. ServeInv'
  <2>1. PICK n, l, c, k, w, o, v \in Nat :
          /\ n = Cardinality(Notifying) /\ l = Len(queue) /\ c = Cardinality(stored)
          /\ k = helpers.looks /\ w = helpers.waits /\ o = helpers.notified /\ v = helpers.leaves
    BY <1>n DEF Numeric
  <2>2. (l <= k + o + v + c + w /\ w <= n) \/ (l <= k + o + v + c + n /\ n <= w)
    BY <1>0, <2>1 DEF ServeInv, Coming
  <2>3. CASE w > 0
    <3>1. \/ l <= k + (o + 1) + v + c + (w - 1) /\ w - 1 <= n - 1
          \/ l <= k + (o + 1) + v + c + (n - 1) /\ n - 1 <= w - 1
      BY SMT, <2>2
    <3>2. helpers'.waits = w - 1 /\ helpers'.notified = o + 1
      BY SMT, <1>4, <2>1, <2>3
    <3> QED BY <1>2, <1>3, <1>4, <2>1, <3>1, <3>2 DEF ServeInv, Coming
  <2>4. CASE w = 0
    <3>1. l <= k + o + v + c + w /\ w <= n - 1
      <4>1. n >= 1
        BY SMT, <1>0, <1>1, <2>1, Finite, FS_EmptySet
      <4> QED BY SMT, <2>2, <2>4, <4>1
    <3>2. helpers'.waits = w /\ helpers'.notified = o
      BY SMT, <1>4, <2>1, <2>4
    <3> QED BY <1>2, <1>3, <1>4, <2>1, <3>1, <3>2 DEF ServeInv, Coming
  <2> QED BY SMT, <2>3, <2>4
<1> QED BY <1>5, <1>6

\* A wait that ends is a helper that will look, as after a notify.
LEMMA WaitEndsKeeps ==
  ASSUME IoAssumption, IInv, wait_ends
  PROVE  CountInv' /\ ServeInv'
<1>0. Types /\ CountInv /\ ServeInv
  BY DEF IInv
<1>n. Numeric
  BY <1>0, Numbers
<1>1. Running' = Running /\ Notifying' = Notifying /\ UNCHANGED <<queue, idle, BUSY, runs, stored>>
  BY DEF wait_ends, task, Running, Notifying
<1>2. /\ helpers'.looks = helpers.looks /\ helpers'.leaves = helpers.leaves
      /\ helpers.waits > 0 /\ helpers'.waits = helpers.waits - 1 /\ helpers'.notified = helpers.notified + 1
  BY SMT, <1>0, HelpersAre DEF wait_ends
<1>3. PICK n, l, c, k, w, o, v \in Nat :
        /\ n = Cardinality(Notifying) /\ l = Len(queue) /\ c = Cardinality(stored)
        /\ k = helpers.looks /\ w = helpers.waits /\ o = helpers.notified /\ v = helpers.leaves
  BY <1>n DEF Numeric
<1>4. CountInv'
  <2>0. idle' = w + o
    BY <1>0, <1>1, <1>3 DEF CountInv
  <2>1. idle' = (w - 1) + (o + 1)
    BY SMT, <2>0
  <2>2. idle' = helpers'.waits + helpers'.notified
    BY <1>2, <1>3, <2>1
  <2> QED BY <1>0, <1>1, <1>2, <2>2 DEF CountInv
<1>5. ServeInv'
  <2>1. (l <= k + o + v + c + w /\ w <= n) \/ (l <= k + o + v + c + n /\ n <= w)
    BY <1>0, <1>3 DEF ServeInv, Coming
  <2>2. \/ l <= k + (o + 1) + v + c + (w - 1) /\ w - 1 <= n
        \/ l <= k + (o + 1) + v + c + n /\ n <= w - 1
    BY SMT, <2>1
  <2> QED BY <1>1, <1>2, <1>3, <2>2 DEF ServeInv, Coming
<1> QED BY <1>4, <1>5

\* A helper that takes a call, or waits for want of one, leaves no call behind.
LEMMA ServeKeeps ==
  ASSUME IoAssumption, IInv, NEW from \in {"looks", "notified"}, serve(from)
  PROVE  CountInv' /\ ServeInv'
<1>0. Types /\ CountInv /\ ServeInv /\ HelpInv /\ queue \in Seq(Tasks)
  BY DEF IInv, Types
<1>n. Numeric
  BY <1>0, Numbers
<1>1. Running' = Running /\ Notifying' = Notifying /\ UNCHANGED <<BUSY, stored, pc, word>>
  BY <1>0, ServeIs DEF task, Running, Notifying
<1>2. PICK n, l, c, k, w, o, v, u \in Nat :
        /\ n = Cardinality(Notifying) /\ l = Len(queue) /\ c = Cardinality(stored) /\ u = Cardinality(runs)
        /\ k = helpers.looks /\ w = helpers.waits /\ o = helpers.notified /\ v = helpers.leaves
  BY <1>n DEF Numeric
<1>3. PICK d, e \in {0, 1} :
        /\ d + e = 1 /\ d <= k /\ e <= o
        /\ helpers'.looks = k - d /\ helpers'.notified = o - e /\ helpers'.leaves = v
        /\ \/ ServeTakes(from) /\ helpers'.waits = w /\ idle' = (w + o) - e
           \/ ServeWaits(from) /\ helpers'.waits = w + 1 /\ idle' = (w + o) - e + 1
  <2>1. idle = w + o
    BY <1>0, <1>2 DEF CountInv
  <2>2. CASE from = "looks"
    <3>1. 1 <= k
      BY SMT, <1>0, <1>2, <2>2, ServeIs
    <3>2. /\ helpers'.looks = k - 1 /\ helpers'.notified = o - 0 /\ helpers'.leaves = v
          /\ \/ ServeTakes(from) /\ helpers'.waits = w /\ idle' = (w + o) - 0
             \/ ServeWaits(from) /\ helpers'.waits = w + 1 /\ idle' = (w + o) - 0 + 1
      <4>1. CASE ServeTakes(from)
        BY SMT, <1>2, <2>1, <2>2, <4>1 DEF ServeTakes
      <4>2. CASE ServeWaits(from)
        BY SMT, <1>2, <2>1, <2>2, <4>2 DEF ServeWaits
      <4> QED BY <1>0, <4>1, <4>2, ServeIs
    <3> QED BY SMT, <3>1, <3>2
  <2>3. CASE from = "notified"
    <3>1. 1 <= o
      BY SMT, <1>0, <1>2, <2>3, ServeIs
    <3>2. /\ helpers'.looks = k - 0 /\ helpers'.notified = o - 1 /\ helpers'.leaves = v
          /\ \/ ServeTakes(from) /\ helpers'.waits = w /\ idle' = (w + o) - 1
             \/ ServeWaits(from) /\ helpers'.waits = w + 1 /\ idle' = (w + o) - 1 + 1
      <4>1. CASE ServeTakes(from)
        BY SMT, <1>2, <2>1, <2>3, <4>1 DEF ServeTakes
      <4>2. CASE ServeWaits(from)
        BY SMT, <1>2, <2>1, <2>3, <4>2 DEF ServeWaits
      <4> QED BY <1>0, <4>1, <4>2, ServeIs
    <3> QED BY SMT, <3>1, <3>2
  <2> QED BY <2>2, <2>3
<1>4. (l <= k + o + v + c + w /\ w <= n) \/ (l <= k + o + v + c + n /\ n <= w)
  BY <1>0, <1>2 DEF ServeInv, Coming
<1>5. PICK a \in Nat : a = Cardinality(Running) /\ BUSY = a + l + u + c + v
  BY <1>0, <1>2, <1>n DEF Numeric, CountInv
<1>6. CASE ServeTakes(from) /\ helpers'.waits = w /\ idle' = (w + o) - e
  <2>1. Len(queue') = l - 1 /\ l >= 1
    BY SMT, <1>0, <1>2, <1>6, QueueIs DEF ServeTakes
  <2>2. Cardinality(runs') = u + 1
    <3>1. Head(queue) \notin runs
      BY <1>0, <1>1, <1>6, TakeKeeps DEF ServeTakes
    <3> QED BY <1>0, <1>2, <1>6, <3>1, Finite, OneMore DEF ServeTakes
  <2>3. CountInv'
    <3>1. idle' = w + (o - e) /\ BUSY = a + (l - 1) + (u + 1) + c + v
      BY SMT, <1>5, <1>6, <2>1
    <3> QED BY <1>1, <1>2, <1>3, <1>5, <1>6, <2>1, <2>2, <3>1 DEF CountInv
  <2>4. \/ l - 1 <= (k - d) + (o - e) + v + c + w /\ w <= n
        \/ l - 1 <= (k - d) + (o - e) + v + c + n /\ n <= w
    <3>1. d + e = 1 /\ d \in Nat /\ e \in Nat
      BY SMT, <1>3
    <3> QED BY SMT, <1>4, <3>1
  <2>5. ServeInv'
    BY <1>1, <1>2, <1>3, <1>6, <2>1, <2>4 DEF ServeInv, Coming
  <2> QED BY <2>3, <2>5
<1>7. CASE ServeWaits(from) /\ helpers'.waits = w + 1 /\ idle' = (w + o) - e + 1
  <2>1. queue' = queue /\ runs' = runs /\ l = 0
    BY <1>2, <1>7 DEF ServeWaits
  <2>2. CountInv'
    <3>1. idle' = (w + 1) + (o - e)
      BY SMT, <1>7
    <3> QED BY <1>1, <1>2, <1>3, <1>5, <1>7, <2>1, <3>1 DEF CountInv
  <2>3. \/ l <= (k - d) + (o - e) + v + c + (w + 1) /\ w + 1 <= n
        \/ l <= (k - d) + (o - e) + v + c + n /\ n <= w + 1
    <3>1. k - d >= 0 /\ o - e >= 0 /\ k - d \in Int /\ o - e \in Int
      BY SMT, <1>3
    <3> QED BY SMT, <2>1, <3>1
  <2>4. ServeInv'
    BY <1>1, <1>2, <1>3, <1>7, <2>1, <2>3 DEF ServeInv, Coming
  <2> QED BY <2>2, <2>4
<1> QED BY <1>3, <1>6, <1>7

\* A helper whose call ends will look at the queue again.
LEMMA CallEndsKeeps ==
  ASSUME IoAssumption, IInv, NEW t \in Tasks, call_ends(t)
  PROVE  CountInv' /\ ServeInv'
<1>0. /\ Types /\ CountInv /\ ServeInv /\ HelpInv /\ StoredInv /\ IsFiniteSet(stored)
      /\ word \in [Tasks -> {0, 1}]
  BY DEF IInv, Types
<1>n. Numeric
  BY <1>0, Numbers
<1>1. Running' = Running /\ Notifying' = Notifying /\ UNCHANGED <<queue, idle, BUSY, helpers>>
  BY DEF call_ends, Running, Notifying
<1>2. Cardinality(runs') = Cardinality(runs) - 1
  BY <1>0, Finite, OneLess DEF call_ends
<1>3. Cardinality(stored') = Cardinality(stored) + 1
  <2>1. t \in Helped /\ pc[t] \in Handed /\ word[t] = 0
    BY <1>0 DEF call_ends, Helped, HelpInv
  <2> DEFINE d == <<t, Len(todo[t])>>
  <2>2. d \notin stored
    <3>1. d[1] = t /\ d[2] = Len(todo[t])
      OBVIOUS
    <3> HIDE DEF d
    <3> QED BY <1>0, <2>1, <3>1 DEF StoredInv
  <2>3. stored' = stored \cup {d}
    BY DEF call_ends
  <2> HIDE DEF d
  <2> QED BY <1>0, <2>2, <2>3, OneMore
<1>4. PICK n, l, c, k, w, o, v, u, a \in Nat :
        /\ n = Cardinality(Notifying) /\ l = Len(queue) /\ c = Cardinality(stored) /\ u = Cardinality(runs)
        /\ k = helpers.looks /\ w = helpers.waits /\ o = helpers.notified /\ v = helpers.leaves
        /\ a = Cardinality(Running)
  BY <1>n DEF Numeric
<1>5. CountInv'
  <2>1. BUSY = a + l + (u - 1) + (c + 1) + v
    BY SMT, <1>0, <1>4 DEF CountInv
  <2> QED BY <1>0, <1>1, <1>2, <1>3, <1>4, <2>1 DEF CountInv
<1>6. ServeInv'
  <2>1. (l <= k + o + v + c + w /\ w <= n) \/ (l <= k + o + v + c + n /\ n <= w)
    BY <1>0, <1>4 DEF ServeInv, Coming
  <2>2. (l <= k + o + v + (c + 1) + w /\ w <= n) \/ (l <= k + o + v + (c + 1) + n /\ n <= w)
    BY SMT, <2>1
  <2> QED BY <1>1, <1>3, <1>4, <2>2 DEF ServeInv, Coming
<1> QED BY <1>5, <1>6

\* A helper that wakes its fiber will look at the queue again.
LEMMA WakeFiberKeeps ==
  ASSUME IoAssumption, IInv, NEW t \in Tasks, wake_fiber(t)
  PROVE  CountInv' /\ ServeInv'
<1>0. Types /\ CountInv /\ ServeInv /\ IsFiniteSet(stored)
  BY DEF IInv, Types
<1>n. Numeric
  BY <1>0, Numbers
<1>1. Running' = Running /\ Notifying' = Notifying /\ UNCHANGED <<queue, idle, BUSY, runs>>
  BY SMT, <1>0, EndSleepIs DEF wake_fiber, Running, Notifying
<1>2. Cardinality(stored') = Cardinality(stored) - 1
  BY <1>0, OneLess DEF wake_fiber
<1>3. /\ helpers'.looks = helpers.looks /\ helpers'.waits = helpers.waits
      /\ helpers'.notified = helpers.notified /\ helpers'.leaves = helpers.leaves + 1
  BY <1>0, HelpersAre DEF wake_fiber
<1>4. PICK n, l, c, k, w, o, v, u, a \in Nat :
        /\ n = Cardinality(Notifying) /\ l = Len(queue) /\ c = Cardinality(stored) /\ u = Cardinality(runs)
        /\ k = helpers.looks /\ w = helpers.waits /\ o = helpers.notified /\ v = helpers.leaves
        /\ a = Cardinality(Running)
  BY <1>n DEF Numeric
<1>5. CountInv'
  <2>0. BUSY = a + l + u + c + v
    BY <1>0, <1>4 DEF CountInv
  <2>1. BUSY = a + l + u + (c - 1) + (v + 1)
    BY SMT, <2>0
  <2> QED BY <1>0, <1>1, <1>2, <1>3, <1>4, <2>1 DEF CountInv
<1>6. ServeInv'
  <2>1. (l <= k + o + v + c + w /\ w <= n) \/ (l <= k + o + v + c + n /\ n <= w)
    BY <1>0, <1>4 DEF ServeInv, Coming
  <2>2. (l <= k + o + (v + 1) + (c - 1) + w /\ w <= n) \/ (l <= k + o + (v + 1) + (c - 1) + n /\ n <= w)
    BY SMT, <2>1
  <2> QED BY <1>1, <1>2, <1>3, <1>4, <2>2 DEF ServeInv, Coming
<1> QED BY <1>5, <1>6

\* A helper that leaves BUSY looks at the queue.
LEMMA LeaveKeeps ==
  ASSUME IoAssumption, IInv, leave_call
  PROVE  CountInv' /\ ServeInv'
<1>0. Types /\ CountInv /\ ServeInv
  BY DEF IInv
<1>n. Numeric
  BY <1>0, Numbers
<1>1. Running' = Running /\ Notifying' = Notifying /\ UNCHANGED <<queue, idle, runs, stored>>
        /\ BUSY' = BUSY - 1
  BY DEF leave_call, task, Running, Notifying
<1>2. PICK n, l, c, k, w, o, v, u, a \in Nat :
        /\ n = Cardinality(Notifying) /\ l = Len(queue) /\ c = Cardinality(stored) /\ u = Cardinality(runs)
        /\ k = helpers.looks /\ w = helpers.waits /\ o = helpers.notified /\ v = helpers.leaves
        /\ a = Cardinality(Running)
  BY <1>n DEF Numeric
<1>3. helpers'.looks = k + 1 /\ helpers'.waits = w /\ helpers'.notified = o /\ helpers'.leaves = v - 1
  BY <1>0, <1>2, LeaveIs
<1>4. CountInv'
  <2>1. BUSY = a + l + u + c + v
    BY <1>0, <1>2 DEF CountInv
  <2>2. BUSY' = a + l + u + c + (v - 1)
    BY SMT, <1>1, <2>1
  <2> QED BY <1>0, <1>1, <1>2, <1>3, <2>2 DEF CountInv
<1>5. ServeInv'
  <2>1. (l <= k + o + v + c + w /\ w <= n) \/ (l <= k + o + v + c + n /\ n <= w)
    BY <1>0, <1>2 DEF ServeInv, Coming
  <2>2. (l <= (k + 1) + o + (v - 1) + c + w /\ w <= n) \/ (l <= (k + 1) + o + (v - 1) + c + n /\ n <= w)
    BY SMT, <2>1
  <2> QED BY <1>1, <1>2, <1>3, <2>2 DEF ServeInv, Coming
<1> QED BY <1>4, <1>5

\* Every step keeps `idle` and BUSY true, and a helper for each call of the queue.
LEMMA CountStep ==
  ASSUME IoAssumption, IInv, [Next]_vars
  PROVE  CountInv' /\ ServeInv'
<1>0. pc \in [Tasks -> Places] /\ CountInv /\ ServeInv
  BY DEF IInv, Types
<1>1. CASE UNCHANGED helping /\ \A u \in Tasks : (pc'[u] = "run" <=> pc[u] = "run")
             /\ (pc'[u] = "notify" <=> pc[u] = "notify")
  <2>1. Running' = Running /\ Notifying' = Notifying
    BY <1>1 DEF Running, Notifying
  <2> QED BY <1>0, <1>1, <2>1 DEF CountInv, ServeInv, Coming, helping
<1>2. ASSUME NEW t \in Tasks, when_ready(t) \/ push(t) \/ write_byte(t) \/ load_ready(t) \/ remove(t)
               \/ load_done(t)
      PROVE  CountInv' /\ ServeInv'
  <2>1. UNCHANGED helping
    BY <1>2 DEF when_ready, push, write_byte, load_ready, remove, load_done
  <2>2. \E to \in Places \ {"run", "notify"} : pc[t] \notin {"run", "notify"} /\ pc' = [pc EXCEPT ![t] = to]
    BY <1>2 DEF when_ready, push, write_byte, load_ready, remove, load_done, Calls, CallEnds, Goto, Places,
                WaitFrame, CallFrame
  <2> QED BY <1>0, <1>1, <2>1, <2>2
<1>3. ASSUME NEW t \in Tasks, wake_caller(t) \/ cancel(t) \/ sleep_ends_early(t)
      PROVE  CountInv' /\ ServeInv'
  <2>1. UNCHANGED helping /\ (EndSleep(t) \/ UNCHANGED pc)
    BY <1>3 DEF wake_caller, cancel, sleep_ends_early
  <2>2. \A u \in Tasks : (pc'[u] = "run" <=> pc[u] = "run") /\ (pc'[u] = "notify" <=> pc[u] = "notify")
    BY <2>1, EndSleepIs DEF IInv
  <2> QED BY <1>1, <2>1, <2>2
<1>4. CASE \/ read_list \/ poll \/ poll_interrupted \/ drain \/ retain \/ wakes_ended
           \/ (\E s \in Sockets : becomes_ready(s)) \/ Watches \/ UNCHANGED vars
  <2>1. UNCHANGED <<helping, pc>>
    BY <1>4 DEF read_list, poll, poll_interrupted, drain, retain, wakes_ended, becomes_ready, Watches, tick,
                stuck, load_BUSY, load_WAKING, look_at_list, Look, vars, task
  <2> QED BY <1>1, <2>1
<1> QED BY <1>2, <1>3, <1>4, OffKeeps, RunKeeps, NotifyKeeps, WaitEndsKeeps, ServeKeeps, CallEndsKeeps,
           WakeFiberKeeps, LeaveKeeps DEF Next, Program

-----------------------------------------------------------------------------
\* The watcher

\* A parked task has its call counted in BUSY.
LEMMA ParkedIsBusy ==
  ASSUME IoAssumption, IInv, NEW t \in Tasks, pc[t] = "parked"
  PROVE  BUSY > 0 /\ (t \in runs \cup Range(queue) \/ \E c \in stored : c[1] = t)
<1>0. Types /\ CountInv /\ queue \in Seq(Tasks) /\ IsFiniteSet(stored)
  BY DEF IInv, Types
<1>n. Numeric
  BY <1>0, Numbers
<1>1. t \in Helped \/ \E c \in stored : c[1] = t
  BY DEF IInv, HelpInv, StoredInv, Handed
<1>2. Cardinality(runs) > 0 \/ Len(queue) > 0 \/ Cardinality(stored) > 0
  <2>1. CASE t \in runs
    <3>1. Cardinality(runs) # 0
      BY <1>0, <2>1, Finite, FS_EmptySet
    <3> QED BY SMT, <1>n, <3>1 DEF Numeric
  <2>2. CASE t \in Range(queue)
    BY SMT, <1>0, <2>2 DEF Range
  <2>3. CASE \E c \in stored : c[1] = t
    <3>1. Cardinality(stored) # 0
      BY <1>0, <2>3, FS_EmptySet
    <3> QED BY SMT, <1>n, <3>1 DEF Numeric
  <2> QED BY <1>1, <2>1, <2>2, <2>3 DEF Helped
<1>3. BUSY > 0
  <2>1. PICK l, c, v, u, a \in Nat :
          /\ l = Len(queue) /\ c = Cardinality(stored) /\ u = Cardinality(runs)
          /\ v = helpers.leaves /\ a = Cardinality(Running)
    BY <1>n DEF Numeric
  <2>2. BUSY = a + l + u + c + v
    BY <1>0, <2>1 DEF CountInv
  <2>3. u > 0 \/ l > 0 \/ c > 0
    BY <1>2, <2>1
  <2> QED BY SMT, <2>2, <2>3
<1> QED BY <1>1, <1>3 DEF Helped

\* A task that sleeps and is on no list has its wake counted in WAKING.
LEMMA LeftIsCounted ==
  ASSUME IoAssumption, IInv, left # {}
  PROVE  ppc = "wake" /\ WAKING > 0
<1>1. ppc = "wake" /\ left \subseteq words /\ WAKING = Cardinality(words) /\ WAKING \in Nat /\ Types
  BY DEF IInv, PollInv, Types
<1>2. words # {}
  BY <1>1
<1>3. WAKING # 0
  BY <1>1, <1>2, Finite, FS_EmptySet
<1> QED BY SMT, <1>1, <1>3

\* While every task sleeps, only the end of a sleep moves a task, and that is progress.
LEMMA AsleepStay ==
  ASSUME IInv, AllSleep, Program, ~progressed'
  PROVE  pc' = pc /\ todo' = todo
<1>0. pc \in [Tasks -> Places] /\ todo \in [Tasks -> Seq({"socket", "file"})] /\ FrameInv /\ Types
  BY DEF IInv, Types
<1>1. \A t \in Tasks : pc[t] = "idle" => todo[t] = <<>>
  BY DEF AllSleep, Sleeps
<1>2. \A t \in Tasks : pc[t] \in {"idle", "asleep", "parked"}
  BY <1>0 DEF AllSleep, Sleeps, FrameInv
<1>3. ASSUME NEW t \in Tasks, EndSleep(t)
      PROVE  pc' = pc
  <2>1. ~Sleeps(t)
    BY <1>0, <1>3, EndSleepIs DEF Sleeps
  <2> QED BY <1>0, <1>3, <2>1 DEF EndSleep, Goto, Sleeps
<1>4. ASSUME NEW t \in Tasks,
             \/ when_ready(t) \/ push(t) \/ write_byte(t) \/ load_ready(t) \/ remove(t)
             \/ off_the_worker(t) \/ run(t) \/ notify_one(t) \/ load_done(t)
      PROVE  FALSE
  BY <1>1, <1>2, <1>4 DEF when_ready, push, write_byte, load_ready, remove, off_the_worker, run, notify_one,
                          load_done, Calls
<1>5. ASSUME NEW t \in Tasks, wake_caller(t) \/ wake_fiber(t) \/ cancel(t) \/ sleep_ends_early(t)
      PROVE  pc' = pc /\ todo' = todo
  BY <1>3, <1>5 DEF wake_caller, wake_fiber, cancel, sleep_ends_early
<1>6. ASSUME NEW t \in Tasks, call_ends(t)
      PROVE  pc' = pc /\ todo' = todo
  BY <1>6 DEF call_ends
<1>7. CASE \/ read_list \/ poll \/ poll_interrupted \/ drain \/ retain \/ wakes_ended
           \/ serve("looks") \/ serve("notified") \/ wait_ends \/ leave_call
           \/ \E s \in Sockets : becomes_ready(s)
  BY <1>7 DEF read_list, poll, poll_interrupted, drain, retain, wakes_ended, serve, wait_ends, leave_call,
              becomes_ready, task
<1> QED BY <1>4, <1>5, <1>6, <1>7 DEF Program

\* PROGRESS only goes up in the program.
LEMMA ProgressStays ==
  ASSUME IInv, Program, progressed
  PROVE  progressed'
<1>1. ASSUME NEW t \in Tasks, EndSleep(t)
      PROVE  progressed'
  BY <1>1, EndSleepIs DEF IInv
<1> QED BY <1>1 DEF Program, when_ready, push, write_byte, load_ready, remove, wake_caller, off_the_worker, run,
                    notify_one, load_done, call_ends, wake_fiber, cancel, sleep_ends_early, read_list, poll,
                    poll_interrupted, drain, retain, wakes_ended, serve, wait_ends, leave_call, becomes_ready

\* The program keeps what the watcher knows.
LEMMA ProgramKeepsWatch ==
  ASSUME IoAssumption, IInv, Program, UNCHANGED watcher, ~reported
  PROVE  WatchInv'
<1> SUFFICES ASSUME ~progressed'
             PROVE  WatchInv'
  BY DEF WatchInv
<1>0. UNCHANGED <<wpc, wseen, wsame, reported>>
  BY DEF watcher
<1>1. ~progressed /\ WatchInv
  BY ProgressStays DEF IInv
<1>2. ASSUME AllSleep
      PROVE  pc' = pc /\ AllSleep' /\ (NoneParked => NoneParked')
  BY <1>2, AsleepStay DEF AllSleep, NoneParked, Sleeps
<1>3. ASSUME AllSleep, NoneParked, AllLeft
      PROVE  AllLeft'
  <2>1. pc' = pc
    BY <1>2, <1>3
  <2>2. left # {}
    BY <1>3 DEF AllSleep, NoneParked, AllLeft, Sleeps
  <2>3. ppc = "wake"
    BY <2>2, LeftIsCounted
  <2>4. ASSUME NEW t \in Tasks, wake_caller(t)
        PROVE  AllLeft'
    <3>1. pc'[t] # "asleep" /\ left' = left \ {t}
      BY <2>4, EndSleepIs DEF wake_caller, Sleeps, IInv
    <3> QED BY <1>3, <2>1, <3>1 DEF AllLeft
  <2>5. CASE left' = left
    BY <1>3, <2>1, <2>5 DEF AllLeft
  <2>6. ~retain
    BY <2>3 DEF retain
  <2> QED BY <2>4, <2>5, <2>6 DEF Program, when_ready, push, write_byte, load_ready, remove, off_the_worker,
                                  run, notify_one, load_done, call_ends, wake_fiber, cancel, sleep_ends_early,
                                  read_list, poll, poll_interrupted, drain, wakes_ended, serve, wait_ends,
                                  leave_call, becomes_ready, poller
<1> QED BY <1>0, <1>1, <1>2, <1>3 DEF WatchInv

\* The steps of the watcher.
LEMMA WatchesKeepWatch ==
  ASSUME IoAssumption, IInv, Watches, ~reported
  PROVE  WatchInv'
<1>0. /\ WatchInv /\ ListInv /\ PollInv /\ WAKING \in Nat /\ BUSY \in Nat /\ left \subseteq Tasks
      /\ progressed \in BOOLEAN /\ wseen \in BOOLEAN /\ wsame \in BOOLEAN
  BY DEF IInv, Types
<1>1. UNCHANGED <<pc, todo, left>>
  BY DEF Watches, tick, stuck, load_BUSY, load_WAKING, look_at_list, Look, task, poller
<1>2. AllSleep' = AllSleep /\ NoneParked' = NoneParked /\ AllLeft' = AllLeft
  BY <1>1 DEF AllSleep, NoneParked, AllLeft, Sleeps
<1>3. BUSY = 0 => NoneParked
  <2>1. ASSUME NEW t \in Tasks, pc[t] = "parked" PROVE BUSY > 0
    BY <2>1, ParkedIsBusy
  <2>2. BUSY = 0 => ~(BUSY > 0)
    BY SMT
  <2> QED BY <2>1, <2>2 DEF NoneParked
<1>4. ~(AllSleep /\ NoneParked /\ AllLeft /\ WAKING = 0)
  <2> SUFFICES ASSUME AllSleep, NoneParked, AllLeft
               PROVE  WAKING > 0
    BY SMT, <1>0
  <2>1. left # {}
    BY DEF AllSleep, NoneParked, AllLeft, Sleeps
  <2> QED BY <2>1, LeftIsCounted
<1>5. waiting = {} => AllLeft
  BY <1>0 DEF AllLeft, ListInv, PollInv, Entered
<1>6. CASE tick
  BY <1>0, <1>2, <1>6 DEF WatchInv, tick
<1>7. CASE stuck
  BY <1>0, <1>2, <1>7 DEF WatchInv, stuck, Look
<1>8. CASE load_BUSY
  BY <1>0, <1>2, <1>3, <1>8 DEF WatchInv, load_BUSY, Look
<1>9. CASE load_WAKING
  BY <1>0, <1>2, <1>4, <1>9 DEF WatchInv, load_WAKING, Look
<1>10. CASE look_at_list
  BY <1>0, <1>2, <1>5, <1>10 DEF WatchInv, look_at_list
<1> QED BY <1>6, <1>7, <1>8, <1>9, <1>10 DEF Watches

-----------------------------------------------------------------------------
\* The theorems

\* The first state has the invariant.
LEMMA InitIInv == IoAssumption /\ Init => IInv
<1> SUFFICES ASSUME IoAssumption, Init
             PROVE  IInv
  OBVIOUS
<1>1. Types
  <2>1. helpers \in [looks : Nat, waits : Nat, notified : Nat, leaves : Nat]
    BY DEF Init
  <2>2. todo \in [Tasks -> Seq({"socket", "file"})]
    BY DEF Init, IoAssumption
  <2>3. pc \in [Tasks -> Places] /\ word \in [Tasks -> {0, 1}]
    BY DEF Init, Places
  <2>4. queue \in Seq(Tasks) /\ IsFiniteSet(stored)
    BY SMT, FS_EmptySet DEF Init
  <2> QED BY <2>1, <2>2, <2>3, <2>4 DEF Init, Types
<1>2. Running = {} /\ Notifying = {} /\ Helped = {} /\ Cardinality({}) = 0
  BY SMT, FS_EmptySet DEF Init, Running, Notifying, Helped, Range
<1>3. FrameInv /\ ListInv /\ HelpInv /\ StoredInv /\ PollInv
  <2>1. \A t \in Tasks : pc[t] = "idle"
    BY DEF Init
  <2>2. FrameInv /\ ListInv
    BY <2>1 DEF Init, FrameInv, ListInv, Entered
  <2>3. HelpInv /\ StoredInv
    BY SMT, <1>2, <2>1 DEF Init, HelpInv, StoredInv, Handed
  <2>4. PollInv
    BY <2>1 DEF Init, PollInv, Entered
  <2> QED BY <2>2, <2>3, <2>4
<1>4. CountInv /\ ServeInv
  BY SMT, <1>2 DEF Init, CountInv, ServeInv, Coming
<1>5. WatchInv
  BY DEF Init, WatchInv
<1> QED BY <1>1, <1>3, <1>4, <1>5 DEF IInv

\* Every step keeps the invariant.
LEMMA NextIInv ==
  ASSUME IoAssumption, IInv, [Next]_vars
  PROVE  IInv'
<1>1. WatchInv'
  <2>1. CASE UNCHANGED vars
    BY <2>1 DEF IInv, WatchInv, vars, task, poller, helping, watcher, AllSleep, NoneParked, AllLeft, Sleeps
  <2> QED BY <2>1, ProgramKeepsWatch, WatchesKeepWatch DEF Next
<1> QED BY <1>1, TypesStep, WordsStep, PollStep, CountStep DEF IInv

\* The invariant is true in every state.
LEMMA Inductive == Spec => []IInv
<1>1. Init => IInv
  BY IoAssumption, InitIInv
<1>2. IInv /\ [Next]_vars => IInv'
  BY IoAssumption, NextIInv
<1> QED BY <1>1, <1>2, PTL DEF Spec

\* The store to a caller's word meets the call it is for: `run` of io.rs stores under the
\* lock of the list, and a fiber does not leave `off_the_worker` before its helper stored.
THEOREM StoresMeetTheirCalls == Spec => []WordsOutliveTheirStores
<1>1. IInv => WordsOutliveTheirStores
  <2> SUFFICES ASSUME IInv
               PROVE  WordsOutliveTheirStores
    OBVIOUS
  <2>1. \A t \in waiting : pc[t] \in WaitFrame /\ word[t] = 0
    BY DEF IInv, Types, ListInv, Entered, WaitFrame
  <2>2. runs \cup Range(queue) \subseteq Tasks
    BY SMT DEF IInv, Types, Range
  <2>3. \A t \in runs \cup Range(queue) : pc[t] \in CallFrame /\ word[t] = 0
    BY <2>2 DEF IInv, HelpInv, Helped, Handed, CallFrame
  <2> QED BY <2>1, <2>3 DEF WordsOutliveTheirStores
<1> QED BY <1>1, Inductive, PTL

\* Every sleeper is served, whatever the poller, the helpers and a cancel do at once: a
\* wait for a socket by the poller, one for a file by a helper that is there or comes.
THEOREM SleepersAreServed == Spec => []EachSleeperIsServed
<1>1. ASSUME IoAssumption, IInv
      PROVE  EachSleeperIsServed
  <2>0. Types /\ ListInv /\ PollInv /\ ServeInv
    BY <1>1 DEF IInv
  <2>n. Numeric
    BY <1>1, <2>0, Numbers
  <2>1. ASSUME NEW t \in Tasks, pc[t] = "asleep"
        PROVE  \/ t \in waiting /\ (ppc = "poll" => pipe \/ t \in words)
               \/ t \in left /\ WAKING > 0
    <3>1. CASE word[t] = 0
      BY <2>0, <2>1, <3>1 DEF ListInv, PollInv, Entered
    <3>2. CASE word[t] # 0
      <4>1. t \in left
        BY <2>0, <2>1, <3>2 DEF PollInv
      <4> QED BY <1>1, <4>1, LeftIsCounted
    <3> QED BY <3>1, <3>2
  <2>2. ASSUME NEW t \in Tasks, pc[t] = "parked"
        PROVE  BUSY > 0 /\ (t \in runs \cup Range(queue) \/ \E c \in stored : c[1] = t)
    BY <1>1, <2>2, ParkedIsBusy
  <2>3. Len(queue) <= Coming + Min({helpers.waits, Cardinality(Notifying)})
    <3>1. PICK w, n \in Nat : w = helpers.waits /\ n = Cardinality(Notifying)
      BY <2>n DEF Numeric
    <3>2. (w <= n => Min({w, n}) = w) /\ (n <= w => Min({w, n}) = n)
      BY SMT DEF Min
    <3> QED BY <2>0, <3>1, <3>2 DEF ServeInv
  <2> QED BY <2>1, <2>2, <2>3 DEF EachSleeperIsServed, Coming, Notifying
<1> QED BY <1>1, IoAssumption, Inductive, PTL

\* A wait for a socket or a file is not reported as a deadlock, although `pending` reads
\* BUSY, WAKING and the list one after the other.
THEOREM IoIsPending == Spec => []WaitsForIoArePending
<1>1. IInv => WaitsForIoArePending
  BY DEF IInv, WatchInv, WaitsForIoArePending
<1> QED BY <1>1, Inductive, PTL
=============================================================================
