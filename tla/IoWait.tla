------------------------------- MODULE IoWait -------------------------------
(***************************************************************************)
(* Waits for sockets and files (src/stdlib/rust_core/src/ffi/io.rs), with  *)
(* what the deadlock watcher reads of them.  A caller of `when_ready` puts *)
(* the address of a word of its own stack on the poller's list.  A fiber   *)
(* gives a file call to a helper thread, with the address of such a word.  *)
(* The next call of a task has its word at the same address.  The wait     *)
(* table is taken by its promise, WaitWord, and may end a wait early.      *)
(*                                                                         *)
(* Helper threads are alike, so the state is how many are at each place,   *)
(* and which calls they are in.  A call of a task is named by the calls    *)
(* the task has left to make.                                              *)
(* What a call reads or writes is left out, and its errors with it.        *)
(***************************************************************************)
EXTENDS Integers, Sequences, FiniteSetsExt, Functions

CONSTANTS
  Tasks,      \* the fibers that wait
  Sockets, On,  \* the sockets, and the one each task uses
  Cancels,    \* the tasks whose block can be cancelled
  Programs    \* the calls of each task, "socket" or "file", in order

ASSUME IoAssumption ==
  /\ IsFiniteSet(Tasks) /\ On \in [Tasks -> Sockets] /\ Cancels \subseteq Tasks
  /\ \A p \in Programs : p \in [Tasks -> Seq({"socket", "file"})]

VARIABLES
  pc, word,     \* the place of each task, and the word of its call
  todo, cancelled, ready,         \* the calls to make; cancelled tasks; ready sockets
  waiting, pipe,                  \* the poller's list, and whether its pipe has a byte
  ppc, words, left, WAKING,       \* the poller's place and locals
  queue, idle, BUSY,              \* the calls with no helper yet, and the counts
  helpers, runs, stored,          \* the helpers at each place; the tasks whose calls run; the calls done
  progressed,                     \* PROGRESS went up since the watcher read it
  wpc, wseen, wsame, reported     \* the watcher, as in DeadlockWatcher

task == <<pc, word, todo, cancelled, ready>>
poller == <<waiting, pipe, ppc, words, left, WAKING>>
helping == <<queue, idle, BUSY, helpers, runs, stored>>
watcher == <<wpc, wseen, wsame, reported>>
vars == <<task, poller, helping, progressed, watcher>>

Init ==
  /\ pc = [t \in Tasks |-> "idle"] /\ word = [t \in Tasks |-> 0]
  /\ todo \in Programs /\ cancelled = {} /\ ready = {}
  /\ waiting = {} /\ pipe = FALSE /\ ppc = "list" /\ words = {} /\ left = {} /\ WAKING = 0
  /\ queue = <<>> /\ idle = 0 /\ BUSY = 0
  /\ helpers = [looks |-> 0, waits |-> 0, notified |-> 0, leaves |-> 0]
  /\ runs = {} /\ stored = {}
  /\ progressed = FALSE /\ wpc = "sleep" /\ wseen = FALSE /\ wsame = FALSE /\ reported = FALSE

Goto(t, to) == pc' = [pc EXCEPT ![t] = to]
Sleeps(t) == pc[t] \in {"asleep", "parked"}

\* The end of a sleep of t, if it sleeps.
EndSleep(t) ==
  /\ Goto(t, CASE pc[t] = "asleep" -> "load" [] pc[t] = "parked" -> "done" [] OTHER -> pc[t])
  /\ progressed' = (progressed \/ Sleeps(t))

-----------------------------------------------------------------------------
\* when_ready and wait_ready, with Poller::add and Poller::remove

Calls(t, kind) == pc[t] = "idle" /\ todo[t] # <<>> /\ Head(todo[t]) = kind
CallEnds(t) == Goto(t, "idle") /\ todo' = [todo EXCEPT ![t] = Tail(@)]

when_ready(t) ==
  /\ Calls(t, "socket")
  /\ \/ On[t] \in ready /\ ready' = ready \ {On[t]} /\ CallEnds(t) /\ UNCHANGED word
     \/ /\ On[t] \notin ready /\ word' = [word EXCEPT ![t] = 0] /\ Goto(t, "push")
        /\ UNCHANGED <<ready, todo>>
  /\ UNCHANGED <<cancelled, poller, helping, progressed>>

push(t) ==
  /\ pc[t] = "push" /\ Goto(t, "byte")
  /\ waiting' = waiting \cup {t}
  /\ UNCHANGED <<word, todo, cancelled, ready, pipe, ppc, words, left, WAKING, helping, progressed>>

write_byte(t) ==
  /\ pc[t] = "byte" /\ Goto(t, "load")
  /\ pipe' = TRUE
  /\ UNCHANGED <<word, todo, cancelled, ready, waiting, ppc, words, left, WAKING, helping, progressed>>

\* The loop of wait_ready: the next try of the call, or a cancel, or a wait for either.
load_ready(t) ==
  /\ pc[t] = "load"
  /\ Goto(t, IF word[t] # 0 THEN "idle" ELSE IF t \in cancelled THEN "remove" ELSE "asleep")
  /\ UNCHANGED <<word, todo, cancelled, ready, poller, helping, progressed>>

remove(t) ==
  /\ pc[t] = "remove"
  /\ waiting' = waiting \ {t}
  /\ \/ t \in waiting /\ CallEnds(t)
     \/ t \notin waiting /\ Goto(t, "load") /\ UNCHANGED todo
  /\ UNCHANGED <<word, cancelled, ready, pipe, ppc, words, left, WAKING, helping, progressed>>

-----------------------------------------------------------------------------
\* The poller's loop, `run`

read_list ==
  /\ ppc = "list" /\ ppc' = "poll"
  /\ words' = waiting
  /\ UNCHANGED <<task, waiting, pipe, left, WAKING, helping, progressed>>

Fired == {t \in words : On[t] \in ready}

poll ==
  /\ ppc = "poll" /\ (pipe \/ Fired # {})
  /\ words' = Fired
  /\ ppc' = IF pipe THEN "drain" ELSE "retain"
  /\ UNCHANGED <<task, waiting, pipe, left, WAKING, helping, progressed>>

poll_interrupted ==
  /\ ppc = "poll" /\ ppc' = "list"
  /\ UNCHANGED <<task, waiting, pipe, words, left, WAKING, helping, progressed>>

drain ==
  /\ ppc = "drain" /\ ppc' = IF words = {} THEN "list" ELSE "retain"
  /\ pipe' = FALSE
  /\ UNCHANGED <<task, waiting, words, left, WAKING, helping, progressed>>

\* Under the lock of the list.
StillListed_mutant == words
StillListed == words \cap waiting

Counted_mutant == 0
Counted == Cardinality(StillListed)

retain ==
  /\ ppc = "retain" /\ ppc' = "wake"
  /\ words' = StillListed /\ left' = StillListed
  /\ word' = [t \in Tasks |-> IF t \in StillListed THEN 1 ELSE word[t]]
  /\ waiting' = waiting \ words
  /\ WAKING' = WAKING + Counted
  /\ UNCHANGED <<pc, todo, cancelled, ready, pipe, helping, progressed>>

wake_caller(t) ==
  /\ ppc = "wake" /\ t \in left
  /\ left' = left \ {t} /\ EndSleep(t)
  /\ UNCHANGED <<word, todo, cancelled, ready, waiting, pipe, ppc, words, WAKING, helping>>

wakes_ended ==
  /\ ppc = "wake" /\ left = {} /\ ppc' = "list"
  /\ WAKING' = WAKING - Cardinality(words)
  /\ UNCHANGED <<task, waiting, pipe, words, left, helping, progressed>>

-----------------------------------------------------------------------------
\* off_the_worker, and the helpers

off_the_worker(t) ==
  /\ Calls(t, "file") /\ Goto(t, "run")
  /\ word' = [word EXCEPT ![t] = 0]
  /\ BUSY' = BUSY + 1
  /\ UNCHANGED <<todo, cancelled, ready, poller, queue, idle, helpers, runs, stored, progressed>>

NeedsAThread_mutant == idle = 0
NeedsAThread == Len(queue) + 1 > idle

run(t) ==
  /\ pc[t] = "run" /\ Goto(t, "notify")
  /\ queue' = Append(queue, t)
  /\ helpers' = IF NeedsAThread THEN [helpers EXCEPT !.looks = @ + 1] ELSE helpers
  /\ UNCHANGED <<word, todo, cancelled, ready, poller, idle, BUSY, runs, stored, progressed>>

Notified == IF helpers.waits > 0 THEN [helpers EXCEPT !.waits = @ - 1, !.notified = @ + 1] ELSE helpers

notify_one(t) ==
  /\ pc[t] = "notify" /\ Goto(t, "done")
  /\ helpers' = Notified
  /\ UNCHANGED <<word, todo, cancelled, ready, poller, queue, idle, BUSY, runs, stored, progressed>>

load_done(t) ==
  /\ pc[t] = "done"
  /\ \/ word[t] # 0 /\ CallEnds(t)
     \/ word[t] = 0 /\ Goto(t, "parked") /\ UNCHANGED todo
  /\ UNCHANGED <<word, cancelled, ready, poller, helping, progressed>>

\* Condvar::wait may end with no notify.
wait_ends ==
  /\ helpers.waits > 0 /\ helpers' = Notified
  /\ UNCHANGED <<task, poller, queue, idle, BUSY, runs, stored, progressed>>

\* serve, with the lock: a call, or a wait for one.
serve(from) ==
  /\ helpers[from] > 0
  /\ LET others == [helpers EXCEPT ![from] = @ - 1]
         counted == IF from = "notified" THEN idle - 1 ELSE idle
     IN  \/ /\ queue # <<>>
            /\ runs' = runs \cup {Head(queue)} /\ queue' = Tail(queue)
            /\ helpers' = others /\ idle' = counted
         \/ /\ queue = <<>> /\ UNCHANGED <<runs, queue>>
            /\ helpers' = [others EXCEPT !.waits = @ + 1] /\ idle' = counted + 1
  /\ UNCHANGED <<task, poller, BUSY, stored, progressed>>

call_ends(t) ==
  /\ t \in runs
  /\ runs' = runs \ {t} /\ stored' = stored \cup {<<t, Len(todo[t])>>}
  /\ word' = [word EXCEPT ![t] = 1]
  /\ UNCHANGED <<pc, todo, cancelled, ready, poller, queue, idle, BUSY, helpers, progressed>>

wake_fiber(t) ==
  /\ \E c \in stored : c[1] = t /\ stored' = stored \ {c}
  /\ EndSleep(t)
  /\ helpers' = [helpers EXCEPT !.leaves = @ + 1]
  /\ UNCHANGED <<word, todo, cancelled, ready, poller, queue, idle, BUSY, runs>>

leave_call ==
  /\ helpers.leaves > 0
  /\ helpers' = [helpers EXCEPT !.leaves = @ - 1, !.looks = @ + 1]
  /\ BUSY' = BUSY - 1
  /\ UNCHANGED <<task, poller, queue, idle, runs, stored, progressed>>

-----------------------------------------------------------------------------
\* What comes from outside

becomes_ready(s) ==
  /\ s \notin ready /\ ready' = ready \cup {s}
  /\ UNCHANGED <<pc, word, todo, cancelled, poller, helping, progressed>>

cancel(t) ==
  /\ t \in Cancels \ cancelled /\ cancelled' = cancelled \cup {t}
  /\ IF pc[t] = "asleep" THEN EndSleep(t) ELSE UNCHANGED <<pc, progressed>>
  /\ UNCHANGED <<word, todo, ready, poller, helping>>

sleep_ends_early(t) ==
  /\ Sleeps(t) /\ EndSleep(t)
  /\ UNCHANGED <<word, todo, cancelled, ready, poller, helping>>

-----------------------------------------------------------------------------
\* The watcher: `stuck` of wait.rs, which ends with `pending`.  Its other loads are one
\* step here: DeadlockWatcher has them one by one.

Look(from, to, stuck) ==
  /\ wpc = from
  /\ IF stuck THEN wpc' = to /\ UNCHANGED wseen ELSE wpc' = "sleep" /\ wseen' = FALSE
  /\ UNCHANGED <<task, poller, helping, progressed, wsame, reported>>

tick ==
  /\ wpc = "sleep" /\ wpc' = "tasks"
  /\ wsame' = ~progressed /\ progressed' = FALSE
  /\ UNCHANGED <<task, poller, helping, wseen, reported>>

AllSleep == (\A t \in Tasks : Sleeps(t) \/ todo[t] = <<>>) /\ \E t \in Tasks : Sleeps(t)

stuck == Look("tasks", "BUSY", AllSleep)
load_BUSY == Look("BUSY", "WAKING", BUSY = 0)
load_WAKING == Look("WAKING", "waiting", WAKING = 0)

look_at_list ==
  /\ wpc = "waiting" /\ wpc' = "sleep"
  /\ wseen' = (waiting = {})
  /\ reported' = (waiting = {} /\ wseen /\ wsame)
  /\ UNCHANGED <<task, poller, helping, progressed, wsame>>

-----------------------------------------------------------------------------
Program ==
  \/ \E t \in Tasks :
       \/ when_ready(t) \/ push(t) \/ write_byte(t) \/ load_ready(t) \/ remove(t) \/ wake_caller(t)
       \/ off_the_worker(t) \/ run(t) \/ notify_one(t) \/ load_done(t) \/ call_ends(t) \/ wake_fiber(t)
       \/ cancel(t) \/ sleep_ends_early(t)
  \/ read_list \/ poll \/ poll_interrupted \/ drain \/ retain \/ wakes_ended
  \/ serve("looks") \/ serve("notified") \/ wait_ends \/ leave_call
  \/ \E s \in Sockets : becomes_ready(s)

Watches == tick \/ stuck \/ load_BUSY \/ load_WAKING \/ look_at_list

Next ==
  \/ ~reported /\ Program /\ UNCHANGED watcher
  \/ ~reported /\ Watches
  \/ reported /\ UNCHANGED vars

Spec == Init /\ [][Next]_vars

-----------------------------------------------------------------------------
WaitFrame == {"push", "byte", "load", "remove", "asleep"}
CallFrame == {"run", "notify", "done", "parked"}

\* Whoever will store to a task's word finds the call it belongs to: an entry on the list
\* is of a wait that goes on and has not ended, and a call that no helper finished is of a
\* fiber that still waits for it, never of the next call with its word at that address.
WordsOutliveTheirStores ==
  /\ \A t \in waiting : pc[t] \in WaitFrame /\ word[t] = 0
  /\ \A t \in runs \cup Range(queue) : pc[t] \in CallFrame /\ word[t] = 0

\* Every sleeper is served.  One that waits for a socket is in the poller's poll, or the
\* poller will read the list again; or WAKING counts its wake.  BUSY counts the call of one
\* that is parked.  Each call in the queue has a thread that will look there without the
\* end of another call, or a notify for one that waits.
EachSleeperIsServed ==
  /\ \A t \in Tasks :
       /\ pc[t] = "asleep" =>
            \/ t \in waiting /\ (ppc = "poll" => pipe \/ t \in words)
            \/ t \in left /\ WAKING > 0
       /\ pc[t] = "parked" => BUSY > 0 /\ (t \in runs \cup Range(queue) \/ \E c \in stored : c[1] = t)
  /\ LET notifies == Cardinality({t \in Tasks : pc[t] = "notify"})
         coming == helpers.looks + helpers.notified + helpers.leaves + Cardinality(stored)
     IN  Len(queue) <= coming + Min({helpers.waits, notifies})

\* The watcher reports no program in which a task waits for a socket or a file, although
\* `pending` reads three places while the poller moves an entry from one to another; at
\* least while no PROGRESS came between the second tick's load of it and the report.
WaitsForIoArePending == reported => progressed
=============================================================================
