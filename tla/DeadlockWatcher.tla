-------------------------- MODULE DeadlockWatcher ---------------------------
(***************************************************************************)
(* The runtime with its deadlock watcher (mod deadlock of                  *)
(* src/stdlib/rust_core/src/ffi/wait.rs).  On each tick the watcher reads  *)
(* PROGRESS, and then the parts of `stuck`, one after the other, while the *)
(* program runs on.  Two ticks in a row that saw a stuck program and the   *)
(* same PROGRESS make the report, and the program stops.                   *)
(*                                                                         *)
(* PROGRESS is only compared with its last value, so the model keeps       *)
(* whether it went up since the watcher read it.  No wait for a socket is  *)
(* in this module, so io::pending is false.                                *)
(***************************************************************************)
EXTENDS TaskRuntime

VARIABLES
  wpc,        \* the watcher's place in its loop
  wseen,      \* `seen` is Some: the last tick saw a stuck program
  wsame,      \* PROGRESS was the same at this tick and the last one
  wwaiting,   \* what it loaded from WAITING
  reported    \* the program stopped with the report

watchVars == <<wpc, wseen, wsame, wwaiting, reported>>
allVars == <<vars, watchVars>>

WatchInit ==
  /\ Init
  /\ wpc = "sleep" /\ wseen = FALSE /\ wsame = FALSE /\ wwaiting = 0 /\ reported = FALSE

\* A tick begins with the load of PROGRESS.
tick ==
  /\ wpc = "sleep" /\ watching
  /\ wsame' = ~progressed
  /\ progressed' = FALSE
  /\ wpc' = "all_parked"
  /\ UNCHANGED <<wseen, wwaiting, reported>>
  /\ UNCHANGED <<progVars, tableVars, waking, timerVars, schedVars, THREADS, WAITING, watching>>

NotStuck == wpc' = "sleep" /\ wseen' = FALSE

\* Under the lock of the queue.  The code loads `running` and then `blocked`.  In
\* between no fiber starts to run, so equal loads mean that both were equal at the second.
all_parked ==
  /\ wpc = "all_parked"
  /\ \/ ready = <<>> /\ running = blocked /\ wpc' = "waiting" /\ UNCHANGED wseen
     \/ ~(ready = <<>> /\ running = blocked) /\ NotStuck
  /\ UNCHANGED <<wsame, wwaiting, reported, vars>>

load_waiting ==
  /\ wpc = "waiting"
  /\ wwaiting' = WAITING
  /\ wpc' = "threads"
  /\ UNCHANGED <<wseen, wsame, reported, vars>>

load_threads ==
  /\ wpc = "threads"
  /\ \/ wwaiting = THREADS /\ wpc' = "timer" /\ UNCHANGED wseen
     \/ wwaiting # THREADS /\ NotStuck
  /\ UNCHANGED <<wsame, wwaiting, reported, vars>>

timer_pending_mutant == heap # {}
timer_pending == heap # {} \/ firing

\* `now == seen`: the last tick was stuck too, with the same PROGRESS.
SeenBefore_mutant == wseen
SeenBefore == wseen /\ wsame

look_at_timer ==
  /\ wpc = "timer"
  /\ \/ timer_pending /\ NotStuck /\ UNCHANGED reported
     \/ /\ ~timer_pending
        /\ wpc' = "sleep" /\ wseen' = TRUE
        /\ reported' = SeenBefore
  /\ UNCHANGED <<wsame, wwaiting, vars>>

Watch == tick \/ all_parked \/ load_waiting \/ load_threads \/ look_at_timer

Stopped == reported /\ UNCHANGED allVars

WatchNext ==
  \/ ~reported /\ Next /\ UNCHANGED watchVars
  \/ ~reported /\ Watch
  \/ Stopped

WatchSpec == WatchInit /\ [][WatchNext]_allVars

\* The OS runs the watcher.
FairWatchSpec == WatchSpec /\ WF_allVars(~reported /\ Watch)

-----------------------------------------------------------------------------
\* No actor can go on: each is not started, over, or in a wait with no deadline
\* that is not satisfied, so no one is left to satisfy it.
Stuck ==
  \A a \in Actors : pc[a] \in {"new", "ended"} \/ (Awaits(a) /\ ~Call(a).timed /\ ~Satisfied(a))

\* Each of them is asleep, and no worker, timer or waker is at work.
AtRest ==
  /\ \A a \in Actors : pc[a] \in {"new", "ended", "parked"} \/ (pc[a] = "sleep" /\ ~woke[a])
  /\ \A w \in Workers : cur[w] # "leaving" /\ (cur[w] \in Fibers => pc[cur[w]] = "sleep")
  /\ ready = <<>> /\ heap = {} /\ ~firing

\* A report is about a program that can not go on
\* (docs/discussions/progress_model_across_nodes.md: "F9: the runtime reports a
\* deadlock only when no task can ever continue").
NoFalseReport == reported => Stuck

\* A report is about a program that can not go on, when no PROGRESS came between
\* the second tick's load of it and the report.
TrueReportWithoutProgress == reported /\ ~progressed => Stuck

\* A program that can not go on, and stays at rest, gets its report.
DeadlockIsReported == []<>(reported \/ ~(Stuck /\ AtRest))
=============================================================================
