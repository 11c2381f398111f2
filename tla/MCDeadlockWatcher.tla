------------------------- MODULE MCDeadlockWatcher --------------------------
(***************************************************************************)
(* Programs for the runtime with its watcher: some end, some deadlock, and *)
(* some deadlock or end by the order of their steps.                       *)
(***************************************************************************)
EXTENDS DeadlockWatcher, TLC

CONSTANTS t1, t2, main, x, y

Wait(w)   == [op |-> "await", on |-> w, timed |-> FALSE, or_cancel |-> FALSE]
WaitT(w)  == [op |-> "await", on |-> w, timed |-> TRUE, or_cancel |-> FALSE]
Signal(w) == [op |-> "signal", on |-> w]
Spawn(t)  == [op |-> "spawn", on |-> t]
Enter     == [op |-> "callback_enter"]

MCBucketOf == (x :> 1) @@ (y :> 2) @@ (t1 :> 1) @@ (t2 :> 2)

P(m, a, b) == (main :> m) @@ (t1 :> a) @@ (t2 :> b)

Both == <<Spawn(t1), Spawn(t2)>>

MCPrograms ==
  { \* main gets t1 ready, and t1 wakes main, which starts t2
    P(<<Spawn(t1), Signal(y), Wait(x), Spawn(t2), Wait(t2)>>, <<Wait(y), Signal(x)>>, <<>>),
    \* each task waits for the other
    P(Both \o <<Wait(t1)>>, <<Wait(y), Signal(x)>>, <<Wait(x), Signal(y)>>),
    \* one wait under a callback that nobody ends
    P(Both \o <<Wait(t1)>>, <<Enter, Wait(y)>>, <<Signal(x)>>),
    \* a deadline ends a wait that looks stuck
    P(Both \o <<Wait(t2)>>, <<WaitT(x), Signal(y)>>, <<Wait(y)>>) }

\* The program of the false report alone.
ReadyAndWait ==
  { P(<<Spawn(t1), Signal(y), Wait(x), Spawn(t2), Wait(t2)>>, <<Wait(y), Signal(x)>>, <<>>) }
=============================================================================
