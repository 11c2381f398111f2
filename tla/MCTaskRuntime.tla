--------------------------- MODULE MCTaskRuntime ----------------------------
(***************************************************************************)
(* Programs for the runtime, each with two words in two buckets or in one. *)
(***************************************************************************)
EXTENDS TaskRuntime, TLC

CONSTANTS t1, t2, o1, o2, main, x, y

Wait(w)    == [op |-> "await", on |-> w, timed |-> FALSE, or_cancel |-> FALSE]
WaitC(w)   == [op |-> "await", on |-> w, timed |-> FALSE, or_cancel |-> TRUE]
WaitT(w)   == [op |-> "await", on |-> w, timed |-> TRUE, or_cancel |-> FALSE]
Signal(w)  == [op |-> "signal", on |-> w]
Spawn(f)   == [op |-> "spawn", on |-> f]
Free(f)    == [op |-> "free", on |-> f]
Cancel     == [op |-> "cancel"]
Enter      == [op |-> "callback_enter"]
Exit       == [op |-> "callback_exit"]

\* x, y and the done word of the first task share a bucket.
MCBucketOf == [w \in Words |-> IF w \in {t2, o2} THEN 2 ELSE 1]

\* main runs m and two tasks run p and q: fibers, or threads where VX_TASK_RUNTIME is not
\* shared.  The tasks of the other kind are never started.
P(t, m, p, q) ==
  (main :> m) @@ (t[1] :> p) @@ (t[2] :> q) @@ [a \in Actors |-> <<>>]

Spawns(t) == <<Spawn(t[1]), Spawn(t[2])>>
Joins(t)  == <<Wait(t[1]), Wait(t[2])>>
Frees(t)  == <<Free(t[1]), Free(t[2])>>

MCPrograms == UNION {
  { \* a chain of wakes from main through both tasks and back
    P(t, Spawns(t) \o <<Signal(x), Wait(y)>> \o Joins(t) \o Frees(t), <<Wait(x), Signal(y)>>, <<Wait(y)>>),
    \* two signals of one word, and two waiters
    P(t, Spawns(t) \o <<Wait(x)>> \o Joins(t), <<Signal(x)>>, <<Signal(x), Wait(x)>>),
    \* a wait under a callback keeps its worker
    P(t, Spawns(t) \o <<Signal(y)>> \o Joins(t), <<Enter, Wait(x), Exit>>, <<Wait(y), Signal(x)>>),
    \* deadlines of a task and of main
    P(t, <<Spawn(t[1]), WaitT(y), Wait(t[1])>>, <<WaitT(x), Signal(y)>>, <<>>),
    \* deadlines of a task and of a task under a callback
    P(t, Spawns(t) \o <<Wait(t[1])>>, <<WaitT(x), Signal(y)>>, <<Enter, WaitT(y)>>),
    \* a timer that is late for a task that waits again
    P(t, Spawns(t) \o <<Wait(t[1])>>, <<WaitT(x), Wait(y)>>, <<Signal(x), Signal(y)>>),
    \* cancel against waits that see it, and one that does not
    P(t, Spawns(t) \o <<WaitC(x), Cancel, Wait(t[2]), Free(t[2])>>, <<WaitC(x), Wait(y)>>,
      <<Cancel, WaitC(y)>>),
    \* a task starts, joins and frees the other
    P(t, <<Spawn(t[1]), Wait(t[1]), Free(t[1])>>, <<Spawn(t[2]), Wait(t[2]), Free(t[2])>>,
      <<Signal(y)>>) } : t \in {<<t1, t2>>, <<o1, o2>>} }

\* For the liveness run: a worker that a callback keeps while the task that ends the
\* wait is ready, a cancel, and a deadline.
LivePrograms ==
  LET t == <<t1, t2>>
  IN  { P(t, Spawns(t) \o <<Wait(t1)>>, <<Enter, Wait(x)>>, <<Signal(x)>>),
        P(t, <<Spawn(t1), WaitT(y), Cancel, Wait(t1)>>, <<WaitC(x)>>, <<>>),
        P(t, <<Spawn(t1), Wait(t1)>>, <<WaitT(x)>>, <<>>) }
=============================================================================
