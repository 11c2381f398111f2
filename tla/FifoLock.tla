------------------------------ MODULE FifoLock ------------------------------
(***************************************************************************)
(* What std::sync::Mutex promises: one task at a time holds the lock, and  *)
(* the tasks get it in the order of their lock calls.                      *)
(***************************************************************************)
EXTENDS Naturals, Sequences

CONSTANT Tasks

VARIABLES
  queue,    \* the tasks that asked for the lock and did not release it, in order
  held      \* whether the first of them has the lock

fifoVars == <<queue, held>>

FifoInit == queue = <<>> /\ held = FALSE

Ask(t) ==
  /\ \A i \in 1..Len(queue) : queue[i] # t
  /\ queue' = Append(queue, t)
  /\ UNCHANGED held

Grant ==
  /\ queue # <<>> /\ ~held
  /\ held' = TRUE
  /\ UNCHANGED queue

Release ==
  /\ held
  /\ held' = FALSE
  /\ queue' = Tail(queue)

FifoNext == (\E t \in Tasks : Ask(t)) \/ Grant \/ Release

FifoSpec == FifoInit /\ [][FifoNext]_fifoVars
=============================================================================
