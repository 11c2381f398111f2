---------------------------- MODULE TicketMutex -----------------------------
(***************************************************************************)
(* std::sync::Mutex (src/stdlib/std/sync/mutex.vx): a ticket lock whose    *)
(* waiters sleep on the word `serving`.  One action is one atomic access   *)
(* of the code.  A task of the model takes the lock, reads the value,      *)
(* writes it plus one, and drops its guard, any number of times.           *)
(*                                                                         *)
(* vx_wait_while is the promise of src/stdlib/rust_core/src/ffi/wait.rs:   *)
(* the check of the word and the sleep are one step with respect to a      *)
(* wake, and a sleep can end early (module WaitWord).                      *)
(*                                                                         *)
(* A definition X_mutant is a faulty form of X.  No specification uses it: *)
(* it shows that a property notices the fault.                             *)
(***************************************************************************)
EXTENDS Integers, FiniteSets

CONSTANTS
  Tasks,
  MaxTickets    \* bound on the lock calls of a behaviour

ASSUME TicketAssumption == IsFiniteSet(Tasks) /\ MaxTickets \in Nat

VARIABLES
  next, serving, sleepers,   \* the three atomic words of the Mutex
  value,                     \* the value in its cell
  inside,                    \* whether into_inner has not taken the value out
  pc, ticket, now,           \* the task's place in lock or drop, and its locals
  tmp                        \* what the task read through the guard

vars == <<next, serving, sleepers, value, inside, pc, ticket, now, tmp>>

\* The places of a task in Mutex::lock, then with the guard, then in its drop.
Waiting == {"load", "count", "wait", "asleep", "uncount"}
Holding == {"locked", "modify", "unlock"}
Waking  == {"bumped", "wake"}
Places  == {"idle"} \cup Waiting \cup Holding \cup Waking

new ==
  /\ next = 0 /\ serving = 0 /\ sleepers = 0
  /\ value = 0 /\ inside = TRUE
  /\ pc = [t \in Tasks |-> "idle"]
  /\ ticket = [t \in Tasks |-> 0]
  /\ now = [t \in Tasks |-> 0]
  /\ tmp = [t \in Tasks |-> 0]

Goto(t, from, to) == pc[t] = from /\ pc' = [pc EXCEPT ![t] = to]

-----------------------------------------------------------------------------
\* Mutex::lock

TakeTicket(t) ==
  /\ next < MaxTickets /\ inside
  /\ Goto(t, "idle", "load")
  /\ ticket' = [ticket EXCEPT ![t] = next]
  /\ next' = next + 1
  /\ UNCHANGED <<serving, sleepers, value, inside, now, tmp>>

LoadServing_mutant(t) ==
  /\ Goto(t, "load", IF serving + 1 >= ticket[t] THEN "locked" ELSE "count")
  /\ now' = [now EXCEPT ![t] = serving]
  /\ UNCHANGED <<next, serving, sleepers, value, inside, ticket, tmp>>

LoadServing(t) ==
  /\ Goto(t, "load", IF serving = ticket[t] THEN "locked" ELSE "count")
  /\ now' = [now EXCEPT ![t] = serving]
  /\ UNCHANGED <<next, serving, sleepers, value, inside, ticket, tmp>>

CountSleeper(t) ==
  /\ Goto(t, "count", "wait")
  /\ sleepers' = sleepers + 1
  /\ UNCHANGED <<next, serving, value, inside, ticket, now, tmp>>

wait_while_mutant(t) ==
  /\ Goto(t, "wait", "asleep")
  /\ UNCHANGED <<next, serving, sleepers, value, inside, ticket, now, tmp>>

wait_while(t) ==
  /\ Goto(t, "wait", IF serving # now[t] THEN "uncount" ELSE "asleep")
  /\ UNCHANGED <<next, serving, sleepers, value, inside, ticket, now, tmp>>

EarlyReturn(t) ==
  /\ Goto(t, "asleep", "uncount")
  /\ UNCHANGED <<next, serving, sleepers, value, inside, ticket, now, tmp>>

UncountSleeper_mutant(t) ==
  /\ Goto(t, "uncount", "load")
  /\ sleepers' = sleepers - 1
  /\ ticket' = [ticket EXCEPT ![t] = next] /\ next' = next + 1
  /\ UNCHANGED <<serving, value, inside, now, tmp>>

UncountSleeper(t) ==
  /\ Goto(t, "uncount", "load")
  /\ sleepers' = sleepers - 1
  /\ UNCHANGED <<next, serving, value, inside, ticket, now, tmp>>

-----------------------------------------------------------------------------
\* The use of the value through MutexGuard::get

ReadValue(t) ==
  /\ Goto(t, "locked", "modify")
  /\ tmp' = [tmp EXCEPT ![t] = value]
  /\ UNCHANGED <<next, serving, sleepers, value, inside, ticket, now>>

WriteValue(t) ==
  /\ Goto(t, "modify", "unlock")
  /\ value' = tmp[t] + 1
  /\ UNCHANGED <<next, serving, sleepers, inside, ticket, now, tmp>>

-----------------------------------------------------------------------------
\* The drop of the MutexGuard

BumpServing(t) ==
  /\ Goto(t, "unlock", "bumped")
  /\ serving' = serving + 1
  /\ UNCHANGED <<next, sleepers, value, inside, ticket, now, tmp>>

CheckSleepers(t) ==
  /\ Goto(t, "bumped", IF sleepers > 0 THEN "wake" ELSE "idle")
  /\ UNCHANGED <<next, serving, sleepers, value, inside, ticket, now, tmp>>

wake_all(t) ==
  /\ pc[t] = "wake"
  /\ pc' = [u \in Tasks |-> CASE u = t            -> "idle"
                              [] pc[u] = "asleep" -> "uncount"
                              [] OTHER            -> pc[u]]
  /\ UNCHANGED <<next, serving, sleepers, value, inside, ticket, now, tmp>>

-----------------------------------------------------------------------------
\* Mutex::into_inner takes the Mutex by value, so no task is in a call of it.
into_inner ==
  /\ inside /\ \A t \in Tasks : pc[t] = "idle"
  /\ inside' = FALSE
  /\ UNCHANGED <<next, serving, sleepers, value, pc, ticket, now, tmp>>

Finished == ~inside /\ UNCHANGED vars

\* The steps of a task that has begun a call: its thread runs them.
Step(t) ==
  \/ LoadServing(t) \/ CountSleeper(t) \/ wait_while(t) \/ UncountSleeper(t)
  \/ ReadValue(t) \/ WriteValue(t)
  \/ BumpServing(t) \/ CheckSleepers(t) \/ wake_all(t)

Next ==
  \/ \E t \in Tasks : TakeTicket(t) \/ EarlyReturn(t) \/ Step(t)
  \/ into_inner \/ Finished

Spec == new /\ [][Next]_vars

FairSpec == Spec /\ \A t \in Tasks : WF_vars(Step(t))

-----------------------------------------------------------------------------
TypeOK ==
  /\ next \in Nat /\ serving \in Nat /\ sleepers \in Nat /\ value \in Nat
  /\ inside \in BOOLEAN
  /\ pc \in [Tasks -> Places]
  /\ ticket \in [Tasks -> Nat] /\ now \in [Tasks -> Nat] /\ tmp \in [Tasks -> Nat]

\* At most one task holds a guard of the Mutex (mutex.vx: "lets one task at a time use a value").
MutualExclusion ==
  \A t, u \in Tasks : pc[t] \in Holding /\ pc[u] \in Holding => t = u

\* The read-modify-write under the lock loses no update: the value counts the
\* guards dropped so far, and one more between the write and the drop.
NoLostUpdate ==
  value = serving + (IF \E t \in Tasks : pc[t] = "unlock" THEN 1 ELSE 0)

\* A task that sleeps on a value of `serving` that has passed has a wake on its
\* way: an unlock that did not read `sleepers` yet, or read it above 0.
NoLostWake ==
  \A t \in Tasks : pc[t] = "asleep" /\ serving # now[t]
                     => \E u \in Tasks : pc[u] \in Waking

\* The Mutex is a first-come first-served lock.  A task is in the abstract queue
\* from its ticket to the drop of its guard.
Owners(k) == {t \in Tasks : pc[t] \in Waiting \cup Holding /\ ticket[t] = k}
Owner(k) == IF Owners(k) = {} THEN "nobody" ELSE CHOOSE t \in Owners(k) : TRUE
Fifo == INSTANCE FifoLock
  WITH queue <- [i \in 1..(next - serving) |-> Owner(serving + i - 1)],
       held <- \E t \in Tasks : pc[t] \in Holding

FirstComeFirstServed == Fifo!FifoSpec

\* Each lock call gets the lock, when each holder drops its guard.
EachLockIsServed == \A t \in Tasks : pc[t] \in Waiting ~> pc[t] \in Holding
=============================================================================
