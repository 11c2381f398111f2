------------------------------ MODULE WaitWord ------------------------------
(***************************************************************************)
(* What vx_wait_while and vx_wake_all promise to the code that calls them  *)
(* (a lock, a channel, a join): a sleep on a word starts only while the    *)
(* word has the old value, and the wake after the store ends every sleep   *)
(* on it.  A sleep can also end early.                                     *)
(***************************************************************************)
EXTENDS Naturals

CONSTANTS Callers, AllWords

VARIABLES
  value,     \* 0, and 1 after the store
  asleep,    \* the callers in a sleep, with their word
  pending    \* the words with a store whose wake did not come yet

waitVars == <<value, asleep, pending>>

WaitInit ==
  /\ value = [w \in AllWords |-> 0]
  /\ asleep = {} /\ pending = {}

Store(w) ==
  /\ value' = [value EXCEPT ![w] = 1]
  /\ pending' = pending \cup {w}
  /\ UNCHANGED asleep

Sleep(a, w) ==
  /\ value[w] = 0
  /\ asleep' = asleep \cup {<<a, w>>}
  /\ UNCHANGED <<value, pending>>

Early ==
  /\ asleep' \subseteq asleep
  /\ UNCHANGED <<value, pending>>

WakeAll(w) ==
  /\ w \in pending /\ pending' = pending \ {w}
  /\ asleep' \subseteq {e \in asleep : e[2] # w}
  /\ UNCHANGED value

WaitNext ==
  \/ Early
  \/ \E w \in AllWords : Store(w) \/ WakeAll(w) \/ \E a \in Callers : Sleep(a, w)

WaitSpec == WaitInit /\ [][WaitNext]_waitVars
=============================================================================
