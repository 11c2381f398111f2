--------------------------------- MODULE Arc --------------------------------
(***************************************************************************)
(* std::sync::Arc (src/stdlib/std/sync/arc.vx): tasks share one value and  *)
(* a count of its owners.  One action is one atomic access of the code.    *)
(* The clones of an Arc are alike, so the state is how many of them are at *)
(* each place of a call.  A borrow of an Arc keeps it where it is, so a    *)
(* task that reads the value is one that holds an Arc.                     *)
(***************************************************************************)
EXTENDS Integers

CONSTANTS
  core_arc_max_count,   \* the limit of clone, 2^62 in the code
  Callers,              \* the number of tasks, each in one call of clone at a time
  MaxClones             \* bound on the clone calls of a behaviour

\* There are far fewer tasks than the limit.
ASSUME ArcAssumption ==
  /\ core_arc_max_count \in Nat /\ Callers \in Nat /\ MaxClones \in Nat
  /\ Callers + 1 < core_arc_max_count

VARIABLES
  count,     \* the AtomicI64 at the start of the block
  at,        \* the number of Arcs at each place
  moved,     \* how often the value was moved out of the block
  outcome,   \* what became of the value
  freed,     \* how often the block was freed
  plain,     \* whether an Arc went away by its drop or by forget
  stopped,   \* whether a clone stopped the program
  clones     \* the clone calls so far

arcVars == <<count, at, moved, outcome, freed, plain, stopped, clones>>

\* checked and over: in a clone, after its fetch_add, with a `before` that is fine or too
\* large.  drop and take: the count went to 0.  dealloc: the value is out of the block.
ArcPlaces == {"held", "checked", "over", "leaked", "drop", "take", "dealloc"}

\* Arc::new
arc_new ==
  /\ count = 1 /\ at = [p \in ArcPlaces |-> IF p = "held" THEN 1 ELSE 0]
  /\ moved = 0 /\ outcome = "in" /\ freed = 0
  /\ plain = FALSE /\ stopped = FALSE /\ clones = 0

\* AtomicI64 wraps: the limit is a quarter of the 2^64 numbers of the count.
Half == 2 * core_arc_max_count
Wrap(n) == IF n >= Half THEN n - 2 * Half ELSE n

Leave(from) == at[from] > 0 /\ at' = [at EXCEPT ![from] = @ - 1]
Move(from, to) == at[from] > 0 /\ at' = [at EXCEPT ![from] = @ - 1, ![to] = @ + 1]

-----------------------------------------------------------------------------
TooMany_mutant == FALSE
TooMany == count > core_arc_max_count

clone ==
  /\ at["held"] > 0 /\ at["checked"] + at["over"] < Callers /\ clones < MaxClones
  /\ at' = [at EXCEPT ![IF TooMany THEN "over" ELSE "checked"] = @ + 1]
  /\ count' = Wrap(count + 1) /\ clones' = clones + 1
  /\ UNCHANGED <<moved, outcome, freed, plain, stopped>>

clone_returns ==
  /\ Move("checked", "held")
  /\ UNCHANGED <<count, moved, outcome, freed, plain, stopped, clones>>

clone_panics ==
  /\ at["over"] > 0 /\ stopped' = TRUE
  /\ UNCHANGED <<count, at, moved, outcome, freed, plain, clones>>

\* The fetch_sub of drop and of into_inner: only the last owner goes on.
GoesOn(to) == IF count = 1 THEN Move("held", to) ELSE Leave("held")

drop ==
  /\ GoesOn("drop")
  /\ count' = count - 1 /\ plain' = TRUE
  /\ UNCHANGED <<moved, outcome, freed, stopped, clones>>

arc_into_inner_mutant ==
  /\ Leave("held")
  /\ count' = count - 1
  /\ UNCHANGED <<moved, outcome, freed, plain, stopped, clones>>
arc_into_inner ==
  /\ GoesOn("take")
  /\ count' = count - 1
  /\ UNCHANGED <<moved, outcome, freed, plain, stopped, clones>>

\* The compare_exchange.  When it fails the caller keeps its Arc and nothing changes.
Only_mutant == count <= 2
Only == count = 1

try_unwrap ==
  /\ Only /\ Move("held", "take")
  /\ count' = 0
  /\ UNCHANGED <<moved, outcome, freed, plain, stopped, clones>>

\* core::mem::forget of an Arc by the program.
forget ==
  /\ Move("held", "leaked") /\ plain' = TRUE
  /\ UNCHANGED <<count, moved, outcome, freed, stopped, clones>>

\* The end of drop: the value is read and dropped.
drop_value ==
  /\ Move("drop", "dealloc")
  /\ moved' = moved + 1 /\ outcome' = "dropped"
  /\ UNCHANGED <<count, freed, plain, stopped, clones>>

\* core_arc_take: the value is read for the caller.
core_arc_take ==
  /\ Move("take", "dealloc")
  /\ moved' = moved + 1 /\ outcome' = "given"
  /\ UNCHANGED <<count, freed, plain, stopped, clones>>

dealloc ==
  /\ Leave("dealloc")
  /\ freed' = freed + 1
  /\ UNCHANGED <<count, moved, outcome, plain, stopped, clones>>

\* Every Arc is gone or forgotten.
Done == \A p \in ArcPlaces \ {"leaked"} : at[p] = 0
ArcFinished == (Done \/ stopped) /\ UNCHANGED arcVars

ArcNext ==
  \/ /\ ~stopped
     /\ \/ clone \/ clone_returns \/ clone_panics \/ drop \/ arc_into_inner \/ try_unwrap \/ forget
        \/ drop_value \/ core_arc_take \/ dealloc
  \/ ArcFinished

ArcSpec == arc_new /\ [][ArcNext]_arcVars

-----------------------------------------------------------------------------
\* Each counter has the type of the code.
ArcTypeOK ==
  /\ count \in 0..(Half - 1) /\ at \in [ArcPlaces -> Nat]
  /\ moved \in Nat /\ outcome \in {"in", "dropped", "given"} /\ freed \in Nat
  /\ plain \in BOOLEAN /\ stopped \in BOOLEAN /\ clones \in Nat

\* While a task holds an Arc or makes a clone of one, the value is in the block and the
\* block is on the heap: no drop, unwrap or into_inner of another clone took it.
HeldValueIsThere == at["held"] + at["checked"] > 0 => moved = 0 /\ freed = 0

\* The value is moved out once and the block is freed once, after it; when every Arc is
\* gone and none was forgotten, both have happened.  "When several tasks call it on the
\* clones of one Arc, exactly one gets the value": if every clone goes by into_inner or a
\* try_unwrap that worked, one of them gets it.
OneGetsTheValue ==
  /\ moved <= 1 /\ freed <= moved
  /\ Done /\ at["leaked"] = 0 => moved = 1 /\ freed = 1
  /\ Done /\ ~plain => outcome = "given"

\* The count is the number of owners, forgotten ones included, and never wraps: a clone
\* past the limit stops the program while there is room for every other clone call.
CountIsTrue ==
  /\ ArcTypeOK
  /\ count = at["held"] + at["checked"] + at["over"] + at["leaked"]

=============================================================================
