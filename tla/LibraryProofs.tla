--------------------------- MODULE LibraryProofs ----------------------------
(***************************************************************************)
(* For any number of tasks and of calls: the types, mutual exclusion, no   *)
(* lost update and no lost wake of std::sync::Mutex, and that it is a      *)
(* first-come first-served lock; the count, the value and the block of     *)
(* std::sync::Arc; and the id that the ranks of a collective join with.    *)
(* The components share no state, so their names are distinct.             *)
(***************************************************************************)
EXTENDS TicketMutex, Arc, CollectiveJob, Sequences, FiniteSetTheorems, TLAPS

-----------------------------------------------------------------------------
(* std::sync::Mutex *)

\* The tasks that `sleepers` counts: between their fetch_add and their fetch_sub.
Counted == {t \in Tasks : pc[t] \in {"wait", "asleep", "uncount"}}

\* A task in lock or with the guard has a ticket of its own that was handed out
\* and not passed, and the guard's ticket is the one being served.
TicketInv ==
  /\ serving <= next
  /\ \A t \in Tasks : pc[t] \in Waiting \cup Holding
                        => serving <= ticket[t] /\ ticket[t] < next
  /\ \A t, u \in Tasks : /\ t # u
                         /\ pc[t] \in Waiting \cup Holding
                         /\ pc[u] \in Waiting \cup Holding
                         => ticket[t] # ticket[u]
  /\ \A t \in Tasks : pc[t] \in Holding => ticket[t] = serving

\* What a task that has read the value will write is the next count.
ValueInv ==
  /\ \A t \in Tasks : pc[t] = "modify" => tmp[t] = value
  /\ NoLostUpdate

CountInv == sleepers = Cardinality(Counted)

IInv == TypeOK /\ TicketInv /\ ValueInv /\ CountInv /\ NoLostWake

USE DEF Waiting, Holding, Waking, Places, Goto

\* A sleeper of wait_while is counted, so an unlock that it precedes reads a count above 0.
LEMMA CountedFinite ==
  ASSUME TypeOK
  PROVE  /\ IsFiniteSet(Counted)
         /\ Cardinality(Counted) \in Nat
         /\ \A t \in Tasks : pc[t] = "asleep" => Cardinality(Counted) > 0
<1>1. IsFiniteSet(Counted)
  BY TicketAssumption, FS_Subset DEF Counted
<1>2. Cardinality(Counted) \in Nat
  BY <1>1, FS_CardinalityType
<1>3. ASSUME NEW t \in Tasks, pc[t] = "asleep"
      PROVE  Cardinality(Counted) > 0
  <2>1. t \in Counted
    BY <1>3 DEF Counted
  <2>2. Cardinality(Counted) # 0
    BY <1>1, <2>1, FS_EmptySet
  <2> QED
    BY <1>2, <2>2
<1> QED
  BY <1>1, <1>2, <1>3

\* Tickets stay unique and in order through every step of lock and drop.
LEMMA TicketStep ==
  ASSUME TypeOK, TicketInv, [Next]_vars
  PROVE  TicketInv'
<1> USE DEF TypeOK, TicketInv
<1>1. ASSUME NEW t \in Tasks, TakeTicket(t) PROVE TicketInv'
  BY <1>1 DEF TakeTicket
<1>2. ASSUME NEW t \in Tasks, LoadServing(t) PROVE TicketInv'
  BY <1>2 DEF LoadServing
<1>3. ASSUME NEW t \in Tasks, CountSleeper(t) PROVE TicketInv'
  BY <1>3 DEF CountSleeper
<1>4. ASSUME NEW t \in Tasks, wait_while(t) \/ EarlyReturn(t) PROVE TicketInv'
  BY <1>4 DEF wait_while, EarlyReturn
<1>5. ASSUME NEW t \in Tasks, UncountSleeper(t) PROVE TicketInv'
  BY <1>5 DEF UncountSleeper
<1>6. ASSUME NEW t \in Tasks, ReadValue(t) \/ WriteValue(t) PROVE TicketInv'
  BY <1>6 DEF ReadValue, WriteValue
<1>7. ASSUME NEW t \in Tasks, BumpServing(t) PROVE TicketInv'
  BY <1>7 DEF BumpServing
<1>8. ASSUME NEW t \in Tasks, CheckSleepers(t) PROVE TicketInv'
  BY <1>8 DEF CheckSleepers
<1>9. ASSUME NEW t \in Tasks, wake_all(t) PROVE TicketInv'
  BY <1>9 DEF wake_all
<1>10. CASE into_inner \/ Finished \/ UNCHANGED vars
  BY <1>10 DEF into_inner, Finished, vars
<1> QED
  BY <1>1, <1>2, <1>3, <1>4, <1>5, <1>6, <1>7, <1>8, <1>9, <1>10 DEF Next, Step

\* The count of sleepers follows the tasks between fetch_add and fetch_sub.
LEMMA CountStep ==
  ASSUME TypeOK, CountInv, [Next]_vars
  PROVE  CountInv' /\ sleepers' \in Nat
<1> USE DEF TypeOK, CountInv
<1>0. /\ IsFiniteSet(Counted)
      /\ Cardinality(Counted) \in Nat
  BY CountedFinite
<1>1. ASSUME NEW t \in Tasks, CountSleeper(t) PROVE CountInv' /\ sleepers' \in Nat
  <2>1. t \notin Counted /\ Counted' = Counted \cup {t}
    BY <1>1 DEF CountSleeper, Counted
  <2>2. Cardinality(Counted') = Cardinality(Counted) + 1
    BY <1>0, <2>1, FS_AddElement
  <2> QED
    BY <1>0, <1>1, <2>2 DEF CountSleeper
<1>2. ASSUME NEW t \in Tasks, UncountSleeper(t) PROVE CountInv' /\ sleepers' \in Nat
  <2>1. t \in Counted /\ Counted' = Counted \ {t}
    BY <1>2 DEF UncountSleeper, Counted
  <2>2. Cardinality(Counted') = Cardinality(Counted) - 1
    BY <1>0, <2>1, FS_RemoveElement
  <2>3. IsFiniteSet(Counted') /\ Cardinality(Counted') \in Nat
    BY <1>0, <2>1, FS_RemoveElement, FS_CardinalityType
  <2> QED
    BY <1>0, <1>2, <2>2, <2>3 DEF UncountSleeper
<1>3. CASE UNCHANGED <<sleepers, Counted>>
  BY <1>0, <1>3
<1>4. ASSUME NEW t \in Tasks,
             \/ TakeTicket(t) \/ LoadServing(t) \/ wait_while(t) \/ EarlyReturn(t)
             \/ ReadValue(t) \/ WriteValue(t) \/ BumpServing(t)
             \/ CheckSleepers(t)
      PROVE  UNCHANGED <<sleepers, Counted>>
  BY <1>4 DEF TakeTicket, LoadServing, wait_while, EarlyReturn, ReadValue, WriteValue, BumpServing,
              CheckSleepers, Counted
<1>5. ASSUME NEW t \in Tasks, wake_all(t) PROVE UNCHANGED <<sleepers, Counted>>
  BY <1>5 DEF wake_all, Counted
<1>6. CASE into_inner \/ Finished \/ UNCHANGED vars
  <2>1. UNCHANGED <<sleepers, Counted>>
    BY <1>6 DEF into_inner, Finished, vars, Counted
  <2> QED
    BY <1>3, <2>1
<1> QED
  BY <1>1, <1>2, <1>3, <1>4, <1>5, <1>6 DEF Next, Step

\* Every step keeps the invariant.
LEMMA InvStep ==
  ASSUME IInv, [Next]_vars
  PROVE  IInv'
<1>1. TicketInv'
  BY TicketStep DEF IInv
<1>2. CountInv' /\ sleepers' \in Nat
  BY CountStep DEF IInv
<1>3. TypeOK'
  <2> USE DEF IInv, TypeOK
  <2>1. ASSUME NEW t \in Tasks, TakeTicket(t) \/ EarlyReturn(t) PROVE TypeOK'
    BY <1>2, <2>1 DEF TakeTicket, EarlyReturn
  <2>2. ASSUME NEW t \in Tasks, LoadServing(t) \/ CountSleeper(t) PROVE TypeOK'
    BY <1>2, <2>2 DEF LoadServing, CountSleeper
  <2>3. ASSUME NEW t \in Tasks, wait_while(t) \/ UncountSleeper(t) PROVE TypeOK'
    BY <1>2, <2>3 DEF wait_while, UncountSleeper
  <2>4. ASSUME NEW t \in Tasks, ReadValue(t) \/ WriteValue(t) PROVE TypeOK'
    BY <1>2, <2>4 DEF ReadValue, WriteValue
  <2>5. ASSUME NEW t \in Tasks, BumpServing(t) \/ CheckSleepers(t) PROVE TypeOK'
    BY <1>2, <2>5 DEF BumpServing, CheckSleepers
  <2>6. ASSUME NEW t \in Tasks, wake_all(t) PROVE TypeOK'
    BY <1>2, <2>6 DEF wake_all
  <2>7. CASE into_inner \/ Finished \/ UNCHANGED vars
    BY <2>7 DEF into_inner, Finished, vars
  <2> QED
    BY <2>1, <2>2, <2>3, <2>4, <2>5, <2>6, <2>7 DEF Next, Step
<1>4. ValueInv'
  <2> USE DEF IInv, TypeOK, TicketInv, ValueInv, NoLostUpdate
  <2>1. ASSUME NEW t \in Tasks, TakeTicket(t) \/ EarlyReturn(t) PROVE ValueInv'
    BY <2>1 DEF TakeTicket, EarlyReturn
  <2>2. ASSUME NEW t \in Tasks, LoadServing(t) \/ CountSleeper(t) PROVE ValueInv'
    BY <2>2 DEF LoadServing, CountSleeper
  <2>3. ASSUME NEW t \in Tasks, wait_while(t) \/ UncountSleeper(t) PROVE ValueInv'
    BY <2>3 DEF wait_while, UncountSleeper
  <2>4. ASSUME NEW t \in Tasks, ReadValue(t) PROVE ValueInv'
    BY <2>4 DEF ReadValue
  <2>5. ASSUME NEW t \in Tasks, WriteValue(t) PROVE ValueInv'
    <3>1. \A u \in Tasks \ {t} : pc[u] \notin Holding
      BY <2>5 DEF WriteValue
    <3>2. value = serving
      BY <2>5, <3>1 DEF WriteValue
    <3> QED
      BY <2>5, <3>1, <3>2 DEF WriteValue
  <2>6. ASSUME NEW t \in Tasks, BumpServing(t) PROVE ValueInv'
    <3>1. \A u \in Tasks \ {t} : pc[u] \notin Holding
      BY <2>6 DEF BumpServing
    <3> QED
      BY <2>6, <3>1 DEF BumpServing
  <2>7. ASSUME NEW t \in Tasks, CheckSleepers(t) PROVE ValueInv'
    BY <2>7 DEF CheckSleepers
  <2>8. ASSUME NEW t \in Tasks, wake_all(t) PROVE ValueInv'
    BY <2>8 DEF wake_all
  <2>9. CASE into_inner \/ Finished \/ UNCHANGED vars
    BY <2>9 DEF into_inner, Finished, vars
  <2> QED
    BY <2>1, <2>2, <2>3, <2>4, <2>5, <2>6, <2>7, <2>8, <2>9 DEF Next, Step
<1>5. NoLostWake'
  <2> USE DEF IInv, TypeOK, NoLostWake
  <2>1. ASSUME NEW t \in Tasks, TakeTicket(t) \/ EarlyReturn(t) PROVE NoLostWake'
    BY <2>1 DEF TakeTicket, EarlyReturn
  <2>2. ASSUME NEW t \in Tasks, LoadServing(t) \/ CountSleeper(t) PROVE NoLostWake'
    BY <2>2 DEF LoadServing, CountSleeper
  <2>3. ASSUME NEW t \in Tasks, wait_while(t) \/ UncountSleeper(t) PROVE NoLostWake'
    BY <2>3 DEF wait_while, UncountSleeper
  <2>4. ASSUME NEW t \in Tasks, ReadValue(t) \/ WriteValue(t) PROVE NoLostWake'
    BY <2>4 DEF ReadValue, WriteValue
  <2>5. ASSUME NEW t \in Tasks, BumpServing(t) PROVE NoLostWake'
    BY <2>5 DEF BumpServing
  <2>6. ASSUME NEW t \in Tasks, CheckSleepers(t) PROVE NoLostWake'
    <3>1. CASE sleepers > 0
      BY <2>6, <3>1 DEF CheckSleepers
    <3>2. CASE ~(sleepers > 0)
      <4>1. \A u \in Tasks : pc[u] # "asleep"
        BY <3>2, CountedFinite DEF CountInv
      <4> QED
        BY <2>6, <4>1 DEF CheckSleepers
    <3> QED
      BY <3>1, <3>2
  <2>7. ASSUME NEW t \in Tasks, wake_all(t) PROVE NoLostWake'
    BY <2>7 DEF wake_all
  <2>8. CASE into_inner \/ Finished \/ UNCHANGED vars
    BY <2>8 DEF into_inner, Finished, vars
  <2> QED
    BY <2>1, <2>2, <2>3, <2>4, <2>5, <2>6, <2>7, <2>8 DEF Next, Step
<1> QED
  BY <1>1, <1>2, <1>3, <1>4, <1>5 DEF IInv

\* The invariant holds in every state of the Mutex.
THEOREM Inductive == Spec => []IInv
<1>1. new => IInv
  <2> SUFFICES ASSUME new PROVE IInv
    OBVIOUS
  <2>1. Counted = {}
    BY DEF new, Counted
  <2>2. Cardinality(Counted) = 0
    BY <2>1, FS_EmptySet
  <2> QED
    BY <2>2 DEF new, IInv, TypeOK, TicketInv, ValueInv, NoLostUpdate, CountInv, NoLostWake
<1>2. IInv /\ [Next]_vars => IInv'
  BY InvStep
<1> QED
  BY <1>1, <1>2, PTL DEF Spec

\* The words and locals of lock and drop keep their types, and `sleepers` never
\* goes below 0.
THEOREM TypeCorrect == Spec => []TypeOK
<1>1. IInv => TypeOK
  BY DEF IInv
<1> QED
  BY <1>1, Inductive, PTL

\* Two tasks never hold guards of the same Mutex.
THEOREM Exclusion == Spec => []MutualExclusion
<1>1. IInv => MutualExclusion
  BY DEF IInv, TypeOK, TicketInv, MutualExclusion
<1> QED
  BY <1>1, Inductive, PTL

\* Every read-modify-write through a guard counts.
THEOREM UpdatesKept == Spec => []NoLostUpdate
<1>1. IInv => NoLostUpdate
  BY DEF IInv, ValueInv
<1> QED
  BY <1>1, Inductive, PTL

\* No lock call sleeps past its turn with no wake on its way.
THEOREM WakesKept == Spec => []NoLostWake
<1>1. IInv => NoLostWake
  BY DEF IInv
<1> QED
  BY <1>1, Inductive, PTL

-----------------------------------------------------------------------------
\* The Mutex implements the first-come first-served lock of module FifoLock.

\* Every ticket that was handed out and not passed has a task, in lock or with the guard.
Covered == \A k \in Nat : serving <= k /\ k < next => Owners(k) # {}

\* The abstract queue and lock that the words and the places of the tasks stand for.
Queue == [i \in 1..(next - serving) |-> Owner(serving + i - 1)]
Held == \E t \in Tasks : pc[t] \in Holding

\* Who owns a ticket depends on which tasks are in a call, and on their tickets.
LEMMA OwnersFrom ==
  ASSUME NEW k,
         \A u \in Tasks : (pc'[u] \in Waiting \cup Holding /\ ticket'[u] = k)
                            <=> (pc[u] \in Waiting \cup Holding /\ ticket[u] = k)
  PROVE  Owners(k)' = Owners(k) /\ Owner(k)' = Owner(k)
<1>1. Owners(k)' = Owners(k)
  BY DEF Owners
<1> QED
  BY <1>1 DEF Owner

\* The steps of lock and drop between the ticket and the end of the guard move no ticket.
LEMMA OwnersStay ==
  ASSUME IInv, NEW t \in Tasks,
         \/ LoadServing(t) \/ CountSleeper(t) \/ wait_while(t) \/ EarlyReturn(t)
         \/ UncountSleeper(t) \/ ReadValue(t) \/ WriteValue(t) \/ CheckSleepers(t) \/ wake_all(t)
  PROVE  /\ \A u \in Tasks : /\ pc'[u] \in Waiting \cup Holding <=> pc[u] \in Waiting \cup Holding
                             /\ ticket'[u] = ticket[u]
         /\ UNCHANGED <<next, serving>>
<1> USE DEF IInv, TypeOK
<1>1. CASE LoadServing(t) \/ CountSleeper(t) \/ wait_while(t)
  BY <1>1 DEF LoadServing, CountSleeper, wait_while
<1>2. CASE EarlyReturn(t) \/ UncountSleeper(t)
  BY <1>2 DEF EarlyReturn, UncountSleeper
<1>3. CASE ReadValue(t) \/ WriteValue(t) \/ CheckSleepers(t)
  BY <1>3 DEF ReadValue, WriteValue, CheckSleepers
<1>4. CASE wake_all(t)
  BY <1>4 DEF wake_all
<1> QED
  BY <1>1, <1>2, <1>3, <1>4

\* fetch_add on `next` gives the new ticket to its caller and leaves the others.
LEMMA OwnersTake ==
  ASSUME IInv, NEW t \in Tasks, TakeTicket(t)
  PROVE  /\ \A k \in Nat : k < next => Owners(k)' = Owners(k) /\ Owner(k)' = Owner(k)
         /\ \A k \in Nat : k = next => Owners(k)' = {t} /\ Owner(k)' = t
<1>1. ASSUME NEW k \in Nat, k < next
      PROVE  Owners(k)' = Owners(k) /\ Owner(k)' = Owner(k)
  <2>1. \A u \in Tasks : (pc'[u] \in Waiting \cup Holding /\ ticket'[u] = k)
                           <=> (pc[u] \in Waiting \cup Holding /\ ticket[u] = k)
    BY <1>1 DEF IInv, TypeOK, TakeTicket
  <2> QED
    BY <2>1, OwnersFrom
<1>2. ASSUME NEW k \in Nat, k = next
      PROVE  Owners(k)' = {t} /\ Owner(k)' = t
  <2>1. \A u \in Tasks : (pc'[u] \in Waiting \cup Holding /\ ticket'[u] = k) <=> u = t
    BY <1>2 DEF IInv, TypeOK, TicketInv, TakeTicket
  <2>2. Owners(k)' = {t}
    BY <2>1 DEF Owners
  <2> QED
    BY <2>2 DEF Owner
<1> QED
  BY <1>1, <1>2

\* The bump of `serving` ends the ticket of its caller and leaves the others.
LEMMA OwnersBump ==
  ASSUME IInv, NEW t \in Tasks, BumpServing(t)
  PROVE  /\ \A k \in Nat : k # serving => Owners(k)' = Owners(k) /\ Owner(k)' = Owner(k)
         /\ serving < next
<1>1. ticket[t] = serving /\ serving < next
  BY DEF IInv, TypeOK, TicketInv, BumpServing
<1>2. ASSUME NEW k \in Nat, k # serving
      PROVE  Owners(k)' = Owners(k) /\ Owner(k)' = Owner(k)
  <2>1. \A u \in Tasks : (pc'[u] \in Waiting \cup Holding /\ ticket'[u] = k)
                           <=> (pc[u] \in Waiting \cup Holding /\ ticket[u] = k)
    BY <1>1, <1>2 DEF IInv, TypeOK, BumpServing
  <2> QED
    BY <2>1, OwnersFrom
<1> QED
  BY <1>1, <1>2

\* A step that leaves the two words and the owners leaves the abstract queue.
LEMMA SameQueue ==
  ASSUME IInv, UNCHANGED <<next, serving>>,
         \A u \in Tasks : /\ pc'[u] \in Waiting \cup Holding <=> pc[u] \in Waiting \cup Holding
                          /\ ticket'[u] = ticket[u]
  PROVE  Queue' = Queue /\ (Covered => Covered')
<1>1. \A k \in Nat : Owners(k)' = Owners(k) /\ Owner(k)' = Owner(k)
  BY OwnersFrom
<1>2. next \in Nat /\ serving \in Nat
  BY DEF IInv, TypeOK
<1>3. \A i \in 1..(next - serving) : Owner(serving + i - 1)' = Owner(serving + i - 1)
  <2> TAKE i \in 1..(next - serving)
  <2>1. serving + i - 1 \in Nat
    BY <1>2
  <2>2. \A k \in Nat : k = serving + i - 1 => Owner(serving + i - 1)' = Owner(k)'
    OBVIOUS
  <2> QED
    BY <1>1, <2>1, <2>2
<1>4. Queue' = Queue
  BY <1>3 DEF Queue
<1>5. Covered => Covered'
  BY <1>1, <1>2 DEF Covered
<1> QED
  BY <1>4, <1>5

\* Append and Tail entry by entry.
LEMMA AppendIs ==
  ASSUME NEW S, NEW q \in Seq(S), NEW x \in S, NEW n \in Nat, n = Len(q)
  PROVE  Append(q, x) = [i \in 1..(n + 1) |-> IF i = n + 1 THEN x ELSE q[i]]
<1> DEFINE a == Append(q, x)
<1>1. a \in Seq(S) /\ Len(a) = n + 1
  OBVIOUS
<1>2. \A i \in 1..(n + 1) : a[i] = IF i = n + 1 THEN x ELSE q[i]
  OBVIOUS
<1> HIDE DEF a
<1>3. a \in [1..(n + 1) -> S]
  BY <1>1
<1>4. a = [i \in 1..(n + 1) |-> IF i = n + 1 THEN x ELSE q[i]]
  BY <1>2, <1>3
<1> QED
  BY <1>4 DEF a

\* Tail as a function of the positions.
LEMMA TailIs ==
  ASSUME NEW S, NEW q \in Seq(S), NEW n \in Nat, n > 0, n = Len(q)
  PROVE  Tail(q) = [i \in 1..(n - 1) |-> q[i + 1]]
<1> DEFINE a == Tail(q)
<1>1. a \in Seq(S) /\ Len(a) = n - 1
  OBVIOUS
<1>2. \A i \in 1..(n - 1) : a[i] = q[i + 1]
  OBVIOUS
<1> HIDE DEF a
<1>3. a \in [1..(n - 1) -> S]
  BY <1>1
<1>4. a = [i \in 1..(n - 1) |-> q[i + 1]]
  BY <1>2, <1>3
<1> QED
  BY <1>4 DEF a

\* The abstract queue has one entry for each ticket from `serving` to `next`.
LEMMA QueueIs ==
  ASSUME IInv
  PROVE  /\ Queue \in Seq(Tasks \cup {"nobody"})
         /\ Len(Queue) = next - serving
<1> DEFINE n == next - serving
<1>1. n \in Nat
  BY DEF IInv, TypeOK, TicketInv
<1>2. \A k : Owner(k) \in Tasks \cup {"nobody"}
  BY DEF Owner, Owners
<1>3. Queue \in [1..n -> Tasks \cup {"nobody"}]
  BY <1>2 DEF Queue
<1> HIDE DEF n
<1>4. Queue \in Seq(Tasks \cup {"nobody"}) /\ Len(Queue) = n
  BY <1>1, <1>3
<1> QED
  BY <1>4 DEF n

\* A lock call that takes a ticket joins the end of the abstract queue.
LEMMA TakeAsks ==
  ASSUME IInv, Covered, NEW t \in Tasks, TakeTicket(t)
  PROVE  Fifo!Ask(t) /\ Covered'
<1>1. next \in Nat /\ serving \in Nat /\ serving <= next /\ next' = next + 1 /\ serving' = serving
  BY DEF IInv, TypeOK, TicketInv, TakeTicket
<1>2. /\ \A k \in Nat : k < next => Owners(k)' = Owners(k) /\ Owner(k)' = Owner(k)
      /\ \A k \in Nat : k = next => Owners(k)' = {t} /\ Owner(k)' = t
  BY OwnersTake
<1>3. ASSUME NEW i \in 1..(next - serving)
      PROVE  Owner(serving + i - 1)' = Owner(serving + i - 1) /\ Owner(serving + i - 1) # t
  <2>1. /\ serving + i - 1 \in Nat /\ serving <= serving + i - 1 /\ serving + i - 1 < next
        /\ serving' + i - 1 = serving + i - 1
    BY <1>1
  <2>2. Owner(serving + i - 1)' = Owner(serving + i - 1)
    BY <1>2, <2>1
  <2>3. Owners(serving + i - 1) # {}
    BY <2>1 DEF Covered
  <2>4. Owner(serving + i - 1) \in Owners(serving + i - 1)
    BY <2>3 DEF Owner
  <2>5. t \notin Owners(serving + i - 1)
    BY DEF Owners, TakeTicket
  <2> QED
    BY <2>2, <2>4, <2>5
<1>4. ASSUME NEW i \in 1..(next' - serving'), i \notin 1..(next - serving)
      PROVE  i = next - serving + 1 /\ Owner(serving + i - 1)' = t
  <2>1. i = next - serving + 1 /\ serving' + i - 1 = next
    BY <1>1, <1>4
  <2> QED
    BY <1>1, <1>2, <2>1
<1>5. Queue \in Seq(Tasks \cup {"nobody"}) /\ Len(Queue) = next - serving
  BY QueueIs
<1>6. Queue' = Append(Queue, t)
  <2>1. Append(Queue, t) = [i \in 1..(next - serving + 1) |-> IF i = next - serving + 1 THEN t ELSE Queue[i]]
    BY <1>1, <1>5, AppendIs
  <2>2. \A i \in 1..(next - serving + 1) :
          Owner(serving + i - 1)' = IF i = next - serving + 1 THEN t ELSE Queue[i]
    BY <1>1, <1>3, <1>4 DEF Queue
  <2>3. Queue' = [i \in 1..(next - serving + 1) |-> Owner(serving + i - 1)']
    BY <1>1 DEF Queue
  <2> QED
    BY <2>1, <2>2, <2>3
<1>7. \A i \in 1..Len(Queue) : Queue[i] # t
  BY <1>3, <1>5 DEF Queue
<1>8. Held' = Held
  BY DEF Held, TakeTicket, IInv, TypeOK
<1>9. Covered'
  BY <1>1, <1>2 DEF Covered
<1> QED
  BY <1>6, <1>7, <1>8, <1>9 DEF Fifo!Ask, Queue, Held

\* The load that finds its ticket in `serving` is the grant of the lock.
LEMMA LoadGrants ==
  ASSUME IInv, NEW t \in Tasks, LoadServing(t), serving = ticket[t]
  PROVE  Fifo!Grant
<1>1. Queue' = Queue
  BY OwnersStay, SameQueue
<1>2. next \in Nat /\ serving \in Nat /\ serving < next
  BY DEF IInv, TypeOK, TicketInv, LoadServing
<1>3. Queue # <<>>
  <2>1. 1 \in DOMAIN Queue
    BY <1>2 DEF Queue
  <2> QED
    BY <2>1
<1>4. ~Held
  BY DEF IInv, TypeOK, TicketInv, LoadServing, Held
<1>5. Held' = TRUE
  BY DEF IInv, TypeOK, LoadServing, Held
<1> QED
  BY <1>1, <1>3, <1>4, <1>5 DEF Fifo!Grant, Queue, Held

\* The bump of `serving` is the release, and the next ticket becomes the first.
LEMMA BumpReleases ==
  ASSUME IInv, NEW t \in Tasks, BumpServing(t)
  PROVE  Fifo!Release /\ (Covered => Covered')
<1>1. next \in Nat /\ serving \in Nat /\ next' = next /\ serving' = serving + 1
  BY DEF IInv, TypeOK, BumpServing
<1>2. /\ \A k \in Nat : k # serving => Owners(k)' = Owners(k) /\ Owner(k)' = Owner(k)
      /\ serving < next
  BY OwnersBump
<1>3. ASSUME NEW i \in 1..(next - serving - 1)
      PROVE  Owner(serving + i - 1)' = Owner(serving + (i + 1) - 1)
  <2>1. serving + i \in Nat /\ serving + i # serving /\ serving' + i - 1 = serving + i
          /\ serving + (i + 1) - 1 = serving + i
    BY <1>1
  <2> QED
    BY <1>2, <2>1
<1>4. Queue \in Seq(Tasks \cup {"nobody"}) /\ Len(Queue) = next - serving
  BY QueueIs
<1>5. Tail(Queue) = [i \in 1..(next - serving - 1) |-> Queue[i + 1]]
  BY <1>1, <1>2, <1>4, TailIs
<1>6. Queue' = Tail(Queue)
  BY <1>1, <1>2, <1>3, <1>5 DEF Queue
<1>7. Held /\ Held' = FALSE
  BY DEF IInv, TypeOK, TicketInv, BumpServing, Held
<1>8. Covered => Covered'
  BY <1>1, <1>2 DEF Covered
<1> QED
  BY <1>6, <1>7, <1>8 DEF Fifo!Release, Queue, Held

\* The other steps change nothing of the abstract lock.
LEMMA OthersStutter ==
  ASSUME IInv, NEW t \in Tasks,
         \/ LoadServing(t) /\ serving # ticket[t]
         \/ CountSleeper(t) \/ wait_while(t) \/ EarlyReturn(t) \/ UncountSleeper(t)
         \/ ReadValue(t) \/ WriteValue(t) \/ CheckSleepers(t) \/ wake_all(t)
  PROVE  UNCHANGED Fifo!fifoVars /\ (Covered => Covered')
<1>1. Queue' = Queue /\ (Covered => Covered')
  BY OwnersStay, SameQueue
<1>2. Held' = Held
  <2> USE DEF IInv, TypeOK, Held
  <2>1. CASE LoadServing(t) /\ serving # ticket[t]
    BY <2>1 DEF LoadServing
  <2>2. CASE CountSleeper(t) \/ wait_while(t)
    BY <2>2 DEF CountSleeper, wait_while
  <2>3. CASE EarlyReturn(t) \/ UncountSleeper(t)
    BY <2>3 DEF EarlyReturn, UncountSleeper
  <2>4. CASE ReadValue(t) \/ WriteValue(t) \/ CheckSleepers(t)
    BY <2>4 DEF ReadValue, WriteValue, CheckSleepers
  <2>5. CASE wake_all(t)
    BY <2>5 DEF wake_all
  <2> QED
    BY <2>1, <2>2, <2>3, <2>4, <2>5
<1> QED
  BY <1>1, <1>2 DEF Fifo!fifoVars, Queue, Held

\* Each step of the Mutex is a step of the abstract lock, or none of its steps.
LEMMA StepImplements ==
  ASSUME IInv, Covered, [Next]_vars
  PROVE  [Fifo!FifoNext]_(Fifo!fifoVars) /\ Covered'
<1>1. ASSUME NEW t \in Tasks, TakeTicket(t) PROVE Fifo!FifoNext /\ Covered'
  BY <1>1, TakeAsks DEF Fifo!FifoNext
<1>2. ASSUME NEW t \in Tasks, LoadServing(t), serving = ticket[t] PROVE Fifo!FifoNext /\ Covered'
  BY <1>2, LoadGrants, OwnersStay, SameQueue DEF Fifo!FifoNext
<1>3. ASSUME NEW t \in Tasks, BumpServing(t) PROVE Fifo!FifoNext /\ Covered'
  BY <1>3, BumpReleases DEF Fifo!FifoNext
<1>4. ASSUME NEW t \in Tasks,
             \/ LoadServing(t) /\ serving # ticket[t]
             \/ CountSleeper(t) \/ wait_while(t) \/ EarlyReturn(t) \/ UncountSleeper(t)
             \/ ReadValue(t) \/ WriteValue(t) \/ CheckSleepers(t) \/ wake_all(t)
      PROVE  UNCHANGED Fifo!fifoVars /\ Covered'
  BY <1>4, OthersStutter
<1>5. CASE into_inner \/ Finished \/ UNCHANGED vars
  <2>1. UNCHANGED <<next, serving, pc, ticket>>
    BY <1>5 DEF into_inner, Finished, vars
  <2>2. Queue' = Queue /\ Covered'
    BY <2>1, SameQueue
  <2>3. Held' = Held
    BY <2>1 DEF Held
  <2> QED
    BY <2>2, <2>3 DEF Fifo!fifoVars, Queue, Held
<1> QED
  BY <1>1, <1>2, <1>3, <1>4, <1>5 DEF Next, Step

\* std::sync::Mutex is a first-come first-served lock: the tasks get it one at a
\* time, in the order of their tickets.
THEOREM Implements == Spec => FirstComeFirstServed
<1>1. new => Fifo!FifoInit /\ Covered
  <2> SUFFICES ASSUME new PROVE Fifo!FifoInit /\ Covered
    OBVIOUS
  <2>1. next = 0 /\ serving = 0 /\ \A t \in Tasks : pc[t] = "idle"
    BY DEF new
  <2>2. Queue = <<>>
    BY <2>1 DEF Queue
  <2>3. Held = FALSE
    BY <2>1 DEF Held
  <2>4. Covered
    BY <2>1 DEF Covered
  <2> QED
    BY <2>2, <2>3, <2>4 DEF Fifo!FifoInit, Queue, Held
<1>2. IInv /\ Covered /\ [Next]_vars => [Fifo!FifoNext]_(Fifo!fifoVars) /\ Covered'
  BY StepImplements
<1> QED
  BY <1>1, <1>2, Inductive, PTL DEF Spec, FirstComeFirstServed, Fifo!FifoSpec

-----------------------------------------------------------------------------
(* std::sync::Arc *)

ArcTypes ==
  /\ count \in Nat /\ at \in [ArcPlaces -> Nat]
  /\ moved \in Nat /\ outcome \in {"in", "dropped", "given"} /\ freed \in Nat
  /\ plain \in BOOLEAN /\ stopped \in BOOLEAN /\ clones \in Nat

\* The clones that passed the check came to at most one more than the limit, and a task is in
\* one clone at a time: so the add of a clone that is about to panic does not wrap.
ArcRoom ==
  /\ count <= core_arc_max_count + 1 + at["over"]
  /\ at["checked"] + at["over"] <= Callers

ArcOwners == count = at["held"] + at["checked"] + at["over"] + at["leaked"]

\* The value is in the block until the count is 0.  Then one call has it, until the block is
\* freed.
OneLast ==
  /\ count > 0 => at["drop"] = 0 /\ at["take"] = 0 /\ at["dealloc"] = 0 /\ freed = 0
  /\ count = 0 => at["drop"] + at["take"] + at["dealloc"] + freed = 1
  /\ moved = at["dealloc"] + freed

Fate ==
  /\ moved = 0 <=> outcome = "in"
  /\ ~plain => at["drop"] = 0 /\ at["leaked"] = 0 /\ outcome # "dropped"

ArcInv == ArcTypes /\ ArcRoom /\ ArcOwners /\ OneLast /\ Fate

\* The count is far from its width, and so is the add of a task that is in no clone yet.
LEMMA ArcNoWrap == ArcTypes /\ ArcRoom =>
  /\ count < Half
  /\ at["checked"] + at["over"] < Callers => Wrap(count + 1) = count + 1
<1> SUFFICES ASSUME ArcTypes, ArcRoom
             PROVE  /\ count < Half
                    /\ at["checked"] + at["over"] < Callers => Wrap(count + 1) = count + 1
    OBVIOUS
<1>1. /\ count \in Nat /\ at["over"] \in Nat /\ at["checked"] \in Nat
      /\ count <= core_arc_max_count + 1 + at["over"] /\ at["checked"] + at["over"] <= Callers
    BY DEF ArcTypes, ArcRoom, ArcPlaces
<1>2. core_arc_max_count \in Nat /\ Callers \in Nat /\ Callers + 1 < core_arc_max_count
    BY ArcAssumption
<1>3. count < 2 * core_arc_max_count
    BY <1>1, <1>2
<1>4. at["checked"] + at["over"] < Callers => ~(count + 1 >= 2 * core_arc_max_count)
    BY <1>1, <1>2
<1> QED
    BY <1>3, <1>4 DEF Half, Wrap

\* A new Arc has the invariant.
LEMMA ArcInvInit == arc_new => ArcInv
<1> SUFFICES ASSUME arc_new PROVE ArcInv
    OBVIOUS
<1>1. ArcTypes
    BY DEF arc_new, ArcTypes, ArcPlaces
<1>2. ArcRoom
    BY ArcAssumption DEF arc_new, ArcRoom, ArcPlaces
<1> QED
    BY <1>1, <1>2 DEF arc_new, ArcInv, ArcOwners, OneLast, Fate, ArcPlaces

\* The last owner goes on alone.
LEMMA LastArc ==
  ASSUME ArcInv, count = 1, NEW to \in {"drop", "take"}, Move("held", to)
  PROVE  /\ at' \in [ArcPlaces -> Nat] /\ moved = 0 /\ freed = 0 /\ outcome = "in"
         /\ \A p \in ArcPlaces : at'[p] = IF p = to THEN 1 ELSE 0
<1>1. /\ at \in [ArcPlaces -> Nat] /\ moved = 0 /\ freed = 0 /\ outcome = "in"
      /\ at["drop"] = 0 /\ at["take"] = 0 /\ at["dealloc"] = 0
    BY DEF ArcInv, ArcTypes, OneLast, Fate, ArcPlaces
<1>2. /\ at["held"] \in Nat /\ at["checked"] \in Nat /\ at["over"] \in Nat /\ at["leaked"] \in Nat
      /\ at["held"] > 0 /\ at["held"] + at["checked"] + at["over"] + at["leaked"] = 1
    BY <1>1 DEF Move, ArcInv, ArcOwners, ArcPlaces
<1>3. at["held"] = 1 /\ at["checked"] = 0 /\ at["over"] = 0 /\ at["leaked"] = 0
    BY <1>2
<1>4. at' = [at EXCEPT !["held"] = @ - 1, ![to] = @ + 1]
    BY DEF Move
<1>5. at' \in [ArcPlaces -> Int] /\ \A p \in ArcPlaces : at'[p] = IF p = to THEN at[p] + 1
                                                          ELSE IF p = "held" THEN at[p] - 1 ELSE at[p]
    BY <1>1, <1>4 DEF ArcPlaces
<1>6. \A p \in ArcPlaces : at'[p] = IF p = to THEN 1 ELSE 0
    BY <1>1, <1>3, <1>5 DEF ArcPlaces
<1> QED
    BY <1>1, <1>5, <1>6

\* Every step of a clone, drop, unwrap or take keeps the invariant.
LEMMA ArcInvStep == ArcInv /\ [ArcNext]_arcVars => ArcInv'
<1> SUFFICES ASSUME ArcInv, [ArcNext]_arcVars PROVE ArcInv'
    OBVIOUS
<1>1. core_arc_max_count \in Nat /\ Callers \in Nat
    BY ArcAssumption
<1> USE DEF ArcInv, ArcTypes, ArcRoom, ArcOwners, OneLast, Fate, ArcPlaces
<1>2. CASE clone
    <2>1. count' = count + 1
        BY <1>2, ArcNoWrap DEF clone
    <2>2. CASE TooMany
        BY <1>1, <1>2, <2>1, <2>2 DEF clone
    <2>3. CASE ~TooMany
        BY <1>1, <1>2, <2>1, <2>3 DEF clone, TooMany
    <2> QED
        BY <2>2, <2>3
<1>3. CASE clone_returns
    BY <1>1, <1>3 DEF clone_returns, Move
<1>4. CASE clone_panics
    BY <1>1, <1>4 DEF clone_panics
<1>5. CASE drop
    <2>1. CASE count = 1
        <3>1. Move("held", "drop") /\ count' = 0 /\ UNCHANGED <<moved, outcome, freed, stopped, clones>>
            BY <1>5, <2>1 DEF drop, GoesOn
        <3>2. /\ at' \in [ArcPlaces -> Nat] /\ moved = 0 /\ freed = 0 /\ outcome = "in"
              /\ \A p \in ArcPlaces : at'[p] = IF p = "drop" THEN 1 ELSE 0
            BY <2>1, <3>1, LastArc
        <3>3. plain' \in BOOLEAN /\ plain'
            BY <1>5 DEF drop
        <3> QED
            BY <1>1, <3>1, <3>2, <3>3
    <2>2. CASE count # 1
        BY SMTT(30), <1>1, <1>5, <2>2 DEF drop, GoesOn, Leave
    <2> QED
        BY <2>1, <2>2
<1>6. CASE arc_into_inner
    <2>1. CASE count = 1
        <3>1. Move("held", "take") /\ count' = 0 /\ UNCHANGED <<moved, outcome, freed, stopped, clones>>
            BY <1>6, <2>1 DEF arc_into_inner, GoesOn
        <3>2. /\ at' \in [ArcPlaces -> Nat] /\ moved = 0 /\ freed = 0 /\ outcome = "in"
              /\ \A p \in ArcPlaces : at'[p] = IF p = "take" THEN 1 ELSE 0
            BY <2>1, <3>1, LastArc
        <3>3. plain' \in BOOLEAN /\ plain' = plain
            BY <1>6 DEF arc_into_inner
        <3> QED
            BY SMTT(30), <1>1, <3>1, <3>2, <3>3
    <2>2. CASE count # 1
        BY SMTT(30), <1>1, <1>6, <2>2 DEF arc_into_inner, GoesOn, Leave
    <2> QED
        BY <2>1, <2>2
<1>7. CASE try_unwrap
    <2>1. /\ count = 1 /\ Move("held", "take") /\ count' = 0
          /\ UNCHANGED <<moved, outcome, freed, stopped, clones>>
        BY <1>7 DEF try_unwrap, Only
    <2>2. /\ at' \in [ArcPlaces -> Nat] /\ moved = 0 /\ freed = 0 /\ outcome = "in"
          /\ \A p \in ArcPlaces : at'[p] = IF p = "take" THEN 1 ELSE 0
        BY <2>1, LastArc
    <2>3. plain' \in BOOLEAN /\ plain' = plain
        BY <1>7 DEF try_unwrap
    <2> QED
        BY SMTT(30), <1>1, <2>1, <2>2, <2>3
<1>8. CASE forget
    <2>1. /\ at' \in [ArcPlaces -> Int] /\ at["held"] > 0
          /\ \A p \in ArcPlaces : at'[p] = IF p = "leaked" THEN at[p] + 1
                                         ELSE IF p = "held" THEN at[p] - 1 ELSE at[p]
        BY <1>8 DEF forget, Move
    <2>2. plain' /\ plain' \in BOOLEAN /\ UNCHANGED <<count, moved, outcome, freed, stopped, clones>>
        BY <1>8 DEF forget
    <2>3. /\ at'["held"] = at["held"] - 1 /\ at'["leaked"] = at["leaked"] + 1
          /\ at'["checked"] = at["checked"] /\ at'["over"] = at["over"] /\ at'["drop"] = at["drop"]
          /\ at'["take"] = at["take"] /\ at'["dealloc"] = at["dealloc"]
        BY <2>1
    <2>4. at' \in [ArcPlaces -> Nat]
        <3>1. ASSUME NEW p \in ArcPlaces PROVE at'[p] \in Nat
            BY <2>1
        <3> QED
            BY <2>1, <3>1
    <2>5. ArcTypes'
        BY <2>2, <2>4
    <2>6. ArcRoom' /\ ArcOwners'
        BY <2>2, <2>3
    <2>7. OneLast' /\ Fate'
        BY <2>2, <2>3
    <2> QED
        BY <2>5, <2>6, <2>7
<1>9. CASE drop_value
    BY SMTT(30), <1>1, <1>9 DEF drop_value, Move
<1>10. CASE core_arc_take
    BY SMTT(30), <1>1, <1>10 DEF core_arc_take, Move
<1>11. CASE dealloc
    BY SMTT(30), <1>1, <1>11 DEF dealloc, Leave
<1>12. CASE UNCHANGED arcVars
    BY <1>12 DEF arcVars
<1> QED
    BY <1>2, <1>3, <1>4, <1>5, <1>6, <1>7, <1>8, <1>9, <1>10, <1>11, <1>12 DEF ArcNext, ArcFinished

\* The invariant is true in every state.
LEMMA ArcInvHolds == ArcSpec => []ArcInv
<1> QED
    BY ArcInvInit, ArcInvStep, PTL DEF ArcSpec

\* While a task holds an Arc or clones one, the value is in its block and the block on the
\* heap, whatever drop, try_unwrap and into_inner do to the other clones.
THEOREM ValueIsThere == ArcSpec => []HeldValueIsThere
<1>1. ArcInv => HeldValueIsThere
    BY DEF ArcInv, ArcTypes, ArcOwners, OneLast, HeldValueIsThere, ArcPlaces
<1> QED
    BY <1>1, ArcInvHolds, PTL

\* The count is the number of owners, and its 64-bit add never wraps.
THEOREM CountTrue == ArcSpec => []CountIsTrue
<1>1. ArcInv => CountIsTrue
    BY ArcNoWrap, ArcAssumption DEF ArcInv, Half, ArcTypes, ArcTypeOK, CountIsTrue, ArcOwners
<1> QED
    BY <1>1, ArcInvHolds, PTL

\* The value is moved out once and the block freed once, and of the calls of into_inner and
\* try_unwrap on the clones of one Arc exactly one gets the value.
THEOREM OneTakes == ArcSpec => []OneGetsTheValue
<1>1. ArcInv => OneGetsTheValue
    BY DEF ArcInv, ArcTypes, ArcOwners, OneLast, Fate, OneGetsTheValue, Done, ArcPlaces
<1> QED
    BY <1>1, ArcInvHolds, PTL

-----------------------------------------------------------------------------
(* The ranks of a collective *)

\* The places of rank 0 between its look for a file and its rename.
Writing == {"open", "write", "rename"}

\* No file is there while rank 0 writes one, so no rank has an id yet; the file changes
\* only when no rank has one, and who joins has the id that the file holds.
JobInv ==
  /\ JobTypeOK
  /\ file <= made
  /\ comm \in [1 .. MaxIds -> SUBSET Ranks]
  /\ \A r \in Ranks : stage[r] \in Writing => r = 0
  /\ stage[0] \in Writing => file = NoFile /\ id[0] \in 1 .. made
  /\ stage[0] = "rename" => partial = id[0]
  /\ \A r \in Ranks : stage[r] \in Joining => file # NoFile /\ id[r] = file

\* Before the first job there is no file and no rank.
LEMMA InitJobInv == JobInit => JobInv
  BY JobAssumption DEF JobInit, JobInv, JobTypeOK, Writing, Joining, NoFile, HalfWritten

\* The steps of rank 0 up to its rename, which alone change an id, a file or a count.
LEMMA RankZero ==
  ASSUME JobInv, get_unique_id \/ open_partial \/ write_partial \/ rename
  PROVE  JobInv'
<1> USE JobAssumption DEF JobGoto, Joining, Writing, NoFile, HalfWritten
<1>1. CASE get_unique_id
  BY SMTT(30), <1>1 DEF JobInv, JobTypeOK, get_unique_id, IsThere
<1>2. CASE open_partial
  BY SMTT(30), <1>2 DEF JobInv, JobTypeOK, open_partial
<1>3. CASE write_partial
  BY <1>3 DEF JobInv, JobTypeOK, write_partial
<1>4. CASE rename
  BY SMTT(30), <1>4 DEF JobInv, JobTypeOK, rename, AfterWriting
<1> QED BY <1>1, <1>2, <1>3, <1>4

\* Every step of the ranks keeps the invariant.
LEMMA NextJobInv ==
  ASSUME JobInv, [JobNext]_jobVars
  PROVE  JobInv'
<1> USE JobAssumption DEF JobGoto, Joining, Writing, NoFile, HalfWritten
<1>1. CASE launch
  BY SMTT(30), <1>1 DEF JobInv, JobTypeOK, launch
<1>2. CASE get_unique_id \/ open_partial \/ write_partial \/ rename
  BY <1>2, RankZero
<1>3. ASSUME NEW r \in Ranks, read_unique_id(r)
      PROVE  JobInv'
  BY <1>3 DEF JobInv, JobTypeOK, read_unique_id
<1>4. ASSUME NEW r \in Ranks, timed_out(r) \/ stop(r)
      PROVE  JobInv'
  BY <1>4 DEF JobInv, JobTypeOK, timed_out, stop
<1>5. ASSUME NEW r \in Ranks, CommInitRank(r)
      PROVE  JobInv'
  BY <1>5 DEF JobInv, JobTypeOK, CommInitRank
<1>6. ASSUME NEW r \in Ranks, joined(r)
      PROVE  JobInv'
  BY <1>6 DEF JobInv, JobTypeOK, joined
<1>7. ASSUME NEW r \in Ranks, finish(r)
      PROVE  JobInv'
  BY SMTT(30), <1>7 DEF JobInv, JobTypeOK, finish
<1>8. CASE UNCHANGED jobVars
  BY <1>8 DEF JobInv, JobTypeOK, jobVars
<1> QED BY <1>1, <1>2, <1>3, <1>4, <1>5, <1>6, <1>7, <1>8 DEF JobNext

\* Ranks that join have the id of rank 0: `init` of vx_collective.h stops rank 0 when a
\* file is already there, and renames the file only when its id is whole.
THEOREM OneId == JobSpec => []AllHaveTheIdOfRank0
<1>1. JobInv => AllHaveTheIdOfRank0
  BY JobAssumption DEF JobInv, JobTypeOK, AllHaveTheIdOfRank0, Joining, NoFile
<1> QED BY <1>1, InitJobInv, NextJobInv, PTL DEF JobSpec
=============================================================================
