--------------------------- MODULE ChannelProofs ----------------------------
(***************************************************************************)
(* For any number of senders, any number of slots and any bound on the     *)
(* sends, with any tasks cancelled or timed: the properties of Channel.    *)
(***************************************************************************)
EXTENDS Channel, TLAPS

\* The first-order prover is the one to try, unless a leaf names another.
USE Zenon

-----------------------------------------------------------------------------
\* The invariants

\* What the code puts into each variable, whatever the other ones hold.
Values == Nat \cup {None}
WordTypes ==
  words \in [SENDS : Nat, RECVS : Nat, SENDERS : Int, RECEIVER : {0, 1}, ENDS : Int,
             SLEEPERS : Int, SKIPS : Int, SELECTS : Int]
RingTypes == slot \in [Slots -> Nat] /\ data \in [Slots -> Values] /\ skips \subseteq Nat
PlaceTypes == pc \in [Tasks -> Places] /\ then \in [Tasks -> {"idle", "release", "wake", "senders"}]
LocalTypes ==
  /\ num \in [Tasks -> Nat] /\ news \in [Tasks -> BOOLEAN]
  /\ closed \in BOOLEAN /\ mode \in {"recv", "try", "select"}
  /\ cancelled \subseteq Cancels
HistoryTypes ==
  freed \in BOOLEAN /\ out \in Seq(Values) /\ back \subseteq Nat /\ dropped \subseteq Values
    /\ told \in BOOLEAN
Types == WordTypes /\ RingTypes /\ PlaceTypes /\ LocalTypes /\ HistoryTypes

\* The places of a sender and of the receiver, and a task that gave its end up.
InNotify == {"notify", "sleepers", "wake_all", "any", "selects", "wake_any"}
InSleep == {"wait", "asleep", "uncount"}
Leaves(t) == pc[t] \in {"release", "gone"} \/ (pc[t] \in InNotify /\ then[t] = "release")

SenderPlaces == {"unborn", "newborn", "idle", "cloning", "release", "gone"} \cup InNotify \cup Sending
ReceiverPlaces ==
  {"idle", "over", "release", "gone", "wake", "cancelled", "senders", "slot_of_recv", "take", "taken",
   "skips", "take_skip", "pass", "passed", "none", "count"} \cup InSleep \cup InNotify

PlaceInv ==
  /\ \A s \in Senders : pc[s] \in SenderPlaces /\ then[s] \in {"idle", "release"}
  /\ pc[Receiver] \in ReceiverPlaces
  /\ words.RECEIVER = 1 <=> ~Leaves(Receiver)
  /\ pc[Receiver] \in {"count"} \cup InSleep => ~closed /\ mode # "try"

\* The set S has n elements: some list has each of them once.
Counts(S, n) ==
  /\ n \in Nat
  /\ \E f \in [1..n -> S] : /\ \A x \in S : \E i \in 1..n : f[i] = x
                            /\ \A i, j \in 1..n : f[i] = f[j] => i = j

\* What the counters count.
Live      == {s \in Senders : pc[s] # "unborn" /\ ~Leaves(s)}
Ending    == {t \in Tasks : pc[t] \notin {"unborn", "newborn", "gone"}}
Newborn   == {s \in Senders : pc[s] = "newborn"}
Cloning   == {s \in Senders : pc[s] = "cloning"}
Sleepers  == {t \in Tasks : pc[t] \in InSleep /\ ~Selects(t)}
Selecting == {t \in Tasks : pc[t] \in InSleep /\ Selects(t)}
CountInv ==
  /\ Counts(Live, words.SENDERS) /\ Counts(Ending, words.ENDS)
  /\ \E n \in Nat : Counts(Newborn, n) /\ Counts(Cloning, n)
  /\ Counts(Sleepers, words.SLEEPERS) /\ Counts(Selecting, words.SELECTS)
  /\ freed => \A t \in Tasks : pc[t] \in {"unborn", "gone"}

\* The numbers of the tasks.  The receiver has the next number to receive, but for the
\* moment between its store to RECVS and its store to the slot.
Freeing == pc[Receiver] \in {"taken", "passed"}
Asking ==
  \/ pc[Receiver] \in {"wake", "cancelled", "senders", "slot_of_recv", "take", "skips", "take_skip",
                       "pass", "none", "count"} \cup InSleep
  \/ pc[Receiver] \in InNotify /\ then[Receiver] \in {"wake", "senders"}
Base == IF Freeing THEN words.RECVS - 1 ELSE words.RECVS
NumInv ==
  /\ words.RECVS <= words.SENDS /\ words.SENDS <= MaxSends
  /\ \A s \in Senders : pc[s] \in Sending => num[s] < words.SENDS
  /\ \A s, u \in Senders : pc[s] \in Sending /\ pc[u] \in Sending /\ num[s] = num[u] => s = u
  /\ \A s \in Senders : pc[s] \in Sending /\ pc[s] # "skipped" => num[s] >= words.RECVS
  /\ Asking => num[Receiver] = words.RECVS
  /\ Freeing => num[Receiver] + 1 = words.RECVS

\* The slots are those of the next numbers to receive, each free or full.
Full(k) == slot[k % cap] = 2 * k + 1
RingInv ==
  /\ \A k \in Nat : Base <= k /\ k < Base + cap =>
       slot[k % cap] = 2 * k \/ (Full(k) /\ k < words.SENDS /\ data[k % cap] = k)
  /\ \A s \in Senders : /\ pc[s] \in {"write", "full"} => slot[SlotOf(s)] = 2 * num[s]
                        /\ pc[s] = "full" => data[SlotOf(s)] = num[s]
  /\ pc[Receiver] = "take" => Full(num[Receiver])

DataInv == \A i \in Slots : data[i] # None => data[i] < words.SENDS

\* Where each value is.
Passing(k) == pc[Receiver] = "pass" /\ num[Receiver] = k
SkippedBy(k) == \E s \in Senders : pc[s] = "skipped" /\ num[s] = k
Received(k) == \E i \in 1..Len(out) : out[i] = k
HoldInv ==
  \A s \in Senders : pc[s] \in Sending =>
    /\ ~Full(num[s]) /\ num[s] \notin back /\ ~Received(num[s])
    /\ pc[s] # "skipped" => num[s] \notin skips /\ ~Passing(num[s])
SkipInv ==
  \A k \in Nat :
    /\ k \in skips \/ Passing(k) =>
         words.RECVS <= k /\ k < words.SENDS /\ ~Full(k) /\ (k \in back \/ SkippedBy(k))
    /\ ~(k \in skips /\ Passing(k))
BackInv == \A k \in back : k < words.SENDS /\ ~Full(k) /\ ~Received(k)
OutInv ==
  /\ \A i \in 1..Len(out) : out[i] \in Nat /\ out[i] < words.RECVS
  /\ \A i, j \in 1..Len(out) : out[i] = out[j] => i = j
Held(k) == \E s \in Senders : pc[s] \in Sending /\ num[s] = k
CoverInv ==
  \A k \in Nat : k < words.SENDS => Held(k) \/ (k >= words.RECVS /\ Full(k)) \/ Received(k) \/ k \in back
DropInv == dropped = IF freed THEN {k \in words.RECVS..(words.SENDS - 1) : Full(k)} ELSE {}
ValueInv == HoldInv /\ SkipInv /\ BackInv /\ OutInv /\ CoverInv /\ DropInv

\* What a receive knows once it saw that no sender is left.
Skipped == {s \in Senders : pc[s] = "skipped"}
Passes == IF pc[Receiver] = "pass" THEN 1 ELSE 0
SkipsCounted ==
  ~freed => \E m, n \in Nat : Counts(Skipped, m) /\ Counts(skips, n) /\ words.SKIPS + m = n + Passes
SkipsShown ==
  words.RECEIVER = 1 => \A k \in Nat : k \in back \/ SkippedBy(k) =>
    k < words.RECVS \/ k \in skips \/ Passing(k)
ClosedSeen ==
  closed => /\ words.SENDERS = 0
            /\ pc[Receiver] \in {"skips", "take_skip", "none"} => ~Full(num[Receiver])
            /\ pc[Receiver] = "none" => num[Receiver] \notin skips
ToldInv ==
  told => /\ words.SENDERS = 0 /\ words.RECVS = words.SENDS
          /\ pc[Receiver] = "over" \/ Leaves(Receiver)
ClosedInv == SkipsCounted /\ SkipsShown /\ ClosedSeen /\ ToldInv

\* The wait of a task is over, though it saw no sign of that yet.
Due(t) ==
  \/ t \in Senders /\ \/ pc[t] \in {"slot", "check", "count", "wait", "asleep"} /\ words.RECEIVER = 0
                      \/ pc[t] \in {"check", "count", "wait", "asleep"} /\ IsMyTurn(t)
  \/ t = Receiver /\ \/ /\ pc[t] \in {"slot_of_recv", "skips", "take_skip", "none", "count", "wait", "asleep"}
                        /\ ~closed /\ words.SENDERS = 0
                     \/ pc[t] \in {"skips", "take_skip", "none", "count", "wait", "asleep"} /\ Full(num[t])
                     \/ /\ pc[t] \in {"none", "count", "wait", "asleep"}
                        /\ num[t] \in skips /\ words.SKIPS > 0

\* The change of the word that the wait of a task counts on, and then the wake.
Coming(t) ==
  \E u \in Tasks : \/ pc[u] \in {"skipped", "notify"}
                   \/ Selects(t) /\ pc[u] \in {"sleepers", "wake_all", "any"}
Woken(t) ==
  \E u \in Tasks : \/ ~Selects(t) /\ pc[u] \in {"sleepers", "wake_all"}
                   \/ Selects(t) /\ pc[u] \in {"selects", "wake_any"}
WakeInv ==
  \A t \in Tasks : /\ pc[t] = "asleep" /\ news[t] => Woken(t)
                   /\ Due(t) /\ ~news[t] => Coming(t)

-----------------------------------------------------------------------------
\* The arithmetic of the slots

\* What the quotient and the remainder of a number are.
LEMMA Division ==
  ASSUME NEW k \in Nat, NEW c \in Nat, c > 0
  PROVE  k \div c \in Nat /\ k % c \in 0..(c - 1) /\ k = c * (k \div c) + (k % c)
<1>1. k \div c \in Nat
  BY SMT
<1>2. k % c \in 0..(c - 1)
  BY SMT
<1>3. k = c * (k \div c) + (k % c)
  BY Z3
<1> QED BY <1>1, <1>2, <1>3

\* A number is a slot plus a multiple of the capacity: the slot of its lap.
LEMMA ModIs ==
  ASSUME NEW k \in Nat
  PROVE  /\ k % cap \in Slots
         /\ \E q \in Nat : k = cap * q + (k % cap)
<1>0. cap \in Nat /\ cap > 0
  BY SMT, ChannelAssumption
<1>1. k \div cap \in Nat /\ k % cap \in 0..(cap - 1) /\ k = cap * (k \div cap) + (k % cap)
  BY <1>0, Division
<1> QED BY <1>1 DEF Slots

\* In each lap of the ring a slot has one number.
LEMMA ModUnique ==
  ASSUME NEW q \in Nat, NEW i \in Slots
  PROVE  (cap * q + i) % cap = i
BY SMT, ChannelAssumption DEF Slots

\* The next number of a slot is one capacity later.
LEMMA ModShift ==
  ASSUME NEW k \in Nat
  PROVE  (k + cap) % cap = k % cap
<1>0. cap \in Nat /\ cap > 0
  BY SMT, ChannelAssumption
<1>1. PICK q \in Nat : k = cap * q + (k % cap)
  BY ModIs
<1>2. k % cap \in Slots /\ k % cap \in Int
  BY SMT, ModIs, <1>0 DEF Slots
<1>3. k + cap = cap * (q + 1) + (k % cap)
  BY SMT, <1>0, <1>1, <1>2
<1>4. q + 1 \in Nat
  BY SMT
<1> QED BY SMT, <1>2, <1>3, <1>4, ModUnique

\* Two numbers of one slot are `cap` apart.
LEMMA Window ==
  ASSUME NEW j \in Nat, NEW k \in Nat, NEW b \in Int, b <= j, j < b + cap, b <= k, k < b + cap,
         j % cap = k % cap
  PROVE  j = k
<1>0. cap \in Nat /\ cap > 0
  BY SMT, ChannelAssumption
<1>1. PICK q \in Nat : k = cap * q + (k % cap)
  BY ModIs
<1>2. PICK p \in Nat : j = cap * p + (j % cap)
  BY ModIs
<1>3. k % cap \in Int
  BY SMT, ModIs, <1>0 DEF Slots
<1>4. ~(p >= q + 1) /\ ~(q >= p + 1)
  <2>1. p >= q + 1 => cap * p >= cap * q + cap
    BY SMT, <1>0
  <2>2. q >= p + 1 => cap * q >= cap * p + cap
    BY SMT, <1>0
  <2>3. cap * p \in Int /\ cap * q \in Int
    BY SMT, <1>0
  <2> QED BY SMT, <1>0, <1>1, <1>2, <1>3, <2>1, <2>2, <2>3
<1>5. p = q
  BY SMT, <1>4
<1> QED BY <1>1, <1>2, <1>5

\* Each slot has a number of the window.
LEMMA InWindow ==
  ASSUME NEW k \in Nat, NEW b \in Nat
  PROVE  \E j \in Nat : b <= j /\ j < b + cap /\ j % cap = k % cap
<1>0. cap \in Nat /\ cap > 0
  BY SMT, ChannelAssumption
<1>1. PICK q \in Nat : b = cap * q + (b % cap)
  BY ModIs
<1>2. /\ b % cap \in Int /\ 0 <= b % cap /\ b % cap < cap /\ k % cap \in Slots
      /\ k % cap \in Int /\ 0 <= k % cap /\ k % cap < cap
  BY SMT, ModIs, <1>0 DEF Slots
<1> DEFINE m == k % cap
           j1 == cap * q + m
           j2 == cap * (q + 1) + m
<1>3. cap * q \in Nat /\ cap * (q + 1) = cap * q + cap /\ q + 1 \in Nat
  BY SMT, <1>0
<1>4. j1 % cap = m /\ j2 % cap = m
  BY <1>2, <1>3, ModUnique
<1>5. j1 \in Nat /\ j2 \in Nat /\ j2 = j1 + cap /\ j1 < b + cap /\ j2 >= b
  BY SMT, <1>0, <1>1, <1>2, <1>3
<1> HIDE DEF m, j1, j2
<1>6. CASE j1 >= b
  BY <1>4, <1>5, <1>6 DEF m
<1>7. CASE j1 < b
  BY SMT, <1>0, <1>4, <1>5, <1>7 DEF m
<1> QED BY SMT, <1>5, <1>6, <1>7

-----------------------------------------------------------------------------
\* The types

USE DEF Tasks, ring, place, history, Goto, Notify

\* The steps that every task has, those of a sender and those of the receiver.
LEMMA Split ==
  ASSUME [Next]_vars
  PROVE  \/ \E t \in Tasks : Step(t) \/ wait_ends_early(t) \/ cancel(t)
         \/ \E s \in Senders : Send(s) \/ take_number(s) \/ drop_sender(s) \/ \E t \in Senders : clone(s, t)
         \/ Receive(Receiver) \/ recv(Receiver) \/ try_recv(Receiver) \/ select(Receiver)
              \/ drop_receiver(Receiver)
         \/ UNCHANGED vars
BY DEF Next, SendEnd, ReceiveEnd, Finished

\* The slot of a task's number is in the ring.
LEMMA SlotType ==
  ASSUME LocalTypes, NEW t \in Tasks
  PROVE  num[t] \in Nat /\ SlotOf(t) \in Slots
BY ModIs DEF LocalTypes, SlotOf

\* Every step keeps the types of the counters.
LEMMA WordTypesStep == ASSUME WordTypes, LocalTypes, [Next]_vars PROVE WordTypes'
<1>0. num \in [Tasks -> Nat]
  BY DEF LocalTypes
<1>1. ASSUME NEW t \in Tasks, Step(t) \/ wait_ends_early(t) \/ cancel(t) PROVE WordTypes'
  <2>1. CASE notify(t) \/ load_sleepers(t) \/ wake_all(t) \/ notify_any(t) \/ load_selects(t) \/ wake_any(t)
    BY SMT, <2>1 DEF WordTypes, notify, load_sleepers, wake_all, notify_any, load_selects, wake_any
  <2>2. CASE load_wake(t) \/ wait_while_until(t) \/ wait_ends_early(t) \/ cancel(t)
    BY SMT, <2>2 DEF WordTypes, load_wake, wait_while_until, wait_ends_early, cancel
  <2>3. CASE count_sleeper(t) \/ uncount_sleeper(t) \/ release(t)
    BY SMT, <2>3 DEF WordTypes, count_sleeper, uncount_sleeper, release, Count
  <2> QED BY <1>1, <2>1, <2>2, <2>3 DEF Step
<1>2. ASSUME NEW s \in Senders, Send(s) \/ take_number(s) \/ drop_sender(s) \/ \E t \in Senders : clone(s, t)
      PROVE  WordTypes'
  <2>1. CASE load_receiver(s) \/ load_slot(s) \/ write_value(s) \/ store_full(s)
    BY SMT, <2>1 DEF WordTypes, load_receiver, load_slot, write_value, store_full
  <2>2. CASE check_limits(s) \/ vx_channel_skip(s) \/ count_skip(s)
    BY SMT, <2>2 DEF WordTypes, check_limits, vx_channel_skip, count_skip
  <2>3. CASE take_number(s) \/ drop_sender(s)
    BY SMT, <2>3 DEF WordTypes, take_number, drop_sender
  <2>4. ASSUME NEW t \in Senders, clone_end(s, t) \/ clone(s, t)
        PROVE  WordTypes'
    BY SMT, <2>4 DEF WordTypes, clone_end, clone, CountEnd
  <2> QED BY <1>2, <2>1, <2>2, <2>3, <2>4 DEF Send
<1>3. ASSUME Receive(Receiver) \/ recv(Receiver) \/ try_recv(Receiver) \/ select(Receiver)
               \/ drop_receiver(Receiver)
      PROVE  WordTypes'
  <2>1. num[Receiver] + 1 \in Nat
    BY SMT, <1>0
  <2>2. CASE take_slot(Receiver)
    BY <2>1, <2>2 DEF WordTypes, take_slot
  <2>3. CASE pass_number(Receiver)
    <3>1. words.SKIPS - 1 \in Int
      BY SMT DEF WordTypes
    <3> QED BY <2>1, <2>3, <3>1 DEF WordTypes, pass_number
  <2>4. CASE drop_receiver(Receiver)
    BY <2>4 DEF WordTypes, drop_receiver
  <2> QED
  BY <1>3, <2>2, <2>3, <2>4 DEF WordTypes, Receive, load_cancelled, load_senders, load_full, store_taken,
                                load_skips, vx_channel_take_skip, pass_slot, gives_none, recv, try_recv, select
<1>4. CASE UNCHANGED vars
  BY <1>4 DEF WordTypes, vars
<1> QED BY <1>1, <1>2, <1>3, <1>4, Split

\* Every step keeps the types of the slots and of the skip set.
LEMMA RingTypesStep == ASSUME RingTypes, LocalTypes, [Next]_vars PROVE RingTypes'
<1>0. num \in [Tasks -> Nat] /\ cap \in Nat /\ \A t \in Tasks : SlotOf(t) \in Slots
  BY SlotType, ChannelAssumption DEF LocalTypes
<1>1. ASSUME NEW t \in Tasks, Step(t) \/ wait_ends_early(t) \/ cancel(t) PROVE RingTypes'
  BY <1>1 DEF RingTypes, Step, notify, load_sleepers, wake_all, notify_any, load_selects, wake_any, load_wake,
              count_sleeper, wait_while_until, uncount_sleeper, release, wait_ends_early, cancel
<1>2. ASSUME NEW s \in Senders, Send(s) \/ take_number(s) \/ drop_sender(s) \/ \E t \in Senders : clone(s, t)
      PROVE  RingTypes'
  <2>1. CASE load_receiver(s) \/ load_slot(s)
    BY <2>1 DEF RingTypes, load_receiver, load_slot
  <2>2. CASE write_value(s)
    <3>1. num[s] \in Values
      BY <1>0 DEF Values
    <3> QED BY <1>0, <2>2, <3>1 DEF RingTypes, write_value
  <2>3. CASE store_full(s)
    BY SMT, <1>0, <2>3 DEF RingTypes, Values, store_full
  <2>4. CASE check_limits(s) \/ vx_channel_skip(s) \/ count_skip(s)
    BY SMT, <1>0, <2>4 DEF RingTypes, Values, check_limits, vx_channel_skip, count_skip
  <2>5. CASE take_number(s) \/ drop_sender(s)
    BY SMT, <1>0, <2>5 DEF RingTypes, Values, take_number, drop_sender
  <2>6. ASSUME NEW t \in Senders, clone_end(s, t) \/ clone(s, t)
        PROVE  RingTypes'
    BY SMT, <1>0, <2>6 DEF RingTypes, Values, clone_end, clone, CountEnd
  <2> QED BY <1>2, <2>1, <2>2, <2>3, <2>4, <2>5, <2>6 DEF Send
<1>3. ASSUME Receive(Receiver) \/ recv(Receiver) \/ try_recv(Receiver) \/ select(Receiver)
               \/ drop_receiver(Receiver)
      PROVE  RingTypes'
  <2>1. CASE load_cancelled(Receiver) \/ load_senders(Receiver) \/ load_full(Receiver) \/ take_slot(Receiver)
    BY SMT, <1>0, <2>1 DEF RingTypes, FreeSlot, load_cancelled, load_senders, load_full, take_slot
  <2>2. CASE store_taken(Receiver) \/ pass_slot(Receiver)
    <3>1. Receiver \in Tasks /\ num[Receiver] \in Nat
      BY <1>0
    <3>2. 2 * (num[Receiver] + cap) \in Nat
      BY SMT, <1>0, <3>1
    <3>3. slot' = FreeSlot(Receiver) /\ UNCHANGED <<data, skips>>
      BY <2>2 DEF store_taken, pass_slot
    <3> QED BY <3>2, <3>3 DEF RingTypes, FreeSlot
  <2>3. CASE load_skips(Receiver) \/ vx_channel_take_skip(Receiver) \/ pass_number(Receiver) \/ gives_none(Receiver)
    BY SMT, <1>0, <2>3 DEF RingTypes, FreeSlot, load_skips, vx_channel_take_skip, pass_number, gives_none
  <2>4. CASE recv(Receiver) \/ try_recv(Receiver) \/ select(Receiver) \/ drop_receiver(Receiver)
    BY SMT, <1>0, <2>4 DEF RingTypes, FreeSlot, recv, try_recv, select, drop_receiver
  <2> QED BY <1>3, <2>1, <2>2, <2>3, <2>4 DEF Receive
<1>4. CASE UNCHANGED vars
  BY <1>4 DEF RingTypes, vars
<1> QED BY <1>1, <1>2, <1>3, <1>4, Split

\* Every step leads to a place of the code.
LEMMA PlaceTypesStep == ASSUME PlaceTypes, [Next]_vars PROVE PlaceTypes'
<1>0. "idle" \in Places /\ "release" \in Places /\ "wake" \in Places /\ "senders" \in Places
  BY DEF Places
<1>1. ASSUME NEW t \in Tasks, Step(t) \/ wait_ends_early(t) \/ cancel(t) PROVE PlaceTypes'
  <2>1. \A u \in Tasks : then[u] \in Places
    BY <1>0 DEF PlaceTypes
  <2>2. CASE \E to \in Places : Goto(t, to)
    BY <2>2 DEF PlaceTypes
  <2>3. CASE \E to \in Places : \E who : Wake(t, who, to) /\ UNCHANGED then
    BY SMT, <2>3 DEF PlaceTypes, Wake, Places
  <2>4. notify(t) \/ load_sleepers(t) \/ notify_any(t) \/ load_selects(t) \/ load_wake(t) \/ count_sleeper(t)
          \/ wait_while_until(t) \/ uncount_sleeper(t) \/ release(t) \/ wait_ends_early(t)
        => \E to \in Places : Goto(t, to)
    <3>1. CASE notify(t) \/ load_sleepers(t) \/ notify_any(t)
      BY SMT, <2>1, <3>1 DEF Places, notify, load_sleepers, notify_any
    <3>2. CASE load_selects(t) \/ load_wake(t) \/ count_sleeper(t)
      BY SMT, <2>1, <3>2 DEF Places, load_selects, load_wake, count_sleeper
    <3>3. CASE wait_while_until(t) \/ uncount_sleeper(t)
      BY SMT, <2>1, <3>3 DEF Places, wait_while_until, uncount_sleeper
    <3>4. CASE release(t) \/ wait_ends_early(t)
      BY SMT, <2>1, <3>4 DEF Places, release, wait_ends_early
    <3> QED BY <3>1, <3>2, <3>3, <3>4
  <2>5. cancel(t) => \E to \in Places : Goto(t, to)
    <3>1. pc[t] \in Places /\ "uncount" \in Places
      BY DEF PlaceTypes, Places
    <3>2. (IF pc[t] = "asleep" THEN "uncount" ELSE pc[t]) \in Places
      BY <3>1
    <3> QED BY <3>2 DEF cancel
  <2>6. wake_all(t) \/ wake_any(t) => \E to \in Places : \E who : Wake(t, who, to) /\ UNCHANGED then
    BY <2>1 DEF Places, wake_all, wake_any
  <2> QED BY <1>1, <2>2, <2>3, <2>4, <2>5, <2>6 DEF Step
<1>2. ASSUME NEW s \in Senders, Send(s) \/ take_number(s) \/ drop_sender(s) \/ \E t \in Senders : clone(s, t)
      PROVE  PlaceTypes'
  <2>1. CASE load_receiver(s) \/ load_slot(s) \/ write_value(s) \/ store_full(s)
    BY SMT, <2>1 DEF PlaceTypes, Places, load_receiver, load_slot, write_value, store_full
  <2>2. CASE check_limits(s) \/ vx_channel_skip(s) \/ count_skip(s)
    BY SMT, <2>2 DEF PlaceTypes, Places, check_limits, vx_channel_skip, count_skip
  <2>3. CASE take_number(s) \/ drop_sender(s)
    BY SMT, <2>3 DEF PlaceTypes, Places, take_number, drop_sender
  <2>4. ASSUME NEW t \in Senders, clone_end(s, t) \/ clone(s, t)
        PROVE  PlaceTypes'
    BY SMT, <2>4 DEF PlaceTypes, Places, clone_end, clone, CountEnd
  <2> QED BY <1>2, <2>1, <2>2, <2>3, <2>4 DEF Send
<1>3. ASSUME Receive(Receiver) \/ recv(Receiver) \/ try_recv(Receiver) \/ select(Receiver)
               \/ drop_receiver(Receiver)
      PROVE  PlaceTypes'
  <2>1. CASE load_cancelled(Receiver) \/ load_senders(Receiver) \/ load_full(Receiver) \/ take_slot(Receiver)
    BY SMT, <2>1 DEF PlaceTypes, Places, load_cancelled, load_senders, load_full, take_slot
  <2>2. CASE store_taken(Receiver) \/ load_skips(Receiver) \/ vx_channel_take_skip(Receiver) \/ pass_number(Receiver)
    BY SMT, <2>2 DEF PlaceTypes, Places, store_taken, load_skips, vx_channel_take_skip, pass_number
  <2>3. CASE pass_slot(Receiver) \/ gives_none(Receiver) \/ recv(Receiver) \/ try_recv(Receiver)
    BY SMT, <2>3 DEF PlaceTypes, Places, pass_slot, gives_none, recv, try_recv
  <2>4. CASE select(Receiver) \/ drop_receiver(Receiver)
    BY SMT, <2>4 DEF PlaceTypes, Places, select, drop_receiver
  <2> QED BY <1>3, <2>1, <2>2, <2>3, <2>4 DEF Receive
<1>4. CASE UNCHANGED vars
  BY <1>4 DEF PlaceTypes, vars
<1> QED BY <1>1, <1>2, <1>3, <1>4, Split

\* A call that ends leaves locals of their types.
LEMMA EndsTypes ==
  ASSUME LocalTypes, NEW t \in Tasks, Ends(t), UNCHANGED cancelled
  PROVE  LocalTypes'
<1>1. num' \in [Tasks -> Nat] /\ news' \in [Tasks -> BOOLEAN]
  BY DEF LocalTypes, Ends
<1>2. closed' \in BOOLEAN /\ mode' \in {"recv", "try", "select"}
  BY DEF LocalTypes, Ends
<1> QED BY <1>1, <1>2 DEF LocalTypes

\* Every step keeps the types of the locals.
LEMMA LocalTypesStep == ASSUME WordTypes, LocalTypes, [Next]_vars PROVE LocalTypes'
<1>0. words.SENDS \in Nat /\ words.RECVS \in Nat
  BY DEF WordTypes
<1>1. ASSUME NEW t \in Tasks, Step(t) \/ wait_ends_early(t) \/ cancel(t) PROVE LocalTypes'
  BY <1>1 DEF LocalTypes, Step, notify, load_sleepers, wake_all, notify_any, load_selects, wake_any, load_wake,
              count_sleeper, wait_while_until, uncount_sleeper, release, wait_ends_early, cancel, Tell
<1>2. ASSUME NEW s \in Senders, Send(s) \/ take_number(s) \/ drop_sender(s) \/ \E t \in Senders : clone(s, t)
      PROVE  LocalTypes'
  <2>1. CASE Ends(s) /\ UNCHANGED cancelled
    BY <2>1, EndsTypes
  <2>2. CASE take_number(s)
    BY <1>0, <2>2 DEF LocalTypes, take_number
  <2>3. CASE UNCHANGED <<num, news, closed, mode, cancelled>>
    BY <2>3 DEF LocalTypes
  <2> QED
  BY <1>2, <2>1, <2>2, <2>3 DEF Send, load_receiver, load_slot, write_value, store_full, check_limits,
                                vx_channel_skip, count_skip, clone_end, drop_sender, clone, Keeps
<1>3. ASSUME Receive(Receiver) \/ recv(Receiver) \/ try_recv(Receiver) \/ select(Receiver)
               \/ drop_receiver(Receiver)
      PROVE  LocalTypes'
  <2>1. CASE Ends(Receiver) /\ UNCHANGED cancelled
    BY <2>1, EndsTypes
  <2>2. CASE recv(Receiver) \/ try_recv(Receiver) \/ select(Receiver)
    BY <1>0, <2>2 DEF LocalTypes, recv, try_recv, select
  <2>3. CASE UNCHANGED <<num, news, closed, mode, cancelled>>
    BY <2>3 DEF LocalTypes
  <2>4. CASE load_senders(Receiver)
    <3>1. closed' \in BOOLEAN
      BY <2>4 DEF load_senders
    <3> QED BY <2>4, <3>1 DEF LocalTypes, load_senders
  <2>5. CASE pass_slot(Receiver)
    BY SMT, <2>5 DEF LocalTypes, pass_slot
  <2> QED
  BY <1>3, <2>1, <2>2, <2>3, <2>4, <2>5 DEF Receive, load_cancelled, load_full, take_slot, store_taken,
                                            load_skips, vx_channel_take_skip, pass_number, gives_none,
                                            drop_receiver, Keeps
<1>4. CASE UNCHANGED vars
  BY <1>4 DEF LocalTypes, vars
<1> QED BY <1>1, <1>2, <1>3, <1>4, Split

\* Every step keeps the types of what was received, given back and dropped.
LEMMA HistoryTypesStep == ASSUME Types, [Next]_vars PROVE HistoryTypes'
<1>0. num \in [Tasks -> Nat] /\ \A t \in Tasks : data[SlotOf(t)] \in Values
  BY SlotType DEF Types, RingTypes, LocalTypes
<1>1. ASSUME NEW t \in Tasks, Step(t) \/ wait_ends_early(t) \/ cancel(t) PROVE HistoryTypes'
  <2>1. CASE release(t)
    <3>1. words.SENDS \in Nat /\ words.RECVS \in Nat
      BY DEF Types, WordTypes
    <3>2. \A k \in Left : data[k % cap] \in Values
      BY SMT, <3>1, ModIs DEF Left, Types, RingTypes
    <3> QED BY <2>1, <3>2 DEF release, Types, HistoryTypes
  <2> QED
  BY <1>1, <2>1 DEF Types, HistoryTypes, Step, notify, load_sleepers, wake_all, notify_any, load_selects,
                    wake_any, load_wake, count_sleeper, wait_while_until, uncount_sleeper, wait_ends_early,
                    cancel
<1>2. ASSUME NEW s \in Senders, Send(s) \/ take_number(s) \/ drop_sender(s) \/ \E t \in Senders : clone(s, t)
      PROVE  HistoryTypes'
  BY <1>0, <1>2 DEF Types, HistoryTypes, Send, load_receiver, load_slot, write_value, store_full, check_limits,
                    vx_channel_skip, count_skip, clone_end, take_number, drop_sender, clone
<1>3. ASSUME Receive(Receiver) \/ recv(Receiver) \/ try_recv(Receiver) \/ select(Receiver)
               \/ drop_receiver(Receiver)
      PROVE  HistoryTypes'
  <2>1. CASE take_slot(Receiver)
    BY SMT, <1>0, <2>1 DEF Types, HistoryTypes, take_slot
  <2>2. CASE gives_none(Receiver)
    <3>1. told' \in BOOLEAN
      BY <2>2 DEF gives_none
    <3> QED BY <2>2, <3>1 DEF Types, HistoryTypes, gives_none
  <2> QED
  BY <1>3, <2>1, <2>2 DEF Types, HistoryTypes, Receive, load_cancelled, load_senders, load_full, store_taken,
                          load_skips, vx_channel_take_skip, pass_number, pass_slot, recv, try_recv, select,
                          drop_receiver
<1>4. CASE UNCHANGED vars
  BY <1>4 DEF Types, HistoryTypes, vars
<1> QED BY <1>1, <1>2, <1>3, <1>4, Split

\* Every step keeps the types.
LEMMA TypesStep == ASSUME Types, [Next]_vars PROVE Types'
BY WordTypesStep, RingTypesStep, PlaceTypesStep, LocalTypesStep, HistoryTypesStep DEF Types

-----------------------------------------------------------------------------
\* The places

\* The steps of notify, of a wait and of a drop, as the other invariants see them.
Along(t) ==
  \/ pc[t] \in InNotify /\ pc'[t] \in InNotify \cup {then[t]}
  \/ pc[t] = "wake"
       /\ pc'[t] = IF t \in Senders THEN "receiver" ELSE IF Selects(t) THEN "senders" ELSE "cancelled"
  \/ pc[t] = "count" /\ pc'[t] = "wait"
  \/ pc[t] \in {"wait", "asleep"} /\ pc'[t] \in {"asleep", "uncount"}
  \/ pc[t] = "uncount" /\ pc'[t] = IF Selects(t) THEN "cancelled" ELSE "wake"
  \/ pc[t] = "release" /\ pc'[t] = "gone"
  \/ pc'[t] = pc[t]

Moves(t) ==
  /\ UNCHANGED <<then, slot, data, num, closed, mode, out, back, told>>
  /\ words'.SENDS = words.SENDS /\ words'.RECVS = words.RECVS /\ words'.SENDERS = words.SENDERS
  /\ words'.RECEIVER = words.RECEIVER /\ words'.SKIPS = words.SKIPS
  /\ release(t) \/ UNCHANGED <<skips, dropped, freed>>
  /\ Along(t)
  /\ \A u \in Tasks : u # t => pc'[u] = pc[u] \/ (pc[u] = "asleep" /\ pc'[u] = "uncount")

\* The steps of notify, of a wait and of a drop hand out no number and move no value.
LEMMA StepMoves ==
  ASSUME Types, NEW t \in Tasks, Step(t) \/ wait_ends_early(t) \/ cancel(t)
  PROVE  Moves(t)
<1>0. pc \in [Tasks -> Places] /\ WordTypes
  BY DEF Types, PlaceTypes
<1>1. ASSUME NEW to, Goto(t, to)
      PROVE  /\ UNCHANGED then /\ pc'[t] = to
             /\ \A u \in Tasks : u # t => pc'[u] = pc[u] \/ (pc[u] = "asleep" /\ pc'[u] = "uncount")
  BY <1>0, <1>1
<1>2. CASE notify(t) \/ load_sleepers(t)
  BY <1>0, <1>2 DEF notify, load_sleepers, Moves, Along, InNotify
<1>3. CASE notify_any(t) \/ load_selects(t)
  BY <1>0, <1>3 DEF notify_any, load_selects, Moves, Along, InNotify
<1>4. CASE wake_all(t)
  BY <1>0, <1>4 DEF wake_all, Wake, Moves, Along, InNotify
<1>5. CASE wake_any(t)
  BY <1>0, <1>5 DEF wake_any, Wake, Moves, Along, InNotify
<1>6. CASE load_wake(t)
  BY <1>0, <1>6 DEF load_wake, Moves, Along
<1>7. CASE count_sleeper(t) \/ uncount_sleeper(t)
  <2>1. /\ words'.SENDS = words.SENDS /\ words'.RECVS = words.RECVS /\ words'.SENDERS = words.SENDERS
        /\ words'.RECEIVER = words.RECEIVER /\ words'.SKIPS = words.SKIPS
    BY SMT, <1>0, <1>7 DEF count_sleeper, uncount_sleeper, Count, WordTypes
  <2> QED BY <1>0, <1>7, <2>1 DEF count_sleeper, uncount_sleeper, Moves, Along
<1>8. CASE wait_while_until(t) \/ wait_ends_early(t) \/ cancel(t)
  BY <1>0, <1>8 DEF wait_while_until, wait_ends_early, cancel, Moves, Along
<1>9. CASE release(t)
  <2>1. /\ words'.SENDS = words.SENDS /\ words'.RECVS = words.RECVS /\ words'.SENDERS = words.SENDERS
        /\ words'.RECEIVER = words.RECEIVER /\ words'.SKIPS = words.SKIPS
    BY <1>0, <1>9 DEF release, WordTypes
  <2>2. UNCHANGED <<then, slot, data, num, closed, mode, out, back, told>> /\ pc[t] = "release"
          /\ Goto(t, "gone")
    BY <1>9 DEF release
  <2> QED BY <1>0, <1>9, <2>1, <2>2 DEF Moves, Along
<1> QED BY <1>2, <1>3, <1>4, <1>5, <1>6, <1>7, <1>8, <1>9 DEF Step

\* Each task stays at its kind of places.
LEMMA PlaceInvStep == ASSUME Types, PlaceInv, [Next]_vars PROVE PlaceInv'
<1>0. /\ pc \in [Tasks -> Places] /\ then \in [Tasks -> {"idle", "release", "wake", "senders"}] /\ WordTypes
      /\ Receiver \notin Senders
  BY ChannelAssumption DEF Types, PlaceTypes
<1>1. ASSUME NEW t \in Tasks, Moves(t) PROVE PlaceInv'
  <2>1. \A s \in Senders : pc'[s] \in SenderPlaces /\ then'[s] \in {"idle", "release"}
    BY SMT, <1>0, <1>1 DEF Moves, Along, PlaceInv, SenderPlaces, Sending, InNotify, Selects
  <2>2. pc'[Receiver] \in ReceiverPlaces
    BY SMT, <1>0, <1>1 DEF Moves, Along, PlaceInv, ReceiverPlaces, InNotify, InSleep
  <2>3. Leaves(Receiver)' <=> Leaves(Receiver)
    BY <1>0, <1>1 DEF Moves, Along, Leaves, InNotify
  <2>4. pc'[Receiver] \in {"count"} \cup InSleep => pc[Receiver] \in {"count"} \cup InSleep
    BY <1>0, <1>1 DEF Moves, Along, InNotify, InSleep
  <2> QED BY <1>1, <2>1, <2>2, <2>3, <2>4 DEF Moves, PlaceInv
<1>2. ASSUME NEW s \in Senders, Send(s) \/ take_number(s) \/ drop_sender(s) \/ \E t \in Senders : clone(s, t)
      PROVE  PlaceInv'
  <2>1. \A u \in Senders : pc'[u] \in SenderPlaces /\ then'[u] \in {"idle", "release"}
    <3>1. CASE load_receiver(s) \/ load_slot(s) \/ write_value(s) \/ store_full(s)
      BY SMT, <1>0, <3>1 DEF PlaceInv, SenderPlaces, Sending, InNotify, load_receiver, load_slot, write_value,
                             store_full
    <3>2. CASE check_limits(s) \/ vx_channel_skip(s) \/ count_skip(s)
      BY SMT, <1>0, <3>2 DEF PlaceInv, SenderPlaces, Sending, InNotify, check_limits, vx_channel_skip,
                             count_skip
    <3>3. ASSUME NEW t \in Senders, clone_end(s, t) \/ clone(s, t)
          PROVE  \A u \in Senders : pc'[u] \in SenderPlaces /\ then'[u] \in {"idle", "release"}
      BY SMT, <1>0, <3>3 DEF PlaceInv, SenderPlaces, Sending, InNotify, clone_end, clone
    <3>4. CASE take_number(s) \/ drop_sender(s)
      BY SMT, <1>0, <3>4 DEF PlaceInv, SenderPlaces, Sending, InNotify, take_number, drop_sender
    <3> QED BY <1>2, <3>1, <3>2, <3>3, <3>4 DEF Send
  <2>2. pc'[Receiver] = pc[Receiver] /\ then'[Receiver] = then[Receiver] /\ UNCHANGED <<closed, mode>>
    BY <1>0, <1>2 DEF Send, load_receiver, load_slot, write_value, store_full, Keeps, Ends, check_limits,
                      vx_channel_skip, count_skip, clone_end, take_number, drop_sender, clone
  <2>3. words'.RECEIVER = words.RECEIVER
    BY <1>0, <1>2 DEF Send, load_receiver, load_slot, write_value, store_full, WordTypes, CountEnd,
                      check_limits, vx_channel_skip, count_skip, clone_end, take_number, drop_sender, clone
  <2> QED BY <2>1, <2>2, <2>3 DEF PlaceInv, Leaves
<1>3. ASSUME Receive(Receiver) \/ recv(Receiver) \/ try_recv(Receiver) \/ select(Receiver)
               \/ drop_receiver(Receiver)
      PROVE  PlaceInv'
  <2>1. \A u \in Senders : pc'[u] = pc[u] /\ then'[u] = then[u]
    BY <1>0, <1>3 DEF Receive, load_cancelled, load_senders, load_full, take_slot, store_taken, load_skips,
                      vx_channel_take_skip, pass_number, pass_slot, gives_none, recv, try_recv, select,
                      drop_receiver
  <2>2. CASE drop_receiver(Receiver)
    <3>1. pc'[Receiver] = "notify" /\ then'[Receiver] = "release" /\ words'.RECEIVER = 0
      BY <1>0, <2>2 DEF drop_receiver, WordTypes
    <3> QED BY SMT, <2>1, <3>1 DEF PlaceInv, Leaves, InNotify, InSleep, ReceiverPlaces
  <2>3. CASE Receive(Receiver) \/ recv(Receiver) \/ try_recv(Receiver) \/ select(Receiver)
    <3>1. words'.RECEIVER = words.RECEIVER
      BY <1>0, <2>3 DEF Receive, load_cancelled, load_senders, load_full, take_slot, store_taken, load_skips,
                        vx_channel_take_skip, pass_number, pass_slot, gives_none, recv, try_recv, select,
                        WordTypes
    <3>2. /\ pc[Receiver] \in ReceiverPlaces \ (InNotify \cup {"release", "gone"})
          /\ pc'[Receiver] \in ReceiverPlaces \ {"release", "gone"}
          /\ pc'[Receiver] \in InNotify => then'[Receiver] # "release"
      BY <1>0, <2>3 DEF Receive, load_cancelled, load_senders, load_full, take_slot, store_taken, load_skips,
                        vx_channel_take_skip, pass_number, pass_slot, gives_none, recv, try_recv, select,
                        ReceiverPlaces, InNotify
    <3>3. pc'[Receiver] \in {"count"} \cup InSleep => ~closed' /\ mode' # "try"
      BY <1>0, <2>3 DEF Receive, load_cancelled, load_senders, load_full, take_slot, store_taken, load_skips,
                        InSleep, vx_channel_take_skip, pass_number, pass_slot, gives_none, recv, try_recv,
                        select, IsClosed, Keeps
    <3> QED BY <2>1, <3>1, <3>2, <3>3 DEF PlaceInv, Leaves
  <2> QED BY <1>3, <2>2, <2>3
<1>4. CASE UNCHANGED vars
  BY <1>4 DEF PlaceInv, Leaves, vars
<1> QED BY <1>1, <1>2, <1>3, <1>4, Split, StepMoves

-----------------------------------------------------------------------------
\* The counters

\* A count is a natural number, and 0 is the count of the empty set.
LEMMA NoElement ==
  ASSUME NEW S, NEW n, Counts(S, n)
  PROVE  n \in Nat /\ (n = 0 <=> S = {})
<1>1. PICK f \in [1..n -> S] : \A x \in S : \E i \in 1..n : f[i] = x
  BY DEF Counts
<1>2. n \in Nat
  BY DEF Counts
<1>3. n = 0 => S = {}
  BY SMT, <1>1
<1>4. n # 0 => f[1] \in S
  BY SMT, <1>1, <1>2
<1> QED BY <1>2, <1>3, <1>4

\* The empty set has no elements.
LEMMA EmptySet == Counts({}, 0)
<1>1. [i \in 1..0 |-> i] \in [1..0 -> {}]
  BY SMT
<1> QED BY <1>1 DEF Counts

\* A fetch_add counts one more.
LEMMA AddOne ==
  ASSUME NEW S, NEW n, Counts(S, n), NEW x, x \notin S
  PROVE  Counts(S \cup {x}, n + 1)
<1>1. n \in Nat /\ n + 1 \in Nat
  BY SMT DEF Counts
<1>2. PICK f \in [1..n -> S] : /\ \A y \in S : \E i \in 1..n : f[i] = y
                              /\ \A i, j \in 1..n : f[i] = f[j] => i = j
  BY DEF Counts
<1> DEFINE g == [i \in 1..(n + 1) |-> IF i = n + 1 THEN x ELSE f[i]]
<1>3. \A i \in 1..(n + 1) : i = n + 1 \/ i \in 1..n
  BY SMT, <1>1
<1>4. \A i \in 1..n : i \in 1..(n + 1) /\ i # n + 1
  BY SMT, <1>1
<1>5. n + 1 \in 1..(n + 1)
  BY SMT, <1>1
<1>6. g \in [1..(n + 1) -> S \cup {x}]
  BY <1>3
<1>7. g[n + 1] = x /\ \A i \in 1..n : g[i] = f[i] /\ g[i] \in S
  BY <1>4, <1>5
<1> HIDE DEF g
<1>8. \A y \in S \cup {x} : \E i \in 1..(n + 1) : g[i] = y
  BY <1>2, <1>4, <1>5, <1>7
<1>9. \A i, j \in 1..(n + 1) : g[i] = g[j] => i = j
  BY <1>2, <1>3, <1>7
<1> QED BY <1>1, <1>6, <1>8, <1>9 DEF Counts

\* A fetch_sub counts one less.
LEMMA RemoveOne ==
  ASSUME NEW S, NEW n, Counts(S, n), NEW x, x \in S
  PROVE  Counts(S \ {x}, n - 1)
<1>1. PICK f \in [1..n -> S] : /\ \A y \in S : \E i \in 1..n : f[i] = y
                              /\ \A i, j \in 1..n : f[i] = f[j] => i = j
  BY DEF Counts
<1>2. PICK k \in 1..n : f[k] = x
  BY <1>1
<1>3. n \in Nat /\ n - 1 \in Nat /\ n \in 1..n /\ (\A i \in 1..(n - 1) : i \in 1..n /\ i # n)
      /\ \A i \in 1..n : i = n \/ i \in 1..(n - 1)
  BY SMT, <1>2 DEF Counts
<1> DEFINE g == [i \in 1..(n - 1) |-> IF i = k THEN f[n] ELSE f[i]]
<1>4. \A i \in 1..(n - 1) : g[i] \in S \ {x}
  BY <1>1, <1>2, <1>3
<1>5. g \in [1..(n - 1) -> S \ {x}]
  BY <1>4
<1>6. \A i \in 1..(n - 1) : g[i] = IF i = k THEN f[n] ELSE f[i]
  OBVIOUS
<1> HIDE DEF g
<1>7. ASSUME NEW y \in S \ {x} PROVE \E i \in 1..(n - 1) : g[i] = y
  <2>1. PICK i \in 1..n : f[i] = y
    BY <1>1
  <2>2. i # k
    BY <1>2, <2>1
  <2>3. CASE i = n
    <3>1. k \in 1..(n - 1) /\ g[k] = y
      BY <1>3, <1>6, <2>1, <2>2, <2>3
    <3> QED BY <3>1
  <2>4. CASE i # n
    <3>1. i \in 1..(n - 1) /\ g[i] = y
      BY <1>3, <1>6, <2>1, <2>2, <2>4
    <3> QED BY <3>1
  <2> QED BY <2>3, <2>4
<1>8. ASSUME NEW i \in 1..(n - 1), NEW j \in 1..(n - 1), g[i] = g[j] PROVE i = j
  BY <1>1, <1>3, <1>6, <1>8
<1> QED BY <1>3, <1>5, <1>7, <1>8 DEF Counts

\* The last end is the only one.
LEMMA LastEnd ==
  ASSUME Types, CountInv, PlaceInv, NEW t \in Tasks, pc[t] = "release", words.ENDS = 1
  PROVE  \A u \in Tasks : u # t => pc[u] \in {"unborn", "gone"}
<1>1. t \in Ending
  BY DEF Ending
<1>2. Counts(Ending \ {t}, words.ENDS - 1)
  BY <1>1, RemoveOne DEF CountInv
<1>3. Ending \ {t} = {}
  BY SMT, <1>2, NoElement
<1>4. \A u \in Tasks : u # t => pc[u] \in {"unborn", "newborn", "gone"}
  BY SMT, <1>3 DEF Ending
<1>5. Cloning = {}
  BY <1>4 DEF Cloning
<1>6. Newborn = {}
  BY <1>5, NoElement DEF CountInv
<1>7. \A u \in Senders : pc[u] # "newborn"
  BY <1>6 DEF Newborn
<1> QED BY <1>4, <1>7 DEF PlaceInv, ReceiverPlaces, InSleep, InNotify

\* A step of a task of a freed channel changes nothing.
LEMMA FreedStays ==
  ASSUME Types, PlaceInv, CountInv, freed, [Next]_vars
  PROVE  UNCHANGED <<words, slot, data, skips, news, pc, then, num, closed, mode, freed, out, back, dropped, told>>
<1>0. pc \in [Tasks -> Places] /\ \A t \in Tasks : pc[t] \in {"unborn", "gone"}
  BY DEF Types, PlaceTypes, CountInv
<1>1. ASSUME NEW t \in Tasks PROVE ~Step(t) /\ ~wait_ends_early(t)
  BY <1>0, <1>1 DEF Step, notify, load_sleepers, wake_all, notify_any, load_selects, wake_any, load_wake,
                    count_sleeper, wait_while_until, uncount_sleeper, release, wait_ends_early
<1>2. ASSUME NEW t \in Tasks, cancel(t)
      PROVE UNCHANGED <<words, slot, data, skips, news, pc, then, num, closed, mode, freed, out, back, dropped, told>>
  BY <1>0, <1>2 DEF cancel
<1>3. ASSUME NEW s \in Senders, Send(s) \/ take_number(s) \/ drop_sender(s) \/ \E t \in Senders : clone(s, t)
      PROVE  FALSE
  BY <1>0, <1>3 DEF Send, load_receiver, load_slot, write_value, store_full, check_limits, vx_channel_skip,
                    count_skip, clone_end, take_number, drop_sender, clone
<1>4. ASSUME Receive(Receiver) \/ recv(Receiver) \/ try_recv(Receiver) \/ select(Receiver)
               \/ drop_receiver(Receiver)
      PROVE  FALSE
  BY <1>0, <1>4 DEF Receive, load_cancelled, load_senders, load_full, take_slot, store_taken, load_skips,
                    vx_channel_take_skip, pass_number, pass_slot, gives_none, recv, try_recv, select,
                    drop_receiver
<1> QED BY <1>1, <1>2, <1>3, <1>4, Split DEF vars

\* The counters but for the one of a step stay with what they count.
LEMMA CountInvStep == ASSUME Types, PlaceInv, CountInv, [Next]_vars PROVE CountInv'
<1>0. /\ pc \in [Tasks -> Places] /\ then \in [Tasks -> {"idle", "release", "wake", "senders"}] /\ WordTypes
      /\ Receiver \notin Senders
  BY ChannelAssumption DEF Types, PlaceTypes
<1>1. CASE freed
  BY <1>1, FreedStays DEF CountInv, Live, Leaves, Ending, Newborn, Cloning, Sleepers, Selecting, Selects
<1>2. ASSUME ~freed, NEW t \in Tasks, Step(t) \/ wait_ends_early(t) \/ cancel(t) PROVE CountInv'
  <2>0. Moves(t)
    BY <1>2, StepMoves
  <2>1. UNCHANGED <<Live, Newborn, Cloning>>
    <3>1. \A s \in Senders : Leaves(s)' <=> Leaves(s)
      BY SMT, <1>0, <2>0 DEF Moves, Along, Leaves, InNotify, PlaceInv
    <3>2. \A s \in Senders : /\ pc'[s] = "unborn" <=> pc[s] = "unborn"
                             /\ pc'[s] = "newborn" <=> pc[s] = "newborn"
                             /\ pc'[s] = "cloning" <=> pc[s] = "cloning"
      BY <1>0, <2>0 DEF Moves, Along, InNotify
    <3> QED BY <3>1, <3>2 DEF Live, Newborn, Cloning
  <2>2. \A u \in Tasks : Selects(u)' <=> Selects(u)
    BY <2>0 DEF Moves, Selects
  <2>3. CASE release(t)
    <3>1. Ending' = Ending \ {t} /\ t \in Ending /\ words'.ENDS = words.ENDS - 1
      BY <1>0, <2>3 DEF release, Ending, WordTypes
    <3>2. Counts(Ending', words'.ENDS)
      BY SMT, <3>1, RemoveOne DEF CountInv
    <3>3. UNCHANGED <<Sleepers, Selecting>>
      BY <1>0, <2>2, <2>3 DEF release, Sleepers, Selecting, InSleep
    <3>4. words'.SLEEPERS = words.SLEEPERS /\ words'.SELECTS = words.SELECTS
      BY <1>0, <2>3 DEF release, WordTypes
    <3>5. freed' => \A u \in Tasks : pc'[u] \in {"unborn", "gone"}
      BY <1>0, <1>2, <2>3, LastEnd DEF release
    <3> QED BY <2>0, <2>1, <3>1, <3>2, <3>3, <3>4, <3>5 DEF CountInv, Moves
  <2>4. CASE ~release(t)
    <3>0. ~freed' /\ (pc[t] = "release" => pc'[t] = pc[t])
      <4>1. ~freed'
        BY <1>2, <2>0, <2>4 DEF Moves
      <4>2. pc[t] = "release" => pc'[t] = pc[t]
        BY <1>0, <1>2, <2>4 DEF Step, notify, load_sleepers, wake_all, notify_any, load_selects, wake_any,
                                load_wake, count_sleeper, wait_while_until, uncount_sleeper, release,
                                wait_ends_early, cancel
      <4> QED BY <4>1, <4>2
    <3>1. UNCHANGED Ending
      BY SMT, <1>0, <2>0, <3>0 DEF Moves, Along, Ending, InNotify
    <3>2. CASE count_sleeper(t)
      <4>1. pc[t] = "count" /\ pc' = [pc EXCEPT ![t] = "wait"] /\ words' = Count(t, 1)
        BY <3>2 DEF count_sleeper
      <4>2. CASE Selects(t)
        <5>1. Selecting' = Selecting \cup {t} /\ t \notin Selecting /\ UNCHANGED Sleepers
          BY <1>0, <2>2, <4>1, <4>2 DEF Selecting, Sleepers, InSleep
        <5>2. words'.SELECTS = words.SELECTS + 1 /\ words'.SLEEPERS = words.SLEEPERS
                /\ words'.ENDS = words.ENDS
          BY <1>0, <4>1, <4>2 DEF Count, WordTypes
        <5>3. Counts(Selecting', words'.SELECTS)
          BY SMT, <5>1, <5>2, AddOne DEF CountInv
        <5> QED BY <2>0, <2>1, <3>0, <3>1, <5>1, <5>2, <5>3 DEF CountInv, Moves
      <4>3. CASE ~Selects(t)
        <5>1. Sleepers' = Sleepers \cup {t} /\ t \notin Sleepers /\ UNCHANGED Selecting
          BY <1>0, <2>2, <4>1, <4>3 DEF Selecting, Sleepers, InSleep
        <5>2. words'.SLEEPERS = words.SLEEPERS + 1 /\ words'.SELECTS = words.SELECTS
                /\ words'.ENDS = words.ENDS
          BY <1>0, <4>1, <4>3 DEF Count, WordTypes
        <5>3. Counts(Sleepers', words'.SLEEPERS)
          BY SMT, <5>1, <5>2, AddOne DEF CountInv
        <5> QED BY <2>0, <2>1, <3>0, <3>1, <5>1, <5>2, <5>3 DEF CountInv, Moves
      <4> QED BY <4>2, <4>3
    <3>3. CASE uncount_sleeper(t)
      <4>1. /\ pc[t] = "uncount" /\ words' = Count(t, -1)
            /\ pc' = [pc EXCEPT ![t] = IF Selects(t) THEN "cancelled" ELSE "wake"]
        BY <3>3 DEF uncount_sleeper
      <4>2. CASE Selects(t)
        <5>1. Selecting' = Selecting \ {t} /\ t \in Selecting /\ UNCHANGED Sleepers
          BY <1>0, <2>2, <4>1, <4>2 DEF Selecting, Sleepers, InSleep
        <5>2. words'.SELECTS = words.SELECTS - 1 /\ words'.SLEEPERS = words.SLEEPERS
                /\ words'.ENDS = words.ENDS
          BY <1>0, <4>1, <4>2 DEF Count, WordTypes
        <5>3. Counts(Selecting', words'.SELECTS)
          BY SMT, <5>1, <5>2, RemoveOne DEF CountInv
        <5> QED BY <2>0, <2>1, <3>0, <3>1, <5>1, <5>2, <5>3 DEF CountInv, Moves
      <4>3. CASE ~Selects(t)
        <5>1. Sleepers' = Sleepers \ {t} /\ t \in Sleepers /\ UNCHANGED Selecting
          BY <1>0, <2>2, <4>1, <4>3 DEF Selecting, Sleepers, InSleep
        <5>2. words'.SLEEPERS = words.SLEEPERS - 1 /\ words'.SELECTS = words.SELECTS
                /\ words'.ENDS = words.ENDS
          BY <1>0, <4>1, <4>3 DEF Count, WordTypes
        <5>3. Counts(Sleepers', words'.SLEEPERS)
          BY SMT, <5>1, <5>2, RemoveOne DEF CountInv
        <5> QED BY <2>0, <2>1, <3>0, <3>1, <5>1, <5>2, <5>3 DEF CountInv, Moves
      <4> QED BY <4>2, <4>3
    <3>4. CASE ~count_sleeper(t) /\ ~uncount_sleeper(t)
      <4>1. UNCHANGED words /\ (pc[t] \notin {"count", "uncount"} \/ pc'[t] = pc[t])
        BY <1>0, <1>2, <2>4, <3>4 DEF Step, notify, load_sleepers, wake_all, notify_any, load_selects, wake_any,
                                      load_wake, wait_while_until, wait_ends_early, cancel
      <4>2. \A u \in Tasks : pc'[u] \in InSleep <=> pc[u] \in InSleep
        BY <1>0, <2>0, <4>1 DEF Moves, Along, InNotify, InSleep
      <4>3. UNCHANGED <<Sleepers, Selecting>>
        BY <2>2, <4>2 DEF Sleepers, Selecting
      <4> QED BY <2>1, <3>0, <3>1, <4>1, <4>3 DEF CountInv
    <3> QED BY <3>2, <3>3, <3>4
  <2> QED BY <2>3, <2>4
<1>3. ASSUME ~freed, NEW s \in Senders, Send(s) \/ take_number(s) \/ drop_sender(s)
               \/ \E t \in Senders : clone(s, t)
      PROVE  CountInv'
  <2>0. UNCHANGED <<freed, mode>>
    BY <1>0, <1>3 DEF Send, load_receiver, load_slot, write_value, store_full, check_limits, vx_channel_skip,
                      count_skip, clone_end, take_number, drop_sender, clone, Keeps, Ends
  <2>1. UNCHANGED <<Sleepers, Selecting>>
    <3>1. \A u \in Tasks : Selects(u)' <=> Selects(u)
      BY <2>0 DEF Selects
    <3>2. \A u \in Tasks : pc'[u] \in InSleep <=> pc[u] \in InSleep
      <4>1. CASE load_receiver(s) \/ load_slot(s) \/ write_value(s) \/ store_full(s)
        BY SMT, <1>0, <4>1 DEF InSleep, load_receiver, load_slot, write_value, store_full
      <4>2. CASE check_limits(s) \/ vx_channel_skip(s) \/ count_skip(s)
        BY SMT, <1>0, <4>2 DEF InSleep, check_limits, vx_channel_skip, count_skip
      <4>3. CASE take_number(s) \/ drop_sender(s)
        BY SMT, <1>0, <4>3 DEF InSleep, take_number, drop_sender
      <4>4. ASSUME NEW t \in Senders, clone_end(s, t) \/ clone(s, t)
            PROVE  \A u \in Tasks : pc'[u] \in InSleep <=> pc[u] \in InSleep
        BY SMT, <1>0, <4>4 DEF InSleep, clone_end, clone, CountEnd
      <4> QED BY <1>3, <4>1, <4>2, <4>3, <4>4 DEF Send
    <3> QED BY <3>1, <3>2 DEF Sleepers, Selecting
  <2>2. words'.SLEEPERS = words.SLEEPERS /\ words'.SELECTS = words.SELECTS
    <3>1. CASE load_receiver(s) \/ load_slot(s) \/ write_value(s) \/ store_full(s)
      BY SMT, <1>0, <3>1 DEF WordTypes, load_receiver, load_slot, write_value, store_full
    <3>2. CASE check_limits(s) \/ vx_channel_skip(s) \/ count_skip(s)
      BY SMT, <1>0, <3>2 DEF WordTypes, check_limits, vx_channel_skip, count_skip
    <3>3. CASE take_number(s) \/ drop_sender(s)
      BY SMT, <1>0, <3>3 DEF WordTypes, take_number, drop_sender
    <3>4. ASSUME NEW t \in Senders, clone_end(s, t) \/ clone(s, t)
          PROVE  words'.SLEEPERS = words.SLEEPERS /\ words'.SELECTS = words.SELECTS
      BY SMT, <1>0, <3>4 DEF WordTypes, clone_end, clone, CountEnd
    <3> QED BY <1>3, <3>1, <3>2, <3>3, <3>4 DEF Send
  <2>3. ASSUME NEW t \in Senders, clone(s, t) PROVE CountInv'
    <3>1. /\ pc[s] = "idle" /\ pc[t] = "unborn" /\ UNCHANGED then
          /\ pc' = [pc EXCEPT ![s] = "cloning", ![t] = "newborn"]
          /\ words'.SENDERS = words.SENDERS + 1 /\ words'.ENDS = words.ENDS
      BY <1>0, <2>3 DEF clone, WordTypes
    <3>2. Live' = Live \cup {t} /\ t \notin Live
      BY <1>0, <3>1 DEF Live, Leaves, InNotify
    <3>3. Newborn' = Newborn \cup {t} /\ t \notin Newborn /\ Cloning' = Cloning \cup {s} /\ s \notin Cloning
      BY <1>0, <3>1 DEF Newborn, Cloning
    <3>4. Ending' = Ending
      BY <1>0, <3>1 DEF Ending
    <3>5. Counts(Live', words'.SENDERS)
      BY <3>1, <3>2, AddOne DEF CountInv
    <3>6. \E n \in Nat : Counts(Newborn', n) /\ Counts(Cloning', n)
      <4>1. PICK n \in Nat : Counts(Newborn, n) /\ Counts(Cloning, n)
        BY DEF CountInv
      <4>2. n + 1 \in Nat /\ Counts(Newborn', n + 1) /\ Counts(Cloning', n + 1)
        BY SMT, <3>3, <4>1, AddOne
      <4> QED BY <4>2
    <3> QED BY <1>3, <2>0, <2>1, <2>2, <3>1, <3>4, <3>5, <3>6 DEF CountInv
  <2>4. ASSUME NEW t \in Senders, clone_end(s, t) PROVE CountInv'
    <3>1. /\ pc[s] = "cloning" /\ pc[t] = "newborn" /\ UNCHANGED then
          /\ pc' = [pc EXCEPT ![s] = "idle", ![t] = "idle"]
          /\ words'.SENDERS = words.SENDERS /\ words'.ENDS = words.ENDS + 1
      BY <1>0, <2>4 DEF clone_end, CountEnd, WordTypes
    <3>2. Live' = Live
      BY <1>0, <3>1 DEF Live, Leaves, InNotify
    <3>3. Newborn' = Newborn \ {t} /\ t \in Newborn /\ Cloning' = Cloning \ {s} /\ s \in Cloning
      BY <1>0, <3>1 DEF Newborn, Cloning
    <3>4. Ending' = Ending \cup {t} /\ t \notin Ending
      BY <1>0, <3>1 DEF Ending
    <3>5. Counts(Ending', words'.ENDS)
      BY <3>1, <3>4, AddOne DEF CountInv
    <3>6. \E n \in Nat : Counts(Newborn', n) /\ Counts(Cloning', n)
      <4>1. PICK n \in Nat : Counts(Newborn, n) /\ Counts(Cloning, n)
        BY DEF CountInv
      <4>2. Counts(Newborn', n - 1) /\ Counts(Cloning', n - 1)
        BY <3>3, <4>1, RemoveOne
      <4>3. n - 1 \in Nat
        BY <4>2, NoElement
      <4> QED BY <4>2, <4>3
    <3> QED BY <1>3, <2>0, <2>1, <2>2, <3>1, <3>2, <3>5, <3>6 DEF CountInv
  <2>5. CASE drop_sender(s)
    <3>1. /\ pc[s] = "idle" /\ \A u \in Tasks : u # s => pc'[u] = pc[u] /\ then'[u] = then[u]
          /\ pc'[s] = "release" \/ (pc'[s] = "notify" /\ then'[s] = "release")
          /\ words'.SENDERS = words.SENDERS - 1 /\ words'.ENDS = words.ENDS
      BY <1>0, <2>5 DEF drop_sender, WordTypes
    <3>2. Live' = Live \ {s} /\ s \in Live
      BY <1>0, <3>1 DEF Live, Leaves, InNotify
    <3>3. UNCHANGED <<Newborn, Cloning, Ending>>
      BY <1>0, <3>1 DEF Newborn, Cloning, Ending
    <3>4. Counts(Live', words'.SENDERS)
      BY SMT, <3>1, <3>2, RemoveOne DEF CountInv
    <3> QED BY <1>3, <2>0, <2>1, <2>2, <3>1, <3>3, <3>4 DEF CountInv
  <2>6. CASE \/ load_receiver(s) \/ load_slot(s) \/ write_value(s) \/ store_full(s) \/ check_limits(s)
             \/ vx_channel_skip(s) \/ count_skip(s) \/ take_number(s)
    <3>1. /\ words'.SENDERS = words.SENDERS /\ words'.ENDS = words.ENDS
          /\ \A u \in Tasks : u # s => pc'[u] = pc[u] /\ then'[u] = then[u]
          /\ pc[s] \in {"idle"} \cup Sending
          /\ pc'[s] \in {"idle"} \cup Sending \/ (pc'[s] = "notify" /\ then'[s] = "idle")
      BY <1>0, <2>6 DEF load_receiver, load_slot, write_value, store_full, check_limits, vx_channel_skip,
                        count_skip, take_number, WordTypes, Sending
    <3>2. UNCHANGED <<Live, Newborn, Cloning, Ending>>
      BY SMT, <1>0, <3>1 DEF Live, Newborn, Cloning, Ending, Leaves, Sending, InNotify
    <3> QED BY <1>3, <2>0, <2>1, <2>2, <3>1, <3>2 DEF CountInv
  <2> QED BY <1>3, <2>3, <2>4, <2>5, <2>6 DEF Send
<1>4. ASSUME ~freed, Receive(Receiver) \/ recv(Receiver) \/ try_recv(Receiver) \/ select(Receiver)
               \/ drop_receiver(Receiver)
      PROVE  CountInv'
  <2>1. /\ words'.SENDERS = words.SENDERS /\ words'.ENDS = words.ENDS
        /\ words'.SLEEPERS = words.SLEEPERS /\ words'.SELECTS = words.SELECTS
    BY <1>0, <1>4 DEF Receive, load_cancelled, load_senders, load_full, take_slot, store_taken, load_skips,
                      WordTypes, vx_channel_take_skip, pass_number, pass_slot, gives_none, recv, try_recv,
                      select, drop_receiver
  <2>2. /\ UNCHANGED freed /\ \A u \in Senders : pc'[u] = pc[u] /\ then'[u] = then[u]
        /\ pc[Receiver] \notin InSleep \cup {"unborn", "newborn", "gone"}
        /\ pc'[Receiver] \notin InSleep \cup {"unborn", "newborn", "gone"}
    BY <1>0, <1>4 DEF Receive, load_cancelled, load_senders, load_full, take_slot, store_taken, load_skips,
                      InSleep, vx_channel_take_skip, pass_number, pass_slot, gives_none, recv, try_recv, select,
                      drop_receiver
  <2>3. UNCHANGED <<Live, Newborn, Cloning, Ending>>
    BY <2>2 DEF Live, Newborn, Cloning, Ending, Leaves
  <2>4. UNCHANGED <<Sleepers, Selecting>>
    BY <1>0, <2>2 DEF Sleepers, Selecting, Selects
  <2> QED BY <1>4, <2>1, <2>2, <2>3, <2>4 DEF CountInv
<1>5. CASE UNCHANGED vars
  BY <1>5 DEF CountInv, Live, Leaves, Ending, Newborn, Cloning, Sleepers, Selecting, Selects, vars
<1> QED BY <1>1, <1>2, <1>3, <1>4, <1>5, Split

-----------------------------------------------------------------------------
\* The ring

\* A step that moves no number and no value.
Calm ==
  /\ UNCHANGED <<slot, data, skips, freed, out, back, dropped>>
  /\ words'.SENDS = words.SENDS /\ words'.RECVS = words.RECVS
  /\ \A s \in Senders : /\ pc'[s] \in Sending <=> pc[s] \in Sending
                        /\ pc[s] \in Sending => num'[s] = num[s]
                        /\ pc'[s] = "full" <=> pc[s] = "full"
                        /\ pc'[s] = "skipped" <=> pc[s] = "skipped"
                        /\ pc'[s] = "write" => pc[s] = "write" \/ IsMyTurn(s)
  /\ Freeing' <=> Freeing
  /\ Freeing => num'[Receiver] = num[Receiver]
  /\ Asking' => num'[Receiver] = words.RECVS
  /\ pc'[Receiver] = "take" => Full(num[Receiver]) /\ num'[Receiver] = num[Receiver]
  /\ pc'[Receiver] = "pass" <=> pc[Receiver] = "pass"
  /\ pc[Receiver] = "pass" => num'[Receiver] = num[Receiver]

Frees(t) == release(t) /\ words.ENDS = 1
PutStep(s) ==
  \/ take_number(s) \/ write_value(s) \/ store_full(s) \/ vx_channel_skip(s) \/ count_skip(s)
  \/ load_receiver(s) /\ words.RECEIVER = 0
TakeStep ==
  \/ take_slot(Receiver) \/ store_taken(Receiver) \/ pass_number(Receiver) \/ pass_slot(Receiver)
  \/ vx_channel_take_skip(Receiver) /\ num[Receiver] \in skips

\* Each step is calm, frees the channel, or is a step of a send or of a receive.
LEMMA CalmSteps ==
  ASSUME Types, PlaceInv, NumInv, RingInv, [Next]_vars
  PROVE  Calm \/ (\E t \in Tasks : Frees(t)) \/ (\E s \in Senders : PutStep(s)) \/ TakeStep
<1>0. /\ pc \in [Tasks -> Places] /\ then \in [Tasks -> {"idle", "release", "wake", "senders"}] /\ WordTypes
      /\ num \in [Tasks -> Nat] /\ Receiver \notin Senders /\ words.RECVS \in Nat
      /\ skips \subseteq Nat
  BY ChannelAssumption DEF Types, PlaceTypes, LocalTypes, WordTypes, RingTypes
<1>1. ASSUME NEW t \in Tasks, Step(t) \/ wait_ends_early(t) \/ cancel(t), ~Frees(t) PROVE Calm
  <2>0. Moves(t) /\ UNCHANGED <<skips, dropped, freed>>
    <3>1. Moves(t)
      BY <1>1, StepMoves
    <3> QED BY <1>1, <3>1 DEF Moves, release, Frees
  <2>1. \A s \in Senders : /\ pc'[s] \in Sending <=> pc[s] \in Sending
                           /\ pc'[s] = "full" <=> pc[s] = "full"
                           /\ pc'[s] = "skipped" <=> pc[s] = "skipped"
                           /\ pc'[s] = "write" <=> pc[s] = "write"
    BY SMT, <1>0, <2>0 DEF Moves, Along, Sending, InNotify, Selects, PlaceInv
  <2>2. (Freeing' <=> Freeing) /\ (Asking' <=> Asking)
    BY SMT, <1>0, <2>0 DEF Moves, Along, InNotify, InSleep, Freeing, Asking
  <2>3. (pc'[Receiver] = "take" <=> pc[Receiver] = "take")
          /\ (pc'[Receiver] = "pass" <=> pc[Receiver] = "pass")
    BY <1>0, <2>0 DEF Moves, Along, InNotify
  <2> QED BY <2>0, <2>1, <2>2, <2>3 DEF Calm, Moves, NumInv, RingInv
<1>2. ASSUME NEW s \in Senders, Send(s) \/ take_number(s) \/ drop_sender(s) \/ \E t \in Senders : clone(s, t),
             ~PutStep(s)
      PROVE  Calm
  <2>0. \/ load_receiver(s) /\ words.RECEIVER # 0
        \/ load_slot(s) \/ check_limits(s) \/ drop_sender(s) \/ \E t \in Senders : clone(s, t)
             \/ clone_end(s, t)
    BY <1>2 DEF Send, PutStep
  <2>1. /\ UNCHANGED <<slot, data, skips, freed, out, back, dropped, num>>
        /\ words'.SENDS = words.SENDS /\ words'.RECVS = words.RECVS
        /\ pc'[Receiver] = pc[Receiver] /\ then'[Receiver] = then[Receiver]
    BY SMT, <1>0, <2>0 DEF load_receiver, load_slot, check_limits, clone_end, drop_sender, clone, CountEnd,
                           Keeps, WordTypes
  <2>2. \A u \in Senders : /\ pc'[u] \in Sending <=> pc[u] \in Sending
                           /\ pc'[u] = "full" <=> pc[u] = "full"
                           /\ pc'[u] = "skipped" <=> pc[u] = "skipped"
                           /\ pc'[u] = "write" => pc[u] = "write" \/ IsMyTurn(u)
    BY SMTT(30), <1>0, <2>0 DEF load_receiver, load_slot, check_limits, clone_end, drop_sender, clone, Sending
  <2>3. (Freeing' <=> Freeing) /\ (Asking' <=> Asking)
    BY <2>1 DEF Freeing, Asking
  <2> QED BY <2>1, <2>2, <2>3 DEF Calm, NumInv, RingInv
<1>3. ASSUME Receive(Receiver) \/ recv(Receiver) \/ try_recv(Receiver) \/ select(Receiver)
               \/ drop_receiver(Receiver),
             ~TakeStep
      PROVE  Calm
  <2>0. \/ load_cancelled(Receiver) \/ load_senders(Receiver) \/ load_full(Receiver) \/ load_skips(Receiver)
        \/ gives_none(Receiver) \/ recv(Receiver) \/ try_recv(Receiver) \/ select(Receiver)
             \/ drop_receiver(Receiver)
        \/ vx_channel_take_skip(Receiver) /\ num[Receiver] \notin skips
    BY <1>3 DEF Receive, TakeStep
  <2>1. /\ UNCHANGED <<slot, data, freed, out, back, dropped>>
        /\ words'.SENDS = words.SENDS /\ words'.RECVS = words.RECVS
        /\ \A s \in Senders : pc'[s] = pc[s] /\ num'[s] = num[s]
    BY <1>0, <2>0 DEF load_cancelled, load_senders, load_full, load_skips, gives_none, recv, try_recv, select,
                      drop_receiver, vx_channel_take_skip, Keeps, Ends, WordTypes
  <2>2. UNCHANGED skips
    BY <2>0 DEF load_cancelled, load_senders, load_full, load_skips, gives_none, recv, try_recv, select,
                drop_receiver, vx_channel_take_skip
  <2>3. /\ ~Freeing /\ ~Freeing' /\ pc[Receiver] # "pass" /\ pc'[Receiver] # "pass"
        /\ pc'[Receiver] = "take" => Full(num[Receiver]) /\ num'[Receiver] = num[Receiver]
    BY <1>0, <2>0 DEF load_cancelled, load_senders, load_full, load_skips, gives_none, recv, try_recv, select,
                      drop_receiver, vx_channel_take_skip, Freeing, Full, SlotOf
  <2>4. Asking' => num'[Receiver] = words.RECVS
    <3>1. CASE recv(Receiver) \/ try_recv(Receiver) \/ select(Receiver)
      BY <1>0, <3>1 DEF recv, try_recv, select
    <3>2. CASE load_senders(Receiver) \/ load_full(Receiver) \/ load_skips(Receiver)
                 \/ vx_channel_take_skip(Receiver)
      BY <1>0, <3>2 DEF load_senders, load_full, load_skips, vx_channel_take_skip, Asking, NumInv
    <3>3. CASE load_cancelled(Receiver) \/ gives_none(Receiver)
      BY <1>0, <3>3 DEF load_cancelled, gives_none, Asking, NumInv, InNotify, InSleep, Keeps
    <3>4. CASE drop_receiver(Receiver)
      BY <1>0, <3>4 DEF drop_receiver, Asking, InNotify, InSleep
    <3> QED BY <2>0, <3>1, <3>2, <3>3, <3>4
  <2> QED BY <2>1, <2>2, <2>3, <2>4 DEF Calm
<1>4. CASE UNCHANGED vars
  BY <1>4 DEF Calm, Freeing, Asking, NumInv, RingInv, vars
<1> QED BY <1>1, <1>2, <1>3, <1>4, Split

\* What each of the other steps does to the numbers and the places.
LEMMA PutFrame ==
  ASSUME Types, NEW s \in Senders, PutStep(s)
  PROVE  /\ \A u \in Tasks : u # s => pc'[u] = pc[u] /\ then'[u] = then[u] /\ num'[u] = num[u]
         /\ pc'[Receiver] = pc[Receiver] /\ then'[Receiver] = then[Receiver] /\ num'[Receiver] = num[Receiver]
         /\ UNCHANGED <<out, freed, dropped>> /\ words'.RECVS = words.RECVS
         /\ take_number(s) \/ (words'.SENDS = words.SENDS /\ pc[s] \in Sending)
         /\ (Freeing' <=> Freeing) /\ (Asking' <=> Asking) /\ Base' = Base
         /\ \A k : Passing(k)' <=> Passing(k)
<1>0. /\ pc \in [Tasks -> Places] /\ then \in [Tasks -> {"idle", "release", "wake", "senders"}]
      /\ WordTypes /\ num \in [Tasks -> Nat] /\ Receiver \notin Senders
  BY ChannelAssumption DEF Types, PlaceTypes, LocalTypes
<1>1. \A u \in Tasks : u # s => pc'[u] = pc[u] /\ then'[u] = then[u] /\ num'[u] = num[u]
  BY <1>0 DEF PutStep, take_number, write_value, store_full, vx_channel_skip, count_skip, load_receiver, Keeps,
              Ends
<1>2. UNCHANGED <<out, freed, dropped>> /\ words'.RECVS = words.RECVS
  BY <1>0 DEF PutStep, take_number, write_value, store_full, vx_channel_skip, count_skip, load_receiver,
              WordTypes
<1>3. take_number(s) \/ (words'.SENDS = words.SENDS /\ pc[s] \in Sending)
  BY <1>0 DEF PutStep, write_value, store_full, vx_channel_skip, count_skip, load_receiver, WordTypes, Sending
<1>4. pc'[Receiver] = pc[Receiver] /\ then'[Receiver] = then[Receiver] /\ num'[Receiver] = num[Receiver]
  BY <1>0, <1>1
<1> QED BY <1>1, <1>2, <1>3, <1>4 DEF Freeing, Asking, Base, Passing

\* The number of a sender after its step.
PutsNumber(s) ==
  \/ /\ pc[s] = "idle" /\ pc'[s] = "wake" /\ num'[s] = words.SENDS
     /\ words'.SENDS = words.SENDS + 1 /\ words.SENDS < MaxSends
  \/ /\ pc[s] \in Sending \ {"skipped"} /\ pc'[s] \in Sending /\ num'[s] = num[s]
     /\ words'.SENDS = words.SENDS
  \/ /\ pc[s] \in Sending /\ pc'[s] \notin Sending
     /\ words'.SENDS = words.SENDS

\* What a step of a send does to the numbers.
LEMMA PutNumber == ASSUME Types, NEW s \in Senders, PutStep(s) PROVE PutsNumber(s)
<1>0. /\ pc \in [Tasks -> Places] /\ WordTypes /\ num \in [Tasks -> Nat]
  BY DEF Types, PlaceTypes, LocalTypes
<1>1. CASE take_number(s)
  BY <1>0, <1>1 DEF take_number, PutsNumber, WordTypes
<1>2. CASE write_value(s) \/ vx_channel_skip(s)
  BY <1>0, <1>2 DEF write_value, vx_channel_skip, PutsNumber, Sending
<1>3. CASE store_full(s) \/ (load_receiver(s) /\ words.RECEIVER = 0)
  BY SMTT(30), <1>0, <1>3 DEF store_full, load_receiver, PutsNumber, Sending
<1>4. CASE count_skip(s)
  BY <1>0, <1>4 DEF count_skip, PutsNumber, Sending, WordTypes
<1> QED BY <1>1, <1>2, <1>3, <1>4 DEF PutStep

\* What the steps of a receive leave alone.
LEMMA TakeFrame ==
  ASSUME Types, TakeStep
  PROVE  /\ \A u \in Senders : pc'[u] = pc[u] /\ num'[u] = num[u]
         /\ UNCHANGED <<data, back, freed, dropped>> /\ words'.SENDS = words.SENDS
         /\ take_slot(Receiver) \/ UNCHANGED out
<1>0. /\ pc \in [Tasks -> Places] /\ WordTypes /\ num \in [Tasks -> Nat] /\ Receiver \notin Senders
  BY ChannelAssumption DEF Types, PlaceTypes, LocalTypes
<1> QED BY <1>0 DEF TakeStep, take_slot, store_taken, pass_number, pass_slot, vx_channel_take_skip, WordTypes,
                    Ends

\* The number of the receiver after its step.
TakesNumber ==
  \/ /\ pc[Receiver] \in {"take", "pass"} /\ pc'[Receiver] \in {"taken", "passed"}
       /\ UNCHANGED <<slot, skips>>
     /\ words'.RECVS = num[Receiver] + 1 /\ num'[Receiver] = num[Receiver]
     /\ pc[Receiver] = "take" <=> take_slot(Receiver)
  \/ /\ Freeing /\ ~Freeing' /\ pc'[Receiver] = "notify" /\ words'.RECVS = words.RECVS /\ UNCHANGED skips
     /\ slot' = [slot EXCEPT ![SlotOf(Receiver)] = 2 * (num[Receiver] + cap)]
     /\ then'[Receiver] = "idle" \/ num'[Receiver] = num[Receiver] + 1
  \/ /\ pc[Receiver] = "take_skip" /\ pc'[Receiver] = "pass" /\ words'.RECVS = words.RECVS /\ UNCHANGED slot
     /\ num'[Receiver] = num[Receiver] /\ num[Receiver] \in skips /\ skips' = skips \ {num[Receiver]}

\* What a step of a receive does to the numbers.
LEMMA TakeNumber == ASSUME Types, TakeStep PROVE TakesNumber
<1>0. /\ pc \in [Tasks -> Places] /\ then \in [Tasks -> {"idle", "release", "wake", "senders"}]
      /\ WordTypes /\ num \in [Tasks -> Nat] /\ Receiver \in Tasks
  BY DEF Types, PlaceTypes, LocalTypes
<1>1. CASE take_slot(Receiver)
  BY <1>0, <1>1 DEF take_slot, TakesNumber, WordTypes
<1>2. CASE pass_number(Receiver)
  BY <1>0, <1>2 DEF pass_number, take_slot, TakesNumber, WordTypes
<1>3. CASE store_taken(Receiver)
  BY <1>0, <1>3 DEF store_taken, TakesNumber, FreeSlot, Freeing
<1>4. CASE pass_slot(Receiver)
  BY <1>0, <1>4 DEF pass_slot, TakesNumber, FreeSlot, Freeing
<1>5. CASE vx_channel_take_skip(Receiver) /\ num[Receiver] \in skips
  BY <1>0, <1>5 DEF vx_channel_take_skip, TakesNumber
<1> QED BY <1>1, <1>2, <1>3, <1>4, <1>5 DEF TakeStep

\* The end of the channel.
LEMMA FreesFrame ==
  ASSUME Types, PlaceInv, CountInv, NEW t \in Tasks, Frees(t)
  PROVE  /\ UNCHANGED <<slot, data, num, out, back>> /\ words'.SENDS = words.SENDS
           /\ words'.RECVS = words.RECVS
         /\ freed' /\ dropped' = {data[k % cap] : k \in Left} /\ skips' \subseteq skips
         /\ \A u \in Tasks : pc'[u] \in {"unborn", "gone"}
         /\ \A s \in Senders : pc[s] \notin Sending /\ pc'[s] \notin Sending
         /\ ~Freeing /\ ~Freeing' /\ ~Asking' /\ \A k : ~Passing(k) /\ ~Passing(k)'
<1>0. pc \in [Tasks -> Places] /\ WordTypes /\ pc[t] = "release" /\ words.ENDS = 1 /\ Receiver \in Tasks
  BY DEF Types, PlaceTypes, Frees, release
<1>1. \A u \in Tasks : u # t => pc[u] \in {"unborn", "gone"}
  BY <1>0, LastEnd
<1>2. /\ UNCHANGED <<slot, data, num, out, back>> /\ words'.SENDS = words.SENDS /\ words'.RECVS = words.RECVS
      /\ freed' /\ dropped' = {data[k % cap] : k \in Left} /\ skips' \subseteq skips
           /\ pc' = [pc EXCEPT ![t] = "gone"]
  BY <1>0 DEF Frees, release, WordTypes
<1>3. \A u \in Tasks : pc'[u] \in {"unborn", "gone"} /\ pc[u] \in {"unborn", "gone", "release"}
  BY <1>0, <1>1, <1>2
<1> QED BY ZenonT(40), <1>0, <1>2, <1>3 DEF Sending, Freeing, Asking, Passing, InNotify, InSleep

\* Every step keeps the numbers of the tasks apart and in their range.
LEMMA NumInvStep ==
  ASSUME Types, PlaceInv, CountInv, NumInv, RingInv, ValueInv, [Next]_vars
  PROVE  NumInv'
<1>0. /\ words.SENDS \in Nat /\ words.RECVS \in Nat /\ num \in [Tasks -> Nat] /\ Receiver \in Tasks
      /\ cap \in Nat /\ cap > 0 /\ MaxSends \in Nat
  BY SMT, ChannelAssumption DEF Types, WordTypes, LocalTypes
<1>1. CASE Calm
  BY <1>1 DEF Calm, NumInv
<1>2. ASSUME NEW s \in Senders, PutStep(s) PROVE NumInv'
  <2>1. \A u \in Senders : u # s => pc'[u] = pc[u] /\ num'[u] = num[u]
    BY <1>2, PutFrame
  <2>2. /\ words'.RECVS = words.RECVS /\ (Freeing' <=> Freeing) /\ (Asking' <=> Asking)
        /\ num'[Receiver] = num[Receiver]
    BY <1>2, PutFrame
  <2>3. PutsNumber(s)
    BY <1>2, PutNumber
  <2>4. CASE /\ pc[s] = "idle" /\ pc'[s] = "wake" /\ num'[s] = words.SENDS
             /\ words'.SENDS = words.SENDS + 1 /\ words.SENDS < MaxSends
    BY SMTT(30), <1>0, <2>1, <2>2, <2>4 DEF NumInv
  <2>5. CASE /\ pc[s] \in Sending \ {"skipped"} /\ pc'[s] \in Sending /\ num'[s] = num[s]
             /\ words'.SENDS = words.SENDS
    BY SMT, <1>0, <2>1, <2>2, <2>5 DEF NumInv
  <2>6. CASE pc[s] \in Sending /\ pc'[s] \notin Sending /\ words'.SENDS = words.SENDS
    BY ZenonT(40), <1>0, <2>1, <2>2, <2>6 DEF NumInv
  <2> QED BY <2>3, <2>4, <2>5, <2>6 DEF PutsNumber
<1>3. CASE TakeStep
  <2>1. \A u \in Senders : pc'[u] = pc[u] /\ num'[u] = num[u]
    BY <1>3, TakeFrame
  <2>2. words'.SENDS = words.SENDS /\ TakesNumber
    BY <1>3, TakeFrame, TakeNumber
  <2>3. ASSUME pc[Receiver] \in {"take", "pass"}, pc'[Receiver] \in {"taken", "passed"},
               words'.RECVS = num[Receiver] + 1, num'[Receiver] = num[Receiver]
        PROVE  NumInv'
    <3>1. ~Freeing /\ Asking /\ num[Receiver] = words.RECVS /\ Freeing' /\ ~Asking'
      BY <2>3 DEF Freeing, Asking, NumInv, InNotify, InSleep
    <3>2. words.RECVS < words.SENDS
      <4>1. CASE pc[Receiver] = "take"
        BY SMT, <1>0, <3>1, <4>1 DEF RingInv, Base, Full
      <4>2. CASE pc[Receiver] = "pass"
        BY <1>0, <3>1, <4>2 DEF ValueInv, SkipInv, Passing
      <4> QED BY <2>3, <4>1, <4>2
    <3>3. \A s \in Senders : pc[s] \in Sending /\ pc[s] # "skipped" => num[s] # words.RECVS
      BY <2>3, <3>1 DEF RingInv, ValueInv, HoldInv, Passing
    <3> QED BY SMTT(30), <1>0, <2>1, <2>2, <2>3, <3>1, <3>2, <3>3 DEF NumInv
  <2>4. CASE /\ Freeing /\ ~Freeing' /\ pc'[Receiver] = "notify" /\ words'.RECVS = words.RECVS
             /\ then'[Receiver] = "idle" \/ num'[Receiver] = num[Receiver] + 1
    <3>1. Asking' => num'[Receiver] = num[Receiver] + 1
      BY <2>4 DEF Asking, InNotify, InSleep
    <3> QED BY <1>0, <2>1, <2>2, <2>4, <3>1 DEF NumInv
  <2>5. CASE pc[Receiver] = "take_skip" /\ pc'[Receiver] = "pass" /\ words'.RECVS = words.RECVS
               /\ num'[Receiver] = num[Receiver]
    <3>1. Asking /\ ~Freeing'
      BY <2>5 DEF Asking, Freeing
    <3> QED BY <1>0, <2>1, <2>2, <2>5, <3>1 DEF NumInv
  <2> QED BY <2>2, <2>3, <2>4, <2>5 DEF TakesNumber
<1>4. ASSUME NEW t \in Tasks, Frees(t) PROVE NumInv'
  BY <1>4, FreesFrame DEF NumInv
<1> QED BY <1>1, <1>2, <1>3, <1>4, CalmSteps

\* A number that its slot shows is one of the next numbers to receive.
LEMMA ShownInWindow ==
  ASSUME Types, NumInv, RingInv, NEW k \in Nat, slot[k % cap] = 2 * k \/ Full(k)
  PROVE  Base \in Nat /\ Base <= k /\ k < Base + cap
<1>1. Base \in Nat
  BY SMT DEF Types, WordTypes, LocalTypes, NumInv, Base
<1>2. PICK j \in Nat : Base <= j /\ j < Base + cap /\ j % cap = k % cap
  BY <1>1, InWindow
<1>3. slot[j % cap] = 2 * j \/ slot[j % cap] = 2 * j + 1
  BY <1>2 DEF RingInv, Full
<1>4. j = k
  BY SMT, <1>2, <1>3 DEF Full
<1> QED BY <1>1, <1>2, <1>4

\* Every step keeps the slots those of the next numbers to receive.
LEMMA RingInvStep ==
  ASSUME Types, PlaceInv, CountInv, NumInv, RingInv, ValueInv, [Next]_vars
  PROVE  RingInv'
<1>0. /\ words.SENDS \in Nat /\ words.RECVS \in Nat /\ num \in [Tasks -> Nat] /\ Receiver \in Tasks
      /\ cap \in Nat /\ cap > 0 /\ slot \in [Slots -> Nat] /\ data \in [Slots -> Values]
      /\ pc \in [Tasks -> Places] /\ Receiver \notin Senders
  BY SMT, ChannelAssumption DEF Types, WordTypes, LocalTypes, RingTypes, PlaceTypes
<1>00. Base \in Nat /\ \A t \in Tasks : SlotOf(t) \in Slots
  BY SMT, <1>0, SlotType DEF Types, Base, NumInv
<1>1. CASE Calm
  <2>1. Base' = Base /\ UNCHANGED <<slot, data>> /\ words'.SENDS = words.SENDS
    BY <1>1 DEF Calm, Base
  <2>2. \A s \in Senders : pc'[s] \in {"write", "full"} => num'[s] = num[s]
    BY <1>1 DEF Calm, Sending
  <2>3. \A s \in Senders : /\ pc'[s] \in {"write", "full"} => slot[SlotOf(s)] = 2 * num[s]
                           /\ pc'[s] = "full" => data[SlotOf(s)] = num[s]
    BY <1>1 DEF Calm, RingInv, IsMyTurn
  <2>4. \A s \in Senders : pc'[s] \in {"write", "full"} => SlotOf(s)' = SlotOf(s)
    BY <2>2 DEF SlotOf
  <2>5. pc'[Receiver] = "take" => Full(num[Receiver])'
    BY <1>1, <2>1 DEF Calm, Full
  <2> QED BY <2>1, <2>2, <2>3, <2>4, <2>5 DEF RingInv, Full
<1>2. ASSUME NEW s \in Senders, PutStep(s) PROVE RingInv'
  <2>1. \A u \in Senders : u # s => pc'[u] = pc[u] /\ num'[u] = num[u] /\ SlotOf(u)' = SlotOf(u)
    BY <1>2, PutFrame DEF SlotOf
  <2>2. pc'[Receiver] = pc[Receiver] /\ num'[Receiver] = num[Receiver] /\ Base' = Base
    BY <1>2, PutFrame
  <2>3. CASE take_number(s) \/ vx_channel_skip(s) \/ count_skip(s) \/ (load_receiver(s) /\ words.RECEIVER = 0)
    <3>1. UNCHANGED <<slot, data>> /\ pc'[s] \notin {"write", "full"}
      BY <1>0, <2>3 DEF take_number, vx_channel_skip, count_skip, load_receiver
    <3>2. words'.SENDS >= words.SENDS
      BY SMT, <1>0, <1>2, PutNumber DEF PutsNumber
    <3>3. words'.SENDS \in Nat
      BY SMT, <1>0, <1>2, PutNumber DEF PutsNumber
    <3> QED BY SMT, <1>0, <2>1, <2>2, <3>1, <3>2, <3>3 DEF RingInv, Full
  <2>4. CASE write_value(s)
    <3>1. /\ pc[s] = "write" /\ UNCHANGED <<words, slot, num>> /\ data' = [data EXCEPT ![SlotOf(s)] = num[s]]
          /\ pc'[s] = "full"
      BY <1>0, <2>4 DEF write_value
    <3>2. slot[SlotOf(s)] = 2 * num[s] /\ SlotOf(s)' = SlotOf(s)
      BY <3>1 DEF RingInv, SlotOf
    <3>3. ASSUME NEW k \in Nat, Base <= k, k < Base + cap
          PROVE  slot[k % cap] = 2 * k \/ (Full(k) /\ k < words.SENDS /\ data'[k % cap] = k)
      <4>1. k % cap \in Slots
        BY ModIs
      <4>2. Full(k) => k % cap # SlotOf(s)
        BY SMT, <1>0, <3>2 DEF Full
      <4> QED BY <1>0, <3>1, <3>3, <4>1, <4>2 DEF RingInv
    <3>4. \A u \in Senders : u # s /\ pc[u] = "full" => data'[SlotOf(u)] = num[u]
      <4>1. ASSUME NEW u \in Senders, u # s, pc[u] = "full" PROVE SlotOf(u) # SlotOf(s)
        <5>1. slot[SlotOf(u)] = 2 * num[u]
          BY <4>1 DEF RingInv
        <5>2. SlotOf(u) = SlotOf(s) => num[u] = num[s]
          BY SMT, <1>0, <3>2, <5>1
        <5> QED BY <3>1, <4>1, <5>2 DEF NumInv, Sending
      <4> QED BY <1>0, <1>00, <3>1, <4>1 DEF RingInv
    <3>5. data'[SlotOf(s)] = num[s]
      BY <1>0, <1>00, <3>1
    <3> QED BY SMTT(30), <2>1, <2>2, <3>1, <3>2, <3>3, <3>4, <3>5 DEF RingInv, Full
  <2>5. CASE store_full(s)
    <3>1. /\ pc[s] = "full" /\ UNCHANGED <<words, data>> /\ pc'[s] = "notify"
          /\ slot' = [slot EXCEPT ![SlotOf(s)] = 2 * num[s] + 1]
      BY <1>0, <2>5 DEF store_full
    <3>2. slot[SlotOf(s)] = 2 * num[s] /\ data[SlotOf(s)] = num[s] /\ num[s] < words.SENDS /\ num[s] \in Nat
      BY <1>0, <3>1 DEF RingInv, NumInv, Sending
    <3>3. Base <= num[s] /\ num[s] < Base + cap
      BY <3>2, ShownInWindow DEF SlotOf
    <3>4. ASSUME NEW k \in Nat, Base <= k, k < Base + cap
          PROVE  slot'[k % cap] = 2 * k \/ (Full(k)' /\ k < words.SENDS /\ data[k % cap] = k)
      <4>1. k % cap \in Slots
        BY ModIs
      <4>2. CASE k % cap = SlotOf(s)
        <5>1. k = num[s]
          BY SMT, <1>00, <3>2, <3>3, <3>4, <4>2, Window DEF SlotOf
        <5> QED BY <1>0, <1>00, <3>1, <3>2, <4>2, <5>1 DEF Full
      <4>3. CASE k % cap # SlotOf(s)
        BY <1>0, <1>00, <3>1, <3>4, <4>1, <4>3 DEF RingInv, Full
      <4> QED BY <4>2, <4>3
    <3>5. ASSUME NEW u \in Senders, u # s, pc[u] \in {"write", "full"} PROVE slot'[SlotOf(u)] = 2 * num[u]
      <4>1. slot[SlotOf(u)] = 2 * num[u]
        BY <3>5 DEF RingInv
      <4>2. SlotOf(u) = SlotOf(s) => num[u] = num[s]
        BY SMT, <1>0, <3>2, <4>1
      <4>3. SlotOf(u) # SlotOf(s)
        BY <3>1, <3>5, <4>2 DEF NumInv, Sending
      <4> QED BY <1>0, <1>00, <3>1, <4>1, <4>3
    <3>6. pc[Receiver] = "take" => slot'[num[Receiver] % cap] = 2 * num[Receiver] + 1
      BY SMT, <1>0, <1>00, <3>1, <3>2 DEF RingInv, Full, SlotOf
    <3> QED BY <2>1, <2>2, <3>1, <3>4, <3>5, <3>6 DEF RingInv, Full
  <2> QED BY <1>2, <2>3, <2>4, <2>5 DEF PutStep
<1>3. CASE TakeStep
  <2>1. \A u \in Senders : pc'[u] = pc[u] /\ num'[u] = num[u] /\ SlotOf(u)' = SlotOf(u)
    BY <1>3, TakeFrame DEF SlotOf
  <2>2. words'.SENDS = words.SENDS /\ UNCHANGED data /\ TakesNumber
    BY <1>3, TakeFrame, TakeNumber
  <2>3. CASE /\ pc[Receiver] \in {"take", "pass"} /\ pc'[Receiver] \in {"taken", "passed"} /\ UNCHANGED slot
             /\ words'.RECVS = num[Receiver] + 1 /\ num'[Receiver] = num[Receiver]
    <3>1. ~Freeing /\ Asking /\ Freeing'
      BY <2>3 DEF Freeing, Asking
    <3>2. Base' = Base
      BY SMT, <1>0, <2>3, <3>1 DEF Base, NumInv
    <3> QED BY <2>1, <2>2, <2>3, <3>2 DEF RingInv, Full
  <2>4. CASE /\ Freeing /\ ~Freeing' /\ pc'[Receiver] = "notify" /\ words'.RECVS = words.RECVS
             /\ slot' = [slot EXCEPT ![SlotOf(Receiver)] = 2 * (num[Receiver] + cap)]
    <3>0. num[Receiver] = Base /\ Base' = Base + 1 /\ words.RECVS = Base + 1
      BY SMT, <1>0, <2>4 DEF Base, NumInv
    <3>1. ASSUME NEW k \in Nat, Base + 1 <= k, k < Base + 1 + cap
          PROVE  slot'[k % cap] = 2 * k \/ (Full(k)' /\ k < words.SENDS /\ data[k % cap] = k)
      <4>1. k % cap \in Slots
        BY ModIs
      <4>2. CASE k = Base + cap
        <5>1. k % cap = SlotOf(Receiver)
          BY <1>00, <3>0, <4>2, ModShift DEF SlotOf
        <5> QED BY <1>0, <2>4, <3>0, <4>1, <4>2, <5>1
      <4>3. CASE k # Base + cap
        <5>1. k < Base + cap /\ Base <= k
          BY SMT, <1>0, <1>00, <3>1, <4>3
        <5>2. k % cap # SlotOf(Receiver)
          <6>1. num[Receiver] \in Nat /\ Base \in Int /\ Base <= num[Receiver] /\ num[Receiver] < Base + cap
            BY SMT, <1>0, <1>00, <3>0
          <6>2. k % cap = num[Receiver] % cap => k = num[Receiver]
            BY <5>1, <6>1, Window
          <6> QED BY SMT, <1>00, <3>0, <3>1, <6>2 DEF SlotOf
        <5> QED BY <1>0, <2>4, <4>1, <5>1, <5>2 DEF RingInv, Full
      <4> QED BY <4>2, <4>3
    <3>2. ASSUME NEW u \in Senders, pc[u] \in {"write", "full"} PROVE slot'[SlotOf(u)] = 2 * num[u]
      <4>1. slot[SlotOf(u)] = 2 * num[u] /\ num[u] \in Nat /\ num[u] >= words.RECVS
        BY <1>0, <3>2 DEF RingInv, NumInv, Sending
      <4>2. Base <= num[u] /\ num[u] < Base + cap
        BY <4>1, ShownInWindow DEF SlotOf
      <4>3. SlotOf(u) # SlotOf(Receiver)
        <5>1. num[Receiver] \in Nat /\ Base \in Int /\ Base <= num[Receiver] /\ num[Receiver] < Base + cap
          BY SMT, <1>0, <1>00, <3>0
        <5>2. num[u] % cap = num[Receiver] % cap => num[u] = num[Receiver]
          BY <4>1, <4>2, <5>1, Window
        <5> QED BY SMT, <1>00, <3>0, <4>1, <5>2 DEF SlotOf
      <4> QED BY <1>0, <1>00, <2>4, <4>1, <4>3
    <3> QED BY <2>1, <2>2, <2>4, <3>0, <3>1, <3>2 DEF RingInv, Full
  <2>5. CASE pc[Receiver] = "take_skip" /\ pc'[Receiver] = "pass" /\ words'.RECVS = words.RECVS
               /\ UNCHANGED slot
    <3>1. Base' = Base
      BY <2>5 DEF Base, Freeing
    <3> QED BY <2>1, <2>2, <2>5, <3>1 DEF RingInv, Full
  <2> QED BY <2>2, <2>3, <2>4, <2>5 DEF TakesNumber
<1>4. ASSUME NEW t \in Tasks, Frees(t) PROVE RingInv'
  <2>1. UNCHANGED <<slot, data>> /\ words'.SENDS = words.SENDS /\ Base' = Base
    BY <1>4, FreesFrame DEF Base
  <2>2. (\A s \in Senders : pc'[s] \notin {"write", "full"}) /\ pc'[Receiver] # "take"
    BY <1>4, FreesFrame DEF Sending
  <2> QED BY <2>1, <2>2 DEF RingInv, Full
<1> QED BY <1>1, <1>2, <1>3, <1>4, CalmSteps

-----------------------------------------------------------------------------
\* Where the values are

\* A number that was not taken is not in a slot.
LEMMA NextIsOpen ==
  ASSUME Types, NumInv, RingInv
  PROVE  ~Full(words.SENDS)
<1>0. words.SENDS \in Nat /\ words.SENDS % cap \in Slots /\ slot \in [Slots -> Nat]
  BY ModIs DEF Types, WordTypes, RingTypes
<1> SUFFICES ASSUME Full(words.SENDS) PROVE FALSE
  OBVIOUS
<1>1. Base <= words.SENDS /\ words.SENDS < Base + cap
  BY <1>0, ShownInWindow
<1>2. slot[words.SENDS % cap] = 2 * words.SENDS
  BY SMT, <1>0, <1>1 DEF RingInv
<1> QED BY SMT, <1>0, <1>2 DEF Full

\* A step of a send keeps each value in its place.
LEMMA PutKeeps ==
  ASSUME Types, PlaceInv, CountInv, NumInv, RingInv, ValueInv, NEW s \in Senders, PutStep(s)
  PROVE  ValueInv'
<1>0. /\ words.SENDS \in Nat /\ words.RECVS \in Nat /\ num \in [Tasks -> Nat] /\ Receiver \in Tasks
      /\ slot \in [Slots -> Nat] /\ pc \in [Tasks -> Places] /\ SlotOf(s) \in Slots /\ num[s] \in Nat
      /\ skips \subseteq Nat /\ back \subseteq Nat
  BY SlotType DEF Types, WordTypes, LocalTypes, RingTypes, PlaceTypes, HistoryTypes
<1>1. \A u \in Senders : u # s => pc'[u] = pc[u] /\ num'[u] = num[u]
  BY PutFrame
<1>2. /\ words'.RECVS = words.RECVS /\ UNCHANGED <<out, freed, dropped>>
      /\ \A k : Passing(k)' <=> Passing(k)
  BY PutFrame
<1>3. ~freed /\ \A k : Received(k)' <=> Received(k)
  <2>1. pc[s] \in {"idle"} \cup Sending
    BY PutFrame DEF take_number
  <2> QED BY <1>2, <2>1 DEF CountInv, Sending, Received
<1>4. DropInv'
  BY <1>2, <1>3 DEF ValueInv, DropInv
<1>5. CASE take_number(s)
  <2>1. /\ pc[s] = "idle" /\ pc'[s] = "wake" /\ num'[s] = words.SENDS /\ words'.SENDS = words.SENDS + 1
        /\ UNCHANGED <<slot, skips, back>>
    BY <1>0, <1>5 DEF take_number, Types, WordTypes
  <2>2. \A k : Full(k)' <=> Full(k)
    BY <2>1 DEF Full
  <2>3. HoldInv'
    <3>1. ~Full(words.SENDS) /\ words.SENDS \notin back /\ words.SENDS \notin skips /\ ~Passing(words.SENDS)
      BY SMT, <1>0, NextIsOpen DEF ValueInv, SkipInv, BackInv
    <3>2. ~Received(words.SENDS)
      BY SMT, <1>0 DEF Received, ValueInv, OutInv, NumInv
    <3> QED BY <1>1, <1>2, <1>3, <2>1, <2>2, <3>1, <3>2 DEF ValueInv, HoldInv
  <2>4. \A k : SkippedBy(k)' <=> SkippedBy(k)
    BY <1>1, <2>1 DEF SkippedBy
  <2>5. SkipInv' /\ BackInv' /\ OutInv'
    <3>1. SkipInv'
      BY SMT, <1>0, <1>2, <2>1, <2>2, <2>4 DEF ValueInv, SkipInv
    <3>2. BackInv'
      <4>1. \A k \in back : k \in Nat /\ k < words.SENDS /\ k < words.SENDS + 1
        BY SMT, <1>0 DEF ValueInv, BackInv
      <4> QED BY <1>3, <2>1, <2>2, <4>1 DEF ValueInv, BackInv
    <3>3. OutInv'
      BY <1>2 DEF ValueInv, OutInv
    <3> QED BY <3>1, <3>2, <3>3
  <2>6. \A k : Held(k) \/ k = words.SENDS => Held(k)'
    BY <1>1, <2>1 DEF Held, Sending
  <2>7. CoverInv'
    BY SMTT(30), <1>0, <1>2, <1>3, <2>1, <2>2, <2>6 DEF ValueInv, CoverInv
  <2> QED BY <1>4, <2>3, <2>5, <2>7 DEF ValueInv
<1>6. CASE write_value(s)
  <2>1. /\ pc[s] = "write" /\ pc'[s] = "full" /\ num'[s] = num[s] /\ words'.SENDS = words.SENDS
        /\ UNCHANGED <<slot, skips, back>>
    BY <1>0, <1>6 DEF write_value
  <2>2. \A k : /\ Full(k)' <=> Full(k)
               /\ SkippedBy(k)' <=> SkippedBy(k)
               /\ Held(k)' <=> Held(k)
    BY <1>1, <2>1 DEF Full, SkippedBy, Held, Sending
  <2>3. HoldInv'
    BY <1>1, <1>2, <1>3, <2>1, <2>2 DEF ValueInv, HoldInv, Sending
  <2> QED BY <1>2, <1>3, <1>4, <2>1, <2>2, <2>3 DEF ValueInv, SkipInv, BackInv, OutInv, CoverInv
<1>7. CASE store_full(s)
  <2>1. /\ pc[s] = "full" /\ pc'[s] = "notify" /\ words'.SENDS = words.SENDS
        /\ UNCHANGED <<skips, back>> /\ slot' = [slot EXCEPT ![SlotOf(s)] = 2 * num[s] + 1]
    BY <1>0, <1>7 DEF store_full
  <2>2. slot[SlotOf(s)] = 2 * num[s] /\ num[s] >= words.RECVS
    BY <2>1 DEF RingInv, NumInv, Sending
  <2>3. ASSUME NEW k \in Nat PROVE Full(k)' <=> Full(k) \/ k = num[s]
    <3>1. k % cap \in Slots
      BY ModIs
    <3>2. CASE k % cap = SlotOf(s)
      BY SMT, <1>0, <2>1, <2>2, <3>2 DEF Full
    <3>3. CASE k % cap # SlotOf(s)
      BY <1>0, <2>1, <3>1, <3>3 DEF Full, SlotOf
    <3> QED BY <3>2, <3>3
  <2>4. \A u \in Senders : u # s /\ pc[u] \in Sending => num[u] # num[s]
    BY <2>1 DEF NumInv, Sending
  <2>5. \A k : SkippedBy(k)' <=> SkippedBy(k)
    BY <1>1, <2>1 DEF SkippedBy
  <2>6. num[s] \notin skips /\ ~Passing(num[s]) /\ num[s] \notin back
    BY <2>1 DEF ValueInv, HoldInv, Sending
  <2>7. HoldInv'
    <3>1. \A u \in Senders : pc'[u] \in Sending => u # s
      BY <2>1 DEF Sending
    <3> QED BY <1>0, <1>1, <1>2, <1>3, <2>1, <2>3, <2>4, <3>1 DEF ValueInv, HoldInv
  <2>8. SkipInv' /\ BackInv' /\ OutInv'
    BY <1>0, <1>2, <1>3, <2>1, <2>3, <2>5, <2>6 DEF ValueInv, SkipInv, BackInv, OutInv
  <2>9. \A k : Held(k) => Held(k)' \/ k = num[s]
    BY <1>1 DEF Held
  <2>10. CoverInv'
    BY <1>0, <1>2, <1>3, <2>1, <2>2, <2>3, <2>9 DEF ValueInv, CoverInv
  <2> QED BY <1>4, <2>7, <2>8, <2>10 DEF ValueInv
<1>8. CASE vx_channel_skip(s)
  <2>1. /\ pc[s] = "skip" /\ pc'[s] = "skipped" /\ num'[s] = num[s] /\ words'.SENDS = words.SENDS
        /\ UNCHANGED <<slot, back>> /\ skips' = skips \cup {num[s]}
    BY <1>0, <1>8 DEF vx_channel_skip
  <2>2. \A k : /\ Full(k)' <=> Full(k)
               /\ Held(k)' <=> Held(k)
               /\ SkippedBy(k)' <=> SkippedBy(k) \/ k = num[s]
    BY <1>1, <2>1 DEF Full, SkippedBy, Held, Sending
  <2>3. \A u \in Senders : u # s /\ pc[u] \in Sending => num[u] # num[s]
    BY <2>1 DEF NumInv, Sending
  <2>4. HoldInv'
    BY <1>1, <1>2, <1>3, <2>1, <2>2, <2>3 DEF ValueInv, HoldInv, Sending
  <2>5. num[s] >= words.RECVS /\ num[s] < words.SENDS /\ ~Full(num[s]) /\ ~Passing(num[s])
    BY <2>1 DEF NumInv, ValueInv, HoldInv, Sending
  <2>6. SkipInv'
    BY <1>0, <1>2, <2>1, <2>2, <2>5 DEF ValueInv, SkipInv
  <2> QED BY <1>2, <1>3, <1>4, <2>1, <2>2, <2>4, <2>6 DEF ValueInv, BackInv, OutInv, CoverInv
<1>9. CASE count_skip(s) \/ (load_receiver(s) /\ words.RECEIVER = 0)
  <2>1. /\ pc[s] \in Sending /\ pc'[s] \notin Sending /\ words'.SENDS = words.SENDS
        /\ UNCHANGED <<slot, skips>> /\ back' = back \cup {num[s]}
    BY SMT, <1>0, <1>9 DEF count_skip, load_receiver, Sending, Types, WordTypes
  <2>2. \A k : /\ Full(k)' <=> Full(k)
               /\ Held(k) => Held(k)' \/ k = num[s]
               /\ SkippedBy(k) => SkippedBy(k)' \/ k = num[s]
    BY <1>1, <2>1 DEF Full, SkippedBy, Held
  <2>3. \A u \in Senders : u # s /\ pc[u] \in Sending => num[u] # num[s]
    BY <2>1 DEF NumInv
  <2>4. HoldInv'
    <3>1. \A u \in Senders : pc'[u] \in Sending => u # s
      BY <2>1
    <3> QED BY <1>1, <1>2, <1>3, <2>1, <2>2, <2>3, <3>1 DEF ValueInv, HoldInv
  <2>5. num[s] < words.SENDS /\ ~Full(num[s]) /\ ~Received(num[s])
    BY <2>1 DEF NumInv, ValueInv, HoldInv
  <2>6. SkipInv' /\ BackInv' /\ OutInv'
    BY <1>0, <1>2, <1>3, <2>1, <2>2, <2>5 DEF ValueInv, SkipInv, BackInv, OutInv
  <2>7. CoverInv'
    BY <1>2, <1>3, <2>1, <2>2 DEF ValueInv, CoverInv
  <2> QED BY <1>4, <2>4, <2>6, <2>7 DEF ValueInv
<1> QED BY <1>5, <1>6, <1>7, <1>8, <1>9 DEF PutStep

\* A step of a receive keeps each value in its place.
LEMMA TakeKeeps ==
  ASSUME Types, PlaceInv, CountInv, NumInv, RingInv, ValueInv, TakeStep
  PROVE  ValueInv'
<1>0. /\ words.SENDS \in Nat /\ words.RECVS \in Nat /\ num \in [Tasks -> Nat] /\ Receiver \in Tasks
      /\ cap \in Nat /\ cap > 0
      /\ slot \in [Slots -> Nat] /\ pc \in [Tasks -> Places] /\ SlotOf(Receiver) \in Slots
           /\ num[Receiver] \in Nat
      /\ skips \subseteq Nat /\ back \subseteq Nat /\ out \in Seq(Values)
  BY SMT, SlotType, ChannelAssumption DEF Types, WordTypes, LocalTypes, RingTypes, PlaceTypes, HistoryTypes
<1>1. /\ \A u \in Senders : pc'[u] = pc[u] /\ num'[u] = num[u]
      /\ UNCHANGED <<data, back, freed, dropped>> /\ words'.SENDS = words.SENDS
      /\ take_slot(Receiver) \/ UNCHANGED out
  BY TakeFrame
<1>2. TakesNumber
  BY TakeNumber
<1>3. \A k : (Held(k)' <=> Held(k)) /\ (SkippedBy(k)' <=> SkippedBy(k))
  BY <1>1 DEF Held, SkippedBy
<1>4. ~freed
  BY <1>2 DEF CountInv, TakesNumber, Freeing
<1>5. DropInv'
  BY <1>1, <1>4 DEF ValueInv, DropInv
<1>6. CASE take_slot(Receiver)
  <2>1. /\ pc[Receiver] = "take" /\ pc'[Receiver] = "taken" /\ UNCHANGED <<slot, skips>>
        /\ words'.RECVS = num[Receiver] + 1 /\ out' = Append(out, data[SlotOf(Receiver)])
    BY <1>0, <1>6 DEF take_slot, Types, WordTypes
  <2>2. num[Receiver] = words.RECVS /\ ~Freeing /\ Full(words.RECVS)
    BY <2>1 DEF NumInv, Asking, Freeing, RingInv
  <2>3. data[SlotOf(Receiver)] = words.RECVS
    <3>1. Base <= words.RECVS /\ words.RECVS < Base + cap
      BY <1>0, <2>2, ShownInWindow
    <3>2. slot[words.RECVS % cap] # 2 * words.RECVS
      BY SMT, <1>0, <2>2 DEF Full
    <3> QED BY <1>0, <2>2, <3>1, <3>2 DEF RingInv, SlotOf
  <2>4. /\ Len(out') = Len(out) + 1 /\ out'[Len(out) + 1] = words.RECVS
        /\ \A i \in 1..Len(out) : out'[i] = out[i]
    <3> DEFINE v == data[SlotOf(Receiver)]
    <3>1. v \in Values
      BY <1>0 DEF Types, RingTypes
    <3>2. out' = Append(out, v) /\ v = words.RECVS
      BY <2>1, <2>3
    <3> HIDE DEF v
    <3> QED BY SMT, <1>0, <3>1, <3>2
  <2>5. Len(out) \in Nat
    BY SMT, <1>0
  <2>6. \A k : Received(k)' <=> Received(k) \/ k = words.RECVS
    BY SMT, <2>4, <2>5 DEF Received
  <2>7. OutInv'
    <3>1. \A i \in 1..Len(out) : out[i] \in Nat /\ out[i] < words.RECVS
      BY DEF ValueInv, OutInv
    <3>2. \A i \in 1..Len(out') : i = Len(out) + 1 \/ i \in 1..Len(out)
      BY SMT, <2>4, <2>5
    <3>3. \A i \in 1..Len(out') : out'[i] \in Nat /\ out'[i] < words'.RECVS
      <4> SUFFICES ASSUME NEW i \in 1..Len(out') PROVE out'[i] \in Nat /\ out'[i] < words.RECVS + 1
        BY <2>1, <2>2
      <4>1. CASE i = Len(out) + 1
        BY SMT, <1>0, <2>4, <4>1
      <4>2. CASE i \in 1..Len(out)
        BY SMT, <1>0, <2>4, <3>1, <4>2
      <4> QED BY <3>2, <4>1, <4>2
    <3>4. \A i, j \in 1..Len(out') : out'[i] = out'[j] => i = j
      <4> SUFFICES ASSUME NEW i \in 1..Len(out'), NEW j \in 1..Len(out'), out'[i] = out'[j] PROVE i = j
        OBVIOUS
      <4>1. CASE i \in 1..Len(out) /\ j \in 1..Len(out)
        BY <2>4, <4>1 DEF ValueInv, OutInv
      <4>2. i \in 1..Len(out) => out'[i] < words.RECVS
        BY <2>4, <3>1
      <4>3. j \in 1..Len(out) => out'[j] < words.RECVS
        BY <2>4, <3>1
      <4> QED BY SMT, <1>0, <2>4, <3>2, <4>1, <4>2, <4>3
    <3> QED BY <3>3, <3>4 DEF OutInv
  <2>8. \A k : (Full(k)' <=> Full(k)) /\ ~Passing(k)'
    BY <2>1 DEF Full, Passing
  <2>9. HoldInv'
    BY <1>1, <2>1, <2>2, <2>6, <2>8 DEF ValueInv, HoldInv
  <2>10. SkipInv'
    BY SMT, <1>0, <1>1, <1>3, <2>1, <2>2, <2>8 DEF ValueInv, SkipInv
  <2>11. BackInv'
    BY <1>1, <2>2, <2>6, <2>8 DEF ValueInv, BackInv
  <2>12. CoverInv'
    BY SMTT(30), <1>0, <1>1, <1>3, <2>1, <2>2, <2>6, <2>8 DEF ValueInv, CoverInv
  <2> QED BY <1>5, <2>7, <2>9, <2>10, <2>11, <2>12 DEF ValueInv
<1>7. CASE /\ pc[Receiver] = "pass" /\ pc'[Receiver] \in {"taken", "passed"} /\ UNCHANGED <<slot, skips, out>>
           /\ words'.RECVS = num[Receiver] + 1
  <2>1. num[Receiver] = words.RECVS /\ Passing(words.RECVS) /\ \A k : ~Passing(k)'
    BY <1>7 DEF NumInv, Asking, Passing
  <2>2. \A k : (Full(k)' <=> Full(k)) /\ (Received(k)' <=> Received(k))
    BY <1>7 DEF Full, Received
  <2>3. HoldInv' /\ BackInv'
    BY <1>1, <1>7, <2>1, <2>2 DEF ValueInv, HoldInv, BackInv
  <2>4. SkipInv'
    BY SMTT(30), <1>0, <1>1, <1>3, <1>7, <2>1, <2>2 DEF ValueInv, SkipInv
  <2>5. OutInv'
    <3>1. out' = out /\ words'.RECVS = words.RECVS + 1 /\ words.RECVS \in Nat
      BY <1>0, <1>7, <2>1
    <3>2. ASSUME NEW i \in 1..Len(out) PROVE out[i] \in Nat /\ out[i] < words'.RECVS
      <4>1. out[i] \in Nat /\ out[i] < words.RECVS
        BY DEF ValueInv, OutInv
      <4> QED BY SMT, <3>1, <4>1
    <3> QED BY <3>1, <3>2 DEF ValueInv, OutInv
  <2>6. ~Full(words.RECVS)
    BY <1>0, <2>1 DEF ValueInv, SkipInv
  <2>7. CoverInv'
    BY SMTT(30), <1>0, <1>1, <1>3, <1>7, <2>1, <2>2, <2>6 DEF ValueInv, CoverInv
  <2> QED BY <1>5, <2>3, <2>4, <2>5, <2>7 DEF ValueInv
<1>8. CASE /\ Freeing /\ ~Freeing' /\ pc'[Receiver] = "notify" /\ words'.RECVS = words.RECVS
             /\ UNCHANGED <<skips, out>>
           /\ slot' = [slot EXCEPT ![SlotOf(Receiver)] = 2 * (num[Receiver] + cap)]
  <2>1. num[Receiver] + 1 = words.RECVS /\ Base = num[Receiver] /\ \A k : ~Passing(k) /\ ~Passing(k)'
    <3>1. num[Receiver] + 1 = words.RECVS /\ Base = words.RECVS - 1
      BY <1>8 DEF NumInv, Base
    <3>2. Base = num[Receiver]
      BY SMT, <1>0, <3>1
    <3>3. pc[Receiver] # "pass" /\ pc'[Receiver] # "pass"
      BY <1>8 DEF Freeing
    <3> QED BY <3>1, <3>2, <3>3 DEF Passing
  <2>2. ASSUME NEW k \in Nat PROVE Full(k)' => Full(k)
    <3>1. k % cap \in Slots
      BY ModIs
    <3>2. k % cap # SlotOf(Receiver) => slot'[k % cap] = slot[k % cap]
      BY <1>0, <1>8, <3>1
    <3>3. k % cap = SlotOf(Receiver) => slot'[k % cap] # 2 * k + 1
      BY SMTT(30), <1>0, <1>8, <3>1
    <3> QED BY <3>2, <3>3 DEF Full
  <2>3. ASSUME NEW k \in Nat, k >= words.RECVS, Full(k) PROVE Full(k)'
    <3>1. k % cap \in Slots
      BY ModIs
    <3>2. Base <= k /\ k < Base + cap
      BY <2>3, ShownInWindow
    <3>3. k % cap # SlotOf(Receiver)
      <4>1. num[Receiver] \in Nat /\ Base \in Int /\ Base <= num[Receiver] /\ num[Receiver] < Base + cap
        BY SMT, <1>0, <2>1
      <4>2. k % cap = num[Receiver] % cap => k = num[Receiver]
        BY <3>2, <4>1, Window
      <4> QED BY SMT, <1>0, <2>1, <2>3, <4>2 DEF SlotOf
    <3> QED BY <1>0, <1>8, <2>3, <3>1, <3>3 DEF Full
  <2>4. \A k : Received(k)' <=> Received(k)
    BY <1>8 DEF Received
  <2>5. HoldInv'
    BY <1>0, <1>1, <1>8, <2>1, <2>2, <2>4 DEF ValueInv, HoldInv
  <2>6. SkipInv'
    BY <1>0, <1>1, <1>3, <1>8, <2>1, <2>2 DEF ValueInv, SkipInv
  <2>7. BackInv' /\ OutInv'
    BY <1>0, <1>1, <1>8, <2>2, <2>4 DEF ValueInv, BackInv, OutInv
  <2>8. CoverInv'
    BY <1>1, <1>3, <1>8, <2>3, <2>4 DEF ValueInv, CoverInv
  <2> QED BY <1>5, <2>5, <2>6, <2>7, <2>8 DEF ValueInv
<1>9. CASE /\ pc[Receiver] = "take_skip" /\ pc'[Receiver] = "pass" /\ words'.RECVS = words.RECVS
             /\ UNCHANGED <<slot, out>>
           /\ num'[Receiver] = num[Receiver] /\ num[Receiver] \in skips /\ skips' = skips \ {num[Receiver]}
  <2>1. \A k : ~Passing(k) /\ (Passing(k)' <=> k = num[Receiver])
    BY <1>9 DEF Passing
  <2>2. \A k : (Full(k)' <=> Full(k)) /\ (Received(k)' <=> Received(k))
    BY <1>9 DEF Full, Received
  <2>3. HoldInv'
    BY <1>1, <1>9, <2>1, <2>2 DEF ValueInv, HoldInv
  <2>4. SkipInv'
    BY <1>0, <1>1, <1>3, <1>9, <2>1, <2>2 DEF ValueInv, SkipInv
  <2>5. BackInv' /\ OutInv'
    BY <1>1, <1>9, <2>2 DEF ValueInv, BackInv, OutInv
  <2>6. CoverInv'
    BY <1>1, <1>3, <1>9, <2>2 DEF ValueInv, CoverInv
  <2> QED BY <1>5, <2>3, <2>4, <2>5, <2>6 DEF ValueInv
<1> QED BY <1>1, <1>2, <1>6, <1>7, <1>8, <1>9 DEF TakesNumber, Freeing, take_slot

\* The last end drops exactly the values that are left in the ring.
LEMMA FreeKeeps ==
  ASSUME Types, PlaceInv, CountInv, NumInv, RingInv, ValueInv, NEW t \in Tasks, Frees(t)
  PROVE  ValueInv'
<1>0. words.SENDS \in Nat /\ words.RECVS \in Nat /\ slot \in [Slots -> Nat]
  BY DEF Types, WordTypes, RingTypes
<1>1. /\ UNCHANGED <<slot, data, num, out, back>> /\ words'.SENDS = words.SENDS /\ words'.RECVS = words.RECVS
      /\ freed' /\ dropped' = {data[k % cap] : k \in Left} /\ skips' \subseteq skips
      /\ \A s \in Senders : pc[s] \notin Sending /\ pc'[s] \notin Sending
      /\ \A k : ~Passing(k) /\ ~Passing(k)'
  BY FreesFrame
<1>2. \A k : /\ Full(k)' <=> Full(k)
             /\ Received(k)' <=> Received(k)
             /\ ~Held(k) /\ ~SkippedBy(k)
  BY <1>1 DEF Full, Received, Held, SkippedBy, Sending
<1>3. HoldInv' /\ BackInv' /\ OutInv'
  BY <1>1, <1>2 DEF ValueInv, HoldInv, BackInv, OutInv
<1>4. SkipInv'
  BY <1>1, <1>2 DEF ValueInv, SkipInv
<1>5. CoverInv'
  BY <1>1, <1>2 DEF ValueInv, CoverInv
<1>6. ASSUME NEW k \in Left PROVE k \in words.RECVS..(words.SENDS - 1) /\ Full(k) /\ data[k % cap] = k
  <2>1. k \in words.RECVS..(words.SENDS - 1) /\ k \in Nat /\ Full(k)
    BY SMT, <1>0 DEF Left, Full
  <2>2. Base <= k /\ k < Base + cap
    BY <2>1, ShownInWindow
  <2>3. slot[k % cap] # 2 * k
    BY SMT, <2>1 DEF Full
  <2> QED BY <2>1, <2>2, <2>3 DEF RingInv
<1>7. DropInv'
  <2>1. dropped' = Left
    BY <1>1, <1>6
  <2>2. Left = {k \in words.RECVS..(words.SENDS - 1) : Full(k)}
    BY DEF Left, Full
  <2> QED BY <1>1, <1>2, <2>1, <2>2 DEF DropInv
<1> QED BY <1>3, <1>4, <1>5, <1>7 DEF ValueInv

\* Every step keeps each value in its place.
LEMMA ValueInvStep ==
  ASSUME Types, PlaceInv, CountInv, NumInv, RingInv, ValueInv, [Next]_vars
  PROVE  ValueInv'
<1>1. CASE Calm
  <2>1. \A k : /\ Full(k)' <=> Full(k)
               /\ Received(k)' <=> Received(k)
               /\ Passing(k)' <=> Passing(k)
    BY <1>1 DEF Calm, Full, Received, Passing
  <2>2. \A k : (Held(k)' <=> Held(k)) /\ (SkippedBy(k)' <=> SkippedBy(k))
    BY <1>1 DEF Calm, Held, SkippedBy, Sending
  <2>3. HoldInv'
    BY <1>1, <2>1 DEF Calm, ValueInv, HoldInv
  <2>4. SkipInv' /\ BackInv' /\ OutInv' /\ CoverInv'
    BY SMTT(30), <1>1, <2>1, <2>2 DEF Calm, ValueInv, SkipInv, BackInv, OutInv, CoverInv
  <2>5. DropInv'
    BY <1>1, <2>1 DEF Calm, ValueInv, DropInv
  <2> QED BY <2>3, <2>4, <2>5 DEF ValueInv
<1> QED BY <1>1, CalmSteps, PutKeeps, TakeKeeps, FreeKeeps

-----------------------------------------------------------------------------
\* The end of the sends

SendStep(s) == Send(s) \/ take_number(s) \/ drop_sender(s) \/ \E t \in Senders : clone(s, t)
RecvStep ==
  Receive(Receiver) \/ recv(Receiver) \/ try_recv(Receiver) \/ select(Receiver) \/ drop_receiver(Receiver)

\* When the count of the senders is 0, no send goes on and none starts.
LEMMA NoSenders ==
  ASSUME Types, CountInv, words.SENDERS = 0, NEW s \in Senders
  PROVE  pc[s] \notin Sending /\ ~SendStep(s)
<1>1. Live = {}
  BY NoElement DEF CountInv
<1>2. pc[s] = "unborn" \/ Leaves(s)
  BY <1>1 DEF Live
<1>3. pc[s] \notin Sending \cup {"idle", "cloning"}
  BY <1>2 DEF Leaves, Sending, InNotify
<1> QED BY <1>3 DEF Sending, SendStep, Send, load_receiver, load_slot, write_value, store_full, check_limits,
                    vx_channel_skip, count_skip, clone_end, take_number, drop_sender, clone

\* Every step keeps SKIPS the number of skips that are shown and not yet passed.
LEMMA SkipsCountedStep ==
  ASSUME Types, PlaceInv, CountInv, ValueInv, SkipsCounted, [Next]_vars
  PROVE  SkipsCounted'
<1>0. /\ pc \in [Tasks -> Places] /\ then \in [Tasks -> {"idle", "release", "wake", "senders"}] /\ WordTypes
      /\ Receiver \notin Senders /\ Receiver \in Tasks /\ words.SKIPS \in Int
      /\ num \in [Tasks -> Nat] /\ skips \subseteq Nat
  BY ChannelAssumption DEF Types, PlaceTypes, WordTypes, LocalTypes, RingTypes
<1>00. ~freed => \E m, n \in Nat : Counts(Skipped, m) /\ Counts(skips, n) /\ words.SKIPS + m = n + Passes
  BY DEF SkipsCounted
<1>1. CASE freed
  BY <1>1, FreedStays DEF SkipsCounted
<1>2. ASSUME ~freed, NEW t \in Tasks, Step(t) \/ wait_ends_early(t) \/ cancel(t) PROVE SkipsCounted'
  <2>1. Moves(t)
    BY <1>2, StepMoves
  <2>2. CASE Frees(t)
    <3>1. freed'
      BY <2>2, FreesFrame
    <3> QED BY <3>1 DEF SkipsCounted
  <2>3. CASE ~Frees(t)
    <3>1. UNCHANGED <<skips, freed>> /\ words'.SKIPS = words.SKIPS
      BY <2>1, <2>3 DEF Moves, Frees, release
    <3>2. \A s \in Senders : pc'[s] = "skipped" <=> pc[s] = "skipped"
      BY <1>0, <2>1 DEF Moves, Along, InNotify, PlaceInv, Selects
    <3>3. pc'[Receiver] = "pass" <=> pc[Receiver] = "pass"
      BY <1>0, <2>1 DEF Moves, Along, InNotify
    <3>4. Skipped' = Skipped /\ Passes' = Passes
      BY <3>2, <3>3 DEF Skipped, Passes
    <3> QED BY <3>1, <3>4 DEF SkipsCounted
  <2> QED BY <2>2, <2>3
<1>3. ASSUME ~freed, NEW s \in Senders, SendStep(s) PROVE SkipsCounted'
  <2>0. Passes' = Passes /\ UNCHANGED freed
    <3>1. pc'[Receiver] = pc[Receiver] /\ UNCHANGED freed
      BY <1>0, <1>3 DEF SendStep, Send, load_receiver, load_slot, write_value, store_full, check_limits,
                        vx_channel_skip, count_skip, clone_end, take_number, drop_sender, clone
    <3> QED BY <3>1 DEF Passes
  <2>1. CASE vx_channel_skip(s)
    <3>1. pc[s] = "skip" /\ skips' = skips \cup {num[s]} /\ pc' = [pc EXCEPT ![s] = "skipped"]
            /\ UNCHANGED words
      BY <2>1 DEF vx_channel_skip
    <3>2. Skipped' = Skipped \cup {s} /\ s \notin Skipped
      BY <1>0, <3>1 DEF Skipped
    <3>3. num[s] \notin skips
      BY <3>1 DEF ValueInv, HoldInv, Sending
    <3>4. PICK m, n \in Nat : Counts(Skipped, m) /\ Counts(skips, n) /\ words.SKIPS + m = n + Passes
      BY <1>3, <1>00
    <3>5. Counts(skips', n + 1) /\ Counts(Skipped', m + 1)
      BY <3>1, <3>2, <3>3, <3>4, AddOne
    <3>6. Passes \in Nat
      BY DEF Passes
    <3>7. m + 1 \in Nat /\ n + 1 \in Nat /\ words'.SKIPS + (m + 1) = (n + 1) + Passes'
      BY SMT, <1>0, <2>0, <3>1, <3>4, <3>6
    <3> QED BY <3>5, <3>7 DEF SkipsCounted
  <2>2. CASE count_skip(s)
    <3>1. pc[s] = "skipped" /\ UNCHANGED skips /\ pc' = [pc EXCEPT ![s] = "notify"]
            /\ words'.SKIPS = words.SKIPS + 1
      BY <1>0, <2>2 DEF count_skip, WordTypes
    <3>2. Skipped' = Skipped \ {s} /\ s \in Skipped
      BY <1>0, <3>1 DEF Skipped
    <3>3. PICK m, n \in Nat : Counts(Skipped, m) /\ Counts(skips, n) /\ words.SKIPS + m = n + Passes
      BY <1>3, <1>00
    <3>4. Counts(Skipped', m - 1)
      BY <3>2, <3>3, RemoveOne
    <3>5. Passes \in Nat
      BY DEF Passes
    <3>6. m - 1 \in Nat
      BY <3>4, NoElement
    <3>7. words'.SKIPS + (m - 1) = n + Passes'
      BY SMT, <1>0, <2>0, <3>1, <3>3, <3>5
    <3> QED BY <3>1, <3>3, <3>4, <3>6, <3>7 DEF SkipsCounted
  <2>3. CASE ~vx_channel_skip(s) /\ ~count_skip(s)
    <3>1. /\ UNCHANGED skips /\ words'.SKIPS = words.SKIPS
          /\ \A u \in Senders : pc'[u] = "skipped" <=> pc[u] = "skipped"
      <4>1. CASE load_receiver(s) \/ load_slot(s) \/ write_value(s) \/ store_full(s)
        BY SMT, <1>0, <4>1 DEF WordTypes, load_receiver, load_slot, write_value, store_full
      <4>2. CASE check_limits(s) \/ take_number(s) \/ drop_sender(s)
        BY SMT, <1>0, <4>2 DEF WordTypes, check_limits, take_number, drop_sender
      <4>3. ASSUME NEW t \in Senders, clone_end(s, t) \/ clone(s, t)
            PROVE  /\ UNCHANGED skips /\ words'.SKIPS = words.SKIPS
                   /\ \A u \in Senders : pc'[u] = "skipped" <=> pc[u] = "skipped"
        BY SMT, <1>0, <4>3 DEF WordTypes, clone_end, clone, CountEnd
      <4> QED BY <1>3, <2>3, <4>1, <4>2, <4>3 DEF SendStep, Send
    <3>2. Skipped' = Skipped
      BY <3>1 DEF Skipped
    <3> QED BY <2>0, <3>1, <3>2 DEF SkipsCounted
  <2> QED BY <2>1, <2>2, <2>3
<1>4. ASSUME ~freed, RecvStep PROVE SkipsCounted'
  <2>0. Skipped' = Skipped /\ UNCHANGED freed
    <3>1. UNCHANGED freed /\ \A u \in Senders : pc'[u] = pc[u]
      BY <1>0, <1>4 DEF RecvStep, Receive, load_cancelled, load_senders, load_full, take_slot, store_taken,
                        load_skips, vx_channel_take_skip, pass_number, pass_slot, gives_none, recv, try_recv,
                        select, drop_receiver
    <3> QED BY <3>1 DEF Skipped
  <2>1. CASE pass_number(Receiver)
    <3>1. UNCHANGED skips /\ words'.SKIPS = words.SKIPS - 1 /\ Passes = 1 /\ Passes' = 0
      BY <1>0, <2>1 DEF pass_number, Passes, WordTypes
    <3>2. PICK m, n \in Nat : Counts(Skipped, m) /\ Counts(skips, n) /\ words.SKIPS + m = n + Passes
      BY <1>4, <1>00
    <3>3. words'.SKIPS + m = n + Passes'
      BY SMT, <1>0, <3>1, <3>2
    <3> QED BY <2>0, <3>1, <3>2, <3>3 DEF SkipsCounted
  <2>2. CASE vx_channel_take_skip(Receiver) /\ num[Receiver] \in skips
    <3>1. skips' = skips \ {num[Receiver]} /\ UNCHANGED words /\ Passes = 0 /\ Passes' = 1
      BY <1>0, <2>2 DEF vx_channel_take_skip, Passes
    <3>2. PICK m, n \in Nat : Counts(Skipped, m) /\ Counts(skips, n) /\ words.SKIPS + m = n + Passes
      BY <1>4, <1>00
    <3>3. Counts(skips', n - 1)
      BY <2>2, <3>1, <3>2, RemoveOne
    <3>4. n - 1 \in Nat
      BY <3>3, NoElement
    <3>5. words'.SKIPS + m = (n - 1) + Passes'
      BY SMT, <1>0, <3>1, <3>2
    <3> QED BY <2>0, <3>2, <3>3, <3>4, <3>5 DEF SkipsCounted
  <2>3. CASE ~pass_number(Receiver) /\ ~(vx_channel_take_skip(Receiver) /\ num[Receiver] \in skips)
    <3>1. UNCHANGED skips
      <4>1. CASE vx_channel_take_skip(Receiver)
        BY <2>3, <4>1 DEF vx_channel_take_skip
      <4>2. CASE ~vx_channel_take_skip(Receiver)
        BY <1>4, <2>3, <4>2 DEF RecvStep, Receive, load_cancelled, load_senders, load_full, take_slot,
                                store_taken, load_skips, pass_slot, gives_none, recv, try_recv, select,
                                drop_receiver
      <4> QED BY <4>1, <4>2
    <3>2. words'.SKIPS = words.SKIPS
      BY <1>0, <1>4, <2>3 DEF RecvStep, Receive, load_cancelled, load_senders, load_full, take_slot,
                              store_taken, load_skips, vx_channel_take_skip, pass_slot, gives_none, recv,
                              try_recv, select, drop_receiver, WordTypes
    <3>3. Passes = 0 /\ Passes' = 0
      BY <1>0, <1>4, <2>3 DEF RecvStep, Receive, load_cancelled, load_senders, load_full, take_slot,
                              store_taken, load_skips, vx_channel_take_skip, pass_slot, gives_none, recv,
                              try_recv, select, drop_receiver, Passes
    <3> QED BY <2>0, <3>1, <3>2, <3>3 DEF SkipsCounted
  <2> QED BY <2>1, <2>2, <2>3
<1>5. CASE UNCHANGED vars
  BY <1>5 DEF SkipsCounted, Skipped, Passes, vars
<1> QED BY <1>1, <1>2, <1>3, <1>4, <1>5, Split DEF SendStep, RecvStep

\* The receiver gives its end up once, and the last sender is the last one.
LEMMA EndsOnce ==
  ASSUME Types, CountInv, [Next]_vars
  PROVE  /\ words'.RECEIVER = 1 => words.RECEIVER = 1
         /\ words.SENDERS = 0 => words'.SENDERS = 0
<1>0. pc \in [Tasks -> Places] /\ WordTypes
  BY DEF Types, PlaceTypes
<1>1. ASSUME NEW t \in Tasks, Step(t) \/ wait_ends_early(t) \/ cancel(t)
      PROVE  words'.RECEIVER = words.RECEIVER /\ words'.SENDERS = words.SENDERS
  BY <1>1, StepMoves DEF Moves
<1>2. ASSUME NEW s \in Senders, SendStep(s)
      PROVE  words'.RECEIVER = words.RECEIVER /\ words.SENDERS # 0
  <2>1. words'.RECEIVER = words.RECEIVER
    BY <1>0, <1>2 DEF SendStep, Send, load_receiver, load_slot, write_value, store_full, check_limits,
                      vx_channel_skip, count_skip, clone_end, take_number, drop_sender, clone, CountEnd,
                      WordTypes
  <2> QED BY <1>2, <2>1, NoSenders
<1>3. ASSUME RecvStep
      PROVE  (words'.RECEIVER = 1 => words.RECEIVER = 1) /\ words'.SENDERS = words.SENDERS
  BY <1>0, <1>3 DEF RecvStep, Receive, load_cancelled, load_senders, load_full, take_slot, store_taken,
                    load_skips, vx_channel_take_skip, pass_number, pass_slot, gives_none, recv, try_recv,
                    select, drop_receiver, WordTypes
<1>4. CASE UNCHANGED vars
  BY <1>4 DEF vars
<1> QED BY <1>1, <1>2, <1>3, <1>4, Split DEF SendStep, RecvStep

\* Every step keeps a number that was given up in the skip set, until it is passed.
LEMMA SkipsShownStep ==
  ASSUME Types, PlaceInv, CountInv, NumInv, RingInv, ValueInv, SkipsShown, [Next]_vars
  PROVE  SkipsShown'
<1>0. /\ words.SENDS \in Nat /\ words.RECVS \in Nat /\ num \in [Tasks -> Nat] /\ Receiver \in Tasks
      /\ pc \in [Tasks -> Places]
  BY DEF Types, WordTypes, LocalTypes, PlaceTypes
<1> SUFFICES ASSUME words'.RECEIVER = 1, NEW k \in Nat, k \in back' \/ SkippedBy(k)'
             PROVE  k < words'.RECVS \/ k \in skips' \/ Passing(k)'
  BY DEF SkipsShown
<1>1. words.RECEIVER = 1
  BY EndsOnce
<1>2. k \in back \/ SkippedBy(k) => k < words.RECVS \/ k \in skips \/ Passing(k)
  BY <1>1 DEF SkipsShown
<1>3. CASE Calm
  <2>1. (Passing(k)' <=> Passing(k)) /\ (SkippedBy(k)' <=> SkippedBy(k))
    BY <1>3 DEF Calm, Passing, SkippedBy, Sending
  <2> QED BY <1>2, <1>3, <2>1 DEF Calm
<1>4. ASSUME NEW s \in Senders, PutStep(s) PROVE k < words'.RECVS \/ k \in skips' \/ Passing(k)'
  <2>1. /\ \A u \in Senders : u # s => pc'[u] = pc[u] /\ num'[u] = num[u]
        /\ words'.RECVS = words.RECVS /\ (Passing(k)' <=> Passing(k))
    BY <1>4, PutFrame
  <2>2. CASE vx_channel_skip(s)
    <3>1. skips' = skips \cup {num[s]} /\ UNCHANGED <<back, num>>
      BY <2>2 DEF vx_channel_skip
    <3>2. SkippedBy(k)' => SkippedBy(k) \/ k = num[s]
      BY <2>1, <3>1 DEF SkippedBy
    <3> QED BY <1>2, <2>1, <3>1, <3>2
  <2>3. CASE count_skip(s)
    <3>1. UNCHANGED skips /\ back' = back \cup {num[s]} /\ pc[s] = "skipped" /\ pc'[s] = "notify"
      BY <1>0, <2>3 DEF count_skip
    <3>2. (SkippedBy(k)' => SkippedBy(k)) /\ (k = num[s] => SkippedBy(k))
      BY <2>1, <3>1 DEF SkippedBy
    <3> QED BY <1>2, <2>1, <3>1, <3>2
  <2>4. CASE take_number(s) \/ write_value(s) \/ store_full(s)
    <3>1. UNCHANGED <<skips, back>> /\ pc'[s] # "skipped"
      BY <1>0, <2>4 DEF take_number, write_value, store_full
    <3>2. SkippedBy(k)' => SkippedBy(k)
      BY <2>1, <3>1 DEF SkippedBy
    <3> QED BY <1>2, <2>1, <3>1, <3>2
  <2> QED BY SMT, <1>1, <1>4, <2>2, <2>3, <2>4 DEF PutStep
<1>5. CASE TakeStep
  <2>1. /\ \A u \in Senders : pc'[u] = pc[u] /\ num'[u] = num[u]
        /\ UNCHANGED back /\ TakesNumber
    BY <1>5, TakeFrame, TakeNumber
  <2>2. SkippedBy(k)' <=> SkippedBy(k)
    BY <2>1 DEF SkippedBy
  <2>3. CASE /\ pc[Receiver] \in {"take", "pass"} /\ UNCHANGED skips /\ words'.RECVS = num[Receiver] + 1
    <3>1. num[Receiver] = words.RECVS
      BY <2>3 DEF NumInv, Asking
    <3>2. Passing(k) => k = words.RECVS
      BY <3>1 DEF Passing
    <3> QED BY SMTT(30), <1>0, <1>2, <2>1, <2>2, <2>3, <3>1, <3>2
  <2>4. CASE Freeing /\ words'.RECVS = words.RECVS /\ UNCHANGED skips
    BY <1>2, <2>1, <2>2, <2>4 DEF Passing, Freeing
  <2>5. CASE /\ pc[Receiver] = "take_skip" /\ pc'[Receiver] = "pass" /\ words'.RECVS = words.RECVS
             /\ num'[Receiver] = num[Receiver] /\ skips' = skips \ {num[Receiver]}
    BY <1>2, <2>1, <2>2, <2>5 DEF Passing
  <2> QED BY <2>1, <2>3, <2>4, <2>5 DEF TakesNumber
<1>6. ASSUME NEW t \in Tasks, Frees(t) PROVE FALSE
  <2>1. pc'[Receiver] \in {"unborn", "gone"}
    BY <1>0, <1>6, FreesFrame
  <2>2. PlaceInv'
    BY PlaceInvStep
  <2> QED BY <2>1, <2>2 DEF PlaceInv, Leaves, ReceiverPlaces, InSleep, InNotify
<1> QED BY <1>3, <1>4, <1>5, <1>6, CalmSteps

\* Every step keeps what a receive knows after it loaded a SENDERS of 0.
LEMMA ClosedSeenStep ==
  ASSUME Types, PlaceInv, CountInv, NumInv, RingInv, ValueInv, SkipsCounted, ClosedSeen, [Next]_vars
  PROVE  ClosedSeen'
<1>0. /\ pc \in [Tasks -> Places] /\ then \in [Tasks -> {"idle", "release", "wake", "senders"}]
      /\ num \in [Tasks -> Nat] /\ Receiver \in Tasks /\ Receiver \notin Senders
      /\ WordTypes
  BY ChannelAssumption DEF Types, WordTypes, LocalTypes, PlaceTypes
<1>1. ASSUME NEW t \in Tasks, Step(t) \/ wait_ends_early(t) \/ cancel(t) PROVE ClosedSeen'
  <2>1. Moves(t)
    BY <1>1, StepMoves
  <2>2. /\ UNCHANGED <<slot, num, closed>> /\ words'.SENDERS = words.SENDERS
        /\ skips' \subseteq skips
    BY <2>1 DEF Moves, release
  <2>3. pc'[Receiver] \in {"skips", "take_skip", "none"} => pc'[Receiver] = pc[Receiver]
    BY <1>0, <2>1 DEF Moves, Along, InNotify
  <2> QED BY <2>2, <2>3 DEF ClosedSeen, Full
<1>2. ASSUME NEW s \in Senders, SendStep(s) PROVE ClosedSeen'
  <2>1. words.SENDERS # 0
    BY <1>2, NoSenders
  <2>2. UNCHANGED closed
    BY <1>0, <1>2 DEF SendStep, Send, load_receiver, load_slot, write_value, store_full, check_limits, Keeps,
                      Ends, vx_channel_skip, count_skip, clone_end, take_number, drop_sender, clone
  <2> QED BY <2>1, <2>2 DEF ClosedSeen
<1>3. ASSUME RecvStep PROVE ClosedSeen'
  <2>1. words'.SENDERS = words.SENDERS
    BY <1>0, <1>3 DEF RecvStep, Receive, load_cancelled, load_senders, load_full, take_slot, store_taken,
                      load_skips, vx_channel_take_skip, pass_number, pass_slot, gives_none, recv, try_recv,
                      select, drop_receiver, WordTypes
  <2>2. CASE load_senders(Receiver)
    <3>1. closed' = (words.SENDERS = 0) /\ pc'[Receiver] = "slot_of_recv"
      BY <1>0, <2>2 DEF load_senders
    <3> QED BY <2>1, <3>1 DEF ClosedSeen
  <2>3. CASE load_full(Receiver)
    <3>1. UNCHANGED <<closed, slot, num>> /\ pc'[Receiver] # "none"
            /\ (pc'[Receiver] = "skips" => ~Full(num[Receiver]))
      BY <1>0, <2>3 DEF load_full, Full, SlotOf
    <3>2. pc'[Receiver] # "take_skip"
      BY <1>0, <2>3 DEF load_full
    <3> QED BY <2>1, <3>1, <3>2 DEF ClosedSeen, Full
  <2>4. CASE load_skips(Receiver)
    <3>1. /\ UNCHANGED <<closed, slot, num, skips>> /\ pc[Receiver] = "skips"
          /\ pc'[Receiver] = "none" => words.SKIPS = 0
      BY <1>0, <2>4 DEF load_skips
    <3>2. ASSUME closed, words.SKIPS = 0 PROVE num[Receiver] \notin skips
      <4>1. Skipped = {}
        BY <3>2, NoSenders DEF ClosedSeen, Skipped, Sending
      <4>2. ~freed /\ Passes = 0
        BY <1>0, <3>1 DEF CountInv, Passes
      <4>3. PICK m, n \in Nat : Counts(Skipped, m) /\ Counts(skips, n) /\ words.SKIPS + m = n + Passes
        BY <4>2 DEF SkipsCounted
      <4>4. m = 0
        BY <4>1, <4>3, NoElement
      <4>5. n = 0
        BY SMT, <3>2, <4>2, <4>3, <4>4
      <4> QED BY <4>3, <4>5, NoElement
    <3> QED BY <2>1, <3>1, <3>2 DEF ClosedSeen, Full
  <2>5. CASE vx_channel_take_skip(Receiver)
    <3>1. UNCHANGED <<closed, slot, num>> /\ num[Receiver] \notin skips' /\ pc[Receiver] = "take_skip"
      BY <2>5 DEF vx_channel_take_skip
    <3> QED BY <2>1, <3>1 DEF ClosedSeen, Full
  <2>6. CASE gives_none(Receiver)
    <3>1. pc'[Receiver] \notin {"skips", "take_skip", "none"} /\ (closed' => closed)
      BY SMT, <1>0, <2>6 DEF gives_none, Ends, Keeps
    <3> QED BY <2>1, <3>1 DEF ClosedSeen
  <2>7. CASE load_cancelled(Receiver) \/ take_slot(Receiver) \/ store_taken(Receiver)
               \/ pass_number(Receiver) \/ pass_slot(Receiver)
    <3>1. pc'[Receiver] \notin {"skips", "take_skip", "none"} /\ (closed' => closed)
      BY SMT, <1>0, <2>7 DEF load_cancelled, take_slot, store_taken, pass_number, pass_slot, Ends, Keeps
    <3> QED BY <2>1, <3>1 DEF ClosedSeen
  <2>8. CASE recv(Receiver) \/ try_recv(Receiver) \/ select(Receiver) \/ drop_receiver(Receiver)
    <3>1. pc'[Receiver] \notin {"skips", "take_skip", "none"} /\ UNCHANGED closed
      BY <1>0, <2>8 DEF recv, try_recv, select, drop_receiver
    <3> QED BY <2>1, <3>1 DEF ClosedSeen
  <2> QED BY <1>3, <2>2, <2>3, <2>4, <2>5, <2>6, <2>7, <2>8 DEF RecvStep, Receive
<1>4. CASE UNCHANGED vars
  BY <1>4 DEF ClosedSeen, Full, vars
<1> QED BY <1>1, <1>2, <1>3, <1>4, Split DEF SendStep, RecvStep

\* A receive that gives Closed has passed every number, and no other can come.
LEMMA ToldInvStep ==
  ASSUME Types, PlaceInv, CountInv, NumInv, RingInv, ValueInv, ClosedInv, [Next]_vars
  PROVE  ToldInv'
<1>0. /\ pc \in [Tasks -> Places] /\ then \in [Tasks -> {"idle", "release", "wake", "senders"}]
      /\ num \in [Tasks -> Nat] /\ Receiver \in Tasks /\ Receiver \notin Senders
      /\ WordTypes /\ words.RECVS \in Nat /\ words.SENDS \in Nat
  BY ChannelAssumption DEF Types, WordTypes, LocalTypes, PlaceTypes
<1>1. ASSUME NEW t \in Tasks, Step(t) \/ wait_ends_early(t) \/ cancel(t) PROVE ToldInv'
  <2>1. Moves(t)
    BY <1>1, StepMoves
  <2>2. Leaves(Receiver) => Leaves(Receiver)'
    BY <1>0, <2>1 DEF Moves, Along, Leaves, InNotify
  <2>3. pc[Receiver] = "over" => pc'[Receiver] = "over"
    BY <1>0, <2>1 DEF Moves, Along, InNotify
  <2> QED BY <2>1, <2>2, <2>3 DEF Moves, ToldInv, ClosedInv
<1>2. ASSUME NEW s \in Senders, SendStep(s) PROVE ToldInv'
  <2>1. words.SENDERS # 0
    BY <1>2, NoSenders
  <2>2. UNCHANGED told
    BY <1>0, <1>2 DEF SendStep, Send, load_receiver, load_slot, write_value, store_full, check_limits,
                      vx_channel_skip, count_skip, clone_end, take_number, drop_sender, clone
  <2> QED BY <2>1, <2>2 DEF ClosedInv, ToldInv
<1>3. ASSUME RecvStep PROVE ToldInv'
  <2>1. CASE drop_receiver(Receiver)
    <3>1. /\ words'.SENDERS = words.SENDERS /\ words'.SENDS = words.SENDS /\ words'.RECVS = words.RECVS
          /\ UNCHANGED told /\ pc'[Receiver] = "notify" /\ then'[Receiver] = "release"
      BY <1>0, <2>1 DEF drop_receiver, WordTypes
    <3> QED BY <3>1 DEF ToldInv, ClosedInv, Leaves, InNotify
  <2>2. CASE gives_none(Receiver)
    <3>1. /\ pc[Receiver] = "none" /\ UNCHANGED words /\ ~Leaves(Receiver)
          /\ closed => pc'[Receiver] = "over"
      BY <1>0, <2>2 DEF gives_none, IsClosed, Leaves, InNotify
    <3>2. ~told
      BY <3>1 DEF ClosedInv, ToldInv
    <3>3. told' => closed
      BY <2>2, <3>2 DEF gives_none, IsClosed
    <3>4. ASSUME closed PROVE words.SENDERS = 0 /\ words.RECVS = words.SENDS
      <4>1. words.SENDERS = 0 /\ num[Receiver] = words.RECVS /\ ~Full(words.RECVS) /\ words.RECVS \notin skips
        BY <3>1, <3>4 DEF ClosedInv, ClosedSeen, NumInv, Asking
      <4>2. ~Held(words.RECVS)
        BY <4>1, NoSenders DEF Held
      <4>3. ~Received(words.RECVS)
        BY SMT, <1>0 DEF Received, ValueInv, OutInv
      <4>4. words.RECEIVER = 1
        BY <1>0, <3>1 DEF PlaceInv, WordTypes
      <4>5. words.RECVS \notin back
        BY SMT, <1>0, <3>1, <4>1, <4>4 DEF ClosedInv, SkipsShown, Passing
      <4>6. ~(words.RECVS < words.SENDS)
        BY <1>0, <4>1, <4>2, <4>3, <4>5 DEF ValueInv, CoverInv
      <4> QED BY SMT, <1>0, <4>1, <4>6 DEF NumInv
    <3> QED BY <3>1, <3>3, <3>4 DEF ToldInv
  <2>3. CASE (Receive(Receiver) /\ ~gives_none(Receiver)) \/ recv(Receiver) \/ try_recv(Receiver)
               \/ select(Receiver)
    <3>1. UNCHANGED told /\ pc[Receiver] \notin {"over", "release", "gone"} \cup InNotify
      BY <1>0, <2>3 DEF Receive, load_cancelled, load_senders, load_full, take_slot, store_taken, load_skips,
                        vx_channel_take_skip, pass_number, pass_slot, recv, try_recv, select, InNotify
    <3> QED BY <3>1 DEF ToldInv, ClosedInv, Leaves
  <2> QED BY <1>3, <2>1, <2>2, <2>3 DEF RecvStep
<1>4. CASE UNCHANGED vars
  BY <1>4 DEF ClosedInv, ToldInv, Leaves, vars
<1> QED BY <1>1, <1>2, <1>3, <1>4, Split DEF SendStep, RecvStep

\* Every step keeps what a receive knows of the end of the sends.
LEMMA ClosedInvStep ==
  ASSUME Types, PlaceInv, CountInv, NumInv, RingInv, ValueInv, ClosedInv, [Next]_vars
  PROVE  ClosedInv'
BY SkipsCountedStep, SkipsShownStep, ClosedSeenStep, ToldInvStep DEF ClosedInv

-----------------------------------------------------------------------------
\* The wakes

\* A change that is on its way comes, and is seen.
LEMMA ComingStays ==
  ASSUME Types, PlaceInv, NEW t \in Tasks, Coming(t), Selects(t)' <=> Selects(t), [Next]_vars
  PROVE  Coming(t)' \/ news'[t]
<1>0. /\ pc \in [Tasks -> Places] /\ news \in [Tasks -> BOOLEAN] /\ Receiver \notin Senders
  BY ChannelAssumption DEF Types, PlaceTypes, LocalTypes
<1>1. PICK u \in Tasks : \/ pc[u] \in {"skipped", "notify"}
                         \/ Selects(t) /\ pc[u] \in {"sleepers", "wake_all", "any"}
  BY DEF Coming
<1>2. CASE pc'[u] = pc[u]
  BY <1>1, <1>2 DEF Coming
<1>3. ASSUME NEW v \in Tasks, Step(v) \/ wait_ends_early(v) \/ cancel(v), pc'[u] # pc[u]
      PROVE  Coming(t)' \/ news'[t]
  <2>1. u = v
    BY <1>1, <1>3, StepMoves DEF Moves
  <2>2. CASE notify(u)
    <3>1. pc'[u] = "sleepers" /\ news' = [w \in Tasks |-> news[w] \/ w \in {x \in Tasks : ~Selects(x)}]
      BY <1>0, <2>2 DEF notify, Tell
    <3>2. CASE Selects(t)
      BY <3>1, <3>2 DEF Coming
    <3>3. CASE ~Selects(t)
      BY <3>1, <3>3
    <3> QED BY <3>2, <3>3
  <2>3. CASE load_sleepers(u) \/ wake_all(u)
    <3>1. pc[u] \notin {"skipped", "notify"} /\ pc'[u] \in {"wake_all", "any"}
      BY <1>0, <2>3 DEF load_sleepers, wake_all, Wake
    <3> QED BY <1>1, <3>1 DEF Coming
  <2>4. CASE notify_any(u)
    <3>1. /\ pc[u] \notin {"skipped", "notify"}
          /\ news' = [w \in Tasks |-> news[w] \/ w \in {x \in Tasks : Selects(x)}]
      BY <1>0, <2>4 DEF notify_any, Tell
    <3> QED BY <1>1, <3>1
  <2>5. notify(u) \/ load_sleepers(u) \/ wake_all(u) \/ notify_any(u)
    BY <1>0, <1>1, <1>3, <2>1 DEF Step, notify, load_sleepers, wake_all, notify_any, load_selects, wake_any,
                                  load_wake, count_sleeper, wait_while_until, uncount_sleeper, release,
                                  wait_ends_early, cancel
  <2> QED BY <2>2, <2>3, <2>4, <2>5
<1>4. ASSUME NEW s \in Senders, SendStep(s), pc'[u] # pc[u] PROVE Coming(t)'
  <2>1. pc'[u] = "notify"
    BY <1>0, <1>1, <1>4 DEF SendStep, Send, load_receiver, load_slot, write_value, store_full, check_limits,
                            vx_channel_skip, count_skip, clone_end, take_number, drop_sender, clone
  <2> QED BY <2>1 DEF Coming
<1>5. ASSUME RecvStep, pc'[u] # pc[u] PROVE Coming(t)'
  <2>1. FALSE
    BY <1>0, <1>1, <1>5 DEF RecvStep, Receive, load_cancelled, load_senders, load_full, take_slot, store_taken,
                            load_skips, vx_channel_take_skip, pass_number, pass_slot, gives_none, recv,
                            try_recv, select, drop_receiver
  <2> QED BY <2>1
<1>6. CASE UNCHANGED vars
  BY <1>2, <1>6 DEF vars
<1> QED BY <1>2, <1>3, <1>4, <1>5, <1>6, Split DEF SendStep, RecvStep

\* A wake that is on its way reaches the sleep.
LEMMA WokenStays ==
  ASSUME Types, PlaceInv, CountInv, NEW t \in Tasks, pc[t] = "asleep", Woken(t), Selects(t)' <=>
           Selects(t), [Next]_vars
  PROVE  Woken(t)' \/ pc'[t] # "asleep"
<1>0. /\ pc \in [Tasks -> Places] /\ Receiver \notin Senders
  BY ChannelAssumption DEF Types, PlaceTypes
<1>1. PICK u \in Tasks : \/ ~Selects(t) /\ pc[u] \in {"sleepers", "wake_all"}
                         \/ Selects(t) /\ pc[u] \in {"selects", "wake_any"}
  BY DEF Woken
<1>2. CASE pc'[u] = pc[u]
  BY <1>1, <1>2 DEF Woken
<1>3. ASSUME NEW v \in Tasks, Step(v) \/ wait_ends_early(v) \/ cancel(v), pc'[u] # pc[u]
      PROVE  Woken(t)' \/ pc'[t] # "asleep"
  <2>1. u = v
    BY <1>1, <1>3, StepMoves DEF Moves
  <2>2. CASE load_sleepers(u)
    <3>1. pc[u] = "sleepers" /\ ~Selects(t)
      BY <1>1, <2>2 DEF load_sleepers
    <3>2. t \in Sleepers
      BY <3>1 DEF Sleepers, InSleep
    <3>3. HasSleeper
      BY SMT, <3>2, NoElement DEF CountInv, HasSleeper
    <3>4. pc'[u] = "wake_all"
      BY <1>0, <2>2, <3>3 DEF load_sleepers
    <3> QED BY <3>1, <3>4 DEF Woken
  <2>3. CASE load_selects(u)
    <3>1. pc[u] = "selects" /\ Selects(t)
      BY <1>1, <2>3 DEF load_selects
    <3>2. t \in Selecting
      BY <3>1 DEF Selecting, InSleep
    <3>3. HasSelect
      BY SMT, <3>2, NoElement DEF CountInv, HasSelect
    <3>4. pc'[u] = "wake_any"
      BY <1>0, <2>3, <3>3 DEF load_selects
    <3> QED BY <3>1, <3>4 DEF Woken
  <2>4. CASE wake_all(u)
    <3>1. ~Selects(t) /\ t # u
      BY <1>1, <2>4 DEF wake_all
    <3> QED BY <1>0, <2>4, <3>1 DEF wake_all, Wake
  <2>5. CASE wake_any(u)
    <3>1. Selects(t) /\ t # u
      BY <1>1, <2>5 DEF wake_any
    <3> QED BY <1>0, <2>5, <3>1 DEF wake_any, Wake
  <2>6. load_sleepers(u) \/ wake_all(u) \/ load_selects(u) \/ wake_any(u)
    BY <1>0, <1>1, <1>3, <2>1 DEF Step, notify, load_sleepers, wake_all, notify_any, load_selects, wake_any,
                                  load_wake, count_sleeper, wait_while_until, uncount_sleeper, release,
                                  wait_ends_early, cancel
  <2> QED BY <2>2, <2>3, <2>4, <2>5, <2>6
<1>4. ASSUME NEW s \in Senders, SendStep(s) PROVE pc'[u] = pc[u]
  BY <1>0, <1>1, <1>4 DEF SendStep, Send, load_receiver, load_slot, write_value, store_full, check_limits,
                          vx_channel_skip, count_skip, clone_end, take_number, drop_sender, clone
<1>5. ASSUME RecvStep PROVE pc'[u] = pc[u]
  BY <1>0, <1>1, <1>5 DEF RecvStep, Receive, load_cancelled, load_senders, load_full, take_slot, store_taken,
                          load_skips, vx_channel_take_skip, pass_number, pass_slot, gives_none, recv, try_recv,
                          select, drop_receiver
<1>6. CASE UNCHANGED vars
  BY <1>2, <1>6 DEF vars
<1> QED BY <1>2, <1>3, <1>4, <1>5, <1>6, Split DEF SendStep, RecvStep

\* A step that ends the wait of another task leads to a notify.
Rings == \E u \in Tasks : pc'[u] \in {"skipped", "notify"}

\* A step that ends the wait of a send leads to a notify, or the wait was over before.
LEMMA SenderDue ==
  ASSUME Types, PlaceInv, NEW s \in Senders, Due(s)', [Next]_vars
  PROVE  Rings \/ Due(s)
<1>0. /\ pc \in [Tasks -> Places] /\ num \in [Tasks -> Nat] /\ WordTypes
      /\ Receiver \notin Senders
  BY ChannelAssumption DEF Types, PlaceTypes, LocalTypes
<1>1. ASSUME pc'[s] \in {"slot", "check", "count", "wait", "asleep"} => pc'[s] = pc[s],
             words'.RECEIVER = words.RECEIVER, UNCHANGED slot, num'[s] = num[s]
      PROVE  Due(s)
  BY <1>0, <1>1 DEF Due, IsMyTurn, SlotOf
<1>2. ASSUME NEW t \in Tasks, Step(t) \/ wait_ends_early(t) \/ cancel(t) PROVE Due(s)
  <2>1. Moves(t)
    BY <1>2, StepMoves
  <2>2. UNCHANGED <<slot, num>> /\ words'.RECEIVER = words.RECEIVER
    BY <2>1 DEF Moves
  <2>3. /\ pc'[s] \in {"slot", "check", "count", "wait", "asleep"} =>
             pc[s] \in {"slot", "check", "count", "wait", "asleep"}
        /\ pc'[s] \in {"check", "count", "wait", "asleep"} => pc[s] \in {"check", "count", "wait", "asleep"}
    BY <1>0, <2>1 DEF Moves, Along, InNotify, PlaceInv, Selects
  <2> QED BY <1>0, <2>2, <2>3 DEF Due, IsMyTurn, SlotOf
<1>3. ASSUME NEW u \in Senders, SendStep(u), u # s, ~Rings PROVE Due(s)
  <2>1. num'[s] = num[s] /\ words'.RECEIVER = words.RECEIVER
    BY <1>0, <1>3 DEF SendStep, Send, load_receiver, load_slot, write_value, store_full, check_limits, Keeps,
                      Ends, vx_channel_skip, count_skip, clone_end, take_number, drop_sender, clone, CountEnd,
                      WordTypes
  <2>2. UNCHANGED slot
    BY <1>0, <1>3 DEF SendStep, Send, load_receiver, load_slot, write_value, store_full, check_limits, Rings,
                      vx_channel_skip, count_skip, clone_end, take_number, drop_sender, clone
  <2>3. pc'[s] \in {"slot", "check", "count", "wait", "asleep"} => pc'[s] = pc[s]
    BY <1>0, <1>3 DEF SendStep, Send, load_receiver, load_slot, write_value, store_full, check_limits,
                      vx_channel_skip, count_skip, clone_end, take_number, drop_sender, clone
  <2> QED BY <1>1, <2>1, <2>2, <2>3
<1>4. ASSUME SendStep(s), ~Rings PROVE Due(s)
  <2>1. CASE load_receiver(s)
    BY SMTT(30), <1>0, <2>1 DEF load_receiver, Due
  <2>2. CASE load_slot(s)
    BY <1>0, <2>2 DEF load_slot, Due, IsMyTurn, SlotOf
  <2>3. CASE check_limits(s)
    BY <1>0, <2>3 DEF check_limits, Due, IsMyTurn, SlotOf
  <2>4. CASE ~load_receiver(s) /\ ~load_slot(s) /\ ~check_limits(s)
    <3>1. pc'[s] \notin {"slot", "check", "count", "wait", "asleep"}
      BY <1>0, <1>4, <2>4 DEF SendStep, Send, write_value, store_full, vx_channel_skip, count_skip, clone_end,
                              take_number, drop_sender, clone
    <3> QED BY <1>0, <3>1 DEF Due
  <2> QED BY <2>1, <2>2, <2>3, <2>4
<1>5. ASSUME RecvStep, ~Rings PROVE Due(s)
  <2>1. pc'[s] = pc[s] /\ num'[s] = num[s]
    BY <1>0, <1>5 DEF RecvStep, Receive, load_cancelled, load_senders, load_full, take_slot, store_taken, Keeps,
                      Ends, load_skips, vx_channel_take_skip, pass_number, pass_slot, gives_none, recv,
                      try_recv, select, drop_receiver
  <2>2. UNCHANGED slot
    BY <1>0, <1>5 DEF RecvStep, Receive, load_cancelled, load_senders, load_full, take_slot, store_taken, Rings,
                      load_skips, vx_channel_take_skip, pass_number, pass_slot, gives_none, recv, try_recv,
                      select, drop_receiver
  <2>3. words'.RECEIVER = words.RECEIVER
    BY <1>0, <1>5 DEF RecvStep, Receive, load_cancelled, load_senders, load_full, take_slot, store_taken, Rings,
                      WordTypes, load_skips, vx_channel_take_skip, pass_number, pass_slot, gives_none, recv,
                      try_recv, select, drop_receiver
  <2> QED BY <1>1, <2>1, <2>2, <2>3
<1>6. CASE UNCHANGED vars
  BY <1>1, <1>6 DEF vars
<1> QED BY <1>2, <1>3, <1>4, <1>5, <1>6, Split DEF SendStep, RecvStep

\* A step that ends the wait of the receiver leads to a notify, or it was over before.
LEMMA ReceiverDue ==
  ASSUME Types, PlaceInv, CountInv, Due(Receiver)', [Next]_vars
  PROVE  Rings \/ (Due(Receiver) /\ UNCHANGED mode)
<1>0. /\ pc \in [Tasks -> Places] /\ then \in [Tasks -> {"idle", "release", "wake", "senders"}]
      /\ num \in [Tasks -> Nat] /\ WordTypes /\ Receiver \in Tasks /\ Receiver \notin Senders
           /\ words.SENDERS \in Nat
  BY ChannelAssumption, NoElement DEF Types, PlaceTypes, LocalTypes, CountInv
<1>1. \/ /\ pc'[Receiver] \in {"slot_of_recv", "skips", "take_skip", "none", "count", "wait", "asleep"}
         /\ ~closed' /\ words'.SENDERS = 0
      \/ pc'[Receiver] \in {"skips", "take_skip", "none", "count", "wait", "asleep"} /\ Full(num[Receiver])'
      \/ /\ pc'[Receiver] \in {"none", "count", "wait", "asleep"}
         /\ num'[Receiver] \in skips' /\ words'.SKIPS > 0
  BY <1>0 DEF Due
<1>2. ASSUME NEW t \in Tasks, Step(t) \/ wait_ends_early(t) \/ cancel(t) PROVE Due(Receiver) /\ UNCHANGED mode
  <2>1. Moves(t)
    BY <1>2, StepMoves
  <2>2. /\ UNCHANGED <<slot, num, closed, mode>> /\ words'.SENDERS = words.SENDERS
             /\ words'.SKIPS = words.SKIPS
        /\ skips' \subseteq skips
    BY <2>1 DEF Moves, release
  <2>3. \/ pc'[Receiver] = pc[Receiver]
        \/ pc[Receiver] \in {"count", "wait", "asleep"}
        \/ pc'[Receiver] \notin {"slot_of_recv", "skips", "take_skip", "none", "count", "wait", "asleep"}
    BY <1>0, <2>1 DEF Moves, Along, InNotify
  <2> QED BY <1>0, <1>1, <2>2, <2>3 DEF Due, Full
<1>3. ASSUME NEW s \in Senders, SendStep(s), ~Rings PROVE Due(Receiver) /\ UNCHANGED mode
  <2>0. ~store_full(s) /\ ~vx_channel_skip(s) /\ ~count_skip(s)
    BY <1>0, <1>3 DEF store_full, vx_channel_skip, count_skip, Rings
  <2>1. pc'[Receiver] = pc[Receiver] /\ num'[Receiver] = num[Receiver] /\ UNCHANGED <<closed, mode>>
    BY <1>0, <1>3, <2>0 DEF SendStep, Send, load_receiver, load_slot, write_value, check_limits, Keeps, Ends,
                            clone_end, take_number, drop_sender, clone
  <2>2. UNCHANGED <<slot, skips>>
    BY <1>3, <2>0 DEF SendStep, Send, load_receiver, load_slot, write_value, check_limits, clone_end,
                      take_number, drop_sender, clone
  <2>3. words'.SKIPS = words.SKIPS
    BY <1>0, <1>3, <2>0 DEF SendStep, Send, load_receiver, load_slot, write_value, check_limits, clone_end,
                            take_number, drop_sender, clone, CountEnd, WordTypes
  <2>4. words'.SENDERS = 0 => words.SENDERS = 0
    <3>1. CASE drop_sender(s)
      BY SMT, <1>0, <1>3, <3>1 DEF drop_sender, Rings, WordTypes
    <3>2. CASE ~drop_sender(s)
      <4>1. CASE load_receiver(s) \/ load_slot(s) \/ write_value(s) \/ check_limits(s) \/ take_number(s)
        BY SMT, <1>0, <4>1 DEF WordTypes, load_receiver, load_slot, write_value, check_limits, take_number
      <4>2. ASSUME NEW t \in Senders, clone_end(s, t) \/ clone(s, t)
            PROVE  words'.SENDERS = 0 => words.SENDERS = 0
        BY SMT, <1>0, <4>2 DEF WordTypes, clone_end, clone, CountEnd
      <4> QED BY <1>3, <2>0, <3>2, <4>1, <4>2 DEF SendStep, Send
    <3> QED BY <3>1, <3>2
  <2> QED BY <1>0, <1>1, <2>1, <2>2, <2>3, <2>4 DEF Due, Full
<1>4. ASSUME RecvStep, ~Rings PROVE Due(Receiver) /\ UNCHANGED mode
  <2>0. ~store_taken(Receiver) /\ ~pass_slot(Receiver) /\ ~drop_receiver(Receiver)
    BY <1>0, <1>4 DEF store_taken, pass_slot, drop_receiver, Rings
  <2>1. CASE load_senders(Receiver)
    <3>1. pc'[Receiver] = "slot_of_recv" /\ closed' = (words.SENDERS = 0) /\ UNCHANGED words
      BY <1>0, <2>1 DEF load_senders
    <3> QED BY <1>1, <3>1
  <2>2. CASE load_full(Receiver)
    <3>1. /\ pc[Receiver] = "slot_of_recv" /\ pc'[Receiver] \in {"take", "skips"}
               /\ UNCHANGED <<words, slot, closed, num, mode>>
          /\ pc'[Receiver] = "skips" => ~Full(num[Receiver])
      BY <1>0, <2>2 DEF load_full, Full, SlotOf
    <3> QED BY <1>1, <3>1 DEF Due, Full
  <2>3. CASE load_skips(Receiver)
    <3>1. /\ pc[Receiver] = "skips" /\ pc'[Receiver] \in {"none", "take_skip"}
          /\ UNCHANGED <<words, slot, skips, closed, num, mode>>
          /\ pc'[Receiver] = "none" => words.SKIPS = 0
      BY <1>0, <2>3 DEF load_skips
    <3>2. (Full(num[Receiver])' <=> Full(num[Receiver])) /\ ~(pc'[Receiver] = "none" /\ words'.SKIPS > 0)
      BY SMT, <3>1 DEF Full
    <3> QED BY <1>1, <3>1, <3>2 DEF Due
  <2>4. CASE vx_channel_take_skip(Receiver)
    <3>1. /\ pc[Receiver] = "take_skip" /\ pc'[Receiver] \in {"none", "pass"}
          /\ UNCHANGED <<words, slot, closed, num, mode>> /\ num[Receiver] \notin skips'
      BY <1>0, <2>4 DEF vx_channel_take_skip
    <3> QED BY <1>1, <3>1 DEF Due, Full
  <2>5. CASE gives_none(Receiver)
    <3>1. /\ pc[Receiver] = "none" /\ UNCHANGED <<words, slot, skips>>
          /\ pc'[Receiver] \in {"over", "idle"}
               \/ (pc'[Receiver] = "count" /\ UNCHANGED <<num, closed, mode>>)
      BY <1>0, <2>5 DEF gives_none, Keeps
    <3>2. CASE pc'[Receiver] = "count" /\ UNCHANGED <<num, closed, mode>>
      BY <1>1, <3>1, <3>2 DEF Due, Full
    <3>3. CASE pc'[Receiver] \in {"over", "idle"}
      BY <1>1, <3>3
    <3> QED BY <3>1, <3>2, <3>3
  <2>6. CASE \/ load_cancelled(Receiver) \/ take_slot(Receiver) \/ pass_number(Receiver)
             \/ recv(Receiver) \/ try_recv(Receiver) \/ select(Receiver)
    <3>1. pc'[Receiver] \notin {"slot_of_recv", "skips", "take_skip", "none", "count", "wait", "asleep"}
      BY <1>0, <2>6 DEF load_cancelled, take_slot, pass_number, recv, try_recv, select
    <3> QED BY <1>1, <3>1
  <2> QED BY <1>4, <2>0, <2>1, <2>2, <2>3, <2>4, <2>5, <2>6 DEF RecvStep, Receive
<1>5. CASE UNCHANGED vars
  BY <1>1, <1>5 DEF Due, Full, vars
<1> QED BY <1>2, <1>3, <1>4, <1>5, Split DEF SendStep, RecvStep

\* A task loses sight of a change only when it loads the word again, and it falls asleep only
\* when it saw none.
LEMMA NewsStep ==
  ASSUME Types, NEW t \in Tasks, [Next]_vars
  PROVE  /\ news[t] /\ ~news'[t] => pc'[t] \in {"receiver", "senders", "cancelled"}
         /\ pc'[t] = "asleep" /\ news'[t] => pc[t] = "asleep" /\ (Selects(t)' <=> Selects(t))
         /\ pc[t] = "asleep" /\ pc'[t] = "asleep" /\ ~news[t] /\ news'[t] => Woken(t)'
<1>0. /\ pc \in [Tasks -> Places] /\ news \in [Tasks -> BOOLEAN] /\ Receiver \in Tasks
           /\ Receiver \notin Senders
  BY ChannelAssumption DEF Types, PlaceTypes, LocalTypes
<1>1. ASSUME news'[t] = news[t], pc'[t] = "asleep" => pc[t] = "asleep" /\ (Selects(t)' <=> Selects(t))
      PROVE  /\ news[t] /\ ~news'[t] => pc'[t] \in {"receiver", "senders", "cancelled"}
             /\ pc'[t] = "asleep" /\ news'[t] => pc[t] = "asleep" /\ (Selects(t)' <=> Selects(t))
             /\ pc[t] = "asleep" /\ pc'[t] = "asleep" /\ ~news[t] /\ news'[t] => Woken(t)'
  BY <1>1
<1>2. ASSUME NEW v \in Tasks, notify(v) \/ notify_any(v)
      PROVE  /\ news[t] /\ ~news'[t] => pc'[t] \in {"receiver", "senders", "cancelled"}
             /\ pc'[t] = "asleep" /\ news'[t] => pc[t] = "asleep" /\ (Selects(t)' <=> Selects(t))
             /\ pc[t] = "asleep" /\ pc'[t] = "asleep" /\ ~news[t] /\ news'[t] => Woken(t)'
  <2>1. Selects(t)' <=> Selects(t)
    BY <1>2 DEF notify, notify_any, Selects
  <2>2. pc'[t] = "asleep" => pc[t] = "asleep"
    BY <1>0, <1>2 DEF notify, notify_any
  <2>3. news[t] => news'[t]
    BY <1>2 DEF notify, notify_any, Tell
  <2>4. CASE notify(v)
    <3>1. pc'[v] = "sleepers" /\ (news'[t] => news[t] \/ ~Selects(t))
      BY <1>0, <2>4 DEF notify, Tell
    <3> QED BY <2>1, <2>2, <2>3, <3>1 DEF Woken
  <2>5. CASE notify_any(v)
    <3>1. pc'[v] = "selects" /\ (news'[t] => news[t] \/ Selects(t))
      BY <1>0, <2>5 DEF notify_any, Tell
    <3> QED BY <2>1, <2>2, <2>3, <3>1 DEF Woken
  <2> QED BY <1>2, <2>4, <2>5
<1>3. ASSUME NEW v \in Tasks, Step(v) \/ wait_ends_early(v) \/ cancel(v), ~notify(v), ~notify_any(v)
      PROVE  /\ news[t] /\ ~news'[t] => pc'[t] \in {"receiver", "senders", "cancelled"}
             /\ pc'[t] = "asleep" /\ news'[t] => pc[t] = "asleep" /\ (Selects(t)' <=> Selects(t))
             /\ pc[t] = "asleep" /\ pc'[t] = "asleep" /\ ~news[t] /\ news'[t] => Woken(t)'
  <2>1. Selects(t)' <=> Selects(t)
    BY <1>3, StepMoves DEF Moves, Selects
  <2>2. CASE load_wake(v)
    <3>1. pc'[t] = "asleep" => pc[t] = "asleep"
      BY <1>0, <2>2 DEF load_wake
    <3>2. news'[t] = news[t] \/ (t = v /\ ~news'[t])
      BY <1>0, <2>2 DEF load_wake
    <3>3. pc'[v] \in {"receiver", "senders", "cancelled"}
      BY <1>0, <2>2 DEF load_wake
    <3> QED BY <2>1, <3>1, <3>2, <3>3
  <2>3. CASE ~load_wake(v)
    <3>1. UNCHANGED news
      BY <1>3, <2>3 DEF Step, load_sleepers, wake_all, load_selects, wake_any, count_sleeper, wait_while_until,
                        uncount_sleeper, release, wait_ends_early, cancel
    <3>2. CASE wait_while_until(v)
      <4>1. pc'[t] = "asleep" => pc[t] = "asleep" \/ ~news[t]
        BY <1>0, <3>2 DEF wait_while_until
      <4> QED BY <2>1, <3>1, <4>1
    <3>3. CASE ~wait_while_until(v)
      <4>1. pc'[v] = "asleep" => pc[v] = "asleep"
        BY <1>0, <1>3, <2>3, <3>3 DEF Step, load_sleepers, wake_all, load_selects, wake_any, Wake,
                                      count_sleeper, uncount_sleeper, release, wait_ends_early, cancel, Types,
                                      PlaceTypes
      <4>2. pc'[t] = "asleep" => pc[t] = "asleep"
        BY <1>3, <4>1, StepMoves DEF Moves
      <4> QED BY <1>1, <2>1, <3>1, <4>2
    <3> QED BY <3>2, <3>3
  <2> QED BY <2>2, <2>3
<1>4. ASSUME NEW s \in Senders, SendStep(s)
      PROVE  /\ news[t] /\ ~news'[t] => pc'[t] \in {"receiver", "senders", "cancelled"}
             /\ pc'[t] = "asleep" /\ news'[t] => pc[t] = "asleep" /\ (Selects(t)' <=> Selects(t))
             /\ pc[t] = "asleep" /\ pc'[t] = "asleep" /\ ~news[t] /\ news'[t] => Woken(t)'
  <2>1. UNCHANGED mode
    BY <1>0, <1>4 DEF SendStep, Send, load_receiver, load_slot, write_value, store_full, check_limits, Keeps,
                      Ends, vx_channel_skip, count_skip, clone_end, take_number, drop_sender, clone
  <2>2. pc'[t] = "asleep" => pc[t] = "asleep" /\ t # s
    BY <1>0, <1>4 DEF SendStep, Send, load_receiver, load_slot, write_value, store_full, check_limits,
                      vx_channel_skip, count_skip, clone_end, take_number, drop_sender, clone
  <2>3. news' = [news EXCEPT ![s] = TRUE] \/ UNCHANGED news
    BY <1>0, <1>4 DEF SendStep, Send, load_receiver, load_slot, write_value, store_full, check_limits, Keeps,
                      Ends, vx_channel_skip, count_skip, clone_end, take_number, drop_sender, clone
  <2>4. news'[t] = news[t] \/ (t = s /\ news'[t])
    BY <1>0, <2>3
  <2> QED BY <2>1, <2>2, <2>4 DEF Selects
<1>5. ASSUME RecvStep
      PROVE  /\ news[t] /\ ~news'[t] => pc'[t] \in {"receiver", "senders", "cancelled"}
             /\ pc'[t] = "asleep" /\ news'[t] => pc[t] = "asleep" /\ (Selects(t)' <=> Selects(t))
             /\ pc[t] = "asleep" /\ pc'[t] = "asleep" /\ ~news[t] /\ news'[t] => Woken(t)'
  <2>2. pc'[t] = "asleep" => pc[t] = "asleep" /\ t # Receiver
    BY <1>0, <1>5 DEF RecvStep, Receive, load_cancelled, load_senders, load_full, take_slot, store_taken,
                      load_skips, vx_channel_take_skip, pass_number, pass_slot, gives_none, recv, try_recv,
                      select, drop_receiver
  <2>3. news' = [news EXCEPT ![Receiver] = TRUE] \/ UNCHANGED news
    BY <1>0, <1>5 DEF RecvStep, Receive, load_cancelled, load_senders, load_full, take_slot, store_taken, Keeps,
                      Ends, load_skips, vx_channel_take_skip, pass_number, pass_slot, gives_none, recv,
                      try_recv, select, drop_receiver
  <2>4. news'[t] = news[t] \/ (t = Receiver /\ news'[t])
    BY <1>0, <2>3
  <2> QED BY <2>2, <2>4 DEF Selects
<1>6. CASE UNCHANGED vars
  BY <1>1, <1>6 DEF Selects, vars
<1> QED BY <1>2, <1>3, <1>4, <1>5, <1>6, Split DEF SendStep, RecvStep

\* Every step keeps a wake on its way to each task whose wait is over.
LEMMA WakeInvStep ==
  ASSUME Types, PlaceInv, CountInv, WakeInv, [Next]_vars
  PROVE  WakeInv'
<1> SUFFICES ASSUME NEW t \in Tasks
             PROVE  /\ pc'[t] = "asleep" /\ news'[t] => Woken(t)'
                    /\ Due(t)' /\ ~news'[t] => Coming(t)'
  BY DEF WakeInv
<1>0. Receiver \notin Senders
  BY ChannelAssumption
<1>1. ASSUME pc'[t] = "asleep", news'[t] PROVE Woken(t)'
  <2>1. pc[t] = "asleep" /\ (Selects(t)' <=> Selects(t))
    BY <1>1, NewsStep
  <2>2. CASE news[t]
    BY <1>1, <2>1, <2>2, WokenStays DEF WakeInv
  <2>3. CASE ~news[t]
    BY <1>1, <2>1, <2>3, NewsStep
  <2> QED BY <2>2, <2>3
<1>2. ASSUME Due(t)', ~news'[t] PROVE Coming(t)'
  <2>1. CASE Rings
    BY <2>1 DEF Rings, Coming
  <2>2. CASE ~Rings
    <3>1. Due(t) /\ (Selects(t)' <=> Selects(t))
      <4>1. CASE t \in Senders
        BY <1>0, <1>2, <2>2, <4>1, SenderDue DEF Selects
      <4>2. CASE t = Receiver
        BY <1>2, <2>2, <4>2, ReceiverDue DEF Selects
      <4> QED BY <4>1, <4>2
    <3>2. pc'[t] \notin {"receiver", "senders", "cancelled"}
      BY <1>2 DEF Due
    <3>3. ~news[t]
      BY <1>2, <3>2, NewsStep
    <3>4. Coming(t)
      BY <3>1, <3>3 DEF WakeInv
    <3> QED BY <1>2, <3>1, <3>4, ComingStays
  <2> QED BY <2>1, <2>2
<1> QED BY <1>1, <1>2

-----------------------------------------------------------------------------
\* The inductive invariant

\* Every step keeps in the slots values that were sent.
LEMMA DataInvStep ==
  ASSUME Types, PlaceInv, CountInv, NumInv, RingInv, DataInv, [Next]_vars
  PROVE  DataInv'
<1>0. /\ words.SENDS \in Nat /\ data \in [Slots -> Values] /\ num \in [Tasks -> Nat]
  BY DEF Types, WordTypes, RingTypes, LocalTypes
<1>1. CASE Calm
  BY <1>1 DEF Calm, DataInv
<1>2. ASSUME NEW s \in Senders, PutStep(s) PROVE DataInv'
  <2>1. CASE take_number(s)
    <3>1. words'.SENDS = words.SENDS + 1 /\ UNCHANGED data
      BY <2>1 DEF take_number, Types, WordTypes
    <3> QED BY SMT, <1>0, <3>1 DEF DataInv, Values, None
  <2>2. CASE ~take_number(s)
    <3>1. words'.SENDS = words.SENDS /\ pc[s] \in Sending
      BY <1>2, <2>2, PutFrame
    <3>2. CASE write_value(s)
      <4>1. data' = [data EXCEPT ![SlotOf(s)] = num[s]] /\ num[s] < words.SENDS /\ SlotOf(s) \in Slots
        BY <3>1, <3>2, SlotType DEF write_value, NumInv, Types
      <4> QED BY <1>0, <3>1, <4>1 DEF DataInv
    <3>3. CASE ~write_value(s)
      <4>1. UNCHANGED data
        BY <1>2, <2>2, <3>3 DEF PutStep, store_full, vx_channel_skip, count_skip, load_receiver
      <4> QED BY <3>1, <4>1 DEF DataInv
    <3> QED BY <3>2, <3>3
  <2> QED BY <2>1, <2>2
<1>3. CASE TakeStep
  BY <1>3, TakeFrame DEF DataInv
<1>4. ASSUME NEW t \in Tasks, Frees(t) PROVE DataInv'
  BY <1>4, FreesFrame DEF DataInv
<1> QED BY <1>1, <1>2, <1>3, <1>4, CalmSteps

\* What is true in every state.
Inv == Types /\ PlaceInv /\ CountInv /\ NumInv /\ RingInv /\ DataInv /\ ValueInv /\ ClosedInv /\ WakeInv

\* A new channel has the invariant.
LEMMA InitInv == Init => Inv
<1> SUFFICES ASSUME Init PROVE Inv
  OBVIOUS
<1>0. /\ cap \in Nat /\ cap > 0 /\ MaxSends \in Nat /\ First \in Senders /\ Receiver \notin Senders
           /\ First \in Tasks
      /\ Receiver \in Tasks
  BY SMT, ChannelAssumption
<1>1. Types
  <2>1. WordTypes
    BY SMT DEF Init, WordTypes
  <2>2. RingTypes
    BY SMT, <1>0 DEF Init, RingTypes, Values, Slots
  <2>3. PlaceTypes
    BY DEF Init, PlaceTypes, Places
  <2>4. LocalTypes
    BY DEF Init, LocalTypes
  <2>5. HistoryTypes
    <3>1. out = <<>> /\ <<>> \in Seq(Values)
      BY SMT DEF Init
    <3> QED BY <3>1 DEF Init, HistoryTypes
  <2> QED BY <2>1, <2>2, <2>3, <2>4, <2>5 DEF Types
<1>2. /\ \A t \in Tasks : pc[t] \in {"idle", "unborn"} /\ then[t] = "idle" /\ num[t] = 0 /\ news[t]
      /\ pc[First] = "idle" /\ pc[Receiver] = "idle" /\ \A s \in Senders : s # First => pc[s] = "unborn"
  BY <1>0 DEF Init
<1>3. ~freed /\ ~told /\ ~closed /\ out = <<>> /\ back = {} /\ dropped = {} /\ skips = {}
  BY DEF Init
<1>4. /\ words.SENDS = 0 /\ words.RECVS = 0 /\ words.SENDERS = 1 /\ words.RECEIVER = 1 /\ words.ENDS = 2
      /\ words.SLEEPERS = 0 /\ words.SKIPS = 0 /\ words.SELECTS = 0
  BY DEF Init
<1>5. PlaceInv
  BY <1>0, <1>2, <1>4 DEF PlaceInv, SenderPlaces, ReceiverPlaces, Leaves, InNotify, InSleep
<1>6. CountInv
  <2>1. Live = {First}
    BY <1>0, <1>2 DEF Live, Leaves, InNotify
  <2>2. Ending = {First} \cup {Receiver}
    BY <1>0, <1>2 DEF Ending
  <2>3. Newborn = {} /\ Cloning = {} /\ Sleepers = {} /\ Selecting = {}
    BY <1>2 DEF Newborn, Cloning, Sleepers, Selecting, InSleep
  <2>4. Counts({} \cup {First}, 0 + 1)
    BY EmptySet, AddOne
  <2>5. Counts({First}, 1) /\ Counts({First} \cup {Receiver}, 1 + 1)
    <3>1. {} \cup {First} = {First} /\ 0 + 1 = 1 /\ Receiver \notin {First}
      BY SMT, <1>0
    <3>2. Counts({First}, 1)
      BY <2>4, <3>1
    <3> QED BY <3>1, <3>2, AddOne
  <2>6. 1 + 1 = 2 /\ 0 \in Nat
    BY SMT
  <2> QED BY <1>3, <1>4, <2>1, <2>2, <2>3, <2>5, <2>6, EmptySet DEF CountInv
<1>7. NumInv
  BY SMT, <1>0, <1>2, <1>4 DEF NumInv, Sending, Asking, Freeing, InNotify, InSleep
<1>8. RingInv
  <2>1. ASSUME NEW k \in Nat, k < cap PROVE slot[k % cap] = 2 * k
    <3>1. k \in Slots /\ k % cap = k
      BY SMT, <1>0, <2>1 DEF Slots
    <3> QED BY <3>1 DEF Init
  <2>2. Base = 0
    BY <1>2, <1>4 DEF Base, Freeing
  <2> QED BY SMT, <1>0, <1>2, <2>1, <2>2 DEF RingInv
<1>9. DataInv
  BY DEF Init, DataInv
<1>10. ValueInv
  <2>1. HoldInv
    BY <1>2 DEF HoldInv, Sending
  <2>2. SkipInv
    BY <1>2, <1>3 DEF SkipInv, Passing
  <2>3. BackInv /\ OutInv /\ DropInv
    BY SMT, <1>3 DEF BackInv, OutInv, DropInv
  <2>4. CoverInv
    BY SMT, <1>4 DEF CoverInv
  <2> QED BY <2>1, <2>2, <2>3, <2>4 DEF ValueInv
<1>11. ClosedInv
  <2>1. Skipped = {} /\ Passes = 0
    BY <1>2 DEF Skipped, Passes
  <2>2. SkipsCounted
    BY <1>3, <1>4, <2>1, EmptySet DEF SkipsCounted
  <2>3. SkipsShown
    BY <1>2, <1>3 DEF SkipsShown, SkippedBy
  <2> QED BY <1>3, <2>2, <2>3 DEF ClosedInv, ClosedSeen, ToldInv
<1>12. WakeInv
  BY <1>2 DEF WakeInv
<1> QED BY <1>1, <1>5, <1>6, <1>7, <1>8, <1>9, <1>10, <1>11, <1>12 DEF Inv

\* Every step keeps the invariant.
LEMMA InvStep == Inv /\ [Next]_vars => Inv'
BY TypesStep, PlaceInvStep, CountInvStep, NumInvStep, RingInvStep, DataInvStep, ValueInvStep, ClosedInvStep,
   WakeInvStep DEF Inv

\* The invariant is true in every state.
LEMMA Invariant == Spec => []Inv
BY InitInv, InvStep, PTL DEF Spec

-----------------------------------------------------------------------------
\* The theorems

\* The invariant gives the type invariant of the model.
LEMMA TypesAre == ASSUME Inv PROVE TypeOK
<1>0. /\ words.SENDS \in Nat /\ words.RECVS \in Nat /\ words.RECVS <= words.SENDS /\ words.SENDS <= MaxSends
      /\ MaxSends \in Nat
  BY ChannelAssumption DEF Inv, Types, WordTypes, NumInv
<1>1. words \in [SENDS : Nat, RECVS : Nat, SENDERS : Nat, RECEIVER : {0, 1}, ENDS : Nat,
                 SLEEPERS : Nat, SKIPS : Int, SELECTS : Nat]
  <2>1. words.SENDERS \in Nat /\ words.ENDS \in Nat /\ words.SLEEPERS \in Nat /\ words.SELECTS \in Nat
    BY NoElement DEF Inv, CountInv
  <2> QED BY <2>1 DEF Inv, Types, WordTypes
<1>2. data \in [Slots -> Numbers \cup {None}]
  <2>1. \A i \in Slots : data[i] \in Numbers \cup {None}
    BY SMT, <1>0 DEF Inv, Types, RingTypes, DataInv, Numbers, Values
  <2> QED BY <2>1 DEF Inv, Types, RingTypes
<1>3. skips \subseteq Numbers
  BY SMT, <1>0 DEF Inv, Types, RingTypes, ValueInv, SkipInv, Numbers
<1>4. back \subseteq Numbers
  BY SMT, <1>0 DEF Inv, Types, HistoryTypes, ValueInv, BackInv, Numbers
<1>5. dropped \subseteq Numbers
  <2>1. dropped \subseteq words.RECVS..(words.SENDS - 1)
    BY DEF Inv, ValueInv, DropInv
  <2> QED BY SMT, <1>0, <2>1 DEF Numbers
<1>6. out \in Seq(Numbers)
  <2>1. out \in Seq(Values) /\ \A i \in 1..Len(out) : out[i] \in Numbers
    BY SMT, <1>0 DEF Inv, Types, HistoryTypes, ValueInv, OutInv, Numbers
  <2> QED BY SMT, <2>1
<1> QED BY <1>1, <1>2, <1>3, <1>4, <1>5, <1>6 DEF Inv, Types, RingTypes, PlaceTypes, LocalTypes, HistoryTypes,
                                                  TypeOK

\* A value is shown by its own slot only.
LEMMA ItsSlot ==
  ASSUME Inv, NEW v \in Nat, NEW i \in Slots, slot[i] = 2 * v + 1
  PROVE  i = v % cap
<1>0. Base \in Nat /\ cap \in Nat /\ cap > 0 /\ i \in Nat /\ slot \in [Slots -> Nat]
  <2>1. cap \in Nat /\ cap > 0 /\ i \in Nat
    BY SMT, ChannelAssumption DEF Slots
  <2>2. words.RECVS \in Nat /\ num[Receiver] \in Nat /\ slot \in [Slots -> Nat]
    BY DEF Inv, Types, WordTypes, LocalTypes, RingTypes
  <2>3. Base \in Nat
    BY SMTT(30), <2>2 DEF Inv, NumInv, Base
  <2> QED BY <2>1, <2>2, <2>3
<1>1. i % cap = i
  BY SMT, <1>0 DEF Slots
<1>2. PICK j \in Nat : Base <= j /\ j < Base + cap /\ j % cap = i
  BY <1>0, <1>1, InWindow
<1>3. slot[i] = 2 * j \/ slot[i] = 2 * j + 1
  BY <1>2 DEF Inv, RingInv, Full
<1>4. j = v
  BY SMT, <1>3
<1> QED BY <1>2, <1>4

\* By the invariant, each number handed out is at one place and at no other.
LEMMA OnePlace ==
  ASSUME Inv, NEW v \in 0..(words.SENDS - 1)
  PROVE  \E p \in PlacesOf(v) : PlacesOf(v) = {p}
<1> DEFINE H == {u \in Senders : pc[u] \in Sending /\ num[u] = v}
           F == {j \in Slots : slot[j] = 2 * v + 1 /\ v >= words.RECVS /\ ~freed}
           O == {j \in 1..Len(out) : out[j] = v}
<1>0. /\ words.SENDS \in Nat /\ words.RECVS \in Nat /\ v \in Nat /\ v < words.SENDS /\ v % cap \in Slots
      /\ Types /\ CountInv /\ NumInv /\ RingInv /\ ValueInv
  BY SMT, ModIs DEF Inv, Types, WordTypes
<1>1. Held(v) => \E s : H = {s}
  BY <1>0 DEF Held, NumInv
<1>2. ~Held(v) => H = {}
  BY DEF Held
<1>3. Full(v) /\ v >= words.RECVS /\ ~freed => F = {v % cap}
  <2> SUFFICES ASSUME Full(v), v >= words.RECVS, ~freed PROVE F = {v % cap}
    OBVIOUS
  <2>1. v % cap \in F
    BY <1>0 DEF Full
  <2>2. \A i \in F : i = v % cap
    BY <1>0, ItsSlot
  <2> HIDE DEF F
  <2> QED BY <2>1, <2>2
<1>4. ~(Full(v) /\ v >= words.RECVS /\ ~freed) => F = {}
  <2>1. \A i \in F : i = v % cap
    BY <1>0, ItsSlot
  <2>2. \A i \in F : slot[i] = 2 * v + 1 /\ v >= words.RECVS /\ ~freed
    OBVIOUS
  <2> HIDE DEF F
  <2> QED BY <2>1, <2>2 DEF Full
<1>5. Received(v) => \E i : O = {i}
  <2> SUFFICES ASSUME Received(v) PROVE \E i : O = {i}
    OBVIOUS
  <2>1. PICK i \in O : TRUE
    BY DEF Received
  <2>2. \A j \in O : j = i
    BY <1>0 DEF ValueInv, OutInv
  <2> HIDE DEF O
  <2>3. O = {i}
    BY <2>2
  <2> QED BY <2>3
<1>6. ~Received(v) => O = {}
  BY DEF Received
<1>7. (v \in back => back \cap {v} = {v}) /\ (v \notin back => back \cap {v} = {})
  OBVIOUS
<1>8. (v \in dropped => dropped \cap {v} = {v}) /\ (v \notin dropped => dropped \cap {v} = {})
  OBVIOUS
<1>9. v \in dropped <=> freed /\ v >= words.RECVS /\ Full(v)
  BY SMT, <1>0 DEF ValueInv, DropInv
<1>10. Received(v) => v < words.RECVS
  BY <1>0 DEF Received, ValueInv, OutInv
<1>11. Held(v) => ~Full(v) /\ v \notin back /\ ~Received(v)
  BY <1>0 DEF Held, ValueInv, HoldInv
<1>12. v \in back => ~Full(v) /\ ~Received(v)
  BY <1>0 DEF ValueInv, BackInv
<1>13. Held(v) \/ (v >= words.RECVS /\ Full(v)) \/ Received(v) \/ v \in back
  BY <1>0 DEF ValueInv, CoverInv
<1>14. PlacesOf(v) = {<<"send", s>> : s \in H} \cup {<<"slot", i>> : i \in F} \cup {<<"received", i>> : i \in O}
                       \cup {<<"back", k>> : k \in back \cap {v}} \cup {<<"dropped", k>> : k \in dropped \cap {v}}
  BY DEF PlacesOf
<1>15. v < words.RECVS <=> ~(v >= words.RECVS)
  BY SMT, <1>0
<1> HIDE DEF H, F, O
<1>16. CASE Held(v)
  <2>1. PICK s : H = {s}
    BY <1>1, <1>16
  <2>2. F = {} /\ O = {} /\ back \cap {v} = {} /\ dropped \cap {v} = {}
    BY <1>4, <1>6, <1>7, <1>8, <1>9, <1>11, <1>16
  <2>3. PlacesOf(v) = {<<"send", s>>}
    BY <1>14, <2>1, <2>2
  <2> QED BY <2>3
<1>17. CASE v >= words.RECVS /\ Full(v)
  <2>1. H = {} /\ O = {} /\ back \cap {v} = {}
    BY <1>2, <1>6, <1>7, <1>10, <1>11, <1>12, <1>15, <1>17
  <2>2. CASE freed
    <3>1. F = {} /\ dropped \cap {v} = {v}
      BY <1>4, <1>8, <1>9, <1>17, <2>2
    <3>2. PlacesOf(v) = {<<"dropped", v>>}
      BY <1>14, <2>1, <3>1
    <3> QED BY <3>2
  <2>3. CASE ~freed
    <3>1. F = {v % cap} /\ dropped \cap {v} = {}
      BY <1>3, <1>8, <1>9, <1>17, <2>3
    <3>2. PlacesOf(v) = {<<"slot", v % cap>>}
      BY <1>14, <2>1, <3>1
    <3> QED BY <3>2
  <2> QED BY <2>2, <2>3
<1>18. CASE Received(v)
  <2>1. PICK i : O = {i}
    BY <1>5, <1>18
  <2>2. H = {} /\ F = {} /\ back \cap {v} = {} /\ dropped \cap {v} = {}
    BY <1>2, <1>4, <1>7, <1>8, <1>9, <1>10, <1>11, <1>12, <1>15, <1>18
  <2>3. PlacesOf(v) = {<<"received", i>>}
    BY <1>14, <2>1, <2>2
  <2> QED BY <2>3
<1>19. CASE v \in back
  <2>1. H = {} /\ F = {} /\ O = {} /\ back \cap {v} = {v} /\ dropped \cap {v} = {}
    BY <1>2, <1>4, <1>6, <1>7, <1>8, <1>9, <1>11, <1>12, <1>19
  <2>2. PlacesOf(v) = {<<"back", v>>}
    BY <1>14, <2>1
  <2> QED BY <2>2
<1> QED BY <1>13, <1>16, <1>17, <1>18, <1>19

\* Every value that was sent is in one place: with its send, in its slot, received, given back or
\* dropped, whatever is cancelled, dropped or cloned on the way.
THEOREM ValuesAreKept == Spec => []EachValueIsInOnePlace
<1>1. Inv => EachValueIsInOnePlace
  BY TypesAre, OnePlace DEF EachValueIsInOnePlace
<1> QED BY <1>1, Invariant, PTL

\* A receive gives Closed only when the last sender dropped its end and each value was received
\* or given back.
THEOREM ClosedEnds == Spec => []ClosedIsTheEnd
<1>1. Inv => ClosedIsTheEnd
  <2> SUFFICES ASSUME Inv, told, NEW v \in 0..(words.SENDS - 1)
               PROVE  words.SENDERS = 0 /\ (v \in back \/ \E i \in 1..Len(out) : out[i] = v)
    BY DEF ClosedIsTheEnd, Inv, ClosedInv, ToldInv
  <2>1. words.SENDERS = 0 /\ words.RECVS = words.SENDS
    BY DEF Inv, ClosedInv, ToldInv
  <2>2. ~Held(v)
    BY <2>1, NoSenders DEF Inv, Held
  <2>3. words.SENDS \in Nat /\ v \in Nat /\ v < words.SENDS /\ ~(v >= words.RECVS)
    BY SMT, <2>1 DEF Inv, Types, WordTypes
  <2>4. Received(v) \/ v \in back
    BY <2>2, <2>3 DEF Inv, ValueInv, CoverInv
  <2> QED BY <2>1, <2>4 DEF Received
<1> QED BY <1>1, Invariant, PTL

\* The words of a channel are deallocated by its last end.
THEOREM FreedLast == Spec => []FreedByTheLastEnd
<1>1. Inv => FreedByTheLastEnd
  BY DEF Inv, CountInv, FreedByTheLastEnd
<1> QED BY <1>1, Invariant, PTL

\* A task sleeps on while its wait is over only if a notify is on its way to it.
THEOREM WakesAreKept == Spec => []NoLostWake
<1>1. Inv => NoLostWake
  <2> SUFFICES ASSUME Inv, NEW t \in Tasks, pc[t] = "asleep", CanGoOn(t)
               PROVE  \E u \in Tasks :
                        \/ pc[u] \in {"skipped", "notify"}
                        \/ ~Selects(t) /\ (pc[u] = "wake_all" \/ (pc[u] = "sleepers" /\ HasSleeper))
                        \/ Selects(t) /\ \/ pc[u] \in {"sleepers", "wake_all", "any", "wake_any"}
                                         \/ pc[u] = "selects" /\ HasSelect
    BY DEF NoLostWake
  <2>1. Due(t)
    BY DEF Inv, PlaceInv, InSleep, CanGoOn, Due, Full, SlotOf
  <2>2. ~Selects(t) => HasSleeper
    <3>1. ~Selects(t) => t \in Sleepers
      BY DEF Sleepers, InSleep
    <3> QED BY SMT, <3>1, NoElement DEF Inv, CountInv, HasSleeper
  <2>3. Selects(t) => HasSelect
    <3>1. Selects(t) => t \in Selecting
      BY DEF Selecting, InSleep
    <3> QED BY SMT, <3>1, NoElement DEF Inv, CountInv, HasSelect
  <2>4. Coming(t) \/ Woken(t)
    BY <2>1 DEF Inv, WakeInv
  <2> QED BY <2>2, <2>3, <2>4 DEF Coming, Woken
<1> QED BY <1>1, Invariant, PTL

-----------------------------------------------------------------------------
\* The channel implements the line of ChannelPromise

Line == IF freed THEN <<>>
        ELSE [i \in 1..(words.SENDS - words.RECVS) |-> StatusOf(words.RECVS + i - 1)]

GaveUp(k) == k \in skips \/ Passing(k)

\* The place of a number in the line is its value, given up or open.
LEMMA StatusIs ==
  ASSUME NEW k, ~(Full(k) /\ GaveUp(k))
  PROVE  /\ Full(k) => StatusOf(k) = data[k % cap]
         /\ GaveUp(k) => StatusOf(k) = GivenUp
         /\ ~Full(k) /\ ~GaveUp(k) => StatusOf(k) = Open
<1>1. CASE Full(k)
  BY <1>1 DEF StatusOf, Full, GaveUp, Passing
<1>2. CASE GaveUp(k)
  BY <1>2 DEF StatusOf, Full, GaveUp, Passing
<1>3. CASE ~Full(k) /\ ~GaveUp(k)
  BY <1>3 DEF StatusOf, Full, GaveUp, Passing
<1> QED BY <1>1, <1>2, <1>3

\* The same of the state after a step.
LEMMA StatusNext ==
  ASSUME NEW k, ~(Full(k)' /\ GaveUp(k)')
  PROVE  /\ Full(k)' => StatusOf(k)' = data'[k % cap]
         /\ GaveUp(k)' => StatusOf(k)' = GivenUp
         /\ ~Full(k)' /\ ~GaveUp(k)' => StatusOf(k)' = Open
<1>1. CASE Full(k)'
  BY <1>1 DEF StatusOf, Full, GaveUp, Passing
<1>2. CASE GaveUp(k)'
  BY <1>2 DEF StatusOf, Full, GaveUp, Passing, GivenUp
<1>3. CASE ~Full(k)' /\ ~GaveUp(k)'
  BY <1>3 DEF StatusOf, Full, GaveUp, Passing, Open
<1> QED BY <1>1, <1>2, <1>3

\* A number that is neither filled, taken nor given up keeps its place in the line.
LEMMA StatusStays ==
  ASSUME NEW k, ~(Full(k) /\ GaveUp(k)), Full(k)' <=> Full(k), Full(k) => data'[k % cap] = data[k % cap],
         GaveUp(k)' <=> GaveUp(k)
  PROVE  StatusOf(k)' = StatusOf(k)
BY StatusIs, StatusNext

\* The line goes from the next number to receive to the last one handed out.
LEMMA LineIs ==
  ASSUME ~freed
  PROVE  /\ Line = [i \in 1..(words.SENDS - words.RECVS) |-> Line[i]]
         /\ \A i \in 1..(words.SENDS - words.RECVS) : Line[i] = StatusOf(words.RECVS + i - 1)
BY DEF Line

\* A step that hands out, takes and changes no number keeps the line.
LEMMA SameLine ==
  ASSUME Types, NumInv, UNCHANGED freed, words'.SENDS = words.SENDS, words'.RECVS = words.RECVS,
         \A k \in Nat : words.RECVS <= k => StatusOf(k)' = StatusOf(k)
  PROVE  Line' = Line
<1>0. words.RECVS \in Nat /\ words.SENDS \in Nat
  BY DEF Types, WordTypes
<1>1. \A i \in 1..(words.SENDS - words.RECVS) : StatusOf(words.RECVS + i - 1)' = StatusOf(words.RECVS + i - 1)
  BY SMT, <1>0
<1> QED BY <1>1 DEF Line

\* A sequence is a function of its positions.
LEMMA SeqIs ==
  ASSUME NEW T, NEW q \in Seq(T)
  PROVE  q = [i \in 1..Len(q) |-> q[i]]
BY SMT

\* Append as a function of the positions.
LEMMA AppendIs ==
  ASSUME NEW T, NEW q \in Seq(T), NEW e
  PROVE  Append(q, e) = [i \in 1..(Len(q) + 1) |-> IF i = Len(q) + 1 THEN e ELSE q[i]]
<1> DEFINE U == T \cup {e}
           a == Append(q, e)
<1>1. q \in Seq(U) /\ e \in U
  BY SMT
<1> HIDE DEF U
<1>2. a \in Seq(U) /\ Len(a) = Len(q) + 1 /\ a[Len(q) + 1] = e /\ \A i \in 1..Len(q) : a[i] = q[i]
  BY SMT, <1>1
<1>3. Len(q) \in Nat
  BY SMT
<1> HIDE DEF a
<1>4. a = [i \in 1..(Len(q) + 1) |-> a[i]]
  BY <1>2, SeqIs
<1>5. \A i \in 1..(Len(q) + 1) : a[i] = IF i = Len(q) + 1 THEN e ELSE q[i]
  BY SMT, <1>2, <1>3
<1>6. a = [i \in 1..(Len(q) + 1) |-> IF i = Len(q) + 1 THEN e ELSE q[i]]
  BY <1>4, <1>5
<1> QED BY <1>6 DEF a

\* Head and Tail as functions of the positions.
LEMMA TailIs ==
  ASSUME NEW T, NEW q \in Seq(T), Len(q) > 0
  PROVE  q # <<>> /\ Head(q) = q[1] /\ Tail(q) = [i \in 1..(Len(q) - 1) |-> q[i + 1]]
<1>1. q # <<>> /\ Head(q) = q[1]
  BY SMT
<1> DEFINE a == Tail(q)
<1>2. a \in Seq(T) /\ Len(a) = Len(q) - 1 /\ \A i \in 1..(Len(q) - 1) : a[i] = q[i + 1]
  BY SMT, <1>1
<1> HIDE DEF a
<1>3. a = [i \in 1..(Len(q) - 1) |-> a[i]]
  BY <1>2, SeqIs
<1>4. a = [i \in 1..(Len(q) - 1) |-> q[i + 1]]
  BY <1>2, <1>3
<1> QED BY <1>1, <1>4 DEF a

\* The line is a sequence, with a place for each number that no receive took.
LEMMA LineSeq ==
  ASSUME Types, NumInv, ~freed
  PROVE  /\ Line \in Seq({StatusOf(k) : k \in Nat}) /\ Len(Line) = words.SENDS - words.RECVS
         /\ \A i \in 1..(words.SENDS - words.RECVS) : Line[i] = StatusOf(words.RECVS + i - 1)
<1>0. words.RECVS \in Nat /\ words.SENDS \in Nat /\ words.RECVS <= words.SENDS
  BY DEF Types, WordTypes, NumInv
<1> DEFINE n == words.SENDS - words.RECVS
           St(i) == StatusOf(words.RECVS + i - 1)
           T == {StatusOf(k) : k \in Nat}
<1>1. n \in Nat
  BY SMT, <1>0
<1>2. \A i \in 1..n : words.RECVS + i - 1 \in Nat
  BY SMT, <1>0
<1>3. \A i \in 1..n : St(i) \in T
  BY <1>2
<1>4. Line = [i \in 1..n |-> St(i)]
  BY DEF Line
<1> HIDE DEF n, St, T
<1>5. Line \in Seq(T) /\ Len(Line) = n /\ \A i \in 1..n : Line[i] = St(i)
  BY SMT, <1>1, <1>3, <1>4
<1> QED BY <1>5 DEF n, St, T

\* The line grows, shrinks and changes at one place.
LEMMA Joined ==
  ASSUME Types, NumInv, ~freed, ~freed', words'.SENDS = words.SENDS + 1, words'.RECVS = words.RECVS,
         \A k \in Nat : words.RECVS <= k /\ k < words.SENDS => StatusOf(k)' = StatusOf(k),
         \A k \in Nat : k = words.SENDS => StatusOf(k)' = Open
  PROVE  Line' = Append(Line, Open)
<1>0. words.RECVS \in Nat /\ words.SENDS \in Nat /\ words.RECVS <= words.SENDS
  BY DEF Types, WordTypes, NumInv
<1>1. Append(Line, Open) = [i \in 1..(Len(Line) + 1) |-> IF i = Len(Line) + 1 THEN Open ELSE Line[i]]
  BY SMT, LineSeq, AppendIs
<1>2. Len(Line) = words.SENDS - words.RECVS
  BY LineSeq
<1>3. Line' = [i \in 1..(words'.SENDS - words'.RECVS) |-> StatusOf(words.RECVS + i - 1)']
  BY DEF Line
<1>4. ASSUME NEW i \in 1..(words.SENDS + 1 - words.RECVS)
      PROVE  StatusOf(words.RECVS + i - 1)' = IF i = Len(Line) + 1 THEN Open ELSE Line[i]
  <2>1. PICK k \in Nat : k = words.RECVS + i - 1 /\ k = words'.RECVS + i - 1
    BY SMT, <1>0
  <2>2. StatusOf(words.RECVS + i - 1)' = StatusOf(k)'
    BY <2>1
  <2>3. CASE i = Len(Line) + 1
    BY SMT, <1>0, <1>2, <2>1, <2>2, <2>3
  <2>4. CASE i # Len(Line) + 1
    <3>1. k < words.SENDS /\ words.RECVS <= k /\ i \in 1..(words.SENDS - words.RECVS)
      BY SMTT(30), <1>0, <1>2, <2>1, <2>4
    <3>2. Line[i] = StatusOf(k)
      BY <2>1, <3>1, LineSeq
    <3> QED BY <2>2, <2>4, <3>1, <3>2
  <2> QED BY <2>3, <2>4
<1>5. Len(Line) + 1 = words.SENDS + 1 - words.RECVS /\ Len(Line) + 1 = words'.SENDS - words'.RECVS
  BY SMT, <1>0, <1>2
<1> QED BY <1>1, <1>3, <1>4, <1>5

\* A step that changes one number changes its place in the line.
LEMMA Changed ==
  ASSUME Types, NumInv, ~freed, ~freed', words'.SENDS = words.SENDS, words'.RECVS = words.RECVS,
         NEW j \in Nat, words.RECVS <= j, j < words.SENDS, NEW x, StatusOf(j)' = x,
         \A k \in Nat : words.RECVS <= k /\ k # j => StatusOf(k)' = StatusOf(k)
  PROVE  /\ j - words.RECVS + 1 \in 1..Len(Line) /\ Line[j - words.RECVS + 1] = StatusOf(j)
         /\ Line' = [Line EXCEPT ![j - words.RECVS + 1] = x]
<1>0. words.RECVS \in Nat /\ words.SENDS \in Nat /\ words.RECVS <= words.SENDS
  BY DEF Types, WordTypes, NumInv
<1> DEFINE n == words.SENDS - words.RECVS
           p == j - words.RECVS + 1
<1>1. Len(Line) = n /\ Line = [i \in 1..n |-> Line[i]]
        /\ \A i \in 1..n : Line[i] = StatusOf(words.RECVS + i - 1)
  BY LineSeq, LineIs
<1>2. p \in 1..n /\ words.RECVS + p - 1 = j
  BY SMT, <1>0
<1>3. Line[p] = StatusOf(j)
  BY <1>1, <1>2
<1>4. Line' = [i \in 1..n |-> StatusOf(words.RECVS + i - 1)']
  BY DEF Line
<1>5. ASSUME NEW i \in 1..n PROVE StatusOf(words.RECVS + i - 1)' = IF i = p THEN x ELSE Line[i]
  <2>1. PICK k \in Nat : k = words.RECVS + i - 1 /\ k = words'.RECVS + i - 1
    BY SMT, <1>0
  <2>2. StatusOf(words.RECVS + i - 1)' = StatusOf(k)'
    BY <2>1
  <2>3. CASE i = p
    BY <1>2, <2>1, <2>2, <2>3
  <2>4. CASE i # p
    <3>1. k # j /\ words.RECVS <= k
      BY SMT, <1>0, <2>1, <2>4
    <3> QED BY <1>1, <2>1, <2>2, <2>4, <3>1
  <2> QED BY <2>3, <2>4
<1> HIDE DEF n, p
<1>6. Line' = [Line EXCEPT ![p] = x]
  BY <1>1, <1>4, <1>5
<1> QED BY <1>1, <1>2, <1>3, <1>6 DEF p

\* A step to the next number to receive takes the head of the line.
LEMMA Shortened ==
  ASSUME Types, NumInv, ~freed, ~freed', words'.SENDS = words.SENDS, words'.RECVS = words.RECVS + 1,
         words.RECVS < words.SENDS, \A k \in Nat : words.RECVS < k => StatusOf(k)' = StatusOf(k)
  PROVE  Line # <<>> /\ Head(Line) = StatusOf(words.RECVS) /\ Line' = Tail(Line)
<1>0. words.RECVS \in Nat /\ words.SENDS \in Nat
  BY DEF Types, WordTypes
<1>1. /\ Len(Line) = words.SENDS - words.RECVS
      /\ \A i \in 1..(words.SENDS - words.RECVS) : Line[i] = StatusOf(words.RECVS + i - 1)
  BY LineSeq
<1>2. Line # <<>> /\ Head(Line) = Line[1] /\ Tail(Line) = [i \in 1..(Len(Line) - 1) |-> Line[i + 1]]
  BY SMT, <1>0, <1>1, LineSeq, TailIs
<1>3. Line[1] = StatusOf(words.RECVS)
  <2>1. 1 \in 1..(words.SENDS - words.RECVS) /\ words.RECVS + 1 - 1 = words.RECVS
    BY SMT, <1>0
  <2> QED BY <1>1, <2>1
<1>4. Line' = [i \in 1..(words.SENDS - words'.RECVS) |-> StatusOf(words.RECVS + i - 1)']
  BY DEF Line
<1>5. ASSUME NEW i \in 1..(words.SENDS - words'.RECVS) PROVE StatusOf(words.RECVS + i - 1)' = Line[i + 1]
  <2>1. PICK k \in Nat : k = words.RECVS + i /\ k = words'.RECVS + i - 1
    BY SMT, <1>0
  <2>2. StatusOf(words.RECVS + i - 1)' = StatusOf(k)'
    BY <2>1
  <2>3. StatusOf(k)' = StatusOf(k)
    BY SMT, <1>0, <2>1
  <2>4. i + 1 \in 1..(words.SENDS - words.RECVS) /\ words.RECVS + (i + 1) - 1 = k
    BY SMT, <1>0, <2>1
  <2> QED BY <1>1, <2>2, <2>3, <2>4
<1>6. Len(Line) - 1 = words.SENDS - words'.RECVS
  BY SMT, <1>0, <1>1
<1> QED BY <1>2, <1>3, <1>4, <1>5, <1>6

\* A step of the channel as a step of the line.
LineStep ==
  \/ Line' = Line /\ out' = out
  \/ Line' = Append(Line, Open) /\ out' = out
  \/ \E i \in 1..Len(Line) :
       /\ Line[i] = Open /\ out' = out
       /\ \/ Line' = [Line EXCEPT ![i] = GivenUp]
          \/ i <= cap /\ \E v \in Numbers : Line' = [Line EXCEPT ![i] = v]
  \/ /\ Line # <<>> /\ Line' = Tail(Line)
     /\ \/ Head(Line) \in Numbers /\ out' = Append(out, Head(Line))
        \/ Head(Line) = GivenUp /\ out' = out
  \/ Line' = <<>> /\ out' = out

\* A place of the line does not have a value and a mark of its skip.
LEMMA NotBoth ==
  ASSUME Types, ValueInv, NEW k \in Nat
  PROVE  ~(Full(k) /\ GaveUp(k))
BY DEF ValueInv, SkipInv, GaveUp

\* A step of a send joins the line, fills its place or gives it up, or keeps the line.
LEMMA PutLine ==
  ASSUME Inv, NEW s \in Senders, PutStep(s)
  PROVE  LineStep
<1>0. /\ words.SENDS \in Nat /\ words.RECVS \in Nat /\ num \in [Tasks -> Nat] /\ cap \in Nat
           /\ MaxSends \in Nat
      /\ slot \in [Slots -> Nat] /\ pc \in [Tasks -> Places] /\ SlotOf(s) \in Slots /\ num[s] \in Nat
           /\ s \in Tasks
      /\ data \in [Slots -> Values]
  BY SlotType, ChannelAssumption DEF Inv, Types, WordTypes, LocalTypes, RingTypes, PlaceTypes
<1>00. Types /\ NumInv /\ RingInv /\ ValueInv
  BY DEF Inv
<1>1. /\ words'.RECVS = words.RECVS /\ UNCHANGED <<out, freed>> /\ \A k : Passing(k)' <=> Passing(k)
  BY <1>00, PutFrame
<1>2. ~freed /\ ~freed'
  <2>1. pc[s] \in {"idle"} \cup Sending
    BY <1>00, PutFrame DEF take_number
  <2> QED BY <1>1, <2>1 DEF Inv, CountInv, Sending
<1>3. CASE take_number(s)
  <2>1. words'.SENDS = words.SENDS + 1 /\ UNCHANGED <<slot, data, skips>>
    BY <1>3 DEF take_number, Inv, Types, WordTypes
  <2>2. ASSUME NEW k \in Nat PROVE (Full(k)' <=> Full(k)) /\ (GaveUp(k)' <=> GaveUp(k))
    BY <1>1, <2>1 DEF Full, GaveUp
  <2>3. \A k \in Nat : StatusOf(k)' = StatusOf(k)
    BY <1>00, <2>1, <2>2, NotBoth, StatusStays
  <2>4. ~Full(words.SENDS) /\ ~GaveUp(words.SENDS)
    BY SMT, <1>0, <1>00, NextIsOpen DEF ValueInv, SkipInv, GaveUp
  <2>5. \A k \in Nat : k = words.SENDS => StatusOf(k)' = Open
    BY <2>3, <2>4, StatusIs
  <2>6. Line' = Append(Line, Open)
    BY <1>00, <1>1, <1>2, <2>1, <2>3, <2>5, Joined
  <2> QED BY <1>1, <2>6 DEF LineStep
<1>4. ASSUME words'.SENDS = words.SENDS, \A k \in Nat : StatusOf(k)' = StatusOf(k) PROVE LineStep
  <2>1. Line' = Line
    BY <1>00, <1>1, <1>4, SameLine
  <2> QED BY <1>1, <2>1 DEF LineStep
<1>5. CASE write_value(s)
  <2>1. /\ pc[s] = "write" /\ words'.SENDS = words.SENDS /\ UNCHANGED <<slot, skips>>
        /\ data' = [data EXCEPT ![SlotOf(s)] = num[s]]
    BY <1>5 DEF write_value
  <2>2. slot[SlotOf(s)] = 2 * num[s]
    BY <1>00, <2>1 DEF RingInv
  <2>3. ASSUME NEW k \in Nat PROVE StatusOf(k)' = StatusOf(k)
    <3>1. (Full(k)' <=> Full(k)) /\ (GaveUp(k)' <=> GaveUp(k))
      BY <1>1, <2>1 DEF Full, GaveUp
    <3>2. Full(k) => k % cap # SlotOf(s)
      BY SMT, <1>0, <2>2 DEF Full
    <3>3. Full(k) => data'[k % cap] = data[k % cap]
      BY <1>0, <2>1, <3>2, ModIs
    <3> QED BY <1>00, <3>1, <3>3, NotBoth, StatusStays
  <2> QED BY <1>4, <2>1, <2>3
<1>6. CASE store_full(s)
  <2>1. /\ pc[s] = "full" /\ words'.SENDS = words.SENDS
        /\ UNCHANGED <<skips, data>> /\ slot' = [slot EXCEPT ![SlotOf(s)] = 2 * num[s] + 1]
    BY <1>6 DEF store_full
  <2>2. /\ slot[SlotOf(s)] = 2 * num[s] /\ data[SlotOf(s)] = num[s] /\ num[s] >= words.RECVS
             /\ num[s] < words.SENDS
        /\ num[s] \in Numbers
    BY SMTT(30), <1>0, <1>00, <2>1 DEF RingInv, NumInv, Sending, Numbers
  <2>3. ASSUME NEW k \in Nat PROVE Full(k)' <=> Full(k) \/ k = num[s]
    <3>1. k % cap \in Slots
      BY ModIs
    <3>2. CASE k % cap = SlotOf(s)
      <4>1. slot'[k % cap] = 2 * num[s] + 1 /\ slot[k % cap] = 2 * num[s]
        BY <1>0, <2>1, <2>2, <3>2
      <4> QED BY SMT, <1>0, <4>1 DEF Full
    <3>3. CASE k % cap # SlotOf(s)
      BY <1>0, <2>1, <3>1, <3>3 DEF Full, SlotOf
    <3> QED BY <3>2, <3>3
  <2>4. \A k \in Nat : GaveUp(k)' <=> GaveUp(k)
    BY <1>1, <2>1 DEF GaveUp
  <2>5. ~Full(num[s]) /\ ~GaveUp(num[s])
    BY <1>00, <2>1 DEF ValueInv, HoldInv, Sending, GaveUp
  <2>6. \A k \in Nat : k # num[s] => StatusOf(k)' = StatusOf(k)
    BY <1>00, <2>1, <2>3, <2>4, NotBoth, StatusStays
  <2>7. \A k \in Nat : k = num[s] => StatusOf(k) = Open /\ StatusOf(k)' = k
    <3> SUFFICES ASSUME NEW k \in Nat, k = num[s] PROVE StatusOf(k) = Open /\ StatusOf(k)' = k
      OBVIOUS
    <3>1. StatusOf(k) = Open
      BY <2>5, StatusIs
    <3>2. Full(k)' /\ ~GaveUp(k)' /\ data'[k % cap] = k
      BY <2>1, <2>2, <2>3, <2>4, <2>5 DEF SlotOf
    <3> QED BY <3>1, <3>2, StatusNext
  <2>8. PICK j \in Nat : j = num[s]
    BY <1>0
  <2>9. words.RECVS <= j /\ j < words.SENDS /\ StatusOf(j)' = j /\ StatusOf(j) = Open /\ j \in Numbers
    BY <1>0, <2>2, <2>7, <2>8
  <2>10. /\ j - words.RECVS + 1 \in 1..Len(Line) /\ Line[j - words.RECVS + 1] = Open
         /\ Line' = [Line EXCEPT ![j - words.RECVS + 1] = j]
    <3>1. \A k \in Nat : words.RECVS <= k /\ k # j => StatusOf(k)' = StatusOf(k)
      BY <2>6, <2>8
    <3> QED BY <1>00, <1>1, <1>2, <2>1, <2>9, <3>1, Changed
  <2>11. j - words.RECVS + 1 <= cap
    <3>1. slot[j % cap] = 2 * j
      BY <2>2, <2>8 DEF SlotOf
    <3>2. Base \in Nat /\ j < Base + cap
      BY <1>00, <3>1, ShownInWindow
    <3>3. Base <= words.RECVS
      BY SMT, <1>0 DEF Base
    <3> QED BY SMT, <1>0, <3>2, <3>3
  <2> QED BY <1>1, <2>9, <2>10, <2>11 DEF LineStep
<1>7. CASE vx_channel_skip(s)
  <2>1. pc[s] = "skip" /\ words'.SENDS = words.SENDS /\ UNCHANGED <<slot, data>>
          /\ skips' = skips \cup {num[s]}
    BY <1>7 DEF vx_channel_skip
  <2>2. num[s] >= words.RECVS /\ num[s] < words.SENDS /\ ~Full(num[s]) /\ ~GaveUp(num[s])
    BY <1>00, <2>1 DEF NumInv, ValueInv, HoldInv, Sending, GaveUp
  <2>3. \A k \in Nat : (Full(k)' <=> Full(k)) /\ (GaveUp(k)' <=> GaveUp(k) \/ k = num[s])
    BY <1>1, <2>1 DEF Full, GaveUp
  <2>4. PICK j \in Nat : j = num[s]
    BY <1>0
  <2>5. \A k \in Nat : k # j => StatusOf(k)' = StatusOf(k)
    BY <1>00, <2>1, <2>3, <2>4, NotBoth, StatusStays
  <2>6. StatusOf(j) = Open
    BY <2>2, <2>4, StatusIs
  <2>7. StatusOf(j)' = GivenUp
    <3>1. GaveUp(j)' /\ ~Full(j)'
      BY <2>2, <2>3, <2>4
    <3> QED BY <3>1, StatusNext
  <2>8. /\ j - words.RECVS + 1 \in 1..Len(Line) /\ Line[j - words.RECVS + 1] = Open
        /\ Line' = [Line EXCEPT ![j - words.RECVS + 1] = GivenUp]
    <3>1. words.RECVS <= j /\ j < words.SENDS
      BY <1>0, <2>2, <2>4
    <3> QED BY <1>00, <1>1, <1>2, <2>1, <2>5, <2>6, <2>7, <3>1, Changed
  <2> QED BY <1>1, <2>8 DEF LineStep
<1>8. CASE count_skip(s) \/ (load_receiver(s) /\ words.RECEIVER = 0)
  <2>1. words'.SENDS = words.SENDS /\ UNCHANGED <<slot, data, skips>>
    BY <1>8 DEF count_skip, load_receiver, Inv, Types, WordTypes
  <2>2. ASSUME NEW k \in Nat PROVE StatusOf(k)' = StatusOf(k)
    <3>1. (Full(k)' <=> Full(k)) /\ (GaveUp(k)' <=> GaveUp(k))
      BY <1>1, <2>1 DEF Full, GaveUp
    <3> QED BY <1>00, <2>1, <3>1, NotBoth, StatusStays
  <2> QED BY <1>4, <2>1, <2>2
<1> QED BY <1>3, <1>5, <1>6, <1>7, <1>8 DEF PutStep

\* A step of a receive takes the value at the head, passes a place given up, or keeps the line.
LEMMA TakeLine ==
  ASSUME Inv, TakeStep
  PROVE  LineStep
<1>0. /\ words.SENDS \in Nat /\ words.RECVS \in Nat /\ num \in [Tasks -> Nat] /\ cap \in Nat /\ cap > 0
           /\ MaxSends \in Nat
      /\ slot \in [Slots -> Nat] /\ pc \in [Tasks -> Places] /\ SlotOf(Receiver) \in Slots
           /\ num[Receiver] \in Nat
      /\ Receiver \in Tasks
  BY SMT, SlotType, ChannelAssumption DEF Inv, Types, WordTypes, LocalTypes, RingTypes, PlaceTypes
<1>00. Types /\ NumInv /\ RingInv /\ ValueInv /\ CountInv
  BY DEF Inv
<1>1. /\ UNCHANGED <<data, freed>> /\ words'.SENDS = words.SENDS
      /\ take_slot(Receiver) \/ UNCHANGED out
  BY <1>00, TakeFrame
<1>2. TakesNumber
  BY <1>00, TakeNumber
<1>3. ~freed /\ ~freed'
  BY <1>00, <1>1, <1>2 DEF CountInv, TakesNumber, Freeing
<1>4. CASE /\ pc[Receiver] \in {"take", "pass"} /\ pc'[Receiver] \in {"taken", "passed"}
             /\ UNCHANGED <<slot, skips>>
           /\ words'.RECVS = num[Receiver] + 1
  <2>1. num[Receiver] = words.RECVS /\ ~Freeing
    BY <1>00, <1>4 DEF NumInv, Asking, Freeing
  <2>2. \A k \in Nat : Full(k)' <=> Full(k)
    BY <1>4 DEF Full
  <2>3. \A k \in Nat : words.RECVS < k => (GaveUp(k)' <=> GaveUp(k))
    BY SMTT(30), <1>0, <1>4, <2>1 DEF GaveUp, Passing
  <2>4. \A k \in Nat : words.RECVS < k => StatusOf(k)' = StatusOf(k)
    BY <1>00, <1>1, <2>2, <2>3, NotBoth, StatusStays
  <2>5. CASE pc[Receiver] = "take"
    <3>1. Full(words.RECVS)
      BY <1>00, <2>1, <2>5 DEF RingInv
    <3>2. words.RECVS < words.SENDS /\ data[words.RECVS % cap] = words.RECVS
      <4>1. Base <= words.RECVS /\ words.RECVS < Base + cap
        BY <1>0, <1>00, <3>1, ShownInWindow
      <4>2. slot[words.RECVS % cap] # 2 * words.RECVS
        BY SMT, <1>0, <3>1 DEF Full
      <4> QED BY <1>0, <1>00, <4>1, <4>2 DEF RingInv
    <3>3. StatusOf(words.RECVS) = words.RECVS /\ words.RECVS \in Numbers
      BY SMTT(30), <1>0, <1>00, <3>1, <3>2, NotBoth, StatusIs DEF Numbers, NumInv
    <3>4. Line # <<>> /\ Head(Line) = StatusOf(words.RECVS) /\ Line' = Tail(Line)
      BY <1>00, <1>1, <1>3, <1>4, <2>1, <2>4, <3>2, Shortened
    <3>5. out' = Append(out, words.RECVS)
      <4>1. out' = Append(out, data[SlotOf(Receiver)])
        BY <1>1, <1>2, <2>1, <2>5 DEF TakesNumber, take_slot, Freeing
      <4> QED BY <2>1, <3>2, <4>1 DEF SlotOf
    <3> QED BY <3>3, <3>4, <3>5 DEF LineStep
  <2>6. CASE pc[Receiver] = "pass"
    <3>1. Passing(words.RECVS) /\ GaveUp(words.RECVS)
      BY <2>1, <2>6 DEF Passing, GaveUp
    <3>2. words.RECVS < words.SENDS
      BY <1>0, <1>00, <3>1 DEF ValueInv, SkipInv
    <3>3. StatusOf(words.RECVS) = GivenUp
      BY <1>0, <1>00, <3>1, NotBoth, StatusIs
    <3>4. Line # <<>> /\ Head(Line) = StatusOf(words.RECVS) /\ Line' = Tail(Line)
      BY <1>00, <1>1, <1>3, <1>4, <2>1, <2>4, <3>2, Shortened
    <3>5. out' = out
      BY <1>1, <2>6 DEF take_slot
    <3> QED BY <3>3, <3>4, <3>5 DEF LineStep
  <2> QED BY <1>4, <2>5, <2>6
<1>5. ASSUME words'.RECVS = words.RECVS, out' = out, \A k \in Nat : words.RECVS <= k =>
               StatusOf(k)' = StatusOf(k)
      PROVE  LineStep
  <2>1. Line' = Line
    BY <1>00, <1>1, <1>5, SameLine
  <2> QED BY <1>5, <2>1 DEF LineStep
<1>6. CASE /\ Freeing /\ ~Freeing' /\ pc'[Receiver] = "notify" /\ words'.RECVS = words.RECVS
             /\ UNCHANGED skips
           /\ slot' = [slot EXCEPT ![SlotOf(Receiver)] = 2 * (num[Receiver] + cap)]
  <2>1. /\ num[Receiver] + 1 = words.RECVS /\ Base = num[Receiver] /\ out' = out
        /\ \A k : ~Passing(k) /\ ~Passing(k)'
    <3>1. num[Receiver] + 1 = words.RECVS /\ \A k : ~Passing(k) /\ ~Passing(k)'
      BY <1>00, <1>6 DEF NumInv, Passing, Freeing
    <3>2. out' = out
      BY <1>1, <1>6 DEF take_slot, Freeing
    <3>3. Base = num[Receiver]
      BY SMT, <1>0, <1>6, <3>1 DEF Base
    <3> QED BY <3>1, <3>2, <3>3
  <2>2. ASSUME NEW k \in Nat, words.RECVS <= k PROVE Full(k)' <=> Full(k)
    <3>1. k % cap \in Slots
      BY ModIs
    <3>2. k % cap # SlotOf(Receiver) => (Full(k)' <=> Full(k))
      BY <1>0, <1>6, <3>1 DEF Full
    <3>3. k % cap = SlotOf(Receiver) => ~Full(k)'
      BY SMTT(30), <1>0, <1>6, <3>1 DEF Full
    <3>4. Full(k) => k % cap # SlotOf(Receiver)
      <4> SUFFICES ASSUME Full(k) PROVE k % cap # SlotOf(Receiver)
        OBVIOUS
      <4>1. num[Receiver] \in Nat /\ Base \in Int /\ Base <= num[Receiver] /\ num[Receiver] < Base + cap
        BY SMT, <1>0, <2>1
      <4>2. Base <= k /\ k < Base + cap
        BY <1>00, ShownInWindow
      <4>3. k % cap = num[Receiver] % cap => k = num[Receiver]
        BY <4>1, <4>2, Window
      <4> QED BY SMT, <1>0, <2>1, <2>2, <4>3 DEF SlotOf
    <3> QED BY <3>2, <3>3, <3>4
  <2>3. \A k \in Nat : GaveUp(k)' <=> GaveUp(k)
    BY <1>6, <2>1 DEF GaveUp
  <2>4. \A k \in Nat : words.RECVS <= k => StatusOf(k)' = StatusOf(k)
    BY <1>00, <1>1, <2>2, <2>3, NotBoth, StatusStays
  <2> QED BY <1>5, <1>6, <2>1, <2>4
<1>7. CASE /\ pc[Receiver] = "take_skip" /\ pc'[Receiver] = "pass" /\ words'.RECVS = words.RECVS
             /\ UNCHANGED slot
           /\ num'[Receiver] = num[Receiver] /\ num[Receiver] \in skips /\ skips' = skips \ {num[Receiver]}
  <2>1. out' = out
    BY <1>1, <1>7 DEF take_slot
  <2>2. ASSUME NEW k \in Nat PROVE StatusOf(k)' = StatusOf(k)
    <3>1. (Full(k)' <=> Full(k)) /\ (GaveUp(k)' <=> GaveUp(k))
      BY <1>7 DEF Full, GaveUp, Passing
    <3> QED BY <1>00, <1>1, <3>1, NotBoth, StatusStays
  <2> QED BY <1>5, <1>7, <2>1, <2>2
<1> QED BY <1>2, <1>4, <1>6, <1>7 DEF TakesNumber

\* Every step is a step of the line, or keeps it.
LEMMA NextLine == ASSUME Inv, [Next]_vars PROVE LineStep
<1>00. Types /\ PlaceInv /\ NumInv /\ RingInv /\ ValueInv /\ CountInv
  BY DEF Inv
<1>1. CASE Calm
  <2>1. ASSUME NEW k \in Nat PROVE StatusOf(k)' = StatusOf(k)
    <3>1. (Full(k)' <=> Full(k)) /\ (GaveUp(k)' <=> GaveUp(k)) /\ UNCHANGED data
      BY <1>1 DEF Calm, Full, GaveUp, Passing
    <3> QED BY <1>00, <3>1, NotBoth, StatusStays
  <2>2. Line' = Line
    BY <1>00, <1>1, <2>1, SameLine DEF Calm
  <2> QED BY <1>1, <2>2 DEF LineStep, Calm
<1>2. ASSUME NEW t \in Tasks, Frees(t) PROVE LineStep
  <2>1. freed' /\ UNCHANGED out
    BY <1>00, <1>2, FreesFrame
  <2> QED BY <2>1 DEF LineStep, Line
<1> QED BY <1>00, <1>1, <1>2, PutLine, TakeLine, CalmSteps

\* The channel implements ChannelPromise: the sends get their places in one line with room for `cap`
\* values, and the receives take the values in its order and pass the places that were given up.
THEOREM SendsInOneLine == Spec => KeepsThePromise
<1>1. Init => Promise!LineInit
  <2> SUFFICES ASSUME Init PROVE Line = <<>> /\ out = <<>>
    BY DEF Promise!LineInit, Line
  <2> QED BY SMT DEF Init, Line
<1>2. Inv /\ [Next]_vars => [Promise!LineNext]_(Promise!lineVars)
  <2> SUFFICES ASSUME Inv, [Next]_vars PROVE Promise!LineNext \/ UNCHANGED Promise!lineVars
    OBVIOUS
  <2>1. LineStep
    BY NextLine
  <2>2. CASE Line' = Line /\ out' = out
    BY <2>2 DEF Promise!lineVars, Line
  <2>3. CASE Line' = Append(Line, Open) /\ out' = out
    BY <2>3 DEF Promise!LineNext, Promise!Join, Line
  <2>4. ASSUME NEW i \in 1..Len(Line), Line[i] = Open, out' = out, Line' = [Line EXCEPT ![i] = GivenUp]
        PROVE  Promise!LineNext
    BY <2>4 DEF Promise!LineNext, Promise!GiveUp, Line
  <2>5. ASSUME NEW i \in 1..Len(Line), Line[i] = Open, out' = out, i <= cap, NEW v \in Numbers,
               Line' = [Line EXCEPT ![i] = v]
        PROVE  Promise!LineNext
    BY <2>5 DEF Promise!LineNext, Promise!Put, Line
  <2>6. CASE Line # <<>> /\ Line' = Tail(Line) /\ Head(Line) \in Numbers /\ out' = Append(out, Head(Line))
    BY <2>6 DEF Promise!LineNext, Promise!Receive, Line
  <2>7. CASE Line # <<>> /\ Line' = Tail(Line) /\ Head(Line) = GivenUp /\ out' = out
    BY <2>7 DEF Promise!LineNext, Promise!Pass, Line
  <2>8. CASE Line' = <<>> /\ out' = out
    BY <2>8 DEF Promise!LineNext, Promise!Discard, Line
  <2> QED BY <2>1, <2>2, <2>3, <2>4, <2>5, <2>6, <2>7, <2>8 DEF LineStep
<1> QED BY <1>1, <1>2, Invariant, PTL DEF Spec, KeepsThePromise, Promise!LineSpec
=============================================================================
