------------------------------ MODULE Channel -------------------------------
(***************************************************************************)
(* A channel of src/stdlib/std/sync/channel.vx: `send`, `recv`, `try_recv`,*)
(* `select`, the clone and the drop of its ends, and the skip set of       *)
(* wait.rs for the places that a cancelled `send` left.                    *)
(*                                                                         *)
(* One action is one atomic access of the channel's words.  `WAKE` is only *)
(* compared with the value at an earlier load, so the model keeps, for     *)
(* each task, whether it changed since (`news`).  A sleep on `WAKE` has    *)
(* the promise of WaitWord: it starts only with no news, and the wake ends *)
(* it.  The value of the send with number k is k itself.                   *)
(*                                                                         *)
(* A `select` waits on the word that all channels share.  The other        *)
(* channels of its list are empty and closed here, and an event on them    *)
(* only ends a sleep early.                                                *)
(*                                                                         *)
(* A definition X_mutant is a faulty form of X.  No specification uses it: *)
(* it shows that a property notices the fault.                             *)
(***************************************************************************)
EXTENDS Integers, Sequences

CONSTANTS
  Senders, First,   \* the tasks that can have a Sender; the one with the first
  Receiver,         \* the task with the Receiver
  cap,              \* the slots of the ring
  MaxSends,         \* bounds the send numbers
  Timed,            \* the tasks whose waits have a deadline
  Cancels           \* the tasks whose block can be cancelled

Tasks == Senders \cup {Receiver}
Slots == 0..(cap - 1)
Numbers == 0..(MaxSends - 1)
None == -1      \* the slot has no value yet
Open == -2      \* the place of a send that did not put its value yet
GivenUp == -3   \* the place of a send that gave up

ASSUME ChannelAssumption ==
  /\ First \in Senders /\ Receiver \notin Senders
  /\ cap \in Nat \ {0} /\ MaxSends \in Nat
  /\ Timed \subseteq Tasks /\ Cancels \subseteq Tasks

VARIABLES
  words,      \* the counters at the head of the channel's words, and the shared count of selects
  slot, data, \* the number and the value of each slot
  skips,      \* the numbers of this channel in the skip set
  news,       \* whether the word of its wait changed since the task loaded it
  pc, then,   \* the place of each task, and where it goes on after `notify`
  num,        \* the `k` of each task
  closed,     \* what the receiver loaded: SENDERS is 0
  mode,       \* the call of the receiver: "recv", "try" or "select"
  cancelled,  \* the tasks whose block was cancelled
  freed,      \* the words are deallocated
  out, back, dropped,   \* the values received, given back and dropped
  told        \* a receive gave Closed

ring    == <<slot, data, skips>>
place   == <<pc, then>>
history == <<out, back, dropped, told>>
vars == <<words, ring, news, place, num, closed, mode, cancelled, freed, history>>

Init ==
  /\ words = [SENDS |-> 0, RECVS |-> 0, SENDERS |-> 1, RECEIVER |-> 1, ENDS |-> 2,
              SLEEPERS |-> 0, SKIPS |-> 0, SELECTS |-> 0]
  /\ slot = [i \in Slots |-> 2 * i] /\ data = [i \in Slots |-> None] /\ skips = {}
  /\ news = [t \in Tasks |-> TRUE]
  /\ pc = [t \in Tasks |-> IF t \in {First, Receiver} THEN "idle" ELSE "unborn"]
  /\ then = [t \in Tasks |-> "idle"]
  /\ num = [t \in Tasks |-> 0]
  /\ closed = FALSE /\ mode = "recv"
  /\ cancelled = {} /\ freed = FALSE
  /\ out = <<>> /\ back = {} /\ dropped = {} /\ told = FALSE

Goto(t, to) == pc' = [pc EXCEPT ![t] = to] /\ UNCHANGED then
Notify(t, next) == pc' = [pc EXCEPT ![t] = "notify"] /\ then' = [then EXCEPT ![t] = next]
SlotOf(t) == num[t] % cap

\* The locals of a call, which end with it.
Keeps == UNCHANGED <<num, closed, mode, news>>
Ends(t) ==
  /\ num' = [num EXCEPT ![t] = 0] /\ news' = [news EXCEPT ![t] = TRUE]
  /\ IF t = Receiver THEN closed' = FALSE /\ mode' = "recv" ELSE UNCHANGED <<closed, mode>>

-----------------------------------------------------------------------------
\* notify and wait_for_event, and the waits of select

Selects(t) == t = Receiver /\ mode = "select"
Tell(who) == news' = [u \in Tasks |-> news[u] \/ u \in who]
Wake(t, who, next) ==
  pc' = [u \in Tasks |-> IF u = t THEN next
                         ELSE IF u \in who /\ pc[u] = "asleep" THEN "uncount" ELSE pc[u]]

notify(t) ==
  /\ pc[t] = "notify" /\ Goto(t, "sleepers")
  /\ Tell({u \in Tasks : ~Selects(u)})
  /\ UNCHANGED <<words, ring, num, closed, mode, cancelled, freed, history>>

HasSleeper_mutant == words.SLEEPERS > 1
HasSleeper == words.SLEEPERS > 0

load_sleepers(t) ==
  /\ pc[t] = "sleepers"
  /\ Goto(t, IF HasSleeper THEN "wake_all" ELSE "any")
  /\ UNCHANGED <<words, ring, news, num, closed, mode, cancelled, freed, history>>

wake_all(t) ==
  /\ pc[t] = "wake_all" /\ Wake(t, {u \in Tasks : ~Selects(u)}, "any")
  /\ UNCHANGED <<then, words, ring, news, num, closed, mode, cancelled, freed, history>>

notify_any(t) ==
  /\ pc[t] = "any" /\ Goto(t, "selects")
  /\ Tell({u \in Tasks : Selects(u)})
  /\ UNCHANGED <<words, ring, num, closed, mode, cancelled, freed, history>>

HasSelect_mutant == words.SELECTS > 1
HasSelect == words.SELECTS > 0

load_selects(t) ==
  /\ pc[t] = "selects"
  /\ Goto(t, IF HasSelect THEN "wake_any" ELSE then[t])
  /\ UNCHANGED <<words, ring, news, num, closed, mode, cancelled, freed, history>>

wake_any(t) ==
  /\ pc[t] = "wake_any" /\ Wake(t, {u \in Tasks : Selects(u)}, then[t])
  /\ UNCHANGED <<then, words, ring, news, num, closed, mode, cancelled, freed, history>>

\* A `recv` loads WAKE before it looks at its cancel mark, a `select` its word after it.
load_wake(t) ==
  /\ pc[t] = "wake"
  /\ news' = [news EXCEPT ![t] = FALSE]
  /\ Goto(t, IF t \in Senders THEN "receiver" ELSE IF Selects(t) THEN "senders" ELSE "cancelled")
  /\ UNCHANGED <<words, ring, num, closed, mode, cancelled, freed, history>>

Count(t, d) == IF Selects(t) THEN [words EXCEPT !.SELECTS = @ + d] ELSE [words EXCEPT !.SLEEPERS = @ + d]

count_sleeper(t) ==
  /\ pc[t] = "count" /\ Goto(t, "wait")
  /\ words' = Count(t, 1)
  /\ UNCHANGED <<ring, news, num, closed, mode, cancelled, freed, history>>

wait_while_until(t) ==
  /\ pc[t] = "wait"
  /\ Goto(t, IF news[t] \/ t \in cancelled THEN "uncount" ELSE "asleep")
  /\ UNCHANGED <<words, ring, news, num, closed, mode, cancelled, freed, history>>

\* The deadline, or a change of another word of the bucket.
wait_ends_early(t) ==
  /\ pc[t] = "asleep" /\ Goto(t, "uncount")
  /\ UNCHANGED <<words, ring, news, num, closed, mode, cancelled, freed, history>>

uncount_sleeper(t) ==
  /\ pc[t] = "uncount" /\ Goto(t, IF Selects(t) THEN "cancelled" ELSE "wake")
  /\ words' = Count(t, -1)
  /\ UNCHANGED <<ring, news, num, closed, mode, cancelled, freed, history>>

\* The cancel of the task's block, with its wake of each sleep that sees it.
cancel(t) ==
  /\ t \in Cancels \ cancelled
  /\ cancelled' = cancelled \cup {t}
  /\ Goto(t, IF pc[t] = "asleep" THEN "uncount" ELSE pc[t])
  /\ UNCHANGED <<words, ring, news, num, closed, mode, freed, history>>

-----------------------------------------------------------------------------
\* send_until.  A send of a cancelled task returns at once and takes no number.

take_number(s) ==
  /\ pc[s] = "idle" /\ s \notin cancelled /\ words.SENDS < MaxSends
  /\ num' = [num EXCEPT ![s] = words.SENDS]
  /\ words' = [words EXCEPT !.SENDS = @ + 1]
  /\ Goto(s, "wake")
  /\ UNCHANGED <<ring, news, closed, mode, cancelled, freed, history>>

load_receiver(s) ==
  /\ pc[s] = "receiver"
  /\ \/ words.RECEIVER = 1 /\ Goto(s, "slot") /\ Keeps /\ UNCHANGED back
     \/ words.RECEIVER = 0 /\ Goto(s, "idle") /\ Ends(s) /\ back' = back \cup {num[s]}
  /\ UNCHANGED <<words, ring, cancelled, freed, out, dropped, told>>

IsMyTurn_mutant(s) == slot[SlotOf(s)] % 2 = 0
IsMyTurn(s) == slot[SlotOf(s)] = 2 * num[s]

load_slot(s) ==
  /\ pc[s] = "slot"
  /\ Goto(s, IF IsMyTurn(s) THEN "write" ELSE "check")
  /\ UNCHANGED <<words, ring, news, num, closed, mode, cancelled, freed, history>>

write_value(s) ==
  /\ pc[s] = "write" /\ Goto(s, "full")
  /\ data' = [data EXCEPT ![SlotOf(s)] = num[s]]
  /\ UNCHANGED <<words, slot, skips, news, num, closed, mode, cancelled, freed, history>>

store_full(s) ==
  /\ pc[s] = "full" /\ Notify(s, "idle")
  /\ slot' = [slot EXCEPT ![SlotOf(s)] = 2 * num[s] + 1] /\ Ends(s)
  /\ UNCHANGED <<words, data, skips, cancelled, freed, history>>

check_limits(s) ==
  /\ pc[s] = "check"
  /\ \/ (s \in cancelled \/ s \in Timed) /\ Goto(s, "skip")
     \/ s \notin cancelled /\ Goto(s, "count")
  /\ UNCHANGED <<words, ring, news, num, closed, mode, cancelled, freed, history>>

vx_channel_skip(s) ==
  /\ pc[s] = "skip" /\ Goto(s, "skipped")
  /\ skips' = skips \cup {num[s]}
  /\ UNCHANGED <<words, slot, data, news, num, closed, mode, cancelled, freed, history>>

count_skip(s) ==
  /\ pc[s] = "skipped" /\ Notify(s, "idle")
  /\ words' = [words EXCEPT !.SKIPS = @ + 1]
  /\ back' = back \cup {num[s]} /\ Ends(s)
  /\ UNCHANGED <<ring, cancelled, freed, out, dropped, told>>

-----------------------------------------------------------------------------
\* recv_until and try_recv, with pass_a_skip

recv(r) ==
  /\ pc[r] = "idle" /\ Goto(r, "wake")
  /\ num' = [num EXCEPT ![r] = words.RECVS] /\ mode' = "recv"
  /\ UNCHANGED <<words, ring, news, closed, cancelled, freed, history>>

try_recv(r) ==
  /\ pc[r] = "idle" /\ Goto(r, "senders")
  /\ num' = [num EXCEPT ![r] = words.RECVS] /\ mode' = "try"
  /\ UNCHANGED <<words, ring, news, closed, cancelled, freed, history>>

select(r) ==
  /\ pc[r] = "idle" /\ Goto(r, "cancelled")
  /\ num' = [num EXCEPT ![r] = words.RECVS] /\ mode' = "select"
  /\ UNCHANGED <<words, ring, news, closed, cancelled, freed, history>>

\* `Cancelled` gives no value and takes no number.
load_cancelled(r) ==
  /\ pc[r] = "cancelled"
  /\ \/ r \in cancelled /\ Goto(r, "idle") /\ Ends(r)
     \/ r \notin cancelled /\ Goto(r, IF Selects(r) THEN "wake" ELSE "senders") /\ Keeps
  /\ UNCHANGED <<words, ring, cancelled, freed, history>>

load_senders(r) ==
  /\ pc[r] = "senders" /\ Goto(r, "slot_of_recv")
  /\ closed' = (words.SENDERS = 0)
  /\ UNCHANGED <<words, ring, news, num, mode, cancelled, freed, history>>

load_full(r) ==
  /\ pc[r] = "slot_of_recv"
  /\ Goto(r, IF slot[SlotOf(r)] = 2 * num[r] + 1 THEN "take" ELSE "skips")
  /\ UNCHANGED <<words, ring, news, num, closed, mode, cancelled, freed, history>>

take_slot(r) ==
  /\ pc[r] = "take" /\ Goto(r, "taken")
  /\ words' = [words EXCEPT !.RECVS = num[r] + 1]
  /\ out' = Append(out, data[SlotOf(r)])
  /\ UNCHANGED <<ring, news, num, closed, mode, cancelled, freed, back, dropped, told>>

FreeSlot(r) == [slot EXCEPT ![SlotOf(r)] = 2 * (num[r] + cap)]

store_taken(r) ==
  /\ pc[r] = "taken" /\ Notify(r, "idle")
  /\ slot' = FreeSlot(r) /\ Ends(r)
  /\ UNCHANGED <<words, data, skips, cancelled, freed, history>>

load_skips(r) ==
  /\ pc[r] = "skips"
  /\ Goto(r, IF words.SKIPS = 0 THEN "none" ELSE "take_skip")
  /\ UNCHANGED <<words, ring, news, num, closed, mode, cancelled, freed, history>>

vx_channel_take_skip(r) ==
  /\ pc[r] = "take_skip"
  /\ Goto(r, IF num[r] \in skips THEN "pass" ELSE "none")
  /\ skips' = skips \ {num[r]}
  /\ UNCHANGED <<words, slot, data, news, num, closed, mode, cancelled, freed, history>>

pass_number(r) ==
  /\ pc[r] = "pass" /\ Goto(r, "passed")
  /\ words' = [words EXCEPT !.SKIPS = @ - 1, !.RECVS = num[r] + 1]
  /\ UNCHANGED <<ring, news, num, closed, mode, cancelled, freed, history>>

pass_slot(r) ==
  /\ pc[r] = "passed" /\ Notify(r, IF mode = "recv" THEN "wake" ELSE "senders")
  /\ slot' = FreeSlot(r)
  /\ num' = [num EXCEPT ![r] = @ + 1]
  /\ UNCHANGED <<words, data, skips, news, closed, mode, cancelled, freed, history>>

IsClosed_mutant == words.SENDERS = 0
IsClosed == closed

\* No value and no skip: Closed, Empty or TimedOut, or a wait.  A receiver that was
\* told Closed goes on to drop its end.
gives_none(r) ==
  /\ pc[r] = "none"
  /\ \/ IsClosed /\ Goto(r, "over") /\ Ends(r)
     \/ ~IsClosed /\ (mode = "try" \/ (mode = "recv" /\ r \in Timed)) /\ Goto(r, "idle") /\ Ends(r)
     \/ ~IsClosed /\ mode # "try" /\ Goto(r, "count") /\ Keeps
  /\ told' = (told \/ IsClosed)
  /\ UNCHANGED <<words, ring, cancelled, freed, out, back, dropped>>

-----------------------------------------------------------------------------
\* The clone and the drop of an end

clone(s, t) ==
  /\ pc[s] = "idle" /\ pc[t] = "unborn"
  /\ pc' = [pc EXCEPT ![s] = "cloning", ![t] = "newborn"]
  /\ words' = [words EXCEPT !.SENDERS = @ + 1]
  /\ UNCHANGED <<then, ring, news, num, closed, mode, cancelled, freed, history>>

CountEnd_mutant == words
CountEnd == [words EXCEPT !.ENDS = @ + 1]

clone_end(s, t) ==
  /\ pc[s] = "cloning" /\ pc[t] = "newborn"
  /\ pc' = [pc EXCEPT ![s] = "idle", ![t] = "idle"]
  /\ words' = CountEnd
  /\ UNCHANGED <<then, ring, news, num, closed, mode, cancelled, freed, history>>

drop_sender(s) ==
  /\ pc[s] = "idle"
  /\ words' = [words EXCEPT !.SENDERS = @ - 1]
  /\ IF words.SENDERS = 1 THEN Notify(s, "release") ELSE Goto(s, "release")
  /\ UNCHANGED <<ring, news, num, closed, mode, cancelled, freed, history>>

drop_receiver(r) ==
  /\ pc[r] \in {"idle", "over"} /\ Notify(r, "release")
  /\ words' = [words EXCEPT !.RECEIVER = 0]
  /\ UNCHANGED <<ring, news, num, closed, mode, cancelled, freed, history>>

Left_mutant == {}
Left == {k \in words.RECVS..(words.SENDS - 1) : slot[k % cap] = 2 * k + 1}

release(t) ==
  /\ pc[t] = "release" /\ Goto(t, "gone")
  /\ words' = [words EXCEPT !.ENDS = @ - 1]
  /\ \/ words.ENDS # 1 /\ UNCHANGED <<skips, dropped, freed>>
     \/ /\ words.ENDS = 1
        /\ dropped' = {data[k % cap] : k \in Left}
        /\ skips' = IF words.SKIPS > 0 THEN {} ELSE skips
        /\ freed' = TRUE
  /\ UNCHANGED <<slot, data, news, num, closed, mode, cancelled, out, back, told>>

-----------------------------------------------------------------------------
Step(t) ==
  \/ notify(t) \/ load_sleepers(t) \/ wake_all(t) \/ notify_any(t) \/ load_selects(t)
  \/ wake_any(t) \/ load_wake(t) \/ count_sleeper(t)
  \/ wait_while_until(t) \/ uncount_sleeper(t) \/ release(t)

Send(s) ==
  \/ load_receiver(s) \/ load_slot(s) \/ write_value(s) \/ store_full(s)
  \/ check_limits(s) \/ vx_channel_skip(s) \/ count_skip(s)
  \/ \E t \in Senders : clone_end(s, t)

Receive(r) ==
  \/ load_cancelled(r) \/ load_senders(r) \/ load_full(r) \/ take_slot(r) \/ store_taken(r)
  \/ load_skips(r) \/ vx_channel_take_skip(r) \/ pass_number(r) \/ pass_slot(r) \/ gives_none(r)

SendEnd(s) == take_number(s) \/ drop_sender(s) \/ \E t \in Senders : clone(s, t)
ReceiveEnd(r) == recv(r) \/ try_recv(r) \/ select(r) \/ drop_receiver(r)

Finished == freed /\ UNCHANGED vars

Next ==
  \/ \E t \in Tasks : Step(t) \/ wait_ends_early(t) \/ cancel(t)
  \/ \E s \in Senders : Send(s) \/ SendEnd(s)
  \/ Receive(Receiver) \/ ReceiveEnd(Receiver)
  \/ Finished

Spec == Init /\ [][Next]_vars

\* The OS runs each task, and a task goes on to use its end until it drops it.  A receiver
\* whose block is cancelled does not ask again for ever.
Fairness ==
  /\ SF_vars(Receiver \in cancelled /\ drop_receiver(Receiver))
  /\ \A t \in Tasks : WF_vars(Step(t))
  /\ \A s \in Senders : WF_vars(Send(s)) /\ WF_vars(SendEnd(s))
  /\ WF_vars(Receive(Receiver)) /\ WF_vars(ReceiveEnd(Receiver))

FairSpec == Spec /\ Fairness

-----------------------------------------------------------------------------
Places ==
  {"unborn", "newborn", "idle", "cloning", "release", "gone", "over",
   "notify", "sleepers", "wake_all", "any", "selects", "wake_any", "wake", "count", "wait", "asleep", "uncount",
   "receiver", "slot", "write", "full", "check", "skip", "skipped",
   "cancelled", "senders", "slot_of_recv", "take", "taken", "skips", "take_skip", "pass", "passed", "none"}

TypeOK ==
  /\ words \in [SENDS : Nat, RECVS : Nat, SENDERS : Nat, RECEIVER : {0, 1}, ENDS : Nat,
                SLEEPERS : Nat, SKIPS : Int, SELECTS : Nat]
  /\ slot \in [Slots -> Nat] /\ data \in [Slots -> Numbers \cup {None}] /\ skips \subseteq Numbers
  /\ news \in [Tasks -> BOOLEAN]
  /\ pc \in [Tasks -> Places] /\ then \in [Tasks -> {"idle", "release", "wake", "senders"}]
  /\ num \in [Tasks -> Nat]
  /\ closed \in BOOLEAN /\ mode \in {"recv", "try", "select"}
  /\ cancelled \subseteq Cancels /\ freed \in BOOLEAN
  /\ out \in Seq(Numbers) /\ back \subseteq Numbers /\ dropped \subseteq Numbers /\ told \in BOOLEAN

\* The places from which a send still has its value.
Sending == {"wake", "receiver", "slot", "write", "full", "check", "skip", "skipped",
            "count", "wait", "asleep", "uncount"}
PlacesOf(v) ==
  {<<"send", s>> : s \in {u \in Senders : pc[u] \in Sending /\ num[u] = v}}
    \cup {<<"slot", i>> : i \in {j \in Slots : slot[j] = 2 * v + 1 /\ v >= words.RECVS /\ ~freed}}
    \cup {<<"received", i>> : i \in {j \in 1..Len(out) : out[j] = v}}
    \cup {<<"back", k>> : k \in back \cap {v}} \cup {<<"dropped", k>> : k \in dropped \cap {v}}

\* The state has its type, and a value is in one place: with its send, in its slot, received, given back or dropped.
\* So the ring neither copies nor loses a value, whatever is cancelled or dropped.
EachValueIsInOnePlace ==
  TypeOK /\ \A v \in 0..(words.SENDS - 1) : \E p \in PlacesOf(v) : PlacesOf(v) = {p}

\* A receive gives Closed only when no value is left and none can come.
ClosedIsTheEnd ==
  told => words.SENDERS = 0 /\ \A v \in 0..(words.SENDS - 1) : v \in back \/ \E i \in 1..Len(out) : out[i] = v

\* The last end frees the channel: no other task has an end then.
FreedByTheLastEnd == freed => \A t \in Tasks : pc[t] \in {"unborn", "gone"}

\* Whether the loop of a waiter would end its wait.
CanGoOn(t) ==
  \/ t \in Senders /\ (words.RECEIVER = 0 \/ IsMyTurn(t))
  \/ t = Receiver /\ \/ words.SENDERS = 0
                     \/ slot[SlotOf(t)] = 2 * num[t] + 1
                     \/ num[t] \in skips /\ words.SKIPS > 0

\* No wake is lost: a task that sleeps while its wait is over has a notify on its way, to WAKE
\* or, for a select, to the word that all channels share.
NoLostWake ==
  \A t \in Tasks : pc[t] = "asleep" /\ CanGoOn(t) =>
    \E u \in Tasks :
      \/ pc[u] \in {"skipped", "notify"}
      \/ ~Selects(t) /\ (pc[u] = "wake_all" \/ (pc[u] = "sleepers" /\ HasSleeper))
      \/ Selects(t) /\ \/ pc[u] \in {"sleepers", "wake_all", "any", "wake_any"}
                       \/ pc[u] = "selects" /\ HasSelect

\* The line of ChannelPromise: the numbers from RECVS to SENDS.
StatusOf(k) ==
  CASE slot[k % cap] = 2 * k + 1 -> data[k % cap]
    [] k \in skips \/ (pc[Receiver] = "pass" /\ num[Receiver] = k) -> GivenUp
    [] OTHER -> Open

Promise == INSTANCE ChannelPromise
  WITH room <- cap, Values <- Numbers,
       line <- IF freed THEN <<>>
               ELSE [i \in 1..(words.SENDS - words.RECVS) |-> StatusOf(words.RECVS + i - 1)],
       received <- out

KeepsThePromise == Promise!LineSpec

\* Every send, receive and drop ends, and the channel is freed.
ChannelIsFreed == <>freed
=============================================================================
