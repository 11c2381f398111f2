--------------------------- MODULE ChannelPromise ---------------------------
(***************************************************************************)
(* What a channel with room for `room` values promises (the head comment   *)
(* of src/stdlib/std/sync/channel.vx): the sends get places in one line, a *)
(* value goes in only at one of the first `room` places, and the receives  *)
(* take the values from the head of the line and pass the places that a    *)
(* send gave up.                                                           *)
(***************************************************************************)
EXTENDS Naturals, Sequences

CONSTANTS room, Values, Open, GivenUp

VARIABLES
  line,      \* the places that no receive took: a value, Open or GivenUp
  received   \* the values that were received, in order

lineVars == <<line, received>>

LineInit == line = <<>> /\ received = <<>>

Join == line' = Append(line, Open) /\ UNCHANGED received

Put(i, v) ==
  /\ i <= room /\ line[i] = Open
  /\ line' = [line EXCEPT ![i] = v]
  /\ UNCHANGED received

GiveUp(i) ==
  /\ line[i] = Open
  /\ line' = [line EXCEPT ![i] = GivenUp]
  /\ UNCHANGED received

Receive ==
  /\ line # <<>> /\ Head(line) \in Values
  /\ line' = Tail(line)
  /\ received' = Append(received, Head(line))

Pass ==
  /\ line # <<>> /\ Head(line) = GivenUp
  /\ line' = Tail(line)
  /\ UNCHANGED received

\* The last end drops the values that are left.
Discard == line' = <<>> /\ UNCHANGED received

LineNext ==
  \/ Join \/ Receive \/ Pass \/ Discard
  \/ \E i \in 1..Len(line) : GiveUp(i) \/ \E v \in Values : Put(i, v)

LineSpec == LineInit /\ [][LineNext]_lineVars
=============================================================================
