SPECIFICATION FairSpec
CONSTANTS
  Senders = {s1, s2}
  First = s1
  Receiver = r
  cap = 2
  MaxSends = 3
  Timed = {s2}
  Cancels = {r}
INVARIANTS
  EachValueIsInOnePlace
  ClosedIsTheEnd
  FreedByTheLastEnd
  NoLostWake
PROPERTIES
  KeepsThePromise
  ChannelIsFreed
