SPECIFICATION FairSpec
CONSTANTS
  Tasks = {t1, t2, t3}
  MaxTickets = 5
INVARIANTS
  MutualExclusion
PROPERTIES
  FirstComeFirstServed
  EachLockIsServed
