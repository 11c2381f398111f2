SPECIFICATION Spec
CONSTANTS
  t1 = t1
  t2 = t2
  s = s
  Tasks = {t1, t2}
  Sockets = {s}
  On <- MCOn
  Cancels = {t1}
  Programs <- MCPrograms
INVARIANTS
  WordsOutliveTheirStores
  EachSleeperIsServed
  
