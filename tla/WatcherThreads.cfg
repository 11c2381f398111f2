SPECIFICATION FairWatchSpec
CONSTANTS
  t1 = t1
  t2 = t2
  main = main
  x = x
  y = y
  Nobody = Nobody
  Fibers = {}
  Threads = {main, t1, t2}
  Main = main
  Workers = {}
  StartWorkers = {}
  UserWords = {x, y}
  BUCKETS = 2
  BucketOf <- MCBucketOf
  Programs <- MCPrograms
INVARIANT
  NoFalseReport
PROPERTY
  DeadlockIsReported
