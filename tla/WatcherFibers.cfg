SPECIFICATION FairWatchSpec
CONSTANTS
  t1 = t1
  t2 = t2
  main = main
  x = x
  y = y
  Nobody = Nobody
  Fibers = {t1, t2}
  Threads = {main}
  Main = main
  Workers = {w1, w2}
  StartWorkers = {w1}
  UserWords = {x, y}
  BUCKETS = 2
  BucketOf <- MCBucketOf
  Programs <- MCPrograms
INVARIANT
  TrueReportWithoutProgress
PROPERTY
  DeadlockIsReported
