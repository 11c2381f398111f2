CONSTANTS Threads = {t1, t2}
          Addrs = {a1, a2, a3}
          Sizes = {1, 2}
          Memory = 3
          Capacity = 2
SPECIFICATION Spec
INVARIANTS OnePlace RecordsAreTrue
