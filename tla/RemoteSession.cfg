CONSTANTS Hosts = {h1, h2}
          NoHost = NoHost
          WorkerMax = 1
          Workers = {1}
          Me = 1
          Sizes = {1, 3}
          Buffers = {b1, b2}
          OffsetMask = 7
          MinGap = 1
          Capacity = 2
          MaxStaged = 2
          MaxRestarts = 1
SPECIFICATION FairSpec
INVARIANTS InStep HandlesFindTheirBuffers NoBufferLeaks DispatchLeavesNothing
           GapsHold StaleHandlesStayDead ResolveIsExact
PROPERTY MemoryComesBack
