\* Two threads with a queue each, one receive thread, one command table.
SPECIFICATION FairSpec
CONSTANTS
  Threads = {t1, t2}
  QueueDepth = 2
  RequestCount = 2
  Avg = 1
  Depth = 2
  U16 = 4
  Posted = FALSE
  NoCmd = NoCmd
  None = None
INVARIANTS RightCallback CommandMapExact
PROPERTIES ImplementsIOThread ImplementsNvmeQueue EveryThreadFinishes
