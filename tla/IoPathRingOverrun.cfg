\* A workload that keeps as many requests outstanding as the ring has entries.
SPECIFICATION FairSpec
CONSTANTS
  Threads = {t1}
  QueueDepth = 2
  RequestCount = 3
  Avg = 2
  Depth = 2
  U16 = 4
  Posted = FALSE
  NoCmd = NoCmd
  None = None

PROPERTIES EveryThreadFinishes
