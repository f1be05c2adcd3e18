\* One thread, queue depth 3, five requests kept outstanding of eight: three are
\* in flight and two wait.  Threads share nothing here, so one is enough.
SPECIFICATION FairSpec
CONSTANTS
  Threads = {t1}
  QueueDepth = 3
  RequestCount = 8
  Avg = 5
INVARIANTS
  InflightExact BufferHeldWhileOutstanding WorkConserving InOrderDispatch
  ClosedLoop
PROPERTIES EveryThreadFinishes
