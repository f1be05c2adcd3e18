\* Four flows over two namespaces; a device that may be running at the start,
\* may grant fewer queues or more, fail admin commands or break down, and may
\* have too few vectors; no eventfd for the last queue.  With a queue that could
\* not be created, or that one, the program does stop for ever, so deadlock is
\* HostEnds's.
SPECIFICATION HostFairSpec
CONSTANTS
  Flash <- MCFlash
  Namespaces <- MCNamespaces
  Flows <- MCFlows
  U32 = 65536
  Grants = {1, 2, 3, 4, 5}
  MayFail = TRUE
  NrVectors = 4
  Room = 2
  IrqCounts <- MCIrqCounts
  None = None
INVARIANTS AdminReaches HandlerHasDriver CommandsInside
PROPERTIES ImplementsIrqLines EveryIoCompletes HostEnds
CHECK_DEADLOCK FALSE
