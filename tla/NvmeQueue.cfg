\* One queue behind the socket, two commands on a ring of three.
SPECIFICATION FairSpec
CONSTANTS
  Queues = {q1}
  Depth = 3
  Cmds = {c1, c2}
  NoCmd = NoCmd
  Limit = 2
  U16 = 8
  Posted = TRUE
INVARIANTS TypeOK NoCommandLost OnePlace PhaseExact CompletionIsLive
PROPERTIES EveryCommandCompletes
