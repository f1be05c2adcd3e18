\* Two threads with two commands each, waited for or with a callback.
SPECIFICATION FairSpec
CONSTANTS
  Clients = {c1, c2}
  Calls = 2
  U16 = 4
  None = None
INVARIANTS NoUseAfterFree OwnResult TableEmptied
PROPERTIES EveryCallReturns
