\* Two commands at a time, twice each, with buffers of one page, two, two and a
\* half, three and four pages: lists of two entries, the last of which is chained.
SPECIFICATION Spec
CONSTANTS
  Cmds = {c1, c2}
  Page = 2
  NrPages = 12
  Lens = {2, 4, 5, 6, 8}
  Calls = 2
  U16 = 65536
  None = None
SYMMETRY Symmetry
INVARIANTS TransferExact PagesPrivate PagesReturned
CHECK_DEADLOCK FALSE
