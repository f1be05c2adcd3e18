\* A memory of more cells than a length in 32 bits counts, of which four or six
\* pages of two cells remain; blocks of zero to two pages and blocks that are not
\* whole pages; a hole table small enough to run full.
SPECIFICATION Spec
CONSTANTS
  Page = 2
  IovaBase = 2
  MapSize = 26
  NrHoles = 3
  Sizes = {0, 1, 2, 4}
  U32 = 16
INVARIANTS HolesMerged NoOverlap AlignedHoles
PROPERTIES ImplementsPageAllocator
CHECK_DEADLOCK FALSE
