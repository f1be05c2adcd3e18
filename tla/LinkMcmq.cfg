\* Two register reads, two writes that may cause an interrupt, a report of three
\* bytes cut in any way, the stop; read ids wrap.
SPECIFICATION FairSpec
CONSTANTS
  Program <- MCProgram
  ResultSize = 3
  U32 = 2
  None = None
INVARIANTS ReadsRight ReportWhole NoIrqDropped
PROPERTIES RunCompletes
