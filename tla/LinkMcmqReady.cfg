\* The start of the program up to wait_for_device_ready.
SPECIFICATION FairSpec
CONSTANTS
  Program <- MCProgram
  ResultSize = 1
  U32 = 2
  None = None
PROPERTIES StartCompletes
