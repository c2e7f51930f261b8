SPECIFICATION FairSpec
CONSTANTS
  Threads <- MCThreads
  Processes = {"p", "q"}
  Proc <- MCProc
  MaxCalls = 1
  MaxDeaths = 1
INVARIANTS
  WriterAlone
PROPERTIES
  Implements
  Served
CHECK_DEADLOCK FALSE
