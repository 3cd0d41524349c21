SPECIFICATION FairSpec
CONSTANTS
  NPROC = 2
  NCPU = 1
  MaxPid = 3
  TickMod = 2
  Naps = {1}
  Calls <- AllCalls
PROPERTIES
  RunnableRuns
  KilledExits
