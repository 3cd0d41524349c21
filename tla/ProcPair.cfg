SPECIFICATION Spec
CONSTANTS
  NPROC = 2
  NCPU = 2
  MaxPid = 2
  TickMod = 2
  Naps = {1}
  Calls <- AllCalls
INVARIANTS
  OneCpu
  Interrupts
  IInv
  MemoryInUse
  NoLostWakeup
  KilledWoken
