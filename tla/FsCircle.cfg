SPECIFICATION Spec
CONSTANTS
  BSIZE = 2
  NDIRECT = 1
  NBLOCKS = 12
  NINODES = 5
  NINODE = 5
  Procs = {p1, p2}
  Script <- NoScript
  Calls <- LinkUnlink
  Writes = {2}
  Files <- Cat
  MaxCalls = 3
  None = None
INVARIANT NoDeadlock
