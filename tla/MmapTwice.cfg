SPECIFICATION Spec
CONSTANTS
  PGSIZE = 2
  MIN_ADDR = 20
  NoPage = NoPage
  None = None
  InitProc = init
  Offered <- Lowest
  MAX_ADDR = 30
  Procs = {p1}
  Pages = {1, 2, 3, 4, 5, 6, 7, 8}
  MaxImages = 5
  NPT = 3
  Addrs <- VPages
  Lens = {2}
  Prots = {"rw"}
  Touched <- VPages
  FlagSets <- AnywhereFlags
INVARIANT NeverEncroaches
