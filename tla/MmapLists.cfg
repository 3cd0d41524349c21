SPECIFICATION FairSpec
CONSTANTS
  PGSIZE = 2
  MIN_ADDR = 20
  NoPage = NoPage
  None = None
  InitProc = init
  Offered <- Lowest
  MAX_ADDR = 28
  Procs = {p1, p2}
  Pages = {1, 2, 3, 4, 5}
  MaxImages = 3
  NPT = 3
  Addrs <- VPages
  Lens = {2, 3}
  Prots = {"rw"}
  Touched <- PageEnds
  FlagSets <- ListFlags
INVARIANTS TypeOK ListSorted ListIsMemory GuardIsNext
PROPERTIES FaultResolves PrivatePages
