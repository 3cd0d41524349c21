SPECIFICATION Spec
CONSTANTS
  BSIZE = 2
  NDIRECT = 1
  NBLOCKS = 13
  NINODES = 6
  NINODE = 4
  Procs = {p1, p2}
  Script <- Nested
  Calls <- FewCalls
  Writes = {2}
  Files <- OneFile
  MaxCalls = 6
  None = None
INVARIANTS RefsCounted BlocksOwned WriteThrough NamesLead NoContradiction
PROPERTY LinksCounted
SYMMETRY Sym
