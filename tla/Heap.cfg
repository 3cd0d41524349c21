SPECIFICATION Spec
CONSTANTS
  p1 = p1
  p2 = p2
  Procs <- TwoProcs
  First = p1
  PGSIZE = 4
  KERNBASE = 32
  Word = 64
  NPT = 4
  IntSize = 2
  NPAGES = 15
  Deltas <- SomeDeltas
  Images <- SomeImages
  ArgLens = {1, 5}
  MaxCalls = 2
  MaxOps = 4
  MINCORE = 6
  Requests = {2, 7}
  Sizes <- SomeSizes
INVARIANTS PagesOwned MappedBelowSz AcceptedMapped HeapTiles ListSorted
