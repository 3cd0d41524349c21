SPECIFICATION Spec
CONSTANTS
  Procs = {p1, p2, p3}
  Blocks = {b1, b2, b3}
  Vals = {0, 1}
  Zero = 0
  NoVal = NoVal
  NoBlock = NoBlock
  MAXOPBLOCKS = 2
  OpBlocks = 1
  LOGSIZE = 4
  NLOG = 4
INVARIANTS IInv NoPanic SleepersMustWait
PROPERTY AtomicSpec
SYMMETRY Sym
