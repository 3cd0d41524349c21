SPECIFICATION Spec
CONSTANTS
  Procs = {p1, p2, p3}
  Bufs = {x, y}
  Blocks = {n1, n2, n3}
  Written = {n1, n2}
  Vals = {0, 1}
  None = None
  MaxPins = 1
SYMMETRY Sym
INVARIANTS Coherent PanicMeansFull SleepersHaveWakers
