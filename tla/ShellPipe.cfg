SPECIFICATION Spec
CONSTANTS
  Procs = {"sh", "left", "right"}
  PIPESIZE = 2
  Word = 4
  INPUT_BUF = 2
  ConsWord = 4
  ConsStart = 3
  Chars = {"a"}
  COLS = 2
  ROWS = 1
  NOFILE = 5
  NFILE = 3
  BufSize = 2
  MaxKeys = 3
INVARIANTS FilesCounted NothingLost NoLostWakeup CursorOnScreen
PROPERTIES Arrives PipelineEnds
