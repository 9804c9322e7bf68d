SPECIFICATION DemoSpec
CONSTANTS
  MemSize = 2
  Lengths = {1, 2}
  MaxMoves = 6
PROPERTY IndexIsGlobal
CHECK_DEADLOCK FALSE
