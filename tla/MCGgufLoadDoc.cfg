CONSTANTS
  Values <- AllValues
  Files <- AllFiles
  BlockElems = 2
  BlockBytes = 3
  FloatBytes = 4
  DefaultAlignment = 32
  DefaultHeads = 2
  U64 = 65536
  Open = "<"
  Close = ">"
SPECIFICATION Spec
INVARIANTS
  F32Complete
CHECK_DEADLOCK FALSE
