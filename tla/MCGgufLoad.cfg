CONSTANTS
  Values <- AllValues
  Files <- EveryFile
  BlockElems = 2
  BlockBytes = 3
  FloatBytes = 4
  DefaultAlignment = 32
  DefaultHeads = 2
  U64 = 65536
  Open = "<"
  Close = ">"
SPECIFICATION Spec
INVARIANTS
  HeaderExact
  Q8Complete
  AsSentencePieceIfRuled
CHECK_DEADLOCK FALSE
