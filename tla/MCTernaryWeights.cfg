CONSTANTS
  Rows = 2
  ColsRaw = 3
  BlockSize = 2
  WordBits = 2
  Quants <- Ternary
  Deltas <- TwoScales
  Acts <- PowersOfTen
  Stray = 100000
SPECIFICATION ValidationSpec
INVARIANTS
  MasksExact
  RowsExact
  DensityExact
  ValidatorTellsStub
CHECK_DEADLOCK FALSE
