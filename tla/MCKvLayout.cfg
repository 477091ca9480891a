CONSTANTS
  Requests = {r1, r2, r3}
  SeqIdOf <- DistinctIds
  Sizes <- GrowingSizes
  TotalPages = 5
  PageTokens = 2
  MaxBatch = 2
  NumLayers = 2
  r1 = r1
  r2 = r2
  r3 = r3
  Shapes <- AnyShape
  CacheLine = 16
SPECIFICATION LayoutSpec
SYMMETRY Symmetry
INVARIANTS
  KvTypeOK
  TasksDisjoint
  RecentKvIntact
  StoresKept
  MultiHeadReads
