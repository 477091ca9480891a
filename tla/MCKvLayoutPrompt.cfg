CONSTANTS
  Requests = {r1, r2}
  SeqIdOf <- DistinctIds
  Sizes <- GrowingSizes
  TotalPages = 4
  PageTokens = 2
  MaxBatch = 2
  NumLayers = 1
  r1 = r1
  r2 = r2
  Shapes <- OneShape
  CacheLine = 16
SPECIFICATION LayoutSpec
SYMMETRY Symmetry
INVARIANTS
  PromptKvValid
