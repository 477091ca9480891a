CONSTANTS
  Threads = {t1, t2, t3}
  TotalPages = 2
  WordBits = 1
  t1 = t1
  t2 = t2
  t3 = t3
SPECIFICATION CSpec
SYMMETRY Symmetry
INVARIANT
  NoneMeansExhausted
