CONSTANTS
  Threads = {t1, t2}
  TotalPages = 3
  WordBits = 2
SPECIFICATION CFairSpec
INVARIANTS
  TypeOK
  ExclusivePages
  NoneMeansEachTaken
  NoneMeansExhausted
PROPERTIES
  AllocatorSpec
  LockFree
