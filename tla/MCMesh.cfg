CONSTANTS
  Nodes = {n1, n2, n3}
  Ceos = {n1}
  Signallers = {n2}
  Discoverable <- Line
  Tasks = {t1}
  Bridges = {n3}
  BridgeMessages <- BridgedTasks
  MaxTyped <- Typing
  MaxBridged = 1
  MaxDrops = 1
  n1 = n1
  n2 = n2
  n3 = n3
  t1 = t1
SPECIFICATION FairSpec
INVARIANTS
  TypeOK
  RunsOnce
  OnlyUnpublishedStay
PROPERTIES
  ResolvedWasRun
  DispatchedReturns
CHECK_DEADLOCK FALSE
