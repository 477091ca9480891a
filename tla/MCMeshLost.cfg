CONSTANTS
  Nodes = {n1, n2}
  Ceos = {n1}
  Signallers = {}
  Discoverable <- Pair
  Tasks = {t1}
  Bridges = {}
  BridgeMessages <- BridgedTasks
  MaxTyped <- One
  MaxBridged = 0
  MaxDrops = 1
  n1 = n1
  n2 = n2
  n3 = n3
  t1 = t1
SPECIFICATION FairSpec
PROPERTIES
  LostTaskRetried
CHECK_DEADLOCK FALSE
