CONSTANTS
  b0 = b0
  b1 = b1
  b2 = b2
  b3 = b3
  b4 = b4
  Nodes = {b0, b1, b2, b3, b4}
  Entry = b0
  NoNode = NoNode
  Graphs <- AcyclicGraphs
  MadeOrders <- Forwards
  bb_ids <- IdsAcyclic
SPECIFICATION Spec
INVARIANTS
  DominatorsOnEveryPath
