CONSTANTS
  b0 = b0
  b1 = b1
  b2 = b2
  b3 = b3
  b4 = b4
  Nodes = {b0, b1, b2, b3}
  Entry = b0
  NoNode = NoNode
  Graphs <- Graphs34
  MadeOrders <- BothWays
  bb_ids <- Ids34
SPECIFICATION Spec
INVARIANTS
  StackIsGreyPath
  VisitsReachable
  SameAsRecursion
  ReversePostorder
  ForestLeadsUp
  SemidominatorsEarlyEnough
  SpanningTree
PROPERTIES
  EndsAsItShould
