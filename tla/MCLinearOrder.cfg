SPECIFICATION LSpec
CONSTANTS
  b0 = b0  b1 = b1  b2 = b2  b3 = b3
  Nodes = {b0, b1, b2, b3}
  Entry = b0
  NoNode = NoNode
  Graphs <- SimpleGraphs
  MadeOrders <- Forwards
  bb_ids <- Numbered
INVARIANTS
  LoopsFormATree
  RootHoldsTheRest
  BodyInNaturalLoop
  BackEdgesFiled
  SearchBounded
  EveryBlockOnce
  LoopInOnePiece
  InnersNeverEntered
