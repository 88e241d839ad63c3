SPECIFICATION Spec
CONSTANTS
  b0 = b0  b1 = b1  b2 = b2  b3 = b3  b4 = b4  b5 = b5
  Nodes = {b0, b1, b2, b3, b4, b5}
  Entry = b0
  NoNode = NoNode
  Graphs <- Nests
  MadeOrders <- Forwards
  bb_ids <- Numbered
INVARIANTS InnermostLoop
