CONSTANTS
  Ids = {1, 2, 3, 4, 5, 6, 7, 8}
  BBs = {"b1", "b2", "b3", "b4"}
  Rpo <- RpoBlocks
  Tree <- TreeOfRpo
  Programs <- AllPrograms
  Source <- SourceOf
  Orders <- TwoOrders
SPECIFICATION RunSpec
INVARIANTS
  MeaningKept
  ChainsKept
  DefinedOnSafe
  RemovedChecksCovered
CHECK_DEADLOCK FALSE
