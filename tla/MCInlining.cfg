CONSTANTS
  None = None
  Caller = "main"
  kInlineInstrSize = 7
  Ids <- AllIds
  NewIds <- ToBeMade
  BBs <- AllBBs
  Funcs <- AllFuncs
  Programs <- AllPrograms
  Source <- SourceOf
SPECIFICATION Spec
INVARIANTS
  PathsKept
  LinksAgreeButForHeads
  DataFlowKept
CHECK_DEADLOCK FALSE
