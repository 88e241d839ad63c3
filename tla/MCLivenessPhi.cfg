SPECIFICATION ASpec
CONSTANTS
  b0 = b0  b1 = b1  b2 = b2  b3 = b3
  k0 = k0  v0 = v0  w0 = w0  p0 = p0  t0 = t0  t1 = t1  t2 = t2  t3 = t3
  Nodes = {b0, b1, b2, b3}
  Ids = {k0, v0, w0, p0, t0, t1, t2, t3}
  Entry = b0
  NoNode = NoNode
  Graphs <- LectureGraph
  MadeOrders <- Forwards
  bb_ids <- LectureNumbered
  Programs <- LectureProgram
INVARIANTS PhiInputsCovered
