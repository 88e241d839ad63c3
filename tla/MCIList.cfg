CONSTANTS
  Nodes = {n1, n2, n3, n4}
  Lists = {l1, l2}
  Null = Null
SPECIFICATION Spec
INVARIANTS
  TypeOK
  LinksInverse
  EveryNodeOnce
  EraseIteratorValid
PROPERTIES
  EraseTerminates
  ImplementsListSpec
