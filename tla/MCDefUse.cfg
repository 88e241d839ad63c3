CONSTANTS
  Instrs = {i1, i2, i3, i4}
  MaxInputs = 2
SPECIFICATION Spec
SYMMETRY Symmetry
INVARIANTS
  TypeOK
  UsersMatchInputs
  NoDangling
PROPERTIES
  ImplementsOperandSpec
CHECK_DEADLOCK FALSE
