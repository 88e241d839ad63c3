CONSTANTS
  Vals = {v1, v2, v3, v4}
  NoVal = NoVal
  RegsNum = 2
  Points <- Points4
SPECIFICATION Spec
INVARIANTS
  NoInterference
  RegistersAccounted
  SpillOnlyUnderPressure
PROPERTIES
  OnlyLiveValuesMove
  EveryValuePlaced
