SPECIFICATION MCSpec
CONSTANTS
  Families = {"graphs", "uses", "finds", "bodies"}
INVARIANTS
  LoadedInOrder
  CyclesAreLoud
  NamesBind
  KindsAreOrderFree
