SPECIFICATION Spec
CONSTANTS
  Main = main
  Tasks = {t}
  Names = {a, b}
  MaxId = 2
  MaxStrong = 2
SYMMETRY NameSymmetry
CHECK_DEADLOCK FALSE
INVARIANTS
  HeapIsSound
  CountIsHeld
