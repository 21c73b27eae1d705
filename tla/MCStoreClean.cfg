SPECIFICATION Spec
CONSTANTS
  Procs = {p1, p2}
  Cleaners = {p2}
  Keys = {k1}
  Files = {f1, f2}
  p1 = p1
  p2 = p2
  k1 = k1
  f1 = f1
  f2 = f2
  NoRecord = NoRecord
  MaxClock = 2
INVARIANTS
  FastPathIsSound
SYMMETRY FileSymmetry
