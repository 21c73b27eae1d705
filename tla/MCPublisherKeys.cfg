SPECIFICATION Spec
CONSTANTS
  x = x
  y = y
  k1 = k1
  k2 = k2
  Procs = {p, q}
  Packages = {1, 2}
  Contents = {x, y}
  PubKeys = {k1, k2}
  Nothing = nothing
  Torn = torn
  Pins = {k1}
  Signed <- MCSigned
  MaxMoves = 1
  MaxRuns = 2
  MaxCrashes = 1
  Rotating = {TRUE, FALSE}
CHECK_DEADLOCK FALSE
INVARIANTS
  StoredIsSigned
  LockedIsStored
PROPERTIES
  RotationIsExplicit
