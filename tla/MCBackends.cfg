SPECIFICATION Spec
CONSTANTS
  Fuel = 24
  MaxLocals = 1000
  Suite <- MCSuite
  Parting <- MCParting
  Misjudged <- MCMisjudged
  Breaking <- MCBreaking
  SameValue <- VmValuesEqual
CHECK_DEADLOCK FALSE
INVARIANTS
  AgreesWithInterp
  AcceptedIsSound
  LoweringKeepsRules
  RunsCleanly
PROPERTIES
  Halts
