SPECIFICATION Spec
CONSTANTS
  Main = main
  Tasks = {t1, t2, t3}
  NoTask = none
  MaxId = 2
  InitialWorkers = 2
  EnvWorkers <- Fixed
  MaxWorkers = 2
SYMMETRY ThreadSymmetry
INVARIANTS
  LiveGaugeIsExact
  PoolIsSized
  HandleIsInOnePlace
  ExitZeroIsClean
PROPERTIES
  ImplementsTaskPool
