SPECIFICATION FairSpec
CONSTANTS
  Main = main
  Tasks = {t1, t2}
  NoTask = none
  MaxId = 2
  InitialWorkers = 2
  EnvWorkers = {1}
  MaxWorkers = 2
INVARIANTS
  BridgeGaugeIsExact
PROPERTIES
  ImplementsTaskPool
  RunAlwaysReturns
  AwaitAlwaysAnswers
