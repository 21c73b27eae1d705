SPECIFICATION FairSpec
CONSTANTS
  Threads = {m1}
  Conns = {c1, c2}
  Keys = {k}
  Handlers = {f, g}
  Nobody = nobody
  Unreadable = {"overcap", "malformed", "stalled"}
  Callers = {m1, c1}
  MaxServers = 1
  MaxRoutes = 2
CHECK_DEADLOCK FALSE
INVARIANTS
  GaugesAreExact
  AcceptedIsOwned
PROPERTIES
  ImplementsService
  ServeReturnsAfterShutdown
  AcceptedIsSettled
