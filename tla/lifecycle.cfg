SPECIFICATION Spec
CONSTANTS
  NumRobots = 2
  BusCapacity = 2
  Clients = {c1}
  MaxStopFailures = 1
CHECK_DEADLOCK FALSE
INVARIANTS
  RunsOnWhatRuns
  NothingLeftBehind
PROPERTIES
  StartupAndShutdownEnd
