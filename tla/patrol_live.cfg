SPECIFICATION WatchedSpec
CONSTANTS
  Robots = {r1, r2}
  MaxCycles = 2
  MaxFailures = 2
  Requests = {q1}
  BusCapacity = 1
  Disturbances = {"fault", "estop"}
  MaxCrashes = 1
PROPERTIES
  ActiveCyclesEnd
  ScheduledCyclesServed
  RequestsAnswered
  StallReported
