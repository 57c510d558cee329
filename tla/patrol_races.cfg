SPECIFICATION Spec
CONSTANTS
  Robots = {r1, r2}
  MaxCycles = 2
  MaxFailures = 2
  Requests = {q1}
  BusCapacity = 2
  Disturbances = {"trigger", "fault", "database", "estop", "battery"}
SYMMETRY RobotSymmetry
INVARIANTS
  OneRobotPerCycle
  OneScheduledCycleOpen
  LastAnswerHolds
  FailureLimitHolds
PROPERTIES
  ImplementsPatrolOrder
