SPECIFICATION FairSpec
CONSTANTS
  Faults = {"initRobot", "standUp", "check"}
  MaxEvents = 1
  NoCommand = NoCommand
INVARIANTS
  ShutdownLeavesNothingUnderWay
PROPERTIES
  RobotHalts
CHECK_DEADLOCK FALSE
