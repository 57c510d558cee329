SPECIFICATION FairWatchdogSpec
CONSTANTS
  Robots = {r1}
  First = r1
  Registered = TRUE
  Levels = {0, 3}
  BusCapacity = 2
  Unnamed = Unnamed
PROPERTIES
  LostRobotsTaskFails
  AlertsClear
