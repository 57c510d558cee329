SPECIFICATION FairSpec
CONSTANTS
  Robots = {r1, r2}
  FirstRobot = r1
  HoldRelease = {r1}
  Tasks = {t1, t2}
  RouteHolds <- TwoHolds
  BusCapacity = 4
  Disturbances = {"cancel", "watchdog", "fault", "offline", "pause"}
  NoTask = NoTask
  NoRobot = NoRobot
  NoEvent = NoEvent
PROPERTIES
  EveryTaskEnds
  EveryRobotFreed
