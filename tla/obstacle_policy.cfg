SPECIFICATION FairObstacleSpec
CONSTANTS
  Robots = {r1}
  Waypoints = 2
  HoldAt = {1}
  RepeatLimit = 2
  BusCapacity = 2
  All = All
INVARIANTS
  RobotsStandWhenTheyMust
  DetectionHoldsUntilClear
PROPERTIES
  RepeatsNeedAHuman
  BlocksEnd
