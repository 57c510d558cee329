SPECIFICATION Spec
CONSTANTS
  Robots = {r1, r2}
  FirstRobot = r1
  HoldRelease = {r1}
  Tasks = {t1, t2}
  RouteHolds <- TwoHolds
  BusCapacity = 2
  Disturbances = {"cancel", "watchdog", "fault", "crash", "stop", "pause"}
  NoTask = NoTask
  NoRobot = NoRobot
  NoEvent = NoEvent
SYMMETRY TaskSymmetry
INVARIANTS
  TasksTakenOnce
  ArrivalsNotOvercounted
  StoppedMeansStill
PROPERTIES
  HandlerMovesItsOwnTask
  ImplementsTransportOrder
CHECK_DEADLOCK FALSE
