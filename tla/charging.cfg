SPECIFICATION FairSpec
CONSTANTS
  Robots = {r1}
  First = r1
  Registered = FALSE
  Levels = {0, 1, 3}
  BusCapacity = 3
  Unnamed = Unnamed
INVARIANTS
  ChargingFollowsBattery
  PauseHasAReason
PROPERTIES
  RechargeEndsCharging
