SPECIFICATION Spec
CONSTANTS
  a1 = a1
  a2 = a2
  a3 = a3
  a4 = a4
  c1 = c1
  c2 = c2
  Events = {a1, a2}
  Requests = {a3}
  Threaded = {a4}
  Clients = {c1, c2}
  Actors = {o1}
  MaxAlerts = 2
  Severity <- MCSeverity
  SystemAlerts = {a1, a2}
  About <- MCAbout
  Watching <- MCWatching
INVARIANTS
  ShownIsOnRecord
  AcknowledgementsStand
PROPERTIES
  EveryClientIsTold
CHECK_DEADLOCK FALSE
