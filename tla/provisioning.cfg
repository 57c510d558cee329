SPECIFICATION Spec
SYMMETRY Symmetry
CONSTANTS
  Robots = {r1, r2}
  Addresses = {a1, a2}
  Ids = {1, 2}
  Jobs = {j1, j2}
  MaxCalls = 3
  MaxLeaves = 1
INVARIANTS
  FileIsWellFormed
  FileHoldsWhatWasDone
  EntriesReachTheirRobots
