\* After an emergency stop nothing is left to do.
CHECK_DEADLOCK FALSE
CONSTANTS
  Sessions = {s1}
  Loops = {l1}
  Leases = {1}
  MaxIterations = 1
  MaxFaults = 0
  NoSession = NoSession
  NoLoop = NoLoop
SPECIFICATION Spec
INVARIANTS
  CanceledIsHalted
