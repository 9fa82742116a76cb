\* After an emergency stop nothing is left to do.
CHECK_DEADLOCK FALSE
CONSTANTS
  Sessions = {s1, s2}
  Loops = {l1, l2}
  Leases = {1, 2}
  MaxIterations = 1
  MaxFaults = 1
  NoSession = NoSession
  NoLoop = NoLoop
SYMMETRY DispatchSymmetry
SPECIFICATION Spec
INVARIANTS
  TypeOK
  LoopsWithinLease
  ReleasedIsBound
