CONSTANTS
  Paths = {1, 2, 3}
  Evidence = {1, 2}
  Sessions = {s1, s2}
  MaxEdits = 1
  MaxFaults = 1
  RaceEdits = FALSE
SYMMETRY SessionSymmetry
SPECIFICATION Spec
INVARIANTS
  TypeOK
  DigestDependsOnOrder
PROPERTIES
  CommitMatchesCheckpoint
