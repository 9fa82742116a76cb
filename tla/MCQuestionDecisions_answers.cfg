CONSTANTS
  Questions = {q1, q2}
  Contents <- MCContents
  Answers = {x, y}
  Humans = {h1, h2}
  Choices <- MCChoices
  None = None
  MaxFaults = 1
SYMMETRY HumanSymmetry
SPECIFICATION Spec
INVARIANTS
  TypeOK
  AcknowledgedAnswer
PROPERTIES
  ImplementsDecisions
