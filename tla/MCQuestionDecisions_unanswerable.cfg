CONSTANTS
  Questions = {q1}
  Contents <- MCContents
  Answers = {x}
  Humans = {h1}
  Choices <- MCChoices
  None = None
  MaxFaults = 0
SPECIFICATION Spec
INVARIANTS
  BlockedIsAnswerable
