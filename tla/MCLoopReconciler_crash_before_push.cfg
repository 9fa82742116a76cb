CONSTANTS
  Syncers = {p1}
  MaxCycles = 0
  MaxFaults = 2
  Revocations = {}
  HumanActs = {"sync"}
  LateContent = 0
  LateGit = {}
SPECIFICATION Spec
INVARIANTS
  AlreadyPromotedIsPushed
