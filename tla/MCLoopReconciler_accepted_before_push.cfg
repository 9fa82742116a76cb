CONSTANTS
  Syncers = {p1}
  MaxCycles = 0
  MaxFaults = 0
  Revocations = {}
  HumanActs = {"accept"}
  LateContent = 0
  LateGit = {}
SPECIFICATION Spec
INVARIANTS
  AcceptedIsPushed
