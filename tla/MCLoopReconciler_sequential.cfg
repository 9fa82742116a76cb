CONSTANTS
  Syncers = {p1}
  MaxCycles = 1
  MaxFaults = 2
  Revocations = {"kill", "expired", "replaced", "profile"}
  HumanActs = {"sync", "stop", "accept"}
  LateContent = 1
  LateGit = {"commit", "push"}
SPECIFICATION Spec
INVARIANTS
  CallInvariant
  EvidenceBeforeGit
PROPERTIES
  CancelIsConfirmed
  CyclesNeverReturn
