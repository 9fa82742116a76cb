CONSTANTS
  Syncers = {p1, p2}
  MaxCycles = 2
  MaxFaults = 0
  Revocations = {}
  HumanActs = {"sync", "stop", "accept", "unblock"}
  LateContent = 0
  LateGit = {"commit"}
SYMMETRY SyncerSymmetry
SPECIFICATION Spec
INVARIANTS
  TypeOK
  InductiveInvariant
  VerifiedPromotion
  RemediationJustified
  PairStagedBeforeRelease
  AcceptanceNamesResult
  OnlyAcceptedIsPushed
PROPERTIES
  ImplementsContract
