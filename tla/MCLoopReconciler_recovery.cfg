CONSTANTS
  Syncers = {p1, p2}
  MaxCycles = 1
  MaxFaults = 1
  Revocations = {"kill"}
  HumanActs = {}
  LateContent = 0
  LateGit = {"commit"}
SPECIFICATION FairSpec
INVARIANTS
  PromotionInvariant
  PushIsRecorded
  CommitIsVerified
PROPERTIES
  RecoverySettles
  KillQuiesces
