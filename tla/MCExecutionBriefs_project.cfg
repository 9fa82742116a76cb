SPECIFICATION Spec
CONSTANTS
  p1 = p1
  p2 = p2
  w1 = w1
  w2 = w2
  s1 = s1
  s2 = s2
  b1 = b1
  Projects = {p1, p2}
  Workspaces = {w1, w2}
  Sessions = {s1, s2}
  Briefs = {b1}
  Commands = {"register", "use", "lease", "approve_lease", "verify", "simulate", "off", "stop", "brief", "approve", "revoke", "run", "loop"}
  LeaseTexts <- Unrestricted
  MaxEvents = 3
  NoProject = NoProject
  NoWorkspace = NoWorkspace
  NoFile = NoFile
  NoBrief = NoBrief
SYMMETRY Symmetric
CHECK_DEADLOCK FALSE
INVARIANTS TypeOK FileConsistent Isolated DecisionKept
PROPERTIES FollowsGraph RevocationHolds
