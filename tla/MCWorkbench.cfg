\* Three runs in two workspaces, two stores of two artifacts beside a remote one, two
\* workers after one approval.
CONSTANTS
  w1 = w1  w2 = w2
  r1 = r1  r2 = r2  r3 = r3  r4 = r4
  u1 = u1
  a1 = a1  a2 = a2  b1 = b1
  Workspaces = {w1, w2}
  Runs = {r1, r2, r3}
  Home <- MCHome
  UsageEvents = {u1}
  UsageRun <- MCUsageRun
  UsageTokens <- MCUsageTokens
  UsageCompute <- MCUsageCompute
  Seqs = {1}
  StepSeqs = {1}
  UserConcurrent = 2
  WorkspaceConcurrent = 2
  MonthlyTokens = 1
  MonthlyCompute = 1
  RunWall = 2
  RunMaxEvents = 1
  RunMaxSteps = 1
  Lease = 1
  MonthLength = 1
  MaxTime = 2
  Skew = 1
  Stores = {s1, s2}
  Artifacts = {a1, a2}
  Remote = {b1}
  ArtifactRun <- MCArtifactRun
  Size <- MCSize
  ArtifactTotal = 2
  ArtifactSingle = 2
  StorageBytes = 3
  MaxFaults = 1
  Owners = {o1, o2}
  Executors = {e1, e2}
  Hashes = {h1, h2}
  ArgsHash = h1
  NoExecutor = NoExecutor
SPECIFICATION Spec
CHECK_DEADLOCK FALSE
SYMMETRY Symmetry
INVARIANTS
  RunsInv
  ArtifactsInv
  ApprovalsInv
PROPERTIES
  ReleaseFinal
