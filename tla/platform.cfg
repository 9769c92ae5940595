SPECIFICATION MCSpec
CONSTANTS
  i1 = i1
  i2 = i2
  f1 = f1
  f2 = f2
  d1 = d1
  x1 = x1
  p1 = p1
  p2 = p2
  b1 = b1
  zero = zero
  nobody = nobody
  Ingestions = {i1, i2}
  Facts = {f1, f2}
  Documents = {d1}
  Extras = {x1}
  Contents <- TwoContents
  Pieces = {1, 2}
  Reviewers = {p1, p2}
  MaxVersions = 2
  MaxTries = 2
  Editors = {p1, p2}
  Builds = {b1}
  NoBuild = zero
  MaxAgents = 4
  MaxDecisions = 3
  MaxDeployments = 3
  Admins = {p1, p2}
  MaxAuthorizations = 3
  MaxSecrets = 4
  Runs = {p1, p2}
  Allocators = {p1, p2}
  Nobody = nobody
  MaxConcurrent = 1
  MaxRate = 2
  MaxRetries = 0
  Thresholds = {2}
  MaxRequests = 2
  MaxRevision = 1
  MaxHours = 3
  Staff = {p1, p2}
  Clients = {i1, i2}
  MaxSignups = 3
  Messages = {i1, i2}
  Handlers = {p1, p2}
  Visits = {p1, p2}
  MaxAttempts = 2
  MaxSends = 2
INVARIANTS PlatformTypesOK ReviewConclusive EditsKept ReleasesSafe ConnectionsSafe SpendAccounted NumberTruthful EvidencePrivate ReviewProven
SYMMETRY Alike
CHECK_DEADLOCK FALSE
