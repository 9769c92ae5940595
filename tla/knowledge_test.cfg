\* A page with one document of two batches, and one administrator.
SPECIFICATION KnowledgeSpec
CONSTANTS
  Ingestions = {i1}
  Facts = {}
  Documents = {d1}
  Extras = {}
  Contents = {{d1}}
  Pieces = {1, 2}
  Reviewers = {a1}
  MaxVersions = 1
  MaxTries = 2
INVARIANT TestIsEmbedded
CHECK_DEADLOCK FALSE
