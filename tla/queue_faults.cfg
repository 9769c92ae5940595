\* One job, every fault the code may meet, two dispatchers and two workers.
SPECIFICATION Spec
CONSTANTS
  j1 = j1
  j2 = j2
  d1 = d1
  d2 = d2
  w1 = w1
  w2 = w2
  c1 = c1
  Nobody = Nobody
  Jobs <- OneJob
  Dispatchers = {d1, d2}
  Workers = {w1, w2}
  Conversations = {c1}
  ConversationOf <- OneConversation
  HeldJobs <- OneJob
  DefaultMaxAttempts = 3
  MaxDeferrals = 2
  MaxReopens = 1
  Faults <- AllFaults
SYMMETRY PoolSymmetry
INVARIANTS SingleFlight AttemptLedger RetryBudget
PROPERTY ContractSpec
CHECK_DEADLOCK FALSE
