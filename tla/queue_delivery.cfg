\* Two jobs in a batch, under the faults the ledger is reconciled for.
SPECIFICATION FairSpec
CONSTANTS
  j1 = j1
  j2 = j2
  d1 = d1
  d2 = d2
  w1 = w1
  w2 = w2
  c1 = c1
  Nobody = Nobody
  Jobs <- TwoJobs
  Dispatchers = {d1}
  Workers = {w1, w2}
  Conversations = {c1}
  ConversationOf <- OneConversation
  HeldJobs <- NoJobs
  DefaultMaxAttempts = 2
  MaxDeferrals = 0
  MaxReopens = 0
  Faults <- ReconciledFaults
INVARIANTS QueuedIsDeliverable ConversationSerialized
PROPERTIES EventuallySettled
CHECK_DEADLOCK FALSE
