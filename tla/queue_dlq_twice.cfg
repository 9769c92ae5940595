\* An operator retries a dead letter that then fails again.
SPECIFICATION Spec
CONSTANTS
  j1 = j1
  j2 = j2
  d1 = d1
  d2 = d2
  w1 = w1
  w2 = w2
  c1 = c1
  Nobody = Nobody
  Jobs <- OneJob
  Dispatchers = {d1}
  Workers = {w1}
  Conversations = {c1}
  ConversationOf <- OneConversation
  HeldJobs <- NoJobs
  DefaultMaxAttempts = 1
  MaxDeferrals = 0
  MaxReopens = 1
  Faults <- NoFaults
PROPERTY DeadLetterInspectable
CHECK_DEADLOCK FALSE
