\* A message that asks for a human, and one before or after it.
SPECIFICATION Spec
CONSTANTS
  e1 = e1
  e2 = e2
  h1 = h1
  admin = admin
  Handoffs = {h1}
  Unattended = {}
  Requesters = {e1, e2, admin}
  Events = {e1, e2}
  HumanRequests = {}
  MaxRevision = 1
  MaxSequence = 0
  ProviderResults = {"accepted"}
  Callbacks = {}
INVARIANT OneAttemptPerMessage
PROPERTY TakeoverSpec
CHECK_DEADLOCK FALSE
