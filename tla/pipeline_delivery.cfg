\* One message, which may ask for a human, with every provider result and
\* every order of delivery callbacks, and jobs that fail finitely often.
SPECIFICATION FairSpec
CONSTANTS
  e1 = e1
  e2 = e2
  h1 = h1
  admin = admin
  Handoffs = {h1}
  Unattended = {h1}
  Requesters = {e1}
  Events = {e1}
  HumanRequests = {e1}
  MaxRevision = 1
  MaxSequence = 0
  ProviderResults = {"accepted", "rejected", "uncertain"}
  Callbacks = {"SENT", "DELIVERED", "READ", "FAILED"}
INVARIANT DeliveryEvidenceWins
PROPERTY NoMessageForgotten
CHECK_DEADLOCK FALSE
