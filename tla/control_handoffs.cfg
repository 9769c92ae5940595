\* Two handoffs one after the other, requested concurrently, with replayed,
\* late and missing human events.
SPECIFICATION FairControlSpec
CONSTANTS
  h1 = h1
  h2 = h2
  r1 = r1
  r2 = r2
  Handoffs = {h1, h2}
  Unattended = {h1, h2}
  Requesters = {r1, r2}
  MaxRevision = 2
  MaxSequence = 2
INVARIANTS ControlMatchesHandoff
PROPERTIES HandoffNeverRevived DisabledAdmitsNoHandoff UnattendedHandoffEnds
