\* One action, two workers with duplicate deliveries, deaths and lost locks, a
\* route that changes and returns, a conversation taken over and given back.
SPECIFICATION FairSpec
CONSTANTS
  a1 = a1
  w1 = w1
  w2 = w2
  open = open
  closed = closed
  Actions = {a1}
  ConfirmationRequired = {a1}
  Workers = {w1, w2}
  Configurations = {open, closed}
  Enabled = {open}
  MaxRevision = 3
  MaxVersion = 4
  MaxFaults = 1
INVARIANTS VerdictsAgree WrittenAtMostOnce OutcomeTruthful AnswerNotLost
PROPERTIES TerminalIsFinal DecisionAnswered
