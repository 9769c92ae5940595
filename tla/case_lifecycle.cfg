\* One incident with two messages, a report, an officer, and a second case
\* after the first; every deadline falls inside the clock.
SPECIFICATION FairSpec
CONSTANTS
  m1 = m1
  m2 = m2
  r1 = r1
  officer = officer
  Messages = {m1, m2}
  Required = {m1}
  Reports = {r1}
  Officers = {officer}
  Decisions = {"IN_PROGRESS", "RESOLVED", "CANCELLED"}
  CloseAfter = 2
  Approaching = 1
  Target = 2
  MaxCases = 2
  MaxRevision = 4
  MaxTime = 3
INVARIANTS ConstraintsHold NoFactLost
PROPERTIES DecidedAsSeen HistoryStands TimersAct
CHECK_DEADLOCK FALSE
