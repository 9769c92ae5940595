------------------------- MODULE CaseLifecycle_proofs -------------------------
(***************************************************************************)
(* What the cases of an incident guarantee for any number of messages,     *)
(* reports and officers and any policy.  An intake is prepared on one      *)
(* revision of a case and applied later, an officer reads a case and       *)
(* decides on it later; the inductive invariant dates both by the revision *)
(* that was read.                                                          *)
(***************************************************************************)
EXTENDS CaseLifecycle, FiniteSetTheorems, TLAPS

--------------------------------------------------------------------------------
\* ConstraintsHold, NoFactLost, DecidedAsSeen and HistoryStands.

\* The parameters of a confirmed intake action, or of one that was refused.
Intakes ==
  [state: {"prepared", "refused"}, facts: SUBSET Messages, expected: Nat, case: {0} \cup Ids]

\* What an officer remembers of a case.
Sightings == [status: Statuses, revision: Nat, facts: SUBSET Messages, case: Ids]

\* The types: the CHECK constraints of the case tables, and the rows 1 to created.
CaseShape ==
  /\ capability \in {"orders", "returns_claims"}
  /\ now \in 0 .. MaxTime
  /\ created \in 0 .. MaxCases
  /\ case \in [Ids -> Rows \cup {NoCase}]
  /\ \A c \in Ids : IF c <= created THEN case[c] \in Rows ELSE case[c] = NoCase
  /\ keys \in [Ids -> SUBSET Nat]
  /\ jobs \in [Ids -> SUBSET Nat]
  /\ \A c \in Ids : jobs[c] \subseteq keys[c] /\ (c > created => jobs[c] = {})
  /\ prepared \in [Messages -> Intakes \cup {NoIntake}]
  /\ seen \in [Officers -> Sightings \cup {NoCase}]
  /\ receipts \in [Operations -> 0 .. created]
  /\ effects \in [Operations -> Nat]

\* Two active cases of the incident are the same one.
OneActive == \A c, d \in Equivalent : c = d

\* A case is at its first revision or later, and near its target before it.
RowsSound ==
  \A c \in Ids : case[c] # NoCase =>
    case[c].revision # 0 /\ case[c].approachingAt <= case[c].targetAt

\* An operation without a receipt has had no effect.
FreshUnapplied == \A op \in Operations : Fresh(op) => effects[op] = 0

\* An intake that waits for its confirmation is of the revision it was built on: as
\* long as the case is still at that revision, it says all that the case says.  An
\* intake for a new case expects no revision.
IntakesBuiltOnRead ==
  capability = "returns_claims" =>
    \A m \in Messages : prepared[m].state = "prepared" =>
      LET p == prepared[m] IN
      /\ p.case = 0 => p.expected = 0
      /\ p.case # 0 =>
           /\ p.case <= created
           /\ p.expected <= case[p.case].revision
           /\ p.expected = case[p.case].revision => case[p.case].facts \subseteq p.facts

\* What has a receipt was prepared, and stays as it was confirmed.
ReceiptsOfPrepared == \A m \in Messages : receipts[m] # 0 => prepared[m].state = "prepared"

\* What an officer saw is what the case was at the revision that was read.
SightingsDated ==
  \A o \in Officers : seen[o] # NoCase =>
    LET s == seen[o] IN
    /\ s.case <= created
    /\ s.revision <= case[s.case].revision
    /\ s.revision = case[s.case].revision =>
         s.facts = case[s.case].facts /\ s.status = case[s.case].status

\* The inductive invariant of an incident.
CaseInv ==
  /\ CaseShape /\ RowsSound /\ OneActive
  /\ FreshUnapplied /\ IntakesBuiltOnRead /\ ReceiptsOfPrepared /\ NoFactLost
  /\ AlertTruthful /\ SightingsDated

\* The constants, as CaseLifecycle assumes them.
LEMMA CaseConstants ==
  /\ Required \subseteq Messages /\ Messages \cap Reports = {}
  /\ CloseAfter \in Nat /\ Approaching \in Nat /\ Target \in Nat
  /\ Approaching < Target
  /\ MaxCases \in Nat /\ MaxTime \in Nat
BY CaseAssumption

\* The statuses, and which of them are terminal.
LEMMA StatusFacts ==
  /\ "ABSENT" \notin Statuses /\ Terminal \subseteq Statuses /\ IntakeStates \subseteq Statuses
  /\ "CLOSED" \in Terminal /\ "RESOLVED" \notin Terminal /\ "RESOLVED" \in Statuses
  /\ IntakeStates \cap Terminal = {} /\ "REOPENED" \in Statuses /\ "OPEN" \in Statuses
  /\ "REOPENED" \notin Terminal
BY DEF Statuses, Terminal, IntakeStates

\* Transitions lead from statuses to statuses, and nowhere from a terminal one.
LEMMA TransitionFacts ==
  /\ \A s \in Statuses : Transitions[s] \subseteq Statuses
  /\ \A s \in Terminal : Transitions[s] = {}
  /\ "CLOSED" \in Transitions["RESOLVED"] /\ "REOPENED" \in Transitions["RESOLVED"]
<1>1. \A s \in Statuses : Transitions[s] \subseteq Statuses
  BY DEF Transitions, Statuses, Terminal, IntakeStates
<1>2. \A s \in Terminal : Transitions[s] = {}
  BY DEF Transitions, Statuses, Terminal
<1>3. "CLOSED" \in Transitions["RESOLVED"] /\ "REOPENED" \in Transitions["RESOLVED"]
  BY DEF Transitions, Statuses
<1> QED BY <1>1, <1>2, <1>3

\* What the columns of a case hold.
LEMMA RowFields ==
  ASSUME NEW row \in Rows
  PROVE  /\ row.status \in Statuses /\ row.revision \in Nat /\ row # NoCase
         /\ row.facts \in SUBSET Messages /\ row.sources \in SUBSET Messages
         /\ row.alert \in {"ON_TRACK", "APPROACHING_TARGET", "OVERDUE"}
         /\ row.approachingAt \in Nat /\ row.targetAt \in Nat /\ row.closeAt \in Nat
BY StatusFacts DEF Rows, NoCase

\* A case exists exactly if it has a row, and an active case has one.
LEMMA RowsOfCases ==
  ASSUME CaseShape
  PROVE  /\ \A c \in Ids : c <= created <=> case[c] # NoCase
         /\ \A c \in Ids : case[c] # NoCase <=> case[c] \in Rows
         /\ \A c \in Ids : case[c].status # "ABSENT" <=> case[c] \in Rows
         /\ \A c \in Equivalent : c \in Ids /\ case[c] \in Rows /\ case[c].status \notin Terminal
         /\ 1 .. created \subseteq Ids /\ created \in Nat
         /\ \A c \in Ids : c \in Nat /\ c # 0
         /\ now \in Nat
<1>0. created \in Nat /\ MaxCases \in Nat /\ now \in Nat /\ created <= MaxCases
  BY CaseConstants DEF CaseShape
<1>1. \A c \in Ids : c \in Nat /\ c # 0
  BY <1>0 DEF Ids
<1>2. 1 .. created \subseteq Ids
  BY <1>0 DEF Ids
<1>3. NoCase \notin Rows /\ NoCase.status = "ABSENT"
  BY RowFields DEF NoCase
<1>4. \A c \in Ids : case[c] \in Rows => case[c].status \in Statuses
  BY RowFields
<1>5. \A c \in Ids : c <= created <=> case[c] # NoCase
  BY <1>3 DEF CaseShape
<1>6. \A c \in Ids : case[c] # NoCase <=> case[c] \in Rows
  BY <1>3 DEF CaseShape
<1>7. \A c \in Ids : case[c].status # "ABSENT" <=> case[c] \in Rows
  BY <1>3, <1>4, <1>6, StatusFacts
<1>8. \A c \in Equivalent : c \in Ids /\ case[c] \in Rows /\ case[c].status \notin Terminal
  BY <1>7 DEF Equivalent
<1> QED BY <1>0, <1>1, <1>2, <1>5, <1>6, <1>7, <1>8

\* What a step may do to the row of a case: never go back in its revisions, forget a
\* fact or a source, change silently what the backoffice looks at, wake a terminal
\* case, close a resolution early, or raise an alert early.
Follows(c) ==
  /\ case'[c] \in Rows
  /\ case'[c].revision >= case[c].revision
  /\ case'[c].revision = case[c].revision =>
       case'[c].facts = case[c].facts /\ case'[c].status = case[c].status
  /\ case[c].facts \subseteq case'[c].facts
  /\ case[c].sources \subseteq case'[c].sources
  /\ case[c].status \in Terminal => case'[c] = case[c]
  /\ case[c].status = "RESOLVED" /\ case'[c].status = "CLOSED" => now >= case[c].closeAt
  /\ case'[c].alert # "ON_TRACK" => now' >= case'[c].approachingAt
  /\ case'[c].alert = "OVERDUE" => now' >= case'[c].targetAt
  /\ case'[c].approachingAt <= case'[c].targetAt

\* To leave it alone.
LEMMA SameFollows ==
  ASSUME CaseShape, RowsSound, AlertTruthful, NEW c \in Ids, case[c] \in Rows, case'[c] = case[c],
         now' \in Nat, now' >= now
  PROVE  Follows(c)
<1>1. /\ case[c].revision \in Nat /\ case[c].approachingAt \in Nat /\ case[c].targetAt \in Nat
      /\ case[c] # NoCase
  BY RowFields
<1>2. now \in Nat
  BY RowsOfCases
<1>3. /\ case[c].alert # "ON_TRACK" => now >= case[c].approachingAt
      /\ case[c].alert = "OVERDUE" => now >= case[c].targetAt
  BY <1>1 DEF AlertTruthful
<1>4. /\ case'[c].alert # "ON_TRACK" => now' >= case'[c].approachingAt
      /\ case'[c].alert = "OVERDUE" => now' >= case'[c].targetAt
  BY <1>1, <1>2, <1>3
<1>5. case[c].status # "RESOLVED" \/ case[c].status # "CLOSED"
  OBVIOUS
<1> QED BY <1>1, <1>4, <1>5 DEF Follows, RowsSound

\* The row with another status and revision.
Restated(row, s, n) ==
  [row EXCEPT !.status = s, !.revision = n]

\* It is a row.
LEMMA RestatedRow ==
  ASSUME NEW row \in Rows, NEW s \in Statuses, NEW n \in Nat
  PROVE  /\ Restated(row, s, n) \in Rows
         /\ Restated(row, s, n).status = s
         /\ Restated(row, s, n).revision = n
         /\ Restated(row, s, n).facts = row.facts
         /\ Restated(row, s, n).sources = row.sources
         /\ Restated(row, s, n).alert = row.alert
         /\ Restated(row, s, n).approachingAt = row.approachingAt
         /\ Restated(row, s, n).targetAt = row.targetAt
BY DEF Restated, Rows

\* The row with another window and revision.
Extended(row, n, t) ==
  [row EXCEPT !.revision = n, !.closeAt = t]

\* It is a row.
LEMMA ExtendedRow ==
  ASSUME NEW row \in Rows, NEW n \in Nat, NEW t \in Nat
  PROVE  /\ Extended(row, n, t) \in Rows
         /\ Extended(row, n, t).status = row.status
         /\ Extended(row, n, t).revision = n
         /\ Extended(row, n, t).facts = row.facts
         /\ Extended(row, n, t).sources = row.sources
         /\ Extended(row, n, t).alert = row.alert
         /\ Extended(row, n, t).approachingAt = row.approachingAt
         /\ Extended(row, n, t).targetAt = row.targetAt
BY DEF Extended, Rows

\* What it keeps of the row it is made of.
Keeps(new, row, n) ==
  /\ new \in Rows /\ new.status = row.status /\ new.revision = n
  /\ new.facts = row.facts /\ new.sources = row.sources /\ new.alert = row.alert
  /\ new.approachingAt = row.approachingAt /\ new.targetAt = row.targetAt

\* The same, to be cited of a row that is an expression.
LEMMA ExtendedKeeps ==
  \A row \in Rows, n \in Nat, t \in Nat : Keeps(Extended(row, n, t), row, n)
BY ExtendedRow DEF Keeps

\* The row with a new clock of the response.
Restarted(row, t, u) ==
  [row EXCEPT !.closeAt = 0, !.alert = "ON_TRACK", !.approachingAt = t, !.targetAt = u]

\* It is a row.
LEMMA RestartedRow ==
  ASSUME NEW row \in Rows, NEW t \in Nat, NEW u \in Nat
  PROVE  /\ Restarted(row, t, u) \in Rows
         /\ Restarted(row, t, u).status = row.status
         /\ Restarted(row, t, u).revision = row.revision
         /\ Restarted(row, t, u).facts = row.facts
         /\ Restarted(row, t, u).sources = row.sources
         /\ Restarted(row, t, u).alert = "ON_TRACK"
         /\ Restarted(row, t, u).approachingAt = t
         /\ Restarted(row, t, u).targetAt = u
BY DEF Restarted, Rows

\* The row with other facts, sources, status and revision.
Merged(row, f, g, s, n) ==
  [row EXCEPT !.facts = f, !.sources = g, !.status = s, !.revision = n]

\* It is a row.
LEMMA MergedRow ==
  ASSUME NEW row \in Rows, NEW f \in SUBSET Messages, NEW g \in SUBSET Messages, NEW s \in Statuses,
         NEW n \in Nat
  PROVE  /\ Merged(row, f, g, s, n) \in Rows
         /\ Merged(row, f, g, s, n).status = s
         /\ Merged(row, f, g, s, n).revision = n
         /\ Merged(row, f, g, s, n).facts = f
         /\ Merged(row, f, g, s, n).sources = g
         /\ Merged(row, f, g, s, n).alert = row.alert
         /\ Merged(row, f, g, s, n).approachingAt = row.approachingAt
         /\ Merged(row, f, g, s, n).targetAt = row.targetAt
BY DEF Merged, Rows

\* The row with another alert.
Alerted(row, a) ==
  [row EXCEPT !.alert = a]

\* It is a row.
LEMMA AlertedRow ==
  ASSUME NEW row \in Rows, NEW a \in {"ON_TRACK", "APPROACHING_TARGET", "OVERDUE"}
  PROVE  /\ Alerted(row, a) \in Rows
         /\ Alerted(row, a).status = row.status
         /\ Alerted(row, a).revision = row.revision
         /\ Alerted(row, a).facts = row.facts
         /\ Alerted(row, a).sources = row.sources
         /\ Alerted(row, a).alert = a
         /\ Alerted(row, a).approachingAt = row.approachingAt
         /\ Alerted(row, a).targetAt = row.targetAt
BY DEF Alerted, Rows

\* Changed gives a row of the next revision with the facts and sources it had; a
\* reopening starts the clock again.
LEMMA ChangedFields ==
  ASSUME CaseShape, NEW c \in Ids, case[c] \in Rows, NEW target \in Statuses
  PROVE  LET row == Changed(c, target) IN
         /\ row \in Rows /\ row.status = target /\ row.revision = case[c].revision + 1
         /\ row.facts = case[c].facts /\ row.sources = case[c].sources
         /\ \/ row.alert = "ON_TRACK" /\ row.approachingAt <= row.targetAt
            \/ /\ row.alert = case[c].alert
               /\ row.approachingAt = case[c].approachingAt
               /\ row.targetAt = case[c].targetAt
<1> DEFINE base == Restated(case[c], target, case[c].revision + 1)
<1>0. [case[c] EXCEPT !.status = target, !.revision = @ + 1] = base
  BY DEF Restated
<1>1. /\ base \in Rows /\ base.status = target /\ base.revision = case[c].revision + 1
      /\ base.facts = case[c].facts /\ base.sources = case[c].sources
      /\ base.alert = case[c].alert /\ base.approachingAt = case[c].approachingAt
      /\ base.targetAt = case[c].targetAt
  <2>1. case[c].revision + 1 \in Nat
    BY RowFields
  <2> QED BY <2>1, RestatedRow
<1>2. /\ now + CloseAfter \in Nat /\ now + Approaching \in Nat /\ now + Target \in Nat
      /\ now + Approaching <= now + Target
  BY CaseConstants, RowsOfCases
<1> HIDE DEF base
<1>3. CASE target = "RESOLVED"
  <2>1. Changed(c, target) = [base EXCEPT !.closeAt = now + CloseAfter]
    BY <1>0, <1>3 DEF Changed
  <2>2. [base EXCEPT !.closeAt = now + CloseAfter]
          = Extended(base, base.revision, now + CloseAfter)
    BY <1>1 DEF Extended, Rows
  <2>3. base.revision \in Nat
    BY <1>1, RowFields
  <2>4. Changed(c, target) = Extended(base, base.revision, now + CloseAfter)
    BY <2>1, <2>2
  <2> DEFINE until == now + CloseAfter
             n == base.revision
             row == Changed(c, target)
  <2> HIDE DEF until, n, row
  <2>5. row = Extended(base, n, until) /\ until \in Nat /\ n \in Nat
    BY <1>2, <2>3, <2>4 DEF until, n, row
  <2>6. /\ row \in Rows /\ row.status = base.status /\ row.revision = n
        /\ row.facts = base.facts /\ row.sources = base.sources /\ row.alert = base.alert
        /\ row.approachingAt = base.approachingAt /\ row.targetAt = base.targetAt
    <3>1. base \in Rows BY <1>1
    <3>2. Keeps(row, base, n)
      BY <2>5, <3>1, ExtendedKeeps, Zenon
    <3> QED BY <3>2 DEF Keeps
  <2> QED BY <1>1, <1>3, <2>6 DEF row, n
<1>4. CASE target = "REOPENED"
  <2>1. Changed(c, target) =
          [base EXCEPT !.closeAt = 0, !.alert = "ON_TRACK",
                       !.approachingAt = now + Approaching, !.targetAt = now + Target]
    BY <1>0, <1>4 DEF Changed
  <2>2. Changed(c, target) = Restarted(base, now + Approaching, now + Target)
    BY <2>1 DEF Restarted
  <2> DEFINE from == now + Approaching
             until == now + Target
             row == Changed(c, target)
  <2> HIDE DEF from, until, row
  <2>3. row = Restarted(base, from, until) /\ from \in Nat /\ until \in Nat /\ from <= until
    BY <1>2, <2>2 DEF from, until, row
  <2>4. /\ row \in Rows /\ row.status = base.status /\ row.revision = base.revision
        /\ row.facts = base.facts /\ row.sources = base.sources /\ row.alert = "ON_TRACK"
        /\ row.approachingAt = from /\ row.targetAt = until
    <3> DEFINE fresh == Restarted(base, from, until)
    <3>0. base \in Rows /\ from \in Nat /\ until \in Nat
      BY <1>1, <2>3
    <3>1. /\ fresh \in Rows /\ fresh.status = base.status /\ fresh.revision = base.revision
          /\ fresh.facts = base.facts /\ fresh.sources = base.sources
          /\ fresh.alert = "ON_TRACK"
          /\ fresh.approachingAt = from /\ fresh.targetAt = until
      BY <3>0, RestartedRow
    <3> HIDE DEF fresh
    <3>2. row = fresh
      BY <2>3 DEF fresh
    <3> QED BY <3>1, <3>2
  <2> QED BY <1>1, <1>4, <2>3, <2>4 DEF row
<1>5. CASE target \notin {"RESOLVED", "REOPENED"}
  <2>1. Changed(c, target) = base
    BY <1>0, <1>5 DEF Changed
  <2> QED BY <1>1, <2>1
<1> QED BY <1>3, <1>4, <1>5

\* A legal transition.
LEMMA ChangedFollows ==
  ASSUME CaseShape, RowsSound, AlertTruthful, NEW c \in Ids, case[c] \in Rows,
         NEW target \in Transitions[case[c].status],
         target = "CLOSED" => WindowOver(c),
         case'[c] = Changed(c, target), now' = now
  PROVE  Follows(c)
<1>1. /\ case[c].status \in Statuses /\ case[c].revision \in Nat /\ case[c] # NoCase
  BY RowFields
<1>2. target \in Statuses /\ case[c].status \notin Terminal
  BY <1>1, TransitionFacts
<1>3. /\ case'[c] \in Rows /\ case'[c].status = target
      /\ case'[c].revision = case[c].revision + 1
      /\ case'[c].facts = case[c].facts /\ case'[c].sources = case[c].sources
      /\ \/ case'[c].alert = "ON_TRACK" /\ case'[c].approachingAt <= case'[c].targetAt
         \/ /\ case'[c].alert = case[c].alert
            /\ case'[c].approachingAt = case[c].approachingAt
            /\ case'[c].targetAt = case[c].targetAt
  BY <1>2, ChangedFields
<1>4. /\ case[c].alert # "ON_TRACK" => now >= case[c].approachingAt
      /\ case[c].alert = "OVERDUE" => now >= case[c].targetAt
  BY <1>1 DEF AlertTruthful
<1>5. case'[c].revision >= case[c].revision /\ case'[c].revision # case[c].revision
  BY <1>1, <1>3
<1>6. /\ case'[c].alert # "ON_TRACK" => now' >= case'[c].approachingAt
      /\ case'[c].alert = "OVERDUE" => now' >= case'[c].targetAt
  BY <1>3, <1>4
<1>7. case'[c].status = "CLOSED" => now >= case[c].closeAt
  BY <1>3 DEF WindowOver
<1>8. case'[c].approachingAt <= case'[c].targetAt
  BY <1>1, <1>3 DEF RowsSound
<1> QED BY <1>2, <1>3, <1>5, <1>6, <1>7, <1>8 DEF Follows

\* An intake: what the customer confirmed contains what the case has, because it was
\* built on the revision the case is at.
LEMMA UpdatedFollows ==
  ASSUME CaseShape, RowsSound, AlertTruthful, IntakesBuiltOnRead, capability = "returns_claims",
         NEW m \in Messages, NEW c \in Ids, case[c] \in Rows, prepared[m].state = "prepared",
         MayUpdate(m, c), case'[c] = Updated(m, c), now' = now
  PROVE  Follows(c) /\ prepared[m].facts \subseteq case'[c].facts /\ m \in case'[c].sources
<1> DEFINE p == prepared[m]
<1>1. /\ case[c].status \in Statuses /\ case[c].revision \in Nat /\ case[c] # NoCase
      /\ case[c].facts \in SUBSET Messages /\ case[c].sources \in SUBSET Messages
  BY RowFields
<1>2. p \in Intakes
  BY DEF CaseShape, NoIntake
<1>3. p.facts \in SUBSET Messages /\ p.expected \in Nat
  BY <1>2 DEF Intakes
<1>4. InitialStatus(p.facts) \in IntakeStates
  BY DEF InitialStatus, IntakeStates
<1>5. c \in Nat /\ c # 0 /\ p.case \in {0, c}
  BY RowsOfCases DEF MayUpdate
<1>6. p.facts # case[c].facts => case[c].facts \subseteq p.facts
  <2> SUFFICES ASSUME p.facts # case[c].facts PROVE case[c].facts \subseteq p.facts
    OBVIOUS
  <2>1. case[c].revision = p.expected
    BY DEF MayUpdate
  <2>2. CASE p.case = c
    <3> QED BY <1>5, <2>1, <2>2 DEF IntakesBuiltOnRead
  <2>3. CASE p.case = 0
    <3>1. p.expected = 0
      BY <2>3 DEF IntakesBuiltOnRead
    <3>2. case[c].revision # 0
      BY <1>1 DEF RowsSound
    <3> QED BY <2>1, <3>1, <3>2
  <2> QED BY <1>5, <2>2, <2>3
<1> DEFINE row == Updated(m, c)
<1>7. /\ row \in Rows /\ row.status = InitialStatus(p.facts) /\ row.facts = p.facts
      /\ row.sources = case[c].sources \cup {m}
      /\ row.revision = IF case[c].facts # p.facts THEN case[c].revision + 1 ELSE case[c].revision
      /\ row.alert = case[c].alert /\ row.approachingAt = case[c].approachingAt
      /\ row.targetAt = case[c].targetAt
  <2>1. InitialStatus(p.facts) \in Statuses
    BY <1>4, StatusFacts
  <2>2. case[c].sources \cup {m} \in SUBSET Messages
    BY <1>1
  <2>3. \E n \in Nat : n = IF case[c].facts # p.facts THEN case[c].revision + 1 ELSE case[c].revision
    BY <1>1
  <2>4. PICK n \in Nat : n = IF case[c].facts # p.facts THEN case[c].revision + 1 ELSE case[c].revision
    BY <2>3
  <2>5. row = Merged(case[c], p.facts, case[c].sources \cup {m}, InitialStatus(p.facts), n)
    BY <2>4 DEF Updated, Merged
  <2> HIDE DEF row, p
  <2> QED BY <1>3, <2>1, <2>2, <2>4, <2>5, MergedRow
<1>8. case[c].facts = p.facts => case[c].status = InitialStatus(p.facts)
  BY DEF MayUpdate
<1>9. case[c].status \in IntakeStates
  BY DEF MayUpdate
<1>10. /\ case[c].alert # "ON_TRACK" => now >= case[c].approachingAt
       /\ case[c].alert = "OVERDUE" => now >= case[c].targetAt
  BY <1>1 DEF AlertTruthful
<1> HIDE DEF row, p
<1>11. case'[c] = row
  BY DEF row
<1>12. case'[c].revision >= case[c].revision
  BY <1>1, <1>7, <1>11
<1>13. case'[c].revision = case[c].revision =>
         case'[c].facts = case[c].facts /\ case'[c].status = case[c].status
  BY <1>1, <1>7, <1>8, <1>11
<1>14. case[c].facts \subseteq case'[c].facts /\ case[c].sources \subseteq case'[c].sources
  BY <1>6, <1>7, <1>11
<1>15. case[c].status \notin Terminal /\ case[c].status # "RESOLVED"
  BY <1>9, StatusFacts DEF IntakeStates
<1>16. /\ case'[c].alert # "ON_TRACK" => now' >= case'[c].approachingAt
       /\ case'[c].alert = "OVERDUE" => now' >= case'[c].targetAt
  BY <1>7, <1>10, <1>11
<1>17. p.facts \subseteq case'[c].facts /\ m \in case'[c].sources
  BY <1>7, <1>11
<1>18. case'[c].approachingAt <= case'[c].targetAt
  BY <1>1, <1>7, <1>11 DEF RowsSound
<1> QED BY <1>7, <1>11, <1>12, <1>13, <1>14, <1>15, <1>16, <1>17, <1>18 DEF Follows, p

\* A longer window.
LEMMA RespondedFollows ==
  ASSUME CaseShape, RowsSound, AlertTruthful, NEW c \in Ids, case[c] \in Rows,
     case[c].status = "RESOLVED",
         case'[c] = Extended(case[c], case[c].revision + 1, now + CloseAfter), now' = now
  PROVE  Follows(c)
<1>1. case[c].revision \in Nat /\ case[c] # NoCase
  BY RowFields
<1>2. now + CloseAfter \in Nat /\ case[c].revision + 1 \in Nat
  BY <1>1, CaseConstants, RowsOfCases
<1>3. /\ case'[c] \in Rows /\ case'[c].status = "RESOLVED"
      /\ case'[c].revision = case[c].revision + 1
      /\ case'[c].facts = case[c].facts /\ case'[c].sources = case[c].sources
      /\ case'[c].alert = case[c].alert /\ case'[c].approachingAt = case[c].approachingAt
      /\ case'[c].targetAt = case[c].targetAt
  <2> DEFINE until == now + CloseAfter
             n == case[c].revision + 1
             old == case[c]
  <2> HIDE DEF until, n, old
  <2>2. case'[c] = Extended(old, n, until) /\ until \in Nat /\ n \in Nat /\ old \in Rows
    BY <1>2 DEF until, n, old
  <2>3. /\ case'[c] \in Rows /\ case'[c].status = old.status /\ case'[c].revision = n
        /\ case'[c].facts = old.facts /\ case'[c].sources = old.sources
        /\ case'[c].alert = old.alert /\ case'[c].approachingAt = old.approachingAt
        /\ case'[c].targetAt = old.targetAt
    <3> DEFINE row == Extended(old, n, until)
    <3>1. /\ row \in Rows /\ row.status = old.status /\ row.revision = n
          /\ row.facts = old.facts /\ row.sources = old.sources /\ row.alert = old.alert
          /\ row.approachingAt = old.approachingAt /\ row.targetAt = old.targetAt
      BY <2>2, ExtendedRow
    <3> HIDE DEF row
    <3>2. case'[c] = row
      BY <2>2 DEF row
    <3> QED BY <3>1, <3>2
  <2> QED BY <2>3 DEF n, old
<1>4. /\ case[c].alert # "ON_TRACK" => now >= case[c].approachingAt
      /\ case[c].alert = "OVERDUE" => now >= case[c].targetAt
  BY <1>1 DEF AlertTruthful
<1>5. case'[c].revision >= case[c].revision /\ case'[c].revision # case[c].revision
  BY <1>1, <1>3
<1>6. case'[c].approachingAt <= case'[c].targetAt
  BY <1>1, <1>3 DEF RowsSound
<1> QED BY <1>3, <1>4, <1>5, <1>6, StatusFacts DEF Follows

\* A timer.
LEMMA TimerFollows ==
  ASSUME CaseShape, RowsSound, AlertTruthful, NEW c \in Ids, case[c] \in Rows,
     case'[c] = TimerEffect(c),
         now' = now
  PROVE  Follows(c)
<1>0. /\ case[c].status \in Statuses /\ case[c].revision \in Nat /\ now \in Nat
      /\ case[c].approachingAt \in Nat /\ case[c].targetAt \in Nat
      /\ case[c].approachingAt <= case[c].targetAt
  BY RowFields, RowsOfCases DEF RowsSound
<1>1. CASE case'[c] = case[c]
  BY <1>0, <1>1, SameFollows
<1>2. CASE case[c].status = "RESOLVED" /\ now >= case[c].closeAt /\ case'[c] = Changed(c, "CLOSED")
  <2>1. "CLOSED" \in Transitions[case[c].status] /\ WindowOver(c)
    BY <1>2, TransitionFacts DEF WindowOver
  <2> QED BY <1>2, <2>1, ChangedFollows
<1>3. CASE /\ case[c].status # "RESOLVED" /\ case[c].status \notin Terminal
           /\ AlertDue(c) # "ON_TRACK"
           /\ case'[c] = [case[c] EXCEPT !.alert = AlertDue(c)]
  <2>1. /\ AlertDue(c) \in {"APPROACHING_TARGET", "OVERDUE"}
        /\ AlertDue(c) = "OVERDUE" => now >= case[c].targetAt
        /\ AlertDue(c) = "APPROACHING_TARGET" => now >= case[c].approachingAt
    BY <1>3 DEF AlertDue
  <2>2. /\ case'[c] \in Rows /\ case'[c].status = case[c].status
        /\ case'[c].revision = case[c].revision
        /\ case'[c].facts = case[c].facts /\ case'[c].sources = case[c].sources
        /\ case'[c].alert = AlertDue(c) /\ case'[c].approachingAt = case[c].approachingAt
        /\ case'[c].targetAt = case[c].targetAt
    <3>1. case'[c] = Alerted(case[c], AlertDue(c))
      BY <1>3 DEF Alerted
    <3> QED BY <2>1, <3>1, AlertedRow
  <2>3. AlertDue(c) = "OVERDUE" => now >= case[c].approachingAt
    BY <1>0, <2>1
  <2> QED BY <1>0, <1>3, <2>1, <2>2, <2>3 DEF Follows
<1> QED BY <1>1, <1>2, <1>3 DEF TimerEffect

\* The row of a case that was just opened.
NewRow(c) ==
  /\ case'[c] \in Rows /\ case'[c].revision = 1 /\ case'[c].alert = "ON_TRACK"
  /\ case'[c].approachingAt <= case'[c].targetAt
  /\ case'[c].status \notin Terminal

\* New gives a row of the first revision.
LEMMA NewFields ==
  ASSUME CaseShape, NEW s \in Statuses, NEW f \in SUBSET Messages, NEW g \in SUBSET Messages
  PROVE  /\ New(s, f, g) \in Rows /\ New(s, f, g).status = s /\ New(s, f, g).revision = 1
         /\ New(s, f, g).facts = f /\ New(s, f, g).sources = g
         /\ New(s, f, g).alert = "ON_TRACK"
         /\ New(s, f, g).approachingAt <= New(s, f, g).targetAt
<1> DEFINE from == now + Approaching
           until == now + Target
<1>1. from \in Nat /\ until \in Nat /\ from <= until
  BY CaseConstants, RowsOfCases
<1>2. New(s, f, g) =
        [status |-> s, revision |-> 1, facts |-> f, sources |-> g, alert |-> "ON_TRACK",
         approachingAt |-> from, targetAt |-> until, closeAt |-> 0]
  BY DEF New
<1> HIDE DEF from, until
<1> QED BY <1>1, <1>2 DEF Rows

\* A step that opens a new case, beside the old ones or in the place of one
\* whose window is over.
Succeeds ==
  /\ created' = created + 1 /\ created < MaxCases
  /\ NewRow(created + 1)
  /\ \A c \in Ids : c # created + 1 =>
       \/ c \notin Equivalent /\ case'[c] = case[c]
       \/ c \in Equivalent /\ WindowOver(c) /\ case'[c] = Changed(c, "CLOSED")

\* WithSuccessor opens a case, once nothing but resolutions past their window is
\* active.
LEMMA SuccessorRows ==
  ASSUME CaseShape, NEW s \in Statuses \ Terminal, NEW f \in SUBSET Messages,
         NEW g \in SUBSET Messages, created' = created + 1, created < MaxCases,
         \A c \in Equivalent : WindowOver(c), case' = WithSuccessor(New(s, f, g))
  PROVE  /\ Succeeds /\ case'[created + 1] = New(s, f, g)
         /\ case' \in [Ids -> Rows \cup {NoCase}]
<1>0. created \in Nat /\ MaxCases \in Nat /\ created + 1 \in Ids
  BY CaseConstants, RowsOfCases DEF Ids
<1> DEFINE fresh == New(s, f, g)
<1>1. /\ fresh \in Rows /\ fresh.status = s /\ fresh.revision = 1 /\ fresh.alert = "ON_TRACK"
      /\ fresh.approachingAt <= fresh.targetAt
  BY NewFields
<1> HIDE DEF fresh
<1>2. case'[created + 1] = fresh
  BY <1>0 DEF WithSuccessor, fresh
<1>3. \A c \in Ids : c # created + 1 =>
        \/ c \notin Equivalent /\ case'[c] = case[c]
        \/ c \in Equivalent /\ WindowOver(c) /\ case'[c] = Changed(c, "CLOSED")
  BY DEF WithSuccessor
<1>4. \A c \in Ids : case'[c] \in Rows \cup {NoCase}
  <2>1. \A c \in Equivalent : Changed(c, "CLOSED") \in Rows
    BY ChangedFields, RowsOfCases, StatusFacts
  <2>2. \A c \in Ids : case[c] \in Rows \cup {NoCase}
    BY DEF CaseShape
  <2> QED BY <1>1, <1>2, <1>3, <2>1, <2>2
<1>5. case' = [c \in Ids |-> case'[c]]
  BY DEF WithSuccessor
<1>6. case' \in [Ids -> Rows \cup {NoCase}]
  BY <1>4, <1>5
<1>7. NewRow(created + 1)
  BY <1>1, <1>2 DEF NewRow
<1> QED BY <1>2, <1>3, <1>6, <1>7 DEF Succeeds, fresh

\* It closes those, and leaves the other rows.
LEMMA SuccessorFollows ==
  ASSUME CaseShape, RowsSound, AlertTruthful, Succeeds, now' = now,
         NEW c \in Ids, case[c] \in Rows
  PROVE  Follows(c)
<1>1. c # created + 1
  BY RowsOfCases DEF CaseShape
<1>2. CASE case'[c] = case[c]
  BY <1>2, SameFollows, RowsOfCases
<1>3. CASE c \in Equivalent /\ WindowOver(c) /\ case'[c] = Changed(c, "CLOSED")
  <2>1. "CLOSED" \in Transitions[case[c].status]
    BY <1>3, TransitionFacts DEF WindowOver
  <2> QED BY <1>3, <2>1, ChangedFollows
<1> QED BY <1>1, <1>2, <1>3 DEF Succeeds

\* A step that opens no case.
Stays == created' = created /\ \A c \in Ids : case[c] = NoCase => case'[c] = NoCase

\* An operation without a receipt gets one.
Linked(op, c) ==
  /\ Fresh(op) /\ c \in 1 .. created'
  /\ receipts' = [receipts EXCEPT ![op] = c]

\* Intake: the rows it leaves, and the receipt of the message with the case that has
\* it now.
LEMMA IntakeDoes ==
  ASSUME CaseInv, NEW m \in Messages, Intake(m)
  PROVE  /\ case' \in [Ids -> Rows \cup {NoCase}]
         /\ Stays \/ Succeeds
         /\ \A c \in Ids : case[c] \in Rows => Follows(c)
         /\ \E c \in Ids :
              /\ Linked(m, c) /\ effects' = [effects EXCEPT ![m] = @ + 1]
              /\ capability = "returns_claims" =>
                   prepared[m].facts \subseteq case'[c].facts /\ m \in case'[c].sources
<1> USE DEF CaseInv
<1>0. /\ prepared[m].state = "prepared" /\ Fresh(m) /\ now' = now /\ capability' = capability
      /\ prepared[m].facts \in SUBSET Messages
  <2>1. prepared[m] \in Intakes
    BY DEF Intake, CaseShape, NoIntake
  <2> QED BY <2>1 DEF Intake, Intakes
<1>1. CASE /\ Open = {} /\ created < MaxCases /\ created' = created + 1
           /\ case' = WithSuccessor(New(InitialStatus(prepared[m].facts),
                                        prepared[m].facts, {m}))
           /\ Applied(m, created')
  <2> DEFINE s == InitialStatus(prepared[m].facts)
  <2>1. \A c \in Equivalent : WindowOver(c)
    BY <1>1 DEF Open
  <2>2. s \in Statuses \ Terminal
    BY StatusFacts DEF InitialStatus, Statuses, IntakeStates, Terminal
  <2>3. {m} \in SUBSET Messages
    OBVIOUS
  <2> HIDE DEF s
  <2>4. /\ Succeeds /\ case'[created + 1] = New(s, prepared[m].facts, {m})
        /\ case' \in [Ids -> Rows \cup {NoCase}]
    BY <1>0, <1>1, <2>1, <2>2, <2>3, SuccessorRows DEF s
  <2>5. \A c \in Ids : case[c] \in Rows => Follows(c)
    BY <1>0, <2>4, SuccessorFollows
  <2>6. created + 1 \in Ids /\ created + 1 \in 1 .. created'
    BY <1>1, CaseConstants, RowsOfCases DEF Ids
  <2>7. /\ case'[created + 1].facts = prepared[m].facts
        /\ case'[created + 1].sources = {m}
    BY <1>0, <2>2, <2>3, <2>4, NewFields
  <2>8. Linked(m, created + 1) /\ effects' = [effects EXCEPT ![m] = @ + 1]
    BY <1>0, <1>1, <2>6 DEF Linked, Applied
  <2> QED BY <1>0, <2>4, <2>5, <2>6, <2>7, <2>8
<1>2. ASSUME NEW c \in Open, capability = "orders", case' = case, Applied(m, c),
             created' = created
      PROVE  /\ case' \in [Ids -> Rows \cup {NoCase}] /\ Stays
             /\ \A d \in Ids : case[d] \in Rows => Follows(d)
             /\ Linked(m, c) /\ effects' = [effects EXCEPT ![m] = @ + 1] /\ c \in Ids
  <2>1. c \in Ids /\ c \in 1 .. created
    BY RowsOfCases DEF Open
  <2>2. \A d \in Ids : case[d] \in Rows => Follows(d)
    BY <1>0, <1>2, SameFollows, RowsOfCases
  <2> QED BY <1>0, <1>2, <2>1, <2>2 DEF Stays, Linked, Applied, CaseShape
<1>3. ASSUME NEW c \in Open, capability = "returns_claims", MayUpdate(m, c),
             case' = [case EXCEPT ![c] = Updated(m, c)], Applied(m, c), created' = created
      PROVE  /\ case' \in [Ids -> Rows \cup {NoCase}] /\ Stays
             /\ \A d \in Ids : case[d] \in Rows => Follows(d)
             /\ Linked(m, c) /\ effects' = [effects EXCEPT ![m] = @ + 1] /\ c \in Ids
             /\ prepared[m].facts \subseteq case'[c].facts /\ m \in case'[c].sources
  <2>1. c \in Ids /\ c \in 1 .. created /\ case[c] \in Rows /\ case[c] # NoCase
    BY RowsOfCases DEF Open
  <2>2. case'[c] = Updated(m, c) /\ \A d \in Ids \ {c} : case'[d] = case[d]
    BY <1>3, <2>1 DEF CaseShape
  <2>3. Follows(c) /\ prepared[m].facts \subseteq case'[c].facts /\ m \in case'[c].sources
    BY <1>0, <1>3, <2>1, <2>2, UpdatedFollows
  <2>4. \A d \in Ids : case[d] \in Rows => Follows(d)
    BY <1>0, <2>2, <2>3, SameFollows, RowsOfCases
  <2>5. case' \in [Ids -> Rows \cup {NoCase}]
    BY <1>3, <2>2, <2>3 DEF CaseShape, Follows
  <2>6. Linked(m, c) /\ effects' = [effects EXCEPT ![m] = @ + 1]
    BY <1>0, <1>3, <2>1 DEF Linked, Applied
  <2>7. Stays
    BY <1>3, <2>1, <2>2 DEF Stays
  <2> QED BY <2>1, <2>3, <2>4, <2>5, <2>6, <2>7
<1>4. \/ /\ Open = {} /\ created < MaxCases /\ created' = created + 1
         /\ case' = WithSuccessor(New(InitialStatus(prepared[m].facts),
                                      prepared[m].facts, {m}))
         /\ Applied(m, created')
      \/ \E c \in Open :
           /\ Applied(m, c) /\ created' = created
           /\ \/ capability = "orders" /\ case' = case
              \/ /\ capability = "returns_claims" /\ MayUpdate(m, c)
                 /\ case' = [case EXCEPT ![c] = Updated(m, c)]
  BY DEF Intake
<1>5. CASE \E c \in Open :
             /\ Applied(m, c) /\ created' = created
             /\ \/ capability = "orders" /\ case' = case
                \/ /\ capability = "returns_claims" /\ MayUpdate(m, c)
                   /\ case' = [case EXCEPT ![c] = Updated(m, c)]
  <2>1. PICK c \in Open :
             /\ Applied(m, c) /\ created' = created
             /\ \/ capability = "orders" /\ case' = case
                \/ /\ capability = "returns_claims" /\ MayUpdate(m, c)
                   /\ case' = [case EXCEPT ![c] = Updated(m, c)]
    BY <1>5
  <2>2. CASE capability = "orders" /\ case' = case
    BY <1>2, <2>1, <2>2
  <2>3. CASE capability = "returns_claims" /\ MayUpdate(m, c)
             /\ case' = [case EXCEPT ![c] = Updated(m, c)]
    BY <1>3, <2>1, <2>3
  <2> QED BY <2>1, <2>2, <2>3
<1> QED BY <1>1, <1>4, <1>5

\* What a step may do to the rows: at most one is added, and all others follow what
\* they were.
CasesMove ==
  /\ case' \in [Ids -> Rows \cup {NoCase}]
  /\ Stays \/ Succeeds
  /\ \A c \in Ids : case[c] \in Rows => Follows(c)

\* A step that changes the row of one case.
LEMMA OneMoves ==
  ASSUME CaseInv, NEW c \in Ids, case[c] \in Rows, NEW row,
         case' = [case EXCEPT ![c] = row], case'[c] = row => Follows(c),
         created' = created, now' = now
  PROVE  CasesMove
<1> USE DEF CaseInv
<1>1. case'[c] = row /\ \A d \in Ids \ {c} : case'[d] = case[d]
  BY DEF CaseShape
<1>2. \A d \in Ids : case[d] \in Rows => Follows(d)
  BY <1>1, SameFollows, RowsOfCases
<1>3. case' \in [Ids -> Rows \cup {NoCase}]
  BY <1>1 DEF CaseShape, Follows
<1>4. case[c] # NoCase
  BY RowFields
<1>5. Stays
  BY <1>1, <1>4 DEF Stays
<1> QED BY <1>2, <1>3, <1>5 DEF CasesMove

\* A step that changes none.
LEMMA NoneMoves ==
  ASSUME CaseInv, case' = case, created' = created, now' \in Nat, now' >= now
  PROVE  CasesMove
<1> USE DEF CaseInv
<1>1. \A d \in Ids : case[d] \in Rows => Follows(d)
  BY SameFollows
<1> QED BY <1>1 DEF CasesMove, Stays, CaseShape

\* Transition: the rows it leaves; it decides on the case as the officer read it.
LEMMA TransitionDoes ==
  ASSUME CaseInv, NEW o \in Officers, NEW target \in Decisions, Transition(o, target)
  PROVE  /\ CasesMove /\ seen[o].case \in 1 .. created /\ seen[o].case \in Ids
         /\ case[seen[o].case].facts = seen[o].facts
         /\ case[seen[o].case].status = seen[o].status
<1> USE DEF CaseInv
<1> DEFINE c == seen[o].case
<1>1. seen[o] \in Sightings /\ c \in Ids
  BY DEF Transition, CaseShape, Sightings
<1>2. /\ c <= created
      /\ case[c].revision = seen[o].revision =>
           seen[o].facts = case[c].facts /\ seen[o].status = case[c].status
  BY DEF Transition, SightingsDated
<1> HIDE DEF c
<1>3. case[c].revision = seen[o].revision
  BY DEF Transition, c
<1>4. case[c] \in Rows /\ c \in 1 .. created
  BY <1>1, <1>2, RowsOfCases DEF CaseShape
<1>5. /\ target \in Transitions[case[c].status] /\ target # "CLOSED"
      /\ case' = [case EXCEPT ![c] = Changed(c, target)]
      /\ created' = created /\ now' = now
  BY DEF Transition, c
<1>6. case'[c] = Changed(c, target) => Follows(c)
  BY <1>1, <1>4, <1>5, ChangedFollows
<1>7. CasesMove
  BY <1>1, <1>4, <1>5, <1>6, OneMoves
<1> QED BY <1>1, <1>2, <1>3, <1>4, <1>7 DEF c

\* ReportPersists: the rows it leaves, and the receipt of the report.
LEMMA ReportPersistsDoes ==
  ASSUME CaseInv, NEW r \in Reports, NEW c \in Ids, ReportPersists(r, c)
  PROVE  /\ CasesMove
         /\ \E d \in Ids :
              Linked(r, d) /\ effects' \in {effects, [effects EXCEPT ![r] = @ + 1]}
<1> USE DEF CaseInv
<1>0. case[c] \in Rows /\ Fresh(r) /\ now' = now /\ c \in 1 .. created
  BY RowsOfCases DEF ReportPersists
<1>1. CASE /\ case[c].status = "RESOLVED" /\ case' = [case EXCEPT ![c] = Changed(c, "REOPENED")]
           /\ Applied(r, c) /\ created' = created
  <2>1. "REOPENED" \in Transitions[case[c].status]
    BY <1>1, TransitionFacts
  <2>2. case'[c] = Changed(c, "REOPENED") => Follows(c)
    BY <1>0, <2>1, ChangedFollows
  <2>3. CasesMove
    BY <1>0, <1>1, <2>2, OneMoves
  <2> QED BY <1>0, <1>1, <2>3 DEF Linked, Applied
<1>2. CASE /\ case[c].status = "CLOSED" \/ WindowOver(c)
           /\ Equivalent \subseteq {c} /\ created < MaxCases /\ created' = created + 1
           /\ case' = WithSuccessor(New("OPEN", case[c].facts, case[c].sources))
           /\ Applied(r, created')
  <2>1. \A d \in Equivalent : WindowOver(d)
    BY <1>2, RowsOfCases, StatusFacts
  <2>2. "OPEN" \in Statuses \ Terminal
    BY StatusFacts DEF Terminal
  <2>3. case[c].facts \in SUBSET Messages /\ case[c].sources \in SUBSET Messages
    BY <1>0, RowFields
  <2>4. Succeeds /\ case' \in [Ids -> Rows \cup {NoCase}]
    BY <1>2, <2>1, <2>2, <2>3, SuccessorRows
  <2>5. \A d \in Ids : case[d] \in Rows => Follows(d)
    BY <1>0, <2>4, SuccessorFollows
  <2>6. created + 1 \in Ids /\ created + 1 \in 1 .. created'
    BY <1>2, CaseConstants, RowsOfCases DEF Ids
  <2> QED BY <1>0, <1>2, <2>4, <2>5, <2>6 DEF Linked, Applied, CasesMove
<1>3. ASSUME NEW d \in Equivalent, receipts' = [receipts EXCEPT ![r] = d],
             UNCHANGED <<created, case, effects>>
      PROVE  /\ CasesMove
             /\ \E e \in Ids :
                  Linked(r, e) /\ effects' \in {effects, [effects EXCEPT ![r] = @ + 1]}
  <2>1. d \in Ids /\ d \in 1 .. created
    BY RowsOfCases
  <2>2. CasesMove
    BY <1>0, <1>3, NoneMoves, RowsOfCases
  <2> QED BY <1>0, <1>3, <2>1, <2>2 DEF Linked
<1> QED BY <1>1, <1>2, <1>3 DEF ReportPersists

\* Respond: the rows it leaves, and the receipt of the response.
LEMMA RespondDoes ==
  ASSUME CaseInv, NEW r \in Reports, NEW c \in Ids, Respond(r, c)
  PROVE  CasesMove /\ Linked(r, c) /\ effects' = [effects EXCEPT ![r] = @ + 1]
<1> USE DEF CaseInv
<1>0. /\ case[c] \in Rows /\ now' = now /\ created' = created /\ c \in 1 .. created
      /\ Applied(r, c) /\ Fresh(r)
  BY RowsOfCases DEF Respond
<1>1. CASE /\ case[c].status = "RESOLVED"
           /\ case' = [case EXCEPT ![c].closeAt = now + CloseAfter, ![c].revision = @ + 1]
  <2> DEFINE row == Extended(case[c], case[c].revision + 1, now + CloseAfter)
  <2>1. case' = [case EXCEPT ![c] = row]
    BY <1>1 DEF Extended, CaseShape
  <2> HIDE DEF row
  <2>2. case'[c] = row => Follows(c)
    BY <1>0, <1>1, RespondedFollows DEF row
  <2>3. CasesMove
    BY <1>0, <2>1, <2>2, OneMoves
  <2> QED BY <1>0, <2>3 DEF Linked, Applied
<1>2. CASE case' = case
  BY <1>0, <1>2, NoneMoves, RowsOfCases DEF Linked, Applied
<1> QED BY <1>1, <1>2 DEF Respond

\* RunTimer: the rows it leaves.
LEMMA RunTimerDoes ==
  ASSUME CaseInv, NEW c \in Ids, NEW t \in 0 .. MaxTime, RunTimer(c, t)
  PROVE  CasesMove
<1> USE DEF CaseInv
<1>1. c <= created
  BY RowsOfCases DEF RunTimer, CaseShape
<1>2. case[c] \in Rows
  BY <1>1 DEF CaseShape
<1>3. case'[c] = TimerEffect(c) => Follows(c)
  BY <1>2, TimerFollows DEF RunTimer
<1> QED BY <1>2, <1>3, OneMoves DEF RunTimer

\* No step does more to the rows, and the clock does not go back.
LEMMA CasesStep ==
  ASSUME CaseInv, [Next]_vars
  PROVE  CasesMove /\ now' \in 0 .. MaxTime /\ now' >= now /\ capability' = capability
<1>1. now' \in 0 .. MaxTime /\ now' >= now /\ capability' = capability
  <2>1. /\ capability' = capability
        /\ now' = now \/ (now < MaxTime /\ now' = now + 1)
    BY DEF Next, vars, Prepare, Intake, RefuseIntake, Read, Transition, ReportPersists, Respond,
           RunTimer, Tick
  <2>2. now \in 0 .. MaxTime /\ MaxTime \in Nat
    BY CaseConstants DEF CaseInv, CaseShape
  <2> QED BY <2>1, <2>2
<1>2. CASE UNCHANGED <<case, created>>
  BY <1>1, <1>2, NoneMoves
<1>3. ASSUME NEW m \in Messages, Intake(m) PROVE CasesMove
  BY <1>3, IntakeDoes DEF CasesMove
<1>4. CASE \/ \E m \in Messages : Prepare(m) \/ RefuseIntake(m)
           \/ \E o \in Officers, c \in Ids : Read(o, c)
           \/ Tick \/ UNCHANGED vars
  BY <1>2, <1>4 DEF Prepare, RefuseIntake, Read, Tick, vars
<1> QED BY <1>1, <1>3, <1>4, TransitionDoes, ReportPersistsDoes, RespondDoes, RunTimerDoes DEF Next

\* What a step may do to the receipts: give one to an operation that has none, and for
\* a claim only if the case has what the message says.
LinksMove ==
  \/ receipts' = receipts /\ effects' = effects
  \/ \E op \in Operations, c \in Ids :
       /\ Linked(op, c) /\ effects' \in {effects, [effects EXCEPT ![op] = @ + 1]}
       /\ op \in Messages => prepared[op].state = "prepared" /\ prepared' = prepared
       /\ op \in Messages /\ capability = "returns_claims" =>
            prepared[op].facts \subseteq case'[c].facts /\ op \in case'[c].sources

\* No step does more to the receipts.
LEMMA LinksStep == CaseInv /\ [Next]_vars => LinksMove
<1> SUFFICES ASSUME CaseInv, [Next]_vars PROVE LinksMove
  OBVIOUS
<1>0. Messages \subseteq Operations /\ Reports \subseteq Operations
  BY DEF Operations
<1>1. ASSUME NEW m \in Messages, Intake(m) PROVE LinksMove
  <2>1. PICK c \in Ids :
          /\ Linked(m, c) /\ effects' = [effects EXCEPT ![m] = @ + 1]
          /\ capability = "returns_claims" =>
               prepared[m].facts \subseteq case'[c].facts /\ m \in case'[c].sources
    BY <1>1, IntakeDoes
  <2>2. prepared[m].state = "prepared" /\ prepared' = prepared
    BY <1>1 DEF Intake
  <2> QED BY <1>0, <2>1, <2>2 DEF LinksMove
<1>2. ASSUME NEW r \in Reports, NEW c \in Ids, ReportPersists(r, c) PROVE LinksMove
  <2>1. PICK d \in Ids :
          Linked(r, d) /\ effects' \in {effects, [effects EXCEPT ![r] = @ + 1]}
    BY <1>2, ReportPersistsDoes
  <2>2. r \notin Messages
    BY CaseConstants
  <2> QED BY <1>0, <2>1, <2>2 DEF LinksMove
<1>3. ASSUME NEW r \in Reports, NEW c \in Ids, Respond(r, c) PROVE LinksMove
  <2>1. Linked(r, c) /\ effects' = [effects EXCEPT ![r] = @ + 1]
    BY <1>3, RespondDoes
  <2>2. r \notin Messages
    BY CaseConstants
  <2> QED BY <1>0, <2>1, <2>2 DEF LinksMove
<1>4. CASE \/ \E m \in Messages : Prepare(m) \/ RefuseIntake(m)
           \/ \E o \in Officers, c \in Ids : Read(o, c)
           \/ \E o \in Officers, target \in Decisions : Transition(o, target)
           \/ \E c \in Ids, t \in 0 .. MaxTime : RunTimer(c, t)
           \/ Tick \/ UNCHANGED vars
  BY <1>4 DEF Prepare, RefuseIntake, Read, Transition, RunTimer, Tick, vars, LinksMove
<1> QED BY <1>1, <1>2, <1>3, <1>4 DEF Next

\* Cases are numbered as they are created.
LEMMA CreatedGrows ==
  ASSUME CaseShape, CasesMove
  PROVE  /\ created' \in 0 .. MaxCases /\ created' >= created
         /\ \A c \in Ids : IF c <= created' THEN case'[c] \in Rows ELSE case'[c] = NoCase
<1>0. created \in Nat /\ MaxCases \in Nat /\ created <= MaxCases
  BY CaseConstants DEF CaseShape
<1>1. \A c \in Ids : c <= created => case'[c] \in Rows
  BY DEF CaseShape, CasesMove, Follows
<1>2. CASE Stays
  <2>1. \A c \in Ids : ~(c <= created) => case'[c] = NoCase
    BY <1>2 DEF Stays, CaseShape
  <2> QED BY <1>0, <1>1, <1>2, <2>1 DEF Stays
<1>3. CASE Succeeds
  <2>1. created' = created + 1 /\ created < MaxCases /\ case'[created + 1] \in Rows
    BY <1>3 DEF Succeeds, NewRow
  <2>2. ASSUME NEW c \in Ids, ~(c <= created + 1) PROVE case'[c] = NoCase
    <3>1. ~(c <= created) /\ c # created + 1
      BY <1>0, <2>2, RowsOfCases
    <3>2. case[c] = NoCase
      BY <3>1 DEF CaseShape
    <3>3. c \notin Equivalent
      BY <3>2, RowsOfCases
    <3> QED BY <1>3, <3>1, <3>2, <3>3 DEF Succeeds
  <2>3. ASSUME NEW c \in Ids, c <= created + 1 PROVE case'[c] \in Rows
    <3>1. c <= created \/ c = created + 1
      BY <1>0, <2>3, RowsOfCases
    <3> QED BY <1>1, <2>1, <3>1
  <2> QED BY <1>0, <2>1, <2>2, <2>3
<1> QED BY <1>2, <1>3 DEF CasesMove

\* Schedule adds jobs of an existing case.
LEMMA Scheduled ==
  ASSUME CaseShape, NEW c \in Ids, NEW instants \in SUBSET Nat, Schedule(c, instants),
         created' \in Nat, c <= created', created' >= created
  PROVE  /\ keys' \in [Ids -> SUBSET Nat] /\ jobs' \in [Ids -> SUBSET Nat]
         /\ \A d \in Ids : jobs'[d] \subseteq keys'[d] /\ (d > created' => jobs'[d] = {})
<1>1. /\ keys'[c] = keys[c] \cup instants
      /\ jobs'[c] = jobs[c] \cup (instants \ keys[c])
      /\ \A d \in Ids \ {c} : keys'[d] = keys[d] /\ jobs'[d] = jobs[d]
  BY DEF Schedule, CaseShape
<1>2. keys' \in [Ids -> SUBSET Nat] /\ jobs' \in [Ids -> SUBSET Nat]
  BY DEF Schedule, CaseShape
<1>3. \A d \in Ids : jobs'[d] \subseteq keys'[d]
  BY <1>1 DEF CaseShape
<1>4. c \in Nat /\ created \in Nat /\ \A d \in Ids : d \in Nat
  BY RowsOfCases
<1>5. \A d \in Ids : d > created' => d > created /\ d # c
  BY <1>4
<1>6. \A d \in Ids : d > created' => jobs'[d] = {}
  BY <1>1, <1>5 DEF CaseShape
<1> QED BY <1>2, <1>3, <1>6

\* No step leaves a job without its key, or without its case.
LEMMA JobsStep ==
  ASSUME CaseInv, CasesMove, [Next]_vars
  PROVE  /\ keys' \in [Ids -> SUBSET Nat] /\ jobs' \in [Ids -> SUBSET Nat]
         /\ \A c \in Ids : jobs'[c] \subseteq keys'[c] /\ (c > created' => jobs'[c] = {})
<1> USE DEF CaseInv
<1> DEFINE Goal == /\ keys' \in [Ids -> SUBSET Nat] /\ jobs' \in [Ids -> SUBSET Nat]
                   /\ \A c \in Ids : jobs'[c] \subseteq keys'[c] /\ (c > created' => jobs'[c] = {})
<1> SUFFICES Goal
  OBVIOUS
<1>n. /\ now + Approaching \in Nat /\ now + Target \in Nat /\ now + CloseAfter \in Nat
      /\ created' \in Nat /\ created' >= created /\ created \in Nat
      /\ \A c \in Ids : c \in Nat
  BY CaseConstants, RowsOfCases, CreatedGrows
<1>k. CASE keys' = keys /\ jobs' = jobs
  <2>1. \A c \in Ids : c > created' => c > created
    BY <1>n
  <2> QED BY <1>k, <2>1 DEF CaseShape
<1>s. ASSUME NEW c \in Ids, c <= created', NEW instants \in SUBSET Nat, Schedule(c, instants)
      PROVE  Goal
  BY <1>n, <1>s, Scheduled
<1> HIDE DEF Goal
<1>1. ASSUME NEW m \in Messages, Intake(m) PROVE Goal
  <2>1. CASE keys' = keys /\ jobs' = jobs
    BY <1>k, <2>1 DEF Goal
  <2>2. CASE created' = created + 1 /\ Schedule(created', {now + Approaching, now + Target})
    <3>1. created' \in Ids
      BY <1>n, <2>2, CreatedGrows DEF Ids
    <3> QED BY <1>n, <1>s, <2>2, <3>1
  <2> QED BY <1>1, <2>1, <2>2 DEF Intake
<1>2. ASSUME NEW o \in Officers, NEW target \in Decisions, Transition(o, target) PROVE Goal
  <2>1. CASE keys' = keys /\ jobs' = jobs
    BY <1>k, <2>1 DEF Goal
  <2>2. CASE Schedule(seen[o].case, {now + CloseAfter})
    <3>1. seen[o].case \in Ids /\ seen[o].case \in 1 .. created
      BY <1>2, TransitionDoes
    <3>2. seen[o].case <= created'
      BY <1>n, <3>1
    <3> QED BY <1>n, <1>s, <2>2, <3>1, <3>2
  <2> QED BY <1>2, <2>1, <2>2 DEF Transition
<1>3. ASSUME NEW r \in Reports, NEW c \in Ids, ReportPersists(r, c) PROVE Goal
  <2>1. CASE keys' = keys /\ jobs' = jobs
    BY <1>k, <2>1 DEF Goal
  <2>2. CASE created' = created + 1 /\ Schedule(created', {now + Approaching, now + Target})
    <3>1. created' \in Ids
      BY <1>n, <2>2, CreatedGrows DEF Ids
    <3> QED BY <1>n, <1>s, <2>2, <3>1
  <2>3. CASE Schedule(c, {now + Approaching, now + Target})
    <3>1. c <= created'
      BY <1>3, <1>n, RowsOfCases DEF ReportPersists
    <3> QED BY <1>n, <1>s, <2>3, <3>1
  <2> QED BY <1>3, <2>1, <2>2, <2>3 DEF ReportPersists
<1>4. ASSUME NEW r \in Reports, NEW c \in Ids, Respond(r, c) PROVE Goal
  <2>1. CASE keys' = keys /\ jobs' = jobs
    BY <1>k, <2>1 DEF Goal
  <2>2. CASE Schedule(c, {now + CloseAfter})
    <3>1. c <= created'
      BY <1>4, <1>n, RowsOfCases DEF Respond
    <3> QED BY <1>n, <1>s, <2>2, <3>1
  <2> QED BY <1>4, <2>1, <2>2 DEF Respond
<1>5. ASSUME NEW c \in Ids, NEW t \in 0 .. MaxTime, RunTimer(c, t) PROVE Goal
  <2>1. CASE keys' = keys /\ jobs' = jobs
    BY <1>k, <2>1 DEF Goal
  <2>2. CASE keys' = keys /\ jobs' = [jobs EXCEPT ![c] = @ \ {t}]
    <3>1. /\ jobs' \in [Ids -> SUBSET Nat]
          /\ \A d \in Ids : jobs'[d] \subseteq jobs[d]
      BY <2>2 DEF CaseShape
    <3>2. \A d \in Ids : d > created' => d > created
      BY <1>n
    <3> QED BY <2>2, <3>1, <3>2 DEF CaseShape, Goal
  <2> QED BY <1>5, <2>1, <2>2 DEF RunTimer
<1>6. CASE \/ \E m \in Messages : Prepare(m) \/ RefuseIntake(m)
           \/ \E o \in Officers, c \in Ids : Read(o, c)
           \/ Tick \/ UNCHANGED vars
  BY <1>6, <1>k DEF Prepare, RefuseIntake, Read, Tick, vars, Goal
<1> QED BY <1>1, <1>2, <1>3, <1>4, <1>5, <1>6 DEF Next

\* An intake is built by Prepare, and then only refused.
LEMMA PreparedStep ==
  ASSUME CaseShape, [Next]_vars
  PROVE  /\ prepared' \in [Messages -> Intakes \cup {NoIntake}]
         /\ \A m \in Messages : prepared'[m].state = "prepared" =>
              \/ prepared'[m] = prepared[m]
              \/ Prepare(m)
<1>k. CASE prepared' = prepared
  BY <1>k DEF CaseShape
<1>1. ASSUME NEW m \in Messages, Prepare(m)
      PROVE  /\ prepared' \in [Messages -> Intakes \cup {NoIntake}]
             /\ \A v \in Messages : v # m => prepared'[v] = prepared[v]
  <2>1. \A f \in SUBSET Messages, n \in Nat, c \in {0} \cup Ids : Parameters(f, n, c) \in Intakes
    BY DEF Parameters, Intakes
  <2>2. \A c \in Open : case[c].facts \in SUBSET Messages /\ case[c].revision \in Nat /\ c \in Ids
    BY RowsOfCases, RowFields DEF Open
  <2>3. \E p \in Intakes : prepared' = [prepared EXCEPT ![m] = p]
    <3>1. \A c \in Open, more \in {{}, {m}} : case[c].facts \cup more \in SUBSET Messages
      BY <2>2
    <3> QED BY <1>1, <2>1, <2>2, <3>1 DEF Prepare, NoVersion
  <2> QED BY <2>3 DEF CaseShape
<1>2. ASSUME NEW m \in Messages, RefuseIntake(m)
      PROVE  /\ prepared' \in [Messages -> Intakes \cup {NoIntake}]
             /\ prepared'[m].state = "refused"
             /\ \A v \in Messages : v # m => prepared'[v] = prepared[v]
  <2>1. prepared[m] \in Intakes
    BY <1>2 DEF RefuseIntake, CaseShape, NoIntake
  <2>2. /\ [prepared[m] EXCEPT !.state = "refused"] \in Intakes
        /\ [prepared[m] EXCEPT !.state = "refused"].state = "refused"
    BY <2>1 DEF Intakes
  <2>3. prepared' = [prepared EXCEPT ![m] = [prepared[m] EXCEPT !.state = "refused"]]
    BY <1>2 DEF RefuseIntake
  <2> DEFINE p == [prepared[m] EXCEPT !.state = "refused"]
  <2> HIDE DEF p
  <2>4. p \in Intakes /\ p.state = "refused" /\ prepared' = [prepared EXCEPT ![m] = p]
    BY <2>2, <2>3 DEF p
  <2> QED BY <2>4 DEF CaseShape
<1>3. CASE /\ \A m \in Messages : ~Prepare(m) /\ ~RefuseIntake(m)
  BY <1>3, <1>k DEF Next, vars, Intake, Read, Transition, ReportPersists, Respond, RunTimer, Tick
<1> QED BY <1>1, <1>2, <1>3

\* What an officer remembers comes from a reading, and is forgotten with a decision.
LEMMA SeenStep ==
  ASSUME CaseInv, [Next]_vars
  PROVE  /\ seen' \in [Officers -> Sightings \cup {NoCase}]
         /\ \A o \in Officers : seen'[o] # NoCase =>
              \/ seen'[o] = seen[o]
              \/ \E c \in Ids :
                   /\ case[c] \in Rows /\ seen'[o].case = c /\ case' = case
                   /\ seen'[o].revision = case[c].revision
                   /\ seen'[o].facts = case[c].facts /\ seen'[o].status = case[c].status
         /\ \A o \in Officers : seen[o] # NoCase /\ seen'[o] = NoCase =>
              \E target \in Decisions : Transition(o, target)
<1> USE DEF CaseInv
<1>k. CASE seen' = seen
  BY <1>k DEF CaseShape
<1>1. ASSUME NEW o \in Officers, NEW c \in Ids, Read(o, c)
      PROVE  /\ seen' \in [Officers -> Sightings \cup {NoCase}]
             /\ \A v \in Officers : v # o => seen'[v] = seen[v]
             /\ seen'[o] # NoCase
             /\ case[c] \in Rows /\ seen'[o].case = c /\ case' = case
             /\ seen'[o].revision = case[c].revision
             /\ seen'[o].facts = case[c].facts /\ seen'[o].status = case[c].status
  <2> DEFINE s == [status |-> case[c].status, revision |-> case[c].revision,
                   facts |-> case[c].facts, case |-> c]
  <2>1. case[c] \in Rows /\ case' = case /\ seen' = [seen EXCEPT ![o] = s]
    BY <1>1, RowsOfCases DEF Read
  <2>2. /\ case[c].status \in Statuses /\ case[c].revision \in Nat
        /\ case[c].facts \in SUBSET Messages
    BY <2>1, RowFields
  <2>3. /\ s \in Sightings /\ s.case = c /\ s.revision = case[c].revision
        /\ s.facts = case[c].facts /\ s.status = case[c].status
    BY <2>2 DEF Sightings
  <2>4. s # NoCase
    BY <2>2, <2>3, StatusFacts DEF NoCase
  <2> HIDE DEF s
  <2>5. seen'[o] = s /\ \A v \in Officers : v # o => seen'[v] = seen[v]
    BY <2>1 DEF CaseShape
  <2>6. seen' \in [Officers -> Sightings \cup {NoCase}]
    BY <2>1, <2>3 DEF CaseShape
  <2> QED BY <2>1, <2>3, <2>4, <2>5, <2>6
<1>2. ASSUME NEW o \in Officers, NEW target \in Decisions, Transition(o, target)
      PROVE  /\ seen' \in [Officers -> Sightings \cup {NoCase}]
             /\ \A v \in Officers : v # o => seen'[v] = seen[v]
             /\ seen'[o] = NoCase
  BY <1>2 DEF Transition, CaseShape
<1>3. CASE \E o \in Officers, c \in Ids : Read(o, c)
  <2>1. PICK o \in Officers, c \in Ids : Read(o, c)
    BY <1>3
  <2>2. \A v \in Officers : seen'[v] # NoCase => seen'[v] = seen[v] \/ v = o
    BY <1>1, <2>1
  <2>3. \A v \in Officers : seen[v] # NoCase /\ seen'[v] = NoCase => FALSE
    BY <1>1, <2>1
  <2> QED BY <1>1, <2>1, <2>2, <2>3
<1>4. CASE \E o \in Officers, target \in Decisions : Transition(o, target)
  <2>1. PICK o \in Officers, target \in Decisions : Transition(o, target)
    BY <1>4
  <2>2. \A v \in Officers : seen'[v] # NoCase => seen'[v] = seen[v]
    BY <1>2, <2>1
  <2>3. \A v \in Officers : seen[v] # NoCase /\ seen'[v] = NoCase => v = o
    BY <1>2, <2>1
  <2> QED BY <1>2, <2>1, <2>2, <2>3
<1>5. CASE \/ \E m \in Messages : Prepare(m) \/ Intake(m) \/ RefuseIntake(m)
           \/ \E r \in Reports, c \in Ids : ReportPersists(r, c) \/ Respond(r, c)
           \/ \E c \in Ids, t \in 0 .. MaxTime : RunTimer(c, t)
           \/ Tick \/ UNCHANGED vars
  BY <1>5, <1>k DEF Prepare, Intake, RefuseIntake, ReportPersists, Respond, RunTimer, Tick, vars
<1> QED BY <1>3, <1>4, <1>5 DEF Next

\* No step leaves the types, an unapplied operation with an effect, or an alert before
\* its time.
LEMMA ShapeStep ==
  ASSUME CaseInv, [Next]_vars
  PROVE  CaseShape' /\ RowsSound' /\ FreshUnapplied' /\ AlertTruthful'
<1> USE DEF CaseInv
<1>1. CasesMove /\ now' \in 0 .. MaxTime /\ now' >= now /\ capability' = capability
  BY CasesStep
<1>2. /\ created' \in 0 .. MaxCases /\ created' >= created
      /\ \A c \in Ids : IF c <= created' THEN case'[c] \in Rows ELSE case'[c] = NoCase
  BY <1>1, CreatedGrows
<1>3. /\ receipts' \in [Operations -> 0 .. created'] /\ effects' \in [Operations -> Nat]
      /\ FreshUnapplied'
  <2>0. created \in Nat /\ created' \in Nat /\ 0 .. created \subseteq 0 .. created'
    BY <1>2, RowsOfCases
  <2>1. CASE receipts' = receipts /\ effects' = effects
    BY <2>0, <2>1 DEF CaseShape, FreshUnapplied, Fresh
  <2>2. ASSUME NEW op \in Operations, NEW c \in Ids, Linked(op, c),
               effects' \in {effects, [effects EXCEPT ![op] = @ + 1]}
        PROVE  /\ receipts' \in [Operations -> 0 .. created'] /\ effects' \in [Operations -> Nat]
               /\ FreshUnapplied'
    <3>1. c \in 0 .. created' /\ c # 0
      BY <2>0, <2>2 DEF Linked
    <3>2. receipts' \in [Operations -> 0 .. created']
      BY <2>0, <2>2, <3>1 DEF CaseShape, Linked
    <3>3. /\ effects' \in [Operations -> Nat]
          /\ \A v \in Operations : v # op => effects'[v] = effects[v]
      BY <2>2 DEF CaseShape
    <3>4. receipts'[op] # 0 /\ \A v \in Operations : v # op => receipts'[v] = receipts[v]
      BY <2>2, <3>1 DEF Linked, CaseShape
    <3>5. FreshUnapplied'
      BY <3>3, <3>4 DEF FreshUnapplied, Fresh
    <3> QED BY <3>2, <3>3, <3>5
  <2> QED BY <2>1, <2>2, LinksStep DEF LinksMove
<1>4. /\ keys' \in [Ids -> SUBSET Nat] /\ jobs' \in [Ids -> SUBSET Nat]
      /\ \A c \in Ids : jobs'[c] \subseteq keys'[c] /\ (c > created' => jobs'[c] = {})
  BY <1>1, JobsStep
<1>5. /\ prepared' \in [Messages -> Intakes \cup {NoIntake}]
      /\ seen' \in [Officers -> Sightings \cup {NoCase}]
  BY PreparedStep, SeenStep
<1>6. CaseShape'
  BY <1>1, <1>2, <1>3, <1>4, <1>5 DEF CaseShape, CasesMove
<1>7. ASSUME NEW c \in Ids, case'[c] # NoCase
      PROVE  /\ case'[c].revision # 0 /\ case'[c].approachingAt <= case'[c].targetAt
             /\ case'[c].alert # "ON_TRACK" => now' >= case'[c].approachingAt
             /\ case'[c].alert = "OVERDUE" => now' >= case'[c].targetAt
  <2>1. CASE case[c] \in Rows
    <3>1. Follows(c)
      BY <1>1, <2>1 DEF CasesMove
    <3>2. case[c].revision \in Nat /\ case[c].revision # 0 /\ case'[c].revision \in Nat
      BY <2>1, <3>1, RowFields DEF RowsSound, Follows
    <3>3. case'[c].revision # 0
      BY <3>1, <3>2 DEF Follows
    <3> QED BY <3>1, <3>3 DEF Follows
  <2>2. CASE case[c] = NoCase
    <3>1. Succeeds
      BY <1>1, <1>7, <2>2 DEF CasesMove, Stays
    <3>2. c = created + 1
      BY <1>7, <2>2, <3>1, RowsOfCases DEF Succeeds
    <3> QED BY <3>1, <3>2 DEF Succeeds, NewRow
  <2> QED BY <2>1, <2>2, RowsOfCases
<1> QED BY <1>3, <1>6, <1>7 DEF RowsSound, AlertTruthful

\* No step makes a second case active: a new one is opened only when the others are
\* closed.
LEMMA OneActiveStep ==
  ASSUME CaseInv, [Next]_vars
  PROVE  OneActive'
<1> USE DEF CaseInv
<1>0. CasesMove /\ CaseShape'
  BY CasesStep, ShapeStep
<1> SUFFICES ASSUME NEW c \in Equivalent', NEW d \in Equivalent'
             PROVE  c = d
  BY DEF OneActive
<1>1. ASSUME NEW b \in Ids, b \in Equivalent', case[b] \in Rows PROVE b \in Equivalent
  <2>1. case'[b].status \notin Terminal
    BY <1>1 DEF Equivalent
  <2>2. case[b].status \notin Terminal
    BY <1>0, <1>1, <2>1 DEF CasesMove, Follows
  <2>3. case[b].status # "ABSENT"
    BY <1>1, RowsOfCases
  <2> QED BY <2>2, <2>3 DEF Equivalent
<1>2. c \in Ids /\ d \in Ids
  BY DEF Equivalent
<1>3. \A b \in Ids : b \in Equivalent' => case'[b] # NoCase
  BY DEF Equivalent, NoCase
<1>4. CASE Stays
  <2>1. case[c] \in Rows /\ case[d] \in Rows
    BY <1>2, <1>3, <1>4, RowsOfCases DEF Stays
  <2> QED BY <1>1, <1>2, <2>1 DEF OneActive
<1>5. CASE Succeeds
  <2>1. ASSUME NEW b \in Ids, b \in Equivalent' PROVE b = created + 1
    <3> SUFFICES ASSUME b # created + 1 PROVE FALSE
      OBVIOUS
    <3>1. CASE b \notin Equivalent /\ case'[b] = case[b]
      <4>1. case[b] \in Rows
        BY <1>3, <2>1, <3>1, RowsOfCases
      <4> QED BY <1>1, <2>1, <3>1, <4>1
    <3>2. CASE b \in Equivalent /\ case'[b] = Changed(b, "CLOSED")
      <4>1. case'[b].status = "CLOSED"
        BY <3>2, ChangedFields, RowsOfCases, StatusFacts
      <4> QED BY <2>1, <4>1, StatusFacts DEF Equivalent
    <3> QED BY <1>5, <3>1, <3>2 DEF Succeeds
  <2> QED BY <1>2, <2>1
<1> QED BY <1>0, <1>4, <1>5 DEF CasesMove

\* No step makes an intake out of date that is still of the revision of its case: what
\* changes the facts raises the revision.
LEMMA BuiltOnReadStep ==
  ASSUME CaseInv, [Next]_vars
  PROVE  IntakesBuiltOnRead'
<1> USE DEF CaseInv
<1>0. /\ CasesMove /\ created' >= created /\ created' \in Nat /\ created \in Nat
      /\ capability' = capability
  BY CasesStep, CreatedGrows, RowsOfCases
<1> SUFFICES ASSUME capability = "returns_claims", NEW m \in Messages,
                    prepared'[m].state = "prepared"
             PROVE  LET p == prepared'[m] IN
                    /\ p.case = 0 => p.expected = 0
                    /\ p.case # 0 =>
                         /\ p.case <= created'
                         /\ p.expected <= case'[p.case].revision
                         /\ p.expected = case'[p.case].revision =>
                              case'[p.case].facts \subseteq p.facts
  BY <1>0 DEF IntakesBuiltOnRead
<1> DEFINE p == prepared'[m]
<1>1. CASE p = prepared[m]
  <2>1. /\ p.case = 0 => p.expected = 0
        /\ p.case # 0 =>
             /\ p.case <= created
             /\ p.expected <= case[p.case].revision
             /\ p.expected = case[p.case].revision => case[p.case].facts \subseteq p.facts
    BY <1>1 DEF IntakesBuiltOnRead
  <2>2. p \in Intakes
    BY <1>1 DEF CaseShape, NoIntake
  <2>3. p.case \in {0} \cup Ids /\ p.expected \in Nat
    BY <2>2 DEF Intakes
  <2> HIDE DEF p
  <2>4. ASSUME p.case # 0
        PROVE  /\ p.case <= created'
               /\ p.expected <= case'[p.case].revision
               /\ p.expected = case'[p.case].revision => case'[p.case].facts \subseteq p.facts
    <3> DEFINE c == p.case
    <3>1. c \in Ids /\ c <= created /\ c \in Nat
      BY <2>1, <2>3, <2>4, RowsOfCases
    <3>2. case[c] \in Rows /\ Follows(c)
      BY <1>0, <3>1 DEF CaseShape, CasesMove
    <3>3. case[c].revision \in Nat /\ case'[c].revision \in Nat
      BY <3>2, RowFields DEF Follows
    <3>4. p.expected <= case[c].revision
          /\ (p.expected = case[c].revision => case[c].facts \subseteq p.facts)
      BY <2>1, <2>4
    <3>5. case'[c].revision >= case[c].revision
          /\ (case'[c].revision = case[c].revision => case'[c].facts = case[c].facts)
      BY <3>2 DEF Follows
    <3> HIDE DEF c
    <3>6. c <= created'
      BY <1>0, <3>1
    <3>7. p.expected <= case'[c].revision
      BY <2>3, <3>3, <3>4, <3>5
    <3>8. p.expected = case'[c].revision => p.expected = case[c].revision
      BY <2>3, <3>3, <3>4, <3>5
    <3>9. p.expected = case'[c].revision => case'[c].facts \subseteq p.facts
      BY <3>4, <3>5, <3>8
    <3> QED BY <3>6, <3>7, <3>9 DEF c
  <2> QED BY <2>1, <2>4 DEF p
<1>2. CASE Prepare(m)
  <2>1. case' = case /\ created' = created
    BY <1>2 DEF Prepare
  <2>2. CASE prepared' = [prepared EXCEPT ![m] = Parameters({m}, 0, 0)]
    <3>1. p.expected = 0 /\ p.case = 0
      BY <2>2 DEF CaseShape, Parameters
    <3> QED BY <3>1
  <2>3. ASSUME NEW c \in Open, NEW more \in {{}, {m}},
               prepared' = [prepared EXCEPT ![m] =
                              Parameters(case[c].facts \cup more, case[c].revision, c)]
        PROVE  /\ p.case = c /\ c # 0 /\ c <= created
               /\ p.expected = case[c].revision /\ case[c].revision \in Nat
               /\ case[c].facts \subseteq p.facts
    <3>1. p.facts = case[c].facts \cup more /\ p.expected = case[c].revision /\ p.case = c
      BY <2>3 DEF CaseShape, Parameters
    <3>2. c # 0 /\ c <= created /\ case[c].revision \in Nat
      BY RowsOfCases, RowFields DEF Open
    <3> QED BY <3>1, <3>2
  <2>4. CASE \E c \in Open, more \in {{}, {m}} :
               prepared' = [prepared EXCEPT ![m] =
                              Parameters(case[c].facts \cup more, case[c].revision, c)]
    <3>1. PICK c \in Open, more \in {{}, {m}} :
            prepared' = [prepared EXCEPT ![m] =
                           Parameters(case[c].facts \cup more, case[c].revision, c)]
      BY <2>4
    <3>2. /\ p.case = c /\ c # 0 /\ c <= created
          /\ p.expected = case[c].revision /\ case[c].revision \in Nat
          /\ case[c].facts \subseteq p.facts
      BY <2>3, <3>1
    <3> HIDE DEF p
    <3>3. p.expected <= case'[p.case].revision /\ p.case <= created'
      BY <2>1, <3>2
    <3>4. case'[p.case].facts \subseteq p.facts
      BY <2>1, <3>2
    <3> QED BY <3>2, <3>3, <3>4 DEF p
  <2> QED BY <1>2, <2>2, <2>4 DEF Prepare
<1> QED BY <1>1, <1>2, PreparedStep

\* What has a receipt is not prepared again, or refused.
LEMMA ReceiptsStep ==
  ASSUME CaseInv, [Next]_vars
  PROVE  /\ ReceiptsOfPrepared'
         /\ \A m \in Messages : receipts[m] # 0 => prepared'[m] = prepared[m]
<1> USE DEF CaseInv
<1>0. Messages \subseteq Operations
  BY DEF Operations
<1>1. CASE \E m \in Messages : Prepare(m) \/ RefuseIntake(m)
  <2>1. PICK m \in Messages : Prepare(m) \/ RefuseIntake(m)
    BY <1>1
  <2>2. receipts' = receipts /\ receipts[m] = 0
    BY <2>1 DEF Prepare, RefuseIntake, Fresh, ReceiptsOfPrepared, NoIntake
  <2>3. \A v \in Messages : v # m => prepared'[v] = prepared[v]
    BY <2>1 DEF Prepare, RefuseIntake, CaseShape
  <2> QED BY <2>2, <2>3 DEF ReceiptsOfPrepared
<1>2. CASE \A m \in Messages : ~Prepare(m) /\ ~RefuseIntake(m)
  <2>1. prepared' = prepared
    BY <1>2 DEF Next, vars, Intake, Read, Transition, ReportPersists, Respond, RunTimer, Tick
  <2>2. CASE receipts' = receipts
    BY <2>1, <2>2 DEF ReceiptsOfPrepared
  <2>3. ASSUME NEW op \in Operations, NEW c \in Ids, Linked(op, c),
               op \in Messages => prepared[op].state = "prepared"
        PROVE  ReceiptsOfPrepared'
    <3>1. \A v \in Operations : v # op => receipts'[v] = receipts[v]
      BY <2>3 DEF Linked, CaseShape
    <3> QED BY <1>0, <2>1, <2>3, <3>1 DEF ReceiptsOfPrepared
  <2> QED BY <2>1, <2>2, <2>3, LinksStep DEF LinksMove
<1> QED BY <1>1, <1>2

\* No step loses a fact, or applies an operation twice.
LEMMA NoFactLostStep ==
  ASSUME CaseInv, [Next]_vars
  PROVE  NoFactLost'
<1> USE DEF CaseInv
<1>0. CasesMove /\ capability' = capability /\ LinksMove
  BY CasesStep, LinksStep
<1>k. ASSUME NEW m \in Messages, receipts[m] # 0, capability = "returns_claims"
      PROVE  prepared'[m].facts \subseteq case'[receipts[m]].facts
             /\ m \in case'[receipts[m]].sources
  <2>1. prepared[m].facts \subseteq case[receipts[m]].facts /\ m \in case[receipts[m]].sources
    BY <1>k DEF NoFactLost
  <2>2. receipts[m] \in Ids /\ receipts[m] <= created
    BY <1>k, RowsOfCases DEF CaseShape, Operations
  <2>3. Follows(receipts[m])
    BY <1>0, <2>2 DEF CasesMove, CaseShape
  <2>4. prepared'[m] = prepared[m]
    BY <1>k, ReceiptsStep
  <2> QED BY <2>1, <2>3, <2>4 DEF Follows
<1>1. CASE receipts' = receipts /\ effects' = effects
  BY <1>0, <1>1, <1>k DEF NoFactLost, AppliedOnce
<1>2. ASSUME NEW op \in Operations, NEW c \in Ids,
             Linked(op, c), effects' \in {effects, [effects EXCEPT ![op] = @ + 1]},
             op \in Messages /\ capability = "returns_claims" =>
               prepared'[op].facts \subseteq case'[c].facts /\ op \in case'[c].sources
      PROVE  NoFactLost'
  <2>1. receipts'[op] = c /\ \A v \in Operations : v # op => receipts'[v] = receipts[v]
    BY <1>2 DEF Linked, CaseShape
  <2>2. effects[op] = 0
    BY <1>2 DEF FreshUnapplied, Linked
  <2>3. \A v \in Operations : effects'[v] <= 1
    <3>1. \A v \in Operations : effects[v] <= 1
      BY DEF NoFactLost, AppliedOnce
    <3>2. \A v \in Operations : effects'[v] = effects[v] \/ (v = op /\ effects'[v] = effects[v] + 1)
      BY <1>2 DEF CaseShape
    <3> QED BY <2>2, <3>1, <3>2
  <2>4. ASSUME capability = "returns_claims", NEW m \in Messages, receipts'[m] # 0
        PROVE  prepared'[m].facts \subseteq case'[receipts'[m]].facts
               /\ m \in case'[receipts'[m]].sources
    <3>0. m \in Operations
      BY DEF Operations
    <3>1. CASE m = op
      BY <1>2, <2>1, <2>4, <3>1
    <3>2. CASE m # op
      BY <1>k, <2>1, <2>4, <3>0, <3>2
    <3> QED BY <3>1, <3>2
  <2> QED BY <1>0, <2>3, <2>4 DEF NoFactLost, AppliedOnce
<1> QED BY <1>0, <1>1, <1>2 DEF LinksMove

\* No step changes what an officer looks at without raising the revision.
LEMMA SightingsStep ==
  ASSUME CaseInv, [Next]_vars
  PROVE  SightingsDated'
<1> USE DEF CaseInv
<1>0. CasesMove /\ created' >= created /\ created' \in Nat /\ created \in Nat
  BY CasesStep, CreatedGrows, RowsOfCases
<1> SUFFICES ASSUME NEW o \in Officers, seen'[o] # NoCase
             PROVE  LET s == seen'[o] IN
                    /\ s.case <= created'
                    /\ s.revision <= case'[s.case].revision
                    /\ s.revision = case'[s.case].revision =>
                         s.facts = case'[s.case].facts /\ s.status = case'[s.case].status
  BY DEF SightingsDated
<1> DEFINE s == seen'[o]
           c == seen'[o].case
<1>1. CASE s = seen[o]
  <2>1. /\ c <= created
        /\ s.revision <= case[c].revision
        /\ s.revision = case[c].revision => s.facts = case[c].facts /\ s.status = case[c].status
    BY <1>1 DEF SightingsDated
  <2>2. s \in Sightings
    BY <1>1 DEF CaseShape
  <2>3. c \in Ids /\ s.revision \in Nat /\ c \in Nat
    BY <2>2, RowsOfCases DEF Sightings
  <2>4. case[c] \in Rows /\ Follows(c)
    BY <1>0, <2>1, <2>3 DEF CaseShape, CasesMove
  <2>5. case[c].revision \in Nat /\ case'[c].revision \in Nat
    BY <2>4, RowFields DEF Follows
  <2>6. /\ case'[c].revision >= case[c].revision
        /\ case'[c].revision = case[c].revision =>
             case'[c].facts = case[c].facts /\ case'[c].status = case[c].status
    BY <2>4 DEF Follows
  <2> DEFINE n == s.revision
  <2>7. n \in Nat /\ n <= case[c].revision
    BY <2>1, <2>3
  <2> HIDE DEF s, c, n
  <2>8. c <= created'
    BY <1>0, <2>1, <2>3
  <2>9. n <= case'[c].revision /\ (n = case'[c].revision => n = case[c].revision)
    BY <2>5, <2>6, <2>7
  <2>10. n = case'[c].revision => s.facts = case'[c].facts /\ s.status = case'[c].status
    BY <2>1, <2>6, <2>9 DEF n
  <2> QED BY <2>8, <2>9, <2>10 DEF s, c, n
<1>2. CASE \E d \in Ids :
             /\ case[d] \in Rows /\ s.case = d /\ case' = case
             /\ s.revision = case[d].revision
             /\ s.facts = case[d].facts /\ s.status = case[d].status
  <2>1. case[c] \in Rows /\ c \in Ids /\ case' = case /\ s.revision = case[c].revision
        /\ s.facts = case[c].facts /\ s.status = case[c].status
    BY <1>2
  <2>2. c <= created /\ c \in Nat /\ case[c].revision \in Nat
    BY <2>1, RowsOfCases, RowFields
  <2> QED BY <1>0, <2>1, <2>2
<1> QED BY <1>1, <1>2, SeenStep

\* The initial states satisfy the inductive invariant.
LEMMA CaseStart == Init => CaseInv
<1> SUFFICES ASSUME Init PROVE CaseInv
  OBVIOUS
<1>0. \A c \in Ids : c \in Nat /\ ~(c <= 0)
  BY CaseConstants DEF Ids
<1>1. CaseShape
  <2> USE DEF Init
  <2>1. now \in 0 .. MaxTime /\ created \in 0 .. MaxCases
    BY CaseConstants
  <2>2. \A c \in Ids : IF c <= created THEN case[c] \in Rows ELSE case[c] = NoCase
    BY <1>0
  <2>3. receipts \in [Operations -> 0 .. created] /\ effects \in [Operations -> Nat]
    OBVIOUS
  <2>4. /\ keys \in [Ids -> SUBSET Nat] /\ jobs \in [Ids -> SUBSET Nat]
        /\ \A c \in Ids : jobs[c] \subseteq keys[c] /\ (c > created => jobs[c] = {})
    OBVIOUS
  <2> QED BY <2>1, <2>2, <2>3, <2>4 DEF CaseShape
<1>2. /\ \A c \in Ids : case[c] = NoCase
      /\ \A m \in Messages : prepared[m].state = "unprepared"
      /\ \A o \in Officers : seen[o] = NoCase
      /\ \A op \in Operations : receipts[op] = 0 /\ effects[op] = 0
  BY DEF Init, NoIntake
<1>3. Equivalent = {}
  BY <1>2 DEF Equivalent, NoCase
<1>4. RowsSound /\ OneActive /\ FreshUnapplied /\ IntakesBuiltOnRead /\ ReceiptsOfPrepared
  BY <1>2, <1>3
     DEF RowsSound, OneActive, FreshUnapplied, IntakesBuiltOnRead, ReceiptsOfPrepared, Operations
<1>5. NoFactLost /\ AlertTruthful /\ SightingsDated
  BY <1>2 DEF NoFactLost, AppliedOnce, AlertTruthful, SightingsDated, Operations
<1> QED BY <1>1, <1>4, <1>5 DEF CaseInv

\* No step leaves it.
LEMMA CaseStep == CaseInv /\ [Next]_vars => CaseInv'
<1> SUFFICES ASSUME CaseInv, [Next]_vars PROVE CaseInv'
  OBVIOUS
<1>1. CaseShape' /\ RowsSound' /\ FreshUnapplied' /\ AlertTruthful'
  BY ShapeStep
<1>2. OneActive' /\ IntakesBuiltOnRead' /\ ReceiptsOfPrepared' /\ NoFactLost' /\ SightingsDated'
  BY OneActiveStep, BuiltOnReadStep, ReceiptsStep, NoFactLostStep, SightingsStep
<1> QED BY <1>1, <1>2 DEF CaseInv

\* Every reachable state of an incident, for any messages, reports and officers and
\* any policy, satisfies the inductive invariant.
THEOREM CaseInvariant == Spec => []CaseInv
BY CaseStart, CaseStep, PTL DEF Spec

\* CaseService: no transaction writes what a constraint of the case tables would have
\* to refuse; in particular the incident has at most one active case.
THEOREM ConstraintsHoldAlways == Spec => []ConstraintsHold
<1>1. CaseInv => ConstraintsHold
  <2> SUFFICES ASSUME CaseInv PROVE ConstraintsHold
    OBVIOUS
  <2>1. TypeOK
    <3>1. \A m \in Messages : prepared[m] = NoIntake \/ prepared[m].facts \subseteq Messages
      BY DEF CaseInv, CaseShape, Intakes
    <3> QED BY <3>1 DEF CaseInv, CaseShape, TypeOK
  <2>2. OneActiveCase
    <3>1. Equivalent = {} \/ \E c : Equivalent = {c}
      BY DEF CaseInv, OneActive
    <3>2. CASE Equivalent = {}
      BY <3>2, FS_EmptySet DEF OneActiveCase
    <3>3. CASE \E c : Equivalent = {c}
      BY <3>3, FS_Singleton DEF OneActiveCase
    <3> QED BY <3>1, <3>2, <3>3
  <2> QED BY <2>1, <2>2 DEF ConstraintsHold
<1> QED BY <1>1, CaseInvariant, PTL

\* find_or_create and merge_provenance: a claim that was accepted took effect once, all
\* it says stays in the facts of its case, and it in their sources, whatever other
\* messages were prepared on the same revision.
THEOREM NoFactLostHolds == Spec => []NoFactLost
<1>1. CaseInv => NoFactLost
  BY DEF CaseInv
<1> QED BY <1>1, CaseInvariant, PTL

\* CaseService.transition: the backoffice decides on a case with the status and the
\* facts the officer read.
THEOREM DecidedAsSeenHolds == Spec => DecidedAsSeen
<1>1. CaseInv /\ [Next]_vars =>
        [\A o \in Officers :
           seen[o] # NoCase /\ seen'[o] = NoCase =>
             /\ case[seen[o].case].facts = seen[o].facts
             /\ case[seen[o].case].status = seen[o].status]_vars
  BY SeenStep, TransitionDoes
<1> QED BY <1>1, CaseInvariant, PTL DEF Spec, DecidedAsSeen

\* CaseService: a closed case stays as it was, no case goes back in its revisions, and
\* no resolution is closed, and no alert raised, before its time.
THEOREM HistoryStandsHolds == Spec => HistoryStands
<1>1. CaseInv /\ [Next]_vars =>
        [\A c \in Ids : case[c] # NoCase =>
           /\ case[c].status \in Terminal => case'[c] = case[c]
           /\ case'[c].revision >= case[c].revision
           /\ case[c].status = "RESOLVED" /\ case'[c].status = "CLOSED" => now >= case[c].closeAt
           /\ AlertTruthful']_vars
  <2> SUFFICES ASSUME CaseInv, [Next]_vars, NEW c \in Ids, case[c] # NoCase
               PROVE  Follows(c) /\ AlertTruthful'
    BY DEF Follows
  <2>1. case[c] \in Rows
    BY RowsOfCases DEF CaseInv
  <2> QED BY <2>1, CasesStep, ShapeStep DEF CasesMove
<1> QED BY <1>1, CaseInvariant, PTL DEF Spec, HistoryStands
===============================================================================
