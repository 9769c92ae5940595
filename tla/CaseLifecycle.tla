---------------------------- MODULE CaseLifecycle ----------------------------
(***************************************************************************)
(* The cases of one incident, that is of one deduplication key: the        *)
(* messages of the customer prepared as confirmed actions and taken in     *)
(* later, the decisions of the backoffice, the reports after a resolution, *)
(* and the timers of the response target and of the closing window.        *)
(*                                                                         *)
(* Every operation is one transaction of CaseService.  Between the moment  *)
(* a case is read (to prepare an intake, or by an officer) and the moment  *)
(* the operation built on it runs, anything may have happened.             *)
(***************************************************************************)
EXTENDS Naturals, FiniteSets

CONSTANTS
  Messages,     \* messages of the customer, each one confirmed intake action
  Required,     \* those without which the claim is incomplete
  Reports,      \* operations that report how a resolution went
  Officers,     \* people of the backoffice
  Decisions,    \* bound: the statuses they bring a case to
  CloseAfter,   \* policy: the time a resolution may be contested
  Approaching,  \* policy: when the response target is near
  Target,       \* policy: the response target
  MaxCases,     \* bound: cases of the incident
  MaxRevision,  \* bound: revisions the backoffice brings a case to
  MaxTime       \* bound: the clock

ASSUME CaseAssumption ==
  /\ Required \subseteq Messages
  /\ Messages \cap Reports = {}
  /\ CloseAfter \in Nat \ {0}
  /\ Approaching \in Nat
  /\ Target \in Nat
  /\ Approaching < Target
  /\ MaxCases \in Nat
  /\ MaxRevision \in Nat
  /\ MaxTime \in Nat

VARIABLES
  capability,  \* of the incident: "orders" or "returns_claims"
  now,         \* the clock
  created,     \* how many cases the incident has had
  case,        \* public.cases: the row of each, by its number
  keys,        \* instants a case ever had a cases.timer job for
  jobs,        \* those whose job is not completed
  prepared,    \* the parameters of the intake action of each message
  seen,        \* the case an officer is looking at, as it was read
  receipts,    \* case_operations: the case an operation was applied to, or 0
  effects      \* case_events written with the operation as their reference

vars == <<capability, now, created, case, keys, jobs, prepared, seen, receipts, effects>>

Ids == 1 .. MaxCases
Operations == Messages \cup Reports
Terminal == {"CLOSED", "REJECTED", "CANCELLED", "EXPIRED", "DUPLICATE"}
IntakeStates == {"OPEN", "AWAITING_INFORMATION", "READY_FOR_REVIEW"}
Statuses == Terminal \cup IntakeStates \cup
  {"PENDING_APPROVAL", "IN_PROGRESS", "RESOLVED", "REOPENED"}

Transitions ==
  [s \in Statuses |->
    CASE s = "OPEN" -> {"AWAITING_INFORMATION", "READY_FOR_REVIEW", "CANCELLED",
                        "EXPIRED", "DUPLICATE"}
      [] s = "AWAITING_INFORMATION" -> {"READY_FOR_REVIEW", "CANCELLED", "EXPIRED", "DUPLICATE"}
      [] s = "READY_FOR_REVIEW" -> {"AWAITING_INFORMATION", "PENDING_APPROVAL", "IN_PROGRESS",
                                    "REJECTED", "CANCELLED", "DUPLICATE"}
      [] s = "PENDING_APPROVAL" -> {"IN_PROGRESS", "REJECTED", "CANCELLED", "EXPIRED"}
      [] s = "IN_PROGRESS" -> {"AWAITING_INFORMATION", "RESOLVED", "CANCELLED"}
      [] s = "RESOLVED" -> {"REOPENED", "CLOSED"}
      [] s = "REOPENED" -> {"AWAITING_INFORMATION", "READY_FOR_REVIEW", "IN_PROGRESS", "CANCELLED"}
      [] OTHER -> {}]

\* The row of a case.  facts is what its content digest is taken of, sources
\* the messages recorded as its contributions.
Rows == [status: Statuses, revision: Nat, facts: SUBSET Messages, sources: SUBSET Messages,
         alert: {"ON_TRACK", "APPROACHING_TARGET", "OVERDUE"},
         approachingAt: Nat, targetAt: Nat, closeAt: Nat]

NoCase == [status |-> "ABSENT"]
NoIntake == [state |-> "unprepared"]
NoVersion == 0  \* expected_revision = None: the orders intake compares nothing

New(s, f, m) ==
  [status |-> s, revision |-> 1, facts |-> f, sources |-> m, alert |-> "ON_TRACK",
   approachingAt |-> now + Approaching, targetAt |-> now + Target, closeAt |-> 0]

Init ==
  /\ capability \in {"orders", "returns_claims"}
  /\ now = 0
  /\ created = 0
  /\ case = [c \in Ids |-> NoCase]
  /\ keys = [c \in Ids |-> {}]
  /\ jobs = [c \in Ids |-> {}]
  /\ prepared = [m \in Messages |-> NoIntake]
  /\ seen = [o \in Officers |-> NoCase]
  /\ receipts = [op \in Operations |-> 0]
  /\ effects = [op \in Operations |-> 0]

\* repo.equivalent: the rows the unique index of active cases ranges over.
Equivalent == {c \in Ids : case[c].status \notin Terminal \cup {"ABSENT"}}

WindowOver(c) == case[c].status = "RESOLVED" /\ now >= case[c].closeAt

\* What find_open answers: a resolution past its window no longer counts.
Open == {c \in Equivalent : ~WindowOver(c)}

\* repo.replay finds nothing: the operation has not been applied yet.
Fresh(op) == receipts[op] = 0

Applied(op, c) ==
  /\ receipts' = [receipts EXCEPT ![op] = c]
  /\ effects' = [effects EXCEPT ![op] = @ + 1]

\* _schedule: the outbox ignores a key it has seen.
Schedule(c, instants) ==
  /\ keys' = [keys EXCEPT ![c] = @ \cup instants]
  /\ jobs' = [jobs EXCEPT ![c] = @ \cup (instants \ keys[c])]

\* Bound: a resolution is made or extended while its window can still end.
InTime == now + CloseAfter <= MaxTime

\* _change: a resolution opens the window, a reopening starts the clock again.
Changed(c, target) ==
  LET row == [case[c] EXCEPT !.status = target, !.revision = @ + 1]
  IN  CASE target = "RESOLVED" -> [row EXCEPT !.closeAt = now + CloseAfter]
        [] target = "REOPENED" ->
             [row EXCEPT !.closeAt = 0, !.alert = "ON_TRACK",
                         !.approachingAt = now + Approaching, !.targetAt = now + Target]
        [] OTHER -> row

\* Mutation: a resolution past its window is ignored, not closed.
BesideOld(row) == [case EXCEPT ![created + 1] = row]

\* The rows after creating a successor; a resolution past its window is closed
\* in the same transaction.
WithSuccessor(row) ==
  [c \in Ids |-> IF c = created + 1 THEN row
                 ELSE IF c \in Equivalent /\ WindowOver(c) THEN Changed(c, "CLOSED")
                 ELSE case[c]]

------------------------------------------------------------------------------
(* Intake: ClaimsWorkflow.prepare, later CaseService.find_or_create.        *)

\* classify: what completeness makes of a claim, with an approved policy.
InitialStatus(f) ==
  IF capability = "orders" \/ Required \subseteq f
  THEN "READY_FOR_REVIEW" ELSE "AWAITING_INFORMATION"

Parameters(f, expected, c) ==
  [state |-> "prepared", facts |-> f, expected |-> expected, case |-> c]

\* A message becomes an action, built on the case as it is now; the customer
\* has yet to confirm it.  It adds a fact, or says again what the case says.
\* The orders intake does not read the case.
Prepare(m) ==
  /\ prepared[m] = NoIntake
  /\ \/ /\ capability = "orders"
        /\ prepared' = [prepared EXCEPT ![m] = Parameters({m}, NoVersion, 0)]
     \/ /\ capability = "returns_claims"
        /\ Open = {}
        /\ prepared' = [prepared EXCEPT ![m] = Parameters({m}, 0, 0)]
     \/ /\ capability = "returns_claims"
        /\ \E c \in Open, more \in {{}, {m}} :
             /\ case[c].status \in IntakeStates
             /\ prepared' = [prepared EXCEPT ![m] =
                  Parameters(case[c].facts \cup more, case[c].revision, c)]
  /\ UNCHANGED <<capability, now, created, case, keys, jobs, seen, receipts, effects>>

\* Mutation: the revision the intake was built on is not compared.
MayUpdateUnversioned(m, c) ==
  /\ prepared[m].case \in {0, c}
  /\ case[c].status \in IntakeStates

\* What find_or_create demands of an intake that meets an open case.
MayUpdate(m, c) ==
  /\ prepared[m].case \in {0, c}
  /\ case[c].status \in IntakeStates
  /\ IF case[c].facts # prepared[m].facts
     THEN case[c].revision = prepared[m].expected
     ELSE case[c].status = InitialStatus(prepared[m].facts)

\* Mutation: an intake that changes the content keeps the revision.
UpdatedQuietly(m, c) ==
  [case[c] EXCEPT !.facts = prepared[m].facts, !.sources = @ \cup {m},
                  !.status = InitialStatus(prepared[m].facts)]

\* The row after an intake; the same content again keeps its revision.
Updated(m, c) ==
  [case[c] EXCEPT !.facts = prepared[m].facts, !.sources = @ \cup {m},
                  !.status = InitialStatus(prepared[m].facts),
                  !.revision = IF case[c].facts # prepared[m].facts THEN @ + 1 ELSE @]

\* The confirmed action runs, for the first time: it creates a case, updates
\* the one that is open, or (orders) joins it without touching it.
Intake(m) ==
  /\ prepared[m].state = "prepared"
  /\ Fresh(m)
  /\ \/ /\ Open = {}
        /\ prepared[m].case = 0
        /\ prepared[m].expected = 0
        /\ created < MaxCases
              /\ created' = created + 1
        /\ case' = WithSuccessor(New(InitialStatus(prepared[m].facts), prepared[m].facts, {m}))
        /\ Schedule(created', {now + Approaching, now + Target})
        /\ Applied(m, created')
     \/ \E c \in Open :
        /\ \/ /\ capability = "orders"
              /\ UNCHANGED case
           \/ /\ capability = "returns_claims"
              /\ MayUpdate(m, c)
              /\ case' = [case EXCEPT ![c] = Updated(m, c)]
        /\ Applied(m, c)
        /\ UNCHANGED <<created, keys, jobs>>
  /\ UNCHANGED <<capability, now, prepared, seen>>

\* The case moved on after the customer confirmed: claim_changed_requires_confirmation.
RefuseIntake(m) ==
  /\ prepared[m].state = "prepared"
  /\ Fresh(m)
  /\ capability = "returns_claims"
  /\ \/ Open = {} /\ (prepared[m].case # 0 \/ prepared[m].expected # 0)
     \/ \E c \in Open : ~MayUpdate(m, c)
  /\ prepared' = [prepared EXCEPT ![m].state = "refused"]
  /\ UNCHANGED <<capability, now, created, case, keys, jobs, seen, receipts, effects>>

------------------------------------------------------------------------------
(* The backoffice: the case is read, and later a transition is commanded.   *)

Read(o, c) ==
  /\ case[c] # NoCase
  /\ case[c].revision < MaxRevision  \* bound: no decision is left beyond it
  /\ seen' = [seen EXCEPT ![o] = [status |-> case[c].status, revision |-> case[c].revision,
                                  facts |-> case[c].facts, case |-> c]]
  /\ UNCHANGED <<capability, now, created, case, keys, jobs, prepared, receipts, effects>>

\* CaseService.transition; reopening and closing are not commanded.
Transition(o, target) ==
  /\ seen[o] # NoCase
  /\ target \notin {"REOPENED", "CLOSED"}
  /\ LET c == seen[o].case IN
     /\ case[c].revision = seen[o].revision
     /\ target \in Transitions[case[c].status]
     /\ case[c].revision < MaxRevision
     /\ case' = [case EXCEPT ![c] = Changed(c, target)]
     /\ IF target = "RESOLVED"
        THEN InTime /\ Schedule(c, {now + CloseAfter})
        ELSE UNCHANGED <<keys, jobs>>
  /\ seen' = [seen EXCEPT ![o] = NoCase]
  /\ UNCHANGED <<capability, now, created, prepared, receipts, effects>>

------------------------------------------------------------------------------
(* After the resolution: the customer reports.                              *)

\* report_persisting_issue: reopen within the window; afterwards a successor
\* that starts from what was known, or the one that exists already.
ReportPersists(r, c) ==
  /\ case[c] # NoCase
  /\ Fresh(r)
  /\ \/ /\ case[c].status = "RESOLVED"
        /\ ~WindowOver(c)
        /\ case' = [case EXCEPT ![c] = Changed(c, "REOPENED")]
        /\ Schedule(c, {now + Approaching, now + Target})
        /\ Applied(r, c)
        /\ UNCHANGED created
     \/ /\ case[c].status = "CLOSED" \/ WindowOver(c)
        /\ Equivalent \subseteq {c}
        /\ created < MaxCases
        /\ created' = created + 1
        /\ case' = WithSuccessor(New("OPEN", case[c].facts, case[c].sources))
        /\ Schedule(created', {now + Approaching, now + Target})
        /\ Applied(r, created')
     \/ \E d \in Equivalent :
        /\ \/ case[c].status = "CLOSED"
           \/ d = c /\ case[c].status # "RESOLVED"
        /\ receipts' = [receipts EXCEPT ![r] = d]
        /\ UNCHANGED <<created, case, keys, jobs, effects>>
  /\ UNCHANGED <<capability, now, prepared, seen>>

\* Mutation: the longer window gets no timer of its own.
RespondUnscheduled(r, c) ==
  /\ case[c].status = "RESOLVED"
  /\ Fresh(r)
  /\ InTime
  /\ ~WindowOver(c)
  /\ case' = [case EXCEPT ![c].closeAt = now + CloseAfter, ![c].revision = @ + 1]
  /\ Applied(r, c)
  /\ UNCHANGED <<capability, now, created, keys, jobs, prepared, seen>>

\* record_customer_response, the issue does not persist: silence is awaited anew.
Respond(r, c) ==
  /\ case[c] # NoCase
  /\ Fresh(r)
  /\ \/ /\ case[c].status = "RESOLVED"
        /\ ~WindowOver(c)
        /\ InTime
        /\ case' = [case EXCEPT ![c].closeAt = now + CloseAfter, ![c].revision = @ + 1]
        /\ Schedule(c, {now + CloseAfter})
     \/ /\ case[c].status # "RESOLVED" \/ WindowOver(c)
        /\ UNCHANGED <<case, keys, jobs>>
  /\ Applied(r, c)
  /\ UNCHANGED <<capability, now, created, prepared, seen>>

------------------------------------------------------------------------------
(* The clock and the timers: the job cases.timer and process_timer.         *)

\* Mutation: any timer of a resolved case closes it.
TimerEffectUnchecked(c) ==
  IF case[c].status = "RESOLVED" THEN Changed(c, "CLOSED") ELSE case[c]

\* target_status.
AlertDue(c) ==
  IF now >= case[c].targetAt THEN "OVERDUE"
  ELSE IF now >= case[c].approachingAt THEN "APPROACHING_TARGET" ELSE "ON_TRACK"

\* What process_timer makes of the row, whichever deadline the job was for.
TimerEffect(c) ==
  IF case[c].status = "RESOLVED"
  THEN IF now >= case[c].closeAt THEN Changed(c, "CLOSED") ELSE case[c]
  ELSE IF case[c].status \in Terminal \/ AlertDue(c) = "ON_TRACK" THEN case[c]
  ELSE [case[c] EXCEPT !.alert = AlertDue(c)]

\* A due job runs; it may be delivered again.
RunTimer(c, t) ==
  /\ t \in jobs[c]
  /\ now >= t
  /\ case' = [case EXCEPT ![c] = TimerEffect(c)]
  /\ \E again \in BOOLEAN :
       jobs' = IF again THEN jobs ELSE [jobs EXCEPT ![c] = @ \ {t}]
  /\ UNCHANGED <<capability, now, created, keys, prepared, seen, receipts, effects>>

Tick ==
  /\ now < MaxTime
  /\ now' = now + 1
  /\ UNCHANGED <<capability, created, case, keys, jobs, prepared, seen, receipts, effects>>

Next ==
  \/ \E m \in Messages : Prepare(m) \/ Intake(m) \/ RefuseIntake(m)
  \/ \E o \in Officers, c \in Ids : Read(o, c)
  \/ \E o \in Officers, target \in Decisions : Transition(o, target)
  \/ \E r \in Reports, c \in Ids : ReportPersists(r, c) \/ Respond(r, c)
  \/ \E c \in Ids, t \in 0 .. MaxTime : RunTimer(c, t)
  \/ Tick

Spec == Init /\ [][Next]_vars

\* Time passes and the scheduler's worker runs the jobs that are due.
Fairness ==
  /\ WF_vars(Tick)
  /\ \A c \in Ids : \A t \in 0 .. MaxTime : WF_vars(RunTimer(c, t))

FairSpec == Spec /\ Fairness

------------------------------------------------------------------------------
(* Properties.                                                              *)

\* The type invariant: the CHECK constraints of the case tables.
TypeOK ==
  /\ capability \in {"orders", "returns_claims"}
  /\ now \in 0 .. MaxTime
  /\ created \in 0 .. MaxCases
  /\ \A c \in Ids : IF c <= created THEN case[c] \in Rows ELSE case[c] = NoCase
  /\ \A c \in Ids : jobs[c] \subseteq keys[c] /\ keys[c] \subseteq Nat
  /\ \A m \in Messages :
       prepared[m] = NoIntake \/ prepared[m].facts \subseteq Messages
  /\ \A op \in Operations : receipts[op] \in 0 .. created

\* The incident has at most one active case, whichever of intake, report and
\* timer closes the old one or opens the next (the unique index
\* cases_equivalent_active_idx never has to refuse a transaction).
OneActiveCase == Cardinality(Equivalent) <= 1

\* So no constraint of the case tables has to refuse what a transaction writes.
ConstraintsHold == TypeOK /\ OneActiveCase

\* No operation takes effect twice, although the action that calls it may be
\* rolled back and run again (case_operations, replay).
AppliedOnce == \A op \in Operations : effects[op] <= 1

\* What a customer confirmed stays in the case: a claim that was accepted took
\* effect once, all it says is in the facts of its case, and it is recorded as
\* a source of them, also when it says nothing new; whatever other messages
\* were prepared on the same revision (find_or_create, merge_provenance).
NoFactLost ==
  /\ AppliedOnce
  /\ capability = "returns_claims" =>
       \A m \in Messages : receipts[m] # 0 =>
         /\ prepared[m].facts \subseteq case[receipts[m]].facts
         /\ m \in case[receipts[m]].sources

\* An alert is never older than the clock of the response it is about.
AlertTruthful ==
  \A c \in Ids : case[c] # NoCase =>
    /\ case[c].alert # "ON_TRACK" => now >= case[c].approachingAt
    /\ case[c].alert = "OVERDUE" => now >= case[c].targetAt

\* The backoffice decides on what it has seen: the status and the facts are
\* those the officer read (expected_revision of transition).
DecidedAsSeen ==
  [][\A o \in Officers :
       seen[o] # NoCase /\ seen'[o] = NoCase =>
         /\ case[seen[o].case].facts = seen[o].facts
         /\ case[seen[o].case].status = seen[o].status]_vars

\* A closed case stays as it was, no case goes back in its revisions, a
\* resolution is closed only when its window, as last extended, is over, and no
\* alert is raised, or kept through a reopening, before its time.
HistoryStands ==
  [][\A c \in Ids : case[c] # NoCase =>
       /\ case[c].status \in Terminal => case'[c] = case[c]
       /\ case'[c].revision >= case[c].revision
       /\ case[c].status = "RESOLVED" /\ case'[c].status = "CLOSED" => now >= case[c].closeAt
       /\ AlertTruthful']_vars

\* A resolution nobody contests is closed in the end.
ResolutionCloses ==
  \A c \in Ids : case[c].status = "RESOLVED" ~> case[c].status # "RESOLVED"

\* A case left past its response target is marked overdue.
OverdueNoticed ==
  \A c \in Ids :
    case[c] # NoCase /\ case[c].status \notin Terminal /\ now >= case[c].targetAt
      ~> case[c].status \in Terminal \cup {"RESOLVED", "ABSENT"} \/ case[c].alert = "OVERDUE"

\* Every deadline is acted on, although the row and the jobs that carry it are
\* moved by intakes, reports and decisions in between.
TimersAct == ResolutionCloses /\ OverdueNoticed
=============================================================================
