------------------------------- MODULE Metering -------------------------------
(***************************************************************************)
(* Usage of one tenant: runs of the agent are admitted under leases in     *)
(* Redis, reserve every request they make, and record what the provider    *)
(* used in a ledger from which alerts about the budget are raised; stored  *)
(* bytes are recorded by the hour; administrators configure the budget.    *)
(*                                                                         *)
(* A script of Redis is one step, but its answer may be lost.  Everything  *)
(* that is written to the ledger is written under an advisory lock of the  *)
(* tenant, in a transaction that may still fail.                           *)
(***************************************************************************)
EXTENDS Naturals, Sequences, FiniteSets

CONSTANTS
  Runs,          \* turns of the agent
  Allocators,    \* schedulers that record stored bytes
  Nobody,        \* holds the lock when nobody does
  MaxConcurrent, \* the tenant's limit on runs at a time
  MaxRate,       \* and on requests in a minute
  MaxRetries,    \* and on attempts after the first
  Thresholds,    \* amounts of usage at which there is an alert, of any budget
  MaxRequests,   \* bound: requests to the model in one attempt
  MaxRevision,   \* bound: revisions of the configuration
  MaxHours       \* bound: hours

ASSUME MeteringAssumption ==
  /\ Nobody \notin Runs \cup Allocators
  /\ {MaxConcurrent, MaxRate, MaxRetries, MaxRequests, MaxRevision, MaxHours} \subseteq Nat
  /\ MaxHours > 0
  /\ Thresholds \subseteq Nat

VARIABLES
  run,       \* each turn's attempt, as its worker sees it
  leases,    \* the set of runs in Redis: a run and its attempt
  rate,      \* requests in Redis that are less than a minute old
  budget,    \* public.usage_configurations: revision and thresholds
  ledger,    \* public.usage_records of the model, in the order of their commits
  alerts,    \* public.usage_alerts
  writer,    \* who holds the advisory lock
  sum,       \* what the writer has read under it: records, revision, thresholds
  hour,      \* the clock, in completed hours
  allocated, \* public.usage_records of storage, in the order of their commits
  allocator  \* the hour each scheduler is about to record

meteringVars == <<run, leases, rate, budget, ledger, alerts, writer, sum, hour, allocated,
                  allocator>>

NewRun == [at |-> "idle", attempt |-> 1, requests |-> 0, answer |-> "none", billed |-> 0]
NoSum == [records |-> 0, revision |-> 0, thresholds |-> {}]

MeteringInit ==
  /\ run = [r \in Runs |-> NewRun]
  /\ leases = {}
  /\ rate = 0
  /\ budget = [revision |-> 0, thresholds |-> {}]
  /\ ledger = <<>>
  /\ alerts = {}
  /\ writer = Nobody
  /\ sum = NoSum
  /\ hour = 1
  /\ allocated = <<>>
  /\ allocator = [s \in Allocators |-> 0]

At(r, from) == run[r].at = from
Goes(r, to) == run' = [run EXCEPT ![r].at = to]

--------------------------------------------------------------------------------
\* Admission.

Lease(r) == <<r, run[r].attempt>>

\* The attempt is over: deferred to be made again as it was, stopped for good,
\* failed to be tried again, or done.  _release: its answer may be lost, and
\* then the lease stays until it expires.
Ends(r, how) ==
  /\ Goes(r, how)
  /\ \/ leases' = leases \ {Lease(r)}
     \/ UNCHANGED leases

\* The limits are read, and an attempt beyond them is stopped.
StartRun(r) ==
  /\ At(r, "idle")
  /\ Goes(r, IF run[r].attempt - 1 > MaxRetries THEN "stopped" ELSE "starting")
  /\ UNCHANGED <<leases, rate, budget, ledger, alerts, writer, sum, hour, allocated, allocator>>

\* The script: there is room for one more.
Admits == Cardinality(leases) < MaxConcurrent

\* acquire: at the limit, and when the answer is lost, the run is deferred; in
\* the latter case it may hold a lease that nobody will release.
Acquire(r) ==
  /\ At(r, "starting")
  /\ \/ /\ Admits
        /\ leases' = leases \cup {Lease(r)}
        /\ Goes(r, "admitted")
     \/ /\ \/ UNCHANGED leases
           \/ Admits /\ leases' = leases \cup {Lease(r)}
        /\ Goes(r, "deferred")
  /\ UNCHANGED <<rate, budget, ledger, alerts, writer, sum, hour, allocated, allocator>>

\* A lease lasts for the time of the run and five seconds, and is not renewed.
LeaseExpires ==
  /\ \E lease \in leases : leases' = leases \ {lease}
  /\ UNCHANGED <<run, rate, budget, ledger, alerts, writer, sum, hour, allocated, allocator>>

RequestAges ==
  /\ rate > 0
  /\ rate' = rate - 1
  /\ UNCHANGED <<run, leases, budget, ledger, alerts, writer, sum, hour, allocated, allocator>>

\* Mutation: a run is deferred whatever it has done.
ReplayableAlways(r) == TRUE

\* Nothing was asked of the provider yet: only then may the run be made again
\* for free.
Replayable(r) == run[r].requests = 0

\* _reserve_request, for the counting of the input and again for the model.  A
\* run without a lease, or refused after its first request, is stopped.
Reserves(r, next) ==
  \/ /\ Lease(r) \in leases
     /\ rate < MaxRate
     /\ rate' = rate + 1
     /\ run' = [run EXCEPT ![r].at = next, ![r].requests = @ + 1]
     /\ UNCHANGED leases
  \/ /\ Ends(r, IF Replayable(r) THEN "deferred" ELSE "stopped")
     /\ rate' \in {rate, IF Lease(r) \in leases /\ rate < MaxRate THEN rate + 1 ELSE rate}
  \/ /\ Lease(r) \notin leases
     /\ Ends(r, "stopped")
     /\ UNCHANGED rate

CountInput(r) ==
  /\ At(r, "admitted")
  /\ run[r].billed < MaxRequests
  /\ Reserves(r, "counted")
  /\ UNCHANGED <<budget, ledger, alerts, writer, sum, hour, allocated, allocator>>

\* on_llm_start, and the call: the provider works on it from here, and bills it.
CallModel(r) ==
  /\ At(r, "counted")
  /\ \/ Reserves(r, "calling")
     \/ Ends(r, "stopped") /\ UNCHANGED rate     \* no room for an answer
  /\ UNCHANGED <<budget, ledger, alerts, writer, sum, hour, allocated, allocator>>

\* The model answers, with what it used or without it, or the call fails, in
\* which case what it used is not known.
ModelAnswers(r) ==
  /\ At(r, "calling")
  /\ \E answer \in {"used", "unknown", "failed"} :
       run' = [run EXCEPT ![r].at = "answered", ![r].answer = answer, ![r].billed = @ + 1]
  /\ UNCHANGED <<leases, rate, budget, ledger, alerts, writer, sum, hour, allocated, allocator>>

\* before_tool asks for the lease once more; a run that lost it is stopped.
UseTool(r) ==
  /\ At(r, "recorded")
  /\ \/ Lease(r) \in leases /\ Goes(r, "admitted") /\ UNCHANGED leases
     \/ Ends(r, "stopped")
  /\ UNCHANGED <<rate, budget, ledger, alerts, writer, sum, hour, allocated, allocator>>

Finish(r) ==
  /\ At(r, "recorded")
  /\ Ends(r, "done")
  /\ UNCHANGED <<rate, budget, ledger, alerts, writer, sum, hour, allocated, allocator>>

\* The worker dies wherever it is; the lock goes with its connection.
WorkerStops(r) ==
  /\ run[r].at \in {"starting", "admitted", "counted", "calling", "answered", "recording",
                    "recorded"}
  /\ Goes(r, "lost")
  /\ writer' = IF writer = r THEN Nobody ELSE writer
  /\ sum' = IF writer = r THEN NoSum ELSE sum
  /\ UNCHANGED <<leases, rate, budget, ledger, alerts, hour, allocated, allocator>>

\* The queue delivers the turn again: a deferral is not an attempt.  Its lease
\* has a name of its own, so one that was left behind is waited for here only
\* because the model names a lease by the attempt.
Redeliver(r) ==
  /\ run[r].at \in {"deferred", "failed", "lost"}
  /\ run[r].attempt <= MaxRetries + 1
  /\ run' = [run EXCEPT ![r] = [NewRun EXCEPT !.attempt =
               run[r].attempt + IF At(r, "deferred") THEN 0 ELSE 1]]
  /\ At(r, "deferred") => Lease(r) \notin leases
  /\ UNCHANGED <<leases, rate, budget, ledger, alerts, writer, sum, hour, allocated, allocator>>

--------------------------------------------------------------------------------
\* The ledger.

\* _lock_alerts, shared by records, alerts and the configuration.
Unlocked(w) == writer = Nobody

\* The records of the window and the configuration, as the lock holder reads them.
Reads(w) ==
  /\ writer' = w
  /\ sum' = [records |-> Len(ledger), revision |-> budget.revision,
             thresholds |-> budget.thresholds]

\* record_in_session: under the lock, from the read to the commit.
BeginRecord(r) ==
  /\ At(r, "answered")
  /\ Unlocked(r)
  /\ Reads(r)
  /\ Goes(r, "recording")
  /\ UNCHANGED <<leases, rate, budget, ledger, alerts, hour, allocated, allocator>>

\* persist_alerts: what was used, if every record says so, against the budget.
Total(records) ==
  IF \E k \in DOMAIN records : records[k].tokens = "unknown" THEN 0 ELSE Len(records)
Crossed(records, thresholds) == {t \in thresholds : t <= Total(records)}

Releases == writer' = Nobody /\ sum' = NoSum

\* The commit: the record and the alerts.  An answer that does not say what it
\* used ends the run, and so does a call that failed, which may be tried again.
CommitRecord(r) ==
  LET tokens == IF run[r].answer = "used" THEN "known" ELSE "unknown"
      seen == Append(SubSeq(ledger, 1, sum.records), [tokens |-> tokens, revision |-> sum.revision])
  IN
  /\ At(r, "recording")
  /\ ledger' = Append(ledger, [tokens |-> tokens, revision |-> sum.revision])
  /\ alerts' = alerts \cup ({sum.revision} \X Crossed(seen, sum.thresholds))
  /\ IF run[r].answer = "used"
       THEN Goes(r, "recorded") /\ UNCHANGED leases
       ELSE Ends(r, IF run[r].answer = "failed" THEN "failed" ELSE "stopped")
  /\ Releases
  /\ UNCHANGED <<rate, budget, hour, allocated, allocator>>

\* usage_recording_failed: nothing is tried again after it.
RecordFails(r) ==
  /\ At(r, "recording")
  /\ Ends(r, "stopped")
  /\ Releases
  /\ UNCHANGED <<rate, budget, ledger, alerts, hour, allocated, allocator>>

\* check_alerts, before a run begins, whoever it is for: one step under the lock.
CheckAlerts ==
  /\ writer = Nobody
  /\ alerts' = alerts \cup ({budget.revision} \X Crossed(ledger, budget.thresholds))
  /\ UNCHANGED <<run, leases, rate, budget, ledger, writer, sum, hour, allocated, allocator>>

\* configure: the expected revision is compared under the lock.  The alerts of
\* the new budget wait for the next record.
Configure ==
  /\ writer = Nobody
  /\ budget.revision < MaxRevision
  /\ \E thresholds \in SUBSET Thresholds :
       budget' = [revision |-> budget.revision + 1, thresholds |-> thresholds]
  /\ UNCHANGED <<run, leases, rate, ledger, alerts, writer, sum, hour, allocated, allocator>>

--------------------------------------------------------------------------------
\* Stored bytes.

HourPasses ==
  /\ hour < MaxHours
  /\ hour' = hour + 1
  /\ UNCHANGED <<run, leases, rate, budget, ledger, alerts, writer, sum, allocated, allocator>>

\* record_next_completed_hour: the hour after the latest one, or the last one
\* that is complete if there is none.
BeginAllocate(s) ==
  LET hours == {allocated[k] : k \in DOMAIN allocated}
      next == IF hours = {} THEN hour ELSE 1 + CHOOSE h \in hours : \A o \in hours : o <= h
  IN
  /\ allocator[s] = 0
  /\ next <= hour
  /\ allocator' = [allocator EXCEPT ![s] = next]
  /\ UNCHANGED <<run, leases, rate, budget, ledger, alerts, writer, sum, hour, allocated>>

\* record_in_session: an hour that is there is not recorded again.
CommitAllocate(s) ==
  /\ allocator[s] # 0
  /\ writer = Nobody
  /\ allocated' = IF \E k \in DOMAIN allocated : allocated[k] = allocator[s]
                    THEN allocated ELSE Append(allocated, allocator[s])
  /\ allocator' = [allocator EXCEPT ![s] = 0]
  /\ UNCHANGED <<run, leases, rate, budget, ledger, alerts, writer, sum, hour>>

AllocatorFails(s) ==
  /\ allocator[s] # 0
  /\ allocator' = [allocator EXCEPT ![s] = 0]
  /\ UNCHANGED <<run, leases, rate, budget, ledger, alerts, writer, sum, hour, allocated>>

MeteringNext ==
  \/ \E r \in Runs : StartRun(r)
  \/ \E r \in Runs : Acquire(r)
  \/ \E r \in Runs : CountInput(r)
  \/ \E r \in Runs : CallModel(r)
  \/ \E r \in Runs : ModelAnswers(r)
  \/ \E r \in Runs : UseTool(r)
  \/ \E r \in Runs : Finish(r)
  \/ \E r \in Runs : WorkerStops(r)
  \/ \E r \in Runs : Redeliver(r)
  \/ \E r \in Runs : BeginRecord(r)
  \/ \E r \in Runs : CommitRecord(r)
  \/ \E r \in Runs : RecordFails(r)
  \/ LeaseExpires
  \/ RequestAges
  \/ CheckAlerts
  \/ Configure
  \/ HourPasses
  \/ \E s \in Allocators : BeginAllocate(s)
  \/ \E s \in Allocators : CommitAllocate(s)
  \/ \E s \in Allocators : AllocatorFails(s)

MeteringSpec == MeteringInit /\ [][MeteringNext]_meteringVars

--------------------------------------------------------------------------------
\* Properties.

\* The shape of every variable.
MeteringTypeOK ==
  /\ \A r \in Runs :
       /\ run[r].at \in {"idle", "starting", "admitted", "counted", "calling", "answered",
                         "recording", "recorded", "deferred", "stopped", "failed", "done", "lost"}
       /\ run[r].attempt \in 1 .. MaxRetries + 2
       /\ run[r].billed \in 0 .. MaxRequests
  /\ leases \subseteq Runs \X (1 .. MaxRetries + 2) /\ Cardinality(leases) <= MaxConcurrent
  /\ rate \in 0 .. MaxRate
  /\ alerts \subseteq (0 .. MaxRevision) \X Thresholds
  /\ writer \in Runs \cup {Nobody}
  /\ \A k \in DOMAIN allocated : allocated[k] \in 1 .. MaxHours

\* Several runs record what they used while the budget is changed: once anything
\* is recorded under the budget of today, every threshold that the ledger has
\* reached has its alert, unless the ledger does not say what was used.
AlertsKeepUp ==
  (\E k \in DOMAIN ledger : ledger[k].revision = budget.revision) =>
    \A t \in Crossed(ledger, budget.thresholds) : <<budget.revision, t>> \in alerts

\* A turn is only made again for free if it has cost nothing, whatever Redis
\* answered or did not.
DeferredIsFree == \A r \in Runs : At(r, "deferred") => run[r].billed = 0

\* Two schedulers record the stored bytes of the same hours: none is there twice,
\* and none that was not over.
HoursOnce ==
  \A k \in DOMAIN allocated :
    allocated[k] <= hour /\ \A j \in DOMAIN allocated : allocated[j] = allocated[k] => j = k

\* What the provider bills is paid for once and known to the tenant: alerts keep
\* up with the ledger, a turn is deferred only if it is free, hours are not
\* counted twice.
SpendAccounted == AlertsKeepUp /\ DeferredIsFree /\ HoursOnce
==============================================================================
