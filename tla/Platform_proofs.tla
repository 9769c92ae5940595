--------------------------- MODULE Platform_proofs ---------------------------
(***************************************************************************)
(* What the usage, the connections and the knowledge of a tenant promise,  *)
(* and what its agent and the console do, for every number of runs,        *)
(* administrators, versions and budgets.                                   *)
(*                                                                         *)
(* Each part has an inductive invariant about the rows of its tables and   *)
(* the requests that are open on them.  That of the agent rests on one     *)
(* fact about the knowledge, whose requests run in between: a version that *)
(* is in Test keeps its state and its digest.                              *)
(* At the end the parts are put side by side, with those of the channels.  *)
(***************************************************************************)
EXTENDS MCPlatform, Channels_proofs, SequenceTheorems

--------------------------------------------------------------------------------
\* Usage: MeteringSpec => []SpendAccounted.

\* Where a turn can be.
Stations == {"idle", "starting", "admitted", "counted", "calling", "answered", "recording",
             "recorded", "deferred", "stopped", "failed", "done", "lost"}

\* What a worker knows of its attempt at a turn.
Attempts ==
  [at: Stations, attempt: 1 .. MaxRetries + 2, requests: Nat,
   answer: {"none", "used", "unknown", "failed"}, billed: 0 .. MaxRequests]

\* An attempt has reserved a request before the provider bills anything, so one
\* without requests is free; and it stays within the bound on requests.
Costs(j) ==
  /\ j.requests = 0 => j.billed = 0
  /\ j.at \in {"idle", "starting", "deferred"} => j.billed = 0
  /\ j.at \in {"counted", "calling"} => j.requests > 0 /\ j.billed < MaxRequests

\* Every turn is such an attempt.
RunsOK == run \in [Runs -> Attempts] /\ \A r \in Runs : Costs(run[r])

\* The set in Redis holds no more leases than the limit.
LeasesOK ==
  /\ leases \subseteq Runs \X (1 .. MaxRetries + 2)
  /\ IsFiniteSet(leases)
  /\ Cardinality(leases) <= MaxConcurrent
  /\ rate \in 0 .. MaxRate

\* The rows of usage_records and of the configuration.
LedgerOK ==
  /\ budget \in [revision: 0 .. MaxRevision, thresholds: SUBSET Thresholds]
  /\ ledger \in Seq([tokens: {"known", "unknown"}, revision: Nat])
  /\ \A k \in DOMAIN ledger : ledger[k].revision <= budget.revision
  /\ alerts \subseteq (0 .. MaxRevision) \X Thresholds

\* The advisory lock is held by the run that records, and what its holder read
\* under it is still so.
LockOK ==
  /\ writer \in Runs \cup {Nobody}
  /\ \A r \in Runs : run[r].at = "recording" <=> writer = r
  /\ writer # Nobody =>
       sum = [records |-> Len(ledger), revision |-> budget.revision,
              thresholds |-> budget.thresholds]

\* Of the hours recorded one is the latest, and nobody is about to record an hour
\* that is not over.
HoursOK ==
  /\ hour \in 1 .. MaxHours
  /\ allocated \in Seq(1 .. MaxHours)
  /\ HoursOnce
  /\ allocated # <<>> => \E k \in DOMAIN allocated : \A j \in DOMAIN allocated :
                            allocated[j] <= allocated[k]
  /\ allocator \in [Allocators -> 0 .. MaxHours]
  /\ \A s \in Allocators : allocator[s] <= hour

\* What is true of usage between any two steps.
MeteringInv == RunsOK /\ LeasesOK /\ LedgerOK /\ LockOK /\ AlertsKeepUp /\ HoursOK

\* What is in a sequence has the type of its elements.
LEMMA InSequence ==
  ASSUME NEW T, NEW s \in Seq(T)
  PROVE  \A k \in DOMAIN s : s[k] \in T
OBVIOUS

\* The bounds and limits are numbers.
LEMMA MeteringConstants ==
  /\ Nobody \notin Runs \cup Allocators
  /\ MaxConcurrent \in Nat /\ MaxRate \in Nat /\ MaxRetries \in Nat /\ MaxRequests \in Nat
  /\ MaxRevision \in Nat /\ MaxHours \in Nat /\ MaxHours > 0
  /\ Thresholds \subseteq Nat
BY MeteringAssumption DEF MeteringAssumption

\* Without usage there is nothing to account for.
LEMMA MeteringStart == MeteringInit => MeteringInv
<1> SUFFICES ASSUME MeteringInit PROVE MeteringInv
  OBVIOUS
<1> USE MeteringConstants DEF MeteringInit
<1>1. RunsOK
  BY DEF RunsOK, Attempts, Stations, Costs, NewRun
<1>2. LeasesOK
  BY FS_EmptySet DEF LeasesOK
<1>3. LedgerOK
  BY DEF LedgerOK
<1>4. LockOK
  BY DEF LockOK, NewRun
<1>5. AlertsKeepUp
  BY DEF AlertsKeepUp
<1>6. HoursOK
  BY DEF HoursOK, HoursOnce
<1> QED BY <1>1, <1>2, <1>3, <1>4, <1>5, <1>6 DEF MeteringInv

--------------------------------------------------------------------------------
\* The attempts.

\* One turn becomes an attempt that pays as it should.
Becomes(r, j) == run' = [run EXCEPT ![r] = j] /\ j \in Attempts /\ Costs(j)

\* Then all of them do.
LEMMA BecomesKeeps ==
  ASSUME RunsOK, NEW r \in Runs, NEW j, Becomes(r, j)
  PROVE  RunsOK'
<1>1. run' \in [Runs -> Attempts]
  BY DEF RunsOK, Becomes
<1>2. ASSUME NEW o \in Runs PROVE Costs(run'[o])
  BY DEF RunsOK, Becomes
<1> QED BY <1>1, <1>2 DEF RunsOK

\* An attempt that only moves on, to where it may be with what it has cost.
LEMMA GoesOn ==
  ASSUME RunsOK, NEW r \in Runs, NEW to \in Stations, Goes(r, to),
         to \in {"starting", "deferred"} => run[r].billed = 0,
         to \notin {"idle", "counted", "calling"}
  PROVE  RunsOK'
<1> DEFINE j == [run[r] EXCEPT !.at = to]
<1>0. run[r] \in Attempts /\ Costs(run[r])
  BY DEF RunsOK
<1>1. j \in Attempts /\ j.at = to /\ j.requests = run[r].requests /\ j.billed = run[r].billed
  BY <1>0 DEF Attempts
<1>2. run' = [run EXCEPT ![r] = j]
  BY <1>0 DEF Goes
<1>3. Costs(j)
  BY <1>0, <1>1 DEF Costs
<1> HIDE DEF j
<1> QED BY <1>1, <1>2, <1>3, BecomesKeeps DEF Becomes

\* A reservation counts the request before it is made.
LEMMA ReservesKeeps ==
  ASSUME RunsOK, NEW r \in Runs, NEW next \in {"counted", "calling"}, Reserves(r, next),
         run[r].billed < MaxRequests
  PROVE  RunsOK'
<1> DEFINE n == run[r].requests + 1
           j == [run[r] EXCEPT !.at = next, !.requests = n]
<1>0. run[r] \in Attempts /\ Costs(run[r])
  BY DEF RunsOK
<1>1. CASE run' = [run EXCEPT ![r].at = next, ![r].requests = @ + 1]
  <2>1. run' = [run EXCEPT ![r] = j]
    BY <1>0, <1>1 DEF RunsOK
  <2>2. n \in Nat /\ n > 0
    BY <1>0 DEF Attempts
  <2> HIDE DEF n
  <2>3. j \in Attempts /\ j.at = next /\ j.requests = n /\ j.billed = run[r].billed
    BY <1>0, <2>2 DEF Attempts, Stations
  <2>4. Costs(j)
    BY <2>2, <2>3 DEF Costs
  <2> HIDE DEF j
  <2> QED BY <2>1, <2>3, <2>4, BecomesKeeps DEF Becomes
<1>2. CASE Goes(r, IF Replayable(r) THEN "deferred" ELSE "stopped")
  <2>1. Replayable(r) => run[r].billed = 0
    BY <1>0 DEF Replayable, Costs
  <2> QED BY <1>2, <2>1, GoesOn DEF Stations
<1>3. CASE Goes(r, "stopped")
  BY <1>3, GoesOn DEF Stations
<1> QED BY <1>1, <1>2, <1>3 DEF Reserves, Ends

\* A turn that is made again: a deferral is not an attempt.
LEMMA RedeliverKeeps ==
  ASSUME RunsOK, NEW r \in Runs, Redeliver(r)
  PROVE  RunsOK'
<1> USE MeteringConstants
<1> DEFINE n == run[r].attempt + IF At(r, "deferred") THEN 0 ELSE 1
           j == [NewRun EXCEPT !.attempt = n]
<1>0. run[r] \in Attempts
  BY DEF RunsOK
<1>1. n \in 1 .. MaxRetries + 2
  BY <1>0 DEF Redeliver, Attempts
<1>2. run' = [run EXCEPT ![r] = j]
  BY DEF Redeliver
<1> HIDE DEF n
<1>3. j \in Attempts /\ Costs(j)
  BY <1>1 DEF Attempts, Stations, NewRun, Costs
<1> HIDE DEF j
<1> QED BY <1>2, <1>3, BecomesKeeps DEF Becomes

\* The provider bills a call that was reserved.
LEMMA AnswerKeeps ==
  ASSUME RunsOK, NEW r \in Runs, ModelAnswers(r)
  PROVE  RunsOK'
<1>0. run[r] \in Attempts /\ Costs(run[r]) /\ run[r].at = "calling"
  BY DEF RunsOK, ModelAnswers, At
<1>1. PICK answer \in {"used", "unknown", "failed"} :
        run' = [run EXCEPT ![r].at = "answered", ![r].answer = answer, ![r].billed = @ + 1]
  BY DEF ModelAnswers
<1> DEFINE j == [run[r] EXCEPT !.at = "answered", !.answer = answer, !.billed = @ + 1]
<1>2. run' = [run EXCEPT ![r] = j]
  BY <1>0, <1>1 DEF RunsOK
<1>3. run[r].requests > 0 /\ run[r].billed + 1 \in 0 .. MaxRequests
  BY <1>0, MeteringConstants DEF Costs, Attempts
<1>4. j \in Attempts /\ j.at = "answered" /\ j.requests = run[r].requests
  BY <1>0, <1>3 DEF Attempts, Stations
<1>5. Costs(j)
  BY <1>3, <1>4 DEF Costs
<1> HIDE DEF j
<1> QED BY <1>2, <1>4, <1>5, BecomesKeeps DEF Becomes

\* No step makes an attempt that was billed look free.
LEMMA RunsKept ==
  ASSUME RunsOK, MeteringNext
  PROVE  RunsOK'
<1> USE GoesOn DEF Stations
<1>0. ASSUME NEW r \in Runs PROVE run[r] \in Attempts /\ Costs(run[r])
  BY DEF RunsOK
<1>1. ASSUME NEW r \in Runs, StartRun(r) PROVE RunsOK'
  <2>1. run[r].billed = 0
    BY <1>0, <1>1 DEF StartRun, At, Costs
  <2> QED BY <1>1, <2>1 DEF StartRun
<1>2. ASSUME NEW r \in Runs, Acquire(r) PROVE RunsOK'
  <2>1. run[r].billed = 0
    BY <1>0, <1>2 DEF Acquire, At, Costs
  <2>2. Goes(r, "admitted") \/ Goes(r, "deferred")
    BY <1>2 DEF Acquire
  <2> QED BY <2>1, <2>2
<1>3. ASSUME NEW r \in Runs, CountInput(r) PROVE RunsOK'
  BY <1>3, ReservesKeeps DEF CountInput
<1>4. ASSUME NEW r \in Runs, CallModel(r) PROVE RunsOK'
  <2>1. run[r].billed < MaxRequests
    BY <1>0, <1>4 DEF CallModel, At, Costs
  <2> QED BY <1>4, <2>1, ReservesKeeps DEF CallModel, Ends
<1>5. ASSUME NEW r \in Runs, UseTool(r) \/ Finish(r) PROVE RunsOK'
  <2>1. Goes(r, "admitted") \/ Goes(r, "stopped") \/ Goes(r, "done")
    BY <1>5 DEF UseTool, Finish, Ends
  <2> QED BY <2>1
<1>6. ASSUME NEW r \in Runs, WorkerStops(r) \/ BeginRecord(r) PROVE RunsOK'
  <2>1. Goes(r, "lost") \/ Goes(r, "recording")
    BY <1>6 DEF WorkerStops, BeginRecord
  <2> QED BY <2>1
<1>7. ASSUME NEW r \in Runs, CommitRecord(r) \/ RecordFails(r) PROVE RunsOK'
  <2>1. Goes(r, "recorded") \/ Goes(r, "failed") \/ Goes(r, "stopped")
    BY <1>7 DEF CommitRecord, RecordFails, Ends
  <2> QED BY <2>1
<1>8. ASSUME UNCHANGED run PROVE RunsOK'
  BY <1>8 DEF RunsOK
<1>9. LeaseExpires \/ RequestAges \/ CheckAlerts \/ Configure \/ HourPasses
        \/ (\E s \in Allocators : BeginAllocate(s) \/ CommitAllocate(s) \/ AllocatorFails(s))
        => UNCHANGED run
  BY DEF LeaseExpires, RequestAges, CheckAlerts, Configure, HourPasses, BeginAllocate,
         CommitAllocate, AllocatorFails
<1> QED BY <1>1, <1>2, <1>3, <1>4, <1>5, <1>6, <1>7, <1>8, <1>9, RedeliverKeeps, AnswerKeeps
        DEF MeteringNext

--------------------------------------------------------------------------------
\* The leases and the requests of a minute.

\* Leases are released, expire, or are taken while there is room.
LEMMA LeasesStay ==
  ASSUME RunsOK, LeasesOK, NEW r \in Runs,
         \/ leases' \subseteq leases
         \/ Admits /\ leases' = leases \cup {Lease(r)},
         rate' \in 0 .. MaxRate
  PROVE  LeasesOK'
<1> USE MeteringConstants
<1>1. Lease(r) \in Runs \X (1 .. MaxRetries + 2)
  BY DEF RunsOK, Attempts, Lease
<1>2. CASE leases' \subseteq leases
  BY <1>2, FS_Subset, FS_CardinalityType DEF LeasesOK
<1>3. CASE Admits /\ leases' = leases \cup {Lease(r)}
  <2>1. IsFiniteSet(leases') /\ Cardinality(leases') <= Cardinality(leases) + 1
    <3>1. IsFiniteSet(leases)
      BY DEF LeasesOK
    <3>2. IsFiniteSet(leases \cup {Lease(r)})
      BY <3>1, FS_AddElement
    <3>3. Cardinality(leases \cup {Lease(r)})
            = IF Lease(r) \in leases THEN Cardinality(leases) ELSE Cardinality(leases) + 1
      BY <3>1, FS_AddElement
    <3>4. Cardinality(leases) \in Nat
      BY <3>1, FS_CardinalityType
    <3> QED BY <1>3, <3>2, <3>3, <3>4
  <2>2. Cardinality(leases') <= MaxConcurrent
    BY <1>3, <2>1, FS_CardinalityType DEF LeasesOK, Admits
  <2> QED BY <1>1, <1>3, <2>1, <2>2 DEF LeasesOK
<1> QED BY <1>2, <1>3

\* A reservation, granted or not, stays within the rate.
LEMMA ReservesLeases ==
  ASSUME LeasesOK, NEW r \in Runs, NEW next, Reserves(r, next)
  PROVE  leases' \subseteq leases /\ rate' \in 0 .. MaxRate
BY MeteringConstants DEF LeasesOK, Reserves, Ends

\* No step exceeds the limits.
LEMMA LeasesKept ==
  ASSUME RunsOK, LeasesOK, MeteringNext
  PROVE  LeasesOK'
<1> USE MeteringConstants
<1>0. rate \in 0 .. MaxRate
  BY DEF LeasesOK
<1>1. ASSUME NEW r \in Runs, Acquire(r) PROVE LeasesOK'
  <2>1. leases' = leases \/ (Admits /\ leases' = leases \cup {Lease(r)})
    BY <1>1, Zenon DEF Acquire
  <2>2. rate' = rate
    BY <1>1 DEF Acquire
  <2>3. leases' \subseteq leases \/ (Admits /\ leases' = leases \cup {Lease(r)})
    BY <2>1
  <2> QED BY <1>0, <2>2, <2>3, LeasesStay
<1>2. ASSUME NEW r \in Runs, CountInput(r) \/ CallModel(r) PROVE LeasesOK'
  <2>1. leases' \subseteq leases /\ rate' \in 0 .. MaxRate
    BY <1>0, <1>2, ReservesLeases DEF CountInput, CallModel, Ends
  <2> QED BY <2>1, LeasesStay
<1>3. ASSUME NEW r \in Runs,
             StartRun(r) \/ ModelAnswers(r) \/ UseTool(r) \/ Finish(r) \/ WorkerStops(r)
               \/ Redeliver(r) \/ BeginRecord(r) \/ CommitRecord(r) \/ RecordFails(r)
      PROVE  LeasesOK'
  <2>1. leases' \subseteq leases /\ rate' = rate
    BY <1>3 DEF StartRun, ModelAnswers, UseTool, Finish, WorkerStops, Redeliver, BeginRecord,
                CommitRecord, RecordFails, Ends
  <2> QED BY <1>0, <2>1, LeasesStay
<1>4. LeaseExpires => LeasesOK'
  <2> SUFFICES ASSUME LeaseExpires PROVE LeasesOK'
    OBVIOUS
  <2>1. leases' \subseteq leases /\ rate' = rate
    BY DEF LeaseExpires
  <2> QED BY <2>1, FS_Subset, FS_CardinalityType DEF LeasesOK
<1>5. RequestAges => LeasesOK'
  BY DEF RequestAges, LeasesOK
<1>6. CheckAlerts \/ Configure \/ HourPasses
        \/ (\E s \in Allocators : BeginAllocate(s) \/ CommitAllocate(s) \/ AllocatorFails(s))
        => LeasesOK'
  BY DEF CheckAlerts, Configure, HourPasses, BeginAllocate, CommitAllocate, AllocatorFails,
         LeasesOK
<1> QED BY <1>1, <1>2, <1>3, <1>4, <1>5, <1>6 DEF MeteringNext

--------------------------------------------------------------------------------
\* The advisory lock.

\* Only the turn that moves is elsewhere afterwards.
LEMMA GoesWhere ==
  ASSUME RunsOK, NEW r \in Runs, NEW to, Goes(r, to)
  PROVE  run'[r].at = to /\ \A o \in Runs : o # r => run'[o] = run[o]
<1>1. run[r] \in Attempts
  BY DEF RunsOK
<1>2. DOMAIN run = Runs
  BY DEF RunsOK
<1> QED BY <1>1, <1>2 DEF Goes, Attempts

\* A reservation is not made, nor refused, while recording.
LEMMA ReservesWhere ==
  ASSUME RunsOK, NEW r \in Runs, NEW next \in {"counted", "calling"}, Reserves(r, next)
  PROVE  run'[r].at # "recording" /\ \A o \in Runs : o # r => run'[o] = run[o]
<1>1. CASE Goes(r, "deferred") \/ Goes(r, "stopped")
  BY <1>1, GoesWhere
<1>2. CASE run' = [run EXCEPT ![r].at = next, ![r].requests = @ + 1]
  <2>1. run[r] \in Attempts /\ DOMAIN run = Runs
    BY DEF RunsOK
  <2> QED BY <1>2, <2>1 DEF Attempts
<1> QED BY <1>1, <1>2 DEF Reserves, Ends

\* Turns that are not recording, before or after, leave the lock alone.
LEMMA LockStays ==
  ASSUME LockOK, NEW r \in Runs, run[r].at # "recording", run'[r].at # "recording",
         \A o \in Runs : o # r => run'[o] = run[o],
         UNCHANGED <<ledger, budget, writer, sum>>
  PROVE  LockOK'
BY DEF LockOK

\* The lock is taken with the move to recording and given back with the move from
\* it, also when the worker stops.
LEMMA LockKept ==
  ASSUME RunsOK, LockOK, MeteringNext
  PROVE  LockOK'
<1> USE MeteringConstants
<1>1. ASSUME NEW r \in Runs, StartRun(r) \/ Acquire(r) \/ UseTool(r) \/ Finish(r)
      PROVE  LockOK'
  <2>1. PICK to \in {"stopped", "starting", "admitted", "deferred", "done"} : Goes(r, to)
    BY <1>1 DEF StartRun, Acquire, UseTool, Finish, Ends
  <2>2. run'[r].at # "recording" /\ \A o \in Runs : o # r => run'[o] = run[o]
    BY <2>1, GoesWhere
  <2>3. run[r].at # "recording" /\ UNCHANGED <<ledger, budget, writer, sum>>
    BY <1>1 DEF StartRun, Acquire, UseTool, Finish, At
  <2> QED BY <2>2, <2>3, LockStays
<1>2. ASSUME NEW r \in Runs, CountInput(r) \/ CallModel(r) PROVE LockOK'
  <2>1. CASE Reserves(r, "counted") \/ Reserves(r, "calling")
    <3>1. run'[r].at # "recording" /\ \A o \in Runs : o # r => run'[o] = run[o]
      BY <2>1, ReservesWhere
    <3>2. run[r].at # "recording" /\ UNCHANGED <<ledger, budget, writer, sum>>
      BY <1>2 DEF CountInput, CallModel, At
    <3> QED BY <3>1, <3>2, LockStays
  <2>2. CASE Goes(r, "stopped")
    <3>1. run'[r].at # "recording" /\ \A o \in Runs : o # r => run'[o] = run[o]
      BY <2>2, GoesWhere
    <3>2. run[r].at # "recording" /\ UNCHANGED <<ledger, budget, writer, sum>>
      BY <1>2 DEF CountInput, CallModel, At
    <3> QED BY <3>1, <3>2, LockStays
  <2> QED BY <1>2, <2>1, <2>2 DEF CountInput, CallModel, Ends
<1>3. ASSUME NEW r \in Runs, ModelAnswers(r) PROVE LockOK'
  <2>1. PICK answer \in {"used", "unknown", "failed"} :
          run' = [run EXCEPT ![r].at = "answered", ![r].answer = answer, ![r].billed = @ + 1]
    BY <1>3 DEF ModelAnswers
  <2>2. run[r] \in Attempts /\ DOMAIN run = Runs
    BY DEF RunsOK
  <2>3. run'[r].at # "recording" /\ \A o \in Runs : o # r => run'[o] = run[o]
    BY <2>1, <2>2 DEF Attempts
  <2>4. run[r].at # "recording" /\ UNCHANGED <<ledger, budget, writer, sum>>
    BY <1>3 DEF ModelAnswers, At
  <2> QED BY <2>3, <2>4, LockStays
<1>4. ASSUME NEW r \in Runs, Redeliver(r) PROVE LockOK'
  <2>1. DOMAIN run = Runs
    BY DEF RunsOK
  <2>2. run'[r].at # "recording" /\ \A o \in Runs : o # r => run'[o] = run[o]
    BY <1>4, <2>1 DEF Redeliver, NewRun
  <2>3. run[r].at # "recording" /\ UNCHANGED <<ledger, budget, writer, sum>>
    BY <1>4 DEF Redeliver
  <2> QED BY <2>2, <2>3, LockStays
<1>5. ASSUME NEW r \in Runs, WorkerStops(r) PROVE LockOK'
  <2>1. run'[r].at = "lost" /\ \A o \in Runs : o # r => run'[o] = run[o]
    BY <1>5, GoesWhere DEF WorkerStops
  <2> QED BY <1>5, <2>1 DEF WorkerStops, LockOK
<1>6. ASSUME NEW r \in Runs, BeginRecord(r) PROVE LockOK'
  <2>1. run'[r].at = "recording" /\ \A o \in Runs : o # r => run'[o] = run[o]
    BY <1>6, GoesWhere DEF BeginRecord
  <2> QED BY <1>6, <2>1 DEF BeginRecord, Unlocked, Reads, LockOK
<1>7. ASSUME NEW r \in Runs, CommitRecord(r) \/ RecordFails(r) PROVE LockOK'
  <2>1. PICK to \in {"recorded", "failed", "stopped"} : Goes(r, to)
    BY <1>7 DEF CommitRecord, RecordFails, Ends
  <2>2. run'[r].at # "recording" /\ \A o \in Runs : o # r => run'[o] = run[o]
    BY <2>1, GoesWhere
  <2>3. run[r].at = "recording" /\ writer' = Nobody
    BY <1>7 DEF CommitRecord, RecordFails, At, Releases
  <2> QED BY <2>2, <2>3 DEF LockOK
<1>8. LeaseExpires \/ RequestAges \/ CheckAlerts \/ HourPasses
        \/ (\E s \in Allocators : BeginAllocate(s) \/ CommitAllocate(s) \/ AllocatorFails(s))
        => LockOK'
  BY DEF LeaseExpires, RequestAges, CheckAlerts, HourPasses, BeginAllocate, CommitAllocate,
         AllocatorFails, LockOK
<1>9. Configure => LockOK'
  BY DEF Configure, LockOK
<1> QED BY <1>1, <1>2, <1>3, <1>4, <1>5, <1>6, <1>7, <1>8, <1>9 DEF MeteringNext

--------------------------------------------------------------------------------
\* The ledger and its alerts.

\* What a commit under the lock adds: one record of the current revision, and the
\* alerts of every threshold that the ledger has reached with it.
LEMMA CommitAdds ==
  ASSUME LedgerOK, LockOK, NEW r \in Runs, CommitRecord(r)
  PROVE  \E usage \in {"known", "unknown"} :
           /\ ledger' = Append(ledger, [tokens |-> usage, revision |-> budget.revision])
           /\ alerts' = alerts \cup ({budget.revision} \X Crossed(ledger', budget.thresholds))
           /\ budget' = budget
<1> DEFINE usage == IF run[r].answer = "used" THEN "known" ELSE "unknown"
           record == [tokens |-> usage, revision |-> sum.revision]
           seen == Append(SubSeq(ledger, 1, sum.records), record)
<1>1. writer = r /\ writer # Nobody
  BY MeteringConstants DEF CommitRecord, At, LockOK
<1>2. sum.records = Len(ledger) /\ sum.revision = budget.revision
        /\ sum.thresholds = budget.thresholds
  BY <1>1 DEF LockOK
<1>3. SubSeq(ledger, 1, Len(ledger)) = ledger
  BY DEF LedgerOK
<1>4. ledger' = Append(ledger, record) /\ budget' = budget
        /\ alerts' = alerts \cup ({sum.revision} \X Crossed(seen, sum.thresholds))
  BY Zenon DEF CommitRecord
<1>5. seen = ledger'
  BY <1>2, <1>3, <1>4
<1>6. usage \in {"known", "unknown"}
  OBVIOUS
<1> HIDE DEF usage, seen
<1> QED BY <1>2, <1>4, <1>5, <1>6

\* Alerts are raised for configured thresholds.
LEMMA CrossedThresholds ==
  ASSUME NEW records, NEW thresholds
  PROVE  Crossed(records, thresholds) \subseteq thresholds
BY DEF Crossed

\* A commit keeps the ledger and its alerts together.
LEMMA CommitKeeps ==
  ASSUME LedgerOK, LockOK, AlertsKeepUp, NEW r \in Runs, CommitRecord(r)
  PROVE  LedgerOK' /\ AlertsKeepUp'
<1> USE MeteringConstants
<1>1. PICK usage \in {"known", "unknown"} :
        /\ ledger' = Append(ledger, [tokens |-> usage, revision |-> budget.revision])
        /\ alerts' = alerts \cup ({budget.revision} \X Crossed(ledger', budget.thresholds))
        /\ budget' = budget
  BY CommitAdds
<1>2. Crossed(ledger', budget.thresholds) \subseteq Thresholds
  BY CrossedThresholds DEF LedgerOK
<1>3. budget.revision \in 0 .. MaxRevision /\ budget.revision \in Nat
  BY DEF LedgerOK
<1> DEFINE record == [tokens |-> usage, revision |-> budget.revision]
<1>4. record \in [tokens: {"known", "unknown"}, revision: Nat] /\ record.revision = budget.revision
  BY <1>3
<1> HIDE DEF record
<1>5. ledger' \in Seq([tokens: {"known", "unknown"}, revision: Nat])
        /\ \A k \in DOMAIN ledger' : ledger'[k].revision <= budget'.revision
  BY <1>1, <1>3, <1>4 DEF LedgerOK, record
<1>6. alerts' \subseteq (0 .. MaxRevision) \X Thresholds
  BY <1>1, <1>2, <1>3 DEF LedgerOK
<1>7. AlertsKeepUp'
  BY <1>1 DEF AlertsKeepUp
<1> QED BY <1>1, <1>5, <1>6, <1>7 DEF LedgerOK

\* Neither records, nor checks, nor a new budget leave a threshold that was reached
\* without its alert.
LEMMA AlertsKept ==
  ASSUME LedgerOK, LockOK, AlertsKeepUp, MeteringNext
  PROVE  LedgerOK' /\ AlertsKeepUp'
<1> USE MeteringConstants
<1>1. CASE UNCHANGED <<budget, ledger, alerts>>
  BY <1>1 DEF LedgerOK, AlertsKeepUp, Crossed, Total
<1>2. CASE CheckAlerts
  <2>1. alerts' = alerts \cup ({budget.revision} \X Crossed(ledger, budget.thresholds))
          /\ ledger' = ledger /\ budget' = budget
    BY <1>2 DEF CheckAlerts
  <2>2. Crossed(ledger, budget.thresholds) \subseteq Thresholds
    BY CrossedThresholds DEF LedgerOK
  <2>3. Crossed(ledger', budget'.thresholds) = Crossed(ledger, budget.thresholds)
    BY <2>1
  <2> QED BY <2>1, <2>2, <2>3 DEF LedgerOK, AlertsKeepUp
<1>3. CASE Configure
  <2>1. PICK thresholds \in SUBSET Thresholds :
          budget' = [revision |-> budget.revision + 1, thresholds |-> thresholds]
    BY <1>3 DEF Configure
  <2>2. ledger' = ledger /\ alerts' = alerts /\ budget.revision < MaxRevision
    BY <1>3 DEF Configure
  <2>3. budget.revision \in 0 .. MaxRevision
    BY DEF LedgerOK
  <2>4. budget'.revision = budget.revision + 1
          /\ budget' \in [revision: 0 .. MaxRevision, thresholds: SUBSET Thresholds]
    BY <2>1, <2>2, <2>3
  <2>5. ASSUME NEW k \in DOMAIN ledger
        PROVE  ledger[k].revision \in Nat /\ ledger[k].revision <= budget.revision
    <3>1. ledger[k] \in [tokens: {"known", "unknown"}, revision: Nat]
      BY InSequence, Zenon DEF LedgerOK
    <3> QED BY <3>1 DEF LedgerOK
  <2>6. \A k \in DOMAIN ledger : ledger[k].revision < budget'.revision
    BY <2>3, <2>4, <2>5
  <2> QED BY <2>2, <2>3, <2>4, <2>5, <2>6 DEF LedgerOK, AlertsKeepUp
<1>4. \/ UNCHANGED <<budget, ledger, alerts>>
      \/ CheckAlerts \/ Configure \/ \E r \in Runs : CommitRecord(r)
  BY DEF MeteringNext, StartRun, Acquire, CountInput, CallModel, ModelAnswers, UseTool, Finish,
         WorkerStops, Redeliver, BeginRecord, RecordFails, LeaseExpires, RequestAges,
         HourPasses, BeginAllocate, CommitAllocate, AllocatorFails
<1> QED BY <1>1, <1>2, <1>3, <1>4, CommitKeeps

--------------------------------------------------------------------------------
\* The hours of stored bytes.

\* record_next_completed_hour: an hour that is over.
LEMMA BeginsOver ==
  ASSUME HoursOK, NEW s \in Allocators, BeginAllocate(s)
  PROVE  \E next \in 1 .. MaxHours :
           next <= hour /\ allocator' = [allocator EXCEPT ![s] = next]
<1> USE MeteringConstants
<1> DEFINE hours == {allocated[k] : k \in DOMAIN allocated}
           latest == CHOOSE h \in hours : \A o \in hours : o <= h
           next == IF hours = {} THEN hour ELSE 1 + latest
<1>1. next <= hour /\ allocator' = [allocator EXCEPT ![s] = next]
  BY DEF BeginAllocate
<1>2. next \in 1 .. MaxHours
  <2>1. CASE hours = {}
    BY <2>1 DEF HoursOK
  <2>2. CASE hours # {}
    <3>1. allocated # <<>>
      BY <2>2
    <3>2. \E h \in hours : \A o \in hours : o <= h
      BY <3>1 DEF HoursOK
    <3>3. latest \in hours
      BY <3>2
    <3>4. hours \subseteq 1 .. MaxHours
      BY DEF HoursOK
    <3>5. latest \in 1 .. MaxHours
      BY <3>3, <3>4
    <3> HIDE DEF latest
    <3>6. next = 1 + latest
      BY <2>2
    <3>7. next \in Nat /\ next >= 1
      BY <3>5, <3>6
    <3> QED BY <1>1, <3>7 DEF HoursOK
  <2> QED BY <2>1, <2>2
<1> HIDE DEF next
<1> QED BY <1>1, <1>2

\* An hour that is there is not recorded again, whoever else was about to.
LEMMA CommitsOnce ==
  ASSUME HoursOK, NEW s \in Allocators, CommitAllocate(s)
  PROVE  HoursOK'
<1> USE MeteringConstants
<1> DEFINE h == allocator[s]
<1>1. h \in 1 .. MaxHours /\ h <= hour
  BY DEF HoursOK, CommitAllocate
<1>2. hour' = hour /\ allocator' = [allocator EXCEPT ![s] = 0]
  BY DEF CommitAllocate
<1>3. allocator' \in [Allocators -> 0 .. MaxHours] /\ \A o \in Allocators : allocator'[o] <= hour
  BY <1>2 DEF HoursOK
<1>4. CASE \E k \in DOMAIN allocated : allocated[k] = h
  <2>1. allocated' = allocated
    BY <1>4 DEF CommitAllocate
  <2> QED BY <1>2, <1>3, <2>1 DEF HoursOK, HoursOnce
<1>5. CASE ~\E k \in DOMAIN allocated : allocated[k] = h
  <2>1. allocated' = Append(allocated, h)
    BY <1>5 DEF CommitAllocate
  <2>2. allocated \in Seq(1 .. MaxHours) /\ Len(allocated) \in Nat
          /\ DOMAIN allocated = 1 .. Len(allocated)
    BY DEF HoursOK
  <2> DEFINE n == Len(allocated) + 1
  <2>3. /\ allocated' \in Seq(1 .. MaxHours)
        /\ DOMAIN allocated' = 1 .. n
        /\ allocated'[n] = h
        /\ \A k \in DOMAIN allocated : allocated'[k] = allocated[k]
        /\ \A k \in 1 .. n : k = n \/ k \in DOMAIN allocated
        /\ allocated' # <<>>
    BY <1>1, <2>1, <2>2
  <2>4. \A k \in DOMAIN allocated : allocated[k] \in 1 .. MaxHours /\ allocated[k] <= hour
    BY <2>2 DEF HoursOK, HoursOnce
  <2> HIDE DEF h, n
  <2>5. HoursOnce'
    <3> SUFFICES ASSUME NEW k \in DOMAIN allocated'
                 PROVE  allocated'[k] <= hour /\ \A j \in DOMAIN allocated' :
                          allocated'[j] = allocated'[k] => j = k
      BY <1>2 DEF HoursOnce
    <3> QED BY <1>1, <1>5, <2>3, <2>4 DEF HoursOK, HoursOnce
  <2>6. \E k \in DOMAIN allocated' : \A j \in DOMAIN allocated' : allocated'[j] <= allocated'[k]
    <3>1. CASE allocated = <<>>
      <4>1. DOMAIN allocated = {} /\ n \in DOMAIN allocated'
        BY <2>2, <2>3, <3>1 DEF n
      <4> QED BY <1>1, <2>3, <4>1
    <3>2. CASE allocated # <<>>
      <4>1. PICK k \in DOMAIN allocated : \A j \in DOMAIN allocated : allocated[j] <= allocated[k]
        BY <3>2 DEF HoursOK
      <4>2. k \in DOMAIN allocated' /\ n \in DOMAIN allocated'
        BY <2>2, <2>3 DEF n
      <4>3. CASE h <= allocated[k]
        <5>1. \A j \in DOMAIN allocated' : allocated'[j] <= allocated'[k]
          BY <2>3, <4>1, <4>3
        <5> QED BY <4>2, <5>1
      <4>4. CASE ~(h <= allocated[k])
        <5>1. \A j \in DOMAIN allocated' : allocated'[j] <= allocated'[n]
          BY <1>1, <2>3, <2>4, <4>1, <4>4
        <5> QED BY <4>2, <5>1
      <4> QED BY <4>3, <4>4
    <3> QED BY <3>1, <3>2
  <2> QED BY <1>2, <1>3, <2>3, <2>5, <2>6 DEF HoursOK
<1> QED BY <1>4, <1>5

\* No step records an hour twice, or one that is not over.
LEMMA HoursKept ==
  ASSUME HoursOK, MeteringNext
  PROVE  HoursOK'
<1> USE MeteringConstants
<1>1. CASE UNCHANGED <<hour, allocated, allocator>>
  BY <1>1 DEF HoursOK, HoursOnce
<1>2. CASE HourPasses
  <2>1. hour' = hour + 1 /\ hour < MaxHours /\ allocated' = allocated /\ allocator' = allocator
    BY <1>2 DEF HourPasses
  <2>2. \A k \in DOMAIN allocated : allocated[k] \in 1 .. MaxHours
    BY DEF HoursOK
  <2> QED BY <2>1, <2>2 DEF HoursOK, HoursOnce
<1>3. ASSUME NEW s \in Allocators, BeginAllocate(s) PROVE HoursOK'
  <2>1. PICK next \in 1 .. MaxHours :
          next <= hour /\ allocator' = [allocator EXCEPT ![s] = next]
    BY <1>3, BeginsOver
  <2>2. UNCHANGED <<hour, allocated>>
    BY <1>3 DEF BeginAllocate
  <2> QED BY <2>1, <2>2 DEF HoursOK, HoursOnce
<1>4. ASSUME NEW s \in Allocators, AllocatorFails(s) PROVE HoursOK'
  BY <1>4 DEF AllocatorFails, HoursOK, HoursOnce
<1>5. \/ UNCHANGED <<hour, allocated, allocator>>
      \/ HourPasses
      \/ \E s \in Allocators : BeginAllocate(s) \/ CommitAllocate(s) \/ AllocatorFails(s)
  BY DEF MeteringNext, StartRun, Acquire, CountInput, CallModel, ModelAnswers, UseTool, Finish,
         WorkerStops, Redeliver, BeginRecord, CommitRecord, RecordFails, LeaseExpires,
         RequestAges, CheckAlerts, Configure
<1> QED BY <1>1, <1>2, <1>3, <1>4, <1>5, CommitsOnce

--------------------------------------------------------------------------------
\* The theorems of usage.

\* Every step keeps every part.
LEMMA MeteringStep == MeteringInv /\ [MeteringNext]_meteringVars => MeteringInv'
<1>1. ASSUME MeteringInv, MeteringNext PROVE MeteringInv'
  BY <1>1, RunsKept, LeasesKept, LockKept, AlertsKept, HoursKept DEF MeteringInv
<1>2. ASSUME MeteringInv, UNCHANGED meteringVars PROVE MeteringInv'
  <2>1. RunsOK'
    BY <1>2 DEF MeteringInv, RunsOK, meteringVars
  <2>2. LeasesOK' /\ LedgerOK' /\ LockOK'
    BY <1>2 DEF MeteringInv, LeasesOK, LedgerOK, LockOK, meteringVars
  <2>3. AlertsKeepUp' /\ HoursOK'
    BY <1>2 DEF MeteringInv, AlertsKeepUp, Crossed, Total, HoursOK, HoursOnce, meteringVars
  <2> QED BY <2>1, <2>2, <2>3 DEF MeteringInv
<1> QED BY <1>1, <1>2

\* Every reachable state of a tenant's usage, for any runs, limits and bounds,
\* satisfies the inductive invariant.
THEOREM MeteringInvariant == MeteringSpec => []MeteringInv
BY MeteringStart, MeteringStep, PTL DEF MeteringSpec

\* Every column and every key of usage keeps its type, for any limits and bounds.
LEMMA MeteringTypes == MeteringInv => MeteringTypeOK
<1> SUFFICES ASSUME MeteringInv PROVE MeteringTypeOK
  OBVIOUS
<1>1. \A r \in Runs : run[r] \in Attempts
  BY DEF MeteringInv, RunsOK
<1>2. \A k \in DOMAIN allocated : allocated[k] \in 1 .. MaxHours
  BY InSequence, Zenon DEF MeteringInv, HoursOK
<1>3. LeasesOK /\ alerts \subseteq (0 .. MaxRevision) \X Thresholds /\ writer \in Runs \cup {Nobody}
  BY DEF MeteringInv, LedgerOK, LockOK
<1> QED BY <1>1, <1>2, <1>3 DEF MeteringTypeOK, LeasesOK, Attempts, Stations

\* UsageCapacity, the recorder and the alerts: what the provider bills is known to
\* the tenant and paid for once.  However runs are deferred, cut off and made again,
\* and whoever configures the budget or records the hours meanwhile, alerts keep up
\* with the ledger, a deferred turn was free, and no hour is recorded twice.
THEOREM SpendAccountedHolds == MeteringSpec => []SpendAccounted
<1>1. MeteringInv => SpendAccounted
  BY DEF MeteringInv, RunsOK, Costs, At, DeferredIsFree, HoursOK, SpendAccounted
<1> QED BY <1>1, MeteringInvariant, PTL

--------------------------------------------------------------------------------
\* Integrations: ConnectionsSpec => []ConnectionsSafe.

\* The rows of integration_connections, integration_oauth_states and
\* secret_envelopes.
ConnectionRows ==
  [status: {"none", "PENDING", "CONNECTED", "REAUTH_REQUIRED", "REVOKING", "REVOKED"},
   version: Authorizations, secret: {0} \cup Secrets,
   health: {"UNKNOWN", "HEALTHY", "ERROR", "REAUTH_REQUIRED"}]
StateRows ==
  [state: {"none", "open", "consumed"}, verifier: {0} \cup Secrets, by: Admins \cup {"none"}]
Envelopes == [key: KeyVersions \cup {"none"}, grant: Authorizations]

\* The types; a request is about an authorization, and an envelope without a key is
\* none.
ConnectionShape ==
  /\ authKind \in {"OAUTH2", "API_KEY"}
  /\ connection \in ConnectionRows
  /\ oauthState \in [Authorizations -> StateRows]
  /\ vault \in [Secrets -> Envelopes]
  /\ \A s \in Secrets : vault[s].key = "none" => vault[s] = Absent
  /\ masterKey \in KeyVersions
  /\ pending \in [Admins -> [at: {"idle", "authorizing", "revoking"},
                            authorization: Authorizations]]
  /\ deadGrants \subseteq Authorizations
  /\ forsaken \subseteq {0} \cup Secrets
  /\ revokedAt \in Nat

\* The columns that refer to an envelope: the credential, the verifier of an
\* authorization, and what a privacy job cleared.
Verifies(v, s) == oauthState[v].verifier = s
Named(s) ==
  \/ s = connection.secret
  \/ \E v \in Authorizations : Verifies(v, s)
  \/ s \in forsaken

\* An envelope is there exactly when something refers to it.
EnvelopesNamed == \A s \in Secrets : vault[s] # Absent <=> Named(s)

\* An envelope has one owner: deleting what one column refers to takes nothing from
\* another.
OneOwner ==
  /\ \A v \in Authorizations : connection.secret # 0 => ~Verifies(v, connection.secret)
  /\ connection.secret # 0 => connection.secret \notin forsaken
  /\ \A s \in Secrets : s \in forsaken => \A v \in Authorizations : ~Verifies(v, s)
  /\ \A s \in Secrets, v, w \in Authorizations : Verifies(v, s) /\ Verifies(w, s) => v = w

\* An authorization that was not asked for yet has no verifier.
NoFutureVerifier ==
  \A v \in Authorizations : v > connection.version => oauthState[v].verifier = 0

\* A revocation counts as an authorization, except that of a privacy job, which
\* leaves the number to the next one; until then the connection is revoked.
RevocationDated ==
  /\ revokedAt <= connection.version + 1
  /\ authKind = "API_KEY" \/ connection.status # "REVOKED" => revokedAt <= connection.version

\* A credential that may come to work again was granted since the last revocation,
\* and a revoked connection has none.
GrantsCurrent ==
  /\ connection.status = "REVOKED" => connection.secret = 0
  /\ connection.status = "CONNECTED" => connection.secret # 0
  /\ connection.status \notin {"REVOKING", "REVOKED"} /\ connection.secret # 0 =>
       vault[connection.secret].grant >= revokedAt

\* What is true of a connection between any two transactions.
ConnectionInv ==
  /\ ConnectionShape /\ EnvelopesNamed /\ OneOwner /\ NoFutureVerifier
  /\ RevocationDated /\ GrantsCurrent

\* Numbers of authorizations and envelopes; 0 is no envelope.
LEMMA ConnectionConstants ==
  /\ MaxAuthorizations \in Nat /\ MaxSecrets \in Nat
  /\ Authorizations \subseteq Nat /\ Secrets \subseteq Nat
  /\ 0 \in Authorizations /\ 0 \notin Secrets
BY ConnectionsAssumption DEF ConnectionsAssumption, Authorizations, Secrets

\* A new tenant has neither connection nor envelopes.
LEMMA ConnectionStart == ConnectionsInit => ConnectionInv
<1> SUFFICES ASSUME ConnectionsInit PROVE ConnectionInv
  OBVIOUS
<1> USE ConnectionConstants DEF ConnectionsInit
<1>1. ConnectionShape
  BY DEF ConnectionShape, ConnectionRows, StateRows, Envelopes, KeyVersions, Absent, NoState,
         NoRequest
<1>2. EnvelopesNamed /\ OneOwner
  BY DEF EnvelopesNamed, Named, OneOwner, Verifies, Absent, NoState
<1>3. NoFutureVerifier /\ RevocationDated /\ GrantsCurrent
  BY DEF NoFutureVerifier, RevocationDated, GrantsCurrent, NoState
<1> QED BY <1>1, <1>2, <1>3 DEF ConnectionInv

--------------------------------------------------------------------------------
\* The vault.

\* An envelope that opens is there.
LEMMA UnwrapsThere ==
  ASSUME ConnectionShape, NEW s \in {0} \cup Secrets, Unwraps(s)
  PROVE  s \in Secrets /\ vault[s] # Absent
BY DEF ConnectionShape, Unwraps, KeyVersions, Absent

\* The envelope that a new one goes into is free, and nothing refers to it.
LEMMA FreshFree ==
  ASSUME ConnectionInv, HasRoom
  PROVE  Fresh \in Secrets /\ vault[Fresh] = Absent /\ ~Named(Fresh)
<1>1. Fresh \in Secrets /\ vault[Fresh] = Absent
  BY DEF HasRoom, Fresh
<1> QED BY <1>1 DEF ConnectionInv, EnvelopesNamed

\* A new envelope is one.
LEMMA EnvelopeKept ==
  ASSUME ConnectionShape, NEW grant \in Authorizations
  PROVE  Envelope(grant) \in Envelopes /\ Envelope(grant) # Absent
           /\ Envelope(grant).grant = grant /\ Envelope(grant).key # "none"
BY DEF ConnectionShape, Envelope, Envelopes, KeyVersions, Absent

\* The vault without an envelope.
LEMMA WithoutIs ==
  ASSUME ConnectionShape, NEW envelopes \in [Secrets -> Envelopes], NEW s \in Secrets
  PROVE  /\ Without(s, envelopes) \in [Secrets -> Envelopes]
         /\ Without(s, envelopes)[s] = Absent
         /\ \A o \in Secrets : o # s => Without(s, envelopes)[o] = envelopes[o]
<1>1. Absent \in Envelopes
  BY ConnectionConstants DEF Absent, Envelopes
<1> QED BY <1>1 DEF Without

\* _replace_credential: afterwards the vault has the new envelope instead of the old
\* one.
LEMMA Replaces ==
  ASSUME ConnectionInv, NEW grant \in Authorizations,
         NEW envelopes \in [Secrets -> Envelopes],
         ReplaceCredential(grant, envelopes, connection)
  PROVE  \E f \in Secrets :
           /\ vault[f] = Absent /\ ~Named(f)
           /\ connection' = [connection EXCEPT !.status = "CONNECTED", !.health = "HEALTHY",
                                               !.secret = f]
           /\ vault' \in [Secrets -> Envelopes]
           /\ vault'[f] = Envelope(grant)
           /\ connection.secret # 0 => vault'[connection.secret] = Absent
           /\ \A s \in Secrets : s # f /\ s # connection.secret => vault'[s] = envelopes[s]
<1> DEFINE f == Fresh
           stored == Stored(grant, envelopes)
<1>0. ConnectionShape /\ connection.secret \in {0} \cup Secrets
  BY DEF ConnectionInv, ConnectionShape, ConnectionRows
<1>1. f \in Secrets /\ vault[f] = Absent /\ ~Named(f)
  BY FreshFree DEF ReplaceCredential
<1>2. f # connection.secret
  BY <1>1 DEF Named
<1>3. /\ connection' = [connection EXCEPT !.status = "CONNECTED", !.health = "HEALTHY",
                                          !.secret = f]
      /\ vault' = IF connection.secret = 0 THEN stored ELSE Without(connection.secret, stored)
  BY DEF ReplaceCredential
<1>4. stored = [envelopes EXCEPT ![f] = Envelope(grant)]
  BY DEF Stored
<1> HIDE DEF f, stored
<1>5. /\ stored \in [Secrets -> Envelopes] /\ stored[f] = Envelope(grant)
      /\ \A s \in Secrets : s # f => stored[s] = envelopes[s]
  BY <1>0, <1>1, <1>4, EnvelopeKept
<1>6. CASE connection.secret = 0
  BY <1>1, <1>3, <1>5, <1>6
<1>7. CASE connection.secret # 0
  <2>1. connection.secret \in Secrets
    BY <1>0, <1>7
  <2>2. vault' = Without(connection.secret, stored)
    BY <1>3, <1>7
  <2>3. /\ vault' \in [Secrets -> Envelopes] /\ vault'[connection.secret] = Absent
        /\ \A s \in Secrets : s # connection.secret => vault'[s] = stored[s]
    BY <1>0, <1>5, <2>1, <2>2, WithoutIs, Zenon
  <2> QED BY <1>1, <1>2, <1>3, <1>5, <2>3
<1> QED BY <1>6, <1>7

--------------------------------------------------------------------------------
\* Steps that leave the vault alone.

\* What moves when only the status and the health of a connection change.
Reported(to, health) == connection' = [connection EXCEPT !.status = to, !.health = health]

\* A status that does not make the connection work, nor undo a revocation, is safe.
LEMMA ReportedKeeps ==
  ASSUME ConnectionInv,
         NEW to \in {"none", "PENDING", "CONNECTED", "REAUTH_REQUIRED", "REVOKING"},
         NEW health \in {"UNKNOWN", "HEALTHY", "ERROR", "REAUTH_REQUIRED"},
         Reported(to, health),
         connection.status = "REVOKED" => authKind = "API_KEY",
         to = "CONNECTED" => connection.status = "CONNECTED",
         connection.status = "REVOKING" => to = "REVOKING",
         deadGrants' \subseteq Authorizations,
         pending' = pending \/ \E a \in Admins : Done(a),
         UNCHANGED <<authKind, oauthState, vault, masterKey, forsaken, revokedAt>>
  PROVE  ConnectionInv'
<1> USE ConnectionConstants
<1>0. connection \in ConnectionRows /\ pending \in [Admins -> [at: {"idle", "authorizing",
          "revoking"}, authorization: Authorizations]]
  BY DEF ConnectionInv, ConnectionShape
<1>1. /\ connection' \in ConnectionRows
      /\ connection'.status = to
      /\ connection'.version = connection.version /\ connection'.secret = connection.secret
  BY <1>0 DEF Reported, ConnectionRows
<1>2. pending' \in [Admins -> [at: {"idle", "authorizing", "revoking"},
                               authorization: Authorizations]]
  BY <1>0 DEF Done, NoRequest
<1>3. ConnectionShape'
  BY <1>1, <1>2 DEF ConnectionInv, ConnectionShape
<1>4. EnvelopesNamed' /\ NoFutureVerifier'
  BY <1>1 DEF ConnectionInv, EnvelopesNamed, Named, Verifies, NoFutureVerifier
<1>6. OneOwner'
  BY <1>1 DEF ConnectionInv, OneOwner, Verifies
<1>5. RevocationDated' /\ GrantsCurrent'
  BY <1>1 DEF ConnectionInv, RevocationDated, GrantsCurrent
<1> QED BY <1>3, <1>4, <1>5, <1>6 DEF ConnectionInv

\* rotate_tenant_keys rewraps envelopes and changes nothing else.
LEMMA RotateKeeps ==
  ASSUME ConnectionInv, RotateKeys
  PROVE  ConnectionInv'
<1> USE ConnectionConstants
<1>1. PICK batch \in (SUBSET {s \in Secrets : vault[s].key = "old"}) \ {{}} :
        vault' = [s \in Secrets |-> IF s \in batch THEN [vault[s] EXCEPT !.key = "new"]
                                                   ELSE vault[s]]
  BY DEF RotateKeys
<1>2. ASSUME NEW s \in Secrets
      PROVE  /\ vault'[s] \in Envelopes /\ vault'[s].grant = vault[s].grant
             /\ vault'[s] # Absent <=> vault[s] # Absent
             /\ vault'[s].key = "none" => vault'[s] = Absent
  <2>1. vault[s] \in Envelopes /\ (vault[s].key = "none" => vault[s] = Absent)
    BY DEF ConnectionInv, ConnectionShape
  <2>2. CASE s \in batch
    <3>1. vault[s].key = "old" /\ vault'[s] = [vault[s] EXCEPT !.key = "new"]
      BY <1>1, <2>2
    <3>2. vault'[s] \in Envelopes /\ vault'[s].key = "new" /\ vault'[s].grant = vault[s].grant
      BY <2>1, <3>1 DEF Envelopes, KeyVersions
    <3> QED BY <3>1, <3>2 DEF Absent
  <2>3. CASE s \notin batch
    BY <1>1, <2>1, <2>3
  <2> QED BY <2>2, <2>3
<1>3. vault' \in [Secrets -> Envelopes]
  BY <1>1, <1>2
<1>4. UNCHANGED <<authKind, forsaken, connection, oauthState, masterKey, pending, deadGrants,
                  revokedAt>>
  BY DEF RotateKeys
<1>5. ConnectionShape'
  BY <1>2, <1>3, <1>4 DEF ConnectionInv, ConnectionShape
<1>6. EnvelopesNamed' /\ OneOwner' /\ NoFutureVerifier' /\ RevocationDated'
  BY <1>2, <1>4 DEF ConnectionInv, EnvelopesNamed, Named, OneOwner, Verifies, NoFutureVerifier,
                    RevocationDated
<1>7. connection.secret \in {0} \cup Secrets
  BY DEF ConnectionInv, ConnectionShape, ConnectionRows
<1>8. GrantsCurrent'
  BY <1>2, <1>4, <1>7 DEF ConnectionInv, GrantsCurrent
<1> QED BY <1>5, <1>6, <1>8 DEF ConnectionInv

\* Steps that change neither the row nor the vault nor who refers to it.
LEMMA OutsideKeeps ==
  ASSUME ConnectionInv,
         UNCHANGED <<authKind, connection, oauthState, vault, forsaken, revokedAt>>,
         masterKey' \in KeyVersions,
         deadGrants' \subseteq Authorizations,
         pending' = pending \/ \E a \in Admins : Done(a)
  PROVE  ConnectionInv'
<1> USE ConnectionConstants
<1>1. pending' \in [Admins -> [at: {"idle", "authorizing", "revoking"},
                               authorization: Authorizations]]
  BY DEF Done, NoRequest, ConnectionInv, ConnectionShape
<1>2. ConnectionShape'
  BY <1>1 DEF ConnectionInv, ConnectionShape
<1>3. EnvelopesNamed' /\ OneOwner' /\ NoFutureVerifier' /\ RevocationDated' /\ GrantsCurrent'
  BY DEF ConnectionInv, EnvelopesNamed, Named, OneOwner, Verifies, NoFutureVerifier,
         RevocationDated, GrantsCurrent
<1> QED BY <1>2, <1>3 DEF ConnectionInv

--------------------------------------------------------------------------------
\* Steps that delete and add envelopes.

\* The columns that name verifiers after some of them were taken out of the vault.
VerifiersWithout(gone) ==
  \A v \in Authorizations :
    /\ oauthState'[v].verifier \in {0, oauthState[v].verifier}
    /\ \A s \in Secrets : oauthState'[v].verifier = s <=> Verifies(v, s) /\ s \notin gone

\* The secret of a connection stays where it is; some verifiers go.
LEMMA DroppedKeeps ==
  ASSUME ConnectionInv, NEW gone \in SUBSET Secrets,
         \A s \in gone : \E v \in Authorizations : Verifies(v, s),
         VerifiersWithout(gone), oauthState' \in [Authorizations -> StateRows],
         vault' \in [Secrets -> Envelopes],
         \A s \in gone : vault'[s] = Absent,
         \A s \in Secrets : s \notin gone => vault'[s] = vault[s],
         connection' \in ConnectionRows, UNCHANGED connection.version,
         UNCHANGED connection.secret,
         \/ connection'.status = connection.status
         \/ connection'.status = "REAUTH_REQUIRED" /\ connection.status = "PENDING",
         \E a \in Admins : Done(a),
         UNCHANGED <<authKind, forsaken, masterKey, deadGrants, revokedAt>>
  PROVE  ConnectionInv'
<1> USE ConnectionConstants
<1>1. pending' \in [Admins -> [at: {"idle", "authorizing", "revoking"},
                               authorization: Authorizations]]
  BY DEF Done, NoRequest, ConnectionInv, ConnectionShape
<1>2. ConnectionShape'
  <2>1. \A s \in Secrets : vault'[s].key = "none" => vault'[s] = Absent
    BY DEF ConnectionInv, ConnectionShape
  <2> QED BY <1>1, <2>1 DEF ConnectionInv, ConnectionShape
<1>3. \A s \in gone : s # connection.secret /\ s \notin forsaken
  BY DEF ConnectionInv, OneOwner
<1>4. EnvelopesNamed'
  <2> SUFFICES ASSUME NEW s \in Secrets
               PROVE  vault'[s] # Absent <=> Named(s)'
    BY DEF EnvelopesNamed
  <2>1. vault[s] # Absent <=> Named(s)
    BY DEF ConnectionInv, EnvelopesNamed
  <2>2. Named(s)' <=> Named(s) /\ s \notin gone
    BY <1>3 DEF Named, Verifies, VerifiersWithout
  <2> QED BY <2>1, <2>2
<1>5. \A v \in Authorizations, s \in Secrets : Verifies(v, s)' => Verifies(v, s)
  BY DEF Verifies, VerifiersWithout
<1>6. connection.secret \in {0} \cup Secrets
  BY DEF ConnectionInv, ConnectionShape, ConnectionRows
<1>7. OneOwner'
  <2>1. \A v \in Authorizations :
          connection'.secret # 0 => oauthState'[v].verifier # connection'.secret
    BY <1>6 DEF ConnectionInv, OneOwner, Verifies, VerifiersWithout
  <2>2. \A s \in Secrets, v, w \in Authorizations : Verifies(v, s)' /\ Verifies(w, s)' => v = w
    BY <1>5 DEF ConnectionInv, OneOwner
  <2>3. \A s \in Secrets : s \in forsaken' => \A v \in Authorizations : ~Verifies(v, s)'
    BY <1>5 DEF ConnectionInv, OneOwner
  <2> QED BY <2>1, <2>2, <2>3 DEF ConnectionInv, OneOwner, Verifies
<1>8. NoFutureVerifier'
  BY DEF ConnectionInv, NoFutureVerifier, VerifiersWithout
<1>9. RevocationDated' /\ GrantsCurrent'
  BY <1>3, <1>6 DEF ConnectionInv, RevocationDated, GrantsCurrent
<1> QED BY <1>2, <1>4, <1>7, <1>8, <1>9 DEF ConnectionInv

\* A credential is replaced by one that was granted since the last revocation; some
\* verifiers go.
LEMMA RenewedKeeps ==
  ASSUME ConnectionInv, NEW gone \in SUBSET Secrets,
         \A s \in gone : \E v \in Authorizations : Verifies(v, s),
         VerifiersWithout(gone), oauthState' \in [Authorizations -> StateRows],
         NEW grant \in Authorizations, grant >= revokedAt,
         authKind = "API_KEY" \/ connection.status # "REVOKED",
         NEW envelopes \in [Secrets -> Envelopes],
         \A s \in gone : envelopes[s] = Absent,
         \A s \in Secrets : s \notin gone => envelopes[s] = vault[s],
         ReplaceCredential(grant, envelopes, connection),
         pending' = pending \/ \E a \in Admins : Done(a),
         deadGrants' \subseteq Authorizations,
         UNCHANGED <<authKind, forsaken, masterKey, revokedAt>>
  PROVE  ConnectionInv'
<1> USE ConnectionConstants
<1>1. PICK f \in Secrets :
        /\ vault[f] = Absent /\ ~Named(f)
        /\ connection' = [connection EXCEPT !.status = "CONNECTED", !.health = "HEALTHY",
                                            !.secret = f]
        /\ vault' \in [Secrets -> Envelopes]
        /\ vault'[f] = Envelope(grant)
        /\ connection.secret # 0 => vault'[connection.secret] = Absent
        /\ \A s \in Secrets : s # f /\ s # connection.secret => vault'[s] = envelopes[s]
  BY Replaces
<1>2. ConnectionShape /\ connection \in ConnectionRows /\ connection.secret \in {0} \cup Secrets
  BY DEF ConnectionInv, ConnectionShape, ConnectionRows
<1>3. /\ connection' \in ConnectionRows /\ connection'.status = "CONNECTED"
      /\ connection'.secret = f /\ connection'.version = connection.version
  BY <1>1, <1>2 DEF ConnectionRows
<1>4. Envelope(grant) \in Envelopes /\ Envelope(grant) # Absent
        /\ Envelope(grant).grant = grant /\ Envelope(grant).key # "none"
  BY <1>2, EnvelopeKept
<1>5. pending' \in [Admins -> [at: {"idle", "authorizing", "revoking"},
                               authorization: Authorizations]]
  BY DEF Done, NoRequest, ConnectionInv, ConnectionShape
<1>6. ConnectionShape'
  <2>1. ASSUME NEW s \in Secrets, vault'[s].key = "none" PROVE vault'[s] = Absent
    <3>1. s # f
      BY <1>1, <1>4, <2>1
    <3>2. CASE s = connection.secret
      BY <1>1, <3>2, <2>1
    <3>3. CASE s # connection.secret
      <4>1. vault'[s] = envelopes[s]
        BY <1>1, <3>1, <3>3
      <4> QED BY <1>2, <2>1, <4>1 DEF ConnectionShape
    <3> QED BY <3>2, <3>3
  <2> QED BY <1>1, <1>2, <1>3, <1>5, <2>1 DEF ConnectionShape
<1>7. \A s \in gone : s # connection.secret /\ s \notin forsaken
  BY DEF ConnectionInv, OneOwner
<1>8. ASSUME NEW s \in Secrets
      PROVE  vault'[s] # Absent <=> s = f \/ (Named(s) /\ s # connection.secret /\ s \notin gone)
  <2>1. vault[s] # Absent <=> Named(s)
    BY DEF ConnectionInv, EnvelopesNamed
  <2>2. CASE s = f
    BY <1>1, <1>4, <2>2
  <2>3. CASE s # f /\ s = connection.secret
    BY <1>1, <2>3
  <2>4. CASE s # f /\ s # connection.secret
    BY <1>1, <2>1, <2>4
  <2> QED BY <2>2, <2>3, <2>4
<1>9. ASSUME NEW s \in Secrets
      PROVE  Named(s)' <=> s = f \/ (Named(s) /\ s # connection.secret /\ s \notin gone)
  <2>1. \A v \in Authorizations : Verifies(v, s)' <=> Verifies(v, s) /\ s \notin gone
    BY DEF Verifies, VerifiersWithout
  <2>2. s \in forsaken => s # connection.secret
    BY DEF ConnectionInv, OneOwner
  <2>3. \A v \in Authorizations : Verifies(v, s) => s # connection.secret
    BY DEF ConnectionInv, OneOwner
  <2> QED BY <1>3, <1>7, <2>1, <2>2, <2>3 DEF Named
<1>10. EnvelopesNamed'
  BY <1>8, <1>9 DEF EnvelopesNamed
<1>11. \A v \in Authorizations, s \in Secrets : Verifies(v, s)' => Verifies(v, s)
  BY DEF Verifies, VerifiersWithout
<1>12. OneOwner'
  <2>1. \A v \in Authorizations : oauthState'[v].verifier # connection'.secret
    BY <1>1, <1>3 DEF Named, VerifiersWithout
  <2>2. \A s \in Secrets, v, w \in Authorizations : Verifies(v, s)' /\ Verifies(w, s)' => v = w
    BY <1>11 DEF ConnectionInv, OneOwner
  <2>3. \A s \in Secrets : s \in forsaken' => \A v \in Authorizations : ~Verifies(v, s)'
    BY <1>11 DEF ConnectionInv, OneOwner
  <2>4. connection'.secret \notin forsaken'
    BY <1>1, <1>3 DEF Named
  <2> QED BY <2>1, <2>2, <2>3, <2>4 DEF OneOwner, Verifies
<1>13. NoFutureVerifier'
  BY <1>3 DEF ConnectionInv, NoFutureVerifier, VerifiersWithout
<1>14. RevocationDated' /\ GrantsCurrent'
  BY <1>1, <1>3, <1>4 DEF ConnectionInv, RevocationDated, GrantsCurrent
<1> QED BY <1>6, <1>10, <1>12, <1>13, <1>14 DEF ConnectionInv

\* Replacing a credential while no verifier is taken.
LEMMA RenewsInPlace ==
  ASSUME ConnectionInv, NEW grant \in Authorizations, grant >= revokedAt,
         authKind = "API_KEY" \/ connection.status # "REVOKED",
         ReplaceCredential(grant, vault, connection),
         deadGrants' \subseteq Authorizations,
         UNCHANGED <<authKind, forsaken, oauthState, masterKey, pending, revokedAt>>
  PROVE  ConnectionInv'
<1>1. VerifiersWithout({})
  BY DEF VerifiersWithout, Verifies
<1>2. oauthState' \in [Authorizations -> StateRows] /\ vault \in [Secrets -> Envelopes]
  BY DEF ConnectionInv, ConnectionShape
<1> QED BY <1>1, <1>2, RenewedKeeps

--------------------------------------------------------------------------------
\* Requests of one transaction.

\* What Failed reports.
LEMMA FailedReports ==
  ASSUME NEW health, NEW expired \in BOOLEAN, connection' = Failed(health, expired),
         connection \in ConnectionRows
  PROVE  \E to \in {connection.status, "REAUTH_REQUIRED"} : Reported(to, health)
<1> DEFINE to == IF health = "REAUTH_REQUIRED" \/ expired THEN "REAUTH_REQUIRED"
                 ELSE connection.status
<1>1. Reported(to, health)
  BY DEF Reported, Failed, ConnectionRows
<1> QED BY <1>1

\* A failed call of a connection that works, or should be authorized again.
LEMMA FailedKeeps ==
  ASSUME ConnectionInv, NEW health \in Failures, NEW expired \in BOOLEAN,
         connection' = Failed(health, expired),
         connection.status \in {"CONNECTED", "REAUTH_REQUIRED"},
         UNCHANGED <<authKind, forsaken, oauthState, vault, masterKey, pending, deadGrants,
                     revokedAt>>
  PROVE  ConnectionInv'
<1>1. connection \in ConnectionRows
  BY DEF ConnectionInv, ConnectionShape
<1>2. PICK to \in {connection.status, "REAUTH_REQUIRED"} : Reported(to, health)
  BY <1>1, FailedReports
<1>3. deadGrants' \subseteq Authorizations
  BY DEF ConnectionInv, ConnectionShape
<1>4. health \in {"UNKNOWN", "HEALTHY", "ERROR", "REAUTH_REQUIRED"}
  BY DEF Failures
<1> QED BY <1>2, <1>3, <1>4, ReportedKeeps

\* The grant of a connection that works is an authorization since the revocation.
LEMMA GrantKept ==
  ASSUME ConnectionInv, connection.status \in {"CONNECTED", "REAUTH_REQUIRED"},
         Unwraps(connection.secret)
  PROVE  Grant \in Authorizations /\ Grant >= revokedAt /\ connection.secret # 0
<1>1. connection.secret \in Secrets
  BY UnwrapsThere DEF ConnectionInv, ConnectionShape, ConnectionRows
<1>2. connection.secret # 0 /\ Grant = vault[connection.secret].grant
  BY <1>1, ConnectionConstants DEF Grant
<1>3. vault[connection.secret] \in Envelopes
  BY <1>1 DEF ConnectionInv, ConnectionShape
<1> QED BY <1>2, <1>3 DEF Envelopes, ConnectionInv, GrantsCurrent

\* connect_api_key: the key counts as granted in the version it is stored in, which a
\* revocation has moved.
LEMMA ConnectKeeps ==
  ASSUME ConnectionInv, NEW a \in Admins, ConnectApiKey(a)
  PROVE  ConnectionInv'
<1> USE ConnectionConstants
<1>1. authKind = "API_KEY" /\ connection.status # "REVOKING"
        /\ UNCHANGED <<authKind, forsaken, oauthState, masterKey, pending, revokedAt>>
  BY DEF ConnectApiKey
<1>2. connection \in ConnectionRows /\ deadGrants \subseteq Authorizations
  BY DEF ConnectionInv, ConnectionShape
<1>3. connection.version \in Authorizations
  BY <1>2 DEF ConnectionRows
<1>4. CASE ReplaceCredential(connection.version, vault, connection)
             /\ deadGrants' = deadGrants \ {connection.version}
  <2>1. connection.version >= revokedAt
    BY <1>1, <1>3 DEF ConnectionInv, ConnectionShape, RevocationDated
  <2>2. deadGrants' \subseteq Authorizations
    BY <1>2, <1>4
  <2> QED BY <1>1, <1>3, <1>4, <2>1, <2>2, RenewsInPlace
<1>5. CASE /\ \E health \in Failures :
                connection' = [connection EXCEPT !.status = "REAUTH_REQUIRED", !.health = health]
           /\ UNCHANGED <<vault, deadGrants>>
  <2>1. PICK health \in Failures : Reported("REAUTH_REQUIRED", health)
    BY <1>5 DEF Reported
  <2>2. deadGrants' \subseteq Authorizations
    BY <1>2, <1>5
  <2> QED BY <1>1, <1>5, <2>1, <2>2, ReportedKeeps DEF Failures
<1> QED BY <1>4, <1>5 DEF ConnectApiKey

\* refresh and execute_connector: the same grant in a new envelope, or a failure.
LEMMA RefreshKeeps ==
  ASSUME ConnectionInv,
         ExecuteConnector \/ \E a \in Admins : Refresh(a)
  PROVE  ConnectionInv'
<1>1. /\ connection.status \in {"CONNECTED", "REAUTH_REQUIRED"}
      /\ Unwraps(connection.secret)
      /\ UNCHANGED <<authKind, forsaken, oauthState, masterKey, pending, deadGrants, revokedAt>>
  BY DEF ExecuteConnector, Refresh
<1>2. \/ ReplaceCredential(Grant, vault, connection)
      \/ \E health \in Failures, expired \in BOOLEAN :
           connection' = Failed(health, expired) /\ UNCHANGED vault
  <2>1. ASSUME NEW answer \in Replies(Grant), answer # "HEALTHY" PROVE answer \in Failures
    BY <2>1 DEF Replies
  <2>2. "REAUTH_REQUIRED" \in Failures
    BY DEF Failures
  <2> QED BY <2>1, <2>2 DEF ExecuteConnector, Refresh
<1>3. Grant \in Authorizations /\ Grant >= revokedAt
  BY <1>1, GrantKept
<1>4. deadGrants' \subseteq Authorizations
  BY <1>1 DEF ConnectionInv, ConnectionShape
<1> QED BY <1>1, <1>2, <1>3, <1>4, RenewsInPlace, FailedKeeps

\* check_health reports what it found.
LEMMA HealthKeeps ==
  ASSUME ConnectionInv, NEW a \in Admins, CheckHealth(a)
  PROVE  ConnectionInv'
<1>1. /\ connection.status = "CONNECTED"
      /\ UNCHANGED <<authKind, forsaken, oauthState, vault, masterKey, pending, deadGrants,
                     revokedAt>>
  BY DEF CheckHealth
<1>2. connection \in ConnectionRows /\ deadGrants' \subseteq Authorizations
  BY <1>1 DEF ConnectionInv, ConnectionShape
<1>3. PICK health \in Failures \cup {"HEALTHY"}, expired \in BOOLEAN :
        connection' = Failed(health, expired)
  BY DEF CheckHealth, Replies, Failures
<1>4. health \in {"UNKNOWN", "HEALTHY", "ERROR", "REAUTH_REQUIRED"}
  BY DEF Failures
<1>5. PICK to \in {connection.status, "REAUTH_REQUIRED"} : Reported(to, health)
  BY <1>2, <1>3, FailedReports
<1> QED BY <1>1, <1>2, <1>4, <1>5, ReportedKeeps

--------------------------------------------------------------------------------
\* Authorization and revocation.

\* start_oauth: the verifier of a new authorization has an envelope of its own.
LEMMA StartKeeps ==
  ASSUME ConnectionInv, NEW a \in Admins, StartOAuth(a)
  PROVE  ConnectionInv'
<1> USE ConnectionConstants
<1> DEFINE f == Fresh
           n == connection.version + 1
<1>1. ConnectionShape /\ connection \in ConnectionRows /\ connection.version \in Authorizations
        /\ connection.secret \in {0} \cup Secrets /\ connection.status # "REVOKING"
        /\ connection.version < MaxAuthorizations
  BY DEF ConnectionInv, ConnectionShape, ConnectionRows, StartOAuth
<1>2. f \in Secrets /\ vault[f] = Absent /\ ~Named(f)
  BY FreshFree DEF StartOAuth
<1>3. n \in Authorizations /\ n > connection.version /\ connection.version \in Nat
  BY <1>1 DEF Authorizations
<1>4. /\ connection' = [connection EXCEPT !.status = "PENDING", !.version = n,
                                          !.health = "UNKNOWN"]
      /\ vault' = [vault EXCEPT ![f] = Envelope(0)]
      /\ oauthState' = [oauthState EXCEPT ![connection'.version] = Awaiting(a, f)]
      /\ UNCHANGED <<authKind, forsaken, masterKey, pending, deadGrants, revokedAt>>
  BY DEF StartOAuth, Stored
<1> HIDE DEF f, n
<1>5. /\ connection' \in ConnectionRows /\ connection'.status = "PENDING"
      /\ connection'.version = n /\ connection'.secret = connection.secret
  BY <1>1, <1>3, <1>4 DEF ConnectionRows
<1>6. Awaiting(a, f) \in StateRows /\ Awaiting(a, f).verifier = f
  BY <1>2 DEF Awaiting, StateRows
<1>7. /\ oauthState' \in [Authorizations -> StateRows] /\ oauthState'[n].verifier = f
      /\ \A v \in Authorizations : v # n => oauthState'[v] = oauthState[v]
  BY <1>1, <1>3, <1>4, <1>5, <1>6 DEF ConnectionShape
<1>8. /\ vault' \in [Secrets -> Envelopes] /\ vault'[f] # Absent /\ vault'[f].key # "none"
      /\ \A s \in Secrets : s # f => vault'[s] = vault[s]
  BY <1>1, <1>2, <1>4, EnvelopeKept DEF ConnectionShape
<1>9. ConnectionShape'
  BY <1>1, <1>4, <1>5, <1>7, <1>8 DEF ConnectionShape
<1>10. oauthState[n].verifier = 0
  BY <1>3 DEF ConnectionInv, NoFutureVerifier
<1>11. \A v \in Authorizations, s \in Secrets :
         oauthState'[v].verifier = s <=> (v = n /\ s = f) \/ Verifies(v, s)
  BY <1>2, <1>7, <1>10 DEF Verifies
<1>12. EnvelopesNamed'
  <2> SUFFICES ASSUME NEW s \in Secrets PROVE vault'[s] # Absent <=> Named(s)'
    BY DEF EnvelopesNamed
  <2>1. vault[s] # Absent <=> Named(s)
    BY DEF ConnectionInv, EnvelopesNamed
  <2>2. Named(s)' <=> s = f \/ Named(s)
    BY <1>3, <1>4, <1>5, <1>11 DEF Named, Verifies
  <2> QED BY <1>8, <2>1, <2>2
<1>13. OneOwner'
  <2>1. \A v \in Authorizations : connection'.secret # 0 =>
          oauthState'[v].verifier # connection'.secret
    BY <1>1, <1>2, <1>5, <1>11 DEF ConnectionInv, OneOwner, Named
  <2>2. \A s \in Secrets, v, w \in Authorizations :
          oauthState'[v].verifier = s /\ oauthState'[w].verifier = s => v = w
    BY <1>2, <1>11 DEF ConnectionInv, OneOwner, Named
  <2>3. \A s \in Secrets : s \in forsaken => \A v \in Authorizations : oauthState'[v].verifier # s
    <3>1. \A s \in Secrets : s \in forsaken => s # f
      BY <1>2 DEF Named
    <3>2. \A s \in Secrets : s \in forsaken => \A v \in Authorizations : ~Verifies(v, s)
      BY DEF ConnectionInv, OneOwner
    <3> QED BY <1>11, <3>1, <3>2
  <2>4. connection'.secret # 0 => connection'.secret \notin forsaken
    BY <1>5 DEF ConnectionInv, OneOwner
  <2> QED BY <1>4, <2>1, <2>2, <2>3, <2>4 DEF OneOwner, Verifies
<1>14. NoFutureVerifier'
  BY <1>3, <1>5, <1>7 DEF ConnectionInv, NoFutureVerifier, Authorizations
<1>15. RevocationDated'
  BY <1>1, <1>3, <1>4, <1>5 DEF ConnectionShape, ConnectionInv, RevocationDated, n
<1>16. GrantsCurrent'
  <2>1. connection.secret # 0 => connection.secret # f
    BY <1>2 DEF Named
  <2> QED BY <1>1, <1>4, <1>5, <1>8, <2>1 DEF ConnectionInv, GrantsCurrent
<1> QED BY <1>9, <1>12, <1>13, <1>14, <1>15, <1>16 DEF ConnectionInv

\* consume_state marks the state and remembers the authorization.
LEMMA ConsumeKeeps ==
  ASSUME ConnectionInv, NEW a \in Admins, NEW v \in Authorizations, ConsumeState(a, v)
  PROVE  ConnectionInv'
<1> USE ConnectionConstants
<1>1. /\ oauthState' = [oauthState EXCEPT ![v].state = "consumed"]
      /\ pending' = [pending EXCEPT ![a] = [at |-> "authorizing", authorization |-> v]]
      /\ UNCHANGED <<authKind, forsaken, connection, vault, masterKey, deadGrants, revokedAt>>
  BY DEF ConsumeState
<1>2. oauthState[v] \in StateRows /\ oauthState \in [Authorizations -> StateRows]
  BY DEF ConnectionInv, ConnectionShape
<1>3. /\ oauthState' \in [Authorizations -> StateRows]
      /\ \A w \in Authorizations : oauthState'[w].verifier = oauthState[w].verifier
  BY <1>1, <1>2 DEF StateRows
<1>4. ConnectionShape'
  BY <1>1, <1>3 DEF ConnectionInv, ConnectionShape
<1>5. EnvelopesNamed'
  BY <1>1, <1>3 DEF ConnectionInv, EnvelopesNamed, Named, Verifies
<1>6. OneOwner'
  BY <1>1, <1>3 DEF ConnectionInv, OneOwner, Verifies
<1>7. NoFutureVerifier' /\ RevocationDated' /\ GrantsCurrent'
  BY <1>1, <1>3 DEF ConnectionInv, NoFutureVerifier, RevocationDated, GrantsCurrent
<1> QED BY <1>4, <1>5, <1>6, <1>7 DEF ConnectionInv

\* Taking a verifier out of its row.
LEMMA VerifierTaken ==
  ASSUME ConnectionInv, NEW v \in Authorizations, NEW s \in Secrets, Verifies(v, s),
         oauthState' = [oauthState EXCEPT ![v].verifier = 0]
  PROVE  VerifiersWithout({s}) /\ oauthState' \in [Authorizations -> StateRows]
<1> USE ConnectionConstants
<1>1. oauthState[v] \in StateRows /\ oauthState \in [Authorizations -> StateRows]
  BY DEF ConnectionInv, ConnectionShape
<1>2. /\ oauthState' \in [Authorizations -> StateRows] /\ oauthState'[v].verifier = 0
      /\ \A w \in Authorizations : w # v => oauthState'[w] = oauthState[w]
  BY <1>1 DEF StateRows
<1>3. \A w \in Authorizations : Verifies(w, s) => w = v
  BY DEF ConnectionInv, OneOwner
<1> QED BY <1>2, <1>3 DEF VerifiersWithout, Verifies

\* complete_oauth: an authorization works only while it is the one awaited, which a
\* revocation ends.
LEMMA CompleteKeeps ==
  ASSUME ConnectionInv, NEW a \in Admins, CompleteOAuth(a)
  PROVE  ConnectionInv'
<1> USE ConnectionConstants
<1> DEFINE v == pending[a].authorization
           s == oauthState[v].verifier
<1>1. ConnectionShape /\ connection \in ConnectionRows /\ vault \in [Secrets -> Envelopes]
        /\ deadGrants \subseteq Authorizations
  BY DEF ConnectionInv, ConnectionShape
<1>2. v \in Authorizations
  BY <1>1 DEF ConnectionShape
<1>3. s \in {0} \cup Secrets
  BY <1>1, <1>2 DEF ConnectionShape, StateRows
<1>4. /\ Unwraps(s) /\ oauthState' = [oauthState EXCEPT ![v].verifier = 0] /\ Done(a)
      /\ UNCHANGED <<authKind, forsaken, masterKey, deadGrants, revokedAt>>
  BY DEF CompleteOAuth
<1>5. s \in Secrets
  BY <1>1, <1>3, <1>4, UnwrapsThere
<1>6. \/ ~Awaited(v) /\ vault' = Without(s, vault) /\ connection' = connection
      \/ Awaited(v) /\ ReplaceCredential(v, Without(s, vault), connection)
      \/ /\ Awaited(v)
         /\ \E health \in Failures :
              connection' = [connection EXCEPT !.status = "REAUTH_REQUIRED", !.health = health]
         /\ vault' = Without(s, vault)
  BY DEF CompleteOAuth
<1>7. Verifies(v, s)
  BY DEF Verifies
<1> HIDE DEF v, s
<1>8. VerifiersWithout({s}) /\ oauthState' \in [Authorizations -> StateRows]
  BY <1>2, <1>4, <1>5, <1>7, VerifierTaken
<1>9. /\ Without(s, vault) \in [Secrets -> Envelopes] /\ Without(s, vault)[s] = Absent
      /\ \A o \in Secrets : o # s => Without(s, vault)[o] = vault[o]
  BY <1>1, <1>5, WithoutIs
<1>10. \A o \in {s} : \E w \in Authorizations : Verifies(w, o)
  BY <1>2, <1>7
<1>11. {s} \in SUBSET Secrets
  BY <1>5
<1>12. /\ \A o \in {s} : Without(s, vault)[o] = Absent
       /\ \A o \in Secrets : o \notin {s} => Without(s, vault)[o] = vault[o]
  BY <1>9
<1>13. CASE vault' = Without(s, vault)
             /\ (connection' = connection \/
                 (/\ connection.status = "PENDING"
                  /\ \E health \in Failures : connection' =
                       [connection EXCEPT !.status = "REAUTH_REQUIRED", !.health = health]))
  <2>1. /\ connection' \in ConnectionRows /\ UNCHANGED connection.version
        /\ UNCHANGED connection.secret
        /\ \/ connection'.status = connection.status
           \/ connection'.status = "REAUTH_REQUIRED" /\ connection.status = "PENDING"
    BY <1>1, <1>13 DEF ConnectionRows, Failures
  <2>2. vault' \in [Secrets -> Envelopes]
    BY <1>9, <1>13
  <2>3. /\ \A o \in {s} : vault'[o] = Absent
        /\ \A o \in Secrets : o \notin {s} => vault'[o] = vault[o]
    BY <1>12, <1>13
  <2> QED BY <1>4, <1>8, <1>10, <1>11, <2>1, <2>2, <2>3, DroppedKeeps
<1>14. CASE Awaited(v) /\ ReplaceCredential(v, Without(s, vault), connection)
  <2>1. connection.status = "PENDING" /\ connection.version = v
    BY <1>14 DEF Awaited
  <2>2. v >= revokedAt
    BY <2>1 DEF ConnectionInv, RevocationDated
  <2>3. deadGrants' \subseteq Authorizations
    BY <1>1, <1>4
  <2> QED BY <1>2, <1>4, <1>8, <1>9, <1>10, <1>11, <1>12, <1>14, <2>1, <2>2, <2>3, RenewedKeeps
<1> QED BY <1>6, <1>13, <1>14 DEF Awaited

\* revoke, first transaction: every authorization so far is older than this one.
LEMMA BeginRevokeKeeps ==
  ASSUME ConnectionInv, NEW a \in Admins, BeginRevoke(a)
  PROVE  ConnectionInv'
<1> USE ConnectionConstants
<1>1. ConnectionShape /\ connection \in ConnectionRows /\ connection.version \in Authorizations
        /\ connection.version < MaxAuthorizations /\ connection.status # "REVOKED"
  BY DEF ConnectionInv, ConnectionShape, ConnectionRows, BeginRevoke
<1> DEFINE n == connection.version + 1
<1>2. n \in Authorizations /\ n > connection.version /\ connection.version \in Nat /\ n \in Nat
  BY <1>1 DEF Authorizations
<1>3. /\ connection' = [connection EXCEPT !.status = "REVOKING", !.version = n,
                                          !.health = "ERROR"]
      /\ revokedAt' = n
      /\ pending' = [pending EXCEPT ![a] = [NoRequest EXCEPT !.at = "revoking"]]
      /\ UNCHANGED <<authKind, forsaken, oauthState, vault, masterKey, deadGrants>>
  BY DEF BeginRevoke
<1> HIDE DEF n
<1>4. /\ connection' \in ConnectionRows /\ connection'.status = "REVOKING"
      /\ connection'.version = n /\ connection'.secret = connection.secret
  BY <1>1, <1>2, <1>3 DEF ConnectionRows
<1>5. pending' \in [Admins -> [at: {"idle", "authorizing", "revoking"},
                               authorization: Authorizations]]
  BY <1>1, <1>3 DEF ConnectionShape, NoRequest
<1>6. ConnectionShape'
  BY <1>1, <1>2, <1>3, <1>4, <1>5 DEF ConnectionShape
<1>7. EnvelopesNamed'
  BY <1>3, <1>4 DEF ConnectionInv, EnvelopesNamed, Named, Verifies
<1>8. OneOwner'
  BY <1>3, <1>4 DEF ConnectionInv, OneOwner, Verifies
<1>9. NoFutureVerifier' /\ GrantsCurrent'
  BY <1>2, <1>3, <1>4 DEF ConnectionInv, NoFutureVerifier, GrantsCurrent
<1>10. RevocationDated'
  BY <1>2, <1>3, <1>4 DEF RevocationDated
<1> QED BY <1>6, <1>7, <1>8, <1>9, <1>10 DEF ConnectionInv

\* A connection that loses its credential, in the vault or to a privacy job.
LEMMA RevokedKeeps ==
  ASSUME ConnectionInv, connection' \in ConnectionRows, connection'.status = "REVOKED",
         connection'.secret = 0, UNCHANGED connection.version,
         \/ /\ forsaken' = forsaken /\ vault' \in [Secrets -> Envelopes]
            /\ connection.secret # 0 => vault'[connection.secret] = Absent
            /\ \A s \in Secrets : s # connection.secret => vault'[s] = vault[s]
         \/ forsaken = {} /\ forsaken' = {connection.secret} /\ vault' = vault,
         pending' = pending \/ \E a \in Admins : Done(a),
         deadGrants' \subseteq Authorizations,
         revokedAt' \in Nat, revokedAt' <= connection.version + 1,
         authKind = "API_KEY" => revokedAt' <= connection.version,
         UNCHANGED <<authKind, oauthState, masterKey>>
  PROVE  ConnectionInv'
<1> USE ConnectionConstants
<1>0. ConnectionShape /\ connection \in ConnectionRows /\ connection.secret \in {0} \cup Secrets
  BY DEF ConnectionInv, ConnectionShape, ConnectionRows
<1>1. pending' \in [Admins -> [at: {"idle", "authorizing", "revoking"},
                               authorization: Authorizations]]
  BY DEF Done, NoRequest, ConnectionInv, ConnectionShape
<1>2. vault' \in [Secrets -> Envelopes] /\ forsaken' \subseteq {0} \cup Secrets
        /\ \A s \in Secrets : vault'[s] = vault[s] \/ vault'[s] = Absent
  BY <1>0 DEF ConnectionShape
<1>3. ConnectionShape'
  <2>1. \A s \in Secrets : vault'[s].key = "none" => vault'[s] = Absent
    BY <1>0, <1>2 DEF ConnectionShape
  <2> QED BY <1>0, <1>1, <1>2, <2>1 DEF ConnectionShape
<1>4. EnvelopesNamed'
  <2> SUFFICES ASSUME NEW s \in Secrets PROVE vault'[s] # Absent <=> Named(s)'
    BY DEF EnvelopesNamed
  <2>1. vault[s] # Absent <=> Named(s)
    BY DEF ConnectionInv, EnvelopesNamed
  <2>2. s # 0
    OBVIOUS
  <2>3. s = connection.secret => s \notin forsaken /\ \A v \in Authorizations : ~Verifies(v, s)
    BY <2>2 DEF ConnectionInv, OneOwner
  <2>4. Named(s)' <=> s \in forsaken' \/ \E v \in Authorizations : Verifies(v, s)
    BY <2>2 DEF Named, Verifies
  <2> QED BY <2>1, <2>2, <2>3, <2>4 DEF Named
<1>5. OneOwner'
  <2>1. \A s \in Secrets : s \in forsaken' => \A v \in Authorizations : oauthState[v].verifier # s
    BY DEF ConnectionInv, OneOwner, Verifies
  <2>2. \A s \in Secrets, v, w \in Authorizations :
          oauthState'[v].verifier = s /\ oauthState'[w].verifier = s => v = w
    BY DEF ConnectionInv, OneOwner, Verifies
  <2> QED BY <2>1, <2>2 DEF OneOwner, Verifies
<1>6. NoFutureVerifier' /\ RevocationDated' /\ GrantsCurrent'
  BY DEF ConnectionInv, NoFutureVerifier, RevocationDated, GrantsCurrent
<1> QED BY <1>3, <1>4, <1>5, <1>6 DEF ConnectionInv

\* revoke, second transaction: whatever the connection has by then.
LEMMA EndRevokeKeeps ==
  ASSUME ConnectionInv, NEW a \in Admins, EndRevoke(a)
  PROVE  ConnectionInv'
<1> USE ConnectionConstants
<1>1. /\ Done(a) /\ UNCHANGED <<authKind, forsaken, oauthState, masterKey, revokedAt>>
      /\ ConnectionShape /\ connection \in ConnectionRows /\ connection.secret \in {0} \cup Secrets
  BY DEF ConnectionInv, ConnectionShape, ConnectionRows, EndRevoke
<1>2. CASE UNCHANGED <<connection, vault, deadGrants>>
  BY <1>1, <1>2, OutsideKeeps DEF ConnectionShape
<1>3. CASE /\ connection.status # "REVOKED"
           /\ connection' = [connection EXCEPT !.status = "REVOKED", !.health = "REAUTH_REQUIRED",
                                               !.secret = 0]
           /\ deadGrants' = IF connection.secret = 0 THEN deadGrants ELSE deadGrants \cup {Grant}
           /\ vault' = IF connection.secret = 0 THEN vault ELSE Without(connection.secret, vault)
  <2>1. /\ connection' \in ConnectionRows /\ connection'.status = "REVOKED"
        /\ connection'.secret = 0 /\ UNCHANGED connection.version
    BY <1>1, <1>3 DEF ConnectionRows
  <2>2. deadGrants' \subseteq Authorizations
    BY <1>1, <1>3 DEF ConnectionShape, Grant, Envelopes
  <2>3. /\ vault' \in [Secrets -> Envelopes]
        /\ connection.secret # 0 => vault'[connection.secret] = Absent
        /\ \A s \in Secrets : s # connection.secret => vault'[s] = vault[s]
    BY <1>1, <1>3, WithoutIs DEF ConnectionShape
  <2>4. revokedAt' \in Nat /\ revokedAt' <= connection.version + 1
          /\ (authKind = "API_KEY" => revokedAt' <= connection.version)
    BY <1>1, <1>3 DEF ConnectionShape, ConnectionInv, RevocationDated
  <2> QED BY <1>1, <2>1, <2>2, <2>3, <2>4, RevokedKeeps
<1>4. CASE /\ connection.status # "REVOKED"
           /\ \E health \in Failures : connection' = [connection EXCEPT !.health = health]
           /\ UNCHANGED <<vault, deadGrants>>
  <2>1. PICK health \in Failures : connection' = [connection EXCEPT !.health = health]
    BY <1>4
  <2>2. Reported(connection.status, health)
    BY <1>1, <2>1 DEF Reported, ConnectionRows
  <2>3. connection.status \in {"none", "PENDING", "CONNECTED", "REAUTH_REQUIRED", "REVOKING"}
          /\ health \in {"UNKNOWN", "HEALTHY", "ERROR", "REAUTH_REQUIRED"}
          /\ deadGrants' \subseteq Authorizations
    BY <1>1, <1>4 DEF ConnectionRows, ConnectionShape, Failures
  <2> QED BY <1>1, <1>4, <2>2, <2>3, ReportedKeeps
<1> QED BY <1>2, <1>3, <1>4 DEF EndRevoke

\* A privacy job clears the reference, and leaves the envelope.
LEMMA PrivacyKeeps ==
  ASSUME ConnectionInv, PrivacyRevokes
  PROVE  ConnectionInv'
<1> USE ConnectionConstants
<1>1. ConnectionShape /\ connection \in ConnectionRows /\ connection.version \in Nat
        /\ connection.status # "REVOKED" /\ authKind \in {"OAUTH2", "API_KEY"}
  BY DEF ConnectionInv, ConnectionShape, ConnectionRows, PrivacyRevokes
<1>2. /\ connection' = [connection EXCEPT !.status = "REVOKED", !.secret = 0]
      /\ forsaken = {} /\ forsaken' = {connection.secret}
      /\ revokedAt' = IF authKind = "OAUTH2" THEN connection.version + 1 ELSE connection.version
      /\ UNCHANGED <<authKind, oauthState, vault, masterKey, pending, deadGrants>>
  BY DEF PrivacyRevokes
<1>3. /\ connection' \in ConnectionRows /\ connection'.status = "REVOKED"
      /\ connection'.secret = 0 /\ UNCHANGED connection.version
  BY <1>1, <1>2 DEF ConnectionRows
<1>4. revokedAt' \in Nat /\ revokedAt' <= connection.version + 1
        /\ (authKind = "API_KEY" => revokedAt' <= connection.version)
  BY <1>1, <1>2
<1>5. deadGrants' \subseteq Authorizations
  BY <1>1, <1>2 DEF ConnectionShape
<1> QED BY <1>2, <1>3, <1>4, <1>5, RevokedKeeps

\* Every step keeps the invariant.
LEMMA ConnectionStep == ConnectionInv /\ [ConnectionsNext]_connectionVars => ConnectionInv'
<1> SUFFICES ASSUME ConnectionInv, [ConnectionsNext]_connectionVars PROVE ConnectionInv'
  OBVIOUS
<1>0. ConnectionShape /\ masterKey \in KeyVersions /\ deadGrants \subseteq Authorizations
  BY DEF ConnectionInv, ConnectionShape
<1>1. CASE Redeploy
  <2>1. masterKey' \in KeyVersions
          /\ UNCHANGED <<authKind, forsaken, connection, oauthState, vault, pending, deadGrants,
                         revokedAt>>
    BY <1>1 DEF Redeploy, KeyVersions
  <2> QED BY <1>0, <2>1, OutsideKeeps
<1>2. CASE GrantDies
  <2>1. connection.secret \in Secrets
    BY <1>2 DEF GrantDies, ConnectionInv, ConnectionShape, ConnectionRows
  <2>2. Grant \in Authorizations
    BY <1>0, <2>1, ConnectionConstants DEF ConnectionShape, Grant, Envelopes
  <2>3. deadGrants' \subseteq Authorizations
          /\ UNCHANGED <<authKind, forsaken, connection, oauthState, vault, masterKey, pending,
                         revokedAt>>
    BY <1>0, <1>2, <2>2 DEF GrantDies
  <2> QED BY <1>0, <2>3, OutsideKeeps
<1>3. ASSUME NEW a \in Admins, AdminDies(a) PROVE ConnectionInv'
  <2>1. Done(a) /\ UNCHANGED <<authKind, forsaken, connection, oauthState, vault, masterKey,
                               deadGrants, revokedAt>>
    BY <1>3 DEF AdminDies
  <2> QED BY <1>0, <2>1, OutsideKeeps
<1>4. CASE UNCHANGED connectionVars
  BY <1>0, <1>4, OutsideKeeps DEF connectionVars
<1> QED BY <1>1, <1>2, <1>3, <1>4, RotateKeeps, RefreshKeeps, PrivacyKeeps, StartKeeps,
           ConnectKeeps, HealthKeeps, ConsumeKeeps, CompleteKeeps, BeginRevokeKeeps,
           EndRevokeKeeps
    DEF ConnectionsNext

--------------------------------------------------------------------------------
\* The theorems of connections.

\* Every reachable state of a connection, for any administrators and any numbers of
\* authorizations and envelopes, satisfies the inductive invariant.
THEOREM ConnectionInvariant == ConnectionsSpec => []ConnectionInv
BY ConnectionStart, ConnectionStep, PTL DEF ConnectionsSpec

\* The rows, the vault and the requests between transactions keep their types.
LEMMA ConnectionTypes == ConnectionInv => ConnectionsTypeOK
<1> SUFFICES ASSUME ConnectionInv PROVE ConnectionsTypeOK
  OBVIOUS
<1>1. /\ connection \in ConnectionRows
      /\ \A v \in Authorizations : oauthState[v] \in StateRows
      /\ \A s \in Secrets : vault[s] \in Envelopes
      /\ \A a \in Admins : pending[a].at \in {"idle", "authorizing", "revoking"}
      /\ deadGrants \subseteq Authorizations
  BY DEF ConnectionInv, ConnectionShape
<1> QED BY <1>1 DEF ConnectionsTypeOK, ConnectionRows, StateRows, Envelopes

\* IntegrationService, the OAuth flow, rotation and the privacy job: the vault and the
\* rows that refer to it agree, whatever dies between two transactions, and no
\* authorization from before a revocation makes a connection work again.
THEOREM ConnectionsSafeHolds == ConnectionsSpec => []ConnectionsSafe
<1>1. ConnectionInv => ConnectionsSafe
  <2> SUFFICES ASSUME ConnectionInv PROVE ConnectionsSafe
    OBVIOUS
  <2> USE ConnectionConstants
  <2>1. /\ connection.secret \in {0} \cup Secrets
        /\ \A v \in Authorizations : oauthState[v].verifier \in {0} \cup Secrets
        /\ forsaken \subseteq {0} \cup Secrets
    BY DEF ConnectionInv, ConnectionShape, ConnectionRows, StateRows
  <2>2. SecretsAccounted
    BY <2>1 DEF ConnectionInv, EnvelopesNamed, Named, Verifies, SecretsAccounted
  <2>3. RevocationHolds
    BY DEF ConnectionInv, GrantsCurrent, Grant, RevocationHolds
  <2> QED BY <2>2, <2>3 DEF ConnectionsSafe
<1> QED BY <1>1, ConnectionInvariant, PTL

--------------------------------------------------------------------------------
\* Knowledge: KnowledgeSpec => []ReviewConclusive.

\* The rows of knowledge_ingestions with their jobs, of knowledge_proposals, of
\* knowledge_versions, of the job that embeds one, and an administrator's request.
IngestionRows ==
  [state: {"none", "PENDING", "PROCESSING", "SUCCEEDED", "FAILED"},
   content: Contents \cup {{}}, job: {"none", "queued", "running", "done", "dead"},
   tries: 0 .. MaxTries, change: {"none", "queued", "done"}]
ProposalRows ==
  [state: {"none", "PROPOSED", "APPROVED", "EDITED", "REJECTED"},
   from: Ingestions \cup {"none"}]
VersionRows ==
  [state: {"DRAFT", "TEST"}, members: SUBSET Artifacts, digest: SUBSET Artifacts]
EmbeddingRows ==
  [job: {"none", "queued", "running", "done", "dead"}, todo: SUBSET (ToEmbed \X Pieces),
   tries: Nat]
DeskRows ==
  [at: {"idle", "adding", "reviewing", "promoting"}, about: Artifacts \cup {"none"},
   decision: {"none", "APPROVED", "EDITED", "REJECTED"}, number: Nat,
   seen: SUBSET Artifacts, sources: Nat]

\* A job that may still be done has attempts left; a worker is at an ingestion only
\* while it is in PROCESSING; a content is recorded with success and not without.
IngestionOK(r) ==
  /\ r.job \in {"queued", "running"} \/ r.state = "none" => r.tries < MaxTries
  /\ r.job = "running" => r.state = "PROCESSING"
  /\ r.state = "SUCCEEDED" <=> r.content \in Contents
IngestionsOK ==
  ingestion \in [Ingestions -> IngestionRows] /\ \A i \in Ingestions : IngestionOK(ingestion[i])

\* A proposal was made by an ingestion.
ProposalsOK ==
  /\ proposal \in [Parts -> ProposalRows]
  /\ \A p \in Parts : proposal[p].state # "none" => proposal[p].from \in Ingestions

\* Versions past Draft have a digest, and one of them is the last.
VersionsOK ==
  /\ version \in Seq(VersionRows)
  /\ Len(version) <= MaxVersions
  /\ \A n \in DOMAIN version : Draft(n) <=> version[n].digest = {}
  /\ \/ \A n \in DOMAIN version : Draft(n)
     \/ \E n \in DOMAIN version :
          ~Draft(n) /\ \A m \in DOMAIN version : ~Draft(m) => m <= n

\* The other tables.
TablesOK ==
  /\ sourceVersions \in Seq(Contents)
  /\ draftOf \in [Ingestions -> 0 .. Len(version)]
  /\ artifact \in [Artifacts -> Nat]
  /\ embedding \in [Numbers -> EmbeddingRows]
  /\ chunk \subseteq Numbers \X ToEmbed \X Pieces
  /\ refused \subseteq Numbers

\* An open review has its proposal for itself, still open, and means the draft of the
\* proposal's ingestion; what is added is an artifact; a promotion read a member.
DeskOK(a) ==
  LET d == desk[a] IN
  /\ d.number <= Len(version)
  /\ d.at \in {"adding", "promoting"} => d.number # 0
  /\ d.at = "adding" => d.about \in Artifacts
  /\ d.at = "promoting" => d.seen # {}
  /\ d.at = "reviewing" =>
       /\ d.about \in Parts /\ d.decision # "none"
       /\ proposal[d.about].state = "PROPOSED"
       /\ d.number # 0 => draftOf[proposal[d.about].from] = d.number
DesksOK ==
  /\ desk \in [Reviewers -> DeskRows]
  /\ \A a \in Reviewers : DeskOK(a)
  /\ \A a, b \in Reviewers : desk[a].at = "reviewing" /\ desk[b].at = "reviewing"
                              /\ desk[a].about = desk[b].about => a = b

\* What is true of the knowledge between any two transactions.
KnowledgeInv ==
  IngestionsOK /\ ProposalsOK /\ VersionsOK /\ TablesOK /\ DesksOK /\ ReviewConclusive

\* The parts are artifacts; the limits are numbers; there is an attempt.
LEMMA KnowledgeConstants ==
  /\ Contents \subseteq SUBSET Parts /\ {} \notin Contents
  /\ Extras \cap Parts = {} /\ Parts \subseteq Artifacts /\ Extras \subseteq Artifacts
  /\ MaxVersions \in Nat /\ MaxTries \in Nat /\ MaxTries > 0
BY KnowledgeAssumption DEF KnowledgeAssumption, Artifacts

\* A tenant begins with nothing.
LEMMA KnowledgeStart == KnowledgeInit => KnowledgeInv
<1> SUFFICES ASSUME KnowledgeInit PROVE KnowledgeInv
  OBVIOUS
<1> USE KnowledgeConstants DEF KnowledgeInit
<1>0. NoIngestion \in IngestionRows /\ IngestionOK(NoIngestion)
  BY DEF IngestionRows, IngestionOK, NoIngestion
<1>1. IngestionsOK
  BY <1>0 DEF IngestionsOK
<1>2. ProposalsOK
  BY DEF ProposalsOK, ProposalRows, Unproposed
<1>3. VersionsOK /\ TablesOK
  BY DEF VersionsOK, TablesOK, EmbeddingRows, NoJob, Numbers
<1>4. DesksOK
  BY DEF DesksOK, DeskOK, DeskRows, AtDesk
<1>5. ReviewConclusive
  BY DEF ReviewConclusive, Unproposed
<1> QED BY <1>1, <1>2, <1>3, <1>4, <1>5 DEF KnowledgeInv

--------------------------------------------------------------------------------
\* How versions change.

\* What every transaction leaves: numbers, members, and what is past Draft.
VersionsGrow ==
  /\ Len(version') \in Nat /\ Len(version) \in Nat /\ Len(version) <= Len(version')
  /\ DOMAIN version \subseteq DOMAIN version'
  /\ \A n \in DOMAIN version :
       /\ version[n].members \subseteq version'[n].members
       /\ version[n].state = "TEST" =>
            version'[n].state = "TEST" /\ version'[n].digest = version[n].digest

\* A table with one row changed.
LEMMA RowChanged ==
  ASSUME NEW T, version \in Seq(T), NEW n \in DOMAIN version, NEW row \in T,
         version' = [version EXCEPT ![n] = row]
  PROVE  /\ version' \in Seq(T) /\ Len(version') = Len(version)
         /\ DOMAIN version' = DOMAIN version /\ version'[n] = row
         /\ \A m \in DOMAIN version : m # n => version'[m] = version[m]
OBVIOUS

\* A version is a row.
LEMMA VersionRow ==
  ASSUME VersionsOK
  PROVE  /\ \A n \in DOMAIN version : version[n] \in VersionRows
         /\ DOMAIN version = 1 .. Len(version) /\ Len(version) \in Nat
BY DEF VersionsOK

\* What a new draft starts with are artifacts.
LEMMA BaseKept ==
  ASSUME VersionsOK
  PROVE  BaseMembers \subseteq Artifacts
<1> DEFINE past == {n \in DOMAIN version : ~Draft(n)}
           last == CHOOSE n \in past : \A m \in past : m <= n
<1>1. CASE past = {}
  BY <1>1 DEF BaseMembers
<1>2. CASE past # {}
  <2>1. \E n \in past : \A m \in past : m <= n
    BY <1>2 DEF VersionsOK
  <2>2. last \in past
    BY <2>1
  <2>3. BaseMembers = version[last].members
    BY <1>2 DEF BaseMembers
  <2>4. last \in DOMAIN version
    BY <2>2
  <2> HIDE DEF last
  <2> QED BY <2>3, <2>4, VersionRow DEF VersionRows
<1> QED BY <1>1, <1>2

\* A draft is added at the end.
LEMMA DraftAdded ==
  ASSUME VersionsOK, Len(version) < MaxVersions, NEW members \in SUBSET Artifacts,
         version' = NewDraft(members)
  PROVE  /\ VersionsOK' /\ VersionsGrow /\ Len(version') = Len(version) + 1
         /\ version'[Len(version) + 1].members = members
<1> USE KnowledgeConstants
<1> DEFINE row == [state |-> "DRAFT", members |-> members, digest |-> {}]
<1>1. row \in VersionRows /\ row.state = "DRAFT" /\ row.digest = {} /\ row.members = members
  BY DEF VersionRows
<1>2. version' = Append(version, row)
  BY DEF NewDraft
<1> HIDE DEF row
<1>3. version \in Seq(VersionRows) /\ Len(version) \in Nat
        /\ DOMAIN version = 1 .. Len(version)
  BY DEF VersionsOK
<1> DEFINE l == Len(version) + 1
<1>4. /\ version' \in Seq(VersionRows) /\ Len(version') = l /\ DOMAIN version' = 1 .. l
      /\ version'[l] = row
      /\ \A n \in DOMAIN version : version'[n] = version[n]
      /\ \A n \in 1 .. l : n = l \/ n \in DOMAIN version
      /\ DOMAIN version \subseteq 1 .. l /\ l \in 1 .. l
  BY <1>1, <1>2, <1>3
<1>5. Len(version') <= MaxVersions /\ Len(version) <= Len(version')
  BY <1>3, <1>4
<1> HIDE DEF l
<1>6. /\ version'[l].state = "DRAFT"
      /\ \A n \in DOMAIN version : (version'[n].state = "DRAFT") <=> Draft(n)
  BY <1>1, <1>4 DEF Draft
<1>7. \A n \in DOMAIN version' : (version'[n].state = "DRAFT") <=> version'[n].digest = {}
  BY <1>1, <1>4 DEF VersionsOK, Draft
<1>8. \/ \A n \in DOMAIN version' : version'[n].state = "DRAFT"
      \/ \E n \in DOMAIN version' :
           /\ version'[n].state # "DRAFT"
           /\ \A m \in DOMAIN version' : version'[m].state # "DRAFT" => m <= n
  <2>1. CASE \A n \in DOMAIN version : Draft(n)
    BY <1>4, <1>6, <2>1
  <2>2. CASE \E n \in DOMAIN version : ~Draft(n)
    <3>1. PICK n \in DOMAIN version : ~Draft(n) /\ \A m \in DOMAIN version : ~Draft(m) => m <= n
      BY <2>2 DEF VersionsOK
    <3>2. n \in DOMAIN version' /\ version'[n].state # "DRAFT"
      BY <1>4, <1>6, <3>1
    <3>3. ASSUME NEW m \in DOMAIN version', version'[m].state # "DRAFT" PROVE m <= n
      BY <1>4, <1>6, <3>1, <3>3
    <3> QED BY <3>2, <3>3
  <2> QED BY <2>1, <2>2
<1>9. VersionsOK'
  BY <1>4, <1>5, <1>7, <1>8 DEF VersionsOK, Draft
<1>10. VersionsGrow
  BY <1>3, <1>4, <1>5 DEF VersionsGrow
<1> QED BY <1>1, <1>4, <1>9, <1>10 DEF l

\* A member is added to a version, which may be past Draft by then.
LEMMA MemberAdded ==
  ASSUME VersionsOK, NEW n \in DOMAIN version, NEW x \in Artifacts,
         version' = [version EXCEPT ![n].members = @ \cup {x}]
  PROVE  /\ VersionsOK' /\ VersionsGrow /\ Len(version') = Len(version)
         /\ x \in version'[n].members
<1>1. /\ version \in Seq(VersionRows) /\ version[n] \in VersionRows
      /\ DOMAIN version = 1 .. Len(version) /\ Len(version) \in Nat
  BY VersionRow DEF VersionsOK
<1> DEFINE row == [version[n] EXCEPT !.members = @ \cup {x}]
<1>2. /\ row \in VersionRows /\ row.state = version[n].state /\ row.digest = version[n].digest
      /\ row.members = version[n].members \cup {x}
  BY <1>1 DEF VersionRows
<1>3. version' = [version EXCEPT ![n] = row]
  BY <1>1
<1> HIDE DEF row
<1>4. /\ version' \in Seq(VersionRows) /\ Len(version') = Len(version)
      /\ DOMAIN version' = DOMAIN version
      /\ version'[n] = row /\ \A m \in DOMAIN version : m # n => version'[m] = version[m]
  <2>1. version \in Seq(VersionRows) /\ row \in VersionRows
    BY <1>1, <1>2
  <2> QED BY <1>3, <2>1, RowChanged
<1>5. \A m \in DOMAIN version :
        /\ version'[m].state = version[m].state /\ version'[m].digest = version[m].digest
        /\ version[m].members \subseteq version'[m].members
  BY <1>2, <1>4
<1>6. VersionsOK'
  <2>1. \A m \in DOMAIN version : Draft(m)' <=> Draft(m)
    BY <1>5 DEF Draft
  <2>2. \A m \in DOMAIN version' : Draft(m)' <=> version'[m].digest = {}
    BY <1>4, <1>5, <2>1 DEF VersionsOK
  <2>3. \/ \A m \in DOMAIN version' : Draft(m)'
        \/ \E m \in DOMAIN version' :
             ~Draft(m)' /\ \A k \in DOMAIN version' : ~Draft(k)' => k <= m
    BY <1>4, <2>1 DEF VersionsOK
  <2>4. Len(version') <= MaxVersions
    BY <1>4 DEF VersionsOK
  <2> QED BY <1>4, <2>2, <2>3, <2>4 DEF VersionsOK
<1>7. VersionsGrow
  BY <1>1, <1>4, <1>5 DEF VersionsGrow
<1> QED BY <1>2, <1>4, <1>6, <1>7

\* A draft becomes a test version with the digest that was read.
LEMMA VersionPromoted ==
  ASSUME VersionsOK, NEW n \in DOMAIN version, Draft(n), NEW seen \in SUBSET Artifacts,
         seen # {},
         version' = [version EXCEPT ![n].state = "TEST", ![n].digest = seen]
  PROVE  VersionsOK' /\ VersionsGrow /\ Len(version') = Len(version)
<1>1. /\ version \in Seq(VersionRows) /\ version[n] \in VersionRows
      /\ DOMAIN version = 1 .. Len(version) /\ Len(version) \in Nat
  BY VersionRow DEF VersionsOK
<1> DEFINE row == [version[n] EXCEPT !.state = "TEST", !.digest = seen]
<1>2. /\ row \in VersionRows /\ row.state = "TEST" /\ row.digest = seen
      /\ row.members = version[n].members
  BY <1>1 DEF VersionRows
<1>3. version' = [version EXCEPT ![n] = row]
  BY <1>1
<1> HIDE DEF row
<1>4. /\ version' \in Seq(VersionRows) /\ Len(version') = Len(version)
      /\ DOMAIN version' = DOMAIN version
      /\ version'[n] = row /\ \A m \in DOMAIN version : m # n => version'[m] = version[m]
  <2>1. version \in Seq(VersionRows) /\ row \in VersionRows
    BY <1>1, <1>2
  <2> QED BY <1>3, <2>1, RowChanged
<1>5. \A m \in DOMAIN version : (version'[m].state = "DRAFT") <=> version'[m].digest = {}
  BY <1>2, <1>4 DEF VersionsOK, Draft
<1>6. \A m \in DOMAIN version : version'[m].state # "DRAFT" <=> m = n \/ ~Draft(m)
  BY <1>2, <1>4 DEF Draft
<1>7. \E m \in DOMAIN version : /\ version'[m].state # "DRAFT"
                                /\ \A k \in DOMAIN version : version'[k].state # "DRAFT" => k <= m
  <2>1. CASE \A m \in DOMAIN version : Draft(m)
    BY <1>1, <1>6, <2>1
  <2>2. CASE \E m \in DOMAIN version : ~Draft(m)
    <3>1. PICK m \in DOMAIN version : ~Draft(m) /\ \A k \in DOMAIN version : ~Draft(k) => k <= m
      BY <2>2 DEF VersionsOK
    <3>2. CASE n <= m
      BY <1>6, <3>1, <3>2
    <3>3. CASE ~(n <= m)
      <4>1. \A k \in DOMAIN version : version'[k].state # "DRAFT" => k <= n
        BY <1>1, <1>6, <3>1, <3>3
      <4> QED BY <1>6, <4>1
    <3> QED BY <3>2, <3>3
  <2> QED BY <2>1, <2>2
<1>8. VersionsOK'
  BY <1>4, <1>5, <1>7 DEF VersionsOK, Draft
<1>9. VersionsGrow
  BY <1>1, <1>2, <1>4 DEF VersionsGrow, Draft
<1> QED BY <1>4, <1>8, <1>9

\* Nothing changes.
LEMMA VersionsSame ==
  ASSUME VersionsOK, UNCHANGED version
  PROVE  VersionsOK' /\ VersionsGrow
BY DEF VersionsOK, VersionsGrow, Draft

--------------------------------------------------------------------------------
\* What the other tables do not take back.

\* Drafts of ingestions, contents, and approved versions of the source stay.
RecordsStay ==
  /\ \A i \in Ingestions : draftOf[i] # 0 => draftOf'[i] = draftOf[i]
  /\ \A i \in Ingestions : ingestion[i].state = "SUCCEEDED" =>
       ingestion'[i].state = "SUCCEEDED" /\ ingestion'[i].content = ingestion[i].content
  /\ \A k \in DOMAIN sourceVersions :
       k \in DOMAIN sourceVersions' /\ sourceVersions'[k] = sourceVersions[k]

\* The conclusion about one part.
Concluded(p) ==
  LET i == proposal[p].from IN
  /\ artifact[p] = (IF proposal[p].state \in {"APPROVED", "EDITED"} THEN 1 ELSE 0)
  /\ proposal[p].state # "none" => ingestion[i].state = "SUCCEEDED" /\ p \in ingestion[i].content
  /\ artifact[p] = 1 => draftOf[i] # 0 /\ p \in version[draftOf[i]].members /\ Approved(i)

\* A decided part stays decided, and what follows from the decision stays true.
LEMMA ConcludedStays ==
  ASSUME KnowledgeInv, VersionsGrow, RecordsStay, NEW p \in Parts,
         proposal'[p] = proposal[p], artifact'[p] = artifact[p]
  PROVE  Concluded(p)'
<1> DEFINE i == proposal[p].from
<1>1. Concluded(p)
  BY DEF KnowledgeInv, ReviewConclusive, Concluded
<1>2. CASE proposal[p].state = "none"
  <2>1. artifact[p] = 0
    BY <1>1, <1>2 DEF Concluded
  <2> QED BY <1>2, <2>1 DEF Concluded
<1>3. CASE proposal[p].state # "none"
  <2>1. i \in Ingestions
    BY <1>3 DEF KnowledgeInv, ProposalsOK
  <2>2. ingestion[i].state = "SUCCEEDED" /\ p \in ingestion[i].content
    BY <1>1, <1>3 DEF Concluded
  <2>3. ingestion'[i].state = "SUCCEEDED" /\ ingestion'[i].content = ingestion[i].content
    BY <2>1, <2>2 DEF RecordsStay
  <2>4. ASSUME artifact[p] = 1
        PROVE  draftOf'[i] # 0 /\ p \in version'[draftOf'[i]].members
                 /\ \E k \in DOMAIN sourceVersions' : sourceVersions'[k] = ingestion'[i].content
    <3>1. draftOf[i] # 0 /\ p \in version[draftOf[i]].members /\ Approved(i)
      BY <1>1, <2>4 DEF Concluded
    <3>2. draftOf'[i] = draftOf[i]
      BY <2>1, <3>1 DEF RecordsStay
    <3>3. draftOf[i] \in DOMAIN version
      BY <2>1, <3>1, VersionRow DEF KnowledgeInv, TablesOK
    <3>4. p \in version'[draftOf[i]].members
      BY <3>1, <3>3 DEF VersionsGrow
    <3>5. \E k \in DOMAIN sourceVersions' : sourceVersions'[k] = ingestion'[i].content
      BY <2>3, <3>1 DEF Approved, RecordsStay
    <3> QED BY <3>1, <3>2, <3>4, <3>5
  <2> QED BY <1>1, <1>3, <2>2, <2>3, <2>4 DEF Concluded, Approved
<1> QED BY <1>2, <1>3

\* Parts nobody decided on are as they were.
LEMMA ConclusiveStays ==
  ASSUME KnowledgeInv, VersionsGrow, RecordsStay,
         \A p \in Parts : proposal'[p] = proposal[p] /\ artifact'[p] = artifact[p]
  PROVE  ReviewConclusive'
<1>1. ASSUME NEW p \in Parts PROVE Concluded(p)'
  BY ConcludedStays
<1> QED BY <1>1 DEF ReviewConclusive, Concluded

\* An open request means the same afterwards, while its proposal is open.
LEMMA DeskStays ==
  ASSUME KnowledgeInv, VersionsGrow, RecordsStay, NEW a \in Reviewers,
         desk'[a] = desk[a],
         desk[a].at = "reviewing" => proposal'[desk[a].about] = proposal[desk[a].about]
  PROVE  DeskOK(a)'
<1>1. DeskOK(a) /\ desk[a] \in DeskRows
  BY DEF KnowledgeInv, DesksOK
<1>2. desk[a].number \in Nat
  BY <1>1 DEF DeskRows
<1>3. desk[a].number <= Len(version')
  BY <1>1, <1>2 DEF DeskOK, VersionsGrow
<1>4. ASSUME desk[a].at = "reviewing", desk[a].number # 0
      PROVE  draftOf'[proposal'[desk[a].about].from] = desk[a].number
  <2>1. desk[a].about \in Parts /\ proposal[desk[a].about].state = "PROPOSED"
          /\ draftOf[proposal[desk[a].about].from] = desk[a].number
    BY <1>1, <1>4 DEF DeskOK
  <2>2. proposal[desk[a].about].from \in Ingestions
    BY <2>1 DEF KnowledgeInv, ProposalsOK
  <2> QED BY <1>4, <2>1, <2>2 DEF RecordsStay
<1> QED BY <1>1, <1>3, <1>4 DEF DeskOK

\* All of them, when nobody opens or closes one.
LEMMA DesksStay ==
  ASSUME KnowledgeInv, VersionsGrow, RecordsStay, UNCHANGED desk,
         \A p \in Parts : proposal[p].state = "PROPOSED" => proposal'[p] = proposal[p]
  PROVE  DesksOK'
<1>1. ASSUME NEW a \in Reviewers PROVE DeskOK(a)'
  <2>1. DeskOK(a)
    BY DEF KnowledgeInv, DesksOK
  <2>2. desk[a].at = "reviewing" => proposal'[desk[a].about] = proposal[desk[a].about]
    BY <2>1 DEF DeskOK
  <2> QED BY <2>2, DeskStays
<1> QED BY <1>1 DEF KnowledgeInv, DesksOK

\* An administrator opens a request that is sound and alone with its proposal, or has
\* the request closed.
LEMMA DeskOpens ==
  ASSUME KnowledgeInv, VersionsGrow, RecordsStay, NEW a \in Reviewers,
         NEW d \in DeskRows, Opens(a, d), DeskOK(a)',
         \A b \in Reviewers : b # a /\ desk[b].at = "reviewing" =>
           /\ proposal'[desk[b].about] = proposal[desk[b].about]
           /\ d.at = "reviewing" => d.about # desk[b].about
  PROVE  DesksOK'
<1>1. desk \in [Reviewers -> DeskRows]
  BY DEF KnowledgeInv, DesksOK
<1>2. /\ desk' \in [Reviewers -> DeskRows] /\ desk'[a] = d
      /\ \A b \in Reviewers : b # a => desk'[b] = desk[b]
  BY <1>1 DEF Opens
<1>3. ASSUME NEW b \in Reviewers PROVE DeskOK(b)'
  <2>1. CASE b = a
    BY <2>1
  <2>2. CASE b # a
    BY <1>2, <2>2, DeskStays
  <2> QED BY <2>1, <2>2
<1>4. ASSUME NEW b \in Reviewers, NEW c \in Reviewers, desk'[b].at = "reviewing",
             desk'[c].at = "reviewing", desk'[b].about = desk'[c].about
      PROVE  b = c
  <2>1. CASE b # a /\ c # a
    BY <1>2, <1>4, <2>1 DEF KnowledgeInv, DesksOK
  <2>2. CASE b = a \/ c = a
    BY <1>2, <1>4, <2>2
  <2> QED BY <2>1, <2>2
<1> QED BY <1>2, <1>3, <1>4 DEF DesksOK

\* A closed desk is sound.
LEMMA ClosedDesk ==
  ASSUME VersionsOK
  PROVE  AtDesk \in DeskRows /\ AtDesk.at = "idle" /\ AtDesk.number = 0
BY DEF AtDesk, DeskRows

\* Closing a request.
LEMMA DeskCloses ==
  ASSUME KnowledgeInv, VersionsGrow, RecordsStay, NEW a \in Reviewers, Closes(a),
         \A b \in Reviewers : b # a /\ desk[b].at = "reviewing" =>
           proposal'[desk[b].about] = proposal[desk[b].about]
  PROVE  DesksOK'
<1>1. Opens(a, AtDesk)
  BY DEF Opens, Closes
<1>2. desk'[a] = AtDesk
  BY <1>1 DEF Opens, KnowledgeInv, DesksOK
<1>3. AtDesk \in DeskRows /\ AtDesk.at = "idle" /\ AtDesk.number = 0
  BY ClosedDesk DEF KnowledgeInv
<1>4. DeskOK(a)'
  BY <1>2, <1>3 DEF DeskOK, VersionsGrow
<1> QED BY <1>1, <1>3, <1>4, DeskOpens

--------------------------------------------------------------------------------
\* The steps of an ingestion.

\* A row of knowledge_ingestions changes: a recorded content stays.
LEMMA IngestionChanged ==
  ASSUME KnowledgeInv, NEW i \in Ingestions, NEW row \in IngestionRows, IngestionOK(row),
         ingestion' = [ingestion EXCEPT ![i] = row],
         ingestion[i].state = "SUCCEEDED" =>
           row.state = "SUCCEEDED" /\ row.content = ingestion[i].content
  PROVE  /\ IngestionsOK' /\ ingestion'[i] = row
         /\ \A j \in Ingestions : ingestion[j].state = "SUCCEEDED" =>
              ingestion'[j].state = "SUCCEEDED" /\ ingestion'[j].content = ingestion[j].content
<1>1. /\ ingestion' \in [Ingestions -> IngestionRows] /\ ingestion'[i] = row
      /\ \A j \in Ingestions : j # i => ingestion'[j] = ingestion[j]
  BY DEF KnowledgeInv, IngestionsOK
<1>2. IngestionsOK'
  BY <1>1 DEF KnowledgeInv, IngestionsOK
<1>3. ASSUME NEW j \in Ingestions, ingestion[j].state = "SUCCEEDED"
      PROVE  ingestion'[j].state = "SUCCEEDED" /\ ingestion'[j].content = ingestion[j].content
  <2>1. CASE j = i
    BY <1>1, <1>3, <2>1
  <2>2. CASE j # i
    BY <1>1, <1>3, <2>2
  <2> QED BY <2>1, <2>2
<1> QED BY <1>1, <1>2, <1>3

\* Nothing but ingestions changes.
LEMMA OnlyIngestions ==
  ASSUME KnowledgeInv, NEW i \in Ingestions, NEW row \in IngestionRows, IngestionOK(row),
         ingestion' = [ingestion EXCEPT ![i] = row],
         ingestion[i].state = "SUCCEEDED" =>
           row.state = "SUCCEEDED" /\ row.content = ingestion[i].content,
         UNCHANGED <<proposal, sourceVersions, draftOf, artifact, version, embedding, chunk,
                     desk, refused>>
  PROVE  KnowledgeInv' /\ VersionsGrow
<1>1. /\ IngestionsOK'
      /\ \A j \in Ingestions : ingestion[j].state = "SUCCEEDED" =>
           ingestion'[j].state = "SUCCEEDED" /\ ingestion'[j].content = ingestion[j].content
  BY IngestionChanged
<1>2. RecordsStay
  BY <1>1 DEF RecordsStay
<1>3. VersionsOK' /\ VersionsGrow
  BY VersionsSame DEF KnowledgeInv
<1>4. ProposalsOK' /\ TablesOK'
  BY DEF KnowledgeInv, ProposalsOK, TablesOK
<1>5. DesksOK'
  BY <1>2, <1>3, DesksStay
<1>6. ReviewConclusive'
  BY <1>2, <1>3, ConclusiveStays
<1> QED BY <1>1, <1>3, <1>4, <1>5, <1>6 DEF KnowledgeInv

\* An attempt that is over is made again only while attempts are left.
LEMMA AgainCounts ==
  ASSUME NEW tries \in 0 .. MaxTries, tries < MaxTries
  PROVE  /\ tries + 1 \in 0 .. MaxTries
         /\ Again("queued", tries) \in {"queued", "dead"}
         /\ Again("queued", tries) = "queued" => tries + 1 < MaxTries
BY KnowledgeConstants DEF Again

\* The worker and the request, before the attempt ends well.
LEMMA IngestionSteps ==
  ASSUME KnowledgeInv, NEW i \in Ingestions,
         RequestIngestion(i) \/ ClaimIngestion(i) \/ AttemptFails(i) \/ RejectIngestion(i)
  PROVE  KnowledgeInv' /\ VersionsGrow
<1> DEFINE r == ingestion[i]
<1>1. ingestion \in [Ingestions -> IngestionRows] /\ r \in IngestionRows /\ IngestionOK(r)
  BY DEF KnowledgeInv, IngestionsOK
<1>2. CASE RequestIngestion(i)
  <2> DEFINE row == [r EXCEPT !.state = "PENDING", !.job = "queued"]
  <2>1. row \in IngestionRows /\ IngestionOK(row) /\ r.state # "SUCCEEDED"
    BY <1>1, <1>2 DEF IngestionRows, IngestionOK, RequestIngestion
  <2>2. ingestion' = [ingestion EXCEPT ![i] = row]
    BY <1>1, <1>2 DEF RequestIngestion, Requested
  <2>3. UNCHANGED <<proposal, sourceVersions, draftOf, artifact, version, embedding, chunk,
                    desk, refused>>
    BY <1>2 DEF RequestIngestion
  <2> HIDE DEF row
  <2> QED BY <2>1, <2>2, <2>3, OnlyIngestions
<1>3. CASE ClaimIngestion(i)
  <2> DEFINE row == IF r.state \in {"PENDING", "PROCESSING"}
                      THEN [r EXCEPT !.state = "PROCESSING", !.job = "running"]
                      ELSE [r EXCEPT !.job = "done"]
  <2>1. /\ row \in IngestionRows /\ IngestionOK(row)
        /\ r.state = "SUCCEEDED" => row.state = "SUCCEEDED" /\ row.content = r.content
    <3>1. CASE r.state \in {"PENDING", "PROCESSING"}
      BY <1>1, <1>3, <3>1 DEF IngestionRows, IngestionOK, ClaimIngestion
    <3>2. CASE r.state \notin {"PENDING", "PROCESSING"}
      BY <1>1, <1>3, <3>2 DEF IngestionRows, IngestionOK, ClaimIngestion
    <3> QED BY <3>1, <3>2
  <2>2. ingestion' = [ingestion EXCEPT ![i] = row]
    BY <1>1, <1>3 DEF ClaimIngestion
  <2>3. UNCHANGED <<proposal, sourceVersions, draftOf, artifact, version, embedding, chunk,
                    desk, refused>>
    BY <1>3 DEF ClaimIngestion
  <2> HIDE DEF row
  <2> QED BY <2>1, <2>2, <2>3, OnlyIngestions
<1>4. CASE AttemptFails(i)
  <2> DEFINE again == Again("queued", r.tries)
             row == [r EXCEPT !.job = again, !.tries = @ + 1]
  <2>1. /\ r.tries \in 0 .. MaxTries /\ r.tries < MaxTries /\ r.state = "PROCESSING"
    BY <1>1, <1>4 DEF IngestionRows, IngestionOK, AttemptFails
  <2>2. /\ r.tries + 1 \in 0 .. MaxTries /\ again \in {"queued", "dead"}
        /\ again = "queued" => r.tries + 1 < MaxTries
    BY <2>1, AgainCounts
  <2>3. ingestion' = [ingestion EXCEPT ![i] = row]
    BY <1>1, <1>4 DEF AttemptFails
  <2>4. UNCHANGED <<proposal, sourceVersions, draftOf, artifact, version, embedding, chunk,
                    desk, refused>>
    BY <1>4 DEF AttemptFails
  <2> HIDE DEF again
  <2>5. row \in IngestionRows /\ IngestionOK(row)
    BY <1>1, <2>1, <2>2 DEF IngestionRows, IngestionOK
  <2> HIDE DEF row
  <2> QED BY <2>1, <2>3, <2>4, <2>5, OnlyIngestions
<1>5. CASE RejectIngestion(i)
  <2> DEFINE row == [r EXCEPT !.state = "FAILED", !.job = "done"]
  <2>1. row \in IngestionRows /\ IngestionOK(row) /\ r.state # "SUCCEEDED"
    BY <1>1, <1>5 DEF IngestionRows, IngestionOK, RejectIngestion
  <2>2. ingestion' = [ingestion EXCEPT ![i] = row]
    BY <1>1, <1>5 DEF RejectIngestion
  <2>3. UNCHANGED <<proposal, sourceVersions, draftOf, artifact, version, embedding, chunk,
                    desk, refused>>
    BY <1>5 DEF RejectIngestion
  <2> HIDE DEF row
  <2> QED BY <2>1, <2>2, <2>3, OnlyIngestions
<1> QED BY <1>2, <1>3, <1>4, <1>5

\* A part that an ingestion proposes for the first time has no artifact yet, and the
\* content that it was found in is recorded in the same transaction.
LEMMA CompleteStep ==
  ASSUME KnowledgeInv, NEW i \in Ingestions, CompleteIngestion(i)
  PROVE  KnowledgeInv' /\ VersionsGrow
<1> DEFINE r == ingestion[i]
<1>1. ingestion \in [Ingestions -> IngestionRows] /\ r \in IngestionRows /\ IngestionOK(r)
  BY DEF KnowledgeInv, IngestionsOK
<1>2. PICK content \in Contents, heard \in BOOLEAN :
        /\ r.job = "running"
        /\ ingestion' = [ingestion EXCEPT ![i] =
             [state |-> "SUCCEEDED", content |-> content, change |-> "queued",
              job |-> IF heard THEN "done" ELSE Again("queued", @.tries),
              tries |-> @.tries + IF heard THEN 0 ELSE 1]]
        /\ proposal' = Proposed(i, content)
  BY DEF CompleteIngestion, Fetched
<1>3. UNCHANGED <<sourceVersions, draftOf, artifact, version, embedding, chunk, desk, refused>>
  BY DEF CompleteIngestion
<1> DEFINE again == IF heard THEN "done" ELSE Again("queued", r.tries)
           tries == r.tries + IF heard THEN 0 ELSE 1
           row == [state |-> "SUCCEEDED", content |-> content, change |-> "queued",
                   job |-> again, tries |-> tries]
<1>4. r.tries \in 0 .. MaxTries /\ r.tries < MaxTries /\ r.state = "PROCESSING"
  BY <1>1, <1>2 DEF IngestionRows, IngestionOK
<1>5. tries \in 0 .. MaxTries /\ again \in {"queued", "dead", "done"}
        /\ (again = "queued" => tries < MaxTries)
  BY <1>4, AgainCounts
<1>6. ingestion' = [ingestion EXCEPT ![i] = row]
  BY <1>1, <1>2
<1> HIDE DEF again, tries
<1>7. /\ row \in IngestionRows /\ IngestionOK(row)
      /\ row.state = "SUCCEEDED" /\ row.content = content
  BY <1>5, KnowledgeConstants DEF IngestionRows, IngestionOK
<1> HIDE DEF row
<1>8. /\ IngestionsOK' /\ ingestion'[i] = row
      /\ \A j \in Ingestions : ingestion[j].state = "SUCCEEDED" =>
           ingestion'[j].state = "SUCCEEDED" /\ ingestion'[j].content = ingestion[j].content
  BY <1>4, <1>6, <1>7, IngestionChanged
<1>9. RecordsStay
  BY <1>3, <1>8 DEF RecordsStay
<1>10. VersionsOK' /\ VersionsGrow
  BY <1>3, VersionsSame DEF KnowledgeInv
<1>11. \A p \in Parts :
         proposal'[p] = IF p \in content /\ proposal[p].state = "none"
                          THEN [state |-> "PROPOSED", from |-> i] ELSE proposal[p]
  BY <1>2 DEF Proposed
<1>12. ProposalsOK'
  <2>1. proposal \in [Parts -> ProposalRows]
          /\ \A p \in Parts : proposal[p].state # "none" => proposal[p].from \in Ingestions
    BY DEF KnowledgeInv, ProposalsOK
  <2>2. proposal' \in [Parts -> ProposalRows]
    BY <1>2, <2>1 DEF Proposed, ProposalRows
  <2>3. \A p \in Parts : proposal'[p].state # "none" => proposal'[p].from \in Ingestions
    BY <1>11, <2>1
  <2> QED BY <2>2, <2>3 DEF ProposalsOK
<1>13. TablesOK'
  BY <1>3 DEF KnowledgeInv, TablesOK
<1>14. \A p \in Parts : proposal[p].state = "PROPOSED" => proposal'[p] = proposal[p]
  BY <1>11
<1>15. DesksOK'
  BY <1>3, <1>9, <1>10, <1>14, DesksStay
<1>16. ASSUME NEW p \in Parts PROVE Concluded(p)'
  <2>1. CASE p \in content /\ proposal[p].state = "none"
    <3>1. proposal'[p] = [state |-> "PROPOSED", from |-> i]
      BY <1>11, <2>1
    <3>2. artifact'[p] = 0
      BY <1>3, <2>1 DEF KnowledgeInv, ReviewConclusive
    <3> QED BY <1>7, <1>8, <2>1, <3>1, <3>2 DEF Concluded
  <2>2. CASE ~(p \in content /\ proposal[p].state = "none")
    <3>1. proposal'[p] = proposal[p] /\ artifact'[p] = artifact[p]
      BY <1>3, <1>11, <2>2
    <3> QED BY <1>9, <1>10, <3>1, ConcludedStays
  <2> QED BY <2>1, <2>2
<1>17. ReviewConclusive'
  BY <1>16 DEF ReviewConclusive, Concluded
<1> QED BY <1>8, <1>10, <1>12, <1>13, <1>15, <1>17 DEF KnowledgeInv

--------------------------------------------------------------------------------
\* Drafts, versions of the source, artifacts, members.

\* A new draft fits the tables.
LEMMA NewDraftTables ==
  ASSUME KnowledgeInv, Len(version') = Len(version) + 1,
         UNCHANGED <<sourceVersions, artifact, embedding, chunk, refused>>,
         draftOf' \in [Ingestions -> 0 .. Len(version) + 1]
  PROVE  TablesOK'
BY DEF KnowledgeInv, TablesOK

\* The job that looks for a change drafts an ingestion once.
LEMMA DetectStep ==
  ASSUME KnowledgeInv, NEW i \in Ingestions, DetectChange(i)
  PROVE  KnowledgeInv' /\ VersionsGrow
<1> DEFINE r == ingestion[i]
           row == [r EXCEPT !.change = "done"]
<1>1. ingestion \in [Ingestions -> IngestionRows] /\ r \in IngestionRows /\ IngestionOK(r)
  BY DEF KnowledgeInv, IngestionsOK
<1>2. row \in IngestionRows /\ IngestionOK(row)
        /\ row.state = r.state /\ row.content = r.content
  BY <1>1 DEF IngestionRows, IngestionOK
<1>3. /\ ingestion' = [ingestion EXCEPT ![i] = row]
      /\ UNCHANGED <<proposal, sourceVersions, artifact, embedding, chunk, desk, refused>>
  BY <1>1 DEF DetectChange
<1> HIDE DEF row
<1>4. /\ IngestionsOK'
      /\ \A j \in Ingestions : ingestion[j].state = "SUCCEEDED" =>
           ingestion'[j].state = "SUCCEEDED" /\ ingestion'[j].content = ingestion[j].content
  BY <1>2, <1>3, IngestionChanged
<1>5. draftOf \in [Ingestions -> 0 .. Len(version)] /\ Len(version) \in Nat
  BY VersionRow DEF KnowledgeInv, TablesOK
<1>6. VersionsOK' /\ VersionsGrow /\ TablesOK'
        /\ \A j \in Ingestions : draftOf[j] # 0 => draftOf'[j] = draftOf[j]
  <2>1. CASE draftOf[i] # 0 \/ UnchangedSource(i)
    <3>1. UNCHANGED <<version, draftOf>>
      BY <2>1 DEF DetectChange
    <3> QED BY <1>3, <3>1, VersionsSame DEF KnowledgeInv, TablesOK
  <2>2. CASE ~(draftOf[i] # 0 \/ UnchangedSource(i))
    <3>1. /\ draftOf[i] = 0 /\ Len(version) < MaxVersions /\ version' = NewDraft(BaseMembers)
          /\ draftOf' = [draftOf EXCEPT ![i] = Len(version) + 1]
      BY <2>2 DEF DetectChange
    <3>2. BaseMembers \in SUBSET Artifacts
      BY BaseKept DEF KnowledgeInv
    <3>3. VersionsOK' /\ VersionsGrow /\ Len(version') = Len(version) + 1
      BY <3>1, <3>2, DraftAdded DEF KnowledgeInv
    <3>4. draftOf' \in [Ingestions -> 0 .. Len(version) + 1]
            /\ \A j \in Ingestions : draftOf[j] # 0 => draftOf'[j] = draftOf[j]
      BY <1>5, <3>1
    <3>5. TablesOK'
      BY <1>3, <3>3, <3>4, NewDraftTables
    <3> QED BY <3>3, <3>4, <3>5
  <2> QED BY <2>1, <2>2
<1>7. RecordsStay
  BY <1>3, <1>4, <1>6 DEF RecordsStay
<1>8. ProposalsOK'
  BY <1>3 DEF KnowledgeInv, ProposalsOK
<1>9. DesksOK'
  BY <1>3, <1>6, <1>7, DesksStay
<1>10. ReviewConclusive'
  BY <1>3, <1>6, <1>7, ConclusiveStays
<1> QED BY <1>4, <1>6, <1>8, <1>9, <1>10 DEF KnowledgeInv

\* What stays when only versions, the source's versions or other tables change.
LEMMA QuietStep ==
  ASSUME KnowledgeInv, VersionsOK', VersionsGrow, TablesOK', DesksOK',
         UNCHANGED <<ingestion, proposal, draftOf>>,
         \A p \in Parts : artifact'[p] = artifact[p],
         \A k \in DOMAIN sourceVersions :
           k \in DOMAIN sourceVersions' /\ sourceVersions'[k] = sourceVersions[k]
  PROVE  KnowledgeInv'
<1>1. RecordsStay
  BY DEF RecordsStay
<1>2. IngestionsOK' /\ ProposalsOK'
  BY DEF KnowledgeInv, IngestionsOK, ProposalsOK
<1>3. ReviewConclusive'
  BY <1>1, ConclusiveStays
<1> QED BY <1>2, <1>3 DEF KnowledgeInv

\* An administrator makes a draft, vouches for a content, adds a document.
LEMMA ConsoleSteps ==
  ASSUME KnowledgeInv,
         CreateVersion \/ AppendSourceVersion \/ \E x \in Extras : AddArtifact(x)
  PROVE  KnowledgeInv' /\ VersionsGrow
<1>0. Len(version) \in Nat
  BY VersionRow DEF KnowledgeInv
<1>1. CASE CreateVersion
  <2>1. /\ Len(version) < MaxVersions /\ version' = NewDraft({})
        /\ UNCHANGED <<ingestion, proposal, sourceVersions, draftOf, artifact, embedding, chunk,
                       desk, refused>>
    BY <1>1 DEF CreateVersion
  <2>2. VersionsOK' /\ VersionsGrow /\ Len(version') = Len(version) + 1
    BY <2>1, DraftAdded DEF KnowledgeInv
  <2>3. draftOf' \in [Ingestions -> 0 .. Len(version) + 1]
    BY <1>0, <2>1 DEF KnowledgeInv, TablesOK
  <2>4. TablesOK'
    BY <2>1, <2>2, <2>3, NewDraftTables
  <2>5. RecordsStay
    BY <2>1 DEF RecordsStay
  <2>6. DesksOK'
    BY <2>1, <2>2, <2>5, DesksStay
  <2> QED BY <2>1, <2>2, <2>4, <2>6, QuietStep
<1>2. CASE AppendSourceVersion
  <2>1. PICK content \in Contents : sourceVersions' = Append(sourceVersions, content)
    BY <1>2 DEF AppendSourceVersion
  <2>2. UNCHANGED <<ingestion, proposal, draftOf, artifact, version, embedding, chunk, desk,
                    refused>>
    BY <1>2 DEF AppendSourceVersion
  <2>3. sourceVersions \in Seq(Contents)
    BY DEF KnowledgeInv, TablesOK
  <2>4. /\ sourceVersions' \in Seq(Contents)
        /\ \A k \in DOMAIN sourceVersions :
             k \in DOMAIN sourceVersions' /\ sourceVersions'[k] = sourceVersions[k]
    BY <2>1, <2>3
  <2>5. VersionsOK' /\ VersionsGrow
    BY <2>2, VersionsSame DEF KnowledgeInv
  <2>6. TablesOK'
    BY <2>2, <2>4 DEF KnowledgeInv, TablesOK
  <2>7. RecordsStay
    BY <2>2, <2>4 DEF RecordsStay
  <2>8. DesksOK'
    BY <2>2, <2>5, <2>7, DesksStay
  <2> QED BY <2>2, <2>4, <2>5, <2>6, <2>8, QuietStep
<1>3. CASE \E x \in Extras : AddArtifact(x)
  <2>1. PICK x \in Extras : AddArtifact(x)
    BY <1>3
  <2>2. /\ artifact' = [artifact EXCEPT ![x] = 1]
        /\ UNCHANGED <<ingestion, proposal, sourceVersions, draftOf, version, embedding, chunk,
                       desk, refused>>
    BY <2>1 DEF AddArtifact
  <2>3. artifact \in [Artifacts -> Nat]
    BY DEF KnowledgeInv, TablesOK
  <2>4. artifact' \in [Artifacts -> Nat] /\ \A p \in Parts : artifact'[p] = artifact[p]
    BY <2>2, <2>3, KnowledgeConstants
  <2>5. VersionsOK' /\ VersionsGrow
    BY <2>2, VersionsSame DEF KnowledgeInv
  <2>6. TablesOK'
    BY <2>2, <2>4 DEF KnowledgeInv, TablesOK
  <2>7. RecordsStay
    BY <2>2 DEF RecordsStay
  <2>8. DesksOK'
    BY <2>2, <2>5, <2>7, DesksStay
  <2> QED BY <2>2, <2>4, <2>5, <2>6, <2>8, QuietStep
<1> QED BY <1>1, <1>2, <1>3

\* A request is opened and nothing else happens.
LEMMA OnlyDesk ==
  ASSUME KnowledgeInv, DesksOK',
         UNCHANGED <<ingestion, proposal, sourceVersions, draftOf, artifact, version, embedding,
                     chunk, refused>>
  PROVE  KnowledgeInv' /\ VersionsGrow
<1>1. VersionsOK' /\ VersionsGrow
  BY VersionsSame DEF KnowledgeInv
<1>2. TablesOK'
  BY DEF KnowledgeInv, TablesOK
<1> QED BY <1>1, <1>2, QuietStep

\* Opening, when the version it is for is there.
LEMMA OnlyOpens ==
  ASSUME KnowledgeInv, NEW a \in Reviewers, NEW d \in DeskRows, Opens(a, d), DeskOK(a)',
         \A b \in Reviewers : b # a /\ desk[b].at = "reviewing" =>
           (d.at = "reviewing" => d.about # desk[b].about),
         UNCHANGED <<ingestion, proposal, sourceVersions, draftOf, artifact, version, embedding,
                     chunk, refused>>
  PROVE  KnowledgeInv' /\ VersionsGrow
<1>1. VersionsGrow
  BY VersionsSame DEF KnowledgeInv
<1>2. RecordsStay
  BY DEF RecordsStay
<1>3. DesksOK'
  BY <1>1, <1>2, DeskOpens
<1> QED BY <1>3, OnlyDesk

\* Members: up to the commit, the commit, an error.
LEMMA BeginAddStep ==
  ASSUME KnowledgeInv, NEW a \in Reviewers, NEW n \in DOMAIN version, NEW x \in Artifacts,
         BeginAdd(a, n, x)
  PROVE  KnowledgeInv' /\ VersionsGrow
<1> DEFINE d == [AtDesk EXCEPT !.at = "adding", !.about = x, !.number = n,
                              !.seen = version[n].members]
<1>1. Opens(a, d) /\ UNCHANGED <<ingestion, proposal, sourceVersions, draftOf, artifact,
                                 version, embedding, chunk, refused>>
  BY DEF BeginAdd
<1>2. /\ n \in Nat /\ n # 0 /\ n <= Len(version)
      /\ version[n].members \in SUBSET Artifacts
  BY VersionRow DEF KnowledgeInv, VersionRows
<1>3. d \in DeskRows /\ d.at = "adding" /\ d.about = x /\ d.number = n
  BY <1>2 DEF DeskRows, AtDesk
<1> HIDE DEF d
<1>4. desk'[a] = d
  BY <1>1 DEF Opens, KnowledgeInv, DesksOK
<1>5. DeskOK(a)'
  BY <1>1, <1>2, <1>3, <1>4 DEF DeskOK
<1> QED BY <1>1, <1>3, <1>5, OnlyOpens

\* The commit.
LEMMA EndAddStep ==
  ASSUME KnowledgeInv, NEW a \in Reviewers, EndAdd(a)
  PROVE  KnowledgeInv' /\ VersionsGrow
<1> DEFINE n == desk[a].number
           x == desk[a].about
<1>1. /\ version' = [version EXCEPT ![n].members = @ \cup {x}]
      /\ Closes(a)
      /\ UNCHANGED <<ingestion, proposal, sourceVersions, draftOf, artifact, embedding, chunk,
                     refused>>
      /\ desk[a].at = "adding"
  BY DEF EndAdd
<1>2. DeskOK(a) /\ desk[a] \in DeskRows
  BY DEF KnowledgeInv, DesksOK
<1>3. n \in DOMAIN version /\ x \in Artifacts
  BY <1>1, <1>2, VersionRow DEF DeskOK, DeskRows, KnowledgeInv
<1>4. VersionsOK' /\ VersionsGrow /\ Len(version') = Len(version)
  BY <1>1, <1>3, MemberAdded DEF KnowledgeInv
<1>5. TablesOK'
  BY <1>1, <1>4 DEF KnowledgeInv, TablesOK
<1>6. RecordsStay
  BY <1>1 DEF RecordsStay
<1>7. DesksOK'
  BY <1>1, <1>4, <1>6, DeskCloses
<1> QED BY <1>1, <1>4, <1>5, <1>7, QuietStep

\* The error.
LEMMA AbandonStep ==
  ASSUME KnowledgeInv, NEW a \in Reviewers, Abandon(a)
  PROVE  KnowledgeInv' /\ VersionsGrow
<1>1. Closes(a) /\ UNCHANGED <<ingestion, proposal, sourceVersions, draftOf, artifact, version,
                               embedding, chunk, refused>>
  BY DEF Abandon
<1>2. VersionsGrow
  BY <1>1, VersionsSame DEF KnowledgeInv
<1>3. RecordsStay
  BY <1>1 DEF RecordsStay
<1>4. DesksOK'
  BY <1>1, <1>2, <1>3, DeskCloses
<1> QED BY <1>1, <1>4, OnlyDesk

--------------------------------------------------------------------------------
\* Review.

\* A review begins with its proposal open, and for itself.
LEMMA BeginReviewStep ==
  ASSUME KnowledgeInv, NEW a \in Reviewers, NEW p \in Parts,
         NEW ruling \in {"APPROVED", "EDITED", "REJECTED"}, BeginReview(a, p, ruling)
  PROVE  KnowledgeInv' /\ VersionsGrow
<1> DEFINE i == proposal[p].from
           seen == IF draftOf[i] = 0 THEN BaseMembers ELSE version[draftOf[i]].members
           d == [at |-> "reviewing", about |-> p, decision |-> ruling, number |-> draftOf[i],
                 seen |-> seen, sources |-> Len(sourceVersions)]
<1>1. /\ Reviewable(p) /\ Opens(a, d)
      /\ UNCHANGED <<ingestion, proposal, sourceVersions, draftOf, artifact, version, embedding,
                     chunk, refused>>
  BY DEF BeginReview
<1>2. i \in Ingestions /\ proposal[p].state = "PROPOSED"
  BY <1>1 DEF Reviewable, Undecided, KnowledgeInv, ProposalsOK
<1>3. draftOf[i] \in 0 .. Len(version) /\ Len(version) \in Nat
        /\ (draftOf[i] # 0 => draftOf[i] \in DOMAIN version)
  BY <1>2, VersionRow DEF KnowledgeInv, TablesOK
<1>4. seen \in SUBSET Artifacts
  <2>1. CASE draftOf[i] = 0
    BY <2>1, BaseKept DEF KnowledgeInv
  <2>2. CASE draftOf[i] # 0
    <3>1. version[draftOf[i]] \in VersionRows
      BY <1>3, <2>2, VersionRow DEF KnowledgeInv
    <3> QED BY <2>2, <3>1 DEF VersionRows
  <2> QED BY <2>1, <2>2
<1>5. Len(sourceVersions) \in Nat
  BY DEF KnowledgeInv, TablesOK
<1> HIDE DEF seen
<1>6. /\ d \in DeskRows /\ d.at = "reviewing" /\ d.about = p /\ d.decision = ruling
      /\ d.number = draftOf[i]
  BY <1>3, <1>4, <1>5, KnowledgeConstants DEF DeskRows
<1> HIDE DEF d
<1>7. desk'[a] = d
  BY <1>1 DEF Opens, KnowledgeInv, DesksOK
<1>8. DeskOK(a)'
  BY <1>1, <1>2, <1>3, <1>6, <1>7 DEF DeskOK
<1>9. \A b \in Reviewers : desk[b].at = "reviewing" => desk[b].about # p
  BY <1>1 DEF Reviewable
<1> QED BY <1>1, <1>6, <1>8, <1>9, OnlyOpens

\* The decision in the table of proposals.
LEMMA DecisionTaken ==
  ASSUME KnowledgeInv, NEW p \in Parts, proposal[p].state = "PROPOSED",
         NEW ruling \in {"APPROVED", "EDITED", "REJECTED"}, proposal' = Decided(p, ruling)
  PROVE  /\ ProposalsOK'
         /\ proposal'[p].state = ruling /\ proposal'[p].from = proposal[p].from
         /\ proposal[p].from \in Ingestions
         /\ \A q \in Parts : q # p => proposal'[q] = proposal[q]
<1> DEFINE row == [proposal[p] EXCEPT !.state = ruling]
<1>1. /\ proposal \in [Parts -> ProposalRows]
      /\ \A q \in Parts : proposal[q].state # "none" => proposal[q].from \in Ingestions
  BY DEF KnowledgeInv, ProposalsOK
<1>2. row \in ProposalRows /\ row.state = ruling /\ row.from = proposal[p].from
  BY <1>1 DEF ProposalRows
<1>3. proposal' = [proposal EXCEPT ![p] = row]
  BY <1>1 DEF Decided
<1> HIDE DEF row
<1>4. /\ proposal' \in [Parts -> ProposalRows] /\ proposal'[p] = row
      /\ \A q \in Parts : q # p => proposal'[q] = proposal[q]
  BY <1>1, <1>2, <1>3
<1>5. \A q \in Parts : proposal'[q].state # "none" => proposal'[q].from \in Ingestions
  BY <1>1, <1>2, <1>4
<1> QED BY <1>1, <1>2, <1>4, <1>5 DEF ProposalsOK

\* What the commit of an approval leaves in the tables: a draft with the part, one
\* artifact more, an approved version of the source.
LEMMA Materialized ==
  ASSUME KnowledgeInv, NEW a \in Reviewers, EndReview(a), desk[a].decision # "REJECTED",
         NEW p \in Parts, p = desk[a].about, NEW i \in Ingestions, i = proposal[p].from
  PROVE  /\ VersionsOK' /\ VersionsGrow /\ TablesOK'
         /\ \A j \in Ingestions : draftOf[j] # 0 => draftOf'[j] = draftOf[j]
         /\ \A k \in DOMAIN sourceVersions :
              k \in DOMAIN sourceVersions' /\ sourceVersions'[k] = sourceVersions[k]
         /\ draftOf'[i] # 0 /\ p \in version'[draftOf'[i]].members
         /\ \E k \in DOMAIN sourceVersions' : sourceVersions'[k] = ingestion[i].content
         /\ artifact'[p] = artifact[p] + 1
         /\ \A q \in Parts : q # p => artifact'[q] = artifact[q]
<1> DEFINE n == DraftFor(a)
<1>0. DeskOK(a) /\ desk[a] \in DeskRows /\ desk[a].at = "reviewing"
  BY DEF KnowledgeInv, DesksOK, EndReview
<1>1. /\ \/ /\ desk[a].number = 0
            /\ draftOf[i] = 0
            /\ Len(version) < MaxVersions
            /\ version' = NewDraft(desk[a].seen \cup {p})
         \/ /\ Joins(a)
            /\ version' = [version EXCEPT ![n].members = @ \cup {p}]
      /\ draftOf' = [draftOf EXCEPT ![i] = n]
      /\ artifact' = [artifact EXCEPT ![p] = @ + 1]
      /\ IF Approved(i)
           THEN UNCHANGED sourceVersions
           ELSE sourceVersions' = Append(sourceVersions, ingestion[i].content)
      /\ UNCHANGED <<ingestion, embedding, chunk, refused>>
  BY DEF EndReview
<1>2. /\ Len(version) \in Nat /\ DOMAIN version = 1 .. Len(version)
      /\ draftOf \in [Ingestions -> 0 .. Len(version)] /\ artifact \in [Artifacts -> Nat]
      /\ sourceVersions \in Seq(Contents) /\ p \in Artifacts
  BY VersionRow, KnowledgeConstants DEF KnowledgeInv, TablesOK
<1>3. /\ VersionsOK' /\ VersionsGrow /\ Len(version') \in Nat /\ n \in 1 .. Len(version')
      /\ p \in version'[n].members /\ (draftOf[i] # 0 => n = draftOf[i])
  <2>1. CASE /\ desk[a].number = 0
             /\ draftOf[i] = 0
             /\ Len(version) < MaxVersions
             /\ version' = NewDraft(desk[a].seen \cup {p})
    <3> DEFINE members == desk[a].seen \cup {p}
    <3>1. members \in SUBSET Artifacts
      BY <1>0, <1>2 DEF DeskRows
    <3>2. p \in members
      OBVIOUS
    <3>3. version' = NewDraft(members)
      BY <2>1
    <3> HIDE DEF members
    <3>4. /\ VersionsOK' /\ VersionsGrow /\ Len(version') = Len(version) + 1
          /\ version'[Len(version) + 1].members = members
      BY <2>1, <3>1, <3>3, DraftAdded DEF KnowledgeInv
    <3>5. n = Len(version) + 1
      BY <2>1 DEF DraftFor
    <3> QED BY <1>2, <2>1, <3>2, <3>4, <3>5
  <2>2. CASE Joins(a) /\ version' = [version EXCEPT ![n].members = @ \cup {p}]
    <3>1. desk[a].number # 0 /\ n = desk[a].number
      BY <2>2 DEF Joins, DraftFor
    <3>2. n \in DOMAIN version /\ draftOf[i] = n
      BY <1>0, <1>2, <3>1 DEF DeskOK, DeskRows
    <3>3. /\ VersionsOK' /\ VersionsGrow /\ Len(version') = Len(version)
          /\ p \in version'[n].members
      BY <1>2, <2>2, <3>2, MemberAdded DEF KnowledgeInv
    <3> QED BY <1>2, <3>2, <3>3
  <2> QED BY <1>1, <2>1, <2>2
<1> HIDE DEF n
<1>4. Len(version) <= Len(version')
  BY <1>3 DEF VersionsGrow
<1>5. /\ draftOf' \in [Ingestions -> 0 .. Len(version')] /\ draftOf'[i] = n /\ n # 0
      /\ \A j \in Ingestions : draftOf[j] # 0 => draftOf'[j] = draftOf[j]
  <2>1. draftOf \in [Ingestions -> 0 .. Len(version')] /\ n \in 0 .. Len(version') /\ n # 0
    BY <1>2, <1>3, <1>4
  <2> QED BY <1>1, <1>3, <2>1
<1>6. /\ artifact' \in [Artifacts -> Nat] /\ artifact'[p] = artifact[p] + 1
      /\ \A q \in Parts : q # p => artifact'[q] = artifact[q]
  BY <1>1, <1>2, KnowledgeConstants
<1>7. /\ sourceVersions' \in Seq(Contents)
      /\ \A k \in DOMAIN sourceVersions :
           k \in DOMAIN sourceVersions' /\ sourceVersions'[k] = sourceVersions[k]
      /\ \E k \in DOMAIN sourceVersions' : sourceVersions'[k] = ingestion[i].content
  <2>1. CASE Approved(i)
    BY <1>1, <1>2, <2>1 DEF Approved
  <2>2. CASE ~Approved(i)
    <3>1. ingestion[i].content \in Contents
      <4>1. proposal[p].state = "PROPOSED"
        BY <1>0 DEF DeskOK
      <4>2. ingestion[i].state = "SUCCEEDED"
        BY <4>1 DEF KnowledgeInv, ReviewConclusive
      <4> QED BY <4>2 DEF KnowledgeInv, IngestionsOK, IngestionOK
    <3> DEFINE c == ingestion[i].content
    <3>2. sourceVersions' = Append(sourceVersions, c)
      BY <1>1, <2>2
    <3>3. c \in Contents
      BY <3>1
    <3> HIDE DEF c
    <3>4. /\ sourceVersions' \in Seq(Contents)
          /\ \A k \in DOMAIN sourceVersions :
               k \in DOMAIN sourceVersions' /\ sourceVersions'[k] = sourceVersions[k]
          /\ Len(sourceVersions) + 1 \in DOMAIN sourceVersions'
          /\ sourceVersions'[Len(sourceVersions) + 1] = c
      BY <1>2, <3>2, <3>3
    <3>5. \E k \in DOMAIN sourceVersions' : sourceVersions'[k] = c
      BY <3>4
    <3> QED BY <3>4, <3>5 DEF c
  <2> QED BY <2>1, <2>2
<1>8. TablesOK'
  BY <1>1, <1>5, <1>6, <1>7 DEF KnowledgeInv, TablesOK
<1> QED BY <1>3, <1>5, <1>6, <1>7, <1>8

\* The commit of a review.
LEMMA EndReviewStep ==
  ASSUME KnowledgeInv, NEW a \in Reviewers, EndReview(a)
  PROVE  KnowledgeInv' /\ VersionsGrow
<1>1. DeskOK(a) /\ desk[a] \in DeskRows /\ desk[a].at = "reviewing"
  BY DEF KnowledgeInv, DesksOK, EndReview
<1>2. PICK p \in Parts, ruling \in {"APPROVED", "EDITED", "REJECTED"} :
        p = desk[a].about /\ ruling = desk[a].decision /\ proposal[p].state = "PROPOSED"
  BY <1>1 DEF DeskOK, DeskRows
<1>i. PICK i \in Ingestions : i = proposal[p].from
  BY <1>2 DEF KnowledgeInv, ProposalsOK
<1>3. /\ proposal' = Decided(p, ruling) /\ Closes(a)
      /\ UNCHANGED <<ingestion, embedding, chunk, refused>>
  BY <1>2 DEF EndReview
<1>4. /\ ProposalsOK'
      /\ proposal'[p].state = ruling /\ proposal'[p].from = i
      /\ \A q \in Parts : q # p => proposal'[q] = proposal[q]
  BY <1>2, <1>3, <1>i, DecisionTaken
<1>5. /\ artifact[p] = 0 /\ ingestion[i].state = "SUCCEEDED" /\ p \in ingestion[i].content
  BY <1>2, <1>i DEF KnowledgeInv, ReviewConclusive
<1>6. \A b \in Reviewers : b # a /\ desk[b].at = "reviewing" =>
        desk[b].about \in Parts /\ desk[b].about # p
  BY <1>1, <1>2 DEF KnowledgeInv, DesksOK, DeskOK
<1>7. IngestionsOK'
  BY <1>3 DEF KnowledgeInv, IngestionsOK
<1>8. /\ VersionsOK' /\ VersionsGrow /\ TablesOK' /\ RecordsStay
      /\ \A q \in Parts : q # p => artifact'[q] = artifact[q]
      /\ Concluded(p)'
  <2>1. CASE ruling = "REJECTED"
    <3>1. UNCHANGED <<sourceVersions, draftOf, artifact, version>>
      BY <1>2, <2>1 DEF EndReview
    <3>2. VersionsOK' /\ VersionsGrow
      BY <3>1, VersionsSame DEF KnowledgeInv
    <3>3. TablesOK' /\ RecordsStay
      BY <1>3, <3>1 DEF KnowledgeInv, TablesOK, RecordsStay
    <3>4. artifact'[p] = 0
      BY <1>5, <3>1
    <3>5. ingestion' = ingestion
      BY <1>3
    <3>6. Concluded(p)'
      BY <1>4, <1>5, <2>1, <3>4, <3>5 DEF Concluded
    <3> QED BY <3>1, <3>2, <3>3, <3>6
  <2>2. CASE ruling # "REJECTED"
    <3>1. /\ VersionsOK' /\ VersionsGrow /\ TablesOK'
          /\ \A j \in Ingestions : draftOf[j] # 0 => draftOf'[j] = draftOf[j]
          /\ \A k \in DOMAIN sourceVersions :
               k \in DOMAIN sourceVersions' /\ sourceVersions'[k] = sourceVersions[k]
          /\ draftOf'[i] # 0 /\ p \in version'[draftOf'[i]].members
          /\ \E k \in DOMAIN sourceVersions' : sourceVersions'[k] = ingestion[i].content
          /\ artifact'[p] = artifact[p] + 1
          /\ \A q \in Parts : q # p => artifact'[q] = artifact[q]
      BY <1>2, <1>i, <2>2, Materialized
    <3>2. RecordsStay
      BY <1>3, <3>1 DEF RecordsStay
    <3>3. artifact'[p] = 1 /\ ingestion' = ingestion
      BY <1>3, <1>5, <3>1
    <3>4. Concluded(p)'
      BY <1>2, <1>4, <1>5, <2>2, <3>1, <3>3 DEF Concluded, Approved
    <3> QED BY <3>1, <3>2, <3>4
  <2> QED BY <2>1, <2>2
<1>9. DesksOK'
  BY <1>2, <1>3, <1>4, <1>6, <1>8, DeskCloses
<1>10. ASSUME NEW q \in Parts PROVE Concluded(q)'
  <2>1. CASE q = p
    BY <1>8, <2>1
  <2>2. CASE q # p
    BY <1>4, <1>8, <2>2, ConcludedStays
  <2> QED BY <2>1, <2>2
<1>11. ReviewConclusive'
  BY <1>10 DEF ReviewConclusive, Concluded
<1> QED BY <1>4, <1>7, <1>8, <1>9, <1>11 DEF KnowledgeInv

--------------------------------------------------------------------------------
\* Embeddings and promotion.

\* Only the job of a version and the chunks change.
LEMMA OnlyEmbeddings ==
  ASSUME KnowledgeInv, NEW n \in DOMAIN version, NEW row \in EmbeddingRows,
         embedding' = [embedding EXCEPT ![n] = row],
         chunk' \subseteq Numbers \X ToEmbed \X Pieces,
         UNCHANGED <<ingestion, proposal, sourceVersions, draftOf, artifact, version, desk,
                     refused>>
  PROVE  KnowledgeInv' /\ VersionsGrow
<1>1. VersionsOK' /\ VersionsGrow
  BY VersionsSame DEF KnowledgeInv
<1>2. embedding' \in [Numbers -> EmbeddingRows]
  BY DEF KnowledgeInv, TablesOK
<1>3. TablesOK'
  BY <1>2 DEF KnowledgeInv, TablesOK
<1>4. RecordsStay
  BY DEF RecordsStay
<1>5. DesksOK'
  BY <1>1, <1>4, DesksStay
<1> QED BY <1>1, <1>3, <1>5, QuietStep

\* The row of a job that failed.
LEMMA FailedEmbedding ==
  ASSUME KnowledgeInv, NEW n \in DOMAIN version, EmbeddingFails(n)
  PROVE  \E row \in EmbeddingRows : embedding' = [embedding EXCEPT ![n] = row]
<1>1. n \in Numbers
  BY VersionRow, KnowledgeConstants DEF KnowledgeInv, VersionsOK, Numbers
<1>2. embedding \in [Numbers -> EmbeddingRows] /\ embedding[n] \in EmbeddingRows
  BY <1>1 DEF KnowledgeInv, TablesOK
<1> DEFINE again == Again("queued", embedding[n].tries)
           next == embedding[n].tries + 1
           row == [embedding[n] EXCEPT !.job = again, !.tries = next, !.todo = {}]
<1>3. again \in {"queued", "dead"}
  BY DEF Again
<1>4. embedding' = [embedding EXCEPT ![n] = row]
  BY <1>2 DEF EmbeddingFails
<1>5. next \in Nat
  BY <1>2 DEF EmbeddingRows
<1>6. again \in {"none", "queued", "running", "done", "dead"}
  BY <1>3
<1> HIDE DEF again, next
<1>7. row \in EmbeddingRows
  BY <1>2, <1>5, <1>6 DEF EmbeddingRows
<1> QED BY <1>4, <1>7

\* The job of a version.
LEMMA EmbeddingSteps ==
  ASSUME KnowledgeInv, NEW n \in DOMAIN version,
         RequestEmbeddings(n) \/ LoadDocuments(n) \/ EmbedBatch(n) \/ FinishEmbedding(n)
  PROVE  KnowledgeInv' /\ VersionsGrow
<1>1. n \in Numbers
  BY VersionRow, KnowledgeConstants DEF KnowledgeInv, VersionsOK, Numbers
<1>2. /\ embedding \in [Numbers -> EmbeddingRows] /\ embedding[n] \in EmbeddingRows
      /\ chunk \subseteq Numbers \X ToEmbed \X Pieces
  BY <1>1 DEF KnowledgeInv, TablesOK
<1>3. UNCHANGED <<ingestion, proposal, sourceVersions, draftOf, artifact, version, desk, refused>>
  BY DEF RequestEmbeddings, LoadDocuments, EmbedBatch, FinishEmbedding
<1>4. CASE EmbeddingFails(n) /\ UNCHANGED chunk
  BY <1>2, <1>3, <1>4, FailedEmbedding, OnlyEmbeddings
<1>5. CASE RequestEmbeddings(n)
  <2> DEFINE row == [embedding[n] EXCEPT !.job = "queued"]
  <2>1. row \in EmbeddingRows
    BY <1>2 DEF EmbeddingRows
  <2>2. embedding' = [embedding EXCEPT ![n] = row] /\ chunk' = chunk
    BY <1>2, <1>5 DEF RequestEmbeddings
  <2> HIDE DEF row
  <2> QED BY <1>2, <1>3, <2>1, <2>2, OnlyEmbeddings
<1>6. CASE LoadDocuments(n)
  <2>1. chunk' = chunk
    BY <1>6 DEF LoadDocuments
  <2>2. CASE Draft(n)
    <3> DEFINE todo == (version[n].members \cap ToEmbed) \X Pieces
               row == [embedding[n] EXCEPT !.job = "running", !.todo = todo]
    <3>1. embedding' = [embedding EXCEPT ![n] = row]
      BY <1>2, <1>6, <2>2 DEF LoadDocuments
    <3>2. todo \in SUBSET (ToEmbed \X Pieces)
      OBVIOUS
    <3> HIDE DEF todo
    <3>3. row \in EmbeddingRows
      BY <1>2, <3>2 DEF EmbeddingRows
    <3> HIDE DEF row
    <3> QED BY <1>2, <1>3, <2>1, <3>1, <3>3, OnlyEmbeddings
  <2>3. CASE ~Draft(n)
    BY <1>4, <1>6, <2>1, <2>3 DEF LoadDocuments
  <2> QED BY <2>2, <2>3
<1>7. CASE EmbedBatch(n)
  <2>1. PICK d \in ToEmbed, k \in Pieces :
          \/ /\ chunk' = chunk \cup {<<n, d, k>>}
             /\ embedding' = [embedding EXCEPT ![n].todo = @ \ {<<d, k>>}]
          \/ /\ EmbeddingFails(n)
             /\ UNCHANGED chunk
    BY <1>7 DEF EmbedBatch
  <2>2. CASE /\ chunk' = chunk \cup {<<n, d, k>>}
             /\ embedding' = [embedding EXCEPT ![n].todo = @ \ {<<d, k>>}]
    <3> DEFINE row == [embedding[n] EXCEPT !.todo = @ \ {<<d, k>>}]
    <3>1. row \in EmbeddingRows
      BY <1>2 DEF EmbeddingRows
    <3>2. embedding' = [embedding EXCEPT ![n] = row]
      BY <1>2, <2>2
    <3>3. chunk' \subseteq Numbers \X ToEmbed \X Pieces
      BY <1>1, <1>2, <2>2
    <3> HIDE DEF row
    <3> QED BY <1>3, <3>1, <3>2, <3>3, OnlyEmbeddings
  <2> QED BY <1>4, <2>1, <2>2
<1>8. CASE FinishEmbedding(n)
  <2> DEFINE row == [embedding[n] EXCEPT !.job = "done"]
  <2>1. row \in EmbeddingRows
    BY <1>2 DEF EmbeddingRows
  <2>2. embedding' = [embedding EXCEPT ![n] = row] /\ chunk' = chunk
    BY <1>2, <1>8 DEF FinishEmbedding
  <2> HIDE DEF row
  <2> QED BY <1>2, <1>3, <2>1, <2>2, OnlyEmbeddings
<1> QED BY <1>5, <1>6, <1>7, <1>8

\* A promotion reads a draft that has members.
LEMMA BeginPromotionStep ==
  ASSUME KnowledgeInv, NEW a \in Reviewers, NEW n \in DOMAIN version, BeginPromotion(a, n)
  PROVE  KnowledgeInv' /\ VersionsGrow
<1> DEFINE d == [AtDesk EXCEPT !.at = "promoting", !.number = n, !.seen = DigestOf(n)]
<1>1. /\ Opens(a, d) /\ version[n].members # {}
      /\ UNCHANGED <<ingestion, proposal, sourceVersions, draftOf, artifact, version, embedding,
                     chunk, refused>>
  BY DEF BeginPromotion
<1>2. /\ n \in Nat /\ n # 0 /\ n <= Len(version)
      /\ DigestOf(n) \in SUBSET Artifacts /\ DigestOf(n) # {}
  BY <1>1, VersionRow DEF KnowledgeInv, VersionRows, DigestOf
<1>3. d \in DeskRows /\ d.at = "promoting" /\ d.number = n /\ d.seen # {}
  BY <1>2 DEF DeskRows, AtDesk
<1> HIDE DEF d
<1>4. desk'[a] = d
  BY <1>1 DEF Opens, KnowledgeInv, DesksOK
<1>5. DeskOK(a)'
  BY <1>1, <1>2, <1>3, <1>4 DEF DeskOK
<1> QED BY <1>1, <1>3, <1>5, OnlyOpens

\* The update of a promotion.
LEMMA EndPromotionStep ==
  ASSUME KnowledgeInv, NEW a \in Reviewers, EndPromotion(a)
  PROVE  KnowledgeInv' /\ VersionsGrow
<1> DEFINE n == desk[a].number
           seen == desk[a].seen
<1>1. /\ desk[a].at = "promoting" /\ Draft(n) /\ Closes(a)
      /\ version' = [version EXCEPT ![n].state = "TEST", ![n].digest = seen]
      /\ UNCHANGED <<ingestion, proposal, sourceVersions, draftOf, artifact, embedding, chunk,
                     refused>>
  BY DEF EndPromotion
<1>2. DeskOK(a) /\ desk[a] \in DeskRows
  BY DEF KnowledgeInv, DesksOK
<1>3. n \in DOMAIN version /\ seen \in SUBSET Artifacts /\ seen # {}
  BY <1>1, <1>2, VersionRow DEF DeskOK, DeskRows, KnowledgeInv
<1>4. VersionsOK' /\ VersionsGrow /\ Len(version') = Len(version)
  BY <1>1, <1>3, VersionPromoted DEF KnowledgeInv
<1>5. TablesOK'
  BY <1>1, <1>4 DEF KnowledgeInv, TablesOK
<1>6. RecordsStay
  BY <1>1 DEF RecordsStay
<1>7. DesksOK'
  BY <1>1, <1>4, <1>6, DeskCloses
<1> QED BY <1>1, <1>4, <1>5, <1>7, QuietStep

\* Every step.
LEMMA KnowledgeStep ==
  ASSUME KnowledgeInv, KnowledgeNext
  PROVE  KnowledgeInv' /\ VersionsGrow
<1>1. CASE \E i \in Ingestions :
             RequestIngestion(i) \/ ClaimIngestion(i) \/ AttemptFails(i) \/ RejectIngestion(i)
  BY <1>1, IngestionSteps
<1>2. CASE \E i \in Ingestions : CompleteIngestion(i)
  BY <1>2, CompleteStep
<1>3. CASE \E i \in Ingestions : DetectChange(i)
  BY <1>3, DetectStep
<1>4. CASE CreateVersion \/ AppendSourceVersion \/ \E x \in Extras : AddArtifact(x)
  BY <1>4, ConsoleSteps
<1>5. CASE \E a \in Reviewers, n \in DOMAIN version, x \in Artifacts : BeginAdd(a, n, x)
  BY <1>5, BeginAddStep
<1>6. CASE \E a \in Reviewers : EndAdd(a)
  BY <1>6, EndAddStep
<1>7. CASE \E a \in Reviewers : Abandon(a)
  BY <1>7, AbandonStep
<1>8. CASE \E a \in Reviewers, p \in Parts, ruling \in {"APPROVED", "EDITED", "REJECTED"} :
             BeginReview(a, p, ruling)
  BY <1>8, BeginReviewStep
<1>9. CASE \E a \in Reviewers : EndReview(a)
  BY <1>9, EndReviewStep
<1>10. CASE \E n \in DOMAIN version :
              RequestEmbeddings(n) \/ LoadDocuments(n) \/ EmbedBatch(n) \/ FinishEmbedding(n)
  BY <1>10, EmbeddingSteps
<1>11. CASE \E a \in Reviewers, n \in DOMAIN version : BeginPromotion(a, n)
  BY <1>11, BeginPromotionStep
<1>12. CASE \E a \in Reviewers : EndPromotion(a)
  BY <1>12, EndPromotionStep
<1> QED BY <1>1, <1>2, <1>3, <1>4, <1>5, <1>6, <1>7, <1>8, <1>9, <1>10, <1>11, <1>12
        DEF KnowledgeNext

\* A stutter.
LEMMA KnowledgeStutter ==
  ASSUME KnowledgeInv, UNCHANGED knowledgeVars
  PROVE  KnowledgeInv' /\ VersionsGrow
<1>1. UNCHANGED <<ingestion, proposal, sourceVersions, draftOf, artifact, version, embedding,
                  chunk, desk, refused>>
  BY DEF knowledgeVars
<1>2. DesksOK'
  BY <1>1 DEF KnowledgeInv, DesksOK, DeskOK
<1> QED BY <1>1, <1>2, OnlyDesk

\* Between any two transactions of the workers and the administrators the tables of
\* the knowledge are sound: a worker is at an ingestion only while it is in
\* PROCESSING, an open review has its proposal for itself, a draft is made once.
THEOREM KnowledgeInvariant == KnowledgeSpec => []KnowledgeInv
<1>1. KnowledgeInit => KnowledgeInv
  BY KnowledgeStart
<1>2. KnowledgeInv /\ [KnowledgeNext]_knowledgeVars => KnowledgeInv'
  BY KnowledgeStep, KnowledgeStutter
<1> QED BY <1>1, <1>2, PTL DEF KnowledgeSpec

\* Whatever administrators decide at the same time and however often the jobs are
\* delivered, a part of the source becomes an artifact once if it was approved and
\* never otherwise, and is in the draft of the ingestion that found it.
THEOREM ReviewConclusiveHolds == KnowledgeSpec => []ReviewConclusive
<1>1. KnowledgeInv => ReviewConclusive
  BY DEF KnowledgeInv
<1> QED BY <1>1, KnowledgeInvariant, PTL

\* Every version keeps its number and its members, and one that is in Test keeps its
\* state and the digest that its promotion read: promote_to_test asks for a Draft.
THEOREM VersionsKept == KnowledgeSpec => [][VersionsGrow]_knowledgeVars
<1>1. KnowledgeInv /\ [KnowledgeNext]_knowledgeVars => VersionsGrow
  BY KnowledgeStep, KnowledgeStutter
<1> QED BY <1>1, KnowledgeInvariant, PTL DEF KnowledgeSpec

\* The shape of the tables follows.
LEMMA KnowledgeTypes == KnowledgeInv => KnowledgeTypeOK
<1> SUFFICES ASSUME KnowledgeInv PROVE KnowledgeTypeOK
  OBVIOUS
<1>1. \A i \in Ingestions :
        /\ ingestion[i].state \in {"none", "PENDING", "PROCESSING", "SUCCEEDED", "FAILED"}
        /\ ingestion[i].job \in {"none", "queued", "running", "done", "dead"}
        /\ ingestion[i].tries \in 0 .. MaxTries
        /\ ingestion[i].state = "SUCCEEDED" <=> ingestion[i].content \in Contents
  BY DEF KnowledgeInv, IngestionsOK, IngestionOK, IngestionRows
<1>2. \A p \in Parts : proposal[p].state \in
        {"none", "PROPOSED", "APPROVED", "EDITED", "REJECTED"}
  BY DEF KnowledgeInv, ProposalsOK, ProposalRows
<1>3. \A n \in DOMAIN version :
        /\ version[n].state \in {"DRAFT", "TEST"}
        /\ version[n].members \subseteq Artifacts
        /\ Draft(n) <=> version[n].digest = {}
  <2>1. \A n \in DOMAIN version : version[n] \in VersionRows
    BY VersionRow DEF KnowledgeInv
  <2> QED BY <2>1 DEF KnowledgeInv, VersionsOK, VersionRows
<1> QED BY <1>1, <1>2, <1>3 DEF KnowledgeInv, TablesOK, KnowledgeTypeOK

--------------------------------------------------------------------------------
\* Publication and the console: ReleaseSpec => [](EditsKept /\ ReleasesSafe).

\* The rows of agent_spec_versions, and the requests of editors.
AgentRows ==
  [state: {"DRAFT", "TEST", "QUALITY_GATE", "PRODUCTION"}, knowledge: 0 .. MaxVersions,
   digest: SUBSET Artifacts, code: Builds \cup {NoBuild}, edits: SUBSET Nat,
   by: {"api", "console"}]

\* The knowledge that a version names stays in Test with the digest it names, whoever
\* works on the knowledge; an edit of the console is one of the version it made.
AgentOK(v) ==
  /\ agent[v].edits \subseteq 1 .. v
  /\ agent[v].by = "console" => v \in agent[v].edits
  /\ agent[v].state # "DRAFT" => Deployable(v)
AgentsOK ==
  /\ agent \in Seq(AgentRows)
  /\ Latest <= MaxAgents
  /\ \A v \in DOMAIN agent : AgentOK(v)

\* Rows in the order they were committed.
IsSequence(rows) == rows \in Seq({rows[k] : k \in DOMAIN rows})

\* A decision that passed for the digests of a version.
Backed(v, d) == d \in About(v) /\ decision[d].passed

\* No decision that was there overruled it.
NotOverruled(v, d, known) ==
  /\ known \in 0 .. Len(decision)
  /\ \A o \in About(v) : o <= known => decision[o].stamp <= decision[d].stamp

\* What is known of a version that is being deployed: its decision, and for a
\* rollback that it was published.
FormOK(e) ==
  LET f == form[e] IN
  /\ f.on \in 0 .. Latest /\ f.active \in 0 .. Latest
  /\ f # NoForm => f.on # 0
  /\ f.at = "publishing" => Backed(f.on, f.verdict) /\ NotOverruled(f.on, f.verdict, f.known)
  /\ f.at = "rolling_back" => /\ agent[f.on].state = "PRODUCTION"
                              /\ Backed(f.on, f.verdict)

\* Every editor has one request.
FormsOK ==
  /\ form \in [Editors -> {form[e] : e \in Editors}]
  /\ \A e \in Editors : FormOK(e)

\* A row of agent_spec_deployments.
DeploymentOK(k) ==
  LET r == deployment[k] IN
  /\ r.agent \in DOMAIN agent /\ agent[r.agent].state = "PRODUCTION"
  /\ r.replaced \in 0 .. Latest
  /\ Backed(r.agent, r.verdict)
  /\ r.action = "PUBLISH" => NotOverruled(r.agent, r.verdict, r.known)

\* A version is in Production if and only if it was published, which it was once.
PublishedOnce ==
  /\ \A k, l \in DOMAIN deployment :
       /\ deployment[k].action = "PUBLISH" /\ deployment[l].action = "PUBLISH"
       /\ deployment[k].agent = deployment[l].agent
       => k = l
  /\ \A v \in DOMAIN agent : agent[v].state = "PRODUCTION" => Original(v) # {}

\* What is true of the agent between any two transactions.
PublicationInv ==
  /\ AgentsOK /\ EditsKept
  /\ IsSequence(decision)
  /\ \A d \in DOMAIN decision : decision[d].agent \in DOMAIN agent
  /\ FormsOK
  /\ IsSequence(deployment)
  /\ \A k \in DOMAIN deployment : DeploymentOK(k)
  /\ PublishedOnce

\* What a table is after a row was added at its end.
Grown(rows, row, more) ==
  /\ IsSequence(more) /\ Len(rows) \in Nat /\ Len(more) = Len(rows) + 1
  /\ DOMAIN rows = 1 .. Len(rows) /\ DOMAIN more = 1 .. Len(rows) + 1
  /\ more[Len(rows) + 1] = row
  /\ \A k \in DOMAIN rows : more[k] = rows[k]

\* Appending does that.
LEMMA RowAdded ==
  ASSUME NEW rows, IsSequence(rows), NEW row, NEW more, more = Append(rows, row)
  PROVE  Grown(rows, row, more)
<1> DEFINE R == {rows[k] : k \in DOMAIN rows}
           T == R \cup {row}
           S == {more[k] : k \in DOMAIN more}
<1>1. rows \in Seq(R)
  BY DEF IsSequence
<1>2. Len(rows) \in Nat /\ DOMAIN rows = 1 .. Len(rows)
  BY <1>1, LenProperties
<1>3. rows \in Seq(T) /\ row \in T
  BY <1>1, SeqMonotonic
<1> HIDE DEF T
<1>4. /\ more \in Seq(T) /\ Len(more) = Len(rows) + 1
      /\ more[Len(rows) + 1] = row /\ \A k \in 1 .. Len(rows) : more[k] = rows[k]
  BY <1>3, AppendProperties
<1>5. more \in [1 .. Len(more) -> T] /\ DOMAIN more = 1 .. Len(more)
  BY <1>4, LenProperties
<1>6. more \in [1 .. Len(more) -> S]
  <2>1. \A k \in 1 .. Len(more) : more[k] \in S
    BY <1>5
  <2> HIDE DEF S
  <2> QED BY <1>5, <2>1
<1>7. more \in Seq(S)
  <2>1. Len(more) \in Nat
    BY <1>2, <1>4
  <2> HIDE DEF S
  <2> QED BY <1>6, <2>1, SeqDef
<1>8. IsSequence(more)
  BY <1>7 DEF IsSequence
<1> HIDE DEF R, S
<1> QED BY <1>2, <1>4, <1>5, <1>8 DEF Grown

\* The bounds are numbers.
LEMMA PublicationConstants == MaxAgents \in Nat /\ MaxVersions \in Nat
BY PublicationAssumption, KnowledgeConstants DEF PublicationAssumption

\* Nothing was made yet.
LEMMA PublicationStart == PublicationInit => PublicationInv
<1> SUFFICES ASSUME PublicationInit PROVE PublicationInv
  OBVIOUS
<1> USE PublicationConstants DEF PublicationInit
<1>1. AgentsOK /\ EditsKept
  BY DEF AgentsOK, EditsKept, Latest
<1>2. IsSequence(decision) /\ IsSequence(deployment)
  BY DEF IsSequence
<1>3. ASSUME NEW e \in Editors PROVE FormOK(e)
  <2>1. form[e] = NoForm /\ NoForm.on = 0 /\ NoForm.active = 0 /\ NoForm.at = "idle"
    BY DEF NoForm
  <2> QED BY <2>1 DEF FormOK, Latest
<1>4. PublishedOnce
  BY DEF PublishedOnce
<1>5. form \in [Editors -> {form[e] : e \in Editors}]
  OBVIOUS
<1> QED BY <1>1, <1>2, <1>3, <1>4, <1>5 DEF PublicationInv, FormsOK

--------------------------------------------------------------------------------
\* What every transaction leaves as it is.

\* A version of the agent keeps its configuration; what is past Draft or in Production
\* stays so.
AgentsStay ==
  /\ Latest \in Nat /\ Latest' \in Nat /\ Latest <= Latest'
  /\ DOMAIN agent \subseteq DOMAIN agent'
  /\ \A v \in DOMAIN agent :
       /\ agent'[v].knowledge = agent[v].knowledge /\ agent'[v].digest = agent[v].digest
       /\ agent'[v].code = agent[v].code
       /\ agent[v].state = "PRODUCTION" => agent'[v].state = "PRODUCTION"

\* A decision is never taken back.
DecisionsStay ==
  /\ Len(decision) \in Nat /\ Len(decision') \in Nat /\ Len(decision) <= Len(decision')
  /\ DOMAIN decision = 1 .. Len(decision) /\ DOMAIN decision' = 1 .. Len(decision')
  /\ \A d \in DOMAIN decision : decision'[d] = decision[d]

\* Versions are numbered in order.
LEMMA AgentNumbers ==
  ASSUME AgentsOK
  PROVE  /\ Latest \in Nat /\ DOMAIN agent = 1 .. Latest
         /\ \A v \in DOMAIN agent : agent[v] \in AgentRows
BY DEF AgentsOK, Latest

\* Neither changes.
LEMMA AgentsSame ==
  ASSUME AgentsOK, UNCHANGED agent
  PROVE  AgentsStay
<1>1. Latest \in Nat
  BY AgentNumbers
<1>2. Latest' = Latest
  BY DEF Latest
<1> QED BY <1>1, <1>2 DEF AgentsStay

\* No decision is added.
LEMMA DecisionsSame ==
  ASSUME IsSequence(decision), UNCHANGED decision
  PROVE  DecisionsStay
<1>1. Len(decision) \in Nat /\ DOMAIN decision = 1 .. Len(decision)
  BY LenProperties DEF IsSequence
<1> QED BY <1>1 DEF DecisionsStay

\* What a version is bound to stays deployable.
LEMMA DeployableStays ==
  ASSUME VersionsGrow, NEW v, Deployable(v),
         agent'[v].knowledge = agent[v].knowledge, agent'[v].digest = agent[v].digest
  PROVE  Deployable(v)'
<1> DEFINE n == agent[v].knowledge
<1>1. n \in DOMAIN version /\ version[n].state = "TEST" /\ version[n].digest = agent[v].digest
  BY DEF Deployable
<1>2. n \in DOMAIN version' /\ version'[n].state = "TEST"
        /\ version'[n].digest = version[n].digest
  BY <1>1 DEF VersionsGrow
<1> QED BY <1>1, <1>2 DEF Deployable

\* A decision still passed for the same digests, and nothing that was decided
\* before is later than it now.
LEMMA BackedStays ==
  ASSUME AgentsStay, DecisionsStay, NEW v \in DOMAIN agent, NEW d
  PROVE  Backed(v, d) => Backed(v, d)'
<1>1. ASSUME Backed(v, d) PROVE Backed(v, d)'
  <2>1. /\ d \in DOMAIN decision /\ decision[d].passed /\ decision[d].agent = v
        /\ decision[d].digest = agent[v].digest /\ decision[d].code = agent[v].code
    BY <1>1 DEF Backed, About, Compiled
  <2>2. d \in DOMAIN decision' /\ decision'[d] = decision[d]
    BY <2>1 DEF DecisionsStay
  <2>3. agent'[v].digest = agent[v].digest /\ agent'[v].code = agent[v].code
    BY DEF AgentsStay
  <2> QED BY <2>1, <2>2, <2>3 DEF Backed, About, Compiled
<1> QED BY <1>1

\* A decision that was the last when it was asked for still was.
LEMMA OverruledStays ==
  ASSUME AgentsStay, DecisionsStay, NEW v \in DOMAIN agent, NEW d, NEW known, Backed(v, d),
         NotOverruled(v, d, known)
  PROVE  NotOverruled(v, d, known)'
<1>1. d \in DOMAIN decision /\ known \in 0 .. Len(decision)
  BY DEF Backed, About, NotOverruled
<1>2. known \in 0 .. Len(decision')
  BY <1>1 DEF DecisionsStay
<1>3. ASSUME NEW o \in About(v)', o <= known PROVE decision'[o].stamp <= decision'[d].stamp
  <2>1. o \in DOMAIN decision' /\ decision'[o].agent = v
          /\ decision'[o].digest = agent'[v].digest /\ decision'[o].code = agent'[v].code
    BY <1>3 DEF About, Compiled
  <2>2. o \in DOMAIN decision
    BY <1>1, <1>3, <2>1 DEF DecisionsStay
  <2>3. decision'[o] = decision[o] /\ decision'[d] = decision[d]
    BY <1>1, <2>2 DEF DecisionsStay
  <2>4. agent'[v].digest = agent[v].digest /\ agent'[v].code = agent[v].code
    BY DEF AgentsStay
  <2>5. o \in About(v)
    BY <2>1, <2>2, <2>3, <2>4 DEF About, Compiled
  <2> QED BY <1>3, <2>3, <2>5 DEF NotOverruled
<1> QED BY <1>2, <1>3 DEF NotOverruled

\* An open request means the same afterwards.
LEMMA FormStays ==
  ASSUME PublicationInv, AgentsStay, DecisionsStay, NEW e \in Editors, form'[e] = form[e]
  PROVE  FormOK(e)'
<1> DEFINE f == form[e]
<1>1. FormOK(e) /\ AgentsOK
  BY DEF PublicationInv, FormsOK
<1>2. f.on \in 0 .. Latest' /\ f.active \in 0 .. Latest' /\ (f # NoForm => f.on # 0)
  BY <1>1 DEF FormOK, AgentsStay
<1>3. ASSUME f.at \in {"publishing", "rolling_back"} PROVE f.on \in DOMAIN agent
  <2>1. f.on # 0
    BY <1>1, <1>3 DEF FormOK, NoForm
  <2> QED BY <1>1, <2>1, AgentNumbers DEF FormOK
<1>4. ASSUME f.at = "publishing"
      PROVE  (Backed(form[e].on, form[e].verdict)
               /\ NotOverruled(form[e].on, form[e].verdict, form[e].known))'
  <2>1. PICK v \in DOMAIN agent, d \in {f.verdict}, known \in {f.known} : v = f.on
    BY <1>3, <1>4
  <2>2. Backed(v, d) /\ NotOverruled(v, d, known)
    BY <1>1, <1>4, <2>1 DEF FormOK
  <2>3. Backed(v, d)' /\ NotOverruled(v, d, known)'
    BY <2>2, BackedStays, OverruledStays
  <2>4. form'[e].on = v /\ form'[e].verdict = d /\ form'[e].known = known
    BY <2>1
  <2> QED BY <2>3, <2>4 DEF Backed, About, Compiled, NotOverruled
<1>5. ASSUME f.at = "rolling_back"
      PROVE  (agent[form[e].on].state = "PRODUCTION" /\ Backed(form[e].on, form[e].verdict))'
  <2>1. PICK v \in DOMAIN agent, d \in {f.verdict} : v = f.on
    BY <1>3, <1>5
  <2>2. Backed(v, d) /\ agent[v].state = "PRODUCTION"
    BY <1>1, <1>5, <2>1 DEF FormOK
  <2>3. Backed(v, d)' /\ agent'[v].state = "PRODUCTION"
    BY <2>2, BackedStays DEF AgentsStay
  <2>4. form'[e].on = v /\ form'[e].verdict = d
    BY <2>1
  <2> QED BY <2>3, <2>4 DEF Backed, About, Compiled
<1> QED BY <1>2, <1>4, <1>5 DEF FormOK

\* A row of agent_spec_deployments is as sound afterwards.
LEMMA DeploymentStays ==
  ASSUME PublicationInv, AgentsStay, DecisionsStay, NEW k \in DOMAIN deployment,
         deployment'[k] = deployment[k]
  PROVE  DeploymentOK(k)'
<1> DEFINE r == deployment[k]
<1>1. DeploymentOK(k)
  BY DEF PublicationInv
<1>2. PICK v \in DOMAIN agent, d \in {r.verdict}, known \in {r.known} : v = r.agent
  BY <1>1 DEF DeploymentOK
<1>3. /\ agent[v].state = "PRODUCTION" /\ Backed(v, d) /\ r.replaced \in 0 .. Latest
      /\ r.action = "PUBLISH" => NotOverruled(v, d, known)
  BY <1>1, <1>2 DEF DeploymentOK
<1>4. /\ v \in DOMAIN agent' /\ agent'[v].state = "PRODUCTION" /\ Backed(v, d)'
      /\ r.replaced \in 0 .. Latest'
  BY <1>3, BackedStays DEF AgentsStay
<1>5. r.action = "PUBLISH" => NotOverruled(v, d, known)'
  BY <1>3, OverruledStays
<1>6. deployment'[k].agent = v /\ deployment'[k].verdict = d /\ deployment'[k].known = known
        /\ deployment'[k].replaced = r.replaced /\ deployment'[k].action = r.action
  BY <1>2
<1>7. Backed(deployment[k].agent, deployment[k].verdict)'
  BY <1>4, <1>6 DEF Backed, About, Compiled
<1>8. (deployment[k].action = "PUBLISH" =>
        NotOverruled(deployment[k].agent, deployment[k].verdict, deployment[k].known))'
  BY <1>5, <1>6 DEF NotOverruled, About, Compiled
<1> QED BY <1>4, <1>6, <1>7, <1>8 DEF DeploymentOK

\* When nothing is deployed, the table is as sound, if no version enters Production.
LEMMA DeploymentsStay ==
  ASSUME PublicationInv, AgentsStay, DecisionsStay, UNCHANGED deployment,
         \A v \in DOMAIN agent' : agent'[v].state = "PRODUCTION" =>
           v \in DOMAIN agent /\ agent[v].state = "PRODUCTION"
  PROVE  /\ IsSequence(deployment)' /\ (\A k \in DOMAIN deployment : DeploymentOK(k))'
         /\ PublishedOnce'
<1>1. \A k \in DOMAIN deployment' : DeploymentOK(k)'
  BY DeploymentStays
<1>2. IsSequence(deployment)'
  BY DEF PublicationInv, IsSequence
<1>3. PublishedOnce'
  BY DEF PublicationInv, PublishedOnce, Original
<1> QED BY <1>1, <1>2, <1>3

\* The knowledge that a version names is there whatever the knowledge's requests do.
LEMMA AgentStays ==
  ASSUME VersionsGrow, AgentsOK, NEW v \in DOMAIN agent,
         agent'[v].knowledge = agent[v].knowledge, agent'[v].digest = agent[v].digest,
         agent'[v].edits = agent[v].edits, agent'[v].by = agent[v].by,
         agent[v].state # "DRAFT" \/ agent'[v].state = "DRAFT" \/ Deployable(v)
  PROVE  AgentOK(v)'
<1>1. AgentOK(v)
  BY DEF AgentsOK
<1>2. agent'[v].state # "DRAFT" => Deployable(v)
  BY <1>1 DEF AgentOK
<1>3. agent'[v].state # "DRAFT" => Deployable(v)'
  BY <1>2, DeployableStays
<1> QED BY <1>1, <1>3 DEF AgentOK

\* Nothing changes for the agent's versions.
LEMMA AgentsUnchanged ==
  ASSUME VersionsGrow, AgentsOK, EditsKept, UNCHANGED agent
  PROVE  AgentsOK' /\ EditsKept' /\ AgentsStay
<1>1. AgentsStay
  BY AgentsSame
<1>2. ASSUME NEW v \in DOMAIN agent' PROVE AgentOK(v)'
  <2>1. agent[v].state # "DRAFT" \/ agent'[v].state = "DRAFT"
    OBVIOUS
  <2> QED BY <2>1, AgentStays
<1>3. AgentsOK'
  BY <1>2 DEF AgentsOK, Latest
<1>4. EditsKept'
  BY DEF EditsKept
<1> QED BY <1>1, <1>3, <1>4

\* A draft is added: one made in the console holds what the latest version held, its
\* number, and nothing else.
LEMMA AgentAdded ==
  ASSUME VersionsGrow, AgentsOK, EditsKept, Latest < MaxAgents, NEW row \in AgentRows,
         agent' = Append(agent, row), row.state = "DRAFT",
         row.by = "api" => row.edits \subseteq 1 .. Latest,
         row.by = "console" =>
           Latest > 0 /\ row.edits = agent[Latest].edits \cup {Latest + 1}
  PROVE  /\ AgentsOK' /\ EditsKept' /\ AgentsStay
         /\ \A v \in DOMAIN agent' : agent'[v].state = "PRODUCTION" =>
              v \in DOMAIN agent /\ agent[v].state = "PRODUCTION"
<1> DEFINE l == Latest + 1
<1>1. /\ Latest \in Nat /\ DOMAIN agent = 1 .. Latest /\ MaxAgents \in Nat
      /\ row.by \in {"api", "console"} /\ agent \in Seq(AgentRows)
  BY AgentNumbers, PublicationConstants DEF AgentRows, AgentsOK
<1>2. /\ agent' \in Seq(AgentRows) /\ Latest' = l /\ agent'[l] = row
      /\ DOMAIN agent' = 1 .. l /\ \A v \in DOMAIN agent : agent'[v] = agent[v]
  BY <1>1 DEF Latest
<1>3. \A v \in DOMAIN agent : agent[v].edits \subseteq 1 .. v
        /\ (agent[v].by = "console" => v \in agent[v].edits)
  BY DEF AgentsOK, AgentOK
<1>4. row.edits \subseteq 1 .. l /\ (row.by = "console" => l \in row.edits)
  BY <1>1, <1>3
<1>5. ASSUME NEW v \in DOMAIN agent' PROVE AgentOK(v)'
  <2>1. CASE v = l
    BY <1>2, <1>4, <2>1 DEF AgentOK
  <2>2. CASE v # l
    <3>1. v \in DOMAIN agent /\ agent'[v] = agent[v]
      BY <1>1, <1>2, <2>2
    <3>2. agent[v].state # "DRAFT" \/ agent'[v].state = "DRAFT"
      BY <3>1
    <3> QED BY <3>1, <3>2, AgentStays
  <2> QED BY <2>1, <2>2
<1>6. AgentsOK'
  BY <1>1, <1>2, <1>5 DEF AgentsOK
<1>7. ASSUME NEW old \in DOMAIN agent', NEW new \in DOMAIN agent', old < new,
             \A v \in old .. new : agent'[v].by = "console"
      PROVE  old \in agent'[new].edits /\ agent'[old].edits \subseteq agent'[new].edits
  <2>1. old \in DOMAIN agent /\ agent'[old] = agent[old]
    BY <1>1, <1>2, <1>7
  <2>2. CASE new # l
    <3>1. new \in DOMAIN agent /\ agent'[new] = agent[new]
      BY <1>1, <1>2, <2>2
    <3>2. \A v \in old .. new : agent[v].by = "console"
      BY <1>1, <1>2, <1>7, <2>1, <3>1
    <3> QED BY <1>7, <2>1, <3>1, <3>2 DEF EditsKept
  <2>3. CASE new = l
    <3>1. agent'[new] = row /\ row.by = "console"
      BY <1>1, <1>2, <1>7, <2>3
    <3>2. Latest > 0 /\ row.edits = agent[Latest].edits \cup {l} /\ Latest \in DOMAIN agent
      BY <1>1, <3>1
    <3>3. CASE old = Latest
      <4>1. agent[old].by = "console"
        BY <1>1, <1>7, <2>1, <2>3
      <4> QED BY <1>3, <2>1, <3>1, <3>2, <3>3, <4>1
    <3>4. CASE old # Latest
      <4>1. old < Latest /\ \A v \in old .. Latest : agent[v].by = "console"
        BY <1>1, <1>2, <1>7, <2>1, <2>3, <3>4
      <4>2. old \in agent[Latest].edits /\ agent[old].edits \subseteq agent[Latest].edits
        BY <2>1, <3>2, <4>1 DEF EditsKept
      <4> QED BY <2>1, <3>1, <3>2, <4>2
    <3> QED BY <3>3, <3>4
  <2> QED BY <2>2, <2>3
<1>8. EditsKept'
  BY <1>7 DEF EditsKept
<1>9. AgentsStay
  BY <1>1, <1>2 DEF AgentsStay
<1>10. \A v \in DOMAIN agent' : agent'[v].state = "PRODUCTION" =>
         v \in DOMAIN agent /\ agent[v].state = "PRODUCTION"
  BY <1>1, <1>2
<1> QED BY <1>6, <1>8, <1>9, <1>10

\* A version goes on.
LEMMA AgentMoved ==
  ASSUME VersionsGrow, AgentsOK, EditsKept, NEW v \in DOMAIN agent,
         NEW from \in {"DRAFT", "TEST", "QUALITY_GATE"},
         NEW to \in {"TEST", "QUALITY_GATE", "PRODUCTION"}, Moves(v, from, to),
         from = "DRAFT" => Deployable(v)
  PROVE  /\ AgentsOK' /\ EditsKept' /\ AgentsStay
         /\ agent[v].state = from /\ agent'[v].state = to /\ DOMAIN agent' = DOMAIN agent
         /\ \A w \in DOMAIN agent : w # v => agent'[w] = agent[w]
<1>1. /\ Latest \in Nat /\ DOMAIN agent = 1 .. Latest
      /\ agent \in Seq(AgentRows) /\ agent[v] \in AgentRows
  BY AgentNumbers DEF AgentsOK
<1> DEFINE row == [agent[v] EXCEPT !.state = to]
<1>2. /\ row \in AgentRows /\ row.state = to /\ row.knowledge = agent[v].knowledge
      /\ row.digest = agent[v].digest /\ row.code = agent[v].code
      /\ row.edits = agent[v].edits /\ row.by = agent[v].by
  BY <1>1 DEF AgentRows
<1>3. agent' = [agent EXCEPT ![v] = row] /\ agent[v].state = from
  BY <1>1 DEF Moves
<1> HIDE DEF row
<1>4. /\ agent' \in Seq(AgentRows) /\ Latest' = Latest /\ DOMAIN agent' = DOMAIN agent
      /\ agent'[v] = row /\ \A w \in DOMAIN agent : w # v => agent'[w] = agent[w]
  BY <1>1, <1>2, <1>3 DEF Latest
<1>5. ASSUME NEW w \in DOMAIN agent' PROVE AgentOK(w)'
  <2>1. CASE w = v
    BY <1>2, <1>3, <1>4, <2>1, AgentStays
  <2>2. CASE w # v
    <3>1. w \in DOMAIN agent /\ agent'[w] = agent[w]
      BY <1>4, <2>2
    <3>2. agent[w].state # "DRAFT" \/ agent'[w].state = "DRAFT"
      BY <3>1
    <3> QED BY <3>1, <3>2, AgentStays
  <2> QED BY <2>1, <2>2
<1>6. AgentsOK'
  BY <1>4, <1>5 DEF AgentsOK
<1>7. \A w \in DOMAIN agent : agent'[w].edits = agent[w].edits /\ agent'[w].by = agent[w].by
  BY <1>2, <1>4
<1>8. EditsKept'
  <2>1. ASSUME NEW old \in DOMAIN agent, NEW new \in DOMAIN agent, old < new,
               \A w \in old .. new : agent'[w].by = "console"
        PROVE  old \in agent'[new].edits /\ agent'[old].edits \subseteq agent'[new].edits
    <3>1. \A w \in old .. new : agent[w].by = "console"
      BY <1>1, <1>7, <2>1
    <3> QED BY <1>7, <2>1, <3>1 DEF EditsKept
  <2> QED BY <1>4, <2>1 DEF EditsKept
<1>9. AgentsStay
  BY <1>1, <1>2, <1>3, <1>4 DEF AgentsStay
<1> QED BY <1>2, <1>3, <1>4, <1>6, <1>8, <1>9

--------------------------------------------------------------------------------
\* The steps of the agent's administrators.

\* Only the versions of the agent change, and none enters Production.
LEMMA OnlyAgents ==
  ASSUME PublicationInv, AgentsOK', EditsKept', AgentsStay, UNCHANGED <<decision, deployment>>,
         \A v \in DOMAIN agent' : agent'[v].state = "PRODUCTION" =>
           v \in DOMAIN agent /\ agent[v].state = "PRODUCTION",
         FormsOK'
  PROVE  PublicationInv'
<1>1. DecisionsStay
  BY DecisionsSame DEF PublicationInv
<1>2. /\ IsSequence(deployment)' /\ (\A k \in DOMAIN deployment : DeploymentOK(k))'
      /\ PublishedOnce'
  BY <1>1, DeploymentsStay
<1>3. IsSequence(decision)'
  BY DEF PublicationInv, IsSequence
<1>4. \A d \in DOMAIN decision' : decision'[d].agent \in DOMAIN agent'
  BY DEF PublicationInv, AgentsStay
<1> QED BY <1>2, <1>3, <1>4 DEF PublicationInv

\* A closed form is sound.
LEMMA NoFormOK ==
  ASSUME AgentsStay, NEW e \in Editors, form'[e] = NoForm
  PROVE  FormOK(e)'
<1>1. NoForm.on = 0 /\ NoForm.active = 0 /\ NoForm.at = "idle"
  BY DEF NoForm
<1>2. Latest' \in Nat
  BY DEF AgentsStay
<1> QED BY <1>1, <1>2 DEF FormOK

\* An editor's request is opened, or answered; those of the others mean the same.
LEMMA FormChanged ==
  ASSUME PublicationInv, AgentsStay, DecisionsStay, NEW e \in Editors, NEW f,
         form' = [form EXCEPT ![e] = f], FormOK(e)'
  PROVE  FormsOK'
<1> DEFINE S == {form[o] : o \in Editors}
           T == {form'[o] : o \in Editors}
<1>1. form \in [Editors -> S]
  BY DEF PublicationInv, FormsOK
<1> HIDE DEF S
<1>2. /\ form' \in [Editors -> S \cup {f}] /\ form'[e] = f
      /\ \A o \in Editors : o # e => form'[o] = form[o]
  BY <1>1
<1>3. form' \in [Editors -> T]
  <2>1. \A o \in Editors : form'[o] \in T
    OBVIOUS
  <2> HIDE DEF T
  <2> QED BY <1>2, <2>1
<1>4. ASSUME NEW o \in Editors PROVE FormOK(o)'
  <2>1. CASE o = e
    BY <2>1
  <2>2. CASE o # e
    BY <1>2, <2>2, FormStays
  <2> QED BY <2>1, <2>2
<1> QED BY <1>3, <1>4 DEF FormsOK

\* The answer.
LEMMA FormAnswered ==
  ASSUME PublicationInv, AgentsStay, DecisionsStay, NEW e \in Editors, Answers(e)
  PROVE  FormsOK'
<1>1. form' = [form EXCEPT ![e] = NoForm] /\ form'[e] = NoForm
  BY DEF Answers, PublicationInv, FormsOK
<1>2. FormOK(e)'
  BY <1>1, NoFormOK
<1> QED BY <1>1, <1>2, FormChanged

\* Nobody opens or answers one.
LEMMA FormsSame ==
  ASSUME PublicationInv, AgentsStay, DecisionsStay, UNCHANGED form
  PROVE  FormsOK'
<1>1. ASSUME NEW o \in Editors PROVE FormOK(o)'
  BY FormStays
<1> QED BY <1>1 DEF PublicationInv, FormsOK

\* A draft of the agent's API: it holds the edits of an older version, and no more.
LEMMA DraftMade ==
  ASSUME KnowledgeInv, PublicationInv, UNCHANGED knowledgeVars,
         NEW number \in {0} \cup DOMAIN version, NEW code \in Builds \cup {NoBuild},
         NEW edits \in SUBSET (1 .. Latest), CreateDraftVersion(number, code, edits, "api"),
         UNCHANGED <<decision, deployment, form>>
  PROVE  PublicationInv'
<1> DEFINE digest == IF number = 0 THEN {} ELSE version[number].digest
           row == [state |-> "DRAFT", knowledge |-> number, digest |-> digest,
                   code |-> code, edits |-> edits, by |-> "api"]
<1>1. Latest < MaxAgents /\ agent' = Append(agent, row)
  BY DEF CreateDraftVersion
<1>2. AgentsOK /\ EditsKept /\ IsSequence(decision) /\ VersionsGrow
  BY KnowledgeStutter DEF PublicationInv
<1>3. digest \in SUBSET Artifacts /\ number \in 0 .. MaxVersions
  <2>1. CASE number = 0
    BY <2>1, PublicationConstants
  <2>2. CASE number # 0
    <3>1. version[number] \in VersionRows /\ number \in 1 .. Len(version)
            /\ Len(version) \in Nat /\ Len(version) <= MaxVersions
      BY <2>2, VersionRow DEF KnowledgeInv, VersionsOK
    <3> QED BY <2>2, <3>1, PublicationConstants DEF VersionRows
  <2> QED BY <2>1, <2>2
<1>4. edits \in SUBSET Nat
  BY <1>2, AgentNumbers
<1> HIDE DEF digest
<1>5. /\ row \in AgentRows /\ row.state = "DRAFT" /\ row.by = "api" /\ row.edits = edits
  BY <1>3, <1>4 DEF AgentRows
<1> HIDE DEF row
<1>6. /\ AgentsOK' /\ EditsKept' /\ AgentsStay
      /\ \A v \in DOMAIN agent' : agent'[v].state = "PRODUCTION" =>
           v \in DOMAIN agent /\ agent[v].state = "PRODUCTION"
  BY <1>1, <1>2, <1>5, AgentAdded
<1>7. DecisionsStay
  BY <1>2, DecisionsSame
<1>8. FormsOK'
  BY <1>6, <1>7, FormsSame
<1> QED BY <1>6, <1>8, OnlyAgents

\* The three ways of the API.
LEMMA ApiSteps ==
  ASSUME KnowledgeInv, PublicationInv, UNCHANGED knowledgeVars,
         \/ CreateCustomerServiceDraft
         \/ \E n \in DOMAIN version, code \in Builds : CreateInstance(n, code)
         \/ \E base \in DOMAIN agent, n \in {0} \cup DOMAIN version, code \in Builds :
              CreateDraft(base, n, code)
  PROVE  PublicationInv'
<1>1. CASE CreateCustomerServiceDraft
  <2>1. CreateDraftVersion(0, NoBuild, {}, "api") /\ UNCHANGED <<decision, deployment, form>>
    BY <1>1 DEF CreateCustomerServiceDraft, CreateInstance, DefaultConfiguration
  <2> QED BY <2>1, DraftMade
<1>2. ASSUME NEW n \in DOMAIN version, NEW code \in Builds, CreateInstance(n, code)
      PROVE  PublicationInv'
  <2>1. CreateDraftVersion(n, code, {}, "api") /\ UNCHANGED <<decision, deployment, form>>
    BY <1>2 DEF CreateInstance
  <2> QED BY <2>1, DraftMade
<1>3. ASSUME NEW base \in DOMAIN agent, NEW n \in {0} \cup DOMAIN version,
             NEW code \in Builds, CreateDraft(base, n, code)
      PROVE  PublicationInv'
  <2>1. /\ CreateDraftVersion(n, code, agent[base].edits, "api")
        /\ UNCHANGED <<decision, deployment, form>>
    BY <1>3 DEF CreateDraft
  <2>2. agent[base].edits \in SUBSET (1 .. Latest)
    <3>1. agent[base].edits \subseteq 1 .. base /\ base \in 1 .. Latest /\ Latest \in Nat
      BY AgentNumbers DEF PublicationInv, AgentsOK, AgentOK
    <3> QED BY <3>1
  <2> QED BY <2>1, <2>2, DraftMade
<1> QED BY <1>1, <1>2, <1>3

\* The console: an edit is one of the version that is still the latest.
LEMMA SaveStep ==
  ASSUME KnowledgeInv, PublicationInv, UNCHANGED knowledgeVars, NEW e \in Editors, SaveEdit(e)
  PROVE  PublicationInv'
<1>1. AgentsOK /\ EditsKept /\ IsSequence(decision) /\ VersionsGrow /\ FormOK(e)
  BY KnowledgeStutter DEF PublicationInv, FormsOK
<1>2. Answers(e) /\ UNCHANGED <<decision, deployment>> /\ form[e].at = "editing"
  BY DEF SaveEdit
<1>3. /\ AgentsOK' /\ EditsKept' /\ AgentsStay
      /\ \A v \in DOMAIN agent' : agent'[v].state = "PRODUCTION" =>
           v \in DOMAIN agent /\ agent[v].state = "PRODUCTION"
  <2>1. CASE ~Current(e)
    <3>1. UNCHANGED agent
      BY <2>1 DEF SaveEdit
    <3> QED BY <1>1, <3>1, AgentsUnchanged
  <2>2. CASE Current(e)
    <3> DEFINE row == Edited(agent[Latest])
    <3>1. Latest < MaxAgents /\ form[e].on = Latest /\ agent' = Append(agent, row)
      BY <2>2 DEF SaveEdit, Current
    <3>2. Latest # 0
      BY <1>1, <1>2, <3>1 DEF FormOK, NoForm
    <3>3. Latest \in Nat /\ Latest > 0 /\ Latest \in DOMAIN agent
            /\ agent[Latest] \in AgentRows
      BY <1>1, <3>2, AgentNumbers
    <3>4. /\ row \in AgentRows /\ row.state = "DRAFT" /\ row.by = "console"
          /\ row.edits = agent[Latest].edits \cup {Latest + 1}
      <4> DEFINE base == agent[Latest]
                 edits == base.edits \cup {Latest + 1}
      <4>1. base \in AgentRows
        BY <3>3
      <4>2. edits \in SUBSET Nat
        BY <3>3, <4>1 DEF AgentRows
      <4>3. row = [base EXCEPT !.state = "DRAFT", !.by = "console", !.edits = edits]
        BY <4>1 DEF Edited, AgentRows
      <4> HIDE DEF base, edits, row
      <4>4. /\ row \in AgentRows /\ row.state = "DRAFT" /\ row.by = "console"
            /\ row.edits = edits
        BY <4>1, <4>2, <4>3 DEF AgentRows
      <4> QED BY <4>4 DEF base, edits
    <3> HIDE DEF row
    <3> QED BY <1>1, <3>1, <3>3, <3>4, AgentAdded
  <2> QED BY <2>1, <2>2
<1>4. DecisionsStay
  BY <1>1, <1>2, DecisionsSame
<1>5. FormsOK'
  BY <1>2, <1>3, <1>4, FormAnswered
<1> QED BY <1>2, <1>3, <1>5, OnlyAgents

\* Test and the quality gate.
LEMMA MoveSteps ==
  ASSUME KnowledgeInv, PublicationInv, UNCHANGED knowledgeVars, NEW v \in DOMAIN agent,
         PromoteAgent(v) \/ EnterQualityGate(v)
  PROVE  PublicationInv'
<1>1. AgentsOK /\ EditsKept /\ IsSequence(decision) /\ VersionsGrow
  BY KnowledgeStutter DEF PublicationInv
<1>2. UNCHANGED <<decision, deployment, form>>
  BY DEF PromoteAgent, EnterQualityGate
<1>3. PICK from \in {"DRAFT", "TEST"}, to \in {"TEST", "QUALITY_GATE"} :
        Moves(v, from, to) /\ (from = "DRAFT" => Deployable(v))
  BY DEF PromoteAgent, EnterQualityGate
<1>4. /\ AgentsOK' /\ EditsKept' /\ AgentsStay
      /\ agent'[v].state = to /\ DOMAIN agent' = DOMAIN agent
      /\ \A w \in DOMAIN agent : w # v => agent'[w] = agent[w]
  BY <1>1, <1>3, AgentMoved
<1>5. DecisionsStay
  BY <1>1, <1>2, DecisionsSame
<1>6. FormsOK'
  BY <1>2, <1>4, <1>5, FormsSame
<1>7. \A w \in DOMAIN agent' : agent'[w].state = "PRODUCTION" =>
        w \in DOMAIN agent /\ agent[w].state = "PRODUCTION"
  BY <1>4
<1> QED BY <1>2, <1>4, <1>6, <1>7, OnlyAgents

--------------------------------------------------------------------------------
\* The requests up to their commit.

\* The version that serves is one.
LEMMA ActiveIsVersion ==
  ASSUME PublicationInv
  PROVE  Active \in 0 .. Latest
<1> DEFINE last == {k \in DOMAIN deployment :
                      \A o \in DOMAIN deployment : deployment[o].stamp <= deployment[k].stamp}
           k == CHOOSE x \in last : TRUE
<1>1. Latest \in Nat /\ DOMAIN agent = 1 .. Latest
  BY AgentNumbers DEF PublicationInv
<1>2. CASE last = {}
  BY <1>1, <1>2 DEF Active
<1>3. CASE last # {}
  <2>1. k \in last
    BY <1>3
  <2>2. k \in DOMAIN deployment
    BY <2>1
  <2>3. Active = deployment[k].agent
    BY <1>3 DEF Active
  <2> HIDE DEF k
  <2>4. deployment[k].agent \in DOMAIN agent
    BY <2>2 DEF PublicationInv, DeploymentOK
  <2> QED BY <1>1, <2>3, <2>4
<1> QED BY <1>2, <1>3

\* A verdict is the last decision, and it passed.
LEMMA VerdictPassed ==
  ASSUME PublicationInv, NEW v \in DOMAIN agent, Verdict(v) # 0
  PROVE  Backed(v, Verdict(v)) /\ NotOverruled(v, Verdict(v), Len(decision))
<1> DEFINE last == {d \in About(v) : \A o \in About(v) : decision[o].stamp <= decision[d].stamp}
           passed == {d \in last : decision[d].passed}
           verdict == CHOOSE d \in passed : TRUE
<1>1. passed # {} /\ Verdict(v) = verdict
  BY DEF Verdict
<1>2. verdict \in passed
  BY <1>1
<1>3. Len(decision) \in Nat
  BY LenProperties DEF PublicationInv, IsSequence
<1> QED BY <1>1, <1>2, <1>3 DEF Backed, NotOverruled

\* A request is opened that is sound.
LEMMA FormOpened ==
  ASSUME KnowledgeInv, PublicationInv, UNCHANGED knowledgeVars,
         UNCHANGED <<agent, decision, deployment>>, NEW e \in Editors, NEW f, Submits(e, f),
         f.on \in 0 .. Latest, f.active \in 0 .. Latest,
         f # NoForm => f.on # 0,
         f.at = "publishing" => Backed(f.on, f.verdict) /\ NotOverruled(f.on, f.verdict, f.known),
         f.at = "rolling_back" => agent[f.on].state = "PRODUCTION" /\ Backed(f.on, f.verdict)
  PROVE  PublicationInv'
<1>1. AgentsOK /\ EditsKept /\ IsSequence(decision) /\ VersionsGrow
  BY KnowledgeStutter DEF PublicationInv
<1>2. AgentsOK' /\ EditsKept' /\ AgentsStay
  BY <1>1, AgentsUnchanged
<1>3. DecisionsStay
  BY <1>1, DecisionsSame
<1>4. form' = [form EXCEPT ![e] = f] /\ form'[e] = f
  BY DEF Submits, PublicationInv, FormsOK
<1>5. FormOK(e)'
  BY <1>4 DEF FormOK, Backed, NotOverruled, About, Compiled, Latest
<1>6. FormsOK'
  BY <1>2, <1>3, <1>4, <1>5, FormChanged
<1> QED BY <1>2, <1>6, OnlyAgents

\* The console's editor, the evaluation, the publication, the rollback; an error.
LEMMA RequestSteps ==
  ASSUME KnowledgeInv, PublicationInv, UNCHANGED knowledgeVars, NEW e \in Editors,
         NEW v \in DOMAIN agent, NEW code,
         \/ OpenEditor(e) \/ BeginEvaluation(e, v) \/ BeginPublish(e, v)
         \/ BeginRollback(e, v, code)
  PROVE  PublicationInv'
<1>1. /\ Latest \in Nat /\ v \in 1 .. Latest /\ Active \in 0 .. Latest
  BY AgentNumbers, ActiveIsVersion DEF PublicationInv
<1>2. UNCHANGED <<agent, decision, deployment>>
  BY DEF OpenEditor, BeginEvaluation, BeginPublish, BeginRollback
<1>3. CASE OpenEditor(e)
  <2> DEFINE f == [NoForm EXCEPT !.at = "editing", !.on = Latest]
  <2>1. Submits(e, f) /\ Latest > 0
    BY <1>3 DEF OpenEditor
  <2>2. f.at = "editing" /\ f.on = Latest /\ f.active = 0
    BY DEF NoForm
  <2> HIDE DEF f
  <2> QED BY <1>1, <1>2, <2>1, <2>2, FormOpened
<1>4. CASE BeginEvaluation(e, v)
  <2>1. PICK passed \in BOOLEAN :
          Submits(e, [NoForm EXCEPT !.at = "judging", !.on = v, !.passed = passed,
                                    !.stamp = After(decision, {"judging"})])
    BY <1>4 DEF BeginEvaluation
  <2> DEFINE f == [NoForm EXCEPT !.at = "judging", !.on = v, !.passed = passed,
                                !.stamp = After(decision, {"judging"})]
  <2>2. f.at = "judging" /\ f.on = v /\ f.active = 0
    BY DEF NoForm
  <2>3. Submits(e, f)
    BY <2>1
  <2> HIDE DEF f
  <2> QED BY <1>1, <1>2, <2>2, <2>3, FormOpened
<1>5. CASE BeginPublish(e, v)
  <2> DEFINE f == [NoForm EXCEPT !.at = "publishing", !.on = v,
                     !.stamp = After(deployment, Deploying), !.verdict = Verdict(v),
                     !.known = Len(decision), !.active = Active]
  <2>1. Submits(e, f) /\ Verdict(v) # 0
    BY <1>5 DEF BeginPublish
  <2>2. /\ f.at = "publishing" /\ f.on = v /\ f.active = Active /\ f.verdict = Verdict(v)
        /\ f.known = Len(decision)
    BY DEF NoForm
  <2>3. Backed(v, Verdict(v)) /\ NotOverruled(v, Verdict(v), Len(decision))
    BY <2>1, VerdictPassed
  <2> HIDE DEF f
  <2>4. Backed(f.on, f.verdict) /\ NotOverruled(f.on, f.verdict, f.known)
    BY <2>2, <2>3
  <2> QED BY <1>1, <1>2, <2>1, <2>2, <2>4, FormOpened
<1>6. CASE BeginRollback(e, v, code)
  <2>1. PICK k \in Original(v) :
          Submits(e, [NoForm EXCEPT !.at = "rolling_back", !.on = v,
                                    !.stamp = After(deployment, Deploying),
                                    !.verdict = deployment[k].verdict, !.active = Active])
    BY <1>6 DEF BeginRollback
  <2> DEFINE f == [NoForm EXCEPT !.at = "rolling_back", !.on = v,
                     !.stamp = After(deployment, Deploying),
                     !.verdict = deployment[k].verdict, !.active = Active]
  <2>2. Submits(e, f)
    BY <2>1
  <2>3. /\ f.at = "rolling_back" /\ f.on = v /\ f.active = Active
        /\ f.verdict = deployment[k].verdict
    BY DEF NoForm
  <2>4. k \in DOMAIN deployment /\ deployment[k].agent = v
    BY DEF Original
  <2>5. Backed(v, deployment[k].verdict) /\ agent[v].state = "PRODUCTION"
    BY <1>6, <2>4 DEF PublicationInv, DeploymentOK, BeginRollback
  <2> HIDE DEF f
  <2>6. Backed(f.on, f.verdict) /\ agent[f.on].state = "PRODUCTION"
    BY <2>3, <2>5
  <2> QED BY <1>1, <1>2, <2>2, <2>3, <2>6, FormOpened
<1> QED BY <1>3, <1>4, <1>5, <1>6

\* An error takes everything back.
LEMMA RefuseStep ==
  ASSUME KnowledgeInv, PublicationInv, UNCHANGED knowledgeVars, NEW e \in Editors, Refuse(e)
  PROVE  PublicationInv'
<1>1. UNCHANGED <<agent, decision, deployment>> /\ Submits(e, NoForm)
  BY DEF Refuse, Answers, Submits
<1>2. Latest \in Nat
  BY AgentNumbers DEF PublicationInv
<1>3. NoForm.on = 0 /\ NoForm.active = 0 /\ NoForm.at = "idle"
  BY DEF NoForm
<1> QED BY <1>1, <1>2, <1>3, FormOpened

--------------------------------------------------------------------------------
\* The commits.

\* A decision is added.
LEMMA EvaluationStep ==
  ASSUME KnowledgeInv, PublicationInv, UNCHANGED knowledgeVars, NEW e \in Editors,
         CommitEvaluation(e)
  PROVE  PublicationInv'
<1>1. /\ AgentsOK /\ EditsKept /\ IsSequence(decision) /\ VersionsGrow /\ FormOK(e)
      /\ \A d \in DOMAIN decision : decision[d].agent \in DOMAIN agent
  BY KnowledgeStutter DEF PublicationInv, FormsOK
<1>2. /\ form[e].at = "judging" /\ Answers(e) /\ UNCHANGED <<agent, deployment>>
  BY DEF CommitEvaluation
<1>3. AgentsOK' /\ EditsKept' /\ AgentsStay
  BY <1>1, <1>2, AgentsUnchanged
<1> DEFINE row == [agent |-> Compiled(form[e].on), digest |-> agent[form[e].on].digest,
                   code |-> agent[form[e].on].code,
                   passed |-> form[e].passed, stamp |-> form[e].stamp]
<1>4. decision' = Append(decision, row)
  BY DEF CommitEvaluation
<1>5. row.agent \in DOMAIN agent
  BY <1>1, <1>2, AgentNumbers DEF FormOK, NoForm, Compiled
<1> HIDE DEF row
<1>6. /\ IsSequence(decision') /\ Len(decision) \in Nat /\ Len(decision') = Len(decision) + 1
      /\ DOMAIN decision = 1 .. Len(decision) /\ DOMAIN decision' = 1 .. Len(decision) + 1
      /\ decision'[Len(decision) + 1] = row
      /\ \A k \in DOMAIN decision : decision'[k] = decision[k]
  <2>1. Grown(decision, row, decision')
    BY <1>1, <1>4, RowAdded, Zenon
  <2> QED BY <2>1 DEF Grown
<1>7. DecisionsStay
  BY <1>6 DEF DecisionsStay
<1>8. ASSUME NEW d \in DOMAIN decision' PROVE decision'[d].agent \in DOMAIN agent'
  <2>1. CASE d = Len(decision) + 1
    BY <1>2, <1>5, <1>6, <2>1
  <2>2. CASE d # Len(decision) + 1
    BY <1>1, <1>2, <1>6, <2>2
  <2> QED BY <2>1, <2>2
<1>9. FormsOK'
  BY <1>2, <1>3, <1>7, FormAnswered
<1>10. /\ IsSequence(deployment)' /\ (\A k \in DOMAIN deployment : DeploymentOK(k))'
       /\ PublishedOnce'
  BY <1>2, <1>3, <1>7, DeploymentsStay
<1>11. IsSequence(decision)'
  BY <1>6 DEF IsSequence
<1> QED BY <1>3, <1>8, <1>9, <1>10, <1>11 DEF PublicationInv

\* A deployment is added: of a version that is in Production now, on the decision and
\* with the knowledge of decisions that its request had.
LEMMA DeploymentAdded ==
  ASSUME PublicationInv, AgentsStay, DecisionsStay,
         NEW v \in DOMAIN agent, agent'[v].state = "PRODUCTION",
         NEW action, NEW replaced \in 0 .. Latest, NEW d, NEW known, NEW stamp, Backed(v, d),
         action = "PUBLISH" => NotOverruled(v, d, known),
         deployment' = Append(deployment,
           [agent |-> v, action |-> action, replaced |-> replaced, verdict |-> d,
            known |-> known, stamp |-> stamp])
  PROVE  /\ IsSequence(deployment)' /\ (\A k \in DOMAIN deployment : DeploymentOK(k))'
         /\ Len(deployment) \in Nat /\ DOMAIN deployment = 1 .. Len(deployment)
         /\ DOMAIN deployment' = 1 .. Len(deployment) + 1
         /\ deployment'[Len(deployment) + 1].agent = v
         /\ deployment'[Len(deployment) + 1].action = action
         /\ \A k \in DOMAIN deployment : deployment'[k] = deployment[k]
<1> DEFINE row == [agent |-> v, action |-> action, replaced |-> replaced, verdict |-> d,
                   known |-> known, stamp |-> stamp]
<1>1. /\ row.agent = v /\ row.action = action /\ row.replaced = replaced /\ row.verdict = d
      /\ row.known = known
  OBVIOUS
<1>2. deployment' = Append(deployment, row) /\ IsSequence(deployment)
  BY DEF PublicationInv
<1> HIDE DEF row
<1>3. /\ IsSequence(deployment') /\ Len(deployment) \in Nat
      /\ DOMAIN deployment = 1 .. Len(deployment)
      /\ DOMAIN deployment' = 1 .. Len(deployment) + 1
      /\ deployment'[Len(deployment) + 1] = row
      /\ \A k \in DOMAIN deployment : deployment'[k] = deployment[k]
  <2>1. Grown(deployment, row, deployment')
    BY <1>2, RowAdded, Zenon
  <2> QED BY <2>1 DEF Grown
<1>4. ASSUME NEW k \in DOMAIN deployment' PROVE DeploymentOK(k)'
  <2>1. CASE k = Len(deployment) + 1
    <3>1. deployment'[k] = row
      BY <1>3, <2>1
    <3>2. /\ v \in DOMAIN agent' /\ replaced \in 0 .. Latest'
      BY DEF AgentsStay
    <3>3. Backed(v, d)' /\ (action = "PUBLISH" => NotOverruled(v, d, known)')
      BY BackedStays, OverruledStays
    <3>4. /\ deployment'[k].agent = v /\ deployment'[k].verdict = d
          /\ deployment'[k].known = known /\ deployment'[k].action = action
      BY <1>1, <3>1
    <3>5. Backed(deployment[k].agent, deployment[k].verdict)'
      BY <3>3, <3>4 DEF Backed, About, Compiled
    <3>6. (deployment[k].action = "PUBLISH" =>
            NotOverruled(deployment[k].agent, deployment[k].verdict, deployment[k].known))'
      BY <3>3, <3>4 DEF NotOverruled, About, Compiled
    <3> QED BY <1>1, <3>1, <3>2, <3>4, <3>5, <3>6 DEF DeploymentOK
  <2>2. CASE k # Len(deployment) + 1
    <3>1. k \in DOMAIN deployment /\ deployment'[k] = deployment[k]
      BY <1>3, <2>2
    <3> QED BY <3>1, DeploymentStays
  <2> QED BY <2>1, <2>2
<1>5. IsSequence(deployment)'
  BY <1>3 DEF IsSequence
<1> QED BY <1>1, <1>3, <1>4, <1>5

\* A version is published: it leaves the quality gate for good, so it was not before.
LEMMA PublishStep ==
  ASSUME KnowledgeInv, PublicationInv, UNCHANGED knowledgeVars, NEW e \in Editors,
         CommitPublish(e)
  PROVE  PublicationInv'
<1>1. /\ AgentsOK /\ EditsKept /\ IsSequence(decision) /\ VersionsGrow /\ FormOK(e)
      /\ PublishedOnce /\ \A k \in DOMAIN deployment : DeploymentOK(k)
  BY KnowledgeStutter DEF PublicationInv, FormsOK
<1>2. form[e].at = "publishing" /\ Answers(e) /\ decision' = decision
  BY DEF CommitPublish, Deploys
<1>3. PICK v \in DOMAIN agent, d \in {form[e].verdict}, known \in {form[e].known},
           stamp \in {form[e].stamp} : v = form[e].on
  BY <1>1, <1>2, AgentNumbers DEF FormOK, NoForm
<1>4. Backed(v, d) /\ NotOverruled(v, d, known) /\ form[e].active \in 0 .. Latest
  BY <1>1, <1>2, <1>3 DEF FormOK
<1>5. PICK replaced \in {form[e].active, Active} :
        deployment' = Append(deployment,
          [agent |-> v, action |-> "PUBLISH", replaced |-> replaced, verdict |-> d,
           known |-> known, stamp |-> stamp])
  BY <1>3 DEF CommitPublish, Deploys
<1>6. replaced \in 0 .. Latest
  BY <1>4, ActiveIsVersion
<1>7. Moves(v, "QUALITY_GATE", "PRODUCTION")
  BY <1>3 DEF CommitPublish
<1>8. /\ AgentsOK' /\ EditsKept' /\ AgentsStay
      /\ agent[v].state = "QUALITY_GATE" /\ agent'[v].state = "PRODUCTION"
      /\ DOMAIN agent' = DOMAIN agent /\ \A w \in DOMAIN agent : w # v => agent'[w] = agent[w]
  BY <1>1, <1>7, AgentMoved
<1>9. DecisionsStay
  BY <1>1, <1>2, DecisionsSame
<1> DEFINE n == Len(deployment) + 1
<1>10. /\ IsSequence(deployment)' /\ (\A k \in DOMAIN deployment : DeploymentOK(k))'
       /\ Len(deployment) \in Nat /\ DOMAIN deployment = 1 .. Len(deployment)
       /\ DOMAIN deployment' = 1 .. n
       /\ deployment'[n].agent = v /\ deployment'[n].action = "PUBLISH"
       /\ \A k \in DOMAIN deployment : deployment'[k] = deployment[k]
  BY <1>4, <1>5, <1>6, <1>8, <1>9, DeploymentAdded
<1>11. n \in DOMAIN deployment' /\ \A k \in DOMAIN deployment' : k = n \/ k \in DOMAIN deployment
  BY <1>10
<1>12. \A k \in DOMAIN deployment : deployment[k].agent # v
  BY <1>1, <1>8 DEF DeploymentOK
<1> HIDE DEF n
<1>13. \A k, l \in DOMAIN deployment' :
         /\ deployment'[k].action = "PUBLISH" /\ deployment'[l].action = "PUBLISH"
         /\ deployment'[k].agent = deployment'[l].agent
         => k = l
  BY <1>1, <1>10, <1>11, <1>12 DEF PublishedOnce
<1>14. ASSUME NEW w \in DOMAIN agent', agent'[w].state = "PRODUCTION"
       PROVE  \E k \in DOMAIN deployment' :
                deployment'[k].agent = w /\ deployment'[k].action = "PUBLISH"
  <2>1. CASE w = v
    BY <1>10, <1>11, <2>1
  <2>2. CASE w # v
    <3>1. Original(w) # {}
      BY <1>1, <1>8, <1>14, <2>2 DEF PublishedOnce
    <3>2. PICK k \in DOMAIN deployment :
            deployment[k].agent = w /\ deployment[k].action = "PUBLISH"
      BY <3>1 DEF Original
    <3>3. k \in DOMAIN deployment' /\ deployment'[k] = deployment[k]
      BY <1>10, <3>2 DEF n
    <3> QED BY <3>2, <3>3
  <2> QED BY <2>1, <2>2
<1>15. PublishedOnce'
  BY <1>13, <1>14 DEF PublishedOnce, Original
<1>16. FormsOK'
  BY <1>2, <1>8, <1>9, FormAnswered
<1>17. IsSequence(decision)' /\ \A k \in DOMAIN decision' : decision'[k].agent \in DOMAIN agent'
  BY <1>2, <1>8 DEF PublicationInv, IsSequence
<1> QED BY <1>8, <1>10, <1>15, <1>16, <1>17 DEF PublicationInv

\* A version that was published is deployed again.
LEMMA RollbackStep ==
  ASSUME KnowledgeInv, PublicationInv, UNCHANGED knowledgeVars, NEW e \in Editors,
         CommitRollback(e)
  PROVE  PublicationInv'
<1>1. /\ AgentsOK /\ EditsKept /\ IsSequence(decision) /\ VersionsGrow /\ FormOK(e)
      /\ PublishedOnce
  BY KnowledgeStutter DEF PublicationInv, FormsOK
<1>2. form[e].at = "rolling_back" /\ Answers(e) /\ UNCHANGED <<agent, decision>>
  BY DEF CommitRollback, Deploys
<1>3. PICK v \in DOMAIN agent, d \in {form[e].verdict}, known \in {form[e].known},
           stamp \in {form[e].stamp} : v = form[e].on
  BY <1>1, <1>2, AgentNumbers DEF FormOK, NoForm
<1>4. Backed(v, d) /\ agent[v].state = "PRODUCTION" /\ form[e].active \in 0 .. Latest
  BY <1>1, <1>2, <1>3 DEF FormOK
<1>5. PICK replaced \in {form[e].active, Active} :
        deployment' = Append(deployment,
          [agent |-> v, action |-> "ROLLBACK", replaced |-> replaced, verdict |-> d,
           known |-> known, stamp |-> stamp])
  BY <1>3 DEF CommitRollback, Deploys
<1>6. replaced \in 0 .. Latest
  BY <1>4, ActiveIsVersion
<1>7. AgentsOK' /\ EditsKept' /\ AgentsStay
  BY <1>1, <1>2, AgentsUnchanged
<1>8. DecisionsStay
  BY <1>1, <1>2, DecisionsSame
<1> DEFINE n == Len(deployment) + 1
<1>9. agent'[v].state = "PRODUCTION"
  BY <1>2, <1>4
<1>10. /\ IsSequence(deployment)' /\ (\A k \in DOMAIN deployment : DeploymentOK(k))'
       /\ Len(deployment) \in Nat /\ DOMAIN deployment = 1 .. Len(deployment)
       /\ DOMAIN deployment' = 1 .. n
       /\ deployment'[n].agent = v /\ deployment'[n].action = "ROLLBACK"
       /\ \A k \in DOMAIN deployment : deployment'[k] = deployment[k]
  BY <1>4, <1>5, <1>6, <1>7, <1>8, <1>9, DeploymentAdded
<1>11. /\ \A k \in DOMAIN deployment' : k = n \/ k \in DOMAIN deployment
       /\ DOMAIN deployment \subseteq DOMAIN deployment'
  BY <1>10
<1> HIDE DEF n
<1>12. PublishedOnce'
  <2>1. \A k \in DOMAIN deployment' : deployment'[k].action = "PUBLISH" =>
          k \in DOMAIN deployment /\ deployment'[k] = deployment[k]
    BY <1>10, <1>11
  <2>2. ASSUME NEW w \in DOMAIN agent', agent'[w].state = "PRODUCTION"
        PROVE  \E k \in DOMAIN deployment' :
                 deployment'[k].agent = w /\ deployment'[k].action = "PUBLISH"
    <3>1. PICK k \in DOMAIN deployment :
            deployment[k].agent = w /\ deployment[k].action = "PUBLISH"
      BY <1>1, <1>2, <2>2 DEF PublishedOnce, Original
    <3> QED BY <1>10, <1>11, <3>1
  <2> QED BY <1>1, <2>1, <2>2 DEF PublishedOnce, Original
<1>13. FormsOK'
  BY <1>2, <1>7, <1>8, FormAnswered
<1>14. IsSequence(decision)' /\ \A k \in DOMAIN decision' : decision'[k].agent \in DOMAIN agent'
  BY <1>2 DEF PublicationInv, IsSequence
<1> QED BY <1>7, <1>10, <1>12, <1>13, <1>14 DEF PublicationInv

--------------------------------------------------------------------------------
\* The theorems.

\* What an administrator of the agent does.
LEMMA PublicationStep ==
  ASSUME KnowledgeInv, PublicationInv, UNCHANGED knowledgeVars, PublicationNext
  PROVE  PublicationInv'
<1>1. CASE \/ CreateCustomerServiceDraft
           \/ \E n \in DOMAIN version, code \in Builds : CreateInstance(n, code)
           \/ \E base \in DOMAIN agent, n \in {0} \cup DOMAIN version, code \in Builds :
                CreateDraft(base, n, code)
  BY <1>1, ApiSteps
<1>2. ASSUME NEW e \in Editors, OpenEditor(e) PROVE PublicationInv'
  <2>1. Latest \in DOMAIN agent
    BY <1>2, AgentNumbers DEF OpenEditor, PublicationInv
  <2> QED BY <1>2, <2>1, RequestSteps
<1>3. CASE \E e \in Editors : SaveEdit(e)
  BY <1>3, SaveStep
<1>4. CASE \E v \in DOMAIN agent : PromoteAgent(v) \/ EnterQualityGate(v)
  BY <1>4, MoveSteps
<1>5. CASE \E e \in Editors, v \in DOMAIN agent : BeginEvaluation(e, v) \/ BeginPublish(e, v)
  BY <1>5, RequestSteps
<1>6. CASE \E e \in Editors, v \in DOMAIN agent, code \in Builds : BeginRollback(e, v, code)
  BY <1>6, RequestSteps
<1>7. CASE \E e \in Editors : CommitEvaluation(e)
  BY <1>7, EvaluationStep
<1>8. CASE \E e \in Editors : CommitPublish(e)
  BY <1>8, PublishStep
<1>9. CASE \E e \in Editors : CommitRollback(e)
  BY <1>9, RollbackStep
<1>10. CASE \E e \in Editors : Refuse(e)
  BY <1>10, RefuseStep
<1> QED BY <1>1, <1>2, <1>3, <1>4, <1>5, <1>6, <1>7, <1>8, <1>9, <1>10 DEF PublicationNext

\* What leaves the agent alone, whatever becomes of the knowledge.
LEMMA AgentAlone ==
  ASSUME PublicationInv, VersionsGrow, UNCHANGED publicationVars
  PROVE  PublicationInv'
<1>1. UNCHANGED <<agent, decision, deployment, form>>
  BY DEF publicationVars
<1>2. AgentsOK' /\ EditsKept' /\ AgentsStay
  BY <1>1, AgentsUnchanged DEF PublicationInv
<1>3. DecisionsStay
  BY <1>1, DecisionsSame DEF PublicationInv
<1>4. FormsOK'
  BY <1>1, <1>2, <1>3, FormsSame
<1> QED BY <1>1, <1>2, <1>4, OnlyAgents

\* A refused publication of the knowledge changes only what was refused.
LEMMA RefusedStep ==
  ASSUME KnowledgeInv, NEW n \in DOMAIN version, PublishKnowledge(n)
  PROVE  KnowledgeInv' /\ VersionsGrow
<1>1. /\ refused' = refused \cup {n}
      /\ UNCHANGED <<ingestion, proposal, sourceVersions, draftOf, artifact, version, embedding,
                     chunk, desk>>
  BY DEF PublishKnowledge
<1>2. n \in Numbers
  BY VersionRow, KnowledgeConstants DEF KnowledgeInv, VersionsOK, Numbers
<1>3. VersionsOK' /\ VersionsGrow
  BY <1>1, VersionsSame DEF KnowledgeInv
<1>4. TablesOK'
  BY <1>1, <1>2 DEF KnowledgeInv, TablesOK
<1>5. DesksOK'
  BY <1>1 DEF KnowledgeInv, DesksOK, DeskOK
<1> QED BY <1>1, <1>3, <1>4, <1>5, QuietStep

\* A step of the knowledge or of the agent keeps both.
LEMMA ReleaseStep ==
  ASSUME KnowledgeInv, PublicationInv, [ReleaseNext]_<<knowledgeVars, publicationVars>>
  PROVE  KnowledgeInv' /\ PublicationInv'
<1>1. CASE PublicationNext /\ UNCHANGED knowledgeVars
  BY <1>1, PublicationStep, KnowledgeStutter
<1>2. CASE KnowledgeNext /\ UNCHANGED publicationVars
  BY <1>2, KnowledgeStep, AgentAlone
<1>3. CASE \E n \in DOMAIN version : PublishKnowledge(n) /\ UNCHANGED publicationVars
  BY <1>3, RefusedStep, AgentAlone
<1>4. CASE UNCHANGED <<knowledgeVars, publicationVars>>
  BY <1>4, KnowledgeStutter, AgentAlone
<1> QED BY <1>1, <1>2, <1>3, <1>4 DEF ReleaseNext

\* Between any two transactions, of the knowledge or of the agent: what a version
\* past Draft names is in Test with the digest it names, a request to publish holds a
\* decision nothing known then overruled, and a version enters Production once.
THEOREM PublicationInvariant == ReleaseSpec => [](KnowledgeInv /\ PublicationInv)
<1>1. KnowledgeInit /\ PublicationInit => KnowledgeInv /\ PublicationInv
  BY KnowledgeStart, PublicationStart
<1>2. KnowledgeInv /\ PublicationInv /\ [ReleaseNext]_<<knowledgeVars, publicationVars>> =>
        KnowledgeInv' /\ PublicationInv'
  BY ReleaseStep
<1> QED BY <1>1, <1>2, PTL DEF ReleaseSpec

\* No edit that was saved in the console is missing from one that was saved later,
\* unless a draft of the API came between: create_draft_from_latest asks again.
THEOREM EditsKeptHolds == ReleaseSpec => []EditsKept
<1>1. PublicationInv => EditsKept
  BY DEF PublicationInv
<1> QED BY <1>1, PublicationInvariant, PTL

\* What serves was published once, on a decision that passed and was not overruled.
LEMMA ServedFollows == PublicationInv => ServedIsGated
<1> SUFFICES ASSUME PublicationInv, NEW k \in DOMAIN deployment
             PROVE  LET v == deployment[k].agent
                        d == deployment[k].verdict
                    IN
                    /\ agent[v].state = "PRODUCTION"
                    /\ Deployable(v)
                    /\ d \in About(v) /\ decision[d].passed
                    /\ Cardinality(Original(v)) = 1
                    /\ deployment[k].action = "PUBLISH" =>
                         \A o \in About(v) :
                           o <= deployment[k].known => decision[o].stamp <= decision[d].stamp
  BY DEF ServedIsGated
<1> DEFINE v == deployment[k].agent
<1>1. DeploymentOK(k)
  BY DEF PublicationInv
<1>2. v \in DOMAIN agent /\ agent[v].state = "PRODUCTION"
  BY <1>1 DEF DeploymentOK
<1>3. Deployable(v)
  BY <1>2 DEF PublicationInv, AgentsOK, AgentOK
<1>4. Cardinality(Original(v)) = 1
  <2>1. PICK l \in Original(v) : TRUE
    BY <1>2 DEF PublicationInv, PublishedOnce
  <2>2. Original(v) = {l}
    BY <2>1 DEF PublicationInv, PublishedOnce, Original
  <2> QED BY <2>2, FS_Singleton
<1> QED BY <1>1, <1>2, <1>3, <1>4 DEF DeploymentOK, Backed, NotOverruled

\* One of the twelve steps that are open is the first.
LEMMA FirstOpen ==
  ASSUME NEW open \in SUBSET (1 .. 12), open # {}
  PROVE  \E k \in open : \A j \in open : k <= j
<1> SUFFICES ASSUME \A k \in open : \E j \in open : j < k PROVE FALSE
  OBVIOUS
<1>1. 1 \notin open /\ 2 \notin open /\ 3 \notin open /\ 4 \notin open
  OBVIOUS
<1>2. 5 \notin open /\ 6 \notin open /\ 7 \notin open /\ 8 \notin open
  BY <1>1
<1>3. 9 \notin open /\ 10 \notin open /\ 11 \notin open /\ 12 \notin open
  BY <1>1, <1>2
<1>4. ASSUME NEW k \in 1 .. 12 PROVE k \notin open
  <2>1. k \in {1, 2, 3, 4, 5, 6, 7, 8, 9, 10, 11, 12}
    OBVIOUS
  <2> QED BY <1>1, <1>2, <1>3, <2>1
<1> QED BY <1>4

\* What the console shows.
LEMMA ConsoleFollows == PublicationInv => ConsoleTruthful
<1> SUFFICES ASSUME PublicationInv, NEW settled \in {Settings, Settings \ {"no_connector"}}
             PROVE  LET status == [k \in DOMAIN Steps |-> Status(k, settled)] IN
                    /\ status[CurrentStep(status)] # "BLOCKED"
                    /\ status[10] = "STALE" => agent[Latest].state = "DRAFT" /\ Latest > 1
                    /\ status[12] = "COMPLETE" =>
                         Original(Latest) # {} /\ Deployable(Latest) /\ Passed
  BY DEF ConsoleTruthful
<1> DEFINE status == [k \in DOMAIN Steps |-> Status(k, settled)]
           Unready(k) == \E j \in 1 .. k - 1 : ~Met(Steps[j], settled)
<1>1. /\ DOMAIN Steps = 1 .. 12 /\ Len(Steps) = 12
      /\ Steps[2] = "agent" /\ Steps[10] = "test" /\ Steps[11] = "quality"
      /\ Steps[12] = "production"
  BY DEF Steps
<1>2. \A step : Unmet(step) \in {"ATTENTION", "STALE", "READY"}
  BY DEF Unmet
<1>3. \A k \in 1 .. 12 :
        /\ status[k] = "BLOCKED" <=> Unready(k)
        /\ status[k] = "COMPLETE" <=> ~Unready(k) /\ Met(Steps[k], settled)
        /\ status[k] = "STALE" =>
             ~Unready(k) /\ ~Met(Steps[k], settled) /\ Unmet(Steps[k]) = "STALE"
  BY <1>1, <1>2 DEF Status
<1>4. Latest \in Nat /\ DOMAIN agent = 1 .. Latest
  BY AgentNumbers DEF PublicationInv
<1>5. status[CurrentStep(status)] # "BLOCKED"
  <2> DEFINE open == {k \in DOMAIN Steps : status[k] # "COMPLETE"}
             first == CHOOSE k \in open : \A j \in open : k <= j
  <2>1. CASE open = {}
    <3> HIDE DEF status
    <3>1. \A k \in 1 .. 12 : status[k] = "COMPLETE"
      BY <1>1, <2>1
    <3>2. CurrentStep(status) = 12
      BY <1>1, <2>1 DEF CurrentStep
    <3> QED BY <3>1, <3>2
  <2>2. CASE open # {}
    <3>1. open \in SUBSET (1 .. 12)
      BY <1>1
    <3>2. \E k \in open : \A j \in open : k <= j
      BY <2>2, <3>1, FirstOpen
    <3>3. first \in open /\ \A j \in open : first <= j
      BY <3>2
    <3>4. CurrentStep(status) = first
      BY <2>2 DEF CurrentStep
    <3> HIDE DEF first, status
    <3>5. first \in 1 .. 12 /\ \A j \in 1 .. 12 : j < first => status[j] = "COMPLETE"
      BY <1>1, <3>1, <3>3
    <3>6. \A j \in 1 .. first - 1 : Met(Steps[j], settled)
      BY <1>3, <3>5
    <3> QED BY <1>3, <3>4, <3>5, <3>6
  <2> QED BY <2>1, <2>2
<1> HIDE DEF status
<1>6. ASSUME status[10] = "STALE" PROVE agent[Latest].state = "DRAFT" /\ Latest > 1
  <2>1. /\ ~Met("test", settled) /\ Unmet("test") = "STALE" /\ Met("agent", settled)
    BY <1>1, <1>3, <1>6
  <2>2. agent[Latest].state = "DRAFT" /\ Tested /\ Latest > 0
    BY <2>1 DEF Met, Unmet
  <2>3. PICK v \in DOMAIN agent : agent[v].state # "DRAFT"
    BY <2>2 DEF Tested
  <2> QED BY <1>4, <2>2, <2>3
<1>7. ASSUME status[12] = "COMPLETE"
      PROVE  Original(Latest) # {} /\ Deployable(Latest) /\ Passed
  <2>1. /\ Met("production", settled) /\ Met("quality", settled) /\ Met("agent", settled)
    BY <1>1, <1>3, <1>7
  <2>2. agent[Latest].state = "PRODUCTION" /\ Passed /\ Latest > 0
    BY <2>1 DEF Met
  <2>3. Latest \in DOMAIN agent
    BY <1>4, <2>2
  <2> QED BY <2>2, <2>3 DEF PublicationInv, PublishedOnce, AgentsOK, AgentOK
<1> QED BY <1>5, <1>6, <1>7 DEF status

\* What serves was judged for exactly what it is made of, and the console says so.
THEOREM ReleasesSafeHolds == ReleaseSpec => []ReleasesSafe
<1>1. PublicationInv => ReleasesSafe
  BY ServedFollows, ConsoleFollows DEF ReleasesSafe
<1> QED BY <1>1, PublicationInvariant, PTL

\* The shape of the tables follows.
LEMMA PublicationTypes == PublicationInv => PublicationTypeOK
<1> SUFFICES ASSUME PublicationInv PROVE PublicationTypeOK
  OBVIOUS
<1>1. \A v \in DOMAIN agent :
        /\ agent[v].state \in {"DRAFT", "TEST", "QUALITY_GATE", "PRODUCTION"}
        /\ agent[v].knowledge \in 0 .. MaxVersions
        /\ agent[v].code \in Builds \cup {NoBuild}
        /\ agent[v].edits \subseteq 1 .. v
        /\ agent[v].by \in {"api", "console"}
  <2>1. \A v \in DOMAIN agent : agent[v] \in AgentRows /\ agent[v].edits \subseteq 1 .. v
    BY AgentNumbers DEF PublicationInv, AgentsOK, AgentOK
  <2> QED BY <2>1 DEF AgentRows
<1>2. \A k \in DOMAIN deployment :
        /\ deployment[k].agent \in DOMAIN agent
        /\ deployment[k].replaced \in 0 .. Latest
        /\ deployment[k].verdict \in DOMAIN decision
  BY DEF PublicationInv, DeploymentOK, Backed, About
<1>3. \A e \in Editors : form[e].on \in 0 .. Latest
  BY DEF PublicationInv, FormsOK, FormOK
<1> QED BY <1>1, <1>2, <1>3 DEF PublicationInv, AgentsOK, PublicationTypeOK

--------------------------------------------------------------------------------
\* The parts side by side: MCSpec => []PlatformTypesOK.

\* Everything that is true of them between two transactions.
PlatformInv ==
  /\ KnowledgeInv /\ PublicationInv /\ ConnectionInv /\ MeteringInv
  /\ AccountsInv /\ MediaInv /\ ReviewInv

\* Knowledge that was made by hand is as sound as knowledge that was ingested.
LEMMA HandMade == ByHand => KnowledgeInv
<1> SUFFICES ASSUME ByHand PROVE KnowledgeInv
  OBVIOUS
<1> USE KnowledgeConstants, HandMadeAssumption DEF ByHand
<1>0. NoIngestion \in IngestionRows /\ IngestionOK(NoIngestion)
  BY DEF IngestionRows, IngestionOK, NoIngestion
<1>1. IngestionsOK
  BY <1>0 DEF IngestionsOK
<1>2. ProposalsOK
  BY DEF ProposalsOK, ProposalRows, Unproposed
<1>3. /\ x1 \in Artifacts /\ x1 \in ToEmbed /\ 1 \in Numbers
      /\ \A p \in Parts : p # x1
  BY DEF Artifacts, ToEmbed, Numbers
<1>4. Len(version) = 1 /\ DOMAIN version = {1} /\ version[1].digest = {}
      /\ version[1].state = "DRAFT"
  OBVIOUS
<1>5. VersionsOK
  <2>1. version \in Seq(VersionRows)
    BY <1>3 DEF VersionRows
  <2> QED BY <1>4, <2>1 DEF VersionsOK, Draft
<1>6. TablesOK
  <2>1. NoJob \in EmbeddingRows /\ [NoJob EXCEPT !.job = "done"] \in EmbeddingRows
    BY DEF EmbeddingRows, NoJob
  <2>2. embedding \in [Numbers -> EmbeddingRows]
    BY <2>1
  <2>3. chunk \subseteq Numbers \X ToEmbed \X Pieces
    BY <1>3
  <2>4. sourceVersions \in Seq(Contents)
    OBVIOUS
  <2> QED BY <1>4, <2>2, <2>3, <2>4 DEF TablesOK
<1>7. DesksOK
  BY <1>4 DEF DesksOK, DeskOK, DeskRows, AtDesk
<1>8. ReviewConclusive
  BY <1>3 DEF ReviewConclusive, Unproposed, Artifacts
<1> QED BY <1>1, <1>2, <1>5, <1>6, <1>7, <1>8 DEF KnowledgeInv

\* A step of one part leaves the parts alone that share nothing with it.
LEMMA PartsApart ==
  ASSUME [MCNext]_MCvars
  PROVE  /\ [ConnectionsNext]_connectionVars
         /\ [MeteringNext]_meteringVars
         /\ [AccountsNext]_accountVars
         /\ [MediaNext]_mediaVars
         /\ [LinkNext]_linkVars
<1>1. CASE ReviewNext \/ VersionsNext \/ EditsNext \/ ReleasesNext \/ UNCHANGED MCvars
  BY <1>1 DEF ReviewNext, VersionsNext, EditsNext, ReleasesNext, MCvars, channelVars
<1>2. CASE ConnectedNext \/ RunsNext \/ HoursNext
  BY <1>2 DEF ConnectedNext, RunsNext, HoursNext, channelVars
<1>3. CASE NumbersNext \/ MediaHandledNext \/ LinksNext
  BY <1>3 DEF NumbersNext, MediaHandledNext, LinksNext
<1> QED BY <1>1, <1>2, <1>3 DEF MCNext

\* Of the knowledge and the agent, which are read together, one changes at a time.
LEMMA PartsTogether ==
  ASSUME [MCNext]_MCvars
  PROVE  [ReleaseNext]_<<knowledgeVars, publicationVars>>
<1>1. CASE ReviewNext \/ VersionsNext \/ EditsNext
  BY <1>1 DEF ReviewNext, VersionsNext, EditsNext, ReleaseNext
<1>2. CASE ReleasesNext
  <2>1. Promotion => KnowledgeNext
    BY DEF Promotion, KnowledgeNext
  <2> QED BY <1>2, <2>1 DEF ReleasesNext, ReleaseNext
<1>3. CASE \/ ConnectedNext \/ RunsNext \/ HoursNext \/ NumbersNext \/ MediaHandledNext
           \/ LinksNext \/ UNCHANGED MCvars
  BY <1>3 DEF ConnectedNext, RunsNext, HoursNext, NumbersNext, MediaHandledNext, LinksNext, MCvars
<1> QED BY <1>1, <1>2, <1>3 DEF MCNext

\* The composition keeps the inductive invariant of every part, whichever part a
\* behaviour begins with.
THEOREM PlatformInvariant == MCSpec => []PlatformInv
<1>1. MCInit => PlatformInv
  BY HandMade, KnowledgeStart, PublicationStart, ConnectionStart, MeteringStart,
     AccountsInitEstablishes, MediaInitEstablishes, ReviewInit
     DEF MCInit, PlatformInv
<1>2. PlatformInv /\ [MCNext]_MCvars => PlatformInv'
  BY PartsApart, PartsTogether, ReleaseStep, ConnectionStep, MeteringStep, AccountsStep,
     MediaStep, ReviewStep
     DEF PlatformInv
<1> QED BY <1>1, <1>2, PTL DEF MCSpec

\* The rows of a number, of a media object and of a review link have the shape that
\* their invariants give them.
LEMMA ChannelTypes ==
  /\ AccountsInv => AccountsTypeOK
  /\ MediaInv => MediaTypeOK
  /\ ReviewInv => LinkTypeOK
<1>1. ASSUME AccountsInv PROVE AccountsTypeOK
  <2>1. /\ account \in AccountRows /\ tokens \subseteq Signups /\ honoured \subseteq Signups
        /\ \A a \in Staff : errand[a] \in Errands
    BY <1>1 DEF AccountsInv, AccountsShape
  <2>2. \A a \in Staff : errand[a].signup \in {0} \cup Signups
    BY <2>1 DEF Errands
  <2> QED BY <2>1, <2>2 DEF AccountsTypeOK, AccountRows
<1>2. ASSUME MediaInv PROVE MediaTypeOK
  BY <1>2 DEF MediaInv, MediaShape, EvidenceRows, HandlerStates, MediaTypeOK
<1>3. ASSUME ReviewInv PROVE LinkTypeOK
  <2>1. link \in LinkRows /\ decidedBy \in {0} \cup Challenges /\ mailed \subseteq {0} \cup Challenges
    BY <1>3, Limits DEF ReviewInv, LinkShape, CodesCounted, LinkRows, Challenges
  <2>2. link.challenge \in {0} \cup Challenges /\ {link.notice, link.delivery} \subseteq MailStates
    BY <2>1, Limits DEF LinkRows, Challenges
  <2>3. \A p \in Visits : visit[p].answer \in MailAnswers \cup {"none"}
    BY <1>3 DEF ReviewInv, LinkShape, VisitRecords
  <2> QED BY <1>3, <2>1, <2>2, <2>3 DEF LinkTypeOK, ReviewInv, LinkShape
<1> QED BY <1>1, <1>2, <1>3

\* Every row of the platform keeps the shape that its table gives it, for any numbers
\* of people, versions, envelopes, runs and codes.
THEOREM PlatformTypesHold == MCSpec => []PlatformTypesOK
<1>1. PlatformInv => PlatformTypesOK
  BY KnowledgeTypes, PublicationTypes, ConnectionTypes, MeteringTypes, ChannelTypes
     DEF PlatformInv, PlatformTypesOK
<1> QED BY <1>1, PlatformInvariant, PTL
==============================================================================
