---------------------------- MODULE DurableQueue ----------------------------
(***************************************************************************)
(* The durable job ledger of common/queue.py: rows of outbox_jobs in       *)
(* PostgreSQL, concurrent executions of OutboxDispatcher.dispatch_once,    *)
(* the ARQ queue in Redis between them and the workers, the task slots of  *)
(* the workers that run DurableJobRunner.run, the conversation lock each   *)
(* run holds, and the operator's dead-letter actions.                      *)
(*                                                                         *)
(* One database transaction is one step.  Time is abstract: a dispatch     *)
(* lease, a lock lease, an available_at delay or a stored ARQ result may   *)
(* expire at any moment.  What may go wrong is listed in Faults, so that a *)
(* run states which faults its properties survive.                         *)
(***************************************************************************)
EXTENDS Integers, FiniteSets

CONSTANTS
  Jobs,                 \* idempotency keys; each names at most one outbox_jobs row
  Dispatchers,          \* concurrent executions of dispatch_once
  Workers,              \* task slots of the ARQ workers
  Conversations,        \* aggregate ids, the keys of the conversation lock
  ConversationOf,       \* the aggregate id of each job's payload
  HeldJobs,             \* the jobs whose topic is approvals.result.held
  DefaultMaxAttempts,   \* the column default of max_attempts
  MaxDeferrals,         \* bound on capacity deferrals of one job
  MaxReopens,           \* bound on dead-letter RETRY of one job
  Faults,               \* the faults that may happen, out of FaultKinds
  Nobody                \* no dispatcher, no worker, no job

FaultKinds == {"enqueue_error", "dispatcher_crash", "worker_crash", "shutdown",
               "job_timeout", "db_error", "deferral", "lock_timeout",
               "lease_loss"}

ASSUME ConstantsAssumption ==
  /\ Nobody \notin Jobs \cup Dispatchers \cup Workers
  /\ {"none", "waiting"} \cap Workers = {}
  /\ ConversationOf \in [Jobs -> Conversations]
  /\ HeldJobs \subseteq Jobs
  /\ DefaultMaxAttempts \in Nat \ {0}
  /\ MaxDeferrals \in Nat
  /\ MaxReopens \in Nat
  /\ Faults \subseteq FaultKinds

VARIABLES
  status,          \* outbox_jobs.status, "absent" before the INSERT
  attemptCount,    \* outbox_jobs.attempt_count
  maxAttempts,     \* outbox_jobs.max_attempts
  deferralCount,   \* outbox_jobs.deferral_count
  lease,           \* outbox_jobs.dispatch_lease_id: the batch that claimed it
  attempts,        \* the rows of job_attempts
  deadLetter,      \* dead_letter_jobs.status, "none" before the INSERT
  reopens,         \* how often the operator has retried a dead letter
  batch,           \* the claimed jobs a dispatch_once still has to handle
  enqueued,        \* the job a dispatch_once has enqueued but not yet marked
  message,         \* ARQ's job key: absent, waiting, or taken by a worker
  result,          \* ARQ's result key, kept for an hour
  pc,              \* where a worker slot is in process_job
  job,             \* the job a worker slot is processing
  started,         \* the _StartedAttempt a worker slot holds
  outcome,         \* how its handler, and then its run, ended
  lock             \* the worker slot whose lease value the Redis key holds

rowVars == <<status, attemptCount, maxAttempts, deferralCount, lease>>
ledgerVars == <<rowVars, attempts, deadLetter, reopens>>
dispatchVars == <<batch, enqueued>>
arqVars == <<message, result>>
workerVars == <<pc, job, started, outcome>>
vars == <<ledgerVars, dispatchVars, arqVars, workerVars, lock>>

Statuses == {"absent", "pending", "dispatching", "queued", "processing",
             "succeeded", "failed", "dead_letter"}
AttemptStatuses == {"started", "succeeded", "failed"}
Locations == {"idle", "locking", "starting", "running", "finishing",
              "releasing", "settling"}
Outcomes == {"none", "ok", "error", "fatal", "defer", "shutdown", "timeout",
             "finished", "redeliver"}
NoAttempt == [number |-> 0, limit |-> 0, budget |-> 0]

Init ==
  /\ status = [j \in Jobs |-> "absent"]
  /\ attemptCount = [j \in Jobs |-> 0]
  /\ maxAttempts = [j \in Jobs |-> DefaultMaxAttempts]
  /\ deferralCount = [j \in Jobs |-> 0]
  /\ lease = [j \in Jobs |-> Nobody]
  /\ attempts = {}
  /\ deadLetter = [j \in Jobs |-> "none"]
  /\ reopens = [j \in Jobs |-> 0]
  /\ batch = [d \in Dispatchers |-> {}]
  /\ enqueued = [d \in Dispatchers |-> Nobody]
  /\ message = [j \in Jobs |-> "none"]
  /\ result = [j \in Jobs |-> FALSE]
  /\ pc = [w \in Workers |-> "idle"]
  /\ job = [w \in Workers |-> Nobody]
  /\ started = [w \in Workers |-> NoAttempt]
  /\ outcome = [w \in Workers |-> "none"]
  /\ lock = [c \in Conversations |-> Nobody]

-----------------------------------------------------------------------------
(* OutboxService.enqueue: the row is inserted once per idempotency key.    *)
EnqueueOutbox(j) ==
  /\ status[j] = "absent"
  /\ status' = [status EXCEPT ![j] = "pending"]
  /\ UNCHANGED <<attemptCount, maxAttempts, deferralCount, lease, attempts,
                 deadLetter, reopens, dispatchVars, arqVars, workerVars, lock>>

-----------------------------------------------------------------------------
(* The dispatcher.  A lease value is new for every claim; it is named by   *)
(* its dispatch_once, which has one batch at a time and acts only on the   *)
(* members of that batch.                                                  *)

\* Mutation: a dispatcher that also reclaims processing rows.
ClaimableInAttempt(j) == status[j] \in {"pending", "failed", "dispatching", "processing"}

\* A pending or failed row, or one whose dispatch lease has expired.
Claimable(j) == status[j] \in {"pending", "failed", "dispatching"}

\* _claim: the rows of the batch, whose lease has expired or which had none.
Claim(d, claimed) ==
  /\ batch[d] = {}
  /\ claimed # {}
  /\ \A j \in claimed : Claimable(j)
  /\ batch' = [batch EXCEPT ![d] = claimed]
  /\ status' = [j \in Jobs |-> IF j \in claimed THEN "dispatching" ELSE status[j]]
  /\ lease' = [j \in Jobs |-> IF j \in claimed THEN d ELSE lease[j]]
  /\ UNCHANGED <<attemptCount, maxAttempts, deferralCount, attempts, deadLetter,
                 reopens, enqueued, arqVars, workerVars, lock>>

\* _release_approval_hold finds the conversation not AI_ACTIVE: back to
\* pending, provided the row still has this lease, whatever its status.
ReleaseHold(d, j) ==
  /\ enqueued[d] = Nobody
  /\ j \in batch[d] \cap HeldJobs
  /\ batch' = [batch EXCEPT ![d] = @ \ {j}]
  /\ IF lease[j] = d
     THEN /\ status' = [status EXCEPT ![j] = "pending"]
          /\ lease' = [lease EXCEPT ![j] = Nobody]
     ELSE UNCHANGED <<status, lease>>
  /\ UNCHANGED <<attemptCount, maxAttempts, deferralCount, attempts, deadLetter,
                 reopens, enqueued, arqVars, workerVars, lock>>

\* ARQ's enqueue_job: nothing happens (it returns None) while the job key or
\* the result key of that job id exists.
ArqEnqueue(j) ==
  message' = IF message[j] = "none" /\ ~result[j]
             THEN [message EXCEPT ![j] = "waiting"] ELSE message

\* The enqueue_job call of dispatch_once returned, with a job or with None.
Enqueue(d, j) ==
  /\ enqueued[d] = Nobody
  /\ j \in batch[d]
  /\ enqueued' = [enqueued EXCEPT ![d] = j]
  /\ ArqEnqueue(j)
  /\ UNCHANGED <<ledgerVars, batch, result, workerVars, lock>>

\* enqueue_job raised, before or after Redis executed it:
\* _record_dispatch_failure, and the batch goes on.
EnqueueFails(d, j) ==
  /\ "enqueue_error" \in Faults
  /\ enqueued[d] = Nobody
  /\ j \in batch[d]
  /\ batch' = [batch EXCEPT ![d] = @ \ {j}]
  /\ IF status[j] = "dispatching" /\ lease[j] = d
     THEN /\ status' = [status EXCEPT ![j] = "failed"]
          /\ lease' = [lease EXCEPT ![j] = Nobody]
     ELSE UNCHANGED <<status, lease>>
  /\ ArqEnqueue(j) \/ UNCHANGED message
  /\ UNCHANGED <<attemptCount, maxAttempts, deferralCount, attempts, deadLetter,
                 reopens, enqueued, result, workerVars, lock>>

\* _mark_queued updates the row only under this lease; when it does not, it
\* raises outside the try and the rest of the batch is abandoned.
MarkQueued(d) ==
  LET j == enqueued[d] IN
  /\ j # Nobody
  /\ enqueued' = [enqueued EXCEPT ![d] = Nobody]
  /\ \/ /\ status[j] = "dispatching" /\ lease[j] = d
        /\ status' = [status EXCEPT ![j] = "queued"]
        /\ lease' = [lease EXCEPT ![j] = Nobody]
        /\ batch' = [batch EXCEPT ![d] = @ \ {j}]
     \/ /\ ~(status[j] = "dispatching" /\ lease[j] = d)
        /\ batch' = [batch EXCEPT ![d] = {}]
        /\ UNCHANGED <<status, lease>>
  /\ UNCHANGED <<attemptCount, maxAttempts, deferralCount, attempts, deadLetter,
                 reopens, arqVars, workerVars, lock>>

\* The scheduler process dies; its leases stay in the rows until they expire.
DispatcherCrash(d) ==
  /\ "dispatcher_crash" \in Faults
  /\ batch[d] # {}
  /\ batch' = [batch EXCEPT ![d] = {}]
  /\ enqueued' = [enqueued EXCEPT ![d] = Nobody]
  /\ UNCHANGED <<ledgerVars, arqVars, workerVars, lock>>

-----------------------------------------------------------------------------
(* The worker: process_job of a worker.py, which calls run_registered_job. *)

\* ARQ starts process_job on a waiting message.
Deliver(w, j) ==
  /\ pc[w] = "idle"
  /\ message[j] = "waiting"
  /\ message' = [message EXCEPT ![j] = w]
  /\ pc' = [pc EXCEPT ![w] = "locking"]
  /\ job' = [job EXCEPT ![w] = j]
  /\ UNCHANGED <<ledgerVars, dispatchVars, result, started, outcome, lock>>

KeyOf(w) == ConversationOf[job[w]]

\* Mutation: the key is set without NX.
AcquireLockAlways(w) ==
  /\ pc[w] = "locking"
  /\ lock' = [lock EXCEPT ![KeyOf(w)] = w]
  /\ pc' = [pc EXCEPT ![w] = "starting"]
  /\ UNCHANGED <<ledgerVars, dispatchVars, arqVars, job, started, outcome>>

\* SET NX of ConversationLockManager.hold succeeds.
AcquireLock(w) ==
  /\ pc[w] = "locking"
  /\ lock[KeyOf(w)] = Nobody
  /\ lock' = [lock EXCEPT ![KeyOf(w)] = w]
  /\ pc' = [pc EXCEPT ![w] = "starting"]
  /\ UNCHANGED <<ledgerVars, dispatchVars, arqVars, job, started, outcome>>

\* The key stayed taken for acquire_timeout_seconds: ConversationLockUnavailable
\* leaves run before an attempt exists, and process_job does not catch it.
LockTimeout(w) ==
  /\ "lock_timeout" \in Faults
  /\ pc[w] = "locking"
  /\ lock[KeyOf(w)] # Nobody
  /\ pc' = [pc EXCEPT ![w] = "settling"]
  /\ outcome' = [outcome EXCEPT ![w] = "finished"]
  /\ UNCHANGED <<ledgerVars, dispatchVars, arqVars, job, started, lock>>

\* The TTL of the key runs out: at once when its holder is gone, and under a
\* live holder when the renewal task is late.
LockExpires(c) ==
  /\ lock[c] # Nobody
  /\ \/ "lease_loss" \in Faults
     \/ LET w == lock[c] IN
        ~(pc[w] \in {"starting", "running", "finishing", "releasing"} /\ KeyOf(w) = c)
  /\ lock' = [lock EXCEPT ![c] = Nobody]
  /\ UNCHANGED <<ledgerVars, dispatchVars, arqVars, workerVars>>

Row(j, n, s) == [job |-> j, number |-> n, status |-> s]

\* Mutation: a message that overtakes _mark_queued finds its job not ready.
ReadyOnceQueued(j) == status[j] \in {"queued", "failed"}

Ready(j) == status[j] \in {"queued", "failed", "dispatching"}

AttemptNumber(j) == attemptCount[j] + 1

\* _start_attempt: nothing to do for a settled row, RuntimeError for a pending
\* or a processing one, otherwise the row and its job_attempts row.
StartAttempt(w) ==
  LET j == job[w]
      n == AttemptNumber(j) IN
  /\ pc[w] = "starting"
  /\ \/ /\ ~Ready(j)
        /\ pc' = [pc EXCEPT ![w] = "releasing"]
        /\ outcome' = [outcome EXCEPT ![w] = "finished"]
        /\ UNCHANGED <<status, attemptCount, lease, attempts, started>>
     \/ /\ Ready(j)
        /\ status' = [status EXCEPT ![j] = "processing"]
        /\ attemptCount' = [attemptCount EXCEPT ![j] = n]
        /\ lease' = [lease EXCEPT ![j] = Nobody]
        /\ attempts' = attempts \cup {Row(j, n, "started")}
        /\ started' = [started EXCEPT ![w] =
                        [number |-> n, limit |-> maxAttempts[j],
                         budget |-> n - deferralCount[j]]]
        /\ pc' = [pc EXCEPT ![w] = "running"]
        /\ UNCHANGED outcome
  /\ UNCHANGED <<maxAttempts, deferralCount, deadLetter, reopens, dispatchVars,
                 arqVars, job, lock>>

\* The handler returns, raises a retryable or a non-retryable error, raises
\* JobDeferred, or is cancelled: by the shutdown of the worker (ARQ delivers
\* the message again) or by job_timeout (ARQ finishes the message).
HandlerEnds(w, o) ==
  /\ pc[w] = "running"
  /\ o \in {"ok", "error", "fatal"} \cup (Faults \cap {"shutdown"})
       \cup (IF "deferral" \in Faults THEN {"defer"} ELSE {})
       \cup (IF "job_timeout" \in Faults THEN {"timeout"} ELSE {})
  /\ o = "defer" => deferralCount[job[w]] < MaxDeferrals
  /\ outcome' = [outcome EXCEPT ![w] = o]
  /\ pc' = [pc EXCEPT ![w] = "finishing"]
  /\ UNCHANGED <<ledgerVars, dispatchVars, arqVars, job, started, lock>>

\* Mutation: the attempt row is left as it was started.
SettleAttemptForgotten(j, n, s) == UNCHANGED attempts

\* UPDATE job_attempts SET status WHERE job and attempt_number.
SettleAttempt(j, n, s) ==
  attempts' = {IF r.job = j /\ r.number = n THEN Row(j, n, s) ELSE r : r \in attempts}

\* The WHERE clause of every finishing UPDATE of outbox_jobs.
OwnsRow(w) ==
  /\ status[job[w]] = "processing"
  /\ attemptCount[job[w]] = started[w].number

\* _finish_success raises, and rolls back, when the row changed concurrently.
FinishSuccess(w) ==
  LET j == job[w] IN
  /\ pc[w] = "finishing" /\ outcome[w] = "ok"
  /\ IF OwnsRow(w)
     THEN /\ SettleAttempt(j, started[w].number, "succeeded")
          /\ status' = [status EXCEPT ![j] = "succeeded"]
     ELSE UNCHANGED <<attempts, status>>
  /\ outcome' = [outcome EXCEPT ![w] = "finished"]
  /\ pc' = [pc EXCEPT ![w] = "releasing"]
  /\ UNCHANGED <<attemptCount, maxAttempts, deferralCount, lease, deadLetter,
                 reopens, dispatchVars, arqVars, job, started, lock>>

\* _finish_deferred raises, and rolls back, when the row changed concurrently;
\* process_job returns "deferred", so ARQ finishes the message.
FinishDeferred(w) ==
  LET j == job[w] IN
  /\ pc[w] = "finishing" /\ outcome[w] = "defer"
  /\ IF OwnsRow(w)
     THEN /\ SettleAttempt(j, started[w].number, "failed")
          /\ status' = [status EXCEPT ![j] = "pending"]
          /\ deferralCount' = [deferralCount EXCEPT ![j] = @ + 1]
     ELSE UNCHANGED <<attempts, status, deferralCount>>
  /\ outcome' = [outcome EXCEPT ![w] = "finished"]
  /\ pc' = [pc EXCEPT ![w] = "releasing"]
  /\ UNCHANGED <<attemptCount, maxAttempts, lease, deadLetter, reopens,
                 dispatchVars, arqVars, job, started, lock>>

\* Mutation: the attempt that uses up the budget is retried.
TerminalLate(w) == outcome[w] = "fatal" \/ started[w].budget > started[w].limit

Terminal(w) == outcome[w] = "fatal" \/ started[w].budget >= started[w].limit

\* INSERT INTO dead_letter_jobs ... ON CONFLICT DO NOTHING.
InsertDeadLetter(j) ==
  deadLetter' = IF deadLetter[j] = "none" THEN [deadLetter EXCEPT ![j] = "open"]
                                          ELSE deadLetter

\* _finish_failure does not look at what its UPDATE matched.
FinishFailure(w) ==
  LET j == job[w] IN
  /\ pc[w] = "finishing" /\ outcome[w] \in {"error", "fatal", "shutdown", "timeout"}
  /\ SettleAttempt(j, started[w].number, "failed")
  /\ status' = IF OwnsRow(w)
               THEN [status EXCEPT ![j] = IF Terminal(w) THEN "dead_letter" ELSE "failed"]
               ELSE status
  /\ IF Terminal(w) THEN InsertDeadLetter(j) ELSE UNCHANGED deadLetter
  /\ outcome' = [outcome EXCEPT ![w] =
       IF @ = "shutdown" \/ (@ = "error" /\ ~Terminal(w)) THEN "redeliver" ELSE "finished"]
  /\ pc' = [pc EXCEPT ![w] = "releasing"]
  /\ UNCHANGED <<attemptCount, maxAttempts, deferralCount, lease, reopens,
                 dispatchVars, arqVars, job, started, lock>>

\* A database error in _start_attempt or in a _finish_ transaction leaves run
\* as an ordinary exception, which ARQ takes for the end of the message.
DatabaseError(w) ==
  /\ "db_error" \in Faults
  /\ pc[w] \in {"starting", "finishing"}
  /\ outcome' = [outcome EXCEPT ![w] = "finished"]
  /\ pc' = [pc EXCEPT ![w] = "releasing"]
  /\ UNCHANGED <<ledgerVars, dispatchVars, arqVars, job, started, lock>>

\* The finally of hold: the key is deleted only if it still has this value,
\* and a renewal that found it gone turns any result into ConversationLockLost.
ReleaseLock(w) ==
  /\ pc[w] = "releasing"
  /\ IF lock[KeyOf(w)] = w
     THEN /\ lock' = [lock EXCEPT ![KeyOf(w)] = Nobody]
          /\ UNCHANGED outcome
     ELSE /\ UNCHANGED lock
          /\ UNCHANGED outcome \/ outcome' = [outcome EXCEPT ![w] = "finished"]
  /\ pc' = [pc EXCEPT ![w] = "settling"]
  /\ UNCHANGED <<ledgerVars, dispatchVars, arqVars, job, started>>

\* Mutation: process_job returns "retry" instead of raising Retry.
SettleMessageOnce(w) ==
  /\ pc[w] = "settling"
  /\ message' = [message EXCEPT ![job[w]] = "none"]
  /\ result' = [result EXCEPT ![job[w]] = TRUE]
  /\ pc' = [pc EXCEPT ![w] = "idle"]
  /\ job' = [job EXCEPT ![w] = Nobody]
  /\ started' = [started EXCEPT ![w] = NoAttempt]
  /\ outcome' = [outcome EXCEPT ![w] = "none"]
  /\ UNCHANGED <<ledgerVars, dispatchVars, lock>>

\* ARQ settles the message: Retry and the cancellation of a shutdown deliver it
\* again; a returned value and any other exception store a result.
SettleMessage(w) ==
  /\ pc[w] = "settling"
  /\ \/ /\ outcome[w] = "redeliver"
        /\ message' = [message EXCEPT ![job[w]] = "waiting"]
        /\ UNCHANGED result
     \/ /\ outcome[w] # "redeliver"
        /\ message' = [message EXCEPT ![job[w]] = "none"]
        /\ result' = [result EXCEPT ![job[w]] = TRUE]
  /\ pc' = [pc EXCEPT ![w] = "idle"]
  /\ job' = [job EXCEPT ![w] = Nobody]
  /\ started' = [started EXCEPT ![w] = NoAttempt]
  /\ outcome' = [outcome EXCEPT ![w] = "none"]
  /\ UNCHANGED <<ledgerVars, dispatchVars, lock>>

\* The worker process dies: no finally runs, the lock key keeps its value, and
\* the message is delivered again once ARQ's in-progress key has expired.
WorkerCrash(w) ==
  /\ "worker_crash" \in Faults
  /\ pc[w] # "idle"
  /\ message' = [message EXCEPT ![job[w]] = "waiting"]
  /\ pc' = [pc EXCEPT ![w] = "idle"]
  /\ job' = [job EXCEPT ![w] = Nobody]
  /\ started' = [started EXCEPT ![w] = NoAttempt]
  /\ outcome' = [outcome EXCEPT ![w] = "none"]
  /\ UNCHANGED <<ledgerVars, dispatchVars, result, lock>>

\* keep_result seconds after the message was finished.
ResultExpires(j) ==
  /\ result[j]
  /\ result' = [result EXCEPT ![j] = FALSE]
  /\ UNCHANGED <<ledgerVars, dispatchVars, message, workerVars, lock>>

-----------------------------------------------------------------------------
(* mutate_dead_letter of operations/admin.py.                              *)

\* Mutation: max_attempts of the row is left as it was.
BudgetAfterRetrySame(j) == maxAttempts[j]

\* greatest(max_attempts, attempt_count + 1)
BudgetAfterRetry(j) ==
  IF maxAttempts[j] > attemptCount[j] THEN maxAttempts[j] ELSE attemptCount[j] + 1

RetryDeadLetter(j) ==
  /\ deadLetter[j] = "open"
  /\ status[j] = "dead_letter"
  /\ reopens[j] < MaxReopens
  /\ reopens' = [reopens EXCEPT ![j] = @ + 1]
  /\ status' = [status EXCEPT ![j] = "pending"]
  /\ lease' = [lease EXCEPT ![j] = Nobody]
  /\ maxAttempts' = [maxAttempts EXCEPT ![j] = BudgetAfterRetry(j)]
  /\ deadLetter' = [deadLetter EXCEPT ![j] = "resolved"]
  /\ UNCHANGED <<attemptCount, deferralCount, attempts, dispatchVars, arqVars,
                 workerVars, lock>>

\* RESOLVE and DISCARD close the entry and leave the job row alone.
CloseDeadLetter(j, s) ==
  /\ deadLetter[j] = "open"
  /\ s \in {"resolved", "discarded"}
  /\ deadLetter' = [deadLetter EXCEPT ![j] = s]
  /\ UNCHANGED <<rowVars, attempts, reopens, dispatchVars, arqVars, workerVars, lock>>

-----------------------------------------------------------------------------
Dispatch(d) ==
  \/ \E claimed \in SUBSET Jobs : Claim(d, claimed)
  \/ \E j \in Jobs : ReleaseHold(d, j) \/ Enqueue(d, j) \/ EnqueueFails(d, j)
  \/ MarkQueued(d)
  \/ DispatcherCrash(d)

Finish(w) == FinishSuccess(w) \/ FinishDeferred(w) \/ FinishFailure(w)

Work(w) ==
  \/ \E j \in Jobs : Deliver(w, j)
  \/ AcquireLock(w) \/ LockTimeout(w)
  \/ StartAttempt(w)
  \/ \E o \in Outcomes : HandlerEnds(w, o)
  \/ Finish(w)
  \/ DatabaseError(w)
  \/ ReleaseLock(w)
  \/ SettleMessage(w)
  \/ WorkerCrash(w)

Operate(j) ==
  \/ RetryDeadLetter(j)
  \/ \E s \in {"resolved", "discarded"} : CloseDeadLetter(j, s)

Next ==
  \/ \E j \in Jobs : EnqueueOutbox(j) \/ ResultExpires(j) \/ Operate(j)
  \/ \E d \in Dispatchers : Dispatch(d)
  \/ \E w \in Workers : Work(w)
  \/ \E c \in Conversations : LockExpires(c)

Spec == Init /\ [][Next]_vars

\* A worker in process_job goes on to its end.
Proceed(w) ==
  \/ StartAttempt(w)
  \/ \E o \in Outcomes : HandlerEnds(w, o)
  \/ Finish(w) \/ ReleaseLock(w) \/ SettleMessage(w)

\* The scheduler runs dispatch_once every second, the workers poll their
\* queues, handlers end within job_timeout and keys expire.  Redis answers
\* again after an error, a conversation returns to AI_ACTIVE, and a poller of
\* a lock that is free time and again gets it.  Nothing makes an operator act.
Fairness ==
  /\ \A j \in Jobs :
       /\ WF_vars(\E d \in Dispatchers, S \in SUBSET Jobs : j \in S /\ Claim(d, S))
       /\ SF_vars(\E d \in Dispatchers : Enqueue(d, j))
       /\ SF_vars(\E w \in Workers : Deliver(w, j))
       /\ WF_vars(ResultExpires(j))
  /\ \A d \in Dispatchers : WF_vars(MarkQueued(d))
  /\ \A w \in Workers : SF_vars(AcquireLock(w)) /\ WF_vars(Proceed(w))
  /\ \A c \in Conversations : WF_vars(LockExpires(c))

FairSpec == Spec /\ Fairness

-----------------------------------------------------------------------------
(* Properties.                                                             *)

\* The types of the rows, of ARQ's keys and of the state of the processes.
TypeOK ==
  /\ status \in [Jobs -> Statuses]
  /\ attemptCount \in [Jobs -> Nat]
  /\ maxAttempts \in [Jobs -> Nat \ {0}]
  /\ deferralCount \in [Jobs -> Nat]
  /\ lease \in [Jobs -> Dispatchers \cup {Nobody}]
  /\ attempts \subseteq [job : Jobs, number : Nat \ {0}, status : AttemptStatuses]
  /\ deadLetter \in [Jobs -> {"none", "open", "resolved", "discarded"}]
  /\ reopens \in [Jobs -> 0..MaxReopens]
  /\ batch \in [Dispatchers -> SUBSET Jobs]
  /\ enqueued \in [Dispatchers -> Jobs \cup {Nobody}]
  /\ message \in [Jobs -> {"none", "waiting"} \cup Workers]
  /\ result \in [Jobs -> BOOLEAN]
  /\ pc \in [Workers -> Locations]
  /\ job \in [Workers -> Jobs \cup {Nobody}]
  /\ started \in [Workers -> [number : Nat, limit : Nat, budget : Int]]
  /\ outcome \in [Workers -> Outcomes]
  /\ lock \in [Conversations -> Workers \cup {Nobody}]

InAttempt(w) == pc[w] \in {"running", "finishing"}

\* A job never has two attempts in flight, and the row of a worker that is in
\* an attempt is still processing under that attempt's number: the "changed
\* concurrently" errors of the _finish_ transactions are unreachable, whatever
\* dispatchers, redeliveries, crashes and operators do meanwhile.
SingleFlight ==
  /\ \A w \in Workers : InAttempt(w) => OwnsRow(w)
  /\ \A v, w \in Workers : InAttempt(v) /\ InAttempt(w) /\ v # w => job[v] # job[w]

\* job_attempts holds one row per attempt number from 1 to attempt_count, so
\* the unique key of _start_attempt's INSERT cannot be hit, and only the last
\* attempt of a processing row may still be 'started'.
AttemptLedger ==
  /\ \A j \in Jobs : {r.number : r \in {x \in attempts : x.job = j}} = 1..attemptCount[j]
  /\ \A r, s \in attempts : r.job = s.job /\ r.number = s.number => r = s
  /\ \A r \in attempts : r.status = "started" =>
       status[r.job] = "processing" /\ r.number = attemptCount[r.job]

\* The CHECK constraints of outbox_jobs hold at every commit, with the budget
\* of a row that waits not yet used up: no attempt starts beyond max_attempts,
\* however deferrals, cancellations and dead-letter retries are mixed.
RetryBudget ==
  \A j \in Jobs :
    /\ deferralCount[j] <= attemptCount[j]
    /\ attemptCount[j] - deferralCount[j] <= maxAttempts[j]
    /\ status[j] \in {"pending", "dispatching", "queued", "failed"} =>
         attemptCount[j] - deferralCount[j] < maxAttempts[j]

\* A queued row has a message in ARQ, or it is lost: the dispatcher never
\* looks at queued rows again.  It survives errors and crashes of dispatchers
\* and shutdowns of workers, since the job id is ARQ's deduplication key.
QueuedIsDeliverable ==
  \A j \in Jobs : status[j] = "queued" => message[j] # "none"

\* Two attempts of one conversation never overlap as long as the renewal task
\* keeps the lease of the conversation lock.
ConversationSerialized ==
  \A v, w \in Workers :
    v # w /\ pc[v] \in {"starting", "running", "finishing"}
          /\ pc[w] \in {"starting", "running", "finishing"} => KeyOf(v) # KeyOf(w)

\* Every job that is buried is open for inspection and for the audited
\* actions at that moment (_finish_failure inserts its dead_letter_jobs row).
DeadLetterInspectable ==
  [][\A j \in Jobs : status[j] # "dead_letter" /\ status'[j] = "dead_letter"
                       => deadLetter'[j] = "open"]_vars

Settled(j) == status[j] \in {"succeeded", "dead_letter"}

\* A pending job is executed until it succeeds or is dead-lettered: the ledger
\* reconciles whatever the dispatchers and the broker do with it.
EventuallySettled == \A j \in Jobs : status[j] = "pending" ~> Settled(j)

Phase(s) ==
  CASE s = "absent" -> "absent"
    [] s = "processing" -> "running"
    [] s = "succeeded" -> "done"
    [] s = "dead_letter" -> "dead"
    [] OTHER -> "waiting"

Contract == INSTANCE JobContract WITH
  phase <- [j \in Jobs |-> Phase(status[j])],
  charged <- [j \in Jobs |-> attemptCount[j] - deferralCount[j]],
  limit <- maxAttempts

\* The ledger implements the contract of a job: whatever happens to leases,
\* messages and processes, a job runs within its budget, never again once it
\* succeeded, and after its burial only on the operator's request.
ContractSpec == Contract!Spec
=============================================================================
