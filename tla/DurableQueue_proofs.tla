------------------------ MODULE DurableQueue_proofs ------------------------
(***************************************************************************)
(* Theorems about DurableQueue for every number of jobs, dispatchers and   *)
(* workers, every budget and every combination of faults.                  *)
(***************************************************************************)
EXTENDS DurableQueue, TLAPS

(* Type correctness.                                                       *)

\* Empty tables, idle processes and no messages are well typed.
LEMMA TypeInit == Init => TypeOK
BY ConstantsAssumption
   DEF Init, TypeOK, ConstantsAssumption, Statuses, Locations, Outcomes, NoAttempt

\* ARQ adds a message where there is none, and changes no other.
LEMMA ArqEnqueueType ==
  ASSUME TypeOK, NEW j \in Jobs, ArqEnqueue(j) \/ UNCHANGED message
  PROVE  message' \in [Jobs -> {"none", "waiting"} \cup Workers]
<1>1. CASE ArqEnqueue(j) BY <1>1 DEF ArqEnqueue, TypeOK
<1>2. CASE UNCHANGED message BY <1>2 DEF TypeOK
<1>3. QED BY <1>1, <1>2

\* The row of an attempt keeps its shape when its status is settled.
LEMMA SettleAttemptType ==
  ASSUME TypeOK, NEW j \in Jobs, NEW n \in Nat, NEW s \in AttemptStatuses, SettleAttempt(j, n, s)
  PROVE  attempts' \subseteq [job : Jobs, number : Nat \ {0}, status : AttemptStatuses]
<1>1. SUFFICES ASSUME NEW r \in attempts
      PROVE (IF r.job = j /\ r.number = n THEN Row(j, n, s) ELSE r)
              \in [job : Jobs, number : Nat \ {0}, status : AttemptStatuses]
  BY DEF SettleAttempt
<1>2. r \in [job : Jobs, number : Nat \ {0}, status : AttemptStatuses]
  BY DEF TypeOK
<1>3. QED BY <1>2 DEF Row

\* dispatch_once: claiming, enqueueing and marking keep the types.
LEMMA TypeDispatch ==
  ASSUME TypeOK, NEW d \in Dispatchers, Dispatch(d)
  PROVE  TypeOK'
<1> USE ConstantsAssumption DEF ConstantsAssumption, TypeOK, Statuses, ledgerVars, rowVars,
        dispatchVars, arqVars, workerVars
<1>1. CASE \E claimed \in SUBSET Jobs : Claim(d, claimed)
  BY <1>1 DEF Claim
<1>2. CASE \E j \in Jobs : ReleaseHold(d, j)
  <2>1. PICK j \in Jobs : ReleaseHold(d, j) BY <1>2
  <2>2. batch' \in [Dispatchers -> SUBSET Jobs] BY <2>1 DEF ReleaseHold
  <2>3. status' \in [Jobs -> Statuses] /\ lease' \in [Jobs -> Dispatchers \cup {Nobody}]
    <3>1. \/ UNCHANGED <<status, lease>>
          \/ /\ status' = [status EXCEPT ![j] = "pending"]
             /\ lease' = [lease EXCEPT ![j] = Nobody]
      BY <2>1 DEF ReleaseHold
    <3>2. status' \in [Jobs -> Statuses] BY <3>1
    <3>3. lease' \in [Jobs -> Dispatchers \cup {Nobody}] BY <3>1
    <3>4. QED BY <3>2, <3>3
  <2>4. QED BY <2>1, <2>2, <2>3 DEF ReleaseHold
<1>3. CASE \E j \in Jobs : Enqueue(d, j)
  BY <1>3, ArqEnqueueType DEF Enqueue
<1>4. ASSUME NEW j \in Jobs, EnqueueFails(d, j) PROVE TypeOK'
  <2>1. message' \in [Jobs -> {"none", "waiting"} \cup Workers]
    BY <1>4, ArqEnqueueType DEF EnqueueFails
  <2>2. batch' \in [Dispatchers -> SUBSET Jobs] BY <1>4 DEF EnqueueFails
  <2>3. status' \in [Jobs -> Statuses] /\ lease' \in [Jobs -> Dispatchers \cup {Nobody}]
    <3>1. \/ UNCHANGED <<status, lease>>
          \/ /\ status' = [status EXCEPT ![j] = "failed"]
             /\ lease' = [lease EXCEPT ![j] = Nobody]
      BY <1>4 DEF EnqueueFails
    <3>2. status' \in [Jobs -> Statuses] BY <3>1
    <3>3. lease' \in [Jobs -> Dispatchers \cup {Nobody}] BY <3>1
    <3>4. QED BY <3>2, <3>3
  <2>4. QED BY <1>4, <2>1, <2>2, <2>3 DEF EnqueueFails
<1>5. CASE MarkQueued(d)
  <2>1. enqueued[d] \in Jobs BY <1>5 DEF MarkQueued
  <2>2. status' \in [Jobs -> Statuses] BY <1>5, <2>1 DEF MarkQueued
  <2>3. lease' \in [Jobs -> Dispatchers \cup {Nobody}] BY <1>5, <2>1 DEF MarkQueued
  <2>4. batch' \in [Dispatchers -> SUBSET Jobs] BY <1>5, <2>1 DEF MarkQueued
  <2>5. enqueued' \in [Dispatchers -> Jobs \cup {Nobody}] BY <1>5 DEF MarkQueued
  <2>6. QED BY <1>5, <2>2, <2>3, <2>4, <2>5 DEF MarkQueued
<1>6. CASE DispatcherCrash(d)
  BY <1>6 DEF DispatcherCrash
<1>7. QED BY <1>1, <1>2, <1>3, <1>4, <1>5, <1>6 DEF Dispatch

\* A worker that is not idle has a job: the part of the message invariant
\* that the type of the row updates rests on.
HasJob == \A w \in Workers : pc[w] # "idle" => job[w] \in Jobs

\* The three ends of an attempt keep the types.
LEMMA TypeFinish ==
  ASSUME TypeOK, HasJob, NEW w \in Workers, Finish(w)
  PROVE  TypeOK'
<1> USE ConstantsAssumption DEF ConstantsAssumption, TypeOK, HasJob, Statuses, AttemptStatuses,
        Locations, Outcomes, dispatchVars, arqVars
<1> DEFINE AttemptsType ==
      attempts' \subseteq [job : Jobs, number : Nat \ {0}, status : AttemptStatuses]
<1>0. /\ pc[w] = "finishing" => job[w] \in Jobs
      /\ started[w].number \in Nat
  OBVIOUS
<1>1. CASE FinishSuccess(w)
  <2>1. AttemptsType BY <1>0, <1>1, SettleAttemptType DEF FinishSuccess
  <2>2. QED BY <1>0, <1>1, <2>1 DEF FinishSuccess
<1>2. CASE FinishDeferred(w)
  <2>1. AttemptsType BY <1>0, <1>2, SettleAttemptType DEF FinishDeferred
  <2>2. status' \in [Jobs -> Statuses] BY <1>0, <1>2 DEF FinishDeferred
  <2>3. deferralCount' \in [Jobs -> Nat]
    <3>1. deferralCount[job[w]] + 1 \in Nat BY <1>0, <1>2 DEF FinishDeferred
    <3>2. CASE OwnsRow(w)
      <4>1. deferralCount' = [deferralCount EXCEPT ![job[w]] = deferralCount[job[w]] + 1]
        BY <1>2, <3>2 DEF FinishDeferred
      <4>2. QED BY <3>1, <4>1
    <3>3. CASE ~OwnsRow(w) BY <1>2, <3>3 DEF FinishDeferred
    <3>4. QED BY <3>2, <3>3
  <2>4. outcome' \in [Workers -> Outcomes] /\ pc' \in [Workers -> Locations]
    BY <1>2 DEF FinishDeferred
  <2>5. QED BY <1>2, <2>1, <2>2, <2>3, <2>4 DEF FinishDeferred
<1>3. CASE FinishFailure(w)
  <2>1. AttemptsType BY <1>0, <1>3, SettleAttemptType DEF FinishFailure
  <2>2. status' \in [Jobs -> Statuses] BY <1>0, <1>3 DEF FinishFailure
  <2>3. deadLetter' \in [Jobs -> {"none", "open", "resolved", "discarded"}]
    <3>1. InsertDeadLetter(job[w]) \/ UNCHANGED deadLetter BY <1>3 DEF FinishFailure
    <3>2. QED BY <1>0, <1>3, <3>1 DEF InsertDeadLetter
  <2>4. outcome' \in [Workers -> Outcomes] /\ pc' \in [Workers -> Locations]
    BY <1>3 DEF FinishFailure
  <2>5. QED BY <1>3, <2>1, <2>2, <2>3, <2>4 DEF FinishFailure
<1>4. QED BY <1>1, <1>2, <1>3 DEF Finish

\* Every step of a worker keeps the types.
LEMMA TypeWork ==
  ASSUME TypeOK, HasJob, NEW w \in Workers, Work(w)
  PROVE  TypeOK'
<1> USE ConstantsAssumption DEF ConstantsAssumption, TypeOK, HasJob, Locations, Outcomes,
        NoAttempt, ledgerVars, rowVars, dispatchVars, arqVars, workerVars
<1>1. CASE \E j \in Jobs : Deliver(w, j)
  BY <1>1 DEF Deliver
<1>2. CASE AcquireLock(w)
  BY <1>2 DEF AcquireLock, KeyOf
<1>3. CASE LockTimeout(w)
  BY <1>3 DEF LockTimeout
<1>4. CASE StartAttempt(w)
  <2> DEFINE j == job[w]
  <2>1. j \in Jobs BY <1>4 DEF StartAttempt
  <2>2. AttemptNumber(j) \in Nat \ {0} BY <2>1 DEF AttemptNumber
  <2>3. AttemptNumber(j) - deferralCount[j] \in Int BY <2>1, <2>2
  <2>4. CASE Ready(j)
    <3>1. Row(j, AttemptNumber(j), "started")
            \in [job : Jobs, number : Nat \ {0}, status : AttemptStatuses]
      BY <2>1, <2>2 DEF Row, AttemptStatuses
    <3>2. [number |-> AttemptNumber(j), limit |-> maxAttempts[j],
           budget |-> AttemptNumber(j) - deferralCount[j]]
            \in [number : Nat, limit : Nat, budget : Int]
      BY <2>1, <2>2, <2>3
    <3>3. attempts' \subseteq [job : Jobs, number : Nat \ {0}, status : AttemptStatuses]
      BY <1>4, <2>4, <3>1 DEF StartAttempt
    <3>4. started' = [started EXCEPT ![w] =
                       [number |-> AttemptNumber(j), limit |-> maxAttempts[j],
                        budget |-> AttemptNumber(j) - deferralCount[j]]]
      BY <1>4, <2>4 DEF StartAttempt
    <3>5. started' \in [Workers -> [number : Nat, limit : Nat, budget : Int]]
      BY <3>2, <3>4
    <3>6. status' \in [Jobs -> Statuses] BY <1>4, <2>1, <2>4 DEF StartAttempt, Statuses
    <3>7. attemptCount' \in [Jobs -> Nat] BY <1>4, <2>1, <2>2, <2>4 DEF StartAttempt
    <3>8. lease' \in [Jobs -> Dispatchers \cup {Nobody}] BY <1>4, <2>4 DEF StartAttempt
    <3>9. pc' \in [Workers -> Locations] BY <1>4, <2>4 DEF StartAttempt
    <3>10. QED BY <1>4, <2>4, <3>3, <3>5, <3>6, <3>7, <3>8, <3>9 DEF StartAttempt
  <2>5. CASE ~Ready(j)
    BY <1>4, <2>1, <2>5 DEF StartAttempt
  <2>6. QED BY <2>4, <2>5
<1>5. CASE \E o \in Outcomes : HandlerEnds(w, o)
  BY <1>5 DEF HandlerEnds
<1>6. CASE Finish(w)
  BY <1>6, TypeFinish
<1>7. CASE DatabaseError(w)
  BY <1>7 DEF DatabaseError
<1>8. CASE ReleaseLock(w)
  <2>1. lock' \in [Conversations -> Workers \cup {Nobody}] BY <1>8 DEF ReleaseLock, KeyOf
  <2>2. outcome' \in [Workers -> Outcomes] BY <1>8 DEF ReleaseLock
  <2>3. QED BY <1>8, <2>1, <2>2 DEF ReleaseLock
<1>9. CASE SettleMessage(w)
  <2>1. message' \in [Jobs -> {"none", "waiting"} \cup Workers] BY <1>9 DEF SettleMessage
  <2>2. result' \in [Jobs -> BOOLEAN] BY <1>9 DEF SettleMessage
  <2>3. started' \in [Workers -> [number : Nat, limit : Nat, budget : Int]]
    BY <1>9 DEF SettleMessage
  <2>4. QED BY <1>9, <2>1, <2>2, <2>3 DEF SettleMessage
<1>10. CASE WorkerCrash(w)
  BY <1>10 DEF WorkerCrash
<1>11. QED BY <1>1, <1>2, <1>3, <1>4, <1>5, <1>6, <1>7, <1>8, <1>9, <1>10 DEF Work

\* So do producers, operators, expiring keys and stuttering.
LEMMA TypeOther ==
  ASSUME TypeOK,
         \/ \E j \in Jobs : EnqueueOutbox(j) \/ ResultExpires(j) \/ Operate(j)
         \/ \E c \in Conversations : LockExpires(c)
         \/ UNCHANGED vars
  PROVE  TypeOK'
<1> USE ConstantsAssumption DEF ConstantsAssumption, TypeOK, Statuses, ledgerVars, rowVars,
        dispatchVars, arqVars, workerVars
<1>1. CASE \E j \in Jobs : EnqueueOutbox(j)
  BY <1>1 DEF EnqueueOutbox
<1>2. CASE \E j \in Jobs : ResultExpires(j)
  BY <1>2 DEF ResultExpires
<1>3. ASSUME NEW j \in Jobs, RetryDeadLetter(j) PROVE TypeOK'
  <2>1. BudgetAfterRetry(j) \in Nat \ {0} BY DEF BudgetAfterRetry
  <2>2. reopens[j] + 1 \in 0..MaxReopens BY <1>3 DEF RetryDeadLetter
  <2>3. QED BY <1>3, <2>1, <2>2 DEF RetryDeadLetter
<1>4. CASE \E j \in Jobs : \E s \in {"resolved", "discarded"} : CloseDeadLetter(j, s)
  BY <1>4 DEF CloseDeadLetter
<1>5. CASE \E c \in Conversations : LockExpires(c)
  BY <1>5 DEF LockExpires
<1>6. CASE UNCHANGED vars
  BY <1>6 DEF vars
<1>7. QED BY <1>1, <1>2, <1>3, <1>4, <1>5, <1>6 DEF Operate

(* The inductive invariant.  MessageInv ties a worker to the message it    *)
(* processes, LeaseInv a dispatch lease to a dispatching row, AttemptInv   *)
(* the numbers a worker has read to the row it owns, and BudgetInv is the  *)
(* part of the budget that the next attempt and the next deferral rely on. *)

MessageInv ==
  /\ \A w \in Workers : pc[w] # "idle" => job[w] \in Jobs /\ message[job[w]] = w
  /\ \A w \in Workers : pc[w] = "finishing" => outcome[w] # "none"

LeaseInv == \A j \in Jobs : lease[j] # Nobody => status[j] = "dispatching"

AttemptInv ==
  \A w \in Workers : InAttempt(w) =>
    /\ OwnsRow(w)
    /\ started[w].limit = maxAttempts[job[w]]
    /\ started[w].budget = attemptCount[job[w]] - deferralCount[job[w]]

BudgetInv ==
  /\ RetryBudget
  /\ \A j \in Jobs : status[j] = "processing" => deferralCount[j] < attemptCount[j]
  /\ \A j \in Jobs : status[j] = "absent" => attemptCount[j] = 0 /\ deferralCount[j] = 0

IInv == TypeOK /\ MessageInv /\ LeaseInv /\ AttemptInv /\ BudgetInv

\* Before anything is enqueued the invariant holds of every job.
LEMMA IInvInit == Init => IInv
<1> SUFFICES ASSUME Init PROVE IInv
  OBVIOUS
<1>1. TypeOK BY TypeInit
<1>2. MessageInv /\ LeaseInv /\ AttemptInv
  BY DEF Init, MessageInv, LeaseInv, AttemptInv, InAttempt
<1>3. BudgetInv
  BY ConstantsAssumption DEF ConstantsAssumption, Init, BudgetInv, RetryBudget
<1>4. QED BY <1>1, <1>2, <1>3 DEF IInv

\* A dispatcher writes status and lease only, and never of a processing row.
LEMMA DispatcherFrame ==
  ASSUME IInv, NEW d \in Dispatchers, Dispatch(d)
  PROVE  /\ UNCHANGED <<attemptCount, maxAttempts, deferralCount, attempts, deadLetter>>
         /\ UNCHANGED <<workerVars, lock, result>>
         /\ \A j \in Jobs : status'[j] # status[j] =>
              /\ status[j] \in {"pending", "failed", "dispatching"}
              /\ status'[j] \in {"pending", "failed", "dispatching", "queued"}
         /\ \A j \in Jobs : lease'[j] # Nobody => status'[j] = "dispatching"
         /\ \A j \in Jobs : message[j] # "none" => message'[j] = message[j]
<1> USE ConstantsAssumption DEF ConstantsAssumption, IInv, LeaseInv, TypeOK, ledgerVars, rowVars,
        arqVars, workerVars
<1>1. CASE \E claimed \in SUBSET Jobs : Claim(d, claimed)
  BY <1>1 DEF Claim, Claimable
<1>2. CASE \E j \in Jobs : ReleaseHold(d, j)
  BY <1>2 DEF ReleaseHold
<1>3. CASE \E j \in Jobs : Enqueue(d, j)
  BY <1>3 DEF Enqueue, ArqEnqueue
<1>4. CASE \E j \in Jobs : EnqueueFails(d, j)
  BY <1>4 DEF EnqueueFails, ArqEnqueue
<1>5. CASE MarkQueued(d)
  BY <1>5 DEF MarkQueued
<1>6. CASE DispatcherCrash(d)
  BY <1>6 DEF DispatcherCrash
<1>7. QED BY <1>1, <1>2, <1>3, <1>4, <1>5, <1>6 DEF Dispatch

\* A dispatcher moves rows that no worker has an attempt of.
LEMMA IInvDispatch ==
  ASSUME IInv, NEW d \in Dispatchers, Dispatch(d)
  PROVE  IInv'
<1>1. TypeOK' BY TypeDispatch DEF IInv
<1>2. MessageInv'
  BY DispatcherFrame, ConstantsAssumption
     DEF ConstantsAssumption, IInv, MessageInv, workerVars, TypeOK
<1>3. LeaseInv'
  BY DispatcherFrame DEF LeaseInv
<1>4. AttemptInv'
  BY DispatcherFrame DEF IInv, AttemptInv, MessageInv, InAttempt, OwnsRow, workerVars
<1>5. BudgetInv'
  BY DispatcherFrame DEF IInv, BudgetInv, RetryBudget
<1>6. QED BY <1>1, <1>2, <1>3, <1>4, <1>5 DEF IInv

\* Two workers that are not idle have different jobs.
LEMMA OneWorkerPerJob ==
  ASSUME MessageInv, NEW v \in Workers, NEW w \in Workers, v # w,
         pc[v] # "idle", pc[w] # "idle"
  PROVE  job[v] # job[w]
BY DEF MessageInv

\* _start_attempt charges the one worker whose message is that of the job.
LEMMA IInvStart ==
  ASSUME IInv, NEW w \in Workers, StartAttempt(w)
  PROVE  MessageInv' /\ LeaseInv' /\ AttemptInv' /\ BudgetInv'
<1> DEFINE j == job[w]
<1> USE DEF IInv
<1>0. j \in Jobs /\ pc[w] = "starting" BY DEF StartAttempt, MessageInv
<1>1. MessageInv'
  BY DEF StartAttempt, MessageInv, arqVars, TypeOK
<1>2. CASE ~Ready(j)
  <2>1. UNCHANGED <<rowVars, job, started>> BY <1>2 DEF StartAttempt, rowVars
  <2>2. \A v \in Workers : InAttempt(v)' => InAttempt(v)
    BY <1>0, <1>2 DEF StartAttempt, InAttempt, TypeOK
  <2>3. LeaseInv' /\ BudgetInv' BY <2>1 DEF LeaseInv, BudgetInv, RetryBudget, rowVars
  <2>4. AttemptInv' BY <2>1, <2>2 DEF AttemptInv, OwnsRow, rowVars
  <2>5. QED BY <1>1, <2>3, <2>4
<1>3. CASE Ready(j)
  <2>1. /\ status' = [status EXCEPT ![j] = "processing"]
        /\ attemptCount' = [attemptCount EXCEPT ![j] = attemptCount[j] + 1]
        /\ lease' = [lease EXCEPT ![j] = Nobody]
        /\ pc' = [pc EXCEPT ![w] = "running"]
        /\ UNCHANGED <<maxAttempts, deferralCount, job>>
    BY <1>3 DEF StartAttempt, AttemptNumber
  <2>6. started' = [started EXCEPT ![w] =
                      [number |-> AttemptNumber(j), limit |-> maxAttempts[j],
                       budget |-> AttemptNumber(j) - deferralCount[j]]]
    BY <1>3 DEF StartAttempt
  <2>2. LeaseInv' BY <1>0, <2>1 DEF LeaseInv, TypeOK
  <2>3. AttemptInv'
    <3>1. SUFFICES ASSUME NEW v \in Workers, InAttempt(v)'
          PROVE  /\ OwnsRow(v)'
                 /\ started'[v].limit = maxAttempts'[job'[v]]
                 /\ started'[v].budget = attemptCount'[job'[v]] - deferralCount'[job'[v]]
      BY DEF AttemptInv
    <3>2. CASE v = w
      BY <1>0, <2>1, <2>6, <3>2 DEF OwnsRow, AttemptNumber, TypeOK
    <3>3. CASE v # w
      <4>1. InAttempt(v) /\ pc[v] # "idle" BY <2>1, <3>1, <3>3 DEF InAttempt, TypeOK
      <4>2. job[v] # j BY <1>0, <3>3, <4>1, OneWorkerPerJob
      <4>3. job[v] \in Jobs BY <4>1 DEF MessageInv
      <4>4. QED BY <1>0, <2>1, <2>6, <3>3, <4>1, <4>2, <4>3 DEF AttemptInv, OwnsRow, TypeOK
    <3>4. QED BY <3>2, <3>3
  <2>4. BudgetInv'
    <3>1. status[j] \in {"pending", "dispatching", "queued", "failed"} BY <1>3 DEF Ready
    <3>2. QED BY <1>0, <2>1, <3>1 DEF BudgetInv, RetryBudget, TypeOK
  <2>7. QED BY <1>1, <2>2, <2>3, <2>4
<1>4. QED BY <1>2, <1>3

\* What a finishing transaction does to the rows; the owner's row matches.
LEMMA FinishFrame ==
  ASSUME IInv, NEW w \in Workers, Finish(w)
  PROVE  /\ job[w] \in Jobs /\ pc[w] = "finishing" /\ OwnsRow(w)
         /\ \E s \in {"succeeded", "pending", "failed", "dead_letter"} :
              /\ status' = [status EXCEPT ![job[w]] = s]
              /\ s = "failed" => started[w].budget < started[w].limit
              /\ \/ /\ deferralCount' = [deferralCount EXCEPT ![job[w]] = @ + 1]
                    /\ s = "pending"
                 \/ UNCHANGED deferralCount /\ s # "pending"
         /\ UNCHANGED <<attemptCount, maxAttempts, lease, arqVars, job, started, lock>>
         /\ pc' = [pc EXCEPT ![w] = "releasing"]
         /\ \A v \in Workers : v # w => outcome'[v] = outcome[v]
<1> USE DEF IInv
<1>1. pc[w] = "finishing" BY DEF Finish, FinishSuccess, FinishDeferred, FinishFailure
<1>2. job[w] \in Jobs BY <1>1 DEF MessageInv
<1>3. OwnsRow(w) BY <1>1 DEF AttemptInv, InAttempt
<1>4. CASE FinishSuccess(w)
  BY <1>1, <1>2, <1>3, <1>4 DEF FinishSuccess, TypeOK
<1>5. CASE FinishDeferred(w)
  BY <1>1, <1>2, <1>3, <1>5 DEF FinishDeferred, TypeOK
<1>6. CASE FinishFailure(w)
  <2>1. CASE Terminal(w)
    BY <1>1, <1>2, <1>3, <1>6, <2>1 DEF FinishFailure, TypeOK
  <2>2. CASE ~Terminal(w)
    <3>1. started[w].budget < started[w].limit BY <2>2 DEF Terminal, TypeOK
    <3>2. QED BY <1>1, <1>2, <1>3, <1>6, <2>2, <3>1 DEF FinishFailure, TypeOK
  <2>3. QED BY <2>1, <2>2
<1>7. QED BY <1>4, <1>5, <1>6 DEF Finish

\* Finishing an attempt gives its row up with the budget it was charged to.
LEMMA IInvFinish ==
  ASSUME IInv, NEW w \in Workers, Finish(w)
  PROVE  MessageInv' /\ LeaseInv' /\ AttemptInv' /\ BudgetInv'
<1> USE DEF IInv
<1>1. MessageInv'
  BY FinishFrame DEF MessageInv, arqVars, TypeOK
<1>2. LeaseInv'
  BY FinishFrame DEF LeaseInv, OwnsRow, TypeOK
<1>3. AttemptInv'
  <2>1. SUFFICES ASSUME NEW v \in Workers, InAttempt(v)'
        PROVE  /\ OwnsRow(v)'
               /\ started'[v].limit = maxAttempts'[job'[v]]
               /\ started'[v].budget = attemptCount'[job'[v]] - deferralCount'[job'[v]]
    BY DEF AttemptInv
  <2>2. v # w /\ InAttempt(v) BY <2>1, FinishFrame DEF InAttempt, TypeOK
  <2>3. job[v] # job[w] /\ job[v] \in Jobs
    BY <2>2, FinishFrame, OneWorkerPerJob DEF InAttempt, MessageInv
  <2>4. QED BY <2>2, <2>3, FinishFrame, SMTT(30) DEF AttemptInv, OwnsRow, TypeOK
<1>4. BudgetInv'
  <2>1. PICK s \in {"succeeded", "pending", "failed", "dead_letter"} :
          /\ status' = [status EXCEPT ![job[w]] = s]
          /\ s = "failed" => started[w].budget < started[w].limit
          /\ \/ /\ deferralCount' = [deferralCount EXCEPT ![job[w]] = @ + 1]
                /\ s = "pending"
             \/ UNCHANGED deferralCount /\ s # "pending"
    BY FinishFrame
  <2>2. /\ started[w].limit = maxAttempts[job[w]]
        /\ started[w].budget = attemptCount[job[w]] - deferralCount[job[w]]
        /\ status[job[w]] = "processing" /\ job[w] \in Jobs
        /\ UNCHANGED <<attemptCount, maxAttempts>>
    BY FinishFrame DEF AttemptInv, InAttempt, OwnsRow
  <2>3. CASE s = "pending"
    BY <2>1, <2>2, <2>3 DEF BudgetInv, RetryBudget, TypeOK
  <2>4. CASE s # "pending"
    BY <2>1, <2>2, <2>4 DEF BudgetInv, RetryBudget, TypeOK
  <2>5. QED BY <2>3, <2>4
<1>5. QED BY <1>1, <1>2, <1>3, <1>4

\* Between those two a worker only moves on, or dies.
LEMMA IInvWork ==
  ASSUME IInv, NEW w \in Workers, Work(w)
  PROVE  IInv'
<1> USE ConstantsAssumption DEF ConstantsAssumption, IInv
<1>0. TypeOK'
  <2>1. HasJob BY DEF MessageInv, HasJob
  <2>2. QED BY <2>1, TypeWork
<1>1. CASE StartAttempt(w) BY <1>0, <1>1, IInvStart
<1>2. CASE Finish(w) BY <1>0, <1>2, IInvFinish
<1>3. CASE ~StartAttempt(w) /\ ~Finish(w)
  <2>1. UNCHANGED <<rowVars, deadLetter>>
    BY <1>3 DEF Work, Deliver, AcquireLock, LockTimeout, HandlerEnds, DatabaseError, ReleaseLock,
                SettleMessage, WorkerCrash, ledgerVars
  <2>2. LeaseInv' /\ BudgetInv'
    BY <2>1 DEF LeaseInv, BudgetInv, RetryBudget, rowVars
  <2>3. \A v \in Workers : InAttempt(v)' =>
          /\ InAttempt(v)
          /\ job'[v] = job[v] /\ started'[v] = started[v]
    BY <1>3 DEF Work, Deliver, AcquireLock, LockTimeout, HandlerEnds, DatabaseError, ReleaseLock,
                SettleMessage, WorkerCrash, InAttempt, TypeOK
  <2>4. AttemptInv'
    BY <2>1, <2>3 DEF AttemptInv, OwnsRow, rowVars
  <2>5. MessageInv'
    <3>1. CASE \E j \in Jobs : Deliver(w, j)
      BY <3>1 DEF Deliver, MessageInv, TypeOK
    <3>2. CASE AcquireLock(w) \/ LockTimeout(w) \/ DatabaseError(w) \/ ReleaseLock(w)
      BY <3>2 DEF AcquireLock, LockTimeout, DatabaseError, ReleaseLock, MessageInv, TypeOK, arqVars
    <3>3. CASE \E o \in Outcomes : HandlerEnds(w, o)
      BY <3>3 DEF HandlerEnds, MessageInv, TypeOK, arqVars
    <3>4. CASE SettleMessage(w)
      BY <3>4 DEF SettleMessage, MessageInv, TypeOK
    <3>5. CASE WorkerCrash(w)
      BY <3>5 DEF WorkerCrash, MessageInv, TypeOK
    <3>6. QED BY <1>3, <3>1, <3>2, <3>3, <3>4, <3>5 DEF Work
  <2>6. QED BY <1>0, <2>2, <2>4, <2>5
<1>4. QED BY <1>1, <1>2, <1>3

\* An operator raises the limit of a row that no worker is in an attempt of.
LEMMA IInvOther ==
  ASSUME IInv,
         \/ \E j \in Jobs : EnqueueOutbox(j) \/ ResultExpires(j) \/ Operate(j)
         \/ \E c \in Conversations : LockExpires(c)
         \/ UNCHANGED vars
  PROVE  IInv'
<1> USE DEF IInv
<1>0. TypeOK' BY TypeOther
<1>1. ASSUME NEW j \in Jobs, EnqueueOutbox(j) PROVE IInv'
  <2>1. MessageInv' BY <1>1 DEF EnqueueOutbox, MessageInv, arqVars, workerVars
  <2>2. LeaseInv' BY <1>1 DEF EnqueueOutbox, LeaseInv, TypeOK
  <2>3. AttemptInv'
    BY <1>1 DEF EnqueueOutbox, AttemptInv, MessageInv, InAttempt, OwnsRow, workerVars, TypeOK
  <2>4. BudgetInv' BY <1>1 DEF EnqueueOutbox, BudgetInv, RetryBudget, TypeOK
  <2>5. QED BY <1>0, <2>1, <2>2, <2>3, <2>4
<1>2. ASSUME NEW j \in Jobs, RetryDeadLetter(j) PROVE IInv'
  <2>1. MessageInv' BY <1>2 DEF RetryDeadLetter, MessageInv, arqVars, workerVars
  <2>2. LeaseInv' BY <1>2 DEF RetryDeadLetter, LeaseInv, TypeOK
  <2>3. AttemptInv'
    BY <1>2 DEF RetryDeadLetter, AttemptInv, MessageInv, InAttempt, OwnsRow, workerVars, TypeOK
  <2>4. BudgetInv'
    BY <1>2 DEF RetryDeadLetter, BudgetAfterRetry, BudgetInv, RetryBudget, TypeOK
  <2>5. QED BY <1>0, <2>1, <2>2, <2>3, <2>4
<1>3. CASE \/ \E j \in Jobs : ResultExpires(j)
           \/ \E j \in Jobs : \E s \in {"resolved", "discarded"} : CloseDeadLetter(j, s)
           \/ \E c \in Conversations : LockExpires(c)
           \/ UNCHANGED vars
  <2>1. UNCHANGED <<rowVars, message, workerVars>>
    BY <1>3 DEF ResultExpires, CloseDeadLetter, LockExpires, vars, ledgerVars, arqVars
  <2>2. QED
    BY <1>0, <2>1 DEF rowVars, workerVars, MessageInv, LeaseInv, AttemptInv, InAttempt, OwnsRow,
                      BudgetInv, RetryBudget
<1>4. QED BY <1>1, <1>2, <1>3 DEF Operate

\* IInv is an invariant of the queue under every fault: the mutual exclusion of
\* _start_attempt and the budget of each row, with what they rest on.
THEOREM InductiveInvariant == Spec => []IInv
<1>1. IInv /\ [Next]_vars => IInv'
  BY IInvDispatch, IInvWork, IInvOther DEF Next
<1>2. QED BY IInvInit, <1>1, PTL DEF Spec

\* The variables keep their types.
THEOREM TypeCorrect == Spec => []TypeOK
<1>1. IInv => TypeOK BY DEF IInv
<1>2. QED BY <1>1, InductiveInvariant, PTL

\* One attempt of a job at a time, whose row nobody else changes: no finishing
\* transaction of DurableJobRunner finds the row changed concurrently.
THEOREM SingleFlightHolds == Spec => []SingleFlight
<1>1. IInv => SingleFlight
  BY OneWorkerPerJob DEF IInv, AttemptInv, InAttempt, SingleFlight
<1>2. QED BY <1>1, InductiveInvariant, PTL

\* The attempts charged to a job stay within max_attempts, and a row that waits
\* for a dispatcher or a worker has budget left.
THEOREM RetryBudgetHolds == Spec => []RetryBudget
<1>1. IInv => RetryBudget BY DEF IInv, BudgetInv
<1>2. QED BY <1>1, InductiveInvariant, PTL

(* The rows of job_attempts.  LedgerInv says of every row what             *)
(* AttemptLedger says of the set: only _start_attempt adds a row, numbered  *)
(* after all the others, and only the attempt in flight is ever 'started'.  *)

LedgerInv ==
  /\ \A r \in attempts : r.number <= attemptCount[r.job]
  /\ \A j \in Jobs : \A n \in 1..attemptCount[j] :
       \E r \in attempts : r.job = j /\ r.number = n
  /\ \A r, s \in attempts : r.job = s.job /\ r.number = s.number => r = s
  /\ \A r \in attempts : r.status = "started" =>
       status[r.job] = "processing" /\ r.number = attemptCount[r.job]

\* What the steps of a worker outside _start_attempt and the _finish_
\* transactions leave alone.
LEMMA WorkFrame ==
  ASSUME NEW w \in Workers, Work(w), ~StartAttempt(w), ~Finish(w)
  PROVE  UNCHANGED <<ledgerVars, dispatchVars>>
BY DEF Work, Deliver, AcquireLock, LockTimeout, HandlerEnds, DatabaseError, ReleaseLock,
       SettleMessage, WorkerCrash, ledgerVars

\* Steps that leave the attempts, their count and every processing row alone.
LEMMA LedgerKept ==
  ASSUME TypeOK, LedgerInv, UNCHANGED <<attempts, attemptCount>>,
         \A j \in Jobs : status[j] = "processing" => status'[j] = "processing"
  PROVE  LedgerInv'
BY DEF LedgerInv, TypeOK

\* _start_attempt inserts the row with the number it has just counted.
LEMMA LedgerStart ==
  ASSUME IInv, LedgerInv, NEW w \in Workers, StartAttempt(w)
  PROVE  LedgerInv'
<1>0. PICK j \in Jobs : j = job[w] BY DEF IInv, MessageInv, StartAttempt
<1>1. CASE ~Ready(j)
  <2>1. UNCHANGED <<attempts, attemptCount, status>> BY <1>0, <1>1 DEF StartAttempt
  <2>2. QED BY <2>1, LedgerKept DEF IInv
<1>2. CASE Ready(j)
  <2> DEFINE n == attemptCount[j] + 1
             new == Row(j, n, "started")
  <2>1. /\ status' = [status EXCEPT ![j] = "processing"]
        /\ attemptCount' = [attemptCount EXCEPT ![j] = n]
        /\ attempts' = attempts \cup {new}
    BY <1>0, <1>2 DEF StartAttempt, AttemptNumber
  <2>2. new.job = j /\ new.number = n /\ new.status = "started" BY DEF Row
  <2>3. /\ \A k \in Jobs : attemptCount[k] \in Nat
        /\ \A r \in attempts : r.job \in Jobs /\ r.number \in Nat \ {0}
    BY DEF IInv, TypeOK
  <2>4. /\ attemptCount'[j] = n /\ status'[j] = "processing"
        /\ \A k \in Jobs : k # j =>
             attemptCount'[k] = attemptCount[k] /\ status'[k] = status[k]
    BY <2>1 DEF IInv, TypeOK
  <2>5. \A r \in attempts : r.job = j => r.number < n /\ r.status # "started"
    <3>1. \A r \in attempts : r.number <= attemptCount[r.job] BY DEF LedgerInv
    <3>2. status[j] # "processing" BY <1>2 DEF Ready
    <3>3. \A r \in attempts : r.job = j => r.status # "started" BY <3>2 DEF LedgerInv
    <3>4. \A r \in attempts : r.job = j => r.number < n BY <2>3, <3>1
    <3>5. QED BY <3>3, <3>4
  <2> HIDE DEF new
  <2>6. \A r \in attempts' : r.number <= attemptCount'[r.job]
    BY <2>1, <2>2, <2>3, <2>4, <2>5 DEF LedgerInv
  <2>7. ASSUME NEW k \in Jobs, NEW m \in 1..attemptCount'[k]
        PROVE \E r \in attempts' : r.job = k /\ r.number = m
    <3>1. CASE k = j /\ m = n BY <2>1, <2>2, <3>1
    <3>2. CASE ~(k = j /\ m = n)
      <4>1. m \in 1..attemptCount[k] BY <2>3, <2>4, <2>7, <3>2
      <4>2. QED BY <2>1, <4>1 DEF LedgerInv
    <3>3. QED BY <3>1, <3>2
  <2>8. ASSUME NEW r \in attempts', NEW s \in attempts', r.job = s.job, r.number = s.number
        PROVE r = s
    <3>1. r.job = j => (r = new \/ r.number < n) BY <2>1, <2>5
    <3>2. s.job = j => (s = new \/ s.number < n) BY <2>1, <2>5
    <3>3. CASE r = new \/ s = new
      BY <2>2, <2>3, <2>8, <3>1, <3>2, <3>3
    <3>4. CASE r # new /\ s # new BY <2>1, <2>8, <3>4 DEF LedgerInv
    <3>5. QED BY <3>3, <3>4
  <2>9. \A r \in attempts' : r.status = "started" =>
          status'[r.job] = "processing" /\ r.number = attemptCount'[r.job]
    BY <2>1, <2>2, <2>3, <2>4, <2>5 DEF LedgerInv
  <2>10. QED BY <2>6, <2>7, <2>8, <2>9 DEF LedgerInv
<1>3. QED BY <1>1, <1>2

\* A finishing transaction settles the row of the attempt in flight.
LEMMA FinishSettles ==
  ASSUME IInv, NEW w \in Workers, Finish(w)
  PROVE  \E s \in {"succeeded", "failed"} : SettleAttempt(job[w], started[w].number, s)
<1>1. OwnsRow(w) BY FinishFrame
<1>2. CASE FinishSuccess(w) BY <1>1, <1>2 DEF FinishSuccess
<1>3. CASE FinishDeferred(w) BY <1>1, <1>3 DEF FinishDeferred
<1>4. CASE FinishFailure(w) BY <1>4 DEF FinishFailure
<1>5. QED BY <1>2, <1>3, <1>4 DEF Finish

\* The end of an attempt settles its own row and no other.
LEMMA LedgerFinish ==
  ASSUME IInv, LedgerInv, NEW w \in Workers, Finish(w)
  PROVE  LedgerInv'
<1>0. PICK j \in Jobs : j = job[w] BY FinishFrame
<1>1. /\ UNCHANGED attemptCount
      /\ \A k \in Jobs : k # j => status'[k] = status[k]
      /\ started[w].number = attemptCount[j]
  BY <1>0, FinishFrame DEF OwnsRow, IInv, TypeOK
<1>2. PICK s \in {"succeeded", "failed"} : SettleAttempt(j, attemptCount[j], s)
  BY <1>0, <1>1, FinishSettles
<1> DEFINE after(r) == IF r.job = j /\ r.number = attemptCount[j]
                       THEN Row(j, attemptCount[j], s) ELSE r
<1>3. attempts' = {after(r) : r \in attempts} BY <1>2 DEF SettleAttempt
<1>4. ASSUME NEW r \in attempts
      PROVE /\ after(r).job = r.job /\ after(r).number = r.number
            /\ after(r).status = "started" =>
                 r.status = "started" /\ ~(r.job = j /\ r.number = attemptCount[j])
  BY DEF Row
<1>5. \A r \in attempts : r.job \in Jobs BY DEF IInv, TypeOK
<1> HIDE DEF after
<1>6. \A r \in attempts' : r.number <= attemptCount'[r.job]
  BY <1>1, <1>3, <1>4 DEF LedgerInv
<1>7. ASSUME NEW k \in Jobs, NEW m \in 1..attemptCount'[k]
      PROVE \E r \in attempts' : r.job = k /\ r.number = m
  <2>1. PICK r \in attempts : r.job = k /\ r.number = m BY <1>1 DEF LedgerInv
  <2>2. after(r) \in attempts' BY <1>3
  <2>3. QED BY <1>4, <2>1, <2>2
<1>8. ASSUME NEW p \in attempts', NEW q \in attempts', p.job = q.job, p.number = q.number
      PROVE p = q
  <2>1. PICK r \in attempts : p = after(r) BY <1>3
  <2>2. PICK t \in attempts : q = after(t) BY <1>3
  <2>3. r.job = t.job /\ r.number = t.number BY <1>4, <1>8, <2>1, <2>2
  <2>4. r = t BY <2>3 DEF LedgerInv
  <2>5. QED BY <2>1, <2>2, <2>4
<1>9. ASSUME NEW p \in attempts', p.status = "started"
      PROVE status'[p.job] = "processing" /\ p.number = attemptCount'[p.job]
  <2>1. PICK r \in attempts : p = after(r) BY <1>3
  <2>2. /\ r.status = "started" /\ ~(r.job = j /\ r.number = attemptCount[j])
        /\ p.job = r.job /\ p.number = r.number
    BY <1>4, <1>9, <2>1
  <2>3. status[r.job] = "processing" /\ r.number = attemptCount[r.job]
    BY <2>2 DEF LedgerInv
  <2>4. r.job # j BY <2>2, <2>3
  <2>5. QED BY <1>1, <1>5, <2>2, <2>3, <2>4
<1>10. QED BY <1>6, <1>7, <1>8, <1>9 DEF LedgerInv

\* Only a start and a finish touch the rows of attempts.
LEMMA LedgerStep == IInv /\ LedgerInv /\ [Next]_vars => LedgerInv'
<1> SUFFICES ASSUME IInv, LedgerInv, [Next]_vars PROVE LedgerInv'
  OBVIOUS
<1> USE DEF IInv
<1>1. ASSUME NEW d \in Dispatchers, Dispatch(d) PROVE LedgerInv'
  <2>1. /\ UNCHANGED <<attempts, attemptCount>>
        /\ \A j \in Jobs : status[j] = "processing" => status'[j] = "processing"
    BY <1>1, DispatcherFrame
  <2>2. QED BY <2>1, LedgerKept
<1>2. ASSUME NEW w \in Workers, Work(w) PROVE LedgerInv'
  <2>1. CASE StartAttempt(w) BY <2>1, LedgerStart
  <2>2. CASE Finish(w) BY <2>2, LedgerFinish
  <2>3. CASE ~StartAttempt(w) /\ ~Finish(w)
    BY <1>2, <2>3, WorkFrame, LedgerKept DEF ledgerVars, rowVars
  <2>4. QED BY <2>1, <2>2, <2>3
<1>3. ASSUME NEW j \in Jobs, EnqueueOutbox(j) \/ RetryDeadLetter(j) PROVE LedgerInv'
  <2>1. /\ UNCHANGED <<attempts, attemptCount>>
        /\ status' = [status EXCEPT ![j] = "pending"]
        /\ status[j] # "processing"
    BY <1>3 DEF EnqueueOutbox, RetryDeadLetter
  <2>2. \A k \in Jobs : status[k] = "processing" => status'[k] = "processing"
    BY <2>1 DEF TypeOK
  <2>3. QED BY <2>1, <2>2, LedgerKept
<1>4. CASE \/ \E j \in Jobs : ResultExpires(j)
           \/ \E j \in Jobs : \E s \in {"resolved", "discarded"} : CloseDeadLetter(j, s)
           \/ \E c \in Conversations : LockExpires(c)
           \/ UNCHANGED vars
  <2>1. UNCHANGED <<attempts, attemptCount, status>>
    BY <1>4 DEF ResultExpires, CloseDeadLetter, LockExpires, vars, ledgerVars, rowVars
  <2>2. QED BY <2>1, LedgerKept
<1>5. QED BY <1>1, <1>2, <1>3, <1>4 DEF Next, Operate

\* One row of job_attempts for every number up to attempt_count, and 'started'
\* only while its attempt is in flight: no INSERT of _start_attempt can meet
\* the unique key, whatever redeliveries, crashes and deferrals do.
THEOREM AttemptLedgerHolds == Spec => []AttemptLedger
<1>1. Init => LedgerInv
  BY ConstantsAssumption DEF ConstantsAssumption, Init, LedgerInv
<1>2. TypeOK /\ LedgerInv => AttemptLedger
  <2> SUFFICES ASSUME TypeOK, LedgerInv PROVE AttemptLedger
    OBVIOUS
  <2>1. ASSUME NEW j \in Jobs
        PROVE {r.number : r \in {x \in attempts : x.job = j}} = 1..attemptCount[j]
    <3>1. ASSUME NEW r \in attempts, r.job = j PROVE r.number \in 1..attemptCount[j]
      <4>1. r.number \in Nat \ {0} /\ attemptCount[j] \in Nat BY DEF TypeOK
      <4>2. r.number <= attemptCount[j] BY <3>1 DEF LedgerInv
      <4>3. QED BY <4>1, <4>2
    <3>2. \A n \in 1..attemptCount[j] : \E r \in attempts : r.job = j /\ r.number = n
      BY DEF LedgerInv
    <3>3. QED BY <3>1, <3>2
  <2>2. QED BY <2>1 DEF AttemptLedger, LedgerInv
<1>3. QED BY <1>1, <1>2, LedgerStep, InductiveInvariant, TypeCorrect, PTL DEF Spec

(* The conversation lock, while the renewal task keeps every lease.        *)

Holding(w) == pc[w] \in {"starting", "running", "finishing", "releasing"}

\* Every worker past SET NX and before the delete is the one the key names.
LockInv == \A w \in Workers : Holding(w) => lock[KeyOf(w)] = w

\* Steps of others leave the key with its holder.
LEMMA LockKept ==
  ASSUME LockInv, UNCHANGED <<workerVars, lock>>
  PROVE  LockInv'
BY DEF LockInv, Holding, KeyOf, workerVars

\* A worker takes the key when there is none, and deletes it only as its own.
LEMMA LockWork ==
  ASSUME IInv, LockInv, NEW w \in Workers, Work(w)
  PROVE  LockInv'
<1> USE ConstantsAssumption DEF ConstantsAssumption
<1>0. /\ pc \in [Workers -> Locations] /\ job \in [Workers -> Jobs \cup {Nobody}]
      /\ lock \in [Conversations -> Workers \cup {Nobody}]
      /\ \A v \in Workers : pc[v] # "idle" => KeyOf(v) \in Conversations
  BY DEF IInv, TypeOK, MessageInv, KeyOf
\* A step of w that takes it no further into the lock than it is.
<1>1. ASSUME UNCHANGED lock,
             \A v \in Workers : v # w => pc'[v] = pc[v] /\ job'[v] = job[v],
             Holding(w)' => Holding(w) /\ job'[w] = job[w]
      PROVE LockInv'
  BY <1>1 DEF LockInv, Holding, KeyOf
<1>2. CASE \E j \in Jobs : Deliver(w, j)
  BY <1>0, <1>1, <1>2 DEF Deliver, Holding
<1>3. CASE AcquireLock(w)
  <2>1. SUFFICES ASSUME NEW v \in Workers, Holding(v)' PROVE lock'[KeyOf(v)'] = v
    BY DEF LockInv
  <2>2. /\ lock[KeyOf(w)] = Nobody /\ lock' = [lock EXCEPT ![KeyOf(w)] = w]
        /\ KeyOf(v)' = KeyOf(v) /\ pc' = [pc EXCEPT ![w] = "starting"]
        /\ KeyOf(w) \in Conversations
    BY <1>0, <1>3 DEF AcquireLock, KeyOf
  <2>3. CASE v = w BY <1>0, <2>2, <2>3
  <2>4. CASE v # w
    <3>1. Holding(v) BY <1>0, <2>1, <2>2, <2>4 DEF Holding
    <3>2. lock[KeyOf(v)] = v BY <3>1 DEF LockInv
    <3>3. KeyOf(v) # KeyOf(w) BY <2>2, <3>2
    <3>4. QED BY <1>0, <2>2, <3>2, <3>3
  <2>5. QED BY <2>3, <2>4
<1>4. CASE LockTimeout(w)
  BY <1>0, <1>1, <1>4 DEF LockTimeout, Holding
<1>5. CASE StartAttempt(w) \/ \E o \in Outcomes : HandlerEnds(w, o)
  BY <1>0, <1>1, <1>5 DEF StartAttempt, HandlerEnds, Holding
<1>6. CASE Finish(w) \/ DatabaseError(w)
  BY <1>0, <1>1, <1>6 DEF Finish, FinishSuccess, FinishDeferred, FinishFailure, DatabaseError,
                          Holding
<1>7. CASE ReleaseLock(w)
  <2>1. SUFFICES ASSUME NEW v \in Workers, Holding(v)' PROVE lock'[KeyOf(v)'] = v
    BY DEF LockInv
  <2>2. /\ lock[KeyOf(w)] = w /\ lock' = [lock EXCEPT ![KeyOf(w)] = Nobody]
        /\ KeyOf(v)' = KeyOf(v) /\ pc' = [pc EXCEPT ![w] = "settling"]
    <3>1. Holding(w) BY <1>7 DEF ReleaseLock, Holding
    <3>2. lock[KeyOf(w)] = w BY <3>1 DEF LockInv
    <3>3. QED BY <1>7, <3>2 DEF ReleaseLock, KeyOf
  <2>3. v # w BY <1>0, <2>1, <2>2 DEF Holding
  <2>4. Holding(v) /\ lock[KeyOf(v)] = v BY <1>0, <2>1, <2>2, <2>3 DEF Holding, LockInv
  <2>5. KeyOf(v) # KeyOf(w) BY <2>2, <2>3, <2>4
  <2>6. QED BY <1>0, <2>2, <2>4, <2>5
<1>8. CASE SettleMessage(w) \/ WorkerCrash(w)
  BY <1>0, <1>1, <1>8 DEF SettleMessage, WorkerCrash, Holding
<1>9. QED BY <1>2, <1>3, <1>4, <1>5, <1>6, <1>7, <1>8 DEF Work

\* Without lease_loss a key only expires once its holder is gone.
LEMMA LockStep ==
  ASSUME "lease_loss" \notin Faults, IInv, LockInv, [Next]_vars
  PROVE  LockInv'
<1>1. ASSUME NEW d \in Dispatchers, Dispatch(d) PROVE LockInv'
  BY <1>1, DispatcherFrame, LockKept
<1>2. ASSUME NEW w \in Workers, Work(w) PROVE LockInv'
  BY <1>2, LockWork
<1>3. CASE \/ \E j \in Jobs : EnqueueOutbox(j) \/ ResultExpires(j) \/ Operate(j)
           \/ UNCHANGED vars
  <2>1. UNCHANGED <<workerVars, lock>>
    BY <1>3 DEF EnqueueOutbox, ResultExpires, Operate, RetryDeadLetter, CloseDeadLetter, vars
  <2>2. QED BY <2>1, LockKept
<1>4. ASSUME NEW c \in Conversations, LockExpires(c) PROVE LockInv'
  <2>1. SUFFICES ASSUME NEW v \in Workers, Holding(v)' PROVE lock'[KeyOf(v)'] = v
    BY DEF LockInv
  <2>2. /\ UNCHANGED workerVars /\ lock' = [lock EXCEPT ![c] = Nobody]
        /\ ~(Holding(lock[c]) /\ KeyOf(lock[c]) = c)
    BY <1>4 DEF LockExpires, Holding
  <2>3. Holding(v) /\ lock[KeyOf(v)] = v /\ KeyOf(v)' = KeyOf(v)
    BY <2>1, <2>2 DEF LockInv, Holding, KeyOf, workerVars
  <2>4. KeyOf(v) # c BY <2>2, <2>3
  <2>5. lock'[KeyOf(v)] = lock[KeyOf(v)]
    <3>1. KeyOf(v) \in Conversations
      BY <2>3, ConstantsAssumption DEF ConstantsAssumption, IInv, MessageInv, Holding, KeyOf
    <3>2. QED BY <2>2, <2>4, <3>1 DEF IInv, TypeOK
  <2>6. QED BY <2>3, <2>5
<1>5. QED BY <1>1, <1>2, <1>3, <1>4 DEF Next

\* While no lease runs out under a living holder, the key names who holds it.
LEMMA LockHolds ==
  ASSUME "lease_loss" \notin Faults
  PROVE  Spec => []LockInv
<1>1. Init => LockInv BY DEF Init, LockInv, Holding
<1>2. IInv /\ LockInv /\ [Next]_vars => LockInv' BY LockStep
<1>3. QED BY <1>1, <1>2, InductiveInvariant, PTL DEF Spec

\* As long as no lease of a living holder runs out, two runs of the jobs of
\* one conversation never overlap.
THEOREM ConversationSerializedHolds ==
  ASSUME "lease_loss" \notin Faults
  PROVE  Spec => []ConversationSerialized
<1>1. LockInv => ConversationSerialized
  BY DEF LockInv, Holding, ConversationSerialized
<1>2. QED BY <1>1, LockHolds, PTL

(* Why no queued row is lost under the faults the ledger is reconciled for: *)
(* a stored result of ARQ, which swallows the enqueue of its job id, only   *)
(* exists for jobs that no dispatcher claims any more.                      *)

DeliveryConditions ==
  /\ Faults \subseteq {"enqueue_error", "dispatcher_crash", "worker_crash", "shutdown"}
  /\ HeldJobs = {}
  /\ MaxReopens = 0

Over(j) == status[j] \in {"processing", "succeeded", "dead_letter"}
Ended(w) == pc[w] \in {"releasing", "settling"} /\ outcome[w] # "redeliver"
Handed(j) == message[j] # "none" \/ \E d \in Dispatchers : j \in batch[d]

ResultInv == \A j \in Jobs : result[j] => message[j] = "none" /\ Over(j)
EndedInv == \A w \in Workers : Ended(w) => Over(job[w])
OutcomeInv == \A w \in Workers : pc[w] = "finishing" =>
                outcome[w] \in {"ok", "error", "fatal", "shutdown"}
EnqueuedInv ==
  \A d \in Dispatchers : \A j \in Jobs : enqueued[d] = j =>
    /\ j \in batch[d]
    /\ status[j] = "dispatching" /\ lease[j] = d => message[j] # "none"
HandedInv == \A j \in Jobs : Handed(j) => status[j] \notin {"absent", "pending"}

DeliveryInv ==
  ResultInv /\ EndedInv /\ OutcomeInv /\ EnqueuedInv /\ HandedInv /\ QueuedIsDeliverable

\* No row is queued yet.
LEMMA DeliveryInit == Init => DeliveryInv
<1> SUFFICES ASSUME Init PROVE DeliveryInv
  OBVIOUS
<1>1. ResultInv /\ EndedInv /\ OutcomeInv BY DEF Init, ResultInv, EndedInv, OutcomeInv, Ended
<1>2. EnqueuedInv /\ HandedInv /\ QueuedIsDeliverable
  BY ConstantsAssumption
     DEF ConstantsAssumption, Init, EnqueuedInv, HandedInv, Handed, QueuedIsDeliverable
<1>3. QED BY <1>1, <1>2 DEF DeliveryInv

\* A row is marked queued by the dispatcher that gave its message to ARQ.
LEMMA DeliveryDispatch ==
  ASSUME DeliveryConditions, IInv, DeliveryInv, NEW d \in Dispatchers, Dispatch(d)
  PROVE  DeliveryInv'
<1> USE ConstantsAssumption DEF ConstantsAssumption
<1>0. /\ status \in [Jobs -> Statuses] /\ lease \in [Jobs -> Dispatchers \cup {Nobody}]
      /\ batch \in [Dispatchers -> SUBSET Jobs]
      /\ enqueued \in [Dispatchers -> Jobs \cup {Nobody}]
      /\ message \in [Jobs -> {"none", "waiting"} \cup Workers]
  BY DEF IInv, TypeOK
<1>1. /\ UNCHANGED <<workerVars, result>>
      /\ \A j \in Jobs : status'[j] # status[j] =>
           status[j] \in {"pending", "failed", "dispatching"}
      /\ \A j \in Jobs : message[j] # "none" => message'[j] = message[j]
  BY DispatcherFrame
\* A job with a stored result is settled: nothing enqueues it.
<1>2. \A j \in Jobs : message'[j] # message[j] => ~result[j]
  BY <1>0 DEF Dispatch, Claim, ReleaseHold, Enqueue, EnqueueFails, MarkQueued, DispatcherCrash,
              ArqEnqueue, arqVars
<1>3. \A j \in Jobs : Over(j) => Over(j)' BY <1>1 DEF Over
<1>4. ResultInv'
  <2>1. SUFFICES ASSUME NEW j \in Jobs, result'[j] PROVE message'[j] = "none" /\ Over(j)'
    BY DEF ResultInv
  <2>2. message[j] = "none" /\ Over(j) /\ result[j] BY <1>1, <2>1 DEF DeliveryInv, ResultInv
  <2>3. QED BY <1>2, <1>3, <2>2
<1>5. EndedInv'
  <2>1. SUFFICES ASSUME NEW w \in Workers, Ended(w)' PROVE Over(job[w])'
    BY <1>1 DEF EndedInv, workerVars
  <2>2. Ended(w) BY <1>1, <2>1 DEF Ended, workerVars
  <2>3. job[w] \in Jobs /\ Over(job[w])
    BY <2>2 DEF Ended, IInv, MessageInv, DeliveryInv, EndedInv
  <2>4. job'[w] = job[w] BY <1>1 DEF workerVars
  <2>5. status'[job[w]] = status[job[w]] BY <1>1, <2>3 DEF Over
  <2>6. QED BY <2>3, <2>4, <2>5 DEF Over
<1>6. OutcomeInv' BY <1>1 DEF DeliveryInv, OutcomeInv, workerVars
<1> DEFINE Rest == EnqueuedInv' /\ HandedInv' /\ QueuedIsDeliverable'
<1>7. Rest
  <2> SUFFICES Rest OBVIOUS
  <2> USE <1>0 DEF DeliveryInv, EnqueuedInv, HandedInv, Handed, QueuedIsDeliverable
  <2>1. CASE \E claimed \in SUBSET Jobs : Claim(d, claimed)
    <3>1. PICK claimed \in SUBSET Jobs : Claim(d, claimed) BY <2>1
    <3>2. /\ batch[d] = {} /\ batch' = [batch EXCEPT ![d] = claimed]
          /\ UNCHANGED <<enqueued, message>>
          /\ \A j \in Jobs : status'[j] = IF j \in claimed THEN "dispatching" ELSE status[j]
          /\ \A j \in Jobs : lease'[j] = IF j \in claimed THEN d ELSE lease[j]
      BY <3>1 DEF Claim, arqVars
    <3>3. enqueued[d] = Nobody BY <3>2
    <3>4. EnqueuedInv' BY <3>2, <3>3
    <3>5. HandedInv' BY <3>2
    <3>6. QueuedIsDeliverable' BY <3>2
    <3>7. QED BY <3>4, <3>5, <3>6
  <2>2. CASE \E j \in Jobs : ReleaseHold(d, j)
    BY <2>2 DEF ReleaseHold, DeliveryConditions
  <2>3. ASSUME NEW j \in Jobs, Enqueue(d, j) PROVE Rest
    <3>1. /\ j \in batch[d] /\ enqueued' = [enqueued EXCEPT ![d] = j]
          /\ UNCHANGED <<status, lease, batch>>
          /\ message' = IF message[j] = "none" /\ ~result[j]
                        THEN [message EXCEPT ![j] = "waiting"] ELSE message
      BY <2>3 DEF Enqueue, ArqEnqueue, ledgerVars, rowVars
    <3>2. /\ \A k \in Jobs : message'[k] = "none" => message[k] = "none"
          /\ \A k \in Jobs : k # j => message'[k] = message[k]
      BY <3>1
    <3>3. status[j] = "dispatching" => message'[j] # "none"
      <4>1. status[j] = "dispatching" => ~result[j] BY DEF ResultInv, Over
      <4>2. QED BY <3>1, <4>1
    <3>4. EnqueuedInv' BY <3>1, <3>2, <3>3
    <3>5. HandedInv' BY <3>1, <3>2
    <3>6. QueuedIsDeliverable' BY <3>1, <3>2
    <3>7. QED BY <3>4, <3>5, <3>6
  <2>4. ASSUME NEW j \in Jobs, EnqueueFails(d, j) PROVE Rest
    <3>1. /\ j \in batch[d] /\ batch' = [batch EXCEPT ![d] = @ \ {j}]
          /\ enqueued[d] = Nobody /\ UNCHANGED enqueued
          /\ \A k \in Jobs : k # j => status'[k] = status[k] /\ lease'[k] = lease[k]
          /\ status'[j] \in {status[j], "failed"}
          /\ status'[j] = status[j] => lease'[j] = lease[j]
      BY <2>4 DEF EnqueueFails
    <3>2. /\ \A k \in Jobs : message'[k] = "none" => message[k] = "none"
          /\ \A k \in Jobs : k # j => message'[k] = message[k]
      BY <2>4 DEF EnqueueFails, ArqEnqueue
    <3>3. EnqueuedInv' BY <3>1, <3>2
    <3>4. HandedInv' BY <3>1, <3>2
    <3>5. QueuedIsDeliverable' BY <3>1, <3>2
    <3>6. QED BY <3>3, <3>4, <3>5
  <2>5. CASE MarkQueued(d)
    <3>1. PICK j \in Jobs : j = enqueued[d] BY <2>5 DEF MarkQueued
    <3>2. enqueued' = [enqueued EXCEPT ![d] = Nobody] /\ UNCHANGED message
      BY <2>5 DEF MarkQueued, arqVars
    <3>3. CASE status[j] = "dispatching" /\ lease[j] = d
      <4>1. /\ status' = [status EXCEPT ![j] = "queued"]
            /\ lease' = [lease EXCEPT ![j] = Nobody]
            /\ batch' = [batch EXCEPT ![d] = @ \ {j}]
        BY <2>5, <3>1, <3>3 DEF MarkQueued
      <4>2. message[j] # "none" BY <3>1, <3>3
      <4>3. EnqueuedInv' BY <3>2, <4>1
      <4>4. HandedInv' BY <3>2, <4>1
      <4>5. QueuedIsDeliverable' BY <3>2, <4>1, <4>2
      <4>6. QED BY <4>3, <4>4, <4>5
    <3>4. CASE ~(status[j] = "dispatching" /\ lease[j] = d)
      <4>1. batch' = [batch EXCEPT ![d] = {}] /\ UNCHANGED <<status, lease>>
        BY <2>5, <3>1, <3>4 DEF MarkQueued
      <4>2. EnqueuedInv' BY <3>2, <4>1
      <4>3. HandedInv' /\ QueuedIsDeliverable' BY <3>2, <4>1
      <4>4. QED BY <4>2, <4>3
    <3>5. QED BY <3>3, <3>4
  <2>6. CASE DispatcherCrash(d)
    <3>1. /\ batch' = [batch EXCEPT ![d] = {}] /\ enqueued' = [enqueued EXCEPT ![d] = Nobody]
          /\ UNCHANGED <<status, lease, message>>
      BY <2>6 DEF DispatcherCrash, ledgerVars, rowVars, arqVars
    <3>2. EnqueuedInv' BY <3>1
    <3>3. HandedInv' /\ QueuedIsDeliverable' BY <3>1
    <3>4. QED BY <3>2, <3>3
  <2> HIDE DEF Rest
  <2>7. QED BY <2>1, <2>2, <2>3, <2>4, <2>5, <2>6 DEF Dispatch
<1>8. QED BY <1>4, <1>5, <1>6, <1>7 DEF DeliveryInv

\* A worker leaves the rows of all other jobs, and their messages, alone.
LEMMA WorkOther ==
  ASSUME IInv, NEW w \in Workers, Work(w), pc[w] # "idle", NEW j \in Jobs, j # job[w]
  PROVE  /\ status'[j] = status[j] /\ lease'[j] = lease[j]
         /\ message'[j] = message[j] /\ result'[j] = result[j]
<1>0. job[w] \in Jobs BY DEF IInv, MessageInv
<1>1. /\ status \in [Jobs -> Statuses] /\ lease \in [Jobs -> Dispatchers \cup {Nobody}]
      /\ message \in [Jobs -> {"none", "waiting"} \cup Workers] /\ result \in [Jobs -> BOOLEAN]
  BY DEF IInv, TypeOK
<1>2. CASE StartAttempt(w) BY <1>0, <1>1, <1>2 DEF StartAttempt, arqVars
<1>3. CASE Finish(w) BY <1>0, <1>1, <1>3, FinishFrame DEF arqVars
<1>4. CASE ~StartAttempt(w) /\ ~Finish(w)
  <2>1. UNCHANGED <<status, lease>> BY <1>4, WorkFrame DEF ledgerVars, rowVars
  <2>2. message'[j] = message[j] /\ result'[j] = result[j]
    BY <1>0, <1>1, <1>4
       DEF Work, Deliver, AcquireLock, LockTimeout, HandlerEnds, DatabaseError, ReleaseLock,
           SettleMessage, WorkerCrash, arqVars
  <2>3. QED BY <2>1, <2>2
<1>5. QED BY <1>2, <1>3, <1>4

\* What a step of a worker does to the row and the message of its job.
MovesOn(w, j) ==
  /\ status'[j] \notin {"absent", "pending"} \/ status'[j] = status[j]
  /\ status'[j] = "queued" => status[j] = "queued"
  /\ status'[j] = "dispatching" => status[j] = "dispatching" /\ lease'[j] = lease[j]
  /\ message'[j] = "none" => Over(j)' /\ message[j] # "none"
  /\ result'[j] => message'[j] = "none" /\ Over(j)'
  /\ message[j] # "none"
  /\ Ended(w)' => Over(j)' /\ job'[w] = j
  /\ pc'[w] = "finishing" => outcome'[w] \in {"ok", "error", "fatal", "shutdown"}

\* The steps of a worker between Deliver and the end of its message.
LEMMA DeliveryMoves ==
  ASSUME DeliveryConditions, IInv, LockInv, DeliveryInv,
         NEW w \in Workers, Work(w), pc[w] # "idle", NEW j \in Jobs, j = job[w]
  PROVE  MovesOn(w, j)
<1> USE ConstantsAssumption DEF ConstantsAssumption
<1>0. j = job[w] OBVIOUS
<1>1. /\ status \in [Jobs -> Statuses] /\ lease \in [Jobs -> Dispatchers \cup {Nobody}]
      /\ message \in [Jobs -> {"none", "waiting"} \cup Workers] /\ result \in [Jobs -> BOOLEAN]
      /\ pc \in [Workers -> Locations] /\ outcome \in [Workers -> Outcomes]
      /\ job \in [Workers -> Jobs \cup {Nobody}]
  BY DEF IInv, TypeOK
<1>2. /\ message[j] = w /\ message[j] # "none" /\ ~result[j]
      /\ status[j] \notin {"absent", "pending"}
  <2>1. message[j] = w BY <1>0 DEF IInv, MessageInv
  <2>2. w # "none" OBVIOUS
  <2>3. QED BY <2>1, <2>2 DEF DeliveryInv, ResultInv, HandedInv, Handed
<1>3. /\ Ended(w) => Over(j)
      /\ pc[w] = "finishing" => outcome[w] \in {"ok", "error", "fatal", "shutdown"}
  BY <1>0 DEF DeliveryInv, EndedInv, OutcomeInv
<1>4. CASE StartAttempt(w)
  <2>1. UNCHANGED <<message, result, job>> BY <1>4 DEF StartAttempt, arqVars
  <2>2. CASE Ready(j)
    <3>1. /\ status' = [status EXCEPT ![j] = "processing"]
          /\ pc' = [pc EXCEPT ![w] = "running"]
      BY <1>0, <1>4, <2>2 DEF StartAttempt
    <3>2. QED BY <1>0, <1>1, <1>2, <2>1, <3>1 DEF MovesOn, Ended, Over
  <2>3. CASE ~Ready(j)
    <3>1. UNCHANGED <<status, lease>> /\ pc' = [pc EXCEPT ![w] = "releasing"]
      BY <1>0, <1>4, <2>3 DEF StartAttempt
    <3>2. Over(j) BY <1>1, <1>2, <2>3 DEF Ready, Over, Statuses
    <3>3. QED BY <1>0, <1>1, <1>2, <2>1, <3>1, <3>2 DEF MovesOn, Ended, Over
  <2>4. QED BY <2>2, <2>3
<1>5. CASE Finish(w)
  <2>1. /\ UNCHANGED <<message, result, job, lease>>
        /\ pc' = [pc EXCEPT ![w] = "releasing"] /\ pc[w] = "finishing" /\ OwnsRow(w)
    BY <1>5, FinishFrame DEF arqVars
  <2>2. /\ status'[j] \in {"succeeded", "failed", "dead_letter"}
        /\ status'[j] = "failed" => outcome'[w] = "redeliver"
    <3>1. CASE FinishSuccess(w) BY <1>0, <1>1, <2>1, <3>1 DEF FinishSuccess
    <3>2. ~FinishDeferred(w) BY <1>3, <2>1 DEF FinishDeferred
    <3>3. CASE FinishFailure(w)
      BY <1>0, <1>1, <1>3, <2>1, <3>3 DEF FinishFailure, Terminal
    <3>4. QED BY <1>5, <3>1, <3>2, <3>3 DEF Finish
  <2>3. QED BY <1>0, <1>1, <1>2, <2>1, <2>2 DEF MovesOn, Ended, Over
<1>6. CASE ~StartAttempt(w) /\ ~Finish(w)
  <2>1. UNCHANGED <<status, lease>> /\ (Over(j) => Over(j)')
    BY <1>6, WorkFrame DEF ledgerVars, rowVars, Over
  <2>2. CASE \E k \in Jobs : Deliver(w, k) BY <2>2 DEF Deliver
  <2>3. CASE AcquireLock(w)
    BY <1>0, <1>1, <1>2, <2>1, <2>3 DEF AcquireLock, MovesOn, Ended, arqVars
  <2>4. ~LockTimeout(w) BY DEF LockTimeout, DeliveryConditions
  <2>5. CASE \E o \in Outcomes : HandlerEnds(w, o)
    <3>1. outcome'[w] \in {"ok", "error", "fatal", "shutdown"}
      BY <1>1, <2>5 DEF HandlerEnds, DeliveryConditions
    <3>2. QED BY <1>0, <1>1, <1>2, <2>1, <2>5, <3>1 DEF HandlerEnds, MovesOn, Ended, arqVars
  <2>6. ~DatabaseError(w) BY DEF DatabaseError, DeliveryConditions
  <2>7. CASE ReleaseLock(w)
    <3>1. lock[KeyOf(w)] = w BY <2>7 DEF ReleaseLock, LockInv, Holding
    <3>2. UNCHANGED <<outcome, job, message, result>> /\ pc[w] = "releasing"
          /\ pc' = [pc EXCEPT ![w] = "settling"]
      BY <2>7, <3>1 DEF ReleaseLock, arqVars
    <3>3. QED BY <1>0, <1>1, <1>2, <1>3, <2>1, <3>2 DEF MovesOn, Ended
  <2>8. CASE SettleMessage(w)
    <3>1. pc[w] = "settling" /\ pc' = [pc EXCEPT ![w] = "idle"] BY <2>8 DEF SettleMessage
    <3>2. \/ message' = [message EXCEPT ![j] = "waiting"] /\ UNCHANGED result
          \/ /\ outcome[w] # "redeliver"
             /\ message' = [message EXCEPT ![j] = "none"]
      BY <1>0, <2>8 DEF SettleMessage
    <3>3. ~Ended(w)' /\ pc'[w] # "finishing" BY <1>1, <3>1 DEF Ended
    <3>4. CASE message' = [message EXCEPT ![j] = "waiting"] /\ UNCHANGED result
      <4>1. message'[j] = "waiting" /\ ~result'[j] BY <1>1, <1>2, <3>4
      <4>2. QED BY <1>0, <1>2, <2>1, <3>3, <4>1 DEF MovesOn
    <3>5. CASE outcome[w] # "redeliver" /\ message' = [message EXCEPT ![j] = "none"]
      <4>1. message'[j] = "none" BY <1>1, <3>5
      <4>2. Over(j)' BY <1>3, <2>1, <3>1, <3>5 DEF Ended
      <4>3. QED BY <1>0, <1>2, <2>1, <3>3, <4>1, <4>2 DEF MovesOn
    <3>6. QED BY <3>2, <3>4, <3>5
  <2>9. CASE WorkerCrash(w)
    BY <1>0, <1>1, <1>2, <2>1, <2>9 DEF WorkerCrash, MovesOn, Ended
  <2>10. QED BY <1>6, <2>2, <2>3, <2>4, <2>5, <2>6, <2>7, <2>8, <2>9 DEF Work
<1>7. QED BY <1>0, <1>4, <1>5, <1>6

\* A worker lets go of a message only after its row has left the queue.
LEMMA DeliveryWork ==
  ASSUME DeliveryConditions, IInv, LockInv, DeliveryInv, NEW w \in Workers, Work(w)
  PROVE  DeliveryInv'
<1>0. /\ pc \in [Workers -> Locations] /\ job \in [Workers -> Jobs \cup {Nobody}]
      /\ message \in [Jobs -> {"none", "waiting"} \cup Workers]
      /\ outcome \in [Workers -> Outcomes]
  BY DEF IInv, TypeOK
<1>1. CASE pc[w] = "idle"
  <2>1. PICK j \in Jobs : Deliver(w, j)
    BY <1>1 DEF Work, AcquireLock, LockTimeout, StartAttempt, HandlerEnds, Finish, FinishSuccess,
                FinishDeferred, FinishFailure, DatabaseError, ReleaseLock, SettleMessage,
                WorkerCrash
  <2>2. /\ UNCHANGED <<ledgerVars, dispatchVars, result, outcome>>
        /\ message[j] = "waiting" /\ message' = [message EXCEPT ![j] = w]
        /\ pc' = [pc EXCEPT ![w] = "locking"] /\ job' = [job EXCEPT ![w] = j]
    BY <2>1 DEF Deliver
  <2>3. /\ \A k \in Jobs : message'[k] = "none" <=> message[k] = "none"
        /\ UNCHANGED <<status, lease, batch, enqueued>>
    BY <1>0, <2>2, ConstantsAssumption
       DEF ConstantsAssumption, ledgerVars, rowVars, dispatchVars
  <2>4. \A v \in Workers : Ended(v)' => Ended(v) /\ job'[v] = job[v]
    BY <1>0, <2>2 DEF Ended
  <2>5. ResultInv' BY <2>2, <2>3 DEF DeliveryInv, ResultInv, Over
  <2>6. EndedInv' BY <2>3, <2>4 DEF DeliveryInv, EndedInv, Over
  <2>7. OutcomeInv' BY <1>0, <2>2 DEF DeliveryInv, OutcomeInv
  <2>8. EnqueuedInv' BY <2>3 DEF DeliveryInv, EnqueuedInv
  <2>9. HandedInv' /\ QueuedIsDeliverable'
    BY <2>3 DEF DeliveryInv, HandedInv, Handed, QueuedIsDeliverable
  <2>10. QED BY <2>5, <2>6, <2>7, <2>8, <2>9 DEF DeliveryInv
<1>2. CASE pc[w] # "idle"
  <2>0. PICK j \in Jobs : j = job[w] BY <1>2 DEF IInv, MessageInv
  <2>1. MovesOn(w, j) BY <1>2, <2>0, DeliveryMoves
  <2>2. \A k \in Jobs : k # j =>
          /\ status'[k] = status[k] /\ lease'[k] = lease[k]
          /\ message'[k] = message[k] /\ result'[k] = result[k]
    BY <1>2, <2>0, WorkOther
  <2>3. UNCHANGED <<batch, enqueued>>
    BY DEF Work, Deliver, AcquireLock, LockTimeout, StartAttempt, HandlerEnds, Finish,
           FinishSuccess, FinishDeferred, FinishFailure, DatabaseError, ReleaseLock,
           SettleMessage, WorkerCrash, dispatchVars
  <2>4. \A v \in Workers : v # w =>
          pc'[v] = pc[v] /\ job'[v] = job[v] /\ outcome'[v] = outcome[v]
    <3>1. CASE StartAttempt(w) BY <1>0, <3>1 DEF StartAttempt
    <3>2. CASE Finish(w) BY <1>0, <3>2, FinishFrame
    <3>3. CASE ~StartAttempt(w) /\ ~Finish(w)
      BY <1>0, <3>3 DEF Work, Deliver, AcquireLock, LockTimeout, HandlerEnds, DatabaseError,
                        ReleaseLock, SettleMessage, WorkerCrash
    <3>4. QED BY <3>1, <3>2, <3>3
  <2>5. ResultInv'
    BY <2>1, <2>2 DEF DeliveryInv, ResultInv, Over, MovesOn
  <2>6. EndedInv'
    <3>1. SUFFICES ASSUME NEW v \in Workers, Ended(v)' PROVE Over(job[v])'
      BY DEF EndedInv
    <3>2. CASE v = w BY <2>1, <3>1, <3>2 DEF MovesOn
    <3>3. CASE v # w
      <4>1. Ended(v) /\ pc[v] # "idle" /\ job'[v] = job[v] BY <2>4, <3>1, <3>3 DEF Ended
      <4>2. job[v] \in Jobs /\ job[v] # j
        BY <1>2, <2>0, <3>3, <4>1, OneWorkerPerJob DEF IInv, MessageInv
      <4>3. Over(job[v]) BY <4>1 DEF DeliveryInv, EndedInv
      <4>4. status'[job[v]] = status[job[v]] BY <2>2, <4>2
      <4>5. QED BY <4>1, <4>3, <4>4 DEF Over
    <3>4. QED BY <3>2, <3>3
  <2>7. OutcomeInv' BY <2>1, <2>4 DEF DeliveryInv, OutcomeInv, MovesOn
  <2>8. EnqueuedInv'
    <3>1. SUFFICES ASSUME NEW d \in Dispatchers, NEW k \in Jobs, enqueued'[d] = k
          PROVE /\ k \in batch'[d]
                /\ status'[k] = "dispatching" /\ lease'[k] = d => message'[k] # "none"
      BY DEF EnqueuedInv
    <3>2. k \in batch[d] /\ (status[k] = "dispatching" /\ lease[k] = d => message[k] # "none")
      BY <2>3, <3>1 DEF DeliveryInv, EnqueuedInv
    <3>3. CASE k = j BY <2>1, <2>3, <3>2, <3>3 DEF MovesOn, Over
    <3>4. CASE k # j BY <2>2, <2>3, <3>2, <3>4
    <3>5. QED BY <3>3, <3>4
  <2>9. HandedInv'
    <3>1. SUFFICES ASSUME NEW k \in Jobs, Handed(k)' PROVE status'[k] \notin {"absent", "pending"}
      BY DEF HandedInv
    <3>2. CASE k = j BY <2>1, <3>2 DEF MovesOn, DeliveryInv, HandedInv, Handed
    <3>3. CASE k # j BY <2>2, <2>3, <3>1, <3>3 DEF DeliveryInv, HandedInv, Handed
    <3>4. QED BY <3>2, <3>3
  <2>10. QueuedIsDeliverable'
    BY <2>1, <2>2 DEF MovesOn, DeliveryInv, QueuedIsDeliverable, Over
  <2>11. QED BY <2>5, <2>6, <2>7, <2>8, <2>9, <2>10 DEF DeliveryInv
<1>3. QED BY <1>1, <1>2

\* Every step keeps the invariant of the delivery, under its conditions.
LEMMA DeliveryStep ==
  ASSUME DeliveryConditions, IInv, LockInv, DeliveryInv, [Next]_vars
  PROVE  DeliveryInv'
<1>0. /\ status \in [Jobs -> Statuses] /\ lease \in [Jobs -> Dispatchers \cup {Nobody}]
      /\ result \in [Jobs -> BOOLEAN]
  BY DEF IInv, TypeOK
<1>1. ASSUME NEW d \in Dispatchers, Dispatch(d) PROVE DeliveryInv'
  BY <1>1, DeliveryDispatch
<1>2. ASSUME NEW w \in Workers, Work(w) PROVE DeliveryInv'
  BY <1>2, DeliveryWork
<1>3. ASSUME NEW j \in Jobs, EnqueueOutbox(j) PROVE DeliveryInv'
  <2>1. /\ status[j] = "absent" /\ status' = [status EXCEPT ![j] = "pending"]
        /\ UNCHANGED <<lease, dispatchVars, arqVars, workerVars>>
    BY <1>3 DEF EnqueueOutbox
  <2>2. ~Handed(j) BY <2>1 DEF DeliveryInv, HandedInv
  <2>3. \A k \in Jobs : Over(k) => Over(k)' BY <1>0, <2>1 DEF Over
  <2>4. ResultInv' BY <2>1, <2>3 DEF DeliveryInv, ResultInv, arqVars
  <2>5. EndedInv'
    BY <2>1, <2>3 DEF DeliveryInv, EndedInv, Ended, workerVars, IInv, MessageInv
  <2>6. OutcomeInv' BY <2>1 DEF DeliveryInv, OutcomeInv, workerVars
  <2>7. EnqueuedInv' BY <1>0, <2>1 DEF DeliveryInv, EnqueuedInv, dispatchVars, arqVars
  <2>8. HandedInv' /\ QueuedIsDeliverable'
    BY <1>0, <2>1, <2>2
       DEF DeliveryInv, HandedInv, Handed, QueuedIsDeliverable, dispatchVars, arqVars
  <2>9. QED BY <2>4, <2>5, <2>6, <2>7, <2>8 DEF DeliveryInv
<1>4. ASSUME NEW j \in Jobs, RetryDeadLetter(j) PROVE DeliveryInv'
  BY <1>4 DEF RetryDeadLetter, DeliveryConditions, IInv, TypeOK
<1>5. CASE \/ \E j \in Jobs : ResultExpires(j)
           \/ \E j \in Jobs : \E s \in {"resolved", "discarded"} : CloseDeadLetter(j, s)
           \/ \E c \in Conversations : LockExpires(c)
           \/ UNCHANGED vars
  <2>1. /\ UNCHANGED <<status, lease, dispatchVars, message, workerVars>>
        /\ \A j \in Jobs : result'[j] => result[j]
    BY <1>0, <1>5
       DEF ResultExpires, CloseDeadLetter, LockExpires, vars, ledgerVars, rowVars, arqVars
  <2>2. ResultInv' BY <2>1 DEF DeliveryInv, ResultInv, Over
  <2>3. EndedInv' /\ OutcomeInv'
    BY <2>1 DEF DeliveryInv, EndedInv, OutcomeInv, Ended, Over, workerVars
  <2>4. EnqueuedInv' /\ HandedInv' /\ QueuedIsDeliverable'
    BY <2>1 DEF DeliveryInv, EnqueuedInv, HandedInv, Handed, QueuedIsDeliverable, dispatchVars
  <2>5. QED BY <2>2, <2>3, <2>4 DEF DeliveryInv
<1>6. QED BY <1>1, <1>2, <1>3, <1>4, <1>5 DEF Next, Operate

\* A queued row has its message in ARQ however dispatchers and workers die and
\* enqueues fail: the fresh result of an ended run, which swallows an enqueue,
\* is that of a job no dispatcher claims again.  Deferrals, timeouts, database
\* errors, released holds and reopened dead letters do lose queued rows, and
\* DeliveryConditions leaves them out.
THEOREM QueuedIsDeliverableHolds ==
  ASSUME DeliveryConditions
  PROVE  Spec => []QueuedIsDeliverable
<1>1. "lease_loss" \notin Faults BY DEF DeliveryConditions
<1>2. Spec => []LockInv BY <1>1, LockHolds
<1>3. IInv /\ LockInv /\ DeliveryInv /\ [Next]_vars => DeliveryInv' BY DeliveryStep
<1>4. DeliveryInv => QueuedIsDeliverable BY DEF DeliveryInv
<1>5. QED BY <1>2, <1>3, <1>4, DeliveryInit, InductiveInvariant, PTL DEF Spec

(* The ledger implements JobContract.                                      *)

phase == [j \in Jobs |-> Phase(status[j])]
charged == [j \in Jobs |-> attemptCount[j] - deferralCount[j]]

\* Initial states map to initial states of the contract.
LEMMA RefineInit == Init => Contract!Init
BY ConstantsAssumption DEF ConstantsAssumption, Init, Contract!Init, Phase

\* Steps that leave every job in its phase, and its counters alone, stutter.
LEMMA RefineStutter ==
  ASSUME TypeOK, \A j \in Jobs : Phase(status'[j]) = Phase(status[j]),
         UNCHANGED <<attemptCount, deferralCount, maxAttempts>>
  PROVE  UNCHANGED Contract!vars
BY DEF Contract!vars

\* A step of the row of one job, seen by the contract.
LEMMA RefineMove ==
  ASSUME TypeOK, NEW j \in Jobs, NEW s \in Statuses, status' = [status EXCEPT ![j] = s]
  PROVE  Contract!Move(j, Phase(status[j]), Phase(s))
BY DEF Contract!Move, TypeOK

\* _start_attempt begins an attempt of the contract, or changes nothing in it.
LEMMA RefineStart ==
  ASSUME IInv, NEW w \in Workers, StartAttempt(w)
  PROVE  [Contract!Next]_(Contract!vars)
<1>0. PICK j \in Jobs : j = job[w] BY DEF IInv, StartAttempt, MessageInv
<1>1. CASE ~Ready(j)
  <2>1. UNCHANGED rowVars BY <1>0, <1>1 DEF StartAttempt, rowVars
  <2>2. QED BY <2>1, RefineStutter DEF IInv, rowVars
<1>2. CASE Ready(j)
  <2>1. /\ status' = [status EXCEPT ![j] = "processing"]
        /\ attemptCount' = [attemptCount EXCEPT ![j] = attemptCount[j] + 1]
        /\ UNCHANGED <<maxAttempts, deferralCount>>
    BY <1>0, <1>2 DEF StartAttempt, AttemptNumber
  <2>2. Contract!Move(j, "waiting", "running")
    BY <1>0, <1>2, <2>1, RefineMove DEF IInv, Ready, Phase, Statuses
  <2>3. attemptCount[j] - deferralCount[j] < maxAttempts[j]
    BY <1>0, <1>2 DEF IInv, BudgetInv, RetryBudget, Ready
  <2>4. \A k \in Jobs : attemptCount'[k] - deferralCount'[k]
          = IF k = j THEN attemptCount[k] - deferralCount[k] + 1
                     ELSE attemptCount[k] - deferralCount[k]
    BY <1>0, <2>1 DEF IInv, TypeOK
  <2>5. charged' = [charged EXCEPT ![j] = @ + 1] BY <1>0, <2>4 DEF charged
  <2>6. Contract!Begin(j) BY <1>0, <2>1, <2>2, <2>3, <2>5 DEF Contract!Begin, charged
  <2>7. QED BY <2>6 DEF Contract!Next
<1>3. QED BY <1>1, <1>2

\* Each end of an attempt is the end of the contract with the same name.
LEMMA RefineFinish ==
  ASSUME IInv, NEW w \in Workers, Finish(w)
  PROVE  [Contract!Next]_(Contract!vars)
<1>0. PICK j \in Jobs : j = job[w] BY FinishFrame
<1>1. PICK s \in {"succeeded", "pending", "failed", "dead_letter"} :
        /\ status' = [status EXCEPT ![j] = s]
        /\ s = "failed" => started[w].budget < started[w].limit
        /\ \/ /\ deferralCount' = [deferralCount EXCEPT ![j] = @ + 1]
              /\ s = "pending"
           \/ UNCHANGED deferralCount /\ s # "pending"
  BY <1>0, FinishFrame
<1>2. /\ status[j] = "processing"
      /\ started[w].limit = maxAttempts[j]
      /\ started[w].budget = attemptCount[j] - deferralCount[j]
      /\ UNCHANGED <<attemptCount, maxAttempts>>
  BY <1>0, FinishFrame DEF IInv, AttemptInv, InAttempt, OwnsRow
<1>3. Contract!Move(j, "running", Phase(s))
  BY <1>1, <1>2, RefineMove DEF IInv, Phase, Statuses
<1>4. CASE s = "pending"
  <2>1. \A k \in Jobs : attemptCount'[k] - deferralCount'[k]
          = IF k = j THEN attemptCount[k] - deferralCount[k] - 1
                     ELSE attemptCount[k] - deferralCount[k]
    BY <1>1, <1>2, <1>4 DEF IInv, TypeOK
  <2>2. charged' = [charged EXCEPT ![j] = @ - 1] BY <1>2, <2>1 DEF charged
  <2>3. Contract!Defer(j) BY <1>2, <1>3, <1>4, <2>2 DEF Contract!Defer, charged, Phase
  <2>4. QED BY <2>3 DEF Contract!Next
<1>5. CASE s # "pending"
  <2>1. charged' = charged BY <1>1, <1>2, <1>5 DEF charged
  <2>2. CASE s = "failed"
    <3>1. Contract!Retry(j)
      BY <1>1, <1>2, <1>3, <2>1, <2>2 DEF Contract!Retry, charged, Phase
    <3>2. QED BY <3>1 DEF Contract!Next
  <2>3. CASE s = "succeeded"
    <3>1. Contract!Complete(j) BY <1>2, <1>3, <2>1, <2>3 DEF Contract!Complete, charged, Phase
    <3>2. QED BY <3>1 DEF Contract!Next
  <2>4. CASE s = "dead_letter"
    <3>1. Contract!Bury(j) BY <1>2, <1>3, <2>1, <2>4 DEF Contract!Bury, charged, Phase
    <3>2. QED BY <3>1 DEF Contract!Next
  <2>5. QED BY <1>5, <2>2, <2>3, <2>4
<1>6. QED BY <1>4, <1>5

\* Every step of the queue is a step of the contract or a stutter.
LEMMA RefineStep == IInv /\ [Next]_vars => [Contract!Next]_(Contract!vars)
<1> SUFFICES ASSUME IInv, [Next]_vars PROVE [Contract!Next]_(Contract!vars)
  OBVIOUS
<1>1. ASSUME NEW d \in Dispatchers, Dispatch(d) PROVE [Contract!Next]_(Contract!vars)
  <2>1. \A j \in Jobs : Phase(status'[j]) = Phase(status[j])
    BY <1>1, DispatcherFrame DEF Phase
  <2>2. QED BY <1>1, <2>1, DispatcherFrame, RefineStutter DEF IInv
<1>2. ASSUME NEW w \in Workers, Work(w) PROVE [Contract!Next]_(Contract!vars)
  <2>1. CASE StartAttempt(w) BY <2>1, RefineStart
  <2>2. CASE Finish(w) BY <2>2, RefineFinish
  <2>3. CASE ~StartAttempt(w) /\ ~Finish(w)
    <3>1. UNCHANGED rowVars
      BY <1>2, <2>3 DEF Work, Deliver, AcquireLock, LockTimeout, HandlerEnds, DatabaseError,
                        ReleaseLock, SettleMessage, WorkerCrash, ledgerVars
    <3>2. QED BY <3>1, RefineStutter DEF IInv, rowVars
  <2>4. QED BY <2>1, <2>2, <2>3
<1>3. ASSUME NEW j \in Jobs, EnqueueOutbox(j) PROVE [Contract!Next]_(Contract!vars)
  <2>1. Contract!Move(j, "absent", "waiting")
    BY <1>3, RefineMove DEF IInv, EnqueueOutbox, Phase, Statuses
  <2>2. Contract!Accept(j) BY <1>3, <2>1 DEF Contract!Accept, EnqueueOutbox
  <2>3. QED BY <2>2 DEF Contract!Next
<1>4. ASSUME NEW j \in Jobs, RetryDeadLetter(j) PROVE [Contract!Next]_(Contract!vars)
  <2>1. Contract!Move(j, "dead", "waiting")
    BY <1>4, RefineMove DEF IInv, RetryDeadLetter, Phase, Statuses
  <2>2. /\ maxAttempts' = [maxAttempts EXCEPT ![j] = maxAttempts'[j]]
        /\ maxAttempts'[j] >= maxAttempts[j]
        /\ maxAttempts'[j] > attemptCount[j] - deferralCount[j]
    BY <1>4 DEF IInv, TypeOK, RetryDeadLetter, BudgetAfterRetry
  <2>3. Contract!Reopen(j) BY <1>4, <2>1, <2>2 DEF Contract!Reopen, RetryDeadLetter
  <2>4. QED BY <2>3 DEF Contract!Next
<1>5. CASE \/ \E j \in Jobs : ResultExpires(j)
           \/ \E j \in Jobs : \E s \in {"resolved", "discarded"} : CloseDeadLetter(j, s)
           \/ \E c \in Conversations : LockExpires(c)
           \/ UNCHANGED vars
  <2>1. UNCHANGED rowVars
    BY <1>5 DEF ResultExpires, CloseDeadLetter, LockExpires, vars, ledgerVars
  <2>2. QED BY <2>1, RefineStutter DEF IInv, rowVars
<1>6. QED BY <1>1, <1>2, <1>3, <1>4, <1>5 DEF Next, Operate

\* The rows of outbox_jobs, under everything dispatchers, workers, the broker
\* and the operator do, behave as the contract of a job says.
THEOREM LedgerImplementsContract == Spec => ContractSpec
<1>1. Spec => Contract!Init /\ [][Contract!Next]_(Contract!vars)
  BY RefineInit, RefineStep, InductiveInvariant, PTL DEF Spec
<1>2. QED BY <1>1 DEF ContractSpec, Contract!Spec
=============================================================================
