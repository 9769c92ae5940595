--------------------------- MODULE ActionApproval ---------------------------
(***************************************************************************)
(* A consequential action of a customer, from its request to the answer    *)
(* the customer gets: the action, the approval request and its one         *)
(* decision, the deferred execution by the agent workers, and the notice   *)
(* of the result, which waits while a human has the conversation.          *)
(*                                                                         *)
(* Every database transaction is one step.  The native write is the only   *)
(* thing done between two transactions; the worker may die there, lose its *)
(* advisory lock there, or be overtaken there by a second delivery of the  *)
(* same job.  Only actions that need an approval are modelled.             *)
(***************************************************************************)
EXTENDS Naturals, FiniteSets

CONSTANTS
  Actions,              \* actions whose policy requires an approval
  ConfirmationRequired, \* those the customer must confirm first
  Workers,              \* agent-worker processes
  Configurations,       \* configurations of the approval route, by digest
  Enabled,              \* those with enabled = true
  MaxRevision,          \* bound: route revisions
  MaxVersion,           \* bound: control changes of the conversation
  MaxFaults             \* bound: deaths, lost guards and lost completions

ASSUME ApprovalAssumption ==
  /\ Workers # {}
  /\ ConfirmationRequired \subseteq Actions
  /\ Enabled \subseteq Configurations
  /\ Configurations # {}
  /\ MaxRevision \in Nat
  /\ MaxVersion \in Nat
  /\ MaxFaults \in Nat

VARIABLES
  state,        \* actions.state, "ABSENT" before the INSERT
  attempts,     \* actions.execution_attempts
  request,      \* approval_requests.state, "ABSENT" before the INSERT
  pinned,       \* its route_digest
  decision,     \* approval_decisions.decision, "NONE" before the INSERT
  overdue,      \* the deadlines that have passed: confirmation, approval
  route,        \* the stored configuration of the approval route
  revision,     \* and its revision
  permitted,    \* the active AgentSpec permits the tool
  jobs,         \* outbox jobs not yet completed
  keys,         \* idempotency keys of all the jobs ever enqueued
  worker,       \* what each agent worker is doing
  writes,       \* native writes that took effect
  notices,      \* actions whose result is an outbound message
  ai,           \* the conversation is AI_ACTIVE
  version,      \* conversations.state_version
  faults        \* faults so far

actionVars == <<state, attempts, overdue>>
requestVars == <<request, pinned, decision>>
routeVars == <<route, revision, permitted>>
jobVars == <<jobs, keys>>
conversationVars == <<ai, version>>
vars == <<actionVars, requestVars, routeVars, jobVars, worker, writes, notices,
          conversationVars, faults>>

Execute == [topic |-> "execute", version |-> 0]
Result == [topic |-> "result", version |-> 0]

\* Mutation: one hold per action, however often the conversation is taken.
HeldOnce(v) == [topic |-> "held", version |-> 0]

\* The job of a result held back at state version v: notify keys it by both.
Held(v) == [topic |-> "held", version |-> v]

Jobs == [topic: {"execute", "result", "held"}, version: 0 .. MaxVersion]

Terminal == {"SUCCEEDED", "REJECTED", "FAILED", "UNCERTAIN", "EXPIRED", "HANDED_OFF"}
ActionStates == Terminal \cup
  {"ABSENT", "AWAITING_CONFIRMATION", "AWAITING_APPROVAL", "EXECUTING"}
RequestStates == {"ABSENT", "PENDING", "APPROVED", "REJECTED", "EXPIRED", "INVALIDATED"}

\* What invoke_connector may return for a write.
Outcomes == {"SUCCEEDED", "REJECTED", "FAILED", "UNCERTAIN"}

Stages == {"idle", "validating", "invoking", "completing", "reading", "preparing"}
Idle == [stage |-> "idle"]
Doing(stage, a, job, guard, outcome) ==
  [stage |-> stage, action |-> a, job |-> job, guard |-> guard, outcome |-> outcome]
Busy == [stage: Stages \ {"idle"}, action: Actions, job: Jobs, guard: BOOLEAN,
         outcome: Outcomes \cup {"NONE"}]

Init ==
  /\ state = [a \in Actions |-> "ABSENT"]
  /\ attempts = [a \in Actions |-> 0]
  /\ overdue = [a \in Actions |-> {}]
  /\ request = [a \in Actions |-> "ABSENT"]
  /\ route \in Enabled
  /\ pinned = [a \in Actions |-> route]
  /\ decision = [a \in Actions |-> "NONE"]
  /\ revision = 1
  /\ permitted = TRUE
  /\ jobs = [a \in Actions |-> {}]
  /\ keys = [a \in Actions |-> {}]
  /\ worker = [w \in Workers |-> Idle]
  /\ writes = [a \in Actions |-> 0]
  /\ notices = {}
  /\ ai = TRUE
  /\ version = 0
  /\ faults = 0

------------------------------------------------------------------------------
(* The outbox: OutboxService.enqueue ignores a key it has seen.             *)

\* The job tables after enqueueing job j for action a, worked on by done.
Enqueued(a, j, done) ==
  /\ jobs' = [jobs EXCEPT ![a] = (@ \ done) \cup ({j} \ keys[a])]
  /\ keys' = [keys EXCEPT ![a] = @ \cup {j}]

\* The worker's attempt succeeded: its completion may be recorded or lost.
Succeeds(recorded) ==
  /\ recorded \/ faults < MaxFaults
  /\ faults' = IF recorded THEN faults ELSE faults + 1

Completed(w, recorded) == IF recorded THEN {worker[w].job} ELSE {}

------------------------------------------------------------------------------
(* The customer's side: ActionService.                                      *)

\* ActionService.request: identity is checked first, the rest is one transaction.
Request(a) ==
  /\ state[a] = "ABSENT"
  /\ \E identified \in BOOLEAN :
       state' = [state EXCEPT ![a] =
         IF ~identified THEN "REJECTED"
         ELSE IF a \in ConfirmationRequired THEN "AWAITING_CONFIRMATION"
         ELSE "AWAITING_APPROVAL"]
  /\ UNCHANGED <<attempts, overdue, requestVars, routeVars, jobVars, worker, writes,
                 notices, conversationVars, faults>>

\* ActionService.confirm: late and mismatched confirmations end the action,
\* unless the caller rolls back on the error raised after that transition.
Confirm(a) ==
  /\ state[a] = "AWAITING_CONFIRMATION"
  /\ \/ /\ "confirmation" \in overdue[a]
        /\ state' = [state EXCEPT ![a] = "EXPIRED"]
     \/ /\ "confirmation" \notin overdue[a]
        /\ \E target \in {"AWAITING_APPROVAL", "REJECTED"} :
             state' = [state EXCEPT ![a] = target]
  /\ UNCHANGED <<attempts, overdue, requestVars, routeVars, jobVars, worker, writes,
                 notices, conversationVars, faults>>

\* A deadline of the action passes, while there is still code that reads it.
DeadlinePasses(a) ==
  /\ \/ /\ state[a] \in {"AWAITING_CONFIRMATION", "AWAITING_APPROVAL"}
        /\ a \in ConfirmationRequired
        /\ request[a] = "ABSENT"
        /\ overdue' = [overdue EXCEPT ![a] = @ \cup {"confirmation"}]
     \/ /\ request[a] \in {"PENDING", "APPROVED"}
        /\ state[a] \notin Terminal
        /\ overdue' = [overdue EXCEPT ![a] = @ \cup {"approval"}]
  /\ UNCHANGED <<state, attempts, requestVars, routeVars, jobVars, worker, writes,
                 notices, conversationVars, faults>>

\* LifecycleJobs, actions.expire: the scanner found the confirmation overdue.
ExpireConfirmation(a) ==
  /\ state[a] = "AWAITING_CONFIRMATION"
  /\ "confirmation" \in overdue[a]
  /\ state' = [state EXCEPT ![a] = "EXPIRED"]
  /\ UNCHANGED <<attempts, overdue, requestVars, routeVars, jobVars, worker, writes,
                 notices, conversationVars, faults>>

------------------------------------------------------------------------------
(* The approval route, the agent's publication and the reviewers.           *)

\* ApprovalService.save_route; a saved configuration may return to an older one.
SaveRoute(c) ==
  /\ c # route
  /\ revision < MaxRevision
  /\ route' = c
  /\ revision' = revision + 1
  /\ UNCHANGED <<permitted, actionVars, requestVars, jobVars, worker, writes, notices,
                 conversationVars, faults>>

\* A publication gives or takes the tool (get_active of the AgentSpecProvider).
PublishSpec ==
  /\ permitted' = ~permitted
  /\ UNCHANGED <<route, revision, actionVars, requestVars, jobVars, worker, writes,
                 notices, conversationVars, faults>>

\* ApprovalService.request: pins the route; a second call returns the first.
RequestApproval(a) ==
  /\ state[a] = "AWAITING_APPROVAL"
  /\ request[a] = "ABSENT"
  /\ route \in Enabled
  /\ "confirmation" \notin overdue[a]
  /\ request' = [request EXCEPT ![a] = "PENDING"]
  /\ pinned' = [pinned EXCEPT ![a] = route]
  /\ UNCHANGED <<decision, actionVars, routeVars, jobVars, worker, writes, notices,
                 conversationVars, faults>>

\* Mutation: only the request is closed, the action keeps waiting.
CloseRequestOnly(a, outcome) ==
  /\ request' = [request EXCEPT ![a] = outcome]
  /\ UNCHANGED <<state, jobVars>>

\* close_request: a rejected or expired request ends its waiting action and
\* queues the result in the same transaction.
CloseRequest(a, outcome) ==
  /\ request' = [request EXCEPT ![a] = outcome]
  /\ IF outcome \in {"REJECTED", "EXPIRED"} /\ state[a] = "AWAITING_APPROVAL"
     THEN /\ state' = [state EXCEPT ![a] = outcome]
          /\ Enqueued(a, Result, {})
     ELSE UNCHANGED <<state, jobVars>>

RouteHolds(a) == route \in Enabled /\ route = pinned[a]

\* _usable: what a pending request must satisfy before anything is done with it.
Usable(a) ==
  /\ request[a] = "PENDING"
  /\ "approval" \notin overdue[a]
  /\ RouteHolds(a)
  /\ state[a] = "AWAITING_APPROVAL"

\* Any use of a request that is no longer usable closes it: inspect, review,
\* start_otp, send_notices, decide and expire all call _usable first.
CloseUnusable(a) ==
  /\ request[a] = "PENDING"
  /\ ~Usable(a)
  /\ CloseRequest(a, IF "approval" \in overdue[a] THEN "EXPIRED" ELSE "INVALIDATED")
  /\ UNCHANGED <<attempts, overdue, pinned, decision, routeVars, worker, writes, notices,
                 conversationVars, faults>>

\* LifecycleJobs, approvals.expire: the deadline alone, not the route.
ExpireApproval(a) ==
  /\ request[a] = "PENDING"
  /\ "approval" \in overdue[a]
  /\ CloseRequest(a, "EXPIRED")
  /\ UNCHANGED <<attempts, overdue, pinned, decision, routeVars, worker, writes, notices,
                 conversationVars, faults>>

\* Mutation: the job of an approval is forgotten.
DecideWithoutJob(a, d) ==
  /\ Usable(a)
  /\ decision' = [decision EXCEPT ![a] = d]
  /\ CloseRequest(a, IF d = "APPROVE" THEN "APPROVED" ELSE "REJECTED")
  /\ UNCHANGED <<attempts, overdue, pinned, routeVars, worker, writes, notices,
                 conversationVars, faults>>

\* ApprovalService.decide, by a reviewer whose link and code are verified.
Decide(a, d) ==
  /\ Usable(a)
  /\ decision' = [decision EXCEPT ![a] = d]
  /\ \/ /\ d = "REJECT"
        /\ CloseRequest(a, "REJECTED")
     \/ /\ d = "APPROVE"
        /\ request' = [request EXCEPT ![a] = "APPROVED"]
        /\ Enqueued(a, Execute, {})
        /\ UNCHANGED state
  /\ UNCHANGED <<attempts, overdue, pinned, routeVars, worker, writes, notices,
                 conversationVars, faults>>

------------------------------------------------------------------------------
(* Deferred execution: ApprovalExecutionService.execute.                    *)

\* The per-action advisory lock is held by at most one worker.
GuardFree(a) ==
  \A w \in Workers : worker[w].stage # "idle" => worker[w].action # a \/ ~worker[w].guard

\* A worker takes the execute job and the advisory lock.
BeginExecute(w, a) ==
  /\ worker[w].stage = "idle"
  /\ Execute \in jobs[a]
  /\ GuardFree(a)
  /\ worker' = [worker EXCEPT ![w] = Doing("validating", a, Execute, TRUE, "NONE")]
  /\ UNCHANGED <<actionVars, requestVars, routeVars, jobVars, writes, notices,
                 conversationVars, faults>>

\* Mutation: an interrupted execution is reported as a failure.
InterruptedFails(a) ==
  IF state[a] = "EXECUTING" THEN {"FAILED"}
  ELSE IF "approval" \in overdue[a] THEN {"EXPIRED"}
  ELSE {"FAILED", "REJECTED"}

\* How the first transaction may end the action instead of executing it; the
\* lines are in the order of the code.  The clock is read again for every
\* verification, so an approval may also be found expired half-way.
Verdicts(a) ==
  IF state[a] = "EXECUTING" THEN {"UNCERTAIN"}
  ELSE IF "approval" \in overdue[a] THEN {"EXPIRED"}
  ELSE IF request[a] # "APPROVED" \/ ~RouteHolds(a) \/ ~permitted THEN {"REJECTED"}
  ELSE {"FAILED",      \* no connector, or it could not revalidate
        "REJECTED"}    \* a precondition changed, or the approval expired meanwhile

\* The first transaction ends the action, or finds it ended, and queues the
\* result.  A decision that is not APPROVE raises: the attempt fails.
Settle(w) ==
  /\ worker[w].stage = "validating"
  /\ LET a == worker[w].action IN
     /\ \/ /\ state[a] \in Terminal
           /\ UNCHANGED state
        \/ /\ state[a] \notin Terminal
           /\ decision[a] = "APPROVE"
           /\ \E outcome \in Verdicts(a) : state' = [state EXCEPT ![a] = outcome]
     /\ \E recorded \in BOOLEAN :
          /\ Succeeds(recorded)
          /\ Enqueued(a, Result, Completed(w, recorded))
  /\ worker' = [worker EXCEPT ![w] = Idle]
  /\ UNCHANGED <<attempts, overdue, requestVars, routeVars, writes, notices,
                 conversationVars>>

\* Mutation: an execution found in progress is simply started again.
MayExecuteAgain(a) ==
  /\ state[a] \in {"AWAITING_APPROVAL", "EXECUTING"}
  /\ decision[a] = "APPROVE"
  /\ request[a] = "APPROVED"
  /\ "approval" \notin overdue[a]
  /\ RouteHolds(a)
  /\ permitted

\* Everything _execute and prepare_execution check before the native write.
MayExecute(a) ==
  /\ state[a] = "AWAITING_APPROVAL"
  /\ decision[a] = "APPROVE"
  /\ request[a] = "APPROVED"
  /\ "approval" \notin overdue[a]
  /\ RouteHolds(a)
  /\ permitted

\* The first transaction commits the approval reference and EXECUTING.
ClaimExecution(w) ==
  /\ worker[w].stage = "validating"
  /\ LET a == worker[w].action IN
     /\ MayExecute(a)
     /\ state' = [state EXCEPT ![a] = "EXECUTING"]
     /\ attempts' = [attempts EXCEPT ![a] = @ + 1]
  /\ worker' = [worker EXCEPT ![w].stage = "invoking"]
  /\ UNCHANGED <<overdue, requestVars, routeVars, jobVars, writes, notices,
                 conversationVars, faults>>

\* invoke_connector, outside any transaction, once for a write.  A refusal has
\* no effect, a success has; an error or a malformed receipt tells nothing.
InvokeConnector(w) ==
  /\ worker[w].stage = "invoking"
  /\ \E outcome \in Outcomes, took \in BOOLEAN :
       /\ outcome \in {"REJECTED", "FAILED"} => ~took
       /\ outcome = "SUCCEEDED" => took
       /\ worker' = [worker EXCEPT ![w] = [@ EXCEPT !.stage = "completing", !.outcome = outcome]]
       /\ writes' = [writes EXCEPT ![worker[w].action] = IF took THEN @ + 1 ELSE @]
  /\ UNCHANGED <<actionVars, requestVars, routeVars, jobVars, notices,
                 conversationVars, faults>>

ResultState(outcome) == IF outcome = "REJECTED" THEN "FAILED" ELSE outcome

\* Mutation: the result is written over whatever the action has become.
OverwriteOutcome(w) ==
  /\ worker[w].stage = "completing"
  /\ LET a == worker[w].action IN
     /\ state' = [state EXCEPT ![a] = ResultState(worker[w].outcome)]
     /\ \E recorded \in BOOLEAN :
          /\ Succeeds(recorded)
          /\ Enqueued(a, Result, Completed(w, recorded))
  /\ worker' = [worker EXCEPT ![w] = Idle]
  /\ UNCHANGED <<attempts, overdue, requestVars, routeVars, writes, notices,
                 conversationVars>>

\* complete_execution and _queue_result, the second transaction.
CompleteExecution(w) ==
  /\ worker[w].stage = "completing"
  /\ LET a == worker[w].action IN
     /\ state' = [state EXCEPT ![a] =
                    IF @ \in Terminal THEN @ ELSE ResultState(worker[w].outcome)]
     /\ \E recorded \in BOOLEAN :
          /\ Succeeds(recorded)
          /\ Enqueued(a, Result, Completed(w, recorded))
  /\ worker' = [worker EXCEPT ![w] = Idle]
  /\ UNCHANGED <<attempts, overdue, requestVars, routeVars, writes, notices,
                 conversationVars>>

------------------------------------------------------------------------------
(* The customer's answer: ApprovalExecutionService.notify.                  *)

\* A result job; the dispatcher hands out a held one only under AI_ACTIVE.
BeginNotify(w, a, j) ==
  /\ worker[w].stage = "idle"
  /\ j \in jobs[a]
  /\ j.topic = "result" \/ (j.topic = "held" /\ ai)
  /\ worker' = [worker EXCEPT ![w] = Doing("reading", a, j, FALSE, "NONE")]
  /\ UNCHANGED <<actionVars, requestVars, routeVars, jobVars, writes, notices,
                 conversationVars, faults>>

\* notify's own transaction: hold the result, or go on to prepare it.
ReadConversation(w) ==
  /\ worker[w].stage = "reading"
  /\ LET a == worker[w].action IN
     \/ /\ ai
        /\ worker' = [worker EXCEPT ![w].stage = "preparing"]
        /\ UNCHANGED <<jobVars, faults>>
     \/ /\ ~ai
        /\ \E recorded \in BOOLEAN :
             /\ Succeeds(recorded)
             /\ Enqueued(a, Held(version), Completed(w, recorded))
        /\ worker' = [worker EXCEPT ![w] = Idle]
  /\ UNCHANGED <<actionVars, requestVars, routeVars, writes, notices, conversationVars>>

\* TemplateService.prepare_proactive, under the lock of the conversation: a
\* conversation taken over meanwhile raises and the job is tried again.
PrepareNotice(w) ==
  /\ worker[w].stage = "preparing"
  /\ LET a == worker[w].action IN
     \/ /\ ai
        /\ notices' = notices \cup {a}
        /\ \E recorded \in BOOLEAN :
             /\ Succeeds(recorded)
             /\ jobs' = [jobs EXCEPT ![a] = @ \ Completed(w, recorded)]
     \/ /\ ~ai
        /\ UNCHANGED <<notices, jobs, faults>>
  /\ worker' = [worker EXCEPT ![w] = Idle]
  /\ UNCHANGED <<keys, actionVars, requestVars, routeVars, writes, conversationVars>>

------------------------------------------------------------------------------
(* Around them.                                                             *)

\* A human takes the conversation, or gives it back to the AI.
ControlChanges ==
  /\ ai => version + 1 < MaxVersion
  /\ version < MaxVersion
  /\ ai' = ~ai
  /\ version' = version + 1
  /\ UNCHANGED <<actionVars, requestVars, routeVars, jobVars, worker, writes, notices,
                 faults>>

\* A worker dies, or its attempt raises: the job is delivered again.
WorkerDies(w) ==
  /\ worker[w].stage # "idle"
  /\ faults < MaxFaults
  /\ faults' = faults + 1
  /\ worker' = [worker EXCEPT ![w] = Idle]
  /\ UNCHANGED <<actionVars, requestVars, routeVars, jobVars, writes, notices,
                 conversationVars>>

\* The database connection that holds the advisory lock is lost; the worker
\* finds out only when it is done.
LoseGuard(w) ==
  /\ worker[w].stage # "idle"
  /\ worker[w].guard
  /\ faults < MaxFaults
  /\ faults' = faults + 1
  /\ worker' = [worker EXCEPT ![w].guard = FALSE]
  /\ UNCHANGED <<actionVars, requestVars, routeVars, jobVars, writes, notices,
                 conversationVars>>

WorkerStep(w) ==
  \/ Settle(w)
  \/ ClaimExecution(w)
  \/ InvokeConnector(w)
  \/ CompleteExecution(w)
  \/ ReadConversation(w)
  \/ PrepareNotice(w)

Next ==
  \/ \E a \in Actions :
       \/ Request(a) \/ Confirm(a) \/ DeadlinePasses(a) \/ ExpireConfirmation(a)
       \/ RequestApproval(a) \/ CloseUnusable(a) \/ ExpireApproval(a)
       \/ \E d \in {"APPROVE", "REJECT"} : Decide(a, d)
  \/ \E c \in Configurations : SaveRoute(c)
  \/ PublishSpec
  \/ \E w \in Workers :
       \/ \E a \in Actions :
            BeginExecute(w, a) \/ \E j \in Jobs : BeginNotify(w, a, j)
       \/ WorkerStep(w) \/ WorkerDies(w) \/ LoseGuard(w)
  \/ ControlChanges

Spec == Init /\ [][Next]_vars

\* Workers serve the queue and finish their steps, the scanner closes overdue
\* requests, and a human gives the conversation back.
Fairness ==
  /\ \A w \in Workers : WF_vars(WorkerStep(w))
  /\ \A a \in Actions :
       /\ WF_vars(\E w \in Workers : BeginExecute(w, a))
       /\ \A j \in Jobs : WF_vars(\E w \in Workers : BeginNotify(w, a, j))
       /\ WF_vars(DeadlinePasses(a) /\ request[a] = "PENDING")
       /\ WF_vars(ExpireApproval(a))
  /\ WF_vars(ControlChanges /\ ~ai)

FairSpec == Spec /\ Fairness

------------------------------------------------------------------------------
(* Properties.                                                              *)

\* The type invariant: the CHECK constraints of the tables, and at most one
\* attempt counted by the execution_attempts column.
TypeOK ==
  /\ state \in [Actions -> ActionStates]
  /\ attempts \in [Actions -> 0 .. 1]
  /\ overdue \in [Actions -> SUBSET {"confirmation", "approval"}]
  /\ request \in [Actions -> RequestStates]
  /\ pinned \in [Actions -> Configurations]
  /\ decision \in [Actions -> {"NONE", "APPROVE", "REJECT"}]
  /\ route \in Configurations
  /\ revision \in Nat
  /\ permitted \in BOOLEAN
  /\ jobs \in [Actions -> SUBSET Jobs]
  /\ keys \in [Actions -> SUBSET Jobs]
  /\ worker \in [Workers -> {Idle} \cup Busy]
  /\ writes \in [Actions -> Nat]
  /\ notices \subseteq Actions
  /\ ai \in BOOLEAN
  /\ version \in 0 .. MaxVersion
  /\ faults \in 0 .. MaxFaults

\* The action, its approval request and the decision tell one story: a closed
\* request ended its action the same way, nothing runs without an approval
\* (close_request, decide, _execute).
VerdictsAgree ==
  \A a \in Actions :
    /\ decision[a] = "APPROVE" <=> request[a] = "APPROVED"
    /\ decision[a] = "REJECT" <=> request[a] = "REJECTED"
    /\ request[a] \in {"PENDING", "INVALIDATED"} => state[a] = "AWAITING_APPROVAL"
    /\ request[a] = "REJECTED" => state[a] = "REJECTED"
    /\ request[a] = "EXPIRED" => state[a] = "EXPIRED"
    /\ state[a] \in {"EXECUTING", "SUCCEEDED", "FAILED", "UNCERTAIN"} => request[a] = "APPROVED"

\* The native write takes effect at most once, whatever dies, overlaps or is
\* delivered again (begin_execution, the interrupted_execution branch).
WrittenAtMostOnce ==
  \A a \in Actions : writes[a] <= 1

\* What the action says is what happened: SUCCEEDED only after the write,
\* REJECTED, FAILED and EXPIRED only without it; otherwise it is UNCERTAIN.
OutcomeTruthful ==
  \A a \in Actions :
    /\ state[a] = "SUCCEEDED" => writes[a] = 1
    /\ state[a] \in {"REJECTED", "FAILED", "EXPIRED"} => writes[a] = 0

\* The answer is never lost: an action that ended after its approval was
\* requested has a notice, or a job that will lead to one (_queue_result, notify).
AnswerNotLost ==
  \A a \in Actions :
    state[a] \in Terminal /\ request[a] # "ABSENT" =>
      a \in notices \/ \E j \in jobs[a] : j.topic \in {"result", "held"}

\* A finished action is never reopened or rewritten (enforce_action_lifecycle).
TerminalIsFinal ==
  [][\A a \in Actions : state[a] \in Terminal => state'[a] = state[a]]_vars

\* A decided or expired request ends in a notice to the customer.
DecisionAnswered ==
  \A a \in Actions :
    request[a] \in {"APPROVED", "REJECTED", "EXPIRED"} ~> a \in notices
=============================================================================
