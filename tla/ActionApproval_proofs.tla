------------------------ MODULE ActionApproval_proofs ------------------------
(***************************************************************************)
(* What ActionApproval guarantees for any number of actions and workers,   *)
(* any configurations of the route, and any number of faults.              *)
(***************************************************************************)
EXTENDS ActionApproval, TLAPS

Writing == {"invoking", "completing"}

\* execution_attempts says whether the native write may have been started.
Attempted ==
  \A a \in Actions :
    /\ state[a] \in {"ABSENT", "AWAITING_CONFIRMATION", "AWAITING_APPROVAL",
                     "REJECTED", "EXPIRED"} => attempts[a] = 0
    /\ state[a] \in {"EXECUTING", "SUCCEEDED", "UNCERTAIN"} => attempts[a] = 1
    /\ attempts[a] = 0 => writes[a] = 0

\* A worker at the provider works on an action that is EXECUTING, or that a
\* second delivery has declared UNCERTAIN, and knows whether the write took effect.
InFlight ==
  \A w \in Workers :
    /\ worker[w].stage \in Writing =>
         /\ attempts[worker[w].action] = 1
         /\ state[worker[w].action] \in {"EXECUTING", "UNCERTAIN"}
    /\ worker[w].stage = "invoking" => writes[worker[w].action] = 0
    /\ worker[w].stage = "completing" =>
         /\ worker[w].outcome \in Outcomes
         /\ worker[w].outcome = "SUCCEEDED" => writes[worker[w].action] = 1
         /\ worker[w].outcome \in {"REJECTED", "FAILED"} => writes[worker[w].action] = 0

\* One worker at the provider per action, even when the advisory lock is lost.
OneWriter ==
  \A v, w \in Workers :
    v # w /\ worker[v].stage \in Writing /\ worker[w].stage \in Writing =>
      worker[v].action # worker[w].action

\* A job is worked on by its own handler, and a held one was released by a
\* later state of the conversation.
Handled ==
  \A w \in Workers :
    /\ worker[w].stage \in {"validating"} \cup Writing => worker[w].job = Execute
    /\ worker[w].stage \in {"reading", "preparing"} =>
         /\ worker[w].job.topic \in {"result", "held"}
         /\ worker[w].job.topic = "held" => worker[w].job.version < version

\* An approval is asked for confirmed actions only, and an action that ended
\* after that had its result queued.
Queued ==
  \A a \in Actions :
    /\ state[a] \in {"ABSENT", "AWAITING_CONFIRMATION"} => request[a] = "ABSENT"
    /\ state[a] \in Terminal /\ request[a] # "ABSENT" => Result \in keys[a]

\* Every result queued is a notice, or still has a job; a hold is completed
\* only after the conversation has moved on, so the next one has another key.
Carried ==
  \A a \in Actions :
    /\ jobs[a] \subseteq keys[a]
    /\ Result \in keys[a] =>
         a \in notices \/ \E j \in jobs[a] : j.topic \in {"result", "held"}
    /\ \A j \in keys[a] : j.topic = "held" =>
         /\ j.version <= version
         /\ j.version = version => ~ai
         /\ j \notin jobs[a] => j.version < version

ApprovalInv ==
  /\ TypeOK
  /\ VerdictsAgree
  /\ WrittenAtMostOnce
  /\ OutcomeTruthful
  /\ Attempted
  /\ InFlight
  /\ OneWriter
  /\ Handled
  /\ Queued
  /\ Carried

\* No action has been requested, no worker has a job.
LEMMA InitEstablishes == Init => ApprovalInv
<1> SUFFICES ASSUME Init PROVE ApprovalInv
  OBVIOUS
<1> USE ApprovalAssumption DEF Init
<1>1. TypeOK
  <2>1. route \in Configurations
    OBVIOUS
  <2>2. \A w \in Workers : worker[w] \in {Idle} \cup Busy
    OBVIOUS
  <2> QED BY <2>1, <2>2 DEF TypeOK, ActionStates, RequestStates
<1>2. VerdictsAgree /\ WrittenAtMostOnce /\ OutcomeTruthful /\ Attempted /\ Queued /\ Carried
  BY DEF VerdictsAgree, WrittenAtMostOnce, OutcomeTruthful, Attempted, Queued, Carried, Terminal
<1>3. InFlight /\ OneWriter /\ Handled
  BY DEF InFlight, OneWriter, Handled, Idle, Writing
<1> QED BY <1>1, <1>2, <1>3 DEF ApprovalInv

\* Only a worker that is not idle has an action, a job and an outcome.
LEMMA WorkersAreTyped ==
  ASSUME TypeOK, NEW w \in Workers, worker[w].stage # "idle"
  PROVE  worker[w] \in Busy
BY DEF TypeOK, Idle

\* The jobs that an action can have are jobs of the queue.
LEMMA JobsAreTyped ==
  ASSUME ApprovalAssumption
  PROVE  Execute \in Jobs /\ Result \in Jobs /\ \A v \in 0 .. MaxVersion : Held(v) \in Jobs
BY DEF ApprovalAssumption, Execute, Result, Held, Jobs

\* Enqueueing keeps the job tables typed.
LEMMA EnqueueTypes ==
  ASSUME TypeOK, NEW a \in Actions, NEW j \in Jobs, NEW done, Enqueued(a, j, done)
  PROVE  jobs' \in [Actions -> SUBSET Jobs] /\ keys' \in [Actions -> SUBSET Jobs]
BY DEF TypeOK, Enqueued

\* The types survive every step; the attempt counter because an execution is
\* claimed only from AWAITING_APPROVAL.
LEMMA StepKeepsTypes ==
  ApprovalInv /\ [Next]_vars => TypeOK'
<1> SUFFICES ASSUME ApprovalInv, [Next]_vars PROVE TypeOK'
  OBVIOUS
<1> USE ApprovalAssumption, JobsAreTyped DEF ApprovalInv
<1>1. ASSUME NEW a \in Actions,
             Request(a) \/ Confirm(a) \/ DeadlinePasses(a) \/ ExpireConfirmation(a)
      PROVE  TypeOK'
  BY <1>1 DEF TypeOK, Request, Confirm, DeadlinePasses, ExpireConfirmation, ActionStates,
    Terminal, requestVars, routeVars, jobVars, conversationVars
<1>2. ASSUME NEW a \in Actions, RequestApproval(a)
      PROVE  TypeOK'
  BY <1>2 DEF TypeOK, RequestApproval, RequestStates, actionVars, routeVars, jobVars,
    conversationVars
<1>3. ASSUME NEW a \in Actions, NEW outcome \in {"REJECTED", "EXPIRED", "INVALIDATED"},
             CloseRequest(a, outcome)
      PROVE  /\ request' \in [Actions -> RequestStates]
             /\ state' \in [Actions -> ActionStates]
             /\ jobs' \in [Actions -> SUBSET Jobs]
             /\ keys' \in [Actions -> SUBSET Jobs]
  BY <1>3, EnqueueTypes DEF TypeOK, CloseRequest, RequestStates, ActionStates, Terminal, jobVars
<1>4. ASSUME NEW a \in Actions, CloseUnusable(a) \/ ExpireApproval(a)
      PROVE  TypeOK'
  <2>1. \E outcome \in {"REJECTED", "EXPIRED", "INVALIDATED"} : CloseRequest(a, outcome)
    BY <1>4 DEF CloseUnusable, ExpireApproval
  <2> QED BY <1>3, <1>4, <2>1 DEF TypeOK, CloseUnusable, ExpireApproval, routeVars,
    conversationVars
<1>5. ASSUME NEW a \in Actions, NEW d \in {"APPROVE", "REJECT"}, Decide(a, d)
      PROVE  TypeOK'
  <2>1. /\ request' \in [Actions -> RequestStates]
        /\ state' \in [Actions -> ActionStates]
        /\ jobs' \in [Actions -> SUBSET Jobs]
        /\ keys' \in [Actions -> SUBSET Jobs]
    <3>1. CASE d = "REJECT"
      BY <1>3, <1>5, <3>1 DEF Decide
    <3>2. CASE d = "APPROVE"
      BY <1>5, <3>2, EnqueueTypes DEF Decide, TypeOK, RequestStates
    <3> QED BY <3>1, <3>2
  <2> QED BY <1>5, <2>1 DEF TypeOK, Decide, routeVars, conversationVars
<1>6. ASSUME NEW c \in Configurations, SaveRoute(c)
      PROVE  TypeOK'
  BY <1>6 DEF TypeOK, SaveRoute, actionVars, requestVars, jobVars, conversationVars
<1>7. CASE PublishSpec
  BY <1>7 DEF TypeOK, PublishSpec, actionVars, requestVars, jobVars, conversationVars
<1>8. ASSUME NEW w \in Workers, NEW a \in Actions, NEW j \in Jobs,
             BeginExecute(w, a) \/ BeginNotify(w, a, j)
      PROVE  TypeOK'
  <2>1. \E stage \in Stages \ {"idle"}, guard \in BOOLEAN, k \in Jobs :
          worker' = [worker EXCEPT ![w] = Doing(stage, a, k, guard, "NONE")]
    BY <1>8 DEF BeginExecute, BeginNotify, Stages
  <2>2. worker' \in [Workers -> {Idle} \cup Busy]
    BY <2>1 DEF TypeOK, Doing, Busy
  <2> QED BY <1>8, <2>2 DEF TypeOK, BeginExecute, BeginNotify, actionVars, requestVars,
    routeVars, jobVars, conversationVars
<1>9. ASSUME NEW w \in Workers, Settle(w) \/ CompleteExecution(w)
      PROVE  TypeOK'
  <2>1. worker[w] \in Busy /\ worker[w].action \in Actions
    BY <1>9, WorkersAreTyped DEF Settle, CompleteExecution, Busy
  <2>2. jobs' \in [Actions -> SUBSET Jobs] /\ keys' \in [Actions -> SUBSET Jobs]
    BY <1>9, <2>1, EnqueueTypes DEF Settle, CompleteExecution
  <2>3. state' \in [Actions -> ActionStates]
    <3>1. CASE Settle(w)
      BY <2>1, <3>1 DEF Settle, TypeOK, Verdicts, ActionStates, Terminal
    <3>2. CASE CompleteExecution(w)
      BY <2>1, <3>2 DEF CompleteExecution, InFlight, Outcomes, TypeOK, ResultState,
        ActionStates, Terminal
    <3> QED BY <1>9, <3>1, <3>2
  <2>4. worker' \in [Workers -> {Idle} \cup Busy]
    BY <1>9 DEF Settle, CompleteExecution, TypeOK
  <2>5. faults' \in 0 .. MaxFaults
    BY <1>9 DEF Settle, CompleteExecution, TypeOK, Succeeds
  <2> QED BY <1>9, <2>2, <2>3, <2>4, <2>5 DEF TypeOK, Settle, CompleteExecution, requestVars,
    routeVars, conversationVars
<1>10. ASSUME NEW w \in Workers, ClaimExecution(w)
       PROVE  TypeOK'
  <2>1. worker[w] \in Busy /\ worker[w].action \in Actions
    BY <1>10, WorkersAreTyped DEF ClaimExecution, Busy
  <2>2. attempts[worker[w].action] = 0
    BY <1>10, <2>1 DEF ClaimExecution, MayExecute, Attempted
  <2>3. worker' \in [Workers -> {Idle} \cup Busy]
    BY <1>10, <2>1 DEF ClaimExecution, TypeOK, Busy, Stages
  <2>4. attempts' \in [Actions -> 0 .. 1]
    BY <1>10, <2>1, <2>2 DEF ClaimExecution, TypeOK
  <2>5. state' \in [Actions -> ActionStates]
    BY <1>10, <2>1 DEF ClaimExecution, TypeOK, ActionStates
  <2> QED BY <1>10, <2>3, <2>4, <2>5 DEF TypeOK, ClaimExecution, requestVars, routeVars,
    jobVars, conversationVars
<1>11. ASSUME NEW w \in Workers, InvokeConnector(w)
       PROVE  TypeOK'
  <2>1. worker[w] \in Busy /\ worker[w].action \in Actions
    BY <1>11, WorkersAreTyped DEF InvokeConnector, Busy
  <2>2. writes[worker[w].action] = 0
    BY <1>11 DEF InvokeConnector, InFlight
  <2>3. PICK outcome \in Outcomes, took \in BOOLEAN :
          /\ worker' = [worker EXCEPT ![w] =
                          [@ EXCEPT !.stage = "completing", !.outcome = outcome]]
          /\ writes' = [writes EXCEPT ![worker[w].action] = IF took THEN @ + 1 ELSE @]
    BY <1>11 DEF InvokeConnector
  <2>4. worker' \in [Workers -> {Idle} \cup Busy]
    BY <2>1, <2>3 DEF TypeOK, Busy, Stages
  <2>5. writes' \in [Actions -> Nat]
    BY <2>1, <2>2, <2>3 DEF TypeOK
  <2> QED BY <1>11, <2>4, <2>5 DEF TypeOK, InvokeConnector, actionVars, requestVars, routeVars,
    jobVars, conversationVars
<1>12. ASSUME NEW w \in Workers, ReadConversation(w)
       PROVE  TypeOK'
  <2>1. worker[w] \in Busy /\ worker[w].action \in Actions
    BY <1>12, WorkersAreTyped DEF ReadConversation, Busy
  <2>2. jobs' \in [Actions -> SUBSET Jobs] /\ keys' \in [Actions -> SUBSET Jobs]
    BY <1>12, <2>1, EnqueueTypes DEF ReadConversation, TypeOK, jobVars
  <2>3. worker' \in [Workers -> {Idle} \cup Busy]
    BY <1>12, <2>1 DEF ReadConversation, TypeOK, Busy, Stages
  <2>4. faults' \in 0 .. MaxFaults
    BY <1>12 DEF ReadConversation, TypeOK, Succeeds
  <2> QED BY <1>12, <2>2, <2>3, <2>4 DEF TypeOK, ReadConversation, actionVars, requestVars,
    routeVars, conversationVars
<1>13. ASSUME NEW w \in Workers, PrepareNotice(w)
       PROVE  TypeOK'
  <2>1. worker[w] \in Busy /\ worker[w].action \in Actions
    BY <1>13, WorkersAreTyped DEF PrepareNotice, Busy
  <2>2. jobs' \in [Actions -> SUBSET Jobs] /\ notices' \subseteq Actions
    BY <1>13, <2>1 DEF PrepareNotice, TypeOK
  <2>3. worker' \in [Workers -> {Idle} \cup Busy] /\ faults' \in 0 .. MaxFaults
    BY <1>13 DEF PrepareNotice, TypeOK, Succeeds
  <2> QED BY <1>13, <2>2, <2>3 DEF TypeOK, PrepareNotice, actionVars, requestVars, routeVars,
    conversationVars
<1>14. ASSUME NEW w \in Workers, WorkerDies(w) \/ LoseGuard(w)
       PROVE  TypeOK'
  <2>1. worker[w] \in Busy
    BY <1>14, WorkersAreTyped DEF WorkerDies, LoseGuard
  <2>2. worker' \in [Workers -> {Idle} \cup Busy]
    <3>1. CASE WorkerDies(w)
      BY <3>1 DEF WorkerDies, TypeOK
    <3>2. CASE LoseGuard(w)
      <4>1. [worker[w] EXCEPT !.guard = FALSE] \in Busy
        BY <2>1 DEF Busy
      <4> QED BY <3>2, <4>1 DEF LoseGuard, TypeOK
    <3> QED BY <1>14, <3>1, <3>2
  <2> QED BY <1>14, <2>2 DEF TypeOK, WorkerDies, LoseGuard, actionVars, requestVars, routeVars,
    jobVars, conversationVars
<1>15. CASE ControlChanges
  BY <1>15 DEF TypeOK, ControlChanges, actionVars, requestVars, routeVars, jobVars
<1>16. CASE UNCHANGED vars
  BY <1>16 DEF TypeOK, vars, actionVars, requestVars, routeVars, jobVars, conversationVars
<1> QED
  BY <1>1, <1>2, <1>4, <1>5, <1>6, <1>7, <1>8, <1>9, <1>10, <1>11, <1>12, <1>13, <1>14, <1>15,
     <1>16 DEF Next, WorkerStep

\* The story the three tables tell survives every step: a request is decided or
\* closed in the same step as its action, and later only the action moves on.
LEMMA StepKeepsVerdicts ==
  ApprovalInv /\ [Next]_vars => VerdictsAgree'
<1> SUFFICES ASSUME ApprovalInv, [Next]_vars PROVE VerdictsAgree'
  OBVIOUS
<1> USE DEF ApprovalInv, VerdictsAgree
<1>1. ASSUME NEW a \in Actions, Request(a) \/ Confirm(a) \/ ExpireConfirmation(a)
      PROVE  VerdictsAgree'
  <2>1. request[a] = "ABSENT"
    BY <1>1 DEF Queued, Request, Confirm, ExpireConfirmation
  <2>2. \E s \in {"AWAITING_CONFIRMATION", "AWAITING_APPROVAL", "REJECTED", "EXPIRED"} :
          state' = [state EXCEPT ![a] = s]
    BY <1>1 DEF Request, Confirm, ExpireConfirmation
  <2>3. UNCHANGED <<request, decision>>
    BY <1>1 DEF Request, Confirm, ExpireConfirmation, requestVars
  <2> QED BY <2>1, <2>2, <2>3 DEF TypeOK
<1>2. ASSUME NEW a \in Actions, RequestApproval(a)
      PROVE  VerdictsAgree'
  BY <1>2 DEF RequestApproval, TypeOK, actionVars
<1>3. ASSUME NEW a \in Actions, NEW outcome \in {"REJECTED", "EXPIRED", "INVALIDATED"},
             request[a] = "PENDING", CloseRequest(a, outcome)
      PROVE  /\ request' = [request EXCEPT ![a] = outcome]
             /\ state' = [state EXCEPT ![a] =
                            IF outcome = "INVALIDATED" THEN "AWAITING_APPROVAL" ELSE outcome]
  BY <1>3 DEF CloseRequest, TypeOK
<1>4. ASSUME NEW a \in Actions, CloseUnusable(a) \/ ExpireApproval(a)
      PROVE  VerdictsAgree'
  <2>1. request[a] = "PENDING" /\ decision' = decision
    BY <1>4 DEF CloseUnusable, ExpireApproval
  <2>2. PICK outcome \in {"EXPIRED", "INVALIDATED"} : CloseRequest(a, outcome)
    BY <1>4 DEF CloseUnusable, ExpireApproval
  <2>3. /\ request' = [request EXCEPT ![a] = outcome]
        /\ state' = [state EXCEPT ![a] =
                       IF outcome = "INVALIDATED" THEN "AWAITING_APPROVAL" ELSE outcome]
    BY <1>3, <2>1, <2>2
  <2> QED BY <2>1, <2>3 DEF TypeOK
<1>5. ASSUME NEW a \in Actions, NEW d \in {"APPROVE", "REJECT"}, Decide(a, d)
      PROVE  VerdictsAgree'
  <2>1. request[a] = "PENDING" /\ state[a] = "AWAITING_APPROVAL"
    BY <1>5 DEF Decide, Usable
  <2>2. decision' = [decision EXCEPT ![a] = d]
    BY <1>5 DEF Decide
  <2>3. CASE d = "REJECT"
    BY <1>3, <1>5, <2>1, <2>2, <2>3 DEF Decide, TypeOK
  <2>4. CASE d = "APPROVE"
    BY <1>5, <2>1, <2>2, <2>4 DEF Decide, TypeOK
  <2> QED BY <2>3, <2>4
<1>6. ASSUME NEW w \in Workers, Settle(w)
      PROVE  VerdictsAgree'
  <2> DEFINE a == worker[w].action
  <2>1. a \in Actions
    BY <1>6, WorkersAreTyped DEF Settle, Busy
  <2>2. UNCHANGED <<request, decision>>
    BY <1>6 DEF Settle, requestVars
  <2>3. \/ state' = state
        \/ /\ decision[a] = "APPROVE"
           /\ \E s \in Verdicts(a) : state' = [state EXCEPT ![a] = s]
    BY <1>6 DEF Settle
  <2>4. Verdicts(a) \subseteq {"UNCERTAIN", "EXPIRED", "REJECTED", "FAILED"}
    BY DEF Verdicts
  <2> HIDE DEF a
  <2> QED BY <2>1, <2>2, <2>3, <2>4 DEF TypeOK
<1>7. ASSUME NEW w \in Workers, ClaimExecution(w)
      PROVE  VerdictsAgree'
  BY <1>7, WorkersAreTyped DEF ClaimExecution, MayExecute, TypeOK, Busy, requestVars
<1>8. ASSUME NEW w \in Workers, CompleteExecution(w)
      PROVE  VerdictsAgree'
  <2> DEFINE a == worker[w].action
  <2>1. a \in Actions /\ state[a] \in {"EXECUTING", "UNCERTAIN"} /\ worker[w].outcome \in Outcomes
    BY <1>8, WorkersAreTyped DEF CompleteExecution, Busy, InFlight, Writing
  <2>2. request[a] = "APPROVED" /\ UNCHANGED <<request, decision>>
    BY <1>8, <2>1 DEF CompleteExecution, requestVars
  <2>3. \E s \in {"SUCCEEDED", "FAILED", "UNCERTAIN"} : state' = [state EXCEPT ![a] = s]
    BY <1>8, <2>1 DEF CompleteExecution, ResultState, Outcomes, Terminal
  <2> HIDE DEF a
  <2> QED BY <2>1, <2>2, <2>3 DEF TypeOK
<1>9. CASE UNCHANGED <<state, request, decision>>
  BY <1>9
<1> QED
  BY <1>1, <1>2, <1>4, <1>5, <1>6, <1>7, <1>8, <1>9 DEF Next, WorkerStep, DeadlinePasses, SaveRoute,
     PublishSpec, BeginExecute, BeginNotify, InvokeConnector, ReadConversation, PrepareNotice,
     WorkerDies, LoseGuard, ControlChanges, vars, actionVars, requestVars

\* A step that neither moves an action nor starts or ends a write keeps what is
\* known of writes.
LEMMA StepKeepsWrites ==
  ApprovalInv /\ [Next]_vars => WrittenAtMostOnce' /\ OutcomeTruthful' /\ Attempted'
<1> SUFFICES ASSUME ApprovalInv, [Next]_vars PROVE WrittenAtMostOnce' /\ OutcomeTruthful' /\ Attempted'
  OBVIOUS
<1> USE DEF ApprovalInv, WrittenAtMostOnce, OutcomeTruthful, Attempted
<1>1. ASSUME NEW a \in Actions, Request(a) \/ Confirm(a) \/ ExpireConfirmation(a)
      PROVE  WrittenAtMostOnce' /\ OutcomeTruthful' /\ Attempted'
  <2>1. state[a] \in {"ABSENT", "AWAITING_CONFIRMATION"}
    BY <1>1 DEF Request, Confirm, ExpireConfirmation
  <2>2. \E s \in {"AWAITING_CONFIRMATION", "AWAITING_APPROVAL", "REJECTED", "EXPIRED"} :
          state' = [state EXCEPT ![a] = s]
    BY <1>1 DEF Request, Confirm, ExpireConfirmation
  <2>3. UNCHANGED <<attempts, writes>>
    BY <1>1 DEF Request, Confirm, ExpireConfirmation
  <2> QED BY <2>1, <2>2, <2>3 DEF TypeOK
<1>2. ASSUME NEW a \in Actions,
             CloseUnusable(a) \/ ExpireApproval(a) \/ Decide(a, "REJECT") \/ Decide(a, "APPROVE")
      PROVE  WrittenAtMostOnce' /\ OutcomeTruthful' /\ Attempted'
  <2>1. request[a] = "PENDING"
    BY <1>2 DEF CloseUnusable, ExpireApproval, Decide, Usable
  <2>2. state[a] = "AWAITING_APPROVAL"
    BY <2>1 DEF VerdictsAgree
  <2>3. \E s \in {"AWAITING_APPROVAL", "REJECTED", "EXPIRED"} : state' = [state EXCEPT ![a] = s]
    BY <1>2, <2>2 DEF CloseUnusable, ExpireApproval, Decide, CloseRequest, TypeOK
  <2>4. UNCHANGED <<attempts, writes>>
    BY <1>2 DEF CloseUnusable, ExpireApproval, Decide
  <2> QED BY <2>2, <2>3, <2>4 DEF TypeOK
<1>3. ASSUME NEW w \in Workers, Settle(w)
      PROVE  WrittenAtMostOnce' /\ OutcomeTruthful' /\ Attempted'
  <2> DEFINE a == worker[w].action
  <2>1. a \in Actions /\ UNCHANGED <<attempts, writes>>
    BY <1>3, WorkersAreTyped DEF Settle, Busy
  <2>2. CASE state' = state
    BY <2>1, <2>2
  <2>3. CASE state' # state
    <3>1. state[a] \notin Terminal /\ decision[a] = "APPROVE"
      BY <1>3, <2>3 DEF Settle
    <3>2. PICK s \in Verdicts(a) : state' = [state EXCEPT ![a] = s]
      BY <1>3, <2>3 DEF Settle
    <3>3. state[a] \in {"AWAITING_APPROVAL", "EXECUTING"}
      BY <2>1, <3>1 DEF VerdictsAgree, Queued, TypeOK, ActionStates
    <3>4. CASE state[a] = "EXECUTING"
      BY <2>1, <3>2, <3>4 DEF Verdicts, TypeOK
    <3>5. CASE state[a] = "AWAITING_APPROVAL"
      <4>1. s \in {"EXPIRED", "REJECTED", "FAILED"}
        BY <3>2, <3>5 DEF Verdicts
      <4> QED BY <2>1, <3>2, <3>5, <4>1 DEF TypeOK
    <3> QED BY <3>3, <3>4, <3>5
  <2> QED BY <2>2, <2>3
<1>4. ASSUME NEW w \in Workers, ClaimExecution(w)
      PROVE  WrittenAtMostOnce' /\ OutcomeTruthful' /\ Attempted'
  BY <1>4, WorkersAreTyped DEF ClaimExecution, MayExecute, TypeOK, Busy
<1>5. ASSUME NEW w \in Workers, InvokeConnector(w)
      PROVE  WrittenAtMostOnce' /\ OutcomeTruthful' /\ Attempted'
  <2>1. /\ worker[w].action \in Actions
        /\ attempts[worker[w].action] = 1
        /\ state[worker[w].action] \in {"EXECUTING", "UNCERTAIN"}
    BY <1>5, WorkersAreTyped DEF InvokeConnector, Busy, InFlight, Writing
  <2>2. \A a \in Actions \ {worker[w].action} : writes'[a] = writes[a]
    BY <1>5 DEF InvokeConnector, TypeOK
  <2>3. UNCHANGED <<state, attempts>>
    BY <1>5 DEF InvokeConnector, actionVars
  <2>4. writes'[worker[w].action] <= 1
    BY <1>5, <2>1 DEF InvokeConnector, InFlight, TypeOK
  <2> QED BY <2>1, <2>2, <2>3, <2>4
<1>6. ASSUME NEW w \in Workers, CompleteExecution(w)
      PROVE  WrittenAtMostOnce' /\ OutcomeTruthful' /\ Attempted'
  <2> DEFINE a == worker[w].action
  <2>1. /\ a \in Actions
        /\ attempts[a] = 1
        /\ state[a] \in {"EXECUTING", "UNCERTAIN"}
        /\ worker[w].outcome \in Outcomes
        /\ worker[w].outcome = "SUCCEEDED" => writes[a] = 1
        /\ worker[w].outcome \in {"REJECTED", "FAILED"} => writes[a] = 0
    BY <1>6, WorkersAreTyped DEF CompleteExecution, Busy, InFlight, Writing
  <2>2. UNCHANGED <<attempts, writes>>
    BY <1>6 DEF CompleteExecution
  <2>3. \/ state' = state
        \/ state' = [state EXCEPT ![a] = ResultState(worker[w].outcome)]
    BY <1>6, <2>1 DEF CompleteExecution, TypeOK, Terminal
  <2> HIDE DEF a
  <2> QED BY <2>1, <2>2, <2>3 DEF ResultState, Outcomes, TypeOK
<1>7. CASE UNCHANGED <<state, attempts, writes>>
  BY <1>7
<1> QED
  BY <1>1, <1>2, <1>3, <1>4, <1>5, <1>6, <1>7 DEF Next, WorkerStep, DeadlinePasses, SaveRoute,
     RequestApproval, PublishSpec, BeginExecute, BeginNotify, ReadConversation, PrepareNotice,
     WorkerDies, LoseGuard, ControlChanges, vars, actionVars

\* An action nobody writes for may move as it likes: the workers at the provider
\* work on other actions.
LEMMA OtherActionsUndisturbed ==
  ASSUME ApprovalInv, NEW a \in Actions, state[a] \notin {"EXECUTING", "UNCERTAIN"},
         \A b \in Actions \ {a} : state'[b] = state[b],
         UNCHANGED <<worker, attempts, writes>>
  PROVE  InFlight' /\ OneWriter'
<1>1. \A w \in Workers : worker[w].stage \in Writing =>
        worker[w].action \in Actions /\ worker[w].action # a
  BY WorkersAreTyped DEF ApprovalInv, InFlight, Writing, Busy
<1> QED BY <1>1 DEF ApprovalInv, InFlight, OneWriter, Writing

\* A step of a worker that ends away from the provider and moves no action.
LEMMA OtherWorkersUndisturbed ==
  ASSUME ApprovalInv, NEW w \in Workers,
         \A v \in Workers \ {w} : worker'[v] = worker[v],
         worker'[w].stage \notin Writing,
         UNCHANGED <<state, attempts, writes>>
  PROVE  InFlight' /\ OneWriter'
BY DEF ApprovalInv, InFlight, OneWriter, Writing

\* Two workers are never at the provider for one action: a claim needs an action
\* that was never attempted, and a worker at the provider has attempted its own.
LEMMA StepKeepsFlights ==
  ApprovalInv /\ [Next]_vars => InFlight' /\ OneWriter'
<1> SUFFICES ASSUME ApprovalInv, [Next]_vars PROVE InFlight' /\ OneWriter'
  OBVIOUS
<1>1. ASSUME NEW a \in Actions, Request(a) \/ Confirm(a) \/ ExpireConfirmation(a)
      PROVE  InFlight' /\ OneWriter'
  <2>1. state[a] \notin {"EXECUTING", "UNCERTAIN"}
    BY <1>1 DEF Request, Confirm, ExpireConfirmation
  <2>2. \A b \in Actions \ {a} : state'[b] = state[b]
    BY <1>1 DEF ApprovalInv, TypeOK, Request, Confirm, ExpireConfirmation
  <2>3. UNCHANGED <<worker, attempts, writes>>
    BY <1>1 DEF Request, Confirm, ExpireConfirmation
  <2> QED BY <2>1, <2>2, <2>3, OtherActionsUndisturbed
<1>2. ASSUME NEW a \in Actions,
             CloseUnusable(a) \/ ExpireApproval(a) \/ Decide(a, "REJECT") \/ Decide(a, "APPROVE")
      PROVE  InFlight' /\ OneWriter'
  <2>1. state[a] \notin {"EXECUTING", "UNCERTAIN"}
    BY <1>2 DEF ApprovalInv, VerdictsAgree, CloseUnusable, ExpireApproval, Decide, Usable
  <2>2. \A b \in Actions \ {a} : state'[b] = state[b]
    BY <1>2 DEF ApprovalInv, TypeOK, CloseUnusable, ExpireApproval, Decide, CloseRequest
  <2>3. UNCHANGED <<worker, attempts, writes>>
    BY <1>2 DEF CloseUnusable, ExpireApproval, Decide
  <2> QED BY <2>1, <2>2, <2>3, OtherActionsUndisturbed
<1>3. ASSUME NEW w \in Workers, NEW a \in Actions, NEW j \in Jobs,
             BeginExecute(w, a) \/ BeginNotify(w, a, j)
      PROVE  InFlight' /\ OneWriter'
  <2>1. worker'[w].stage \in {"validating", "reading"}
    BY <1>3 DEF ApprovalInv, TypeOK, BeginExecute, BeginNotify, Doing
  <2>2. \A v \in Workers \ {w} : worker'[v] = worker[v]
    BY <1>3 DEF ApprovalInv, TypeOK, BeginExecute, BeginNotify
  <2>3. UNCHANGED <<state, attempts, writes>>
    BY <1>3 DEF BeginExecute, BeginNotify, actionVars
  <2> QED BY <2>1, <2>2, <2>3, OtherWorkersUndisturbed DEF Writing
<1>4. ASSUME NEW w \in Workers, ReadConversation(w) \/ PrepareNotice(w) \/ WorkerDies(w)
      PROVE  InFlight' /\ OneWriter'
  <2>1. worker'[w].stage \in {"idle", "preparing"}
    BY <1>4, WorkersAreTyped DEF ApprovalInv, TypeOK, ReadConversation, PrepareNotice, WorkerDies,
      Idle, Busy
  <2>2. \A v \in Workers \ {w} : worker'[v] = worker[v]
    BY <1>4 DEF ApprovalInv, TypeOK, ReadConversation, PrepareNotice, WorkerDies
  <2>3. UNCHANGED <<state, attempts, writes>>
    BY <1>4 DEF ReadConversation, PrepareNotice, WorkerDies, actionVars
  <2> QED BY <2>1, <2>2, <2>3, OtherWorkersUndisturbed DEF Writing
<1>5. ASSUME NEW w \in Workers, LoseGuard(w)
      PROVE  InFlight' /\ OneWriter'
  <2>1. \A v \in Workers : /\ worker'[v].stage = worker[v].stage
                           /\ worker'[v].stage # "idle" =>
                                /\ worker'[v].action = worker[v].action
                                /\ worker'[v].outcome = worker[v].outcome
    <3>1. worker[w] \in Busy
      BY <1>5, WorkersAreTyped DEF ApprovalInv, LoseGuard
    <3> QED BY <1>5, <3>1 DEF ApprovalInv, TypeOK, LoseGuard, Busy
  <2>2. UNCHANGED <<state, attempts, writes>>
    BY <1>5 DEF LoseGuard, actionVars
  <2> QED BY <2>1, <2>2 DEF ApprovalInv, InFlight, OneWriter, Writing
<1>6. ASSUME NEW w \in Workers, Settle(w)
      PROVE  InFlight' /\ OneWriter'
  <2> DEFINE a == worker[w].action
  <2>1. a \in Actions /\ UNCHANGED <<attempts, writes>>
    BY <1>6, WorkersAreTyped DEF ApprovalInv, Settle, Busy
  <2>2. worker'[w].stage = "idle" /\ \A v \in Workers \ {w} : worker'[v] = worker[v]
    BY <1>6 DEF ApprovalInv, TypeOK, Settle, Idle
  <2>3. CASE state' = state
    BY <2>1, <2>2, <2>3, OtherWorkersUndisturbed DEF Writing
  <2>4. CASE state' # state
    <3>1. state[a] \notin Terminal
      BY <1>6, <2>4 DEF Settle
    <3>2. PICK s \in Verdicts(a) : state' = [state EXCEPT ![a] = s]
      BY <1>6, <2>4 DEF Settle
    <3>3. \A v \in Workers : worker[v].stage \in Writing =>
            worker[v].action \in Actions /\ state'[worker[v].action] \in {"EXECUTING", "UNCERTAIN"}
      <4> SUFFICES ASSUME NEW v \in Workers, worker[v].stage \in Writing
                   PROVE  /\ worker[v].action \in Actions
                          /\ state'[worker[v].action] \in {"EXECUTING", "UNCERTAIN"}
        OBVIOUS
      <4>1. /\ worker[v].action \in Actions
            /\ state[worker[v].action] \in {"EXECUTING", "UNCERTAIN"}
        BY WorkersAreTyped DEF ApprovalInv, InFlight, Writing, Busy
      <4>2. CASE worker[v].action = a
        <5>1. state[a] = "EXECUTING"
          BY <3>1, <4>1, <4>2 DEF Terminal
        <5>2. s = "UNCERTAIN"
          BY <5>1 DEF Verdicts
        <5> QED BY <2>1, <3>2, <4>1, <4>2, <5>2 DEF ApprovalInv, TypeOK
      <4>3. CASE worker[v].action # a
        BY <2>1, <3>2, <4>1, <4>3 DEF ApprovalInv, TypeOK
      <4> QED BY <4>2, <4>3
    <3> QED BY <2>1, <2>2, <3>3 DEF ApprovalInv, InFlight, OneWriter, Writing
  <2> QED BY <2>3, <2>4
<1>7. ASSUME NEW w \in Workers, ClaimExecution(w)
      PROVE  InFlight' /\ OneWriter'
  <2> DEFINE a == worker[w].action
  <2>1. a \in Actions /\ worker[w] \in Busy
    BY <1>7, WorkersAreTyped DEF ApprovalInv, ClaimExecution, Busy
  <2>2. state[a] = "AWAITING_APPROVAL" /\ attempts[a] = 0 /\ writes[a] = 0
    BY <1>7, <2>1 DEF ApprovalInv, ClaimExecution, MayExecute, Attempted
  <2>3. /\ state' = [state EXCEPT ![a] = "EXECUTING"]
        /\ attempts' = [attempts EXCEPT ![a] = 1]
        /\ writes' = writes
    BY <1>7, <2>1, <2>2 DEF ApprovalInv, TypeOK, ClaimExecution
  <2>4. /\ worker'[w].stage = "invoking"
        /\ worker'[w].action = a
        /\ \A v \in Workers \ {w} : worker'[v] = worker[v]
    BY <1>7, <2>1 DEF ApprovalInv, TypeOK, ClaimExecution, Busy
  <2>5. \A v \in Workers : worker[v].stage \in Writing =>
          worker[v].action \in Actions /\ worker[v].action # a
    BY <2>2, WorkersAreTyped DEF ApprovalInv, InFlight, Writing, Busy
  <2>6. state'[a] = "EXECUTING" /\ attempts'[a] = 1 /\ writes'[a] = 0
    BY <2>1, <2>2, <2>3 DEF ApprovalInv, TypeOK
  <2>7. \A b \in Actions \ {a} : state'[b] = state[b] /\ attempts'[b] = attempts[b]
    BY <2>3 DEF ApprovalInv, TypeOK
  <2> HIDE DEF a
  <2>8. InFlight'
    BY <2>3, <2>4, <2>5, <2>6, <2>7 DEF ApprovalInv, InFlight, Writing
  <2>9. OneWriter'
    BY <2>4, <2>5 DEF ApprovalInv, OneWriter, Writing
  <2> QED BY <2>8, <2>9
<1>8. ASSUME NEW w \in Workers, InvokeConnector(w)
      PROVE  InFlight' /\ OneWriter'
  <2> DEFINE a == worker[w].action
  <2>1. a \in Actions /\ worker[w] \in Busy
    BY <1>8, WorkersAreTyped DEF ApprovalInv, InvokeConnector, Busy
  <2>2. /\ worker[w].stage = "invoking"
        /\ attempts[a] = 1
        /\ state[a] \in {"EXECUTING", "UNCERTAIN"}
        /\ writes[a] = 0
    BY <1>8 DEF ApprovalInv, InvokeConnector, InFlight, Writing
  <2>3. PICK outcome \in Outcomes, took \in BOOLEAN :
          /\ outcome \in {"REJECTED", "FAILED"} => ~took
          /\ outcome = "SUCCEEDED" => took
          /\ worker' = [worker EXCEPT ![w] =
                          [@ EXCEPT !.stage = "completing", !.outcome = outcome]]
          /\ writes' = [writes EXCEPT ![a] = IF took THEN @ + 1 ELSE @]
    BY <1>8 DEF InvokeConnector
  <2>4. UNCHANGED <<state, attempts>>
    BY <1>8 DEF InvokeConnector, actionVars
  <2>5. /\ worker'[w].stage = "completing"
        /\ worker'[w].action = a
        /\ worker'[w].outcome = outcome
        /\ \A v \in Workers \ {w} : worker'[v] = worker[v]
    BY <2>1, <2>3 DEF ApprovalInv, TypeOK, Busy
  <2>6. \A v \in Workers \ {w} : worker[v].stage \in Writing =>
          worker[v].action \in Actions /\ worker[v].action # a
    BY <2>2, WorkersAreTyped DEF ApprovalInv, OneWriter, Writing, Busy
  <2>7. /\ outcome = "SUCCEEDED" => writes'[a] = 1
        /\ outcome \in {"REJECTED", "FAILED"} => writes'[a] = 0
        /\ \A b \in Actions \ {a} : writes'[b] = writes[b]
    BY <2>1, <2>2, <2>3 DEF ApprovalInv, TypeOK
  <2> HIDE DEF a
  <2>8. InFlight'
    BY <2>2, <2>4, <2>5, <2>6, <2>7 DEF ApprovalInv, InFlight, Writing
  <2>9. OneWriter'
    BY <2>5, <2>6 DEF ApprovalInv, OneWriter, Writing
  <2> QED BY <2>8, <2>9
<1>9. ASSUME NEW w \in Workers, CompleteExecution(w)
      PROVE  InFlight' /\ OneWriter'
  <2> DEFINE a == worker[w].action
  <2>1. worker[w].stage = "completing" /\ a \in Actions
    BY <1>9, WorkersAreTyped DEF ApprovalInv, CompleteExecution, Busy
  <2>2. \A v \in Workers \ {w} : worker[v].stage \in Writing =>
          worker[v].action \in Actions /\ worker[v].action # a
    BY <2>1, WorkersAreTyped DEF ApprovalInv, OneWriter, Writing, Busy
  <2>3. worker'[w].stage = "idle" /\ \A v \in Workers \ {w} : worker'[v] = worker[v]
    BY <1>9 DEF ApprovalInv, TypeOK, CompleteExecution, Idle
  <2>4. \A b \in Actions \ {a} : state'[b] = state[b]
    BY <1>9 DEF ApprovalInv, TypeOK, CompleteExecution
  <2>5. UNCHANGED <<attempts, writes>>
    BY <1>9 DEF CompleteExecution
  <2> HIDE DEF a
  <2> QED BY <2>2, <2>3, <2>4, <2>5 DEF ApprovalInv, InFlight, OneWriter, Writing
<1>10. CASE UNCHANGED <<state, attempts, writes, worker>>
  BY <1>10 DEF ApprovalInv, InFlight, OneWriter, Writing
<1>11. Execute \in Jobs
  BY ApprovalAssumption, JobsAreTyped
<1> QED
  BY <1>1, <1>2, <1>3, <1>4, <1>5, <1>6, <1>7, <1>8, <1>9, <1>10, <1>11 DEF Next, WorkerStep,
     DeadlinePasses, RequestApproval, SaveRoute, PublishSpec, ControlChanges, vars, actionVars

\* A handler keeps the job it was given; a held result is handed out only once
\* the conversation is back, that is at a later version than it was held at.
LEMMA StepKeepsHandled ==
  ApprovalInv /\ [Next]_vars => Handled'
<1> SUFFICES ASSUME ApprovalInv, [Next]_vars PROVE Handled'
  OBVIOUS
<1> USE DEF ApprovalInv, Handled, Writing
<1>1. ASSUME NEW w \in Workers, NEW a \in Actions, BeginExecute(w, a)
      PROVE  Handled'
  BY <1>1 DEF BeginExecute, Doing, TypeOK, conversationVars
<1>2. ASSUME NEW w \in Workers, NEW a \in Actions, NEW j \in Jobs, BeginNotify(w, a, j)
      PROVE  Handled'
  <2>1. j.topic \in {"result", "held"}
    BY <1>2 DEF BeginNotify
  <2>2. j.topic = "held" => j.version < version
    <3>1. j.topic = "held" => j \in keys[a] /\ ai
      BY <1>2 DEF BeginNotify, Carried
    <3>2. version \in Nat /\ j.version \in Nat
      BY ApprovalAssumption DEF TypeOK, Jobs, ApprovalAssumption
    <3> QED BY <3>1, <3>2 DEF Carried
  <2>3. worker' = [worker EXCEPT ![w] = Doing("reading", a, j, FALSE, "NONE")]
    BY <1>2 DEF BeginNotify
  <2>4. version' = version
    BY <1>2 DEF BeginNotify, conversationVars
  <2> QED BY <2>1, <2>2, <2>3, <2>4 DEF Doing, TypeOK
<1>3. ASSUME NEW w \in Workers, Settle(w) \/ CompleteExecution(w) \/ PrepareNotice(w) \/ WorkerDies(w)
      PROVE  Handled'
  <2>1. worker' = [worker EXCEPT ![w] = Idle] /\ version' = version
    BY <1>3 DEF Settle, CompleteExecution, PrepareNotice, WorkerDies, conversationVars
  <2> QED BY <2>1 DEF Idle, TypeOK
<1>4. ASSUME NEW w \in Workers,
             ClaimExecution(w) \/ InvokeConnector(w) \/ ReadConversation(w) \/ LoseGuard(w)
      PROVE  Handled'
  <2>1. worker[w] \in Busy /\ version' = version
    BY <1>4, WorkersAreTyped DEF ClaimExecution, InvokeConnector, ReadConversation, LoseGuard,
      conversationVars
  <2>2. \A v \in Workers \ {w} : worker'[v] = worker[v]
    BY <1>4 DEF ClaimExecution, InvokeConnector, ReadConversation, LoseGuard, TypeOK
  <2>3. \/ worker'[w].stage = "idle"
        \/ /\ worker'[w].job = worker[w].job
           /\ \/ worker'[w].stage = worker[w].stage
              \/ worker[w].stage \in {"validating", "invoking"} /\ worker'[w].stage \in Writing
              \/ worker[w].stage = "reading" /\ worker'[w].stage = "preparing"
    <3>1. CASE ClaimExecution(w)
      BY <2>1, <3>1 DEF ClaimExecution, TypeOK, Busy
    <3>2. CASE InvokeConnector(w)
      BY <2>1, <3>2 DEF InvokeConnector, TypeOK, Busy
    <3>3. CASE ReadConversation(w)
      BY <2>1, <3>3 DEF ReadConversation, TypeOK, Busy, Idle
    <3>4. CASE LoseGuard(w)
      BY <2>1, <3>4 DEF LoseGuard, TypeOK, Busy
    <3> QED BY <1>4, <3>1, <3>2, <3>3, <3>4
  <2> QED BY <2>1, <2>2, <2>3
<1>5. CASE ControlChanges
  <2>1. worker' = worker /\ version' = version + 1 /\ version \in Nat
    BY <1>5, ApprovalAssumption DEF ControlChanges, TypeOK, ApprovalAssumption
  <2>2. \A w \in Workers : worker[w].stage # "idle" => worker[w].job.version \in Nat
    BY WorkersAreTyped, ApprovalAssumption DEF Busy, Jobs, ApprovalAssumption
  <2> QED BY <2>1, <2>2
<1>6. CASE UNCHANGED <<worker, version>>
  BY <1>6
<1>7. Execute \in Jobs
  BY ApprovalAssumption, JobsAreTyped
<1> QED
  BY <1>1, <1>2, <1>3, <1>4, <1>5, <1>6, <1>7 DEF Next, WorkerStep, Request, Confirm,
     DeadlinePasses, ExpireConfirmation, RequestApproval, CloseUnusable, ExpireApproval, Decide,
     SaveRoute, PublishSpec, vars, conversationVars

\* Whatever ends an action after its approval was requested queues the result
\* in the same step; keys are never forgotten.
LEMMA StepKeepsQueued ==
  ApprovalInv /\ [Next]_vars => Queued'
<1> SUFFICES ASSUME ApprovalInv, [Next]_vars PROVE Queued'
  OBVIOUS
<1> USE DEF ApprovalInv, Queued
<1>1. ASSUME NEW a \in Actions, Request(a) \/ Confirm(a) \/ ExpireConfirmation(a)
      PROVE  Queued'
  <2>1. request[a] = "ABSENT"
    BY <1>1 DEF Request, Confirm, ExpireConfirmation
  <2>2. UNCHANGED <<request, keys>> /\ \A b \in Actions \ {a} : state'[b] = state[b]
    BY <1>1 DEF Request, Confirm, ExpireConfirmation, requestVars, jobVars, TypeOK
  <2> QED BY <2>1, <2>2
<1>2. ASSUME NEW a \in Actions, RequestApproval(a)
      PROVE  Queued'
  BY <1>2 DEF RequestApproval, actionVars, jobVars, TypeOK, Terminal
<1>3. ASSUME NEW a \in Actions, CloseUnusable(a) \/ ExpireApproval(a)
      PROVE  Queued'
  <2>1. request[a] = "PENDING" /\ state[a] = "AWAITING_APPROVAL"
    BY <1>3 DEF CloseUnusable, ExpireApproval, VerdictsAgree
  <2>2. PICK outcome \in {"EXPIRED", "INVALIDATED"} : CloseRequest(a, outcome)
    BY <1>3 DEF CloseUnusable, ExpireApproval
  <2>3. CASE outcome = "EXPIRED"
    BY <2>1, <2>2, <2>3 DEF CloseRequest, Enqueued, TypeOK
  <2>4. CASE outcome = "INVALIDATED"
    BY <2>1, <2>2, <2>4 DEF CloseRequest, jobVars, TypeOK, Terminal
  <2> QED BY <2>3, <2>4
<1>4. ASSUME NEW a \in Actions, NEW d \in {"APPROVE", "REJECT"}, Decide(a, d)
      PROVE  Queued'
  <2>1. state[a] = "AWAITING_APPROVAL"
    BY <1>4 DEF Decide, Usable
  <2>2. CASE d = "REJECT"
    BY <1>4, <2>1, <2>2 DEF Decide, CloseRequest, Enqueued, TypeOK
  <2>3. CASE d = "APPROVE"
    BY <1>4, <2>1, <2>3 DEF Decide, Enqueued, TypeOK, Terminal
  <2> QED BY <2>2, <2>3
<1>5. ASSUME NEW w \in Workers, Settle(w) \/ CompleteExecution(w)
      PROVE  Queued'
  <2> DEFINE a == worker[w].action
  <2>1. a \in Actions
    BY <1>5, WorkersAreTyped DEF Settle, CompleteExecution, Busy
  <2>2. request' = request /\ \A b \in Actions \ {a} : state'[b] = state[b]
    BY <1>5 DEF Settle, CompleteExecution, requestVars, TypeOK
  <2>3. keys' = [keys EXCEPT ![a] = @ \cup {Result}]
    BY <1>5 DEF Settle, CompleteExecution, Enqueued
  <2>4. state[a] \notin {"ABSENT", "AWAITING_CONFIRMATION"} \/ request[a] = "ABSENT"
    BY <2>1
  <2>5. state'[a] \in {"ABSENT", "AWAITING_CONFIRMATION"} =>
          state[a] \in {"ABSENT", "AWAITING_CONFIRMATION"}
    <3>1. CASE Settle(w)
      BY <2>1, <3>1 DEF Settle, Verdicts, TypeOK
    <3>2. CASE CompleteExecution(w)
      BY <2>1, <3>2 DEF CompleteExecution, InFlight, Writing, Outcomes, ResultState, Terminal, TypeOK
    <3> QED BY <1>5, <3>1, <3>2
  <2> HIDE DEF a
  <2> QED BY <2>1, <2>2, <2>3, <2>4, <2>5 DEF TypeOK
<1>6. ASSUME NEW w \in Workers, ClaimExecution(w)
      PROVE  Queued'
  <2> DEFINE a == worker[w].action
  <2>1. a \in Actions /\ state' = [state EXCEPT ![a] = "EXECUTING"]
    BY <1>6, WorkersAreTyped DEF ClaimExecution, Busy
  <2>2. UNCHANGED <<request, keys>>
    BY <1>6 DEF ClaimExecution, requestVars, jobVars
  <2> HIDE DEF a
  <2> QED BY <2>1, <2>2 DEF TypeOK, Terminal
<1>7. ASSUME NEW w \in Workers, ReadConversation(w)
      PROVE  Queued'
  <2>1. UNCHANGED <<state, request>>
    BY <1>7 DEF ReadConversation, actionVars, requestVars
  <2>2. \A b \in Actions : keys[b] \subseteq keys'[b]
    BY <1>7 DEF ReadConversation, Enqueued, jobVars, TypeOK
  <2> QED BY <2>1, <2>2
<1>8. CASE UNCHANGED <<state, request, keys>>
  BY <1>8
<1> QED
  BY <1>1, <1>2, <1>3, <1>4, <1>5, <1>6, <1>7, <1>8 DEF Next, WorkerStep, DeadlinePasses,
     SaveRoute, PublishSpec, BeginExecute, BeginNotify, InvokeConnector, PrepareNotice,
     WorkerDies, LoseGuard, ControlChanges, vars, actionVars, requestVars, jobVars

\* What a step may do to the jobs of one action so that its result stays carried:
\* keys are only added, with a job or for one that is known; jobs are completed
\* only by a notice, or when another job of the result remains.
LEMMA EnqueueCarries ==
  ASSUME ApprovalInv, NEW a \in Actions, NEW j \in Jobs, NEW done, Enqueued(a, j, done),
         UNCHANGED <<notices, ai, version>>,
         j = Held(version) => ~ai,
         j = Held(version) \/ j = Result \/ j = Execute,
         \A k \in done : k.topic = "held" => k.version < version,
         \/ \A k \in done : k.topic = "execute"
         \/ j = Held(version)
  PROVE  Carried'
<1> USE DEF ApprovalInv, Carried
<1>1. /\ jobs'[a] = (jobs[a] \ done) \cup ({j} \ keys[a])
      /\ keys'[a] = keys[a] \cup {j}
      /\ \A b \in Actions \ {a} : jobs'[b] = jobs[b] /\ keys'[b] = keys[b]
  BY DEF Enqueued, TypeOK
<1>2. version \in Nat
  BY ApprovalAssumption DEF TypeOK, ApprovalAssumption
<1>3. jobs'[a] \subseteq keys'[a]
  BY <1>1
<1>4. \A k \in keys'[a] : k.topic = "held" =>
         /\ k.version <= version
         /\ k.version = version => ~ai
         /\ k \notin jobs'[a] => k.version < version
  <2> SUFFICES ASSUME NEW k \in keys'[a], k.topic = "held"
               PROVE  /\ k.version <= version
                      /\ k.version = version => ~ai
                      /\ k \notin jobs'[a] => k.version < version
    OBVIOUS
  <2>1. CASE k \in keys[a]
    BY <1>1, <2>1
  <2>2. CASE k \notin keys[a]
    <3>1. k = j /\ j = Held(version) /\ k \in jobs'[a]
      BY <1>1, <2>2 DEF Result, Execute
    <3> QED BY <1>2, <3>1 DEF Held
  <2> QED BY <2>1, <2>2
<1>5. Result \in keys'[a] => a \in notices \/ \E k \in jobs'[a] : k.topic \in {"result", "held"}
  <2>1. CASE j = Held(version)
    <3>1. Held(version) \notin done
      BY <1>2 DEF Held
    <3>2. Held(version) \in jobs'[a]
      BY <1>1, <1>2, <2>1, <3>1 DEF Held
    <3> QED BY <3>2 DEF Held
  <2>2. CASE \A k \in done : k.topic = "execute"
    <3>1. \A k \in jobs[a] : k.topic \in {"result", "held"} => k \in jobs'[a]
      BY <1>1, <2>2
    <3>2. CASE Result \in keys[a]
      BY <3>1, <3>2
    <3>3. CASE Result \notin keys[a] /\ Result \in keys'[a]
      <4>1. Result \in jobs'[a]
        BY <1>1, <3>3
      <4> QED BY <4>1 DEF Result
    <3> QED BY <3>2, <3>3
  <2> QED BY <2>1, <2>2
<1> QED BY <1>1, <1>3, <1>4, <1>5

\* A queued result is never lost.
LEMMA StepKeepsCarried ==
  ApprovalInv /\ [Next]_vars => Carried'
<1> SUFFICES ASSUME ApprovalInv, [Next]_vars PROVE Carried'
  OBVIOUS
<1> USE ApprovalAssumption, JobsAreTyped DEF ApprovalInv
<1>1. ASSUME NEW a \in Actions, NEW outcome \in {"REJECTED", "EXPIRED", "INVALIDATED"},
             CloseRequest(a, outcome), UNCHANGED <<notices, ai, version>>
      PROVE  Carried'
  <2>1. CASE Enqueued(a, Result, {})
    BY <1>1, <2>1, EnqueueCarries DEF Held, Result
  <2>2. CASE UNCHANGED jobVars
    BY <1>1, <2>2 DEF Carried, jobVars
  <2> QED BY <1>1, <2>1, <2>2 DEF CloseRequest
<1>2. ASSUME NEW a \in Actions, CloseUnusable(a) \/ ExpireApproval(a)
      PROVE  Carried'
  <2>1. UNCHANGED <<notices, ai, version>>
    BY <1>2 DEF CloseUnusable, ExpireApproval, conversationVars
  <2>2. \E outcome \in {"EXPIRED", "INVALIDATED"} : CloseRequest(a, outcome)
    BY <1>2 DEF CloseUnusable, ExpireApproval
  <2> QED BY <1>1, <2>1, <2>2
<1>3. ASSUME NEW a \in Actions, NEW d \in {"APPROVE", "REJECT"}, Decide(a, d)
      PROVE  Carried'
  <2>1. UNCHANGED <<notices, ai, version>>
    BY <1>3 DEF Decide, conversationVars
  <2>2. CASE d = "REJECT"
    BY <1>1, <1>3, <2>1, <2>2 DEF Decide
  <2>3. CASE d = "APPROVE"
    <3>1. Enqueued(a, Execute, {})
      BY <1>3, <2>3 DEF Decide
    <3> QED BY <2>1, <3>1, EnqueueCarries DEF Held, Execute
  <2> QED BY <2>2, <2>3
<1>4. ASSUME NEW w \in Workers, Settle(w) \/ CompleteExecution(w)
      PROVE  Carried'
  <2>1. worker[w] \in Busy /\ worker[w].action \in Actions
    BY <1>4, WorkersAreTyped DEF Settle, CompleteExecution, Busy
  <2>2. worker[w].job = Execute
    BY <1>4 DEF Settle, CompleteExecution, Handled, Writing
  <2>3. PICK recorded \in BOOLEAN : Enqueued(worker[w].action, Result, Completed(w, recorded))
    BY <1>4 DEF Settle, CompleteExecution
  <2>4. \A k \in Completed(w, recorded) : k.topic = "execute"
    BY <2>2 DEF Completed, Execute
  <2>5. UNCHANGED <<notices, ai, version>>
    BY <1>4 DEF Settle, CompleteExecution, conversationVars
  <2>6. Result # Held(version) /\ \A k \in Completed(w, recorded) : k.topic # "held"
    BY <2>4 DEF Result, Held
  <2> QED BY <2>1, <2>3, <2>4, <2>5, <2>6, EnqueueCarries
<1>5. ASSUME NEW w \in Workers, ReadConversation(w)
      PROVE  Carried'
  <2>1. worker[w] \in Busy /\ worker[w].action \in Actions
    BY <1>5, WorkersAreTyped DEF ReadConversation, Busy
  <2>2. UNCHANGED <<notices, ai, version>>
    BY <1>5 DEF ReadConversation, conversationVars
  <2>3. CASE UNCHANGED jobVars
    BY <2>2, <2>3 DEF Carried, jobVars
  <2>4. CASE ~UNCHANGED jobVars
    <3>1. PICK recorded \in BOOLEAN :
            ~ai /\ Enqueued(worker[w].action, Held(version), Completed(w, recorded))
      BY <1>5, <2>4 DEF ReadConversation
    <3>2. \A k \in Completed(w, recorded) : k.topic = "held" => k.version < version
      BY <1>5 DEF ReadConversation, Handled, Completed
    <3>3. Held(version) \in Jobs
      BY DEF TypeOK
    <3> QED BY <2>1, <2>2, <3>1, <3>2, <3>3, EnqueueCarries
  <2> QED BY <2>3, <2>4
<1>6. ASSUME NEW w \in Workers, PrepareNotice(w)
      PROVE  Carried'
  <2> DEFINE a == worker[w].action
  <2>1. a \in Actions
    BY <1>6, WorkersAreTyped DEF PrepareNotice, Busy
  <2>2. keys' = keys /\ UNCHANGED <<ai, version>>
    BY <1>6 DEF PrepareNotice, conversationVars
  <2>3. CASE UNCHANGED <<notices, jobs>>
    BY <2>2, <2>3 DEF Carried
  <2>4. CASE ~UNCHANGED <<notices, jobs>>
    <3>1. PICK recorded \in BOOLEAN :
            /\ notices' = notices \cup {a}
            /\ jobs' = [jobs EXCEPT ![a] = @ \ Completed(w, recorded)]
      BY <1>6, <2>4 DEF PrepareNotice
    <3>2. \A k \in Completed(w, recorded) : k.topic = "held" => k.version < version
      BY <1>6 DEF PrepareNotice, Handled, Completed
    <3> HIDE DEF a
    <3>3. /\ jobs'[a] = jobs[a] \ Completed(w, recorded)
          /\ \A b \in Actions \ {a} : jobs'[b] = jobs[b]
      BY <2>1, <3>1 DEF TypeOK
    <3> QED BY <2>1, <2>2, <3>1, <3>2, <3>3 DEF Carried
  <2> QED BY <2>3, <2>4
<1>7. CASE ControlChanges
  <2>1. UNCHANGED <<jobs, keys, notices>> /\ version' = version + 1 /\ version \in Nat
    BY <1>7 DEF ControlChanges, jobVars, TypeOK, ApprovalAssumption
  <2>2. \A a \in Actions : \A j \in keys[a] : j.version \in Nat
    BY DEF TypeOK, Jobs, ApprovalAssumption
  <2> QED BY <2>1, <2>2 DEF Carried
<1>8. CASE UNCHANGED <<jobs, keys, notices, ai, version>>
  BY <1>8 DEF Carried
<1> QED
  BY <1>2, <1>3, <1>4, <1>5, <1>6, <1>7, <1>8 DEF Next, WorkerStep, Request, Confirm,
     DeadlinePasses, ExpireConfirmation, RequestApproval, SaveRoute, PublishSpec, BeginExecute,
     BeginNotify, ClaimExecution, InvokeConnector, WorkerDies, LoseGuard, vars, jobVars,
     conversationVars

\* Every part of the invariant survives every step.
THEOREM ApprovalInvariant == Spec => []ApprovalInv
<1>1. Init => ApprovalInv
  BY InitEstablishes
<1>2. ApprovalInv /\ [Next]_vars => ApprovalInv'
  BY StepKeepsTypes, StepKeepsVerdicts, StepKeepsWrites, StepKeepsFlights, StepKeepsHandled,
     StepKeepsQueued, StepKeepsCarried DEF ApprovalInv
<1> QED BY <1>1, <1>2, PTL DEF Spec

\* The tables keep the values their CHECK constraints allow, and a second attempt
\* of the native write is never counted.
THEOREM ApprovalTypesHold == Spec => []TypeOK
<1>1. ApprovalInv => TypeOK
  BY DEF ApprovalInv
<1> QED BY <1>1, ApprovalInvariant, PTL

\* The action, its approval request and the decision never contradict each other.
THEOREM VerdictsAgreeHolds == Spec => []VerdictsAgree
<1>1. ApprovalInv => VerdictsAgree
  BY DEF ApprovalInv
<1> QED BY <1>1, ApprovalInvariant, PTL

\* The native write takes effect at most once, for any number of workers, lost
\* locks, deaths and deliveries of the execute job.
THEOREM WrittenAtMostOnceHolds == Spec => []WrittenAtMostOnce
<1>1. ApprovalInv => WrittenAtMostOnce
  BY DEF ApprovalInv
<1> QED BY <1>1, ApprovalInvariant, PTL

\* An action never claims a write that did not happen, nor denies one that did.
THEOREM OutcomeTruthfulHolds == Spec => []OutcomeTruthful
<1>1. ApprovalInv => OutcomeTruthful
  BY DEF ApprovalInv
<1> QED BY <1>1, ApprovalInvariant, PTL

\* The answer to a decided action is a message, or a job that leads to one.
THEOREM AnswerNotLostHolds == Spec => []AnswerNotLost
<1>1. ApprovalInv => AnswerNotLost
  BY DEF ApprovalInv, Queued, Carried, AnswerNotLost
<1> QED BY <1>1, ApprovalInvariant, PTL

\* A finished action is never reopened or rewritten, by any late worker.
THEOREM TerminalIsFinalHolds == Spec => TerminalIsFinal
<1> DEFINE Kept == \A a \in Actions : state[a] \in Terminal => state'[a] = state[a]
<1>1. ApprovalInv /\ [Next]_vars => [Kept]_vars
  <2> SUFFICES ASSUME ApprovalInv, Next PROVE Kept
    OBVIOUS
  <2> USE DEF ApprovalInv, Terminal
  <2>1. ASSUME NEW a \in Actions,
               \/ Request(a) \/ Confirm(a) \/ ExpireConfirmation(a)
               \/ CloseUnusable(a) \/ ExpireApproval(a)
               \/ Decide(a, "REJECT") \/ Decide(a, "APPROVE")
        PROVE  Kept
    <3>1. state[a] \notin Terminal \/ state' = state
      BY <2>1 DEF Request, Confirm, ExpireConfirmation, CloseUnusable, ExpireApproval, Decide,
        Usable, CloseRequest
    <3>2. \A b \in Actions \ {a} : state'[b] = state[b]
      BY <2>1 DEF TypeOK, Request, Confirm, ExpireConfirmation, CloseUnusable, ExpireApproval,
        Decide, CloseRequest
    <3> QED BY <3>1, <3>2
  <2>2. ASSUME NEW w \in Workers, Settle(w) \/ ClaimExecution(w) \/ CompleteExecution(w)
        PROVE  Kept
    <3> DEFINE a == worker[w].action
    <3>1. state[a] \in Terminal => state'[a] = state[a]
      BY <2>2 DEF TypeOK, Settle, ClaimExecution, MayExecute, CompleteExecution
    <3>2. \A b \in Actions \ {a} : state'[b] = state[b]
      BY <2>2 DEF TypeOK, Settle, ClaimExecution, CompleteExecution
    <3> QED BY <3>1, <3>2
  <2>3. CASE UNCHANGED state
    BY <2>3
  <2> QED
    BY <2>1, <2>2, <2>3 DEF Next, WorkerStep, DeadlinePasses, RequestApproval, SaveRoute,
       PublishSpec, BeginExecute, BeginNotify, InvokeConnector, ReadConversation, PrepareNotice,
       WorkerDies, LoseGuard, ControlChanges, actionVars
<1> QED BY <1>1, ApprovalInvariant, PTL DEF Spec, TerminalIsFinal
=============================================================================
