--------------------------- MODULE MessagePipeline ---------------------------
(***************************************************************************)
(* The path of a customer's message through the backend, in one            *)
(* conversation: the webhook, ingestion, the agent turn, the preparation,  *)
(* the sending of the reply and the delivery callbacks, composed with who  *)
(* has control of the conversation (ConversationControl).                  *)
(*                                                                         *)
(* Each stage is a job of the durable queue.  Of that queue this module    *)
(* assumes JobContract: one attempt of a job in flight, a failed attempt   *)
(* retried or dead-lettered, nothing after success.  The serialisation of  *)
(* the conversation lock is not assumed.  One transaction is one step.     *)
(***************************************************************************)
EXTENDS ConversationControl

CONSTANTS
  Events,          \* inbound WhatsApp messages, by whatsapp_message_id
  HumanRequests,   \* those whose text explicitly asks for a human
  ProviderResults, \* how the provider may answer
  Callbacks        \* the delivery statuses the provider may report

ASSUME PipelineAssumption ==
  /\ Events \subseteq Requesters
  /\ HumanRequests \subseteq Events
  /\ Events \cap Handoffs = {}
  /\ ProviderResults \subseteq {"accepted", "rejected", "uncertain"}
  /\ Callbacks \subseteq {"SENT", "DELIVERED", "READ", "FAILED"}

\* The messages sent out: the reply to an event, the notice of a handoff.
Sources == Events \cup Handoffs

VARIABLES
  inbound,       \* the whatsapp.inbound job of each webhook event
  message,       \* the events that are inbound messages of the conversation
  turn,          \* the agent.turn job of each inbound message
  turnPc,        \* where the attempt of that job is
  turnVersion,   \* the state_version its generation, or its reply, started from
  epoch,         \* conversation_state_version of the stored reply, 0: no reply
  prepare,       \* the outbound.text job of each source message
  send,          \* the whatsapp.outbound.send job of its outbound message
  outbound,      \* outbound_messages.status, "absent" before the INSERT
  attemptCount,  \* outbound_messages.attempt_count
  identified,    \* provider_message_id is stored
  call,          \* the attempt of the send job and its provider result
  history        \* the delivery statuses in status_history

turnVars == <<turn, turnPc, turnVersion, epoch>>
sendVars == <<send, outbound, attemptCount, identified, call, history>>
vars == <<controlVars, inbound, message, turnVars, prepare, sendVars>>

JobStates == {"absent", "waiting", "done", "dead"}
\* Mutation: an uncertain outcome is not final.
FinalButUncertain == {"ACCEPTED", "SENT", "DELIVERED", "READ", "FAILED", "BLOCKED"}

\* _FINAL_SEND_STATUSES.
FinalSendStatuses == {"ACCEPTED", "SENT", "DELIVERED", "READ", "FAILED", "UNCERTAIN", "BLOCKED"}

Init ==
  /\ ControlInit
  /\ inbound = [e \in Events |-> "absent"]
  /\ message = {}
  /\ turn = [e \in Events |-> "absent"]
  /\ turnPc = [e \in Events |-> "idle"]
  /\ turnVersion = [e \in Events |-> 0]
  /\ epoch = [e \in Events |-> 0]
  /\ prepare = [s \in Sources |-> "absent"]
  /\ send = [s \in Sources |-> "absent"]
  /\ outbound = [s \in Sources |-> "absent"]
  /\ attemptCount = [s \in Sources |-> 0]
  /\ identified = [s \in Sources |-> FALSE]
  /\ call = [s \in Sources |-> "none"]
  /\ history = [s \in Sources |-> {}]

-----------------------------------------------------------------------------
\* MetaWebhookProcessor.process: the event row and its job in one transaction;
\* a repeated delivery finds the row and changes nothing.
ReceiveWebhook(e) ==
  /\ inbound[e] = "absent"
  /\ inbound' = [inbound EXCEPT ![e] = "waiting"]
  /\ UNCHANGED <<controlVars, message, turnVars, prepare, sendVars>>

\* may_ai_respond after the possible reopening, under the policy SILENT.
MayAIRespond == control \in {"AI_ACTIVE", "CLOSED"}

\* handle_whatsapp_inbound: ingest in a transaction, then media.  An attempt
\* that fails after the commit is repeated, finds the message and does nothing.
Ingest(e) ==
  /\ inbound[e] = "waiting"
  /\ inbound' = [inbound EXCEPT ![e] = "done"]
  /\ message' = message \cup {e}
  /\ InboundArrives
  /\ turn' = IF MayAIRespond THEN [turn EXCEPT ![e] = "waiting"] ELSE turn
  /\ UNCHANGED <<turnPc, turnVersion, epoch, prepare, sendVars>>

\* No attempt commits the message: the job is dead-lettered.
IngestDies(e) ==
  /\ inbound[e] = "waiting"
  /\ inbound' = [inbound EXCEPT ![e] = "dead"]
  /\ UNCHANGED <<controlVars, message, turnVars, prepare, sendVars>>

-----------------------------------------------------------------------------
(* handle_agent_turn.                                                       *)

\* inspect_inbound comes first; the text of most messages asks for no human.
BeginTurn(e) ==
  /\ turn[e] = "waiting"
  /\ turnPc[e] = "idle"
  /\ turnPc' = [turnPc EXCEPT ![e] = IF e \in HumanRequests THEN "inspecting" ELSE "loading"]
  /\ UNCHANGED <<controlVars, inbound, message, turn, turnVersion, epoch, prepare, sendVars>>

\* The request of the turn; denied or not, the turn goes on.
TurnRequests(e) ==
  /\ turnPc[e] = "inspecting"
  /\ \/ BeginRequest(e) /\ UNCHANGED <<turnPc, prepare>>
     \/ /\ EndRequest(e)
        /\ turnPc' = [turnPc EXCEPT ![e] = "loading"]
        /\ UNCHANGED prepare
     \/ \E h \in Handoffs :
          /\ AdmitRequest(e, h)
          /\ prepare' = [prepare EXCEPT ![h] = "waiting"]
          /\ turnPc' = [turnPc EXCEPT ![e] = "loading"]
  /\ UNCHANGED <<inbound, message, turn, turnVersion, epoch, sendVars>>

\* A live handoff is returned at once, or none is configured or enabled.
TurnRequestDenied(e) ==
  /\ turnPc[e] = "inspecting"
  /\ request[e] = 0
  /\ Live # {} \/ ~enabled
  /\ turnPc' = [turnPc EXCEPT ![e] = "loading"]
  /\ UNCHANGED <<controlVars, inbound, message, turn, turnVersion, epoch, prepare, sendVars>>

\* process: an existing reply, a conversation that is not the AI's and an
\* inactive AgentSpec end the turn; otherwise the model is run.
LoadTurn(e) ==
  /\ turnPc[e] = "loading"
  /\ \/ /\ epoch[e] = 0 /\ control = "AI_ACTIVE"
        /\ turnPc' = [turnPc EXCEPT ![e] = "generating"]
        /\ turnVersion' = [turnVersion EXCEPT ![e] = version]
     \/ turnPc' = [turnPc EXCEPT ![e] = "ending"] /\ UNCHANGED turnVersion
  /\ UNCHANGED <<controlVars, inbound, message, turn, epoch, prepare, sendVars>>

\* Mutation: the version is read when the reply is stored.
ReplyEpochNow(e) == IF control = "AI_ACTIVE" /\ epoch[e] = 0 THEN version ELSE epoch[e]

\* persist_assistant_reply under the conversation lock: a reply belongs to the
\* version it was generated from, and is stored only while that one lasts.
ReplyEpoch(e) ==
  IF control = "AI_ACTIVE" /\ version = turnVersion[e] /\ epoch[e] = 0
  THEN turnVersion[e] ELSE epoch[e]

\* The reply and its outbound.text job in one transaction, or neither when it
\* is suppressed or was stored before.
PersistReply(e) ==
  /\ turnPc[e] = "generating"
  /\ turnPc' = [turnPc EXCEPT ![e] = "ending"]
  /\ epoch' = [epoch EXCEPT ![e] = ReplyEpoch(e)]
  /\ IF ReplyEpoch(e) = epoch[e]
     THEN turnVersion' = [turnVersion EXCEPT ![e] = 0] /\ UNCHANGED prepare
     ELSE prepare' = [prepare EXCEPT ![e] = "waiting"] /\ UNCHANGED turnVersion
  /\ UNCHANGED <<controlVars, inbound, message, turn, sendVars>>

\* The durable queue records the success in a transaction of its own.
EndTurn(e) ==
  /\ turnPc[e] = "ending"
  /\ turn' = [turn EXCEPT ![e] = "done"]
  /\ turnPc' = [turnPc EXCEPT ![e] = "idle"]
  /\ UNCHANGED <<controlVars, inbound, message, turnVersion, epoch, prepare, sendVars>>

\* The attempt raises, is cancelled or deferred: the turn's open transaction is
\* rolled back, the job waits for its next attempt or is dead-lettered.
TurnFails(e) ==
  /\ turnPc[e] # "idle"
  /\ turnPc' = [turnPc EXCEPT ![e] = "idle"]
  /\ \E s \in {"waiting", "dead"} : turn' = [turn EXCEPT ![e] = s]
  /\ turnVersion' = [turnVersion EXCEPT ![e] = IF epoch[e] = 0 THEN 0 ELSE @]
  /\ request' = [request EXCEPT ![e] = 0]
  /\ UNCHANGED <<conversationVars, handoffVars, inactivityJob, configVars, inbound,
                 message, epoch, prepare, sendVars>>

\* Requests of other origins: the admin route, backend policy outcomes.
OtherRequest(r) ==
  /\ r \in Requesters \ Events
  /\ \/ (BeginRequest(r) \/ EndRequest(r)) /\ UNCHANGED prepare
     \/ \E h \in Handoffs :
          AdmitRequest(r, h) /\ prepare' = [prepare EXCEPT ![h] = "waiting"]
  /\ UNCHANGED <<inbound, message, turnVars, sendVars>>

-----------------------------------------------------------------------------
(* OutboundMessageService.                                                  *)

\* Mutation: any reply is authorised while the AI has the conversation.
SourceAuthorizedInAnyEpoch(s) ==
  IF s \in Handoffs THEN control = "AWAITING_HUMAN" /\ handoff[s] = "REQUESTED"
                    ELSE control = "AI_ACTIVE"

\* _source_authorized.
SourceAuthorized(s) ==
  IF s \in Handoffs THEN control = "AWAITING_HUMAN" /\ handoff[s] = "REQUESTED"
                    ELSE control = "AI_ACTIVE" /\ epoch[s] = version

\* prepare_text inserts the outbound message and its send job; an attempt that
\* is repeated finds the row.
PrepareText(s) ==
  /\ prepare[s] = "waiting"
  /\ SourceAuthorized(s)
  /\ prepare' = [prepare EXCEPT ![s] = "done"]
  /\ outbound' = [outbound EXCEPT ![s] = "PREPARED"]
  /\ send' = [send EXCEPT ![s] = "waiting"]
  /\ UNCHANGED <<controlVars, inbound, message, turnVars, attemptCount,
                 identified, call, history>>

\* An inactive account, a lost authority or a closed service window raise in
\* every attempt until the job is dead-lettered.
PrepareDies(s) ==
  /\ prepare[s] = "waiting"
  /\ prepare' = [prepare EXCEPT ![s] = "dead"]
  /\ UNCHANGED <<controlVars, inbound, message, turnVars, sendVars>>

\* _claim of a PREPARED message: BLOCKED when the account is inactive, the
\* authority lost or the service window closed, else SENDING.
Claim(s) ==
  /\ send[s] = "waiting" /\ call[s] = "none"
  /\ outbound[s] = "PREPARED"
  /\ \/ /\ SourceAuthorized(s)
        /\ outbound' = [outbound EXCEPT ![s] = "SENDING"]
        /\ attemptCount' = [attemptCount EXCEPT ![s] = @ + 1]
        /\ call' = [call EXCEPT ![s] = "calling"]
     \/ /\ outbound' = [outbound EXCEPT ![s] = "BLOCKED"]
        /\ UNCHANGED <<attemptCount, call>>
  /\ UNCHANGED <<controlVars, inbound, message, turnVars, prepare, send, identified,
                 history>>

\* Mutation: a row left in SENDING is claimed again.
RecoverBySending(s) ==
  /\ send[s] = "waiting" /\ call[s] = "none"
  /\ outbound[s] = "SENDING"
  /\ attemptCount' = [attemptCount EXCEPT ![s] = @ + 1]
  /\ call' = [call EXCEPT ![s] = "calling"]
  /\ UNCHANGED <<controlVars, inbound, message, turnVars, prepare, send, outbound,
                 identified, history>>

\* _claim of a row an earlier attempt left in SENDING: the outcome is unknown
\* and the message is not sent again.
RecoverUnknown(s) ==
  /\ send[s] = "waiting" /\ call[s] = "none"
  /\ outbound[s] = "SENDING"
  /\ outbound' = [outbound EXCEPT ![s] = "UNCERTAIN"]
  /\ UNCHANGED <<controlVars, inbound, message, turnVars, prepare, send, attemptCount,
                 identified, call, history>>

\* The job succeeds in a transaction of its own, at the end of the attempt that
\* wrote the final status or of a later one, which finds it.
EndSend(s) ==
  /\ send[s] = "waiting" /\ call[s] = "none"
  /\ outbound[s] \in FinalSendStatuses
  /\ send' = [send EXCEPT ![s] = "done"]
  /\ UNCHANGED <<controlVars, inbound, message, turnVars, prepare, outbound,
                 attemptCount, identified, call, history>>

\* send_text answers; a call without an answer, or that raised, is uncertain.
ProviderAnswers(s, result) ==
  /\ call[s] = "calling"
  /\ call' = [call EXCEPT ![s] = result]
  /\ UNCHANGED <<controlVars, inbound, message, turnVars, prepare, send, outbound,
                 attemptCount, identified, history>>

CompletedAs(result) ==
  CASE result = "accepted" -> "ACCEPTED"
    [] result = "rejected" -> "FAILED"
    [] result = "uncertain" -> "UNCERTAIN"

\* _complete: a row that is no longer SENDING is returned as it is.
Complete(s) ==
  /\ call[s] \in ProviderResults
  /\ IF outbound[s] = "SENDING"
     THEN /\ outbound' = [outbound EXCEPT ![s] = CompletedAs(call[s])]
          /\ identified' = [identified EXCEPT ![s] = call[s] = "accepted"]
     ELSE UNCHANGED <<outbound, identified>>
  /\ call' = [call EXCEPT ![s] = "none"]
  /\ UNCHANGED <<controlVars, inbound, message, turnVars, prepare, send, attemptCount,
                 history>>

\* The attempt is cancelled, or its database fails, before its end is recorded.
SendInterrupted(s) ==
  /\ send[s] = "waiting"
  /\ outbound[s] \notin FinalSendStatuses
  /\ call' = [call EXCEPT ![s] = "none"]
  /\ \E r \in {"waiting", "dead"} : send' = [send EXCEPT ![s] = r]
  /\ UNCHANGED <<controlVars, inbound, message, turnVars, prepare, outbound,
                 attemptCount, identified, history>>

-----------------------------------------------------------------------------
(* Delivery callbacks.                                                      *)

Rank(status) ==
  CASE status = "ACCEPTED" -> 1
    [] status = "SENT" -> 2
    [] status = "DELIVERED" -> 3
    [] status = "READ" -> 4
    [] OTHER -> 0

\* Mutation: a failure wins over what the customer already has.
ReconciledFailureWins(current, callback) ==
  IF callback = "FAILED" \/ Rank(callback) >= Rank(current) THEN callback ELSE current

\* _reconciled_current_status.
Reconciled(current, callback) ==
  IF \/ current = "READ"
     \/ callback = "FAILED" /\ current = "DELIVERED"
     \/ callback # "FAILED" /\ Rank(callback) < Rank(current)
  THEN current ELSE callback

\* OutboundStatusReconciler.reconcile finds the row by its provider_message_id.
\* The provider reports SENT, DELIVERED, READ and FAILED; its callbacks come in
\* any order, any number of times or never, and one that comes before
\* _complete matches no row: that is the callback that never comes.
Reconcile(s, status) ==
  /\ identified[s]
  /\ outbound' = [outbound EXCEPT ![s] = Reconciled(outbound[s], status)]
  /\ history' = [history EXCEPT ![s] = @ \cup {status}]
  /\ UNCHANGED <<controlVars, inbound, message, turnVars, prepare, send,
                 attemptCount, identified, call>>

-----------------------------------------------------------------------------
TurnProgress(e) ==
  \/ BeginTurn(e) \/ TurnRequests(e) \/ TurnRequestDenied(e)
  \/ LoadTurn(e) \/ PersistReply(e) \/ EndTurn(e)

PrepareProgress(s) == PrepareText(s) \/ PrepareDies(s)

SendProgress(s) ==
  \/ Claim(s) \/ RecoverUnknown(s)
  \/ \E result \in ProviderResults : ProviderAnswers(s, result)
  \/ Complete(s) \/ EndSend(s)

Next ==
  \/ HandoffStep /\ UNCHANGED <<inbound, message, turnVars, prepare, sendVars>>
  \/ \E r \in Requesters : OtherRequest(r)
  \/ \E e \in Events : ReceiveWebhook(e) \/ Ingest(e) \/ IngestDies(e)
  \/ \E e \in Events : TurnProgress(e) \/ TurnFails(e)
  \/ \E s \in Sources : PrepareProgress(s) \/ SendProgress(s) \/ SendInterrupted(s)
  \/ \E s \in Sources, status \in Callbacks : Reconcile(s, status)

Spec == Init /\ [][Next]_vars

\* The jobs are executed, and by the retry budget of the queue an attempt
\* fails only finitely often.
Fairness ==
  /\ \A e \in Events :
       /\ WF_vars(Ingest(e)) /\ WF_vars(TurnProgress(e))
       /\ <>[][~TurnFails(e)]_vars
  /\ \A s \in Sources :
       /\ WF_vars(PrepareProgress(s)) /\ WF_vars(SendProgress(s))
       /\ <>[][~SendInterrupted(s)]_vars

FairSpec == Spec /\ Fairness

-----------------------------------------------------------------------------
(* Properties.                                                             *)

\* The types of the rows, jobs and attempts of the pipeline: in particular every
\* status the code writes is one the CHECK of outbound_messages admits.
TypeOK ==
  /\ ControlTypeOK
  /\ inbound \in [Events -> JobStates]
  /\ message \subseteq Events
  /\ turn \in [Events -> JobStates]
  /\ turnPc \in [Events -> {"idle", "inspecting", "loading", "generating", "ending"}]
  /\ turnVersion \in [Events -> Nat]
  /\ epoch \in [Events -> Nat]
  /\ prepare \in [Sources -> JobStates]
  /\ send \in [Sources -> JobStates]
  /\ outbound \in [Sources -> {"absent", "PREPARED", "SENDING"} \cup FinalSendStatuses]
  /\ attemptCount \in [Sources -> Nat]
  /\ identified \in [Sources -> BOOLEAN]
  /\ call \in [Sources -> {"none", "calling"} \cup ProviderResults]
  /\ history \in [Sources -> SUBSET Callbacks]

\* The provider is asked at most once for each message, whatever attempts are
\* cancelled, repeated or lose their end; and while it is asked the row stays
\* SENDING, so that the provider_message_id it answers is never dropped.
OneAttemptPerMessage ==
  \A s \in Sources :
    /\ attemptCount[s] <= 1
    /\ call[s] # "none" => outbound[s] = "SENDING"

\* Callbacks that come late, twice or in another order end in the same status:
\* what the customer has, READ or DELIVERED, is not taken back by a SENT or a
\* FAILED.
DeliveryEvidenceWins ==
  \A s \in Sources :
    /\ "READ" \in history[s] => outbound[s] = "READ"
    /\ "DELIVERED" \in history[s] => outbound[s] \in {"DELIVERED", "READ"}
    /\ history[s] = {"SENT"} => outbound[s] = "SENT"

\* A reply is sent only in the session it was composed in, and a receipt only
\* while its request waits: nothing of the AI reaches the customer after a
\* human takeover, and nothing from before one after it.
Takeover == INSTANCE TakeoverContract WITH
  Replies <- Events,
  Receipts <- Handoffs,
  mode <- control,
  session <- version,
  waiting <- {h \in Handoffs : handoff[h] = "REQUESTED"},
  basis <- turnVersion,
  sent <- {s \in Sources : attemptCount[s] > 0}

TakeoverSpec == Takeover!Spec

Settled(j) == j \in {"absent", "done", "dead"}

\* Every message the webhook accepts runs its course: its jobs end, and no
\* reply is left PREPARED or SENDING without a dead letter that shows it.
NoMessageForgotten ==
  \A e \in Events :
    inbound[e] = "waiting" ~>
      /\ inbound[e] # "waiting" /\ Settled(turn[e])
      /\ Settled(prepare[e]) /\ Settled(send[e])
      /\ outbound[e] \in {"PREPARED", "SENDING"} => send[e] = "dead"
=============================================================================
