------------------------ MODULE MessagePipeline_proofs ------------------------
(***************************************************************************)
(* Theorems about MessagePipeline for every number of messages, handoffs   *)
(* and concurrent requests, and every way the provider may answer.         *)
(***************************************************************************)
EXTENDS MessagePipeline, ConversationControl_proofs

-----------------------------------------------------------------------------
(* The conversation under the pipeline is that of ConversationControl: what *)
(* the stages do to it are the steps of that module.                        *)

\* A step of the pipeline is a step of the conversation or none.
LEMMA ControlStep ==
  ASSUME ControlTypeOK, [Next]_vars
  PROVE  [ControlNext]_controlVars
<1> USE PipelineAssumption
<1>1. ASSUME NEW r \in Requesters,
             BeginRequest(r) \/ EndRequest(r) \/ \E h \in Handoffs : AdmitRequest(r, h)
      PROVE ControlNext
  BY <1>1 DEF ControlNext
<1>2. CASE HandoffStep
  BY <1>2 DEF ControlNext
<1>3. CASE \E r \in Requesters : OtherRequest(r)
  BY <1>1, <1>3 DEF OtherRequest
<1>4. ASSUME NEW e \in Events, Ingest(e) PROVE ControlNext
  BY <1>4 DEF Ingest, ControlNext
<1>5. ASSUME NEW e \in Events, TurnRequests(e) PROVE ControlNext
  BY <1>1, <1>5 DEF TurnRequests
<1>6. ASSUME NEW e \in Events, TurnFails(e) PROVE [ControlNext]_controlVars
  <2>1. /\ UNCHANGED <<conversationVars, handoffVars, inactivityJob, configVars>>
        /\ request' = [request EXCEPT ![e] = 0]
    BY <1>6 DEF TurnFails
  <2>2. CASE request[e] > 0
    BY <1>1, <2>1, <2>2 DEF EndRequest
  <2>3. CASE ~(request[e] > 0)
    <3>1. request[e] = 0 /\ request \in [Requesters -> 0..MaxRevision]
      BY <2>3, ControlAssumption DEF ControlTypeOK, ControlAssumption
    <3>2. UNCHANGED request BY <2>1, <3>1
    <3>3. QED BY <2>1, <3>2 DEF controlVars
  <2>4. QED BY <2>2, <2>3
<1>7. CASE UNCHANGED controlVars
  BY <1>7
<1>8. ASSUME NEW e \in Events, TurnProgress(e), ~TurnRequests(e) PROVE UNCHANGED controlVars
  BY <1>8 DEF TurnProgress, BeginTurn, TurnRequestDenied, LoadTurn, PersistReply, EndTurn
<1>9. ASSUME NEW s \in Sources,
             \/ PrepareProgress(s) \/ SendProgress(s) \/ SendInterrupted(s)
             \/ \E status \in Callbacks : Reconcile(s, status)
      PROVE UNCHANGED controlVars
  BY <1>9 DEF PrepareProgress, PrepareText, PrepareDies, SendProgress, Claim, RecoverUnknown,
              ProviderAnswers, Complete, EndSend, SendInterrupted, Reconcile
<1>10. ASSUME NEW e \in Events, ReceiveWebhook(e) \/ IngestDies(e)
       PROVE UNCHANGED controlVars
  BY <1>10 DEF ReceiveWebhook, IngestDies
<1>11. QED
  BY <1>2, <1>3, <1>4, <1>5, <1>6, <1>7, <1>8, <1>9, <1>10 DEF Next, vars

\* The messaging pipeline composed with the conversation leaves it every
\* guarantee proved of it alone: its steps are those of ControlSpec.
THEOREM PipelineKeepsControl == Spec => ControlSpec /\ []ControlInv
<1>1. Init => ControlInit BY DEF Init
<1>2. ControlInv /\ [Next]_vars => [ControlNext]_controlVars
  BY ControlStep DEF ControlInv
<1>3. ControlInv /\ [Next]_vars => ControlInv'
  BY <1>2, StepKeepsTypes, StepKeepsMatch DEF ControlInv
<1>4. QED BY <1>1, <1>2, <1>3, InitEstablishes, PTL DEF Spec, ControlSpec

-----------------------------------------------------------------------------
(* The inductive invariant of the rows.                                    *)

\* The types of the rows, jobs and attempts that the invariant speaks of.
RowTypes ==
  /\ turnPc \in [Events -> {"idle", "inspecting", "loading", "generating", "ending"}]
  /\ turnVersion \in [Events -> Nat]
  /\ epoch \in [Events -> Nat]
  /\ prepare \in [Sources -> JobStates]
  /\ outbound \in [Sources -> {"absent", "PREPARED", "SENDING"} \cup FinalSendStatuses]
  /\ attemptCount \in [Sources -> Nat]
  /\ identified \in [Sources -> BOOLEAN]
  /\ call \in [Sources -> {"none", "calling"} \cup ProviderResults]
  /\ history \in [Sources -> SUBSET Callbacks]

\* A stored reply has the version its turn started from; its outbound.text job
\* is enqueued with it, so an attempt that generates finds neither.
TurnInv ==
  \A e \in Events :
    /\ turnPc[e] = "generating" => epoch[e] = 0
    /\ epoch[e] = 0 => prepare[e] = "absent"
    /\ epoch[e] # 0 => turnVersion[e] = epoch[e]

\* The notice of a handoff is enqueued with its row.
ReceiptInv == \A h \in Handoffs : handoff[h] = "none" => prepare[h] = "absent"

\* A row is inserted by its outbound.text job, once, and leaves PREPARED once.
SendInv ==
  \A s \in Sources :
    /\ prepare[s] \in {"absent", "waiting"} => outbound[s] = "absent"
    /\ outbound[s] \in {"absent", "PREPARED"} => attemptCount[s] = 0
    /\ attemptCount[s] <= 1
    /\ call[s] # "none" => outbound[s] = "SENDING"

\* Callbacks are for accepted messages, and the first one finds ACCEPTED.
CallbackInv ==
  \A s \in Sources :
    /\ ~identified[s] => history[s] = {}
    /\ identified[s] => outbound[s] \in {"ACCEPTED", "SENT", "DELIVERED", "READ", "FAILED"}
    /\ identified[s] /\ history[s] = {} => outbound[s] = "ACCEPTED"

PipelineInv ==
  RowTypes /\ TurnInv /\ ReceiptInv /\ SendInv /\ CallbackInv /\ DeliveryEvidenceWins

\* Nothing was received, prepared or sent yet.
LEMMA PipelineInit == Init => PipelineInv
<1> SUFFICES ASSUME Init PROVE PipelineInv
  OBVIOUS
<1>1. RowTypes BY DEF Init, RowTypes, JobStates
<1>2. TurnInv /\ SendInv BY DEF Init, TurnInv, SendInv, Sources
<1>3. ReceiptInv BY DEF Init, ReceiptInv, Sources
<1>4. CallbackInv /\ DeliveryEvidenceWins BY DEF Init, CallbackInv, DeliveryEvidenceWins
<1>5. QED BY <1>1, <1>2, <1>3, <1>4 DEF PipelineInv

\* Steps that leave the replies and the outbound messages alone, and no handoff
\* without its notice.
LEMMA PipelineKept ==
  ASSUME PipelineInv, UNCHANGED <<turnVersion, epoch, prepare, outbound, attemptCount,
                                  identified, call, history>>,
         turnPc' \in [Events -> {"idle", "inspecting", "loading", "generating", "ending"}],
         \A e \in Events : turnPc'[e] = "generating" => turnPc[e] = "generating",
         \A h \in Handoffs : handoff'[h] = "none" => handoff[h] = "none"
  PROVE  PipelineInv'
<1>1. RowTypes' BY DEF PipelineInv, RowTypes
<1>2. TurnInv' BY DEF PipelineInv, TurnInv
<1>3. ReceiptInv' BY DEF PipelineInv, ReceiptInv
<1>4. SendInv' BY DEF PipelineInv, SendInv
<1>5. CallbackInv' /\ DeliveryEvidenceWins'
  BY DEF PipelineInv, CallbackInv, DeliveryEvidenceWins
<1>6. QED BY <1>1, <1>2, <1>3, <1>4, <1>5 DEF PipelineInv

\* AdmitRequest enqueues the notice of the handoff it inserts.
LEMMA ReceiptEnqueued ==
  ASSUME ControlTypeOK, PipelineInv, NEW r \in Requesters, NEW h \in Handoffs,
         AdmitRequest(r, h), prepare' = [prepare EXCEPT ![h] = "waiting"],
         UNCHANGED <<turnVersion, epoch, sendVars>>,
         turnPc' \in [Events -> {"idle", "inspecting", "loading", "generating", "ending"}],
         \A e \in Events : turnPc'[e] = "generating" => turnPc[e] = "generating"
  PROVE  PipelineInv'
<1> USE PipelineAssumption DEF PipelineInv
<1>0. /\ handoff[h] = "none" /\ prepare[h] = "absent" /\ h \in Sources /\ h \notin Events
      /\ handoff' = [handoff EXCEPT ![h] = "REQUESTED"]
  BY DEF AdmitRequest, ReceiptInv, Sources
<1>1. RowTypes' BY DEF RowTypes, sendVars, JobStates
<1>2. TurnInv'
  <2>1. \A e \in Events : prepare'[e] = prepare[e] BY <1>0
  <2>2. QED BY <2>1 DEF TurnInv
<1>3. ReceiptInv' BY <1>0 DEF ReceiptInv, ControlTypeOK, RowTypes, Sources
<1>4. SendInv' BY <1>0 DEF SendInv, RowTypes, sendVars
<1>5. CallbackInv' /\ DeliveryEvidenceWins' BY DEF CallbackInv, DeliveryEvidenceWins, sendVars
<1>6. QED BY <1>1, <1>2, <1>3, <1>4, <1>5

\* The stages of a turn.
LEMMA PipelineTurn ==
  ASSUME ControlTypeOK, PipelineInv, NEW e \in Events, TurnProgress(e) \/ TurnFails(e)
  PROVE  PipelineInv'
<1> USE DEF PipelineInv
<1>0. /\ turnPc \in [Events -> {"idle", "inspecting", "loading", "generating", "ending"}]
      /\ turnVersion \in [Events -> Nat] /\ epoch \in [Events -> Nat]
      /\ prepare \in [Sources -> JobStates] /\ e \in Sources
  BY DEF RowTypes, Sources
<1>1. CASE BeginTurn(e) \/ TurnRequestDenied(e) \/ EndTurn(e)
  <2>1. /\ UNCHANGED <<controlVars, turnVersion, epoch, prepare, sendVars>>
        /\ \E p \in {"idle", "inspecting", "loading"} : turnPc' = [turnPc EXCEPT ![e] = p]
    BY <1>1 DEF BeginTurn, TurnRequestDenied, EndTurn
  <2>2. QED BY <1>0, <2>1, PipelineKept DEF controlVars, handoffVars, sendVars
<1>2. CASE TurnRequests(e)
  <2>1. UNCHANGED <<turnVersion, epoch, sendVars>> BY <1>2 DEF TurnRequests, turnVars
  <2>2. \/ UNCHANGED turnPc \/ turnPc' = [turnPc EXCEPT ![e] = "loading"]
    BY <1>2 DEF TurnRequests
  <2>3. /\ turnPc' \in [Events -> {"idle", "inspecting", "loading", "generating", "ending"}]
        /\ \A f \in Events : turnPc'[f] = "generating" => turnPc[f] = "generating"
    BY <1>0, <2>2
  <2>4. CASE UNCHANGED <<handoff, prepare>>
    BY <2>1, <2>3, <2>4, PipelineKept DEF sendVars
  <2>5. CASE \E h \in Handoffs : AdmitRequest(e, h) /\ prepare' = [prepare EXCEPT ![h] = "waiting"]
    BY <2>1, <2>3, <2>5, ReceiptEnqueued, PipelineAssumption
  <2>6. QED BY <1>2, <2>4, <2>5 DEF TurnRequests, BeginRequest, EndRequest, handoffVars
<1>3. CASE LoadTurn(e)
  <2>1. UNCHANGED <<controlVars, epoch, prepare, sendVars>> BY <1>3 DEF LoadTurn
  <2>2. CASE turnPc' = [turnPc EXCEPT ![e] = "ending"] /\ UNCHANGED turnVersion
    BY <1>0, <2>1, <2>2, PipelineKept DEF controlVars, handoffVars, sendVars
  <2>3. CASE /\ epoch[e] = 0 /\ turnPc' = [turnPc EXCEPT ![e] = "generating"]
             /\ turnVersion' = [turnVersion EXCEPT ![e] = version]
    <3>1. RowTypes' BY <1>0, <2>1, <2>3 DEF RowTypes, sendVars, ControlTypeOK
    <3>2. TurnInv' BY <1>0, <2>1, <2>3 DEF TurnInv
    <3>3. ReceiptInv' BY <2>1 DEF ReceiptInv, controlVars, handoffVars
    <3>4. SendInv' BY <2>1 DEF SendInv, sendVars
    <3>5. CallbackInv' /\ DeliveryEvidenceWins'
      BY <2>1 DEF CallbackInv, DeliveryEvidenceWins, sendVars
    <3>6. QED BY <3>1, <3>2, <3>3, <3>4, <3>5
  <2>4. QED BY <1>3, <2>2, <2>3 DEF LoadTurn
<1>4. CASE PersistReply(e)
  <2>1. /\ UNCHANGED <<controlVars, sendVars>> /\ epoch[e] = 0
        /\ turnPc' = [turnPc EXCEPT ![e] = "ending"]
    BY <1>4 DEF PersistReply, TurnInv
  <2>2. CASE ReplyEpoch(e) = 0
    <3>1. UNCHANGED epoch BY <1>0, <1>4, <2>1, <2>2 DEF PersistReply
    <3>2. turnVersion' = [turnVersion EXCEPT ![e] = 0] /\ UNCHANGED prepare
      BY <1>4, <2>1, <2>2 DEF PersistReply
    <3>3. RowTypes' BY <1>0, <2>1, <3>1, <3>2 DEF RowTypes, sendVars
    <3>4. TurnInv' BY <1>0, <2>1, <3>1, <3>2 DEF TurnInv
    <3>5. ReceiptInv' BY <2>1, <3>2 DEF ReceiptInv, controlVars, handoffVars
    <3>6. SendInv' BY <2>1, <3>2 DEF SendInv, sendVars
    <3>7. CallbackInv' /\ DeliveryEvidenceWins'
      BY <2>1 DEF CallbackInv, DeliveryEvidenceWins, sendVars
    <3>8. QED BY <3>3, <3>4, <3>5, <3>6, <3>7
  <2>3. CASE ReplyEpoch(e) # 0
    <3>1. /\ epoch' = [epoch EXCEPT ![e] = turnVersion[e]] /\ turnVersion[e] # 0
          /\ UNCHANGED turnVersion /\ prepare' = [prepare EXCEPT ![e] = "waiting"]
      BY <1>4, <2>1, <2>3 DEF PersistReply, ReplyEpoch
    <3>2. prepare[e] = "absent" /\ e \notin Handoffs
      BY <2>1, PipelineAssumption DEF TurnInv
    <3>3. RowTypes' BY <1>0, <2>1, <3>1 DEF RowTypes, sendVars, JobStates
    <3>4. TurnInv' BY <1>0, <2>1, <3>1 DEF TurnInv
    <3>5. ReceiptInv'
      BY <1>0, <2>1, <3>1, <3>2 DEF ReceiptInv, controlVars, handoffVars
    <3>6. SendInv' BY <1>0, <2>1, <3>1, <3>2 DEF SendInv, sendVars
    <3>7. CallbackInv' /\ DeliveryEvidenceWins'
      BY <2>1 DEF CallbackInv, DeliveryEvidenceWins, sendVars
    <3>8. QED BY <3>3, <3>4, <3>5, <3>6, <3>7
  <2>4. QED BY <2>2, <2>3
<1>5. CASE TurnFails(e)
  <2>1. /\ UNCHANGED <<handoff, epoch, prepare, sendVars>>
        /\ turnPc' = [turnPc EXCEPT ![e] = "idle"]
        /\ turnVersion' = [turnVersion EXCEPT ![e] = IF epoch[e] = 0 THEN 0 ELSE turnVersion[e]]
    BY <1>5 DEF TurnFails, handoffVars
  <2>2. RowTypes' BY <1>0, <2>1 DEF RowTypes, sendVars
  <2>3. TurnInv' BY <1>0, <2>1 DEF TurnInv
  <2>4. ReceiptInv' /\ SendInv' BY <2>1 DEF ReceiptInv, SendInv, sendVars
  <2>5. CallbackInv' /\ DeliveryEvidenceWins'
    BY <2>1 DEF CallbackInv, DeliveryEvidenceWins, sendVars
  <2>6. QED BY <2>2, <2>3, <2>4, <2>5
<1>6. QED BY <1>1, <1>2, <1>3, <1>4, <1>5 DEF TurnProgress

\* The stages of an outbound message: every one writes the rows of its source
\* only, and its part of the invariant is about those.
SendRow(s) ==
  /\ prepare[s] \in {"absent", "waiting"} => outbound[s] = "absent"
  /\ outbound[s] \in {"absent", "PREPARED"} => attemptCount[s] = 0
  /\ attemptCount[s] <= 1
  /\ call[s] # "none" => outbound[s] = "SENDING"

CallbackRow(s) ==
  /\ ~identified[s] => history[s] = {}
  /\ identified[s] => outbound[s] \in {"ACCEPTED", "SENT", "DELIVERED", "READ", "FAILED"}
  /\ identified[s] /\ history[s] = {} => outbound[s] = "ACCEPTED"
  /\ "READ" \in history[s] => outbound[s] = "READ"
  /\ "DELIVERED" \in history[s] => outbound[s] \in {"DELIVERED", "READ"}
  /\ history[s] = {"SENT"} => outbound[s] = "SENT"

\* Nothing but the rows of one source changes.
Only(s) ==
  \A t \in Sources \ {s} :
    /\ prepare'[t] = prepare[t] /\ outbound'[t] = outbound[t]
    /\ attemptCount'[t] = attemptCount[t] /\ identified'[t] = identified[t]
    /\ call'[t] = call[t] /\ history'[t] = history[t]

\* A step that changes one message needs to be judged by the rows of that message.
LEMMA PipelineRow ==
  ASSUME PipelineInv, NEW s \in Sources, Only(s), RowTypes', SendRow(s)', CallbackRow(s)',
         UNCHANGED <<controlVars, turnVars>>,
         prepare'[s] = "absent" <=> prepare[s] = "absent"
  PROVE  PipelineInv'
<1>1. TurnInv' /\ ReceiptInv'
  BY DEF PipelineInv, TurnInv, ReceiptInv, Only, Sources, controlVars, handoffVars, turnVars
<1>2. SendInv' BY DEF PipelineInv, SendInv, SendRow, Only
<1>3. CallbackInv' /\ DeliveryEvidenceWins'
  <2>1. \A t \in Sources : CallbackRow(t)'
    BY DEF PipelineInv, CallbackInv, DeliveryEvidenceWins, CallbackRow, Only
  <2>2. QED BY <2>1 DEF CallbackRow, CallbackInv, DeliveryEvidenceWins
<1>4. QED BY <1>1, <1>2, <1>3 DEF PipelineInv

\* What a callback makes of the status of an accepted message.
LEMMA ReconciledStatus ==
  ASSUME NEW current \in {"ACCEPTED", "SENT", "DELIVERED", "READ", "FAILED"},
         NEW status \in {"SENT", "DELIVERED", "READ", "FAILED"}
  PROVE  /\ Reconciled(current, status) \in {"SENT", "DELIVERED", "READ", "FAILED"}
         /\ current = "READ" \/ status = "READ" => Reconciled(current, status) = "READ"
         /\ current = "DELIVERED" \/ status = "DELIVERED" =>
              Reconciled(current, status) \in {"DELIVERED", "READ"}
         /\ current \in {"ACCEPTED", "SENT"} /\ status = "SENT" =>
              Reconciled(current, status) = "SENT"
BY DEF Reconciled, Rank

\* The jobs of a reply and the callbacks about it, one message at a time.
LEMMA PipelineSend ==
  ASSUME PipelineInv, NEW s \in Sources,
         \/ PrepareProgress(s) \/ SendProgress(s) \/ SendInterrupted(s)
         \/ \E status \in Callbacks : Reconcile(s, status)
  PROVE  PipelineInv'
<1> USE PipelineAssumption
<1>0. /\ prepare \in [Sources -> JobStates]
      /\ outbound \in [Sources -> {"absent", "PREPARED", "SENDING"} \cup FinalSendStatuses]
      /\ attemptCount \in [Sources -> Nat]
      /\ identified \in [Sources -> BOOLEAN]
      /\ call \in [Sources -> {"none", "calling"} \cup ProviderResults]
      /\ history \in [Sources -> SUBSET Callbacks]
  BY DEF PipelineInv, RowTypes
<1>1. SendRow(s) /\ CallbackRow(s)
  BY DEF PipelineInv, SendInv, CallbackInv, DeliveryEvidenceWins, SendRow, CallbackRow
<1>2. RowTypes BY DEF PipelineInv
<1> USE <1>0 DEF FinalSendStatuses, JobStates
<1>3. CASE PrepareText(s)
  <2>1. /\ prepare' = [prepare EXCEPT ![s] = "done"] /\ prepare[s] = "waiting"
        /\ outbound' = [outbound EXCEPT ![s] = "PREPARED"]
        /\ UNCHANGED <<controlVars, turnVars, attemptCount, identified, call, history>>
    BY <1>3 DEF PrepareText
  <2>2. RowTypes' BY <1>2, <2>1 DEF RowTypes, turnVars
  <2>3. Only(s) BY <2>1 DEF Only
  <2>4. SendRow(s)' /\ CallbackRow(s)' BY <1>1, <2>1 DEF SendRow, CallbackRow
  <2>5. QED BY <2>1, <2>2, <2>3, <2>4, PipelineRow
<1>4. CASE PrepareDies(s)
  <2>1. /\ prepare' = [prepare EXCEPT ![s] = "dead"] /\ prepare[s] = "waiting"
        /\ UNCHANGED <<controlVars, turnVars, sendVars>>
    BY <1>4 DEF PrepareDies
  <2>2. RowTypes' BY <1>2, <2>1 DEF RowTypes, turnVars, sendVars
  <2>3. Only(s) BY <2>1 DEF Only, sendVars
  <2>4. SendRow(s)' /\ CallbackRow(s)' BY <1>1, <2>1 DEF SendRow, CallbackRow, sendVars
  <2>5. QED BY <2>1, <2>2, <2>3, <2>4, PipelineRow
<1>5. CASE Claim(s)
  <2>1. /\ UNCHANGED <<controlVars, turnVars, prepare, identified, history>>
        /\ outbound[s] = "PREPARED" /\ call[s] = "none"
        /\ \/ /\ outbound' = [outbound EXCEPT ![s] = "SENDING"]
              /\ attemptCount' = [attemptCount EXCEPT ![s] = attemptCount[s] + 1]
              /\ call' = [call EXCEPT ![s] = "calling"]
           \/ /\ outbound' = [outbound EXCEPT ![s] = "BLOCKED"]
              /\ UNCHANGED <<attemptCount, call>>
    BY <1>5 DEF Claim
  <2>2. attemptCount[s] = 0 /\ attemptCount[s] + 1 = 1 BY <1>1, <2>1 DEF SendRow
  <2>3. RowTypes' BY <1>2, <2>1, <2>2 DEF RowTypes, turnVars
  <2>4. Only(s) BY <2>1 DEF Only
  <2>5. SendRow(s)' BY <1>1, <2>1, <2>2 DEF SendRow
  <2>6. CallbackRow(s)' BY <1>1, <2>1 DEF CallbackRow
  <2>7. QED BY <2>1, <2>3, <2>4, <2>5, <2>6, PipelineRow
<1>6. CASE RecoverUnknown(s)
  <2>1. /\ outbound[s] = "SENDING" /\ call[s] = "none"
        /\ outbound' = [outbound EXCEPT ![s] = "UNCERTAIN"]
        /\ UNCHANGED <<controlVars, turnVars, prepare, attemptCount, identified, call, history>>
    BY <1>6 DEF RecoverUnknown
  <2>2. RowTypes' BY <1>2, <2>1 DEF RowTypes, turnVars
  <2>3. Only(s) BY <2>1 DEF Only
  <2>4. SendRow(s)' /\ CallbackRow(s)' BY <1>1, <2>1 DEF SendRow, CallbackRow
  <2>5. QED BY <2>1, <2>2, <2>3, <2>4, PipelineRow
<1>7. CASE \E result \in ProviderResults : ProviderAnswers(s, result)
  <2>1. PICK result \in ProviderResults : ProviderAnswers(s, result) BY <1>7
  <2>2. /\ call[s] = "calling" /\ call' = [call EXCEPT ![s] = result]
        /\ UNCHANGED <<controlVars, turnVars, prepare, outbound, attemptCount, identified,
                       history>>
    BY <2>1 DEF ProviderAnswers
  <2>3. RowTypes' BY <1>2, <2>2 DEF RowTypes, turnVars
  <2>4. Only(s) BY <2>2 DEF Only
  <2>5. SendRow(s)' /\ CallbackRow(s)' BY <1>1, <2>2 DEF SendRow, CallbackRow
  <2>6. QED BY <2>2, <2>3, <2>4, <2>5, PipelineRow
<1>8. CASE Complete(s)
  <2>1. /\ call[s] \in {"accepted", "rejected", "uncertain"} /\ call[s] # "none"
        /\ outbound[s] = "SENDING" /\ ~identified[s] /\ history[s] = {}
    BY <1>1, <1>8 DEF Complete, SendRow, CallbackRow
  <2>2. /\ outbound' = [outbound EXCEPT ![s] = CompletedAs(call[s])]
        /\ identified' = [identified EXCEPT ![s] = (call[s] = "accepted")]
        /\ call' = [call EXCEPT ![s] = "none"]
        /\ UNCHANGED <<controlVars, turnVars, prepare, attemptCount, history>>
    BY <1>8, <2>1 DEF Complete
  <2>3. /\ CompletedAs(call[s]) \in {"ACCEPTED", "FAILED", "UNCERTAIN"}
        /\ call[s] = "accepted" => CompletedAs(call[s]) = "ACCEPTED"
    BY <2>1 DEF CompletedAs
  <2> HIDE DEF CompletedAs
  <2>4. RowTypes'
    <3>1. outbound' \in [Sources -> {"absent", "PREPARED", "SENDING"} \cup FinalSendStatuses]
      BY <2>2, <2>3
    <3>2. identified' \in [Sources -> BOOLEAN] BY <2>2
    <3>3. call' \in [Sources -> {"none", "calling"} \cup ProviderResults] BY <2>2
    <3>4. QED BY <1>2, <2>2, <3>1, <3>2, <3>3 DEF RowTypes, turnVars
  <2>5. Only(s) BY <2>2 DEF Only
  <2>6. /\ outbound'[s] = CompletedAs(call[s]) /\ call'[s] = "none"
        /\ identified'[s] <=> call[s] = "accepted"
    BY <2>2
  <2>7. SendRow(s)' BY <1>1, <2>1, <2>2, <2>3, <2>6 DEF SendRow
  <2>8. CallbackRow(s)' BY <2>1, <2>2, <2>3, <2>6 DEF CallbackRow
  <2>9. QED BY <2>2, <2>4, <2>5, <2>7, <2>8, PipelineRow
<1>9. CASE EndSend(s)
  <2>1. UNCHANGED <<controlVars, turnVars, prepare, outbound, attemptCount, identified, call,
                    history>>
    BY <1>9 DEF EndSend
  <2>2. RowTypes' BY <1>2, <2>1 DEF RowTypes, turnVars
  <2>3. Only(s) BY <2>1 DEF Only
  <2>4. SendRow(s)' /\ CallbackRow(s)' BY <1>1, <2>1 DEF SendRow, CallbackRow
  <2>5. QED BY <2>1, <2>2, <2>3, <2>4, PipelineRow
<1>10. CASE SendInterrupted(s)
  <2>1. /\ call' = [call EXCEPT ![s] = "none"]
        /\ UNCHANGED <<controlVars, turnVars, prepare, outbound, attemptCount, identified,
                       history>>
    BY <1>10 DEF SendInterrupted
  <2>2. RowTypes' BY <1>2, <2>1 DEF RowTypes, turnVars
  <2>3. Only(s) BY <2>1 DEF Only
  <2>4. SendRow(s)' /\ CallbackRow(s)' BY <1>1, <2>1 DEF SendRow, CallbackRow
  <2>5. QED BY <2>1, <2>2, <2>3, <2>4, PipelineRow
<1>11. CASE \E status \in Callbacks : Reconcile(s, status)
  <2>1. PICK status \in Callbacks : Reconcile(s, status) BY <1>11
  <2> DEFINE after == Reconciled(outbound[s], status)
  <2>2. /\ identified[s]
        /\ outbound' = [outbound EXCEPT ![s] = after]
        /\ history' = [history EXCEPT ![s] = history[s] \cup {status}]
        /\ UNCHANGED <<controlVars, turnVars, prepare, attemptCount, identified, call>>
    BY <2>1 DEF Reconcile
  <2>3. /\ outbound[s] \in {"ACCEPTED", "SENT", "DELIVERED", "READ", "FAILED"}
        /\ status \in {"SENT", "DELIVERED", "READ", "FAILED"}
    BY <1>1, <2>2 DEF CallbackRow
  <2>4. /\ after \in {"SENT", "DELIVERED", "READ", "FAILED"}
        /\ outbound[s] = "READ" \/ status = "READ" => after = "READ"
        /\ outbound[s] = "DELIVERED" \/ status = "DELIVERED" => after \in {"DELIVERED", "READ"}
        /\ outbound[s] \in {"ACCEPTED", "SENT"} /\ status = "SENT" => after = "SENT"
    BY <2>3, ReconciledStatus
  <2> HIDE DEF after
  <2>5. RowTypes'
    <3>1. outbound' \in [Sources -> {"absent", "PREPARED", "SENDING"} \cup FinalSendStatuses]
      BY <2>2, <2>4
    <3>2. history' \in [Sources -> SUBSET Callbacks] BY <2>2
    <3>3. QED BY <1>2, <2>2, <3>1, <3>2 DEF RowTypes, turnVars
  <2>6. Only(s) BY <2>2 DEF Only
  <2>7. outbound'[s] = after /\ history'[s] = history[s] \cup {status} BY <2>2
  <2>8. SendRow(s)' BY <1>1, <2>2, <2>3, <2>4, <2>7 DEF SendRow
  <2>9. CallbackRow(s)'
    <3>1. "READ" \in history'[s] => after = "READ"
      BY <1>1, <2>4, <2>7 DEF CallbackRow
    <3>2. "DELIVERED" \in history'[s] => after \in {"DELIVERED", "READ"}
      BY <1>1, <2>4, <2>7 DEF CallbackRow
    <3>3. history'[s] = {"SENT"} => after = "SENT"
      <4>1. SUFFICES ASSUME history'[s] = {"SENT"} PROVE after = "SENT"
        OBVIOUS
      <4>2. status = "SENT" /\ (history[s] = {} \/ history[s] = {"SENT"}) BY <2>7, <4>1
      <4>3. outbound[s] \in {"ACCEPTED", "SENT"} BY <1>1, <2>2, <4>2 DEF CallbackRow
      <4>4. QED BY <2>4, <4>2, <4>3
    <3>4. history'[s] # {} BY <2>7
    <3>5. QED BY <2>2, <2>4, <2>7, <3>1, <3>2, <3>3, <3>4 DEF CallbackRow
  <2>10. QED BY <2>2, <2>5, <2>6, <2>8, <2>9, PipelineRow
<1>12. QED
  BY <1>3, <1>4, <1>5, <1>6, <1>7, <1>8, <1>9, <1>10, <1>11 DEF PrepareProgress, SendProgress

\* Every step of the pipeline keeps its invariant, given the one of control.
LEMMA PipelineStep == ControlInv /\ PipelineInv /\ [Next]_vars => PipelineInv'
<1> SUFFICES ASSUME ControlInv, PipelineInv, [Next]_vars PROVE PipelineInv'
  OBVIOUS
<1> USE DEF ControlInv
<1>0. turnPc \in [Events -> {"idle", "inspecting", "loading", "generating", "ending"}]
  BY DEF PipelineInv, RowTypes
\* The other steps only write handoffs that exist.
<1>1. ASSUME UNCHANGED <<turnVars, prepare, sendVars>>,
             \A h \in Handoffs : handoff'[h] = "none" => handoff[h] = "none"
      PROVE PipelineInv'
  BY <1>0, <1>1, PipelineKept DEF turnVars, sendVars
<1>2. CASE HandoffStep /\ UNCHANGED <<inbound, message, turnVars, prepare, sendVars>>
  <2>1. \A h \in Handoffs : handoff'[h] = "none" => handoff[h] = "none"
    BY <1>2 DEF HandoffStep, Configure, FallQuiet, ScheduleInactivity, CloseIfInactive, HumanEvent,
                handoffVars, ControlTypeOK
  <2>2. QED BY <1>1, <1>2, <2>1
<1>3. ASSUME NEW r \in Requesters, OtherRequest(r) PROVE PipelineInv'
  <2>1. CASE UNCHANGED <<handoff, prepare>>
    BY <1>1, <1>3, <2>1 DEF OtherRequest
  <2>2. CASE \E h \in Handoffs : AdmitRequest(r, h) /\ prepare' = [prepare EXCEPT ![h] = "waiting"]
    BY <1>0, <1>3, <2>2, ReceiptEnqueued DEF OtherRequest, turnVars
  <2>3. QED BY <1>3, <2>1, <2>2 DEF OtherRequest, BeginRequest, EndRequest, handoffVars
<1>4. ASSUME NEW e \in Events, ReceiveWebhook(e) \/ Ingest(e) \/ IngestDies(e) PROVE PipelineInv'
  <2>1. UNCHANGED <<turnPc, turnVersion, epoch, prepare, sendVars, handoff>>
    BY <1>4 DEF ReceiveWebhook, Ingest, IngestDies, InboundArrives, controlVars, handoffVars,
                turnVars
  <2>2. QED BY <1>0, <2>1, PipelineKept DEF sendVars
<1>5. ASSUME NEW e \in Events, TurnProgress(e) \/ TurnFails(e) PROVE PipelineInv'
  BY <1>5, PipelineTurn
<1>6. ASSUME NEW s \in Sources,
             \/ PrepareProgress(s) \/ SendProgress(s) \/ SendInterrupted(s)
             \/ \E status \in Callbacks : Reconcile(s, status)
      PROVE PipelineInv'
  BY <1>6, PipelineSend
<1>7. CASE UNCHANGED vars
  BY <1>1, <1>7 DEF vars, controlVars, handoffVars
<1>8. QED BY <1>2, <1>3, <1>4, <1>5, <1>6, <1>7 DEF Next

\* The inductive invariant of the pipeline: the rows of a reply, of its jobs and
\* of its provider call agree in every reachable state.
THEOREM PipelineInvariant == Spec => []PipelineInv
BY PipelineInit, PipelineStep, PipelineKeepsControl, PTL DEF Spec

\* OutboundMessageService asks the provider at most once for each message, and
\* the row is SENDING while it does, for any number of messages, attempts that
\* are cut off anywhere, and provider answers.
THEOREM OneAttemptPerMessageHolds == Spec => []OneAttemptPerMessage
<1>1. PipelineInv => OneAttemptPerMessage
  BY DEF PipelineInv, SendInv, OneAttemptPerMessage
<1>2. QED BY <1>1, PipelineInvariant, PTL

\* OutboundStatusReconciler ends in the same status for callbacks in any order
\* and number: what reached the customer is not taken back.
THEOREM DeliveryEvidenceWinsHolds == Spec => []DeliveryEvidenceWins
<1>1. PipelineInv => DeliveryEvidenceWins BY DEF PipelineInv
<1>2. QED BY <1>1, PipelineInvariant, PTL

-----------------------------------------------------------------------------
(* The pipeline implements TakeoverContract.                               *)

waiting == {h \in Handoffs : handoff[h] = "REQUESTED"}
sent == {s \in Sources : attemptCount[s] > 0}

\* Initial states map to initial states of the takeover contract.
LEMMA TakeoverInit == Init => Takeover!Init
<1> SUFFICES ASSUME Init PROVE Takeover!Init
  OBVIOUS
<1>1. control = "AI_ACTIVE" /\ version = 1 /\ {h \in Handoffs : handoff[h] = "REQUESTED"} = {}
  BY DEF Init, ControlInit
<1>2. {s \in Sources : attemptCount[s] > 0} = {} BY DEF Init
<1>3. QED BY <1>1, <1>2 DEF Init, Takeover!Init

\* Steps that the contract does not see.
LEMMA TakeoverStutter ==
  ASSUME UNCHANGED <<conversationVars, turnVersion, attemptCount>>,
         \A h \in Handoffs : handoff'[h] = "REQUESTED" <=> handoff[h] = "REQUESTED"
  PROVE  UNCHANGED Takeover!vars
BY DEF Takeover!vars, conversationVars

\* A transition of the conversation is a switch.
LEMMA TakeoverSwitch ==
  ASSUME NEW target, NEW rows, Transition(target, rows), UNCHANGED <<turnVersion, attemptCount>>
  PROVE  Takeover!Next
<1>1. control' # control BY DEF Transition, Admitted
<1>2. Takeover!Switch BY <1>1 DEF Takeover!Switch, Transition
<1>3. QED BY <1>2 DEF Takeover!Next

\* What a handoff transaction does is a switch, or not seen.
LEMMA TakeoverControl ==
  ASSUME ControlTypeOK, [ControlNext]_controlVars, UNCHANGED <<turnVersion, attemptCount>>
  PROVE  [Takeover!Next]_(Takeover!vars)
<1>1. CASE \E target, rows : Transition(target, rows)
  BY <1>1, TakeoverSwitch
<1>2. CASE ~\E target, rows : Transition(target, rows)
  <2>1. UNCHANGED conversationVars
    BY <1>2 DEF ControlNext, HandoffStep, Configure, FallQuiet, ScheduleInactivity,
                CloseIfInactive, HumanEvent, InboundArrives, BeginRequest, EndRequest,
                AdmitRequest, controlVars
  <2>2. \A h \in Handoffs : handoff'[h] = "REQUESTED" <=> handoff[h] = "REQUESTED"
    BY <1>2 DEF ControlNext, HandoffStep, Configure, FallQuiet, ScheduleInactivity,
                CloseIfInactive, HumanEvent, InboundArrives, BeginRequest, EndRequest,
                AdmitRequest, controlVars, handoffVars, ControlTypeOK
  <2>3. QED BY <2>1, <2>2, TakeoverStutter
<1>3. QED BY <1>1, <1>2

\* The turns compose and discard replies.
LEMMA TakeoverTurn ==
  ASSUME ControlInv, PipelineInv, NEW e \in Events, TurnProgress(e) \/ TurnFails(e)
  PROVE  [Takeover!Next]_(Takeover!vars)
<1>0. /\ turnVersion \in [Events -> Nat] /\ e \in Sources
      /\ epoch[e] = 0 => attemptCount[e] = 0
      /\ turnPc[e] = "generating" => epoch[e] = 0
  BY DEF PipelineInv, RowTypes, TurnInv, SendInv, Sources
<1>1. UNCHANGED attemptCount
  BY DEF TurnProgress, BeginTurn, TurnRequests, TurnRequestDenied, LoadTurn, PersistReply,
         EndTurn, TurnFails, sendVars
<1>2. UNCHANGED {s \in Sources : attemptCount[s] > 0} BY <1>1
<1>3. [ControlNext]_controlVars
  <2>1. Next BY DEF Next
  <2>2. QED BY <2>1, ControlStep DEF ControlInv
<1>4. CASE UNCHANGED turnVersion
  BY <1>1, <1>3, <1>4, TakeoverControl DEF ControlInv
<1>5. CASE LoadTurn(e) /\ turnVersion' # turnVersion
  <2>1. /\ control = "AI_ACTIVE" /\ epoch[e] = 0 /\ UNCHANGED controlVars
        /\ turnVersion' = [turnVersion EXCEPT ![e] = version]
    BY <1>5 DEF LoadTurn
  <2>2. ~(e \in {s \in Sources : attemptCount[s] > 0}) BY <1>0, <2>1
  <2>3. Takeover!Compose(e)
    BY <1>2, <2>1, <2>2 DEF Takeover!Compose, controlVars, conversationVars, handoffVars
  <2>4. QED BY <2>3 DEF Takeover!Next
<1>6. ASSUME epoch[e] = 0, turnVersion' = [turnVersion EXCEPT ![e] = 0],
             UNCHANGED <<conversationVars, handoff>>
      PROVE [Takeover!Next]_(Takeover!vars)
  <2>1. ~(e \in {s \in Sources : attemptCount[s] > 0}) BY <1>0, <1>6
  <2>2. Takeover!Discard(e)
    BY <1>2, <1>6, <2>1 DEF Takeover!Discard, conversationVars
  <2>3. QED BY <2>2 DEF Takeover!Next
<1>7. CASE PersistReply(e) /\ turnVersion' # turnVersion
  <2>1. /\ epoch[e] = 0 /\ turnVersion' = [turnVersion EXCEPT ![e] = 0]
        /\ UNCHANGED <<conversationVars, handoff>>
    BY <1>0, <1>7 DEF PersistReply, controlVars, handoffVars
  <2>2. QED BY <1>6, <2>1
<1>8. CASE TurnFails(e) /\ turnVersion' # turnVersion
  <2>1. /\ turnVersion' = [turnVersion EXCEPT ![e] = IF epoch[e] = 0 THEN 0 ELSE turnVersion[e]]
        /\ UNCHANGED <<conversationVars, handoff>>
    BY <1>8 DEF TurnFails, handoffVars
  <2>2. epoch[e] = 0 BY <1>0, <1>8, <2>1
  <2>3. QED BY <1>6, <2>1, <2>2
<1>9. QED
  BY <1>4, <1>5, <1>7, <1>8
     DEF TurnProgress, BeginTurn, TurnRequests, TurnRequestDenied, EndTurn, turnVars

\* A claim under the authority of its source sends.
LEMMA TakeoverClaim ==
  ASSUME ControlInv, PipelineInv, NEW s \in Sources, Claim(s)
  PROVE  [Takeover!Next]_(Takeover!vars)
<1> DEFINE Sent == {t \in Sources : attemptCount[t] > 0}
<1>0. /\ attemptCount \in [Sources -> Nat] /\ attemptCount[s] = 0
      /\ UNCHANGED <<controlVars, turnVars>>
  BY DEF Claim, PipelineInv, RowTypes, SendInv
<1>1. CASE UNCHANGED attemptCount
  BY <1>0, <1>1, TakeoverStutter DEF controlVars, handoffVars, turnVars
<1>2. CASE attemptCount' # attemptCount
  <2>1. SourceAuthorized(s) /\ attemptCount' = [attemptCount EXCEPT ![s] = attemptCount[s] + 1]
    BY <1>2 DEF Claim
  <2>2. s \notin Sent /\ Sent' = Sent \cup {s} BY <1>0, <2>1
  <2>3. /\ UNCHANGED <<control, version, turnVersion>>
        /\ UNCHANGED {h \in Handoffs : handoff[h] = "REQUESTED"}
    BY <1>0 DEF controlVars, conversationVars, handoffVars, turnVars
  <2>4. CASE s \in Handoffs
    <3>1. control = "AWAITING_HUMAN" /\ s \in {h \in Handoffs : handoff[h] = "REQUESTED"}
      BY <2>1, <2>4 DEF SourceAuthorized
    <3>2. Takeover!SendReceipt(s) BY <2>2, <2>3, <3>1 DEF Takeover!SendReceipt
    <3>3. QED BY <2>4, <3>2 DEF Takeover!Next
  <2>5. CASE s \notin Handoffs
    <3>1. s \in Events BY <2>5 DEF Sources
    <3>2. control = "AI_ACTIVE" /\ epoch[s] = version /\ version # 0
      BY <2>1, <2>5 DEF SourceAuthorized, ControlInv, ControlTypeOK
    <3>3. turnVersion[s] = version BY <3>1, <3>2 DEF PipelineInv, TurnInv
    <3>4. Takeover!SendReply(s) BY <2>2, <2>3, <3>2, <3>3 DEF Takeover!SendReply
    <3>5. QED BY <3>1, <3>4 DEF Takeover!Next
  <2>6. QED BY <2>4, <2>5
<1>3. QED BY <1>1, <1>2

\* Every step of the pipeline is a step of the takeover contract or a stutter.
LEMMA TakeoverStep ==
  ControlInv /\ PipelineInv /\ [Next]_vars => [Takeover!Next]_(Takeover!vars)
<1> SUFFICES ASSUME ControlInv, PipelineInv, [Next]_vars PROVE [Takeover!Next]_(Takeover!vars)
  OBVIOUS
<1>1. [ControlNext]_controlVars BY ControlStep DEF ControlInv
<1>2. CASE UNCHANGED <<turnVersion, attemptCount>>
  BY <1>1, <1>2, TakeoverControl DEF ControlInv
<1>3. ASSUME NEW e \in Events, TurnProgress(e) \/ TurnFails(e)
      PROVE [Takeover!Next]_(Takeover!vars)
  BY <1>3, TakeoverTurn
<1>4. ASSUME NEW s \in Sources, Claim(s) PROVE [Takeover!Next]_(Takeover!vars)
  BY <1>4, TakeoverClaim
<1>5. ASSUME NEW s \in Sources,
             \/ PrepareProgress(s) \/ (SendProgress(s) /\ ~Claim(s)) \/ SendInterrupted(s)
             \/ \E status \in Callbacks : Reconcile(s, status)
      PROVE UNCHANGED <<turnVersion, attemptCount>>
  BY <1>5 DEF PrepareProgress, PrepareText, PrepareDies, SendProgress, RecoverUnknown,
              ProviderAnswers, Complete, EndSend, SendInterrupted, Reconcile, turnVars, sendVars
<1>6. ASSUME NEW e \in Events, ReceiveWebhook(e) \/ Ingest(e) \/ IngestDies(e)
      PROVE UNCHANGED <<turnVersion, attemptCount>>
  BY <1>6 DEF ReceiveWebhook, Ingest, IngestDies, turnVars, sendVars
<1>7. CASE \/ HandoffStep /\ UNCHANGED <<inbound, message, turnVars, prepare, sendVars>>
           \/ \E r \in Requesters : OtherRequest(r)
           \/ UNCHANGED vars
  BY <1>2, <1>7 DEF OtherRequest, vars, turnVars, sendVars
<1>8. QED BY <1>2, <1>3, <1>4, <1>5, <1>6, <1>7 DEF Next

\* The pipeline keeps the promise of TakeoverContract: a reply of the AI is sent
\* only in the session it was composed in, whatever humans, customers, turns
\* and jobs do between its generation and its sending.
THEOREM PipelineImplementsTakeover == Spec => TakeoverSpec
<1>1. Spec => Takeover!Init /\ [][Takeover!Next]_(Takeover!vars)
  BY TakeoverInit, TakeoverStep, PipelineInvariant, PipelineKeepsControl, PTL DEF Spec
<1>2. QED BY <1>1 DEF TakeoverSpec, Takeover!Spec
=============================================================================
