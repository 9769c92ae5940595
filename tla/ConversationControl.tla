------------------------- MODULE ConversationControl -------------------------
(***************************************************************************)
(* Who speaks in one conversation: the conversations row with its control  *)
(* state and version, the handoffs to a human with their requests, human   *)
(* events and inactivity closing, and the configuration that admits them   *)
(* (modules conversations and handoffs of the backend).                    *)
(*                                                                         *)
(* One transaction is one step; every one that writes holds the row lock   *)
(* of the conversation.  A request spans two transactions with the         *)
(* verification of the human surface between them.  Time is abstract: a    *)
(* handoff may become quiet for its inactivity period at any moment.       *)
(***************************************************************************)
EXTENDS Integers, FiniteSets

CONSTANTS
  Handoffs,       \* identities of handoffs rows
  Unattended,     \* those that may go without activity for the whole period
  Requesters,     \* concurrent executions of HandoffService.request
  MaxRevision,    \* bound on the revisions of the configuration
  MaxSequence     \* bound on the sequence numbers of human events

ASSUME ControlAssumption ==
  Unattended \subseteq Handoffs /\ MaxRevision \in Nat /\ MaxSequence \in Nat

VARIABLES
  control,        \* conversations.control_state
  version,        \* conversations.state_version
  handoff,        \* handoffs.status, "none" before the INSERT
  sequence,       \* handoffs.event_sequence
  quiet,          \* the inactivity period has passed since the last activity
  inactivityJob,  \* a handoffs.inactivity job is in the outbox
  revision,       \* handoff_configurations.revision, 0 without a row
  enabled,        \* its configuration enables live handoff
  request         \* the revision a request was admitted under, 0 when idle

conversationVars == <<control, version>>
handoffVars == <<handoff, sequence, quiet>>
configVars == <<revision, enabled>>
controlVars == <<conversationVars, handoffVars, inactivityJob, configVars, request>>

ControlStates == {"AI_ACTIVE", "AWAITING_HUMAN", "HUMAN_ACTIVE", "CLOSED"}
HumanEvents == {"ACTIVATE", "ACTIVITY", "END"}

ControlInit ==
  /\ control = "AI_ACTIVE"
  /\ version = 1
  /\ handoff = [h \in Handoffs |-> "none"]
  /\ sequence = [h \in Handoffs |-> -1]
  /\ quiet = [h \in Handoffs |-> FALSE]
  /\ inactivityJob = [h \in Handoffs |-> FALSE]
  /\ revision = 0
  /\ enabled = FALSE
  /\ request = [r \in Requesters |-> 0]

-----------------------------------------------------------------------------
Live == {h \in Handoffs : handoff[h] \in {"REQUESTED", "ACTIVE"}}

\* transition_conversation_control: the pairs the function admits.
Admitted == {<<"AI_ACTIVE", "AWAITING_HUMAN">>, <<"AI_ACTIVE", "CLOSED">>,
             <<"AWAITING_HUMAN", "HUMAN_ACTIVE">>, <<"AWAITING_HUMAN", "CLOSED">>,
             <<"HUMAN_ACTIVE", "CLOSED">>, <<"CLOSED", "AI_ACTIVE">>}

\* The trigger conversations_handoff_guard, which sees the handoffs rows the
\* transaction has already written; where it raises, nothing is committed.
GuardHandoffControl(target, rows) ==
  CASE target = "AWAITING_HUMAN" -> \E h \in Handoffs : rows[h] = "REQUESTED"
    [] target = "HUMAN_ACTIVE" -> \E h \in Handoffs : rows[h] = "ACTIVE"
    [] OTHER -> \A h \in Handoffs : rows[h] \in {"none", "CLOSED"}

Transition(target, rows) ==
  /\ <<control, target>> \in Admitted
  /\ GuardHandoffControl(target, rows)
  /\ control' = target
  /\ version' = version + 1

-----------------------------------------------------------------------------
(* HandoffService.configure: an admin's save under expected_revision; one   *)
(* with a stale expected_revision is refused.                               *)
Configure(on) ==
  /\ revision < MaxRevision
  /\ revision' = revision + 1
  /\ enabled' = on
  /\ UNCHANGED <<conversationVars, handoffVars, inactivityJob, request>>

-----------------------------------------------------------------------------
(* HandoffService.request.                                                  *)

\* The first transaction admits the request under the current configuration;
\* surfaces.verify follows outside any transaction.
BeginRequest(r) ==
  /\ request[r] = 0
  /\ Live = {}
  /\ enabled
  /\ request' = [request EXCEPT ![r] = revision]
  /\ UNCHANGED <<conversationVars, handoffVars, inactivityJob, configVars>>

\* Mutation: the second transaction trusts what the first one read.
MayAdmitUnchecked(r) == TRUE

\* What the second transaction reads again under the conversation lock.
MayAdmit(r) ==
  /\ Live = {}
  /\ control = "AI_ACTIVE"
  /\ request[r] = revision

\* The second transaction: the notice, the handoffs row and the transition.
AdmitRequest(r, h) ==
  /\ request[r] > 0
  /\ MayAdmit(r)
  /\ handoff[h] = "none"
  /\ handoff' = [handoff EXCEPT ![h] = "REQUESTED"]
  /\ Transition("AWAITING_HUMAN", handoff')
  /\ request' = [request EXCEPT ![r] = 0]
  /\ UNCHANGED <<sequence, quiet, inactivityJob, configVars>>

\* The surface or the account is not verified, a live handoff is returned
\* instead, or HandoffError: nothing is written.
EndRequest(r) ==
  /\ request[r] > 0
  /\ request' = [request EXCEPT ![r] = 0]
  /\ UNCHANGED <<conversationVars, handoffVars, inactivityJob, configVars>>

-----------------------------------------------------------------------------
(* HandoffService.handle_event.                                             *)

\* Mutation: events are applied in the order they arrive.
AppliesAsTheyCome(h, kind, n) ==
  /\ h \in Live
  /\ kind = "ACTIVITY" => handoff[h] = "ACTIVE"

\* Replayed and late events, and events of a closed handoff, are ignored;
\* ACTIVITY without a human is refused.
Applies(h, kind, n) ==
  /\ h \in Live
  /\ n > sequence[h]
  /\ kind = "ACTIVITY" => handoff[h] = "ACTIVE"

\* Mutation: END closes the handoff and leaves the conversation to the human.
HumanEventKeepsControl(h, kind, n) ==
  /\ Applies(h, kind, n)
  /\ handoff' = [handoff EXCEPT ![h] = IF kind = "END" THEN "CLOSED" ELSE "ACTIVE"]
  /\ sequence' = [sequence EXCEPT ![h] = n]
  /\ quiet' \in {quiet, [quiet EXCEPT ![h] = FALSE]}
  /\ IF kind = "ACTIVATE" /\ handoff[h] = "REQUESTED"
     THEN Transition("HUMAN_ACTIVE", handoff')
     ELSE UNCHANGED conversationVars
  /\ UNCHANGED <<inactivityJob, configVars, request>>

\* An event with an old occurred_at does not move last_activity_at.
HumanEvent(h, kind, n) ==
  /\ Applies(h, kind, n)
  /\ handoff' = [handoff EXCEPT ![h] = IF kind = "END" THEN "CLOSED" ELSE "ACTIVE"]
  /\ sequence' = [sequence EXCEPT ![h] = n]
  /\ quiet' \in {quiet, [quiet EXCEPT ![h] = FALSE]}
  /\ \/ kind = "END" /\ Transition("CLOSED", handoff')
     \/ kind # "END" /\ handoff[h] = "REQUESTED" /\ Transition("HUMAN_ACTIVE", handoff')
     \/ kind # "END" /\ handoff[h] = "ACTIVE" /\ UNCHANGED conversationVars
  /\ UNCHANGED <<inactivityJob, configVars, request>>

-----------------------------------------------------------------------------
(* Inactivity: the scanner of the scheduler and close_if_inactive.          *)

\* The configured hours pass without a human event or a customer message.
FallQuiet(h) ==
  /\ h \in Live \cap Unattended
  /\ ~quiet[h]
  /\ quiet' = [quiet EXCEPT ![h] = TRUE]
  /\ UNCHANGED <<conversationVars, handoff, sequence, inactivityJob, configVars, request>>

\* Mutation: only handoffs a human has taken are scanned.
DueOnceActive(h) == handoff[h] = "ACTIVE" /\ quiet[h]

\* The handoffs branch of the due CTE.
Due(h) == h \in Live /\ quiet[h]

ScheduleInactivity(h) ==
  /\ Due(h)
  /\ ~inactivityJob[h]
  /\ inactivityJob' = [inactivityJob EXCEPT ![h] = TRUE]
  /\ UNCHANGED <<conversationVars, handoffVars, configVars, request>>

\* The deadline is read again under the conversation lock.
CloseIfInactive(h) ==
  /\ inactivityJob[h]
  /\ inactivityJob' = [inactivityJob EXCEPT ![h] = FALSE]
  /\ \/ /\ h \in Live /\ quiet[h]
        /\ handoff' = [handoff EXCEPT ![h] = "CLOSED"]
        /\ Transition("CLOSED", handoff')
     \/ /\ ~(h \in Live /\ quiet[h])
        /\ UNCHANGED <<handoff, conversationVars>>
  /\ UNCHANGED <<sequence, quiet, configVars, request>>

-----------------------------------------------------------------------------
\* What ConversationService.ingest does to the row for a new message: a closed
\* conversation is reopened.  The deadlines of a handoff start anew.
InboundArrives ==
  /\ IF control = "CLOSED" THEN Transition("AI_ACTIVE", handoff)
                           ELSE UNCHANGED conversationVars
  /\ quiet' = [h \in Handoffs |-> FALSE]
  /\ UNCHANGED <<handoff, sequence, inactivityJob, configVars, request>>

\* What neither a turn nor an inbound message does.
HandoffStep ==
  \/ \E on \in BOOLEAN : Configure(on)
  \/ \E h \in Handoffs : FallQuiet(h) \/ ScheduleInactivity(h) \/ CloseIfInactive(h)
  \/ \E h \in Handoffs, kind \in HumanEvents, n \in 0..MaxSequence : HumanEvent(h, kind, n)

ControlNext ==
  \/ HandoffStep
  \/ InboundArrives
  \/ \E r \in Requesters :
       BeginRequest(r) \/ EndRequest(r) \/ \E h \in Handoffs : AdmitRequest(r, h)

ControlSpec == ControlInit /\ [][ControlNext]_controlVars

\* The scanner runs every minute and its jobs are executed.
ControlFairness ==
  \A h \in Handoffs : WF_controlVars(ScheduleInactivity(h)) /\ WF_controlVars(CloseIfInactive(h))

FairControlSpec == ControlSpec /\ ControlFairness

-----------------------------------------------------------------------------
(* Properties.                                                             *)

\* The types of the rows and of what a request keeps between its transactions.
ControlTypeOK ==
  /\ control \in ControlStates
  /\ version \in Nat \ {0}
  /\ handoff \in [Handoffs -> {"none", "REQUESTED", "ACTIVE", "CLOSED"}]
  /\ sequence \in [Handoffs -> Int]
  /\ quiet \in [Handoffs -> BOOLEAN]
  /\ inactivityJob \in [Handoffs -> BOOLEAN]
  /\ revision \in 0..MaxRevision
  /\ enabled \in BOOLEAN
  /\ request \in [Requesters -> 0..MaxRevision]

\* The conversation and its handoffs tell the same story at every commit: a
\* conversation waits for a human, or is with one, exactly while its single
\* live handoff says so.  Neither the unique index handoffs_one_live nor the
\* trigger of the migration can therefore reject a transaction of the code.
ControlMatchesHandoff ==
  /\ \A h, i \in Live : h = i
  /\ control = "AWAITING_HUMAN" <=> \E h \in Handoffs : handoff[h] = "REQUESTED"
  /\ control = "HUMAN_ACTIVE" <=> \E h \in Handoffs : handoff[h] = "ACTIVE"

\* A closed handoff is never revived and no human event is undone by an older
\* one, in whatever order the surface delivers and repeats them.
HandoffNeverRevived ==
  [][\A h \in Handoffs :
       /\ handoff[h] = "CLOSED" => handoff'[h] = "CLOSED"
       /\ handoff[h] = "ACTIVE" => handoff'[h] \in {"ACTIVE", "CLOSED"}
       /\ sequence'[h] >= sequence[h]]_controlVars

\* Once an administrator has disabled live handoff no conversation is handed
\* over, although a request verifies the human surface between reading the
\* configuration and writing the handoff.
DisabledAdmitsNoHandoff ==
  [][\A h \in Handoffs : handoff[h] = "none" /\ handoff'[h] # "none" => enabled]_controlVars

\* A handoff nobody attends to, requested or active, does not keep the
\* conversation from the AI for ever once the customer is silent too.
UnattendedHandoffEnds ==
  \A h \in Handoffs : [](h \in Live /\ []quiet[h] => <>(handoff[h] = "CLOSED"))
=============================================================================
