# Agents Factory: formal models and proofs

TLA+ models of the parts of the Agents Factory backend where several processes,
retries and clocks meet, the TLC instances that check them, and TLAPS proofs of
the properties that matter most. Paths below are relative to the repository;
`…/agents_factory/` stands for `apps/backend/src/agents_factory/`.

To check an instance: `tlc -workers 2 -config queue_faults.cfg MCDurableQueue`.
To check the proofs: `tlapm DurableQueue_proofs.tla`.

## 1. The system

Agents Factory runs customer-service agents over WhatsApp for many tenants. A
FastAPI backend, four kinds of worker processes (agent, outbound, knowledge,
scheduler), PostgreSQL (rows, constraints, triggers, advisory locks) and Redis
(ARQ messages, conversation locks, capacity leases) work together through one
mechanism: a transaction changes rows *and* inserts an `outbox_jobs` row; the
scheduler hands that row to ARQ; a worker executes it under a conversation lock
and records the attempt. Everything that must survive a crash is a row.

```
 Meta webhook ──> inbound job ──> agent turn ──> outbound.text ──> send ──> Meta
                       │              │   │                          ▲        │
                       │              │   └─ handoff request ─┐      │   callbacks
                       ▼              ▼                       ▼      │
                 conversations.control_state  <──────  handoffs      │
                                      │                              │
              tools ──> actions ──> approval ──> execution ──> result notice
                                      │
                                      └──> case intake ──> cases ──> timers
```

### 1.1 Inventory

| Component | State | Operations | What is hard | What makes it correct |
|---|---|---|---|---|
| Durable job queue (`common/queue.py`, `common/outbox.py`, `workers/*/worker.py`) | `outbox_jobs`, `job_attempts`, `dead_letter_jobs`, ARQ's job and result keys | enqueue, claim, hold, dispatch, start, finish (3 ways), settle | three stores without a common transaction; leases; duplicate and lost messages; crashes at every point | one attempt in flight, budget kept, nothing after success, no job lost |
| Conversation lock (`common/locks.py`) | a Redis key with TTL | acquire, renew, release | expiry under a live holder | jobs of a conversation do not overlap while renewals are in time |
| Operations (`modules/operations/admin.py`) | `dead_letter_jobs` | RETRY, RESOLVE, DISCARD; dashboards | races with the queue | a retry raises the budget by one attempt |
| Conversation control (`modules/conversations`, SQL) | `control_state`, `state_version` | ingest, transition | takeover while a reply is being composed | nothing of the AI is sent after the takeover |
| Handoffs (`modules/handoffs`) | `handoffs`, `handoff_configurations` | configure, request (two transactions), human events, inactivity | late and repeated events; configuration changes between two transactions | conversation and handoff agree; nothing closed is revived |
| WhatsApp inbound, turn, outbound (`modules/whatsapp`, `runtime/turn_service.py`, `workers/agent-worker`, `workers/outbound-worker`) | inbound events, messages, `outbound_messages`, delivery evidence | webhook, ingest, turn, prepare, claim, complete, reconcile | unknown provider outcomes; callbacks in any order; retries | at most one attempt per message; evidence not taken back |
| Actions and approvals (`modules/actions`, `modules/approvals`) | `actions`, `approval_requests`, `approval_decisions`, routes | request, confirm, decide, expire, execute, notify | native write between two transactions; lost locks; changing routes | one write, told truthfully; every decision answered |
| Cases (`modules/cases`) | `cases`, `case_events`, `case_operations`, timers | intake, transition, reports, timers | confirmed work built on an old revision; the edge of the closing window | one active case per incident; nothing confirmed is lost; every deadline acted on |
| Appointments, orders, returns destination (`modules/capabilities/*`, `integrations/{google,woocommerce}`, `cases/delivery.py`) | operation receipts, `appointments`, the delivery ledger; calendar, shop, sheet and mail outside | claim, external write, finish; availability; notices and reminders; delivery of a revision | crash around the external write; calls whose outcome nobody knows; double booking; superseded reminders; no compare-and-set at the shop | one write per action, truthful receipts, one booking per slot, nothing newer overwritten |
| Knowledge (`modules/knowledge`, `workers/knowledge-worker`, scheduler) | ingestions, proposals, source versions, drafts, artifacts, chunks | request, ingest, review, change detection, members, embed, promote, publish | two reviewers at once; jobs delivered again; drafts opened from two places; embeddings committed in batches | a part of the source becomes an artifact once, if it was approved |
| Agent factory, evaluations (`modules/agent_factory`, `evals`) | agent versions, decisions of the gate, deployments | drafts, console forms, bind, promote, evaluate, publish, roll back | forms that were opened on an older version; evidence read before the publication that uses it | no saved edit is undone; what serves passed for exactly its digests |
| Usage (`modules/usage`, `runtime/metering.py`) | Redis leases and rate windows, ledger, alerts, budget | acquire, reserve, release; record, alert, configure; hourly storage | leases that are not renewed; answers of Redis that are lost; thresholds crossed together; two schedulers | a turn is made again only if it was free; alerts keep up; no hour twice |
| Integrations, secrets (`modules/integrations`, `modules/secrets`) | connections, OAuth states, envelopes, the master key | authorize, complete, refresh, health, execute, revoke; store, load, rotate | states used once; two-transaction revocation; rotation beside use; a privacy job that revokes | vault and rows agree; what was revoked stays revoked |
| WhatsApp accounts (`whatsapp/{account,signup}_service.py`, `meta_provider.py`) | signup states, accounts, tokens | start, complete, health, disconnect | Meta is asked without a lock; a disconnection goes on after its commit | an active number works with its last token; a disconnected one says so |
| Media (`modules/media`) | evidence rows, files, observations | process, retry, delete, purge, export | rows and files in two stores; many commits under one lock | only clean content is shown; deleted content is gone |
| Approval review (`approvals/{service,otp,tokens,routes}.py`) | links, codes, attempts, mail states | notify, start, verify, review, decide | parallel visits that save whole rows; answers of the mailer that come late | one decision, by who has the last code; attempts and mails bounded |
| Identity, policies, templates, privacy, retention | levels, tenant policies, templates, jobs | assess; evaluate; register; export, delete, expire | – | read as data by the modelled parts; the privacy job that revokes integrations is in `Connections` |
| Tenants, onboarding (`modules/tenants`) | none of its own: twelve steps computed from the other tables | status | the tables change meanwhile | "complete" is what the tables say |
| Observability; conversation administration; control plane; common services; schemas and deployment | – | – | no interaction the models could tell apart | – |

`PROJECT.json` ("components") lists each with its source files, what is modelled
and why the rest is not.

## 2. The modules

| Module | Models | Sources |
|---|---|---|
| `DurableQueue` | the ledger, dispatchers, ARQ, worker slots, the conversation lock, dead-letter actions | `common/queue.py`, `locks.py`, `outbox.py`, `operations/admin.py`, workers |
| `JobContract` | abstract: what the queue promises about a job | – |
| `ConversationControl` | control state, handoffs, configuration, inactivity | `conversations`, `handoffs`, SQL functions and triggers, `lifecycle_scan.py`, `lifecycle_jobs.py` |
| `MessagePipeline` | EXTENDS `ConversationControl`; webhook, ingestion, turn, preparation, sending, callbacks | `whatsapp/webhook.py`, `whatsapp/outbound_service.py`, `runtime/turn_service.py`, worker jobs |
| `TakeoverContract` | abstract: what may be sent to a customer, and when | – |
| `ActionApproval` | actions that need an approval: request to result notice | `actions/service.py`, `approvals/{service,execution,expiry}.py`, agent worker |
| `CaseLifecycle` | the cases of one incident | `cases/*`, `returns_claims/workflow.py` (prepare), `completeness.py` |
| `ProviderCalls` | how a call to Google or WooCommerce ends, what it may have done, and what the code concludes | `integrations/google/*`, `integrations/woocommerce/*` |
| `Booking` | EXTENDS `ProviderCalls`; appointments, their calendar, their messages | `capabilities/appointments/*`, `integrations/google/calendar.py` |
| `Orders` | EXTENDS `ProviderCalls`; the writes to one order of a shop or a sheet | `capabilities/orders/*`, `integrations/woocommerce/*`, `integrations/google/orders_sheet.py` |
| `ClaimDelivery` | EXTENDS `ProviderCalls`; a claim on its way to Drive, Sheets and Gmail, under one configuration of the destination after another | `cases/delivery.py`, `returns_claims/{destination,workflow}.py`, `integrations/google/sheets.py` |
| `Knowledge` | ingestion, review, versions, embeddings, promotion | `knowledge/*`, knowledge worker, `knowledge_jobs.py`, SQL of the review |
| `Publication` | EXTENDS `Knowledge`; agent versions, console, gate, deployments | `agent_factory/*`, `evals/*`, `knowledge/publishing.py` |
| `Connections` | a connection, its authorizations, the vault, rotation | `integrations/*`, `secrets/*`, `privacy/deletion.py` |
| `Metering` | runs, leases, requests, ledger, alerts, storage hours | `usage/*`, `runtime/{metering,openai_adapter}.py` |
| `Onboarding` | EXTENDS `Publication`, `Connections`; the twelve steps and what the console says of them | `tenants/onboarding.py` |
| `WhatsAppAccounts` | signups, one number, its tokens, health, disconnection | `whatsapp/{account_service,signup_service,meta_provider}.py` |
| `MediaEvidence` | one media object: row, file, observations | `media/{service,storage}.py` |
| `ApprovalReview` | one link of an approval: notice, codes, decision | `approvals/{service,expiry,repository}.py`, mailer |
| `DurableQueue_proofs`, `ConversationControl_proofs`, `MessagePipeline_proofs`, `ActionApproval_proofs`, `CaseLifecycle_proofs` | theorems about the module each is named after | – |
| `NativeOperations_proofs` | theorems about `Booking`, `Orders`, `ClaimDelivery`, and the three side by side | – |
| `Channels_proofs` | theorems about `ApprovalReview`, `MediaEvidence`, `WhatsAppAccounts` | – |
| `Platform_proofs` | EXTENDS `Channels_proofs`; theorems about `Metering`, `Connections`, `Knowledge`, `Publication`, `Onboarding`, and of all parts of `MCPlatform` side by side | – |
| `MC…` | constants of the TLC instances | – |

**How state and actions correspond to code.** A variable is a column (or a Redis
key) and carries its name where possible; the comment beside each VARIABLE says
which. A database transaction is one action, because every handler modelled
locks the rows it decides on (`FOR UPDATE`, advisory locks, or a compare in the
WHERE clause, which is then a guard). Code between two transactions – a provider
call, a handler, a verification – is an action of its own, so that everything
else can happen meanwhile. What a step reads and keeps for later is a variable
(`started`, `turnVersion`, `request`, `worker`, `prepared`, `seen`). `PROJECT.json`
("map") gives the lines of every definition.

**Composition.** `MessagePipeline` extends `ConversationControl` and steps of the
pipeline are conjunctions with its actions (a request made in a turn, an inbound
message that reopens a conversation). The pipeline does not include the queue:
each of its jobs is what `JobContract` allows (`TurnFails`, `PrepareDies`,
`SendInterrupted` are its failing and dead-lettered attempts), and `DurableQueue`
is shown to implement `JobContract`. `ActionApproval` and `CaseLifecycle` use the
queue in the same way, with repeated delivery of the same job on top.
`Publication` extends `Knowledge` because the gate reads knowledge that is promoted
meanwhile, and `Onboarding` reads both with `Connections`. `MCNativeOperations` and
`MCPlatform` put parts that share nothing side by side in one instance: a variable
`focus`, chosen in the initial state, says which part a behaviour is about, and the
others keep their initial state. What holds of each part is an invariant of the
whole, so this is the union of separate instances and not a product.

**Operators whose comment begins with "Mutation:"** are plausible bugs of the
definition that follows them. They are not part of the specification; for each
property one of them, put in place of the real definition, makes TLC find a
violation under the configuration of the run.

## 3. The runs

Sizes are distinct states. Every bound is a constant of the `.cfg`.

### DurableQueue

* **queue_faults** (29k, 5 s) – one job whose topic can be held, two dispatchers,
  two workers, three attempts, two deferrals, one operator retry, all nine fault
  kinds. `SingleFlight`, `AttemptLedger`, `RetryBudget`, and the refinement
  `ContractSpec` survive every one of them. One job is enough here because these
  properties speak of one job at a time; two of each process give every race
  between claims, redeliveries and the operator. Dispatchers and workers are
  interchangeable and no liveness is checked, so symmetry is sound.
* **queue_delivery** (120k, 2 min) – two jobs of one conversation in a batch,
  faults `enqueue_error`, `dispatcher_crash`, `shutdown`: `QueuedIsDeliverable`,
  `ConversationSerialized`, and under fairness `EventuallySettled`.
* **queue_deferral**, **queue_dlq_twice** – expected violations, section 5.

The fault sets are the point of the liveness runs: each fault left out of
`queue_delivery` violates `EventuallySettled` when it is put in alone (section 5),
so the three it has are the ones the ledger is reconciled for.

### ConversationControl and MessagePipeline

* **control_handoffs** (4 s) – two handoffs in succession, two concurrent
  requesters, two configuration revisions, event numbers 0 to 2 in any order:
  `ControlMatchesHandoff`, `HandoffNeverRevived`, `DisabledAdmitsNoHandoff`,
  `UnattendedHandoffEnds`.
* **pipeline_takeover** (45 s) – two messages, a handoff requested by either turn
  or by an administrator, human events, failing attempts: the pipeline
  implements `TakeoverContract`, and no message is attempted twice.
* **pipeline_delivery** (215k, 50 s) – one message that asks for a human, the
  notice and the reply, every provider outcome, every callback in any order and
  number: `DeliveryEvidenceWins` and under fairness `NoMessageForgotten`.

Two messages are needed for a reply composed before and one composed after a
takeover; a second handoff for the one that comes after a closed one.

### ActionApproval

* **approval_execution** (168k, 35 s) – one action, two workers, two route
  configurations (one disabled) and three revisions, so that a route can be
  changed back to a configuration it had; four control changes, so that a result
  is held twice; one fault (death or lost lock) at any point. Actions share
  nothing but the route and the conversation, so that a second one adds no case
  for these properties; the theorems are for any number. With two faults the
  instance also passes (463k).

### CaseLifecycle

* **case_lifecycle** (202k, 55 s) – two messages prepared on the same or on
  successive revisions, of which the second may say again what the case says (it
  then shares the revision), an officer, a report, two cases, clock 0 to 3, closing
  window 2, response target 2 (near at 1): a case can be created, updated,
  worked on, resolved, extended, closed and succeeded by a second one before the
  clock ends. `Decisions` leaves out statuses that differ from the ones kept only
  in name (REJECTED, EXPIRED and DUPLICATE are terminal like CANCELLED) and the
  approval step in the middle. Properties: `ConstraintsHold` (the types
  and `OneActiveCase`), `NoFactLost` (with `AppliedOnce`), `DecidedAsSeen`,
  `HistoryStands` (with `AlertTruthful`), and under fairness `TimersAct`
  (`ResolutionCloses` and `OverdueNoticed`).

### Booking, Orders, ClaimDelivery

* **native_operations** (1.92M states) – the focus is one of *slots* (two bookings of
  overlapping slots, a move, edits of the calendar by hand, a dropped lock), *notices*
  (one appointment moved and cancelled, and the messages about it), *orders* (any two
  of an address change, a note and a cancellation, on a shop or a sheet, with staff
  editing the order) and *claims* (two revisions of a claim, with at most one piece of
  evidence each, executed three times in any order). Two workers; calls end in every way
  `ProviderCalls` lists. One mishap (crash, dropped connection, edit) per behaviour, and
  for claims two, or else a new configuration of the destination. `ReceiptsTruthful`,
  `SlotGivenOnce`, `NoticesCurrent`, `WritesInOrder` (`NoLostUpdate` of orders and
  `QueueForward` of claims), `NativeTypesOK`.

  Two workers give every overlap of one action with itself and of two actions with each
  other; the properties relate at most two actions. For claims, three executions put an
  older revision on both sides of a newer one, and the second mishap is for the worker
  that finds what the first left. The two configurations differ in the address of the
  notice and so have one sheet. Locks and ledger are keyed by the digest of the
  configuration, as in the code, so that a worker under the old one and a worker under
  the new pass each other; `unguarded` remembers the sheets where this has happened or a
  lock was lost, and `QueueForward` promises nothing of those. The configurations are
  alike, so it does not matter which comes first (`MCInit`). More revisions or
  executions, separate sheets, more changes of the configuration, and crashes together
  with them are left to the theorems about `ClaimDelivery`, which are for any number of
  each.

### Knowledge, Publication, Connections, Metering, Onboarding, channels

* **platform** – two people or processes in each focus:

  | Focus | Part | Bounds |
  |---|---|---|
  | review | two ingestions of a page, decided by two administrators | facts f1, f2, document d1; an ingestion may fail and be delivered again (`MaxTries` 2) where it is the only one |
  | versions | one ingestion; members, embeddings, promotion | two versions, documents in two batches (`Pieces`) |
  | edits | the console beside drafts made elsewhere | four versions of the agent (`MaxAgents`) |
  | release | two versions; gate, publication, rollback, knowledge promoted meanwhile | three decisions, three deployments |
  | connections | OAuth or API key, rotation, revocation, a privacy job | three authorizations, four envelopes; a privacy job or a redeployment, the rotation beside either |
  | runs | two runs recorded while the budget changes | one lease, two requests a minute (`MaxRate`), no retry, one threshold, two requests a turn, two budgets |
  | hours | two schedulers | three hours |
  | numbers | two tenants and two administrators want one number | three signups |
  | media | one object in two messages, two processes | none: the state is finite |
  | links | two visits to the link of one approval | two attempts, two codes |

  Bounds are at the smallest value at which the next person meets what the
  previous one left: a third version over two forms opened on the first, a third
  authorization over a stale one and a revocation, an attempt after the last code.
  Properties: `ReviewConclusive`, `EditsKept`, `ReleasesSafe` (`ServedIsGated` and
  `ConsoleTruthful`), `ConnectionsSafe` (`SecretsAccounted`, `RevocationHolds`),
  `SpendAccounted` (`AlertsKeepUp`, `DeferredIsFree`, `HoursOnce`),
  `NumberTruthful` (`TokenCurrent`, `DisconnectionTold`), `EvidencePrivate`
  (`DeletedForGood`, `OnlyCleanShown`), `ReviewProven` (`MailAndGuessesBounded`,
  `CodesProveMailbox`), and the types. Only safety is checked, and persons,
  ingestions and tenants are interchangeable, so symmetry is sound.
* **knowledge_test** – expected violation, section 5.

`CHECK_DEADLOCK FALSE` appears where the system may stop: all jobs settled, all
messages handled, the clock or another bound reached.

### Fairness and why the code justifies it

| Module | Assumed | Because |
|---|---|---|
| `DurableQueue` | dispatchers claim due rows, workers take messages and go on, keys expire (WF); enqueueing, delivery and acquiring a free lock happen if possible again and again (SF) | `dispatch_once` runs every second; ARQ polls; handlers have a timeout; Redis errors and a taken lock are transient. No fairness of the operator. |
| `ConversationControl` | scanning and closing (WF) | the scan runs each minute, its jobs are executed. No fairness of humans or requests. |
| `MessagePipeline` | jobs are executed (WF), attempts fail finitely often | retry budget of the queue: `RetryBudget` |
| `ActionApproval` | workers serve jobs and finish their steps, deadlines pass, the scanner expires requests, a human gives the conversation back (WF) | queue and scheduler. The last one is an assumption about people: a handoff ends (`UnattendedHandoffEnds`), and the customer's next message reopens the conversation; until then the result is held by design. Reviewers need not decide. |
| `CaseLifecycle` | time passes and due timers run (WF) | the clock; queue. Neither customers nor officers need act. |

## 4. The proofs

TLAPS checks the theorems for every value of the constants that the ASSUME of
the module admits. Those assumptions say only that constants have their types,
that names of processes and jobs do not collide, that limits a loop starts under are
positive, and that subsets are subsets. Every invariant that a passing run checks is
stated by a theorem, every action property too, and both refinements.

**`DurableQueue_proofs`.** `SingleFlight` is not inductive: that a worker in an
attempt owns its row depends on nobody else being able to start one. The
invariant `IInv` adds: a worker that is not idle has the message of its job
(`MessageInv`: ARQ's job key is the mutual exclusion), a lease exists only on a
dispatching row (`LeaseInv`, so that the release of a hold, which looks only at
the lease, never touches a running job), a worker in an attempt keeps the limit
and budget of its row (`AttemptInv`), and a processing row has a charged attempt
(`BudgetInv`). From it `TypeCorrect`, `SingleFlightHolds`, `RetryBudgetHolds`, and
`LedgerImplementsContract`: initial states map to initial states, every step to a
step of `JobContract` or a stutter. `AttemptLedgerHolds` adds `LedgerInv`: the rows
of `job_attempts` are numbered without gaps up to the counter of their job, and one
that is still "started" is that of the attempt in flight.
Two theorems have conditions, because what they say is false without them:

* `ConversationSerializedHolds` supposes that no lease of the lock runs out under a
  living holder (`"lease_loss" \notin Faults`): Redis gives no fencing token that the
  database would check. Every other fault is allowed.
* `QueuedIsDeliverableHolds` supposes `DeliveryConditions`: of the faults only those
  of enqueueing, dying processes and shutdowns; no job whose topic is held; no dead
  letter retried. What each of the others does to a queued row is in section 5.
  `queue_delivery` is such an instance, so that the conditions can be met.

**`ConversationControl_proofs`.** `ControlInv` adds to `ControlMatchesHandoff` that a
request admitted under the current revision was admitted while it was enabled
(`AdmittedUnderRevision`). It gives `ControlMatchesHandoffHolds`,
`HandoffNeverRevivedHolds` and `DisabledAdmitsNoHandoffHolds`.

**`ActionApproval_proofs`.** `ApprovalInv` adds to the four state properties what
connects the writers with the rows: an executing action has one counted attempt
(`Attempted`), a worker at the provider stands for an action that is EXECUTING or
was ended UNCERTAIN by another (`InFlight`), only one worker can be before its
write (`OneWriter`), and the chain of jobs that carries a result to its notice is
never broken (`Handled`, `Queued`, `Carried`). It gives the seven theorems listed in
`PROJECT.json`, `AnswerNotLostHolds` and the action property `TerminalIsFinalHolds`
among them.

**`MessagePipeline_proofs`.** The pipeline takes only steps of `ControlSpec`
(`PipelineKeepsControl`), so that `ControlInv` and all that follows from it holds of the
composition without a new proof. `PipelineInv` then relates the tables of one reply: it
is stored with the version its turn started from (`TurnInv`); its row is inserted once
and leaves PREPARED once, which is why no message is attempted twice (`SendInv`); a
callback finds a message that was accepted (`CallbackInv`). It gives
`OneAttemptPerMessageHolds`, `DeliveryEvidenceWinsHolds`, and with `ControlInv` the
refinement `PipelineImplementsTakeover`: what `TakeoverContract` calls composing,
taking over and sending are steps of the pipeline, and every other step stutters.

**`CaseLifecycle_proofs`.** `CaseInv` says which rows exist and what they hold
(`CaseShape`, `RowsSound`), that one case of the incident is active (`OneActive`), that a
message which is not confirmed has left no trace (`FreshUnapplied`), that one which was
is not prepared again (`ReceiptsOfPrepared`), and that a prepared message says all that
the case says at the revision it names (`IntakesBuiltOnRead`): the compare in the
confirmation then suffices for `NoFactLost`, which is a conjunct because a later merge
needs what an earlier one kept. `SightingsDated` connects what an officer has seen with
the row it was read from and gives the action properties `DecidedAsSeen` and `HistoryStands`.

**`NativeOperations_proofs`.** One inductive invariant for each capability, and the
conjunction of the three for `MCNativeOperations` (`NativeInv`). `BookingInv`: what a
worker knows of its call is consistent with the calendar (`WritesCounted`), a slot is
checked and written under one lock (`GuardHeld`), and a notice that is being sent was
current when it was read (`SeenStands`). `OrdersInv`: as long as no lease is lost, the
version that a worker found current still is when it writes (`LeaseFresh`), unless staff
edited the order in between, which is why `NoLostUpdate` speaks of the writes of actions.
`SlotGivenOnceHolds`, `NoticesCurrentHolds` and `NoLostUpdateHolds` are about the modules
by themselves; types, `ReceiptsTruthful` and `WritesInOrder` about the three together.

`ClaimInv` is about any number of configurations, some of which share a sheet. A worker
has the locks of its configuration and of its effect (`RootHeld`), so it is alone under
that configuration, and, as long as its sheet is not in `unguarded`, alone at the
sheet (`AloneAtSheet`): the row it read is then the row that is there (`QueueCurrent`),
which with the comparison of the revisions gives `QueueForward`. The receipts do
not depend on this: the ledger entry of an effect is made before the effect and by one
worker, whatever locks are lost (`EffectsClaimed`, `AnswersTold`), a row that was written
stays on record (`RowsWritten`), and the mail comes after it (`NoticeAfterRow`), so
`ClaimReceipts` holds of unguarded sheets too. `ClaimReceiptsHold` and `QueueForwardHolds`
are about `ClaimSpec` with nothing cut off.

**`Channels_proofs`.** `ReviewInv`: one visit at a time is between the read of a link
and its save, what it read still stands but for an expiry, and codes are
counted before they are mailed; the limits follow, by counting the codes.
`MediaInv`: at each stage of a process, what the stages before it have established of
the row, the file and the observations. `AccountsInv`: a signup in flight has a token
nobody else has seen, and a disconnection works on one that the row has given
up for good, so that its late answers harm nothing.

**`Platform_proofs`.** Each part has an invariant over the rows of its tables and the
requests that are open on them. `MeteringInv` has the cost of each attempt, the size of
the lease set, and what the holder of the alert lock has summed. `ConnectionInv` says who
refers to which envelope (`OneOwner`: nothing is shared, so a late deletion takes nothing
from another) and dates revocations. `KnowledgeInv` contains `ReviewConclusive`, with
the state in which each reviewer must find the proposal; its steps also satisfy
`VersionsGrow` (`VersionsKept`): a version in Test keeps its digest. The invariant of the
agent, `PublicationInv`, rests on that alone, because requests of the agent read the
knowledge between its steps. That a publication saw the last verdict is proved from the
way the latest decision is chosen, by maximality, so that nothing is assumed of
time stamps. `ReleasesSafeHolds` needs of `Onboarding` that the first step which is not
complete is what the console shows, by cases over the twelve steps.
`PlatformInvariant` puts the parts side by side as `MCPlatform` does (with knowledge
that was made by hand, `HandMade`), and `PlatformTypesHold` concludes their types.

**Only model-checked.** Liveness: `EventuallySettled`, `UnattendedHandoffEnds`,
`NoMessageForgotten`, `DecisionAnswered` and `TimersAct` rest on fairness and ENABLED,
which the prover does not handle; the safety they need (a queued row is
deliverable, a result always has a job, an alert is not raised early) is proved. The
three properties of section 5 are violated, and stated there. `TypeOK` of
`MessagePipeline` is not a run's property; `RowTypes` in its invariant says as much.

## 5. What the models show about the code

Three disagreements between code and documentation are runs that TLC violates:

1. **A dead letter retried and failing again has no open entry**
   (`queue_dlq_twice`, `DeadLetterInspectable`). `_finish_failure` inserts with ON
   CONFLICT DO NOTHING while the operator's RETRY has set the one row of that job
   to resolved. `docs/superpowers/plans/2026-08-12-agents-factory-v1.md:647`:
   "Exhausted attempts create one inspectable DLQ row and audit event."
2. **A deferred job may never run again** (`queue_deferral`, `EventuallySettled`).
   ARQ keeps the result of the deferred execution under the job's id; a dispatch
   within that time enqueues nothing, and the row is marked queued all the same.
   `docs/usage.md:140-143` says it returns to pending and is taken up later.
3. **A version enters Test with a document embedded in part** (`knowledge_test`,
   `TestIsEmbedded`). `knowledge/service.py:223-226` refuses unless "Every document in
   the exact Knowledge version must be embedded before entering Test.", but the
   query behind it asks for one chunk of each document, and the embedding job
   commits its chunks in batches.

The same model shows further single faults that leave a job behind; they are
listed as hazards and not as runs, since they are the same property under another
fault: the death of a worker in an attempt (the row stays processing), a lock
that cannot be acquired in time (the exception ends the message, the row stays
queued), a result held for a human whose message is delivered while the row is
pending again, the retry of a dead letter within the retention of its ARQ
result, a handler cut off by `job_timeout`, a database error in the transactions
around the handler, and a lost lock that turns a retry into the end of the
message.

`ActionApproval` shows two actions that wait for ever by construction: one whose
request was INVALIDATED by a change of its route, and one whose process stopped
between the confirmation and the approval request. No document promises
otherwise, so `DecisionAnswered` starts at a decided request and says so.

What else was met while modelling and is not claimed by any property:

* **Knowledge.** A trigger (`20260829150000_knowledge_foundation.sql:195`) admits only
  DRAFT to TEST, so `publish_production` (`knowledge/service.py:291`) can never
  succeed. A difference of a source stays DETECTED for ever, so the console's
  knowledge step is never complete once anything was ingested
  (`onboarding.py:655`). The idempotency key of an embedding job is the version, so
  documents that join later are not embedded by it; members that join while a
  promotion is under way are not in its digest; a new draft cannot leave out a fact
  of the one before.
* **Agents.** The console's quality step asks for any decision that passed, the gate
  for the latest. A publication and a rollback at the same time may both record
  the same version as replaced.
* **Connections.** `docs/integrations/connection-lifecycle.md` says of REVOKING and
  REVOKED that refresh and reconnect cannot revive such a connection; authorizing it
  anew is possible by design, so `RevocationHolds` is about grants. A second transaction of a
  revocation that is late revokes whatever authorization there is by then. While a
  rotation is under way, processes with the old key are refused what is rotated.
  The privacy job that revokes integrations clears references only; the envelope
  remains (`forsaken`) and the provider is not asked, which
  `docs/security/privacy-retention.md` names as an external step.
* **Returns and claims.** The advisory lock of a delivery and the keys of its ledger
  contain the digest of the whole configuration (`returns_claims/destination.py:231`).
  After a change of, say, the address of the notice, the evidence is uploaded and the
  notice sent again for a revision that is submitted again; a row whose evidence was
  uploaded anew differs from the one that is there and is refused
  (`claim_queue_revision_conflict`). A worker that is still under way under the old
  configuration and one under the new may both find no row and append one each; every
  later delivery of the case then ends as `claim_queue_duplicate`, and the sheet has to be
  mended by hand. `docs/capabilities/returns-claims.md:121-126` promises serialization, and
  nothing sent twice for a revision, per destination; the code takes any change of the
  configuration for another destination, and the properties say what is left.
* **Usage.** The lease of a run is never renewed (`usage/capacity.py:108`): a process
  that is stopped for longer than the lease runs beside another, so the limit on
  concurrency itself is not claimed. A record whose usage is unknown silences the
  budget; a new revision of it has no alert before the next record. Two schedulers
  on an empty ledger around a full hour can leave a gap.
* **WhatsApp numbers.** After a crash between the local disconnection and its cleanup
  the row says pending for ever: a second revoke returns early. A refusal after the
  exchange leaves a token nobody knows of.
* **Approval links.** The answer of the mailer is recorded without the locks of the
  review; if it falls between the reading and the saving of another visit it is
  lost, and the code stays CLAIMED and cannot verify. No safety is lost by it.

## 6. What is abstracted

* **Time.** Leases, TTLs, delays and quiet periods may end at any moment in
  `DurableQueue`, `ConversationControl` and `ActionApproval`. `CaseLifecycle` counts
  time because its deadlines are compared with each other; it has a single clock
  (a timer that
  runs on a worker whose clock is behind the scheduler's is left out).
* **Data.** Texts, answers of the model, amounts, parameters and their digests.
  Policy evaluation is a constant of each action. The facts of a case are the
  set of messages they come from, which is what merging drafts does to them.
* **Tenants.** One tenant, one conversation in the pipeline, one incident
  (deduplication key) in the cases. Rows of different ones never meet: every
  query modelled is keyed by tenant and conversation, customer or key.
* **Environment.** Providers, human surfaces, customers, officers and operators may
  do anything at any time within the messages the code accepts.
* **`MessagePipeline`.** The turn is one database transaction; model and tools run
  inside it. The lost callback (one that comes before `_complete` has stored the
  provider's id) is a callback that never comes.
* **`ActionApproval`.** Links, codes and e-mail of a review are in `ApprovalReview`,
  which in turn leaves out what a decision leads to; actions without approval,
  which tools execute inside the turn.
* **`CaseLifecycle`.** Evidence checks, results and references, an approved claims
  policy; the scan for case deadlines, which finds each one already scheduled by
  the transaction that set it.
* **Calls to providers.** A call ends in one of the eight ways of `ProviderCalls`, and
  one without an answer had its effect by then or never has it. Connectors do not
  retry. Meta, the mailer and the identity of grants are treated likewise.
* **`ClaimDelivery`.** The sheet is not edited by hand while a case is delivered, and
  the connector's reading, comparison and writing of a row are one step (one call, under
  the lock of its connection). `once` also refuses a claim whose payload differs from the
  one on record; this cannot happen, because what is written follows from the key: a
  file is stored under its digest, a revision stands for one content. What keeps two
  submissions from becoming two revisions of the same number is in `CaseLifecycle`.
* **Requests of administrators** are one step where they are one transaction that locks
  what it decides on, and two where they read first (`desk`, `form`, `pending`,
  `errand`, `visit`).
* **`Knowledge`.** One source; contents are sets of facts and documents, a digest is
  the content. Conflicts are resolved by the review that records them.
* **`MediaEvidence`.** The lock of the object is held until its holder ends; a lock
  lost under a live process, whose save of the whole row could then bring a deleted
  row back, is left out. Locations and contacts have no evidence row.
* **`WhatsAppAccounts`.** One number. A revocation at Meta acts on the one token it
  is asked with (external).
* **One of each.** One connection, one number, one object, one link: rows of different
  ones are never read together by the code that is modelled.

### Not modelled

Identity challenges (nothing in the source calls them yet: turns and tools only
assess the level), policies (a pure function; its result is data), the capability
registry and the registration of templates (single rows), conversation
administration, observability and retention (they read, or delete what is past its
period on conditions that only name the row itself), exports and the redaction of
conversations, prompts, parsing, ranking, prices, authentication, the web console.
`PROJECT.json` says so of each component.

## 7. Plan

The models of the plan are written, and the safety properties of the runs are proved.
What is left:

1. The conditions of `QueuedIsDeliverableHolds` one by one: which of them can be
   weakened (a reopened dead letter whose ARQ result has gone is deliverable), so that
   the theorem says of each fault what it costs.
2. Contracts of `ActionApproval` and of the approval link it leaves out: an abstract
   action with a decision that both implement, so that the two can be composed.
3. The same for the promotions of `Knowledge` that `Publication` reads: `VersionsGrow` is
   what it needs of them, and could be stated as a specification that `KnowledgeSpec`
   implements.

No module with a theorem reaches a RECURSIVE operator, and the constants have
named assumptions, so that proofs can be added beside the models.
