----------------------------- MODULE Publication -----------------------------
(***************************************************************************)
(* The agent of one tenant: versions of its configuration that are edited  *)
(* in the console, bound to a version of the knowledge, compiled, tested,  *)
(* judged by the quality gate, published, and rolled back to.              *)
(*                                                                         *)
(* A version never changes its configuration.  The latest deployment by    *)
(* created_at says which version serves; that time is taken before the row *)
(* is inserted, and the row is seen by others after the commit, so the     *)
(* order of the times need not be the order of the commits.                *)
(***************************************************************************)
EXTENDS Knowledge

CONSTANTS
  Editors,        \* administrators, each with one request at a time
  Builds,         \* digests of the code that agents may be configured with
  NoBuild,        \* the digest of zeros of the first draft
  MaxAgents,      \* bound: versions of the agent
  MaxDecisions,   \* bound: runs of the evaluations
  MaxDeployments  \* bound: publications and rollbacks

ASSUME PublicationAssumption ==
  /\ NoBuild \notin Builds
  /\ {MaxAgents, MaxDecisions, MaxDeployments} \subseteq Nat

VARIABLES
  agent,       \* public.agent_spec_versions, by number
  decision,    \* public.quality_gate_decisions, in the order they were committed
  deployment,  \* public.agent_spec_deployments, in the order they were committed
  form         \* the open request of each editor

publicationVars == <<agent, decision, deployment, form>>

NoForm == [at |-> "idle", on |-> 0, stamp |-> 0, passed |-> FALSE, verdict |-> 0, known |-> 0,
           active |-> 0]

PublicationInit ==
  /\ agent = <<>>
  /\ decision = <<>>
  /\ deployment = <<>>
  /\ form = [e \in Editors |-> NoForm]

\* A time is after every other one that was taken for a row of the table; the
\* times of different tables are not compared.
After(rows, open) ==
  LET taken == {rows[k].stamp : k \in DOMAIN rows}
               \cup {form[e].stamp : e \in {o \in Editors : form[o].at \in open}}
  IN  1 + CHOOSE t \in {0} \cup taken : \A o \in taken : o <= t

Deploying == {"publishing", "rolling_back"}

Submits(e, request) == form' = [form EXCEPT ![e] = request]
Answers(e) == form' = [form EXCEPT ![e] = NoForm]

--------------------------------------------------------------------------------
\* Drafts.

Latest == Len(agent)

\* create_draft: the next number, under the advisory lock of the agent.  The
\* reference to the knowledge is a number and the digest that was shown for it;
\* edits are the console's edits that the configuration holds.
CreateDraftVersion(number, code, edits, by) ==
  /\ Latest < MaxAgents
  /\ agent' = Append(agent,
       [state |-> "DRAFT", knowledge |-> number,
        digest |-> IF number = 0 THEN {} ELSE version[number].digest,
        code |-> code, edits |-> edits, by |-> by])

\* create_instance, with the first version.
CreateInstance(number, code) ==
  /\ Latest = 0
  /\ CreateDraftVersion(number, code, {}, "api")
  /\ UNCHANGED <<decision, deployment, form>>

\* _default_configuration: bound to no knowledge and to no code.
DefaultConfiguration == [knowledge |-> 0, code |-> NoBuild]

\* create_customer_service_draft.
CreateCustomerServiceDraft ==
  CreateInstance(DefaultConfiguration.knowledge, DefaultConfiguration.code)

\* create_draft of the service: any configuration, based on any version.  It
\* holds the edits of that version.
CreateDraft(base, number, code) ==
  /\ CreateDraftVersion(number, code, agent[base].edits, "api")
  /\ UNCHANGED <<decision, deployment, form>>

\* editor_state: the console shows the latest version.
OpenEditor(e) ==
  /\ Latest > 0
  /\ form[e] = NoForm
  /\ Submits(e, [NoForm EXCEPT !.at = "editing", !.on = Latest])
  /\ UNCHANGED <<agent, decision, deployment>>

\* Mutation: the draft is created from what the editor saw, whatever is latest.
CurrentUnchecked(e) == form[e].on \in 1 .. Latest

\* create_draft_from_latest: the base of the edit is still the latest version.
Current(e) == form[e].on = Latest

\* The five updates of the configuration, and that of the presentation: a draft
\* with one field of the version that was shown replaced.
Edited(base) == [base EXCEPT !.state = "DRAFT", !.by = "console", !.edits = @ \cup {Latest + 1}]

\* create_presentation_draft, and _save of the configuration.
SaveEdit(e) ==
  /\ form[e].at = "editing"
  /\ Answers(e)
  /\ IF Current(e)
       THEN /\ Latest < MaxAgents
            /\ agent' = Append(agent, Edited(agent[form[e].on]))
       ELSE UNCHANGED agent
  /\ UNCHANGED <<decision, deployment>>

--------------------------------------------------------------------------------
\* Test and the quality gate.

\* has_deployable_knowledge_binding: the exact digest, past Draft.
Deployable(v) ==
  /\ agent[v].knowledge \in DOMAIN version
  /\ version[agent[v].knowledge].state = "TEST"
  /\ version[agent[v].knowledge].digest = agent[v].digest

Moves(v, from, to) ==
  /\ agent[v].state = from
  /\ agent' = [agent EXCEPT ![v].state = to]

\* compile: the digest is that of a document with the version's id, so it
\* stands for the version itself.
Compiled(v) == v

\* promote_to_test: the version is compiled, unless it is not valid.
PromoteAgent(v) ==
  /\ Deployable(v)
  /\ Moves(v, "DRAFT", "TEST")
  /\ UNCHANGED <<decision, deployment, form>>

EnterQualityGate(v) ==
  /\ Moves(v, "TEST", "QUALITY_GATE")
  /\ UNCHANGED <<decision, deployment, form>>

\* ProductionEvalRunner.run: a compiled version whose knowledge is deployable;
\* it passes if every required suite ran without a failure or a blocker.
Candidate(v) == agent[v].state # "DRAFT" /\ Deployable(v)

BeginEvaluation(e, v) ==
  /\ form[e] = NoForm
  /\ Candidate(v)
  /\ After(decision, {"judging"}) <= MaxDecisions
  /\ \E passed \in BOOLEAN :
       Submits(e, [NoForm EXCEPT !.at = "judging", !.on = v, !.passed = passed,
                                 !.stamp = After(decision, {"judging"})])
  /\ UNCHANGED <<agent, decision, deployment>>

CommitEvaluation(e) ==
  /\ form[e].at = "judging"
  /\ decision' = Append(decision, [agent |-> Compiled(form[e].on), digest |-> agent[form[e].on].digest,
                                   code |-> agent[form[e].on].code,
                                   passed |-> form[e].passed, stamp |-> form[e].stamp])
  /\ Answers(e)
  /\ UNCHANGED <<agent, deployment>>

--------------------------------------------------------------------------------
\* Publication.

\* The decisions about the exact digests of a version.
About(v) == {d \in DOMAIN decision :
  /\ decision[d].agent = Compiled(v)
  /\ decision[d].digest = agent[v].digest
  /\ decision[d].code = agent[v].code}

\* Mutation: any decision that passed will do, as it does for the knowledge.
VerdictAny(v) ==
  LET passed == {d \in About(v) : decision[d].passed}
  IN  IF passed = {} THEN 0 ELSE CHOOSE d \in passed : TRUE

\* PersistedProductionQualityGate.evaluate: the last decision by decided_at, if
\* it passed.
Verdict(v) ==
  LET last == {d \in About(v) : \A o \in About(v) : decision[o].stamp <= decision[d].stamp}
      passed == {d \in last : decision[d].passed}
  IN  IF passed = {} THEN 0 ELSE CHOOSE d \in passed : TRUE

\* active_version_id.
Active ==
  LET last == {k \in DOMAIN deployment :
                 \A o \in DOMAIN deployment : deployment[o].stamp <= deployment[k].stamp}
  IN  IF last = {} THEN 0 ELSE deployment[CHOOSE k \in last : TRUE].agent

\* publish_production: the gate is asked, then the time is taken.
BeginPublish(e, v) ==
  /\ form[e] = NoForm
  /\ agent[v].state = "QUALITY_GATE"
  /\ Verdict(v) # 0
  /\ After(deployment, Deploying) <= MaxDeployments
  /\ Submits(e, [NoForm EXCEPT !.at = "publishing", !.on = v, !.stamp = After(deployment, Deploying),
                               !.verdict = Verdict(v), !.known = Len(decision),
                               !.active = Active])
  /\ UNCHANGED <<agent, decision, deployment>>

\* original_deployment.
Original(v) == {k \in DOMAIN deployment : deployment[k].agent = v /\ deployment[k].action = "PUBLISH"}

\* rollback_to: a version that was published, for the code that runs.
BeginRollback(e, v, code) ==
  /\ form[e] = NoForm
  /\ agent[v].state = "PRODUCTION"
  /\ agent[v].code = code
  /\ After(deployment, Deploying) <= MaxDeployments
  /\ \E k \in Original(v) :
       Submits(e, [NoForm EXCEPT !.at = "rolling_back", !.on = v, !.stamp = After(deployment, Deploying),
                                 !.verdict = deployment[k].verdict, !.active = Active])
  /\ UNCHANGED <<agent, decision, deployment>>

\* append_deployment: the version said to be replaced was active when it was
\* read, some time between the two steps.
Deploys(e, action) ==
  /\ \E replaced \in {form[e].active, Active} :
       deployment' = Append(deployment,
         [agent |-> form[e].on, action |-> action, replaced |-> replaced,
          verdict |-> form[e].verdict, known |-> form[e].known, stamp |-> form[e].stamp])
  /\ Answers(e)

CommitPublish(e) ==
  /\ form[e].at = "publishing"
  /\ Moves(form[e].on, "QUALITY_GATE", "PRODUCTION")
  /\ Deploys(e, "PUBLISH")
  /\ UNCHANGED decision

CommitRollback(e) ==
  /\ form[e].at = "rolling_back"
  /\ Deploys(e, "ROLLBACK")
  /\ UNCHANGED <<agent, decision>>

\* Any request may end in an error, which takes back what it did.
Refuse(e) ==
  /\ form[e] # NoForm
  /\ Answers(e)
  /\ UNCHANGED <<agent, decision, deployment>>

--------------------------------------------------------------------------------
\* The knowledge's own way to Production.

\* PersistedKnowledgeQualityGate: an agent bound to the digest passed once.
KnowledgeGate(n) ==
  \E d \in DOMAIN decision :
    /\ decision[d].passed
    /\ decision[d].digest = version[n].digest
    /\ agent[decision[d].agent].state \in {"QUALITY_GATE", "PRODUCTION"}

\* publish_production of the knowledge service.  The trigger on
\* knowledge_versions lets a version leave Draft for Test and nothing else, so
\* the update is always refused.
PublishKnowledge(n) ==
  /\ version[n].state = "TEST"
  /\ KnowledgeGate(n)
  /\ refused' = refused \cup {n}
  /\ UNCHANGED <<ingestion, proposal, sourceVersions, draftOf, artifact, version, embedding,
                 chunk, desk>>

PublicationNext ==
  \/ CreateCustomerServiceDraft
  \/ \E n \in DOMAIN version, code \in Builds : CreateInstance(n, code)
  \/ \E base \in DOMAIN agent, n \in {0} \cup DOMAIN version, code \in Builds :
       CreateDraft(base, n, code)
  \/ \E e \in Editors : OpenEditor(e)
  \/ \E e \in Editors : SaveEdit(e)
  \/ \E v \in DOMAIN agent : PromoteAgent(v)
  \/ \E v \in DOMAIN agent : EnterQualityGate(v)
  \/ \E e \in Editors, v \in DOMAIN agent : BeginEvaluation(e, v)
  \/ \E e \in Editors : CommitEvaluation(e)
  \/ \E e \in Editors, v \in DOMAIN agent : BeginPublish(e, v)
  \/ \E e \in Editors : CommitPublish(e)
  \/ \E e \in Editors, v \in DOMAIN agent, code \in Builds : BeginRollback(e, v, code)
  \/ \E e \in Editors : CommitRollback(e)
  \/ \E e \in Editors : Refuse(e)

\* The knowledge is read by the agent's requests; only its own change it.
ReleaseNext ==
  \/ PublicationNext /\ UNCHANGED knowledgeVars
  \/ KnowledgeNext /\ UNCHANGED publicationVars
  \/ \E n \in DOMAIN version : PublishKnowledge(n) /\ UNCHANGED publicationVars

ReleaseSpec == KnowledgeInit /\ PublicationInit
               /\ [][ReleaseNext]_<<knowledgeVars, publicationVars>>

--------------------------------------------------------------------------------
\* Properties.

\* The shape of the tables and of the open requests.
PublicationTypeOK ==
  /\ Latest <= MaxAgents
  /\ \A v \in DOMAIN agent :
       /\ agent[v].state \in {"DRAFT", "TEST", "QUALITY_GATE", "PRODUCTION"}
       /\ agent[v].knowledge \in 0 .. MaxVersions
       /\ agent[v].code \in Builds \cup {NoBuild}
       /\ agent[v].edits \subseteq 1 .. v
       /\ agent[v].by \in {"api", "console"}
  /\ \A d \in DOMAIN decision : decision[d].agent \in DOMAIN agent
  /\ \A k \in DOMAIN deployment :
       /\ deployment[k].agent \in DOMAIN agent
       /\ deployment[k].replaced \in 0 .. Latest
       /\ deployment[k].verdict \in DOMAIN decision
  /\ \A e \in Editors : form[e].on \in 0 .. Latest

\* Two administrators edit the agent in the console, each from the version shown
\* to them: no edit that was saved is missing from a version saved later, unless
\* a draft that was not made in the console came between them.
EditsKept ==
  \A old, new \in DOMAIN agent :
    /\ old < new
    /\ \A v \in old .. new : agent[v].by = "console"
    => old \in agent[new].edits /\ agent[old].edits \subseteq agent[new].edits

\* What serves was published once, on a decision that passed for exactly its
\* configuration, knowledge and code and was not overruled by a later decision
\* taken before the publication; and its knowledge is in Test with that digest.
ServedIsGated ==
  \A k \in DOMAIN deployment :
    LET v == deployment[k].agent
        d == deployment[k].verdict
    IN
    /\ agent[v].state = "PRODUCTION"
    /\ Deployable(v)
    /\ d \in About(v) /\ decision[d].passed
    /\ Cardinality(Original(v)) = 1
    /\ deployment[k].action = "PUBLISH" =>
         \A o \in About(v) : o <= deployment[k].known => decision[o].stamp <= decision[d].stamp
==============================================================================
