------------------------------ MODULE Onboarding ------------------------------
(***************************************************************************)
(* The twelve steps of onboarding that the console shows for a tenant.     *)
(* Nothing is stored: each status is computed from the tables of the       *)
(* knowledge, the agent and the connection, and from what is settled       *)
(* elsewhere.                                                              *)
(***************************************************************************)
EXTENDS Publication, Connections

Steps == <<"company", "agent", "capabilities", "integrations", "knowledge", "policies", "human",
           "routes", "whatsapp", "test", "quality", "production">>

\* What administrators settle in tables that are not modelled here; the last is
\* settled when no operation that is enabled needs a connector.
Settings == {"company", "capabilities", "policies", "human", "routes", "whatsapp", "no_connector"}

\* pending_knowledge_reviews: proposals, conflicts, and the differences of the
\* source.  A conflict is resolved by the review that records it; a difference
\* has a draft, and is DETECTED ever after.
PendingReviews ==
  \/ \E p \in Parts : proposal[p].state = "PROPOSED"
  \/ \E i \in Ingestions : draftOf[i] # 0

\* has_tested_version.
Tested == \E v \in DOMAIN agent : agent[v].state # "DRAFT"

\* quality_gate_passed: any decision that passed for the digests, though the
\* gate itself asks the last one.
Passed == agent[Latest].state # "DRAFT" /\ \E d \in About(Latest) : decision[d].passed

\* _facts, and what evaluate asks of them at each step.
Met(step, settled) ==
  CASE step = "agent" -> Latest > 0
    [] step = "integrations" -> \/ "no_connector" \in settled
                                \/ connection.status = "CONNECTED" /\ connection.health = "HEALTHY"
    [] step = "knowledge" -> Deployable(Latest) /\ ~PendingReviews
    [] step = "test" -> agent[Latest].state # "DRAFT"
    [] step = "quality" -> Passed
    [] step = "production" -> agent[Latest].state = "PRODUCTION"
    [] OTHER -> step \in settled

\* A step that is not met: something is wrong, the tested version is not the
\* latest any more, or it is next to do.
Unmet(step) ==
  CASE step \in {"integrations", "knowledge", "human", "routes", "whatsapp"} -> "ATTENTION"
    [] step = "test" /\ Tested -> "STALE"
    [] OTHER -> "READY"

\* OnboardingStatusEngine.evaluate: a step waits for all those before it.
Status(k, settled) ==
  IF \E j \in 1 .. k - 1 : ~Met(Steps[j], settled) THEN "BLOCKED"
  ELSE IF Met(Steps[k], settled) THEN "COMPLETE" ELSE Unmet(Steps[k])

\* current_step_slug: the first step that is not complete.
CurrentStep(status) ==
  LET open == {k \in DOMAIN Steps : status[k] # "COMPLETE"}
  IN  IF open = {} THEN Len(Steps) ELSE CHOOSE k \in open : \A j \in open : k <= j

\* Once the rest is settled, with or without a connector, and whatever is
\* published, rolled back or edited meanwhile: the console sends an
\* administrator to a step that can be worked on, calls the test stale only if
\* it was an older version that was tested, and calls Production complete only
\* for a version that was published on a decision that passed and that still has
\* the knowledge it was tested with.
ConsoleTruthful ==
  \A settled \in {Settings, Settings \ {"no_connector"}} :
    LET status == [k \in DOMAIN Steps |-> Status(k, settled)] IN
    /\ status[CurrentStep(status)] # "BLOCKED"
    /\ status[10] = "STALE" => agent[Latest].state = "DRAFT" /\ Latest > 1
    /\ status[12] = "COMPLETE" => Original(Latest) # {} /\ Deployable(Latest) /\ Passed

\* What serves was judged, and the console says so.
ReleasesSafe == ServedIsGated /\ ConsoleTruthful
==============================================================================
