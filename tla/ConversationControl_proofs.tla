---------------------- MODULE ConversationControl_proofs ----------------------
(***************************************************************************)
(* What ConversationControl guarantees for any number of handoffs,         *)
(* concurrent requests, human events and configuration revisions.          *)
(***************************************************************************)
EXTENDS ConversationControl, TLAPS

\* A request that is still under the current revision was admitted while live
\* handoff was enabled: disabling it takes a new revision.
AdmittedUnderRevision ==
  \A r \in Requesters :
    /\ request[r] <= revision
    /\ request[r] > 0 /\ request[r] = revision => enabled

\* ControlMatchesHandoff is inductive with the types alone; the guards on the
\* control state then decide which handoffs a transaction can find.
ControlInv == ControlTypeOK /\ ControlMatchesHandoff /\ AdmittedUnderRevision

\* A conversation starts with the AI, without a handoff and without a request.
LEMMA InitEstablishes == ControlInit => ControlInv
<1> SUFFICES ASSUME ControlInit PROVE ControlInv
  OBVIOUS
<1> USE DEF ControlInit
<1>1. ControlTypeOK
  <2>1. control \in ControlStates /\ version \in Nat \ {0}
    BY DEF ControlStates
  <2>2. revision \in 0..MaxRevision /\ request \in [Requesters -> 0..MaxRevision]
    BY ControlAssumption
  <2>3. sequence \in [Handoffs -> Int]
    OBVIOUS
  <2>4. enabled \in BOOLEAN
    OBVIOUS
  <2> QED BY <2>1, <2>2, <2>3, <2>4 DEF ControlTypeOK
<1>2. ControlMatchesHandoff
  BY DEF ControlMatchesHandoff, Live
<1>3. AdmittedUnderRevision
  BY DEF AdmittedUnderRevision
<1> QED BY <1>1, <1>2, <1>3 DEF ControlInv

\* The transition function changes the control state and its version only.
LEMMA TransitionTypes ==
  ASSUME ControlTypeOK, NEW target \in ControlStates, NEW rows, Transition(target, rows)
  PROVE  /\ control' = target
         /\ control' \in ControlStates
         /\ version' \in Nat \ {0}
BY DEF ControlTypeOK, Transition

\* The types, and what requests remember, survive every transaction.
LEMMA StepKeepsTypes ==
  ControlInv /\ [ControlNext]_controlVars => ControlTypeOK' /\ AdmittedUnderRevision'
<1> SUFFICES ASSUME ControlInv, [ControlNext]_controlVars
             PROVE  ControlTypeOK' /\ AdmittedUnderRevision'
  OBVIOUS
<1> USE ControlAssumption DEF ControlInv, ControlTypeOK, AdmittedUnderRevision
<1>1. ASSUME NEW on \in BOOLEAN, Configure(on)
      PROVE  ControlTypeOK' /\ AdmittedUnderRevision'
  BY <1>1 DEF Configure, conversationVars, handoffVars
<1>2. ASSUME NEW r \in Requesters, BeginRequest(r) \/ EndRequest(r)
      PROVE  ControlTypeOK' /\ AdmittedUnderRevision'
  BY <1>2 DEF BeginRequest, EndRequest, conversationVars, handoffVars, configVars
<1>3. ASSUME NEW r \in Requesters, NEW h \in Handoffs, AdmitRequest(r, h)
      PROVE  ControlTypeOK' /\ AdmittedUnderRevision'
  <2>1. control' \in ControlStates /\ version' \in Nat \ {0}
    BY <1>3, TransitionTypes DEF AdmitRequest, ControlStates
  <2> QED BY <1>3, <2>1 DEF AdmitRequest, configVars
<1>4. ASSUME NEW h \in Handoffs, NEW kind \in HumanEvents, NEW n \in 0..MaxSequence,
             HumanEvent(h, kind, n)
      PROVE  ControlTypeOK' /\ AdmittedUnderRevision'
  <2>1. control' \in ControlStates /\ version' \in Nat \ {0}
    BY <1>4, TransitionTypes DEF HumanEvent, ControlStates, conversationVars
  <2>2. quiet' \in [Handoffs -> BOOLEAN]
    BY <1>4 DEF HumanEvent
  <2>3. handoff' \in [Handoffs -> {"none", "REQUESTED", "ACTIVE", "CLOSED"}]
    BY <1>4 DEF HumanEvent
  <2>4. sequence' \in [Handoffs -> Int]
    BY <1>4 DEF HumanEvent
  <2> QED BY <1>4, <2>1, <2>2, <2>3, <2>4 DEF HumanEvent, configVars
<1>5. ASSUME NEW h \in Handoffs, FallQuiet(h) \/ ScheduleInactivity(h)
      PROVE  ControlTypeOK' /\ AdmittedUnderRevision'
  BY <1>5 DEF FallQuiet, ScheduleInactivity, conversationVars, handoffVars, configVars
<1>6. ASSUME NEW h \in Handoffs, CloseIfInactive(h)
      PROVE  ControlTypeOK' /\ AdmittedUnderRevision'
  <2>1. control' \in ControlStates /\ version' \in Nat \ {0}
    BY <1>6, TransitionTypes DEF CloseIfInactive, ControlStates, conversationVars
  <2> QED BY <1>6, <2>1 DEF CloseIfInactive, configVars
<1>7. CASE InboundArrives
  <2>1. control' \in ControlStates /\ version' \in Nat \ {0}
    BY <1>7, TransitionTypes DEF InboundArrives, ControlStates, conversationVars
  <2> QED BY <1>7, <2>1 DEF InboundArrives, configVars
<1>8. CASE UNCHANGED controlVars
  BY <1>8 DEF controlVars, conversationVars, handoffVars, configVars
<1> QED
  BY <1>1, <1>2, <1>3, <1>4, <1>5, <1>6, <1>7, <1>8 DEF ControlNext, HandoffStep

\* Only three transactions write a handoff's status, and each writes the
\* control state with it.
LEMMA StepKeepsMatch ==
  ControlInv /\ [ControlNext]_controlVars => ControlMatchesHandoff'
<1> SUFFICES ASSUME ControlInv, [ControlNext]_controlVars
             PROVE  ControlMatchesHandoff'
  OBVIOUS
<1> USE DEF ControlInv, ControlTypeOK, ControlMatchesHandoff, Live
<1>1. ASSUME NEW r \in Requesters, NEW h \in Handoffs, AdmitRequest(r, h)
      PROVE  ControlMatchesHandoff'
  <2>1. \A i \in Handoffs : handoff[i] \notin {"REQUESTED", "ACTIVE"}
    BY <1>1 DEF AdmitRequest, MayAdmit
  <2>2. \A i \in Handoffs : handoff'[i] = IF i = h THEN "REQUESTED" ELSE handoff[i]
    BY <1>1 DEF AdmitRequest
  <2>3. control' = "AWAITING_HUMAN"
    BY <1>1 DEF AdmitRequest, Transition
  <2> QED BY <2>1, <2>2, <2>3
<1>2. ASSUME NEW h \in Handoffs, NEW kind \in HumanEvents, NEW n \in 0..MaxSequence,
             HumanEvent(h, kind, n)
      PROVE  ControlMatchesHandoff'
  <2>1. \A i \in Handoffs \ {h} : handoff[i] \notin {"REQUESTED", "ACTIVE"}
    BY <1>2 DEF HumanEvent, Applies
  <2>2. \A i \in Handoffs :
          handoff'[i] = IF i = h THEN (IF kind = "END" THEN "CLOSED" ELSE "ACTIVE")
                                 ELSE handoff[i]
    BY <1>2 DEF HumanEvent
  <2>3. control' = IF kind = "END" THEN "CLOSED" ELSE "HUMAN_ACTIVE"
    BY <1>2 DEF HumanEvent, Applies, Transition, conversationVars
  <2> QED BY <2>1, <2>2, <2>3
<1>3. ASSUME NEW h \in Handoffs, CloseIfInactive(h)
      PROVE  ControlMatchesHandoff'
  <2>1. CASE h \in Live /\ quiet[h]
    <3>1. \A i \in Handoffs \ {h} : handoff[i] \notin {"REQUESTED", "ACTIVE"}
      BY <2>1
    <3>2. \A i \in Handoffs : handoff'[i] = IF i = h THEN "CLOSED" ELSE handoff[i]
      BY <1>3, <2>1 DEF CloseIfInactive
    <3>3. control' = "CLOSED"
      BY <1>3, <2>1 DEF CloseIfInactive, Transition
    <3> QED BY <3>1, <3>2, <3>3
  <2>2. CASE ~(h \in Live /\ quiet[h])
    BY <1>3, <2>2 DEF CloseIfInactive, conversationVars
  <2> QED BY <2>1, <2>2
<1>4. CASE InboundArrives
  BY <1>4 DEF InboundArrives, Transition, conversationVars
<1>5. ASSUME UNCHANGED <<conversationVars, handoff>>
      PROVE  ControlMatchesHandoff'
  BY <1>5 DEF conversationVars
<1> QED
  BY <1>1, <1>2, <1>3, <1>4, <1>5
  DEF ControlNext, HandoffStep, Configure, BeginRequest, EndRequest, FallQuiet,
      ScheduleInactivity, controlVars, handoffVars, conversationVars

\* The inductive invariant of the conversation's control.
THEOREM ControlInvariant == ControlSpec => []ControlInv
<1>1. ControlInv /\ [ControlNext]_controlVars => ControlInv'
  BY StepKeepsTypes, StepKeepsMatch DEF ControlInv
<1> QED BY InitEstablishes, <1>1, PTL DEF ControlSpec

\* HandoffService, the transition function and the inactivity job together keep
\* conversations and handoffs in agreement, for any number of handoffs and
\* requests: handoffs_one_live and the trigger never reject their transactions.
THEOREM ControlMatchesHandoffHolds == ControlSpec => []ControlMatchesHandoff
BY ControlInvariant, PTL DEF ControlInv

\* Every transaction leaves a closed handoff closed and an active one active or
\* closed, and moves event_sequence forward only (handle_event's guards).
THEOREM HandoffNeverRevivedHolds == ControlSpec => HandoffNeverRevived
<1> DEFINE A == \A h \in Handoffs :
             /\ handoff[h] = "CLOSED" => handoff'[h] = "CLOSED"
             /\ handoff[h] = "ACTIVE" => handoff'[h] \in {"ACTIVE", "CLOSED"}
             /\ sequence'[h] >= sequence[h]
<1>1. ControlInv /\ [ControlNext]_controlVars => [A]_controlVars
  <2> SUFFICES ASSUME ControlInv, ControlNext PROVE A
    OBVIOUS
  <2> USE DEF ControlInv, ControlTypeOK, Live
  <2>1. ASSUME NEW r \in Requesters, NEW h \in Handoffs, AdmitRequest(r, h)
        PROVE  A
    BY <2>1 DEF AdmitRequest
  <2>2. ASSUME NEW h \in Handoffs, NEW kind \in HumanEvents, NEW n \in 0..MaxSequence,
               HumanEvent(h, kind, n)
        PROVE  A
    BY <2>2, ControlAssumption DEF HumanEvent, Applies
  <2>3. ASSUME NEW h \in Handoffs, CloseIfInactive(h)
        PROVE  A
    BY <2>3 DEF CloseIfInactive
  <2>4. ASSUME UNCHANGED <<handoff, sequence>>
        PROVE  A
    BY <2>4
  <2> QED
    BY <2>1, <2>2, <2>3, <2>4
    DEF ControlNext, HandoffStep, Configure, BeginRequest, EndRequest, FallQuiet,
        ScheduleInactivity, InboundArrives, handoffVars
<1> QED BY ControlInvariant, <1>1, PTL DEF HandoffNeverRevived, ControlSpec

\* The revision that HandoffService.request compares under the locks is enough:
\* no handoff is written while the current configuration disables it.
THEOREM DisabledAdmitsNoHandoffHolds == ControlSpec => DisabledAdmitsNoHandoff
<1> DEFINE A == \A h \in Handoffs : handoff[h] = "none" /\ handoff'[h] # "none" => enabled
<1>1. ControlInv /\ [ControlNext]_controlVars => [A]_controlVars
  <2> SUFFICES ASSUME ControlInv, ControlNext,
                      NEW h \in Handoffs, handoff[h] = "none", handoff'[h] # "none"
               PROVE  enabled
    OBVIOUS
  <2> USE DEF ControlInv, ControlTypeOK, Live
  <2>1. ASSUME NEW r \in Requesters, NEW i \in Handoffs, AdmitRequest(r, i)
        PROVE  enabled
    BY <2>1 DEF AdmitRequest, MayAdmit, AdmittedUnderRevision
  <2>2. ASSUME NEW i \in Handoffs, NEW kind \in HumanEvents, NEW n \in 0..MaxSequence
        PROVE  ~HumanEvent(i, kind, n)
    BY DEF HumanEvent, Applies
  <2>3. ASSUME NEW i \in Handoffs
        PROVE  ~CloseIfInactive(i)
    BY DEF CloseIfInactive
  <2> QED
    BY <2>1, <2>2, <2>3
    DEF ControlNext, HandoffStep, Configure, BeginRequest, EndRequest, FallQuiet,
        ScheduleInactivity, InboundArrives, handoffVars
<1> QED BY ControlInvariant, <1>1, PTL DEF DisabledAdmitsNoHandoff, ControlSpec
=============================================================================
