-------------------------- MODULE TakeoverContract --------------------------
(***************************************************************************)
(* What the messaging pipeline promises a customer: every message is       *)
(* attempted at most once; a reply of the AI only in the very session of   *)
(* the conversation it was composed in; the receipt of a handoff request   *)
(* only while that request waits for a human.                              *)
(***************************************************************************)
EXTENDS Integers

CONSTANTS Replies, Receipts

VARIABLES
  mode,      \* who has the conversation
  session,   \* counts the changes of mode
  waiting,   \* the receipts whose request still waits
  basis,     \* the session a reply is composed in, 0 before
  sent       \* the messages the provider was asked to send

vars == <<mode, session, waiting, basis, sent>>

Init ==
  /\ mode = "AI_ACTIVE"
  /\ session = 1
  /\ waiting = {}
  /\ basis = [r \in Replies |-> 0]
  /\ sent = {}

\* Control passes from one party to the next.
Switch ==
  /\ mode' # mode
  /\ session' = session + 1
  /\ waiting' \subseteq Receipts
  /\ UNCHANGED <<basis, sent>>

Compose(r) ==
  /\ mode = "AI_ACTIVE"
  /\ r \notin sent
  /\ basis' = [basis EXCEPT ![r] = session]
  /\ UNCHANGED <<mode, session, waiting, sent>>

\* A reply that is not used.
Discard(r) ==
  /\ r \notin sent
  /\ basis' = [basis EXCEPT ![r] = 0]
  /\ UNCHANGED <<mode, session, waiting, sent>>

SendReply(r) ==
  /\ mode = "AI_ACTIVE"
  /\ basis[r] = session
  /\ r \notin sent
  /\ sent' = sent \cup {r}
  /\ UNCHANGED <<mode, session, waiting, basis>>

SendReceipt(h) ==
  /\ mode = "AWAITING_HUMAN"
  /\ h \in waiting
  /\ h \notin sent
  /\ sent' = sent \cup {h}
  /\ UNCHANGED <<mode, session, waiting, basis>>

Next ==
  \/ Switch
  \/ \E r \in Replies : Compose(r) \/ Discard(r) \/ SendReply(r)
  \/ \E h \in Receipts : SendReceipt(h)

Spec == Init /\ [][Next]_vars
=============================================================================
