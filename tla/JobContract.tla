----------------------------- MODULE JobContract -----------------------------
(***************************************************************************)
(* What the durable queue promises about a job, with no dispatcher, broker *)
(* or worker in sight: one run at a time, a bounded number of charged runs *)
(* between two interventions of the operator, and no run once it is done.  *)
(***************************************************************************)
EXTENDS Integers

CONSTANTS Jobs, DefaultMaxAttempts

VARIABLES
  phase,     \* absent, waiting, running, done or dead
  charged,   \* the runs charged against the budget
  limit      \* the budget

vars == <<phase, charged, limit>>

Init ==
  /\ phase = [j \in Jobs |-> "absent"]
  /\ charged = [j \in Jobs |-> 0]
  /\ limit = [j \in Jobs |-> DefaultMaxAttempts]

Move(j, from, to) == phase[j] = from /\ phase' = [phase EXCEPT ![j] = to]

Accept(j) == Move(j, "absent", "waiting") /\ UNCHANGED <<charged, limit>>

Begin(j) ==
  /\ charged[j] < limit[j]
  /\ Move(j, "waiting", "running")
  /\ charged' = [charged EXCEPT ![j] = @ + 1]
  /\ UNCHANGED limit

Complete(j) == Move(j, "running", "done") /\ UNCHANGED <<charged, limit>>

\* A failed run leaves a budget for another one, or the job is dead.
Retry(j) ==
  /\ charged[j] < limit[j]
  /\ Move(j, "running", "waiting")
  /\ UNCHANGED <<charged, limit>>

Bury(j) == Move(j, "running", "dead") /\ UNCHANGED <<charged, limit>>

\* A run that did no work is given back.
Defer(j) ==
  /\ Move(j, "running", "waiting")
  /\ charged' = [charged EXCEPT ![j] = @ - 1]
  /\ UNCHANGED limit

\* The operator grants at least one more run, and never takes budget away.
Reopen(j) ==
  /\ Move(j, "dead", "waiting")
  /\ limit' = [limit EXCEPT ![j] = limit'[j]]
  /\ limit'[j] >= limit[j]
  /\ limit'[j] > charged[j]
  /\ UNCHANGED charged

Next ==
  \E j \in Jobs :
    \/ Accept(j) \/ Begin(j) \/ Complete(j) \/ Retry(j)
    \/ Bury(j) \/ Defer(j) \/ Reopen(j)

Spec == Init /\ [][Next]_vars
=============================================================================
