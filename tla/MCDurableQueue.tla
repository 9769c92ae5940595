--------------------------- MODULE MCDurableQueue ---------------------------
(* Instances of DurableQueue for TLC.                                      *)
EXTENDS DurableQueue, TLC

CONSTANTS j1, j2, d1, d2, w1, w2, c1

OneJob == {j1}
TwoJobs == {j1, j2}
OneConversation == [j \in Jobs |-> c1]
NoJobs == {}

AllFaults == FaultKinds
ReconciledFaults == {"enqueue_error", "dispatcher_crash", "shutdown"}
NoFaults == {}
DeferralFault == {"deferral"}

PoolSymmetry == Permutations({w1, w2}) \cup Permutations({d1, d2})
=============================================================================
