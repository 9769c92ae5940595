-------------------------- MODULE MCActionApproval --------------------------
(* Instances of ActionApproval for TLC.                                    *)
EXTENDS ActionApproval

CONSTANTS a1, w1, w2, open, closed
=============================================================================
