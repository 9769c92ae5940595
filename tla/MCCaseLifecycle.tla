--------------------------- MODULE MCCaseLifecycle ---------------------------
(* Instances of CaseLifecycle for TLC.                                      *)
EXTENDS CaseLifecycle

CONSTANTS m1, m2, r1, officer
=============================================================================
