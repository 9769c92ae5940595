------------------------- MODULE MCMessagePipeline -------------------------
(* Instances of MessagePipeline for TLC.                                   *)
EXTENDS MessagePipeline

CONSTANTS e1, e2, h1, admin
=============================================================================
