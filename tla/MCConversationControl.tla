----------------------- MODULE MCConversationControl -----------------------
(* Instances of ConversationControl for TLC.                               *)
EXTENDS ConversationControl

CONSTANTS h1, h2, r1, r2
=============================================================================
