--------------------------- MODULE MCConversation ---------------------------
(* A conversation of a few rows on either CLI, whose window is one step.   *)
EXTENDS Conversation
=============================================================================
