--------------------------- MODULE MCConversation ---------------------------
(* A small instance of Conversation for TLC. *)
EXTENDS Conversation
=============================================================================
