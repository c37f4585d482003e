--------------------------- MODULE MCConversations ---------------------------
(***************************************************************************)
(* Conversations for TLC: two windows on one conversation.                 *)
(***************************************************************************)
EXTENDS Conversations, TLC

CONSTANTS s1, s2, product, customer
=============================================================================
