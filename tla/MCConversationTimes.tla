------------------------- MODULE MCConversationTimes -------------------------
(***************************************************************************)
(* Instances of ConversationTimes for TLC.                                 *)
(***************************************************************************)
EXTENDS MCConversationStore, ConversationTimes

=============================================================================
