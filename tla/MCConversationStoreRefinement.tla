-------------------- MODULE MCConversationStoreRefinement --------------------
(***************************************************************************)
(* Instances of ConversationStore and of its refinement for TLC.           *)
(***************************************************************************)
EXTENDS MCConversationStore, ConversationStoreRefinement

MCBatches == ListsUpTo(MaxBatch)

=============================================================================
