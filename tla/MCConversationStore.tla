------------------------- MODULE MCConversationStore -------------------------
(***************************************************************************)
(* Instances of ConversationStore, and of its inductive invariant, for     *)
(* TLC.                                                                    *)
(***************************************************************************)
EXTENDS ConversationStoreInv, TLC

CONSTANTS MaxBatch, MaxIds       \* bounds on the lists a request carries

ListsUpTo(n) == UNION {[1..k -> MessageIds] : k \in 1..n}

MCBatchSizes == 1..MaxBatch
MCIdLists    == ListsUpTo(MaxIds)
\* One list for every range operation: which message it names makes no difference
\* to the locks it takes and waits for.
MCOneList    == {<<CHOOSE m \in MessageIds : TRUE>>}

Symmetry == Permutations(Clients) \cup Permutations(MessageIds)
              \cup Permutations(ConversationIds) \cup Permutations(SnapshotIds)

=============================================================================
