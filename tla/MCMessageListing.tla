-------------------------- MODULE MCMessageListing --------------------------
(***************************************************************************)
(* Instances of MessageListing for TLC.                                    *)
(***************************************************************************)
EXTENDS MessageListing, TLC

CONSTANTS MaxBatch, MaxIds       \* bounds on the lists a request carries

ListsUpTo(n) == UNION {[1..k -> MessageIds] : k \in 1..n}

MCBatchSizes == 1..MaxBatch
MCIdLists    == ListsUpTo(MaxIds)
MCFewLists   == {ids \in MCIdLists : Len(ids) > 1 => ids[1] # ids[2]}
MCPageSizes  == 0..3             \* the default and the sizes on both sides of the maximum
AllFilters   == SUBSET MessageIds \ {{}}
NoFilter     == {MessageIds}

Symmetry == Permutations(Clients) \cup Permutations(MessageIds)
              \cup Permutations(SnapshotIds)

=============================================================================
