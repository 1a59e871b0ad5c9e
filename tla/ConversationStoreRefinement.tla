--------------------- MODULE ConversationStoreRefinement ---------------------
(***************************************************************************)
(* The transactions of ConversationStore implement the indivisible         *)
(* operations of ConversationLog.  The list of a conversation is what      *)
(* ORDER BY position shows of its committed rows; a commit is the moment   *)
(* an operation takes effect.  The copies of a snapshot are made when its  *)
(* messages are loaded; every other step is a stutter.                     *)
(***************************************************************************)
EXTENDS ConversationStore

CONSTANT Batches      \* the lists of new messages an append may bring

\* An append may bring any messages, as many as a request carries.
ASSUME RefinementAssumption ==
  \A n \in BatchSizes : [1..n -> MessageIds] \subseteq Batches

\* What a transaction has loaded for the snapshot it has not committed yet.
Draft(c) ==
  IF req[c].op = "snapshot" /\ pc[c] \in {"insert_snapshot", "commit"}
  THEN [conversation |-> Conv(c), items |-> req[c].ids]
  ELSE [conversation |-> NoId, items |-> <<>>]

Log == INSTANCE ConversationLog WITH
         log   <- [cv \in ConversationIds |-> OrderBy(conversation_items[cv])],
         live  <- messages,
         count <- message_count,
         edits <- version,
         drafts <- [c \in Clients |-> Draft(c)]

\* Callers see each operation happen at once and in full, on the list as it is
\* at that moment: what a range operation read and checked under the row lock
\* is still what it overwrites when it commits, however it is interleaved with
\* appends, snapshots and other range operations.  A snapshot holds exactly the
\* messages asked for, which were all there, undeleted, at one moment of its call.
ImplementsLog == Log!Spec

=============================================================================
