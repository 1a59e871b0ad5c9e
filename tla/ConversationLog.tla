--------------------------- MODULE ConversationLog ---------------------------
(***************************************************************************)
(* What the Store promises its callers: a conversation is a list of        *)
(* distinct messages, and every operation takes effect on it in one        *)
(* indivisible step, or not at all.  ConversationStore is shown to         *)
(* implement this module (ConversationStoreRefinement).                    *)
(*                                                                         *)
(* Two freedoms are deliberate, because the code takes them.  The messages *)
(* of concurrent appends interleave: an append keeps the order of its own  *)
(* batch and of the messages already listed, but may place a message       *)
(* before one that another append committed first.  And a snapshot has two *)
(* moments: the messages, all of them alive then, are copied in one, and   *)
(* the snapshot of the copies appears in the other, when some of the       *)
(* messages may have been deleted.                                         *)
(***************************************************************************)
EXTENDS RangeOps

CONSTANTS
  Clients, ConversationIds, MessageIds, SnapshotIds,
  Batches,      \* the lists of new messages an append may bring
  IdLists       \* the lists of messages a range operation or snapshot may name

VARIABLES
  conversations,   \* the conversations that exist
  log,             \* log[cv]: the messages of cv, in order
  live,            \* live[cv]: the messages of cv not deleted, listed or not
  count,           \* count[cv]: the count that is answered
  edits,           \* edits[cv]: how many operations have changed cv
  snapshots,
  origin,          \* the conversation a message was appended to, for ever
  drafts           \* drafts[c]: what client c has copied for a snapshot

vars == <<conversations, log, live, count, edits, snapshots, origin, drafts>>

NoDraft == [conversation |-> NoId, items |-> <<>>]

Init ==
  /\ conversations = {}
  /\ log = [cv \in ConversationIds |-> <<>>]
  /\ live = [cv \in ConversationIds |-> {}]
  /\ count = [cv \in ConversationIds |-> 0]
  /\ edits = [cv \in ConversationIds |-> 0]
  /\ snapshots = {}
  /\ origin = [m \in MessageIds |-> NoId]
  /\ drafts = [c \in Clients |-> NoDraft]

\* a is listed before b.
Before(ids, a, b) ==
  \E i, j \in DOMAIN ids : i < j /\ ids[i] = a /\ ids[j] = b

\* `merged' lists old and batch together, each in its own order.
IsMerge(merged, old, batch) ==
  /\ Len(merged) = Len(old) + Len(batch)
  /\ Range(merged) = Range(old) \cup Range(batch)
  /\ \A ids \in {old, batch} : \A a, b \in Range(ids) :
       Before(ids, a, b) => Before(merged, a, b)

\* An operation that changes the list of cv is counted.
Edit(cv) == edits' = [edits EXCEPT ![cv] = @ + 1] /\ UNCHANGED <<snapshots, drafts>>

BecomesList(cv, new) ==
  /\ log' = [log EXCEPT ![cv] = new]
  /\ count' = [count EXCEPT ![cv] = Len(new)]

\* An append creates the conversation if need be; its messages are new.
AppendBatch(cv, batch) ==
  /\ batch # <<>> /\ Unique(batch)
  /\ \A m \in Range(batch) : origin[m] = NoId
  /\ conversations' = conversations \cup {cv}
  /\ live' = [live EXCEPT ![cv] = @ \cup Range(batch)]
  /\ origin' = [m \in MessageIds |-> IF m \in Range(batch) THEN cv ELSE origin[m]]
  /\ \E merged \in [1..(Len(log[cv]) + Len(batch)) -> Range(log[cv]) \cup Range(batch)] :
       IsMerge(merged, log[cv], batch) /\ BecomesList(cv, merged)

\* What is cut out of the list stays alive and can be inserted again.
Replace(cv, from, to, ins) ==
  /\ UNCHANGED <<conversations, live, origin>>
  /\ cv \in conversations
  /\ Range(ins) \subseteq live[cv]
  /\ BoundsFound(log[cv], from, to)
  /\ ReplaceSpecValid(log[cv], from, to, ins)
  /\ LET new == ReplaceResult(log[cv], from, to, ins)
     IN  Unique(new) /\ BecomesList(cv, new)

\* What is deleted is gone for ever.
Delete(cv, from, to) ==
  /\ UNCHANGED <<conversations, origin>>
  /\ cv \in conversations
  /\ BoundsFound(log[cv], from, to)
  /\ DeleteSpecValid(log[cv], from, to)
  /\ live' = [live EXCEPT ![cv] = @ \ Range(DeletedIds(log[cv], from, to))]
  /\ BecomesList(cv, DeleteResult(log[cv], from, to))

\* A snapshot is made of what was asked for, in that order: messages of one
\* conversation that are all alive when they are copied.
CopyMessages(c, cv, ids) ==
  /\ drafts[c] = NoDraft
  /\ cv \in conversations
  /\ ids # <<>> /\ Range(ids) \subseteq live[cv]
  /\ drafts' = [drafts EXCEPT ![c] = [conversation |-> cv, items |-> ids]]
  /\ UNCHANGED <<conversations, log, live, count, edits, snapshots, origin>>

\* It appears with all the copies, or not at all.
TakeSnapshot(c, id) ==
  /\ drafts[c] # NoDraft
  /\ \A s \in snapshots : s.id # id
  /\ snapshots' = snapshots \cup {[id |-> id, conversation |-> drafts[c].conversation,
                                   items |-> drafts[c].items]}
  /\ drafts' = [drafts EXCEPT ![c] = NoDraft]
  /\ UNCHANGED <<conversations, log, live, count, edits, origin>>

GiveUp(c) ==
  /\ drafts' = [drafts EXCEPT ![c] = NoDraft]
  /\ UNCHANGED <<conversations, log, live, count, edits, snapshots, origin>>

Bounds == {b \in (MessageIds \cup {NoId}) \X (MessageIds \cup {NoId}) :
             b[1] # NoId \/ b[2] # NoId}

Next ==
  \/ \E cv \in ConversationIds :
       /\ Edit(cv)
       /\ \/ \E batch \in Batches : AppendBatch(cv, batch)
          \/ \E b \in Bounds : \/ \E ins \in IdLists \cup {<<>>} : Replace(cv, b[1], b[2], ins)
                               \/ Delete(cv, b[1], b[2])
  \/ \E c \in Clients :
       \/ \E cv \in ConversationIds, ids \in IdLists : CopyMessages(c, cv, ids)
       \/ \E id \in SnapshotIds : TakeSnapshot(c, id)
       \/ GiveUp(c)

Spec == Init /\ [][Next]_vars

=============================================================================
