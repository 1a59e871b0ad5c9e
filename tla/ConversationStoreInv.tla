------------------------ MODULE ConversationStoreInv ------------------------
(***************************************************************************)
(* The inductive invariant of ConversationStore: what is true between the  *)
(* statements of concurrent transactions and makes the properties of the   *)
(* store hold.  ConversationStoreProofs proves it.                         *)
(***************************************************************************)
EXTENDS ConversationStore

\* Transactions on one conversation hold compatible locks on its row.
LocksExclude ==
  \A c, d \in Clients :
    c # d /\ Conv(c) = Conv(d) => ~Conflicts(held[c], held[d])

\* The rows of a conversation, or those one transaction adds.
OnePositionEach(rows) ==
  \A q, r \in rows : q.position = r.position => q = r

Apart(rows1, rows2) ==
  \A q \in rows1, r \in rows2 : q.position # r.position

UpTo(rows, last) == IsFiniteSet(rows) /\ \A r \in rows : r.position <= last

\* A position is handed out once: to a committed row or to a staged one.
PositionsFresh ==
  /\ \A cv \in ConversationIds :
       /\ UpTo(conversation_items[cv], last_position)
       /\ OnePositionEach(conversation_items[cv])
  /\ \A c \in Clients :
       /\ UpTo(staged[c].added, last_position)
       /\ OnePositionEach(staged[c].added)
       /\ \A cv \in ConversationIds : Apart(staged[c].added, conversation_items[cv])
       /\ \A d \in Clients \ {c} : Apart(staged[c].added, staged[d].added)

\* A request of an operation in ops, before its transaction has written.
Serves(c, ops)  == req[c] \in Requests /\ req[c].op \in ops
Unwritten(c)    ==
  ~staged[c].created /\ staged[c].added = {} /\ staged[c].removed = {}

\* What a range operation has staged: the whole list again, at new positions.
\* The rows it removes are still the rows that are there.
Rewritten(c) ==
  /\ staged[c].removed = conversation_items[Conv(c)]
  /\ Cardinality(staged[c].added) = Len(working[c])
  /\ \A r \in staged[c].added, q \in conversation_items[Conv(c)] :
       q.position < r.position

\* What an append has staged: its messages, and nothing of the list removed.
Appended(c, n) == Cardinality(staged[c].added) = n /\ staged[c].removed = {}

\* What a transaction has done, and which lock it holds, before its statement.
AtStatement(c) ==
  /\ pc[c] = "idle" => req[c] = NoRequest /\ held[c] = "none" /\ Unwritten(c)
  /\ pc[c] = "ensure" => Serves(c, {"append"}) /\ held[c] = "none" /\ Unwritten(c)
  /\ pc[c] = "insert" =>
       /\ Serves(c, {"append"})
       /\ held[c] \in {"none", "key_share"}
       /\ \E n \in 0..(req[c].size - 1) : Appended(c, n)
  /\ pc[c] = "lock" =>
       Serves(c, {"replace", "delete"}) /\ held[c] = "none" /\ Unwritten(c)
  /\ pc[c] \in {"read", "rewrite"} =>
       Serves(c, {"replace", "delete"}) /\ held[c] = "update" /\ Unwritten(c)
  /\ pc[c] = "verify" => Serves(c, {"replace"}) /\ held[c] = "update" /\ Unwritten(c)
  /\ pc[c] = "update" =>
       \/ Serves(c, {"append"}) /\ held[c] = "key_share" /\ Appended(c, req[c].size)
       \/ Serves(c, {"replace", "delete"}) /\ held[c] = "update" /\ Rewritten(c)
  /\ pc[c] \in {"check", "load", "insert_snapshot"} =>
       Serves(c, {"snapshot"}) /\ held[c] = "none" /\ Unwritten(c)
  /\ pc[c] = "commit" =>
       \/ /\ Serves(c, {"append"})
          /\ held[c] = "no_key_update"
          /\ Appended(c, req[c].size)
          /\ staged[c].message_count = message_count[Conv(c)] + req[c].size
          /\ staged[c].version = version[Conv(c)] + 1
       \/ /\ Serves(c, {"replace", "delete"})
          /\ held[c] = "update"
          /\ Rewritten(c)
          /\ staged[c].message_count = Len(working[c])
          /\ staged[c].version = version[Conv(c)] + 1
       \/ Serves(c, {"snapshot"}) /\ held[c] = "key_share" /\ Unwritten(c)

StatementState == \A c \in Clients : AtStatement(c)

\* No interleaving of statements leaves what a transaction has read or counted
\* out of date before it commits: the lock it holds, what it has staged and the
\* committed rows agree at every statement.
StoreInvariant ==
  /\ LocksExclude
  /\ PositionsFresh
  /\ StatementState
  /\ CountMatchesItems

-----------------------------------------------------------------------------
(***************************************************************************)
(* Which messages the tables and the transactions refer to.                *)
(***************************************************************************)

\* UNIQUE (conversation_id, message_id).
OneRowEach(rows) == \A q, r \in rows : q.message = r.message => q = r

\* The messages that are being inserted are new to everybody.
NewMessages ==
  \A c \in Clients :
    /\ \A m \in staged[c].messages : origin[m] = NoId
    /\ \A d \in Clients \ {c} : staged[c].messages \cap staged[d].messages = {}

\* What a transaction has staged refers to messages that will be there.
StagedOwn(c) ==
  /\ OneRowEach(staged[c].added)
  /\ req[c].op = "append" =>
       MessagesOf(staged[c].added) \subseteq staged[c].messages
  /\ req[c].op \in {"replace", "delete"} =>
       MessagesOf(staged[c].added) \subseteq messages[Conv(c)] \ staged[c].purged
  /\ req[c].op # "append" => staged[c].messages = {}
  /\ req[c].op # "delete" => staged[c].purged = {}
  /\ \A s \in staged[c].snapshots : \A m \in Range(s.items) : origin[m] = s.conversation

\* What it has computed or checked in memory, before it writes.
WorkingOwn(c) ==
  /\ pc[c] = "verify" =>
       Range(working[c]) \subseteq messages[Conv(c)] \cup Range(req[c].ids)
  /\ pc[c] = "rewrite" =>
       /\ IsInjective(working[c])
       /\ Range(working[c]) \subseteq messages[Conv(c)]
       /\ req[c].op = "delete" => Range(cut[c]) \cap Range(working[c]) = {}
  /\ pc[c] = "insert_snapshot" => \A m \in Range(req[c].ids) : origin[m] = Conv(c)

\* A message belongs to one conversation for ever, is listed at most once, and
\* nothing that a transaction has checked about its messages has ceased to be
\* true when it writes and commits.
OwnershipInvariant ==
  /\ OwnMessagesOnly
  /\ \A cv \in ConversationIds : OneRowEach(conversation_items[cv])
  /\ NewMessages
  /\ \A c \in Clients : StagedOwn(c) /\ WorkingOwn(c)

-----------------------------------------------------------------------------
(***************************************************************************)
(* What a transaction is about to commit, against what it was asked for.   *)
(***************************************************************************)

\* The messages an append has inserted are those it lists, in a conversation
\* that exists or that it creates.
AppendIntends(c) ==
  /\ staged[c].messages = MessagesOf(staged[c].added)
  /\ pc[c] # "ensure" => Conv(c) \in conversations \/ staged[c].created

\* What a range operation has read, computed, checked and written is still what
\* the request means for the list as it is.
RangeIntends(c) ==
  LET r     == req[c]
      order == OrderBy(conversation_items[Conv(c)])
  IN  /\ pc[c] # "lock" => Conv(c) \in conversations
      /\ pc[c] \in {"verify", "rewrite", "update", "commit"} =>
           /\ RangeValid(r, order)
           /\ working[c] = NewOrder(r, order)
           /\ cut[c] = CutIds(r, order)
      /\ pc[c] \in {"rewrite", "update", "commit"} /\ r.op = "replace" =>
           MessagesExist(Conv(c), r.ids) /\ Unique(working[c])
      /\ pc[c] \in {"update", "commit"} =>
           /\ OrderBy(staged[c].added) = working[c]
           /\ staged[c].purged = IF r.op = "delete" THEN Range(cut[c]) ELSE {}

\* The snapshot that is inserted is the one that was asked for.
SnapshotIntends(c) ==
  /\ pc[c] # "check" => Conv(c) \in conversations
  /\ pc[c] = "commit" => \E id \in SnapshotIds :
       staged[c].snapshots = {[id |-> id, conversation |-> Conv(c), items |-> req[c].ids]}

Intends(c) ==
  /\ req[c].op = "append" => AppendIntends(c)
  /\ req[c].op \in {"replace", "delete"} => RangeIntends(c)
  /\ req[c].op = "snapshot" => SnapshotIntends(c)
  /\ req[c].op # "snapshot" \/ pc[c] # "commit" => staged[c].snapshots = {}
  /\ staged[c].created => req[c].op = "append"

\* No two snapshots have the same id, whether committed or being inserted.
SnapshotsApart ==
  /\ \A s, t \in snapshots : s.id = t.id => s = t
  /\ \A c \in Clients : \A s \in staged[c].snapshots :
       /\ \A t \in snapshots : t.id # s.id
       /\ \A d \in Clients \ {c} : \A t \in staged[d].snapshots : t.id # s.id

\* What a transaction commits is the operation it was asked for, on the list as
\* it is then and not as it was when the transaction read it.
IntentInvariant == SnapshotsApart /\ \A c \in Clients : Intends(c)

=============================================================================
