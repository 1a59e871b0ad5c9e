-------------------------- MODULE ConversationStore --------------------------
(***************************************************************************)
(* The mutating operations of the Store (internal/state): the PostgreSQL   *)
(* transactions of AppendConversationMessages,                             *)
(* ReplaceConversationMessagesRange, DeleteConversationMessagesRange and   *)
(* CreateSnapshot, run concurrently by any number of clients.              *)
(*                                                                         *)
(* One action is one SQL statement together with the Go code up to the     *)
(* next statement.  Transactions run at READ COMMITTED (runTx begins them  *)
(* with empty TxOptions): a statement reads what is committed when it      *)
(* runs, plus the transaction's own writes, which are kept in `staged' and *)
(* reach the tables when the transaction commits.  What holds the          *)
(* transactions apart is the lock on the row of the conversation; the      *)
(* row-lock modes are PostgreSQL's:                                        *)
(*   key_share      taken by the foreign-key check of an INSERT that       *)
(*                  refers to the conversation,                            *)
(*   no_key_update  taken by UPDATE conversations,                         *)
(*   update         taken by SELECT ... FOR UPDATE.                        *)
(*                                                                         *)
(* Message bodies never change once they are inserted, so a message is     *)
(* its id.  What the range operations compute in memory is in RangeOps.    *)
(***************************************************************************)
EXTENDS Integers, FiniteSets, Sequences, RangeOps

CONSTANTS
  Clients,          \* concurrent callers, one request in flight each
  ConversationIds,
  MessageIds,       \* the values uuid.New() can return for messages
  SnapshotIds,      \* the values uuid.New() can return for snapshots
  BatchSizes,       \* how many messages an append request may carry
  IdLists,          \* the lists of message ids a request may carry
  MaxCalls          \* bound: requests made in a behaviour

ASSUME StoreAssumption ==
  /\ BatchSizes \subseteq Nat \ {0}
  /\ IdLists \subseteq Seq(MessageIds)
  /\ NoId \notin MessageIds
  /\ NoId \notin ConversationIds
  /\ MaxCalls \in Nat

VARIABLES
  (* The tables, as committed. *)
  conversations,        \* the ids that have a row in conversations
  message_count,        \* their message_count column (0, its default, without a row)
  version,              \* their version column (0, its default, without a row)
  messages,             \* messages[cv]: ids in messages with conversation_id cv
  conversation_items,   \* conversation_items[cv]: rows <position, message>
  snapshots,            \* snapshots with their snapshot_items, ordered by order_idx
  last_position,        \* the BIGSERIAL sequence of position: never rolled back
  (* The transactions. *)
  pc,                   \* the next statement of each client's transaction
  req,                  \* the request it serves
  held,                 \* the lock it holds on the row of its conversation
  working,              \* local slice `working' / `remaining'
  cut,                  \* local slice `replaced' / `deleted'
  staged,               \* its uncommitted writes
  (* Bookkeeping of the model. *)
  origin,               \* the conversation a message was first committed in
  calls                 \* requests made so far

tables == <<conversations, message_count, version, messages,
            conversation_items, snapshots, origin>>
vars   == <<tables, last_position, pc, req, held, working, cut, staged, calls>>

-----------------------------------------------------------------------------
Row      == [position : Nat \ {0}, message : MessageIds]
Snapshot == [id : SnapshotIds, conversation : ConversationIds,
             items : Seq(MessageIds)]
Bound    == MessageIds \cup {NoId}

(***************************************************************************)
(* The requests that reach the database: the store returns at once when a  *)
(* range has no bound at all, or a batch or a snapshot no messages.        *)
(***************************************************************************)
Request(ops, sizes, bounds, lists) ==
  [op : ops, conversation : ConversationIds, size : sizes,
   from : bounds, to : bounds, ids : lists]

AppendRequest   == Request({"append"}, BatchSizes, {NoId}, {<<>>})
ReplaceRequest  == {r \in Request({"replace"}, {0}, Bound, IdLists \cup {<<>>}) :
                      r.from # NoId \/ r.to # NoId}
DeleteRequest   == {r \in Request({"delete"}, {0}, Bound, {<<>>}) :
                      r.from # NoId \/ r.to # NoId}
SnapshotRequest == Request({"snapshot"}, {0}, {NoId}, IdLists \ {<<>>})

Requests == AppendRequest \cup ReplaceRequest \cup DeleteRequest \cup SnapshotRequest

NoRequest == [op |-> "none", conversation |-> NoId, size |-> 0,
              from |-> NoId, to |-> NoId, ids |-> <<>>]

StagedWrites ==
  [created : BOOLEAN, messages : SUBSET MessageIds, added : SUBSET Row,
   removed : SUBSET Row, purged : SUBSET MessageIds,
   message_count : Nat, version : Nat, snapshots : SUBSET Snapshot]

NoWrites ==
  [created |-> FALSE, messages |-> {}, added |-> {}, removed |-> {},
   purged |-> {}, message_count |-> 0, version |-> 0, snapshots |-> {}]

LockModes  == {"none", "key_share", "no_key_update", "update"}
Statements == {"ensure", "insert", "lock", "read", "verify", "rewrite",
               "update", "check", "load", "insert_snapshot", "commit"}

Conv(c) == req[c].conversation

-----------------------------------------------------------------------------
(***************************************************************************)
(* SELECT message_id ... ORDER BY position ASC.                            *)
(***************************************************************************)
Rank(rows, r)  == Cardinality({q \in rows : q.position <= r.position})
OrderBy(rows)  == [i \in 1..Cardinality(rows) |->
                     (CHOOSE r \in rows : Rank(rows, r) = i).message]
MessagesOf(rows) == {r.message : r \in rows}

\* Mutant: the sequence starts one too low.
RowsFrom(last, ids) ==
  {[position |-> last + i - 1, message |-> ids[i]] : i \in DOMAIN ids}

\* INSERT of each id in turn, every row taking nextval of the position sequence.
RowsAfter(last, ids) ==
  {[position |-> last + i, message |-> ids[i]] : i \in DOMAIN ids}

(***************************************************************************)
(* Row locks (PostgreSQL): which modes exclude each other, and a statement *)
(* that waits until no other transaction holds a conflicting lock.         *)
(***************************************************************************)
Conflicts(mode1, mode2) ==
  /\ "none" \notin {mode1, mode2}
  /\ \/ "update" \in {mode1, mode2}
     \/ {mode1, mode2} = {"no_key_update"}

LockRow(c, mode) ==
  /\ \A d \in Clients \ {c} : Conv(d) = Conv(c) => ~Conflicts(mode, held[d])
  /\ held' = [held EXCEPT ![c] = IF @ = "update" THEN @ ELSE mode]

\* Mutant: the metadata is read without FOR UPDATE.
SelectUnlocked == "none"

\* SELECT message_count, updated_at, version ... FOR UPDATE
SelectLock == "update"
\* Mutant: an update of a key column, which locks out the foreign-key checks.
UpdateKeyLock == "update"

\* UPDATE conversations SET message_count, updated_at, version (no key column)
UpdateLock == "no_key_update"

-----------------------------------------------------------------------------
Init ==
  /\ conversations = {}
  /\ message_count = [cv \in ConversationIds |-> 0]
  /\ version = [cv \in ConversationIds |-> 0]
  /\ messages = [cv \in ConversationIds |-> {}]
  /\ conversation_items = [cv \in ConversationIds |-> {}]
  /\ snapshots = {}
  /\ last_position = 0
  /\ pc = [c \in Clients |-> "idle"]
  /\ req = [c \in Clients |-> NoRequest]
  /\ held = [c \in Clients |-> "none"]
  /\ working = [c \in Clients |-> <<>>]
  /\ cut = [c \in Clients |-> <<>>]
  /\ staged = [c \in Clients |-> NoWrites]
  /\ origin = [m \in MessageIds |-> NoId]
  /\ calls = 0

(***************************************************************************)
(* A client calls an operation, naming only messages it can have learnt    *)
(* from an earlier answer (they were committed once, and may be gone).     *)
(***************************************************************************)
FirstStatement(op) ==
  CASE op = "append"                -> "ensure"
    [] op \in {"replace", "delete"} -> "lock"
    [] op = "snapshot"              -> "check"

Named(r) == ({r.from, r.to} \ {NoId}) \cup Range(r.ids)

Call(c) ==
  /\ pc[c] = "idle"
  /\ calls < MaxCalls
  /\ \E r \in Requests :
       /\ \A m \in Named(r) : origin[m] # NoId
       /\ req' = [req EXCEPT ![c] = r]
       /\ pc' = [pc EXCEPT ![c] = FirstStatement(r.op)]
  /\ calls' = calls + 1
  /\ UNCHANGED <<tables, last_position, held, working, cut, staged>>

\* Control moves on; nothing else of the transaction's own state changes.
Goto(c, label) == pc' = [pc EXCEPT ![c] = label]

\* The end of a transaction, committed or not: its locks and locals are gone.
Finish(c) ==
  /\ pc' = [pc EXCEPT ![c] = "idle"]
  /\ req' = [req EXCEPT ![c] = NoRequest]
  /\ held' = [held EXCEPT ![c] = "none"]
  /\ working' = [working EXCEPT ![c] = <<>>]
  /\ cut' = [cut EXCEPT ![c] = <<>>]
  /\ staged' = [staged EXCEPT ![c] = NoWrites]
  /\ UNCHANGED <<last_position, calls>>

\* fn returned an error: the deferred Rollback of runTx.
Rollback(c) == Finish(c) /\ UNCHANGED tables

-----------------------------------------------------------------------------
(***************************************************************************)
(* AppendConversationMessages.                                             *)
(***************************************************************************)

\* INSERT INTO conversations ... ON CONFLICT (id) DO NOTHING.  A row that
\* another transaction is inserting is waited for; an existing one is not locked.
EnsureConversation(c) ==
  /\ pc[c] = "ensure"
  /\ \A d \in Clients : Conv(d) = Conv(c) => ~staged[d].created
  /\ staged' = [staged EXCEPT ![c].created = Conv(c) \notin conversations]
  /\ Goto(c, "insert")
  /\ UNCHANGED <<tables, last_position, req, held, working, cut, calls>>

Fresh(m) == origin[m] = NoId /\ \A d \in Clients : m \notin staged[d].messages

\* One input: INSERT INTO messages, whose foreign key locks the conversation,
\* and INSERT INTO conversation_items.  The first is visible to nobody before
\* the commit, so the pair is one step.
InsertMessage(c) ==
  /\ pc[c] = "insert"
  /\ LockRow(c, "key_share")
  /\ \E m \in MessageIds :
       /\ Fresh(m)
       /\ staged' = [staged EXCEPT
                       ![c].messages = @ \cup {m},
                       ![c].added = @ \cup RowsAfter(last_position, <<m>>)]
  /\ last_position' = last_position + 1
  /\ Goto(c, IF Cardinality(staged[c].added) + 1 = req[c].size
             THEN "update" ELSE "insert")
  /\ UNCHANGED <<tables, req, working, cut, calls>>

-----------------------------------------------------------------------------
(***************************************************************************)
(* ReplaceConversationMessagesRange and DeleteConversationMessagesRange.   *)
(***************************************************************************)

\* loadConversationMetadataForUpdate: ErrConversationNotFound, or the row lock.
LockConversation(c) ==
  /\ pc[c] = "lock"
  /\ \/ /\ Conv(c) \notin conversations
        /\ Rollback(c)
     \/ /\ Conv(c) \in conversations
        /\ LockRow(c, SelectLock)
        /\ Goto(c, "read")
        /\ UNCHANGED <<tables, last_position, req, working, cut, staged, calls>>

RangeValid(r, order) ==
  /\ BoundsFound(order, r.from, r.to)
  /\ IF r.op = "replace" THEN ReplaceSpecValid(order, r.from, r.to, r.ids)
                         ELSE DeleteSpecValid(order, r.from, r.to)

NewOrder(r, order) ==
  IF r.op = "replace" THEN ReplaceResult(order, r.from, r.to, r.ids)
                      ELSE DeleteResult(order, r.from, r.to)

CutIds(r, order) ==
  IF r.op = "replace" THEN ReplacedIds(order, r.from, r.to)
                      ELSE DeletedIds(order, r.from, r.to)

\* fetchConversationOrder and the slicing that follows it.
ReadOrder(c) ==
  /\ pc[c] = "read"
  /\ LET order == OrderBy(conversation_items[Conv(c)]) IN
       \/ /\ ~RangeValid(req[c], order)
          /\ Rollback(c)
       \/ /\ RangeValid(req[c], order)
          /\ working' = [working EXCEPT ![c] = NewOrder(req[c], order)]
          /\ cut' = [cut EXCEPT ![c] = CutIds(req[c], order)]
          /\ Goto(c, IF req[c].op = "replace" THEN "verify" ELSE "rewrite")
          /\ UNCHANGED <<tables, last_position, req, held, staged, calls>>

\* Mutant: the conversation is missing from the WHERE clause.
MessagesExistAnywhere(cv, ids) ==
  Range(ids) \subseteq UNION {messages[v] : v \in ConversationIds}

\* ensureMessagesExist: every id has a row in messages for this conversation.
MessagesExist(cv, ids) == Range(ids) \subseteq messages[cv]

\* ensureMessagesExist on the inserted ids, then ensureUnique on the new order.
VerifyOrder(c) ==
  /\ pc[c] = "verify"
  /\ LET valid == /\ MessagesExist(Conv(c), req[c].ids)
                  /\ Unique(working[c])
     IN  \/ /\ ~valid
            /\ Rollback(c)
         \/ /\ valid
            /\ Goto(c, "rewrite")
            /\ UNCHANGED <<tables, last_position, req, held, working, cut,
                            staged, calls>>

\* Mutant: the rewritten rows are numbered from one.
RewriteRenumbered(c) ==
  /\ pc[c] = "rewrite"
  /\ staged' = [staged EXCEPT
                  ![c].removed = conversation_items[Conv(c)],
                  ![c].added = RowsAfter(0, working[c]),
                  ![c].purged = IF req[c].op = "delete" THEN Range(cut[c]) ELSE {}]
  /\ Goto(c, "update")
  /\ UNCHANGED <<tables, last_position, req, held, working, cut, calls>>

\* rewriteConversationOrder (DELETE of every item of the conversation that is
\* visible, then one INSERT per id) and, for a deletion, DELETE FROM messages.
\* The conversation is locked and other tables are not touched, so no other
\* transaction can tell the statements apart.
RewriteOrder(c) ==
  /\ pc[c] = "rewrite"
  /\ staged' = [staged EXCEPT
                  ![c].removed = conversation_items[Conv(c)],
                  ![c].added = RowsAfter(last_position, working[c]),
                  ![c].purged = IF req[c].op = "delete" THEN Range(cut[c]) ELSE {}]
  /\ last_position' = last_position + Len(working[c])
  /\ Goto(c, "update")
  /\ UNCHANGED <<tables, req, held, working, cut, calls>>

-----------------------------------------------------------------------------
(***************************************************************************)
(* UPDATE conversations: message_count + n for an append, the length of    *)
(* the new order for a range operation; version + 1 for all of them.  The  *)
(* statement reads the row as committed once it holds the lock.            *)
(***************************************************************************)
NewCount(c) ==
  IF req[c].op = "append" THEN message_count[Conv(c)] + req[c].size
                          ELSE Len(working[c])

\* Mutant: only an append raises the version.
AppendedVersion(c) == version[Conv(c)] + (IF req[c].op = "append" THEN 1 ELSE 0)

NewVersion(c) == version[Conv(c)] + 1

UpdateConversation(c) ==
  /\ pc[c] = "update"
  /\ LockRow(c, UpdateLock)
  /\ staged' = [staged EXCEPT ![c].message_count = NewCount(c),
                              ![c].version = NewVersion(c)]
  /\ Goto(c, "commit")
  /\ UNCHANGED <<tables, last_position, req, working, cut, calls>>

-----------------------------------------------------------------------------
(***************************************************************************)
(* CreateSnapshot.                                                         *)
(***************************************************************************)

\* SELECT TRUE FROM conversations: no lock.
CheckConversation(c) ==
  /\ pc[c] = "check"
  /\ \/ /\ Conv(c) \notin conversations
        /\ Rollback(c)
     \/ /\ Conv(c) \in conversations
        /\ Goto(c, "load")
        /\ UNCHANGED <<tables, last_position, req, held, working, cut, staged, calls>>

\* SELECT ... FROM messages: the copies the snapshot is made of.
LoadMessages(c) ==
  /\ pc[c] = "load"
  /\ \/ /\ ~MessagesExist(Conv(c), req[c].ids)
        /\ Rollback(c)
     \/ /\ MessagesExist(Conv(c), req[c].ids)
        /\ Goto(c, "insert_snapshot")
        /\ UNCHANGED <<tables, last_position, req, held, working, cut, staged, calls>>

\* INSERT INTO snapshots, whose foreign key locks the conversation, and one
\* INSERT INTO snapshot_items per requested id, which has no foreign key to
\* messages: a message deleted since it was loaded is still copied.
InsertSnapshot(c) ==
  /\ pc[c] = "insert_snapshot"
  /\ LockRow(c, "key_share")
  /\ \E s \in SnapshotIds :
       /\ \A t \in snapshots \cup UNION {staged[d].snapshots : d \in Clients} : t.id # s
       /\ staged' = [staged EXCEPT ![c].snapshots =
                       {[id |-> s, conversation |-> Conv(c), items |-> req[c].ids]}]
  /\ Goto(c, "commit")
  /\ UNCHANGED <<tables, last_position, req, working, cut, calls>>

-----------------------------------------------------------------------------
(***************************************************************************)
(* The end of a transaction.  A commit whose answer is lost is a Commit: a *)
(* client that sees an error then cannot tell it from an Abort.            *)
(***************************************************************************)
Mutates(op) == op # "snapshot"

Commit(c) ==
  /\ pc[c] = "commit"
  /\ LET cv == Conv(c)
         w  == staged[c]
     IN  /\ conversations' = conversations \cup (IF w.created THEN {cv} ELSE {})
         /\ messages' = [messages EXCEPT ![cv] = (@ \cup w.messages) \ w.purged]
         /\ conversation_items' =
              [conversation_items EXCEPT ![cv] = (@ \ w.removed) \cup w.added]
         /\ message_count' = [message_count EXCEPT ![cv] =
                               IF Mutates(req[c].op) THEN w.message_count ELSE @]
         /\ version' = [version EXCEPT ![cv] =
                         IF Mutates(req[c].op) THEN w.version ELSE @]
         /\ snapshots' = snapshots \cup w.snapshots
         /\ origin' = [m \in MessageIds |->
                         IF m \in w.messages THEN cv ELSE origin[m]]
  /\ Finish(c)

\* A statement or the conversion of a message fails, the context of the request
\* is cancelled, the connection is lost or the process dies: PostgreSQL rolls
\* the transaction back.
Abort(c) == pc[c] # "idle" /\ Rollback(c)

Step(c) ==
  \/ EnsureConversation(c) \/ InsertMessage(c)
  \/ LockConversation(c) \/ ReadOrder(c) \/ VerifyOrder(c) \/ RewriteOrder(c)
  \/ UpdateConversation(c)
  \/ CheckConversation(c) \/ LoadMessages(c) \/ InsertSnapshot(c)
  \/ Commit(c)

Next == \E c \in Clients : Call(c) \/ Step(c) \/ Abort(c)

Spec == Init /\ [][Next]_vars

\* PostgreSQL and the Go runtime run every statement that is not waiting for a
\* lock; that clients call, or that anything fails, is not assumed.
FairSpec == Spec /\ \A c \in Clients : WF_vars(Step(c))

-----------------------------------------------------------------------------
(***************************************************************************)
(* Properties.                                                             *)
(***************************************************************************)

\* The variables hold values of the types of the schema and of the Go code.
TypeOK ==
  /\ conversations \subseteq ConversationIds
  /\ message_count \in [ConversationIds -> Nat]
  /\ version \in [ConversationIds -> Nat]
  /\ messages \in [ConversationIds -> SUBSET MessageIds]
  /\ conversation_items \in [ConversationIds -> SUBSET Row]
  /\ snapshots \subseteq Snapshot
  /\ last_position \in Nat
  /\ pc \in [Clients -> Statements \cup {"idle"}]
  /\ req \in [Clients -> Requests \cup {NoRequest}]
  /\ held \in [Clients -> LockModes]
  /\ working \in [Clients -> Seq(MessageIds)]
  /\ cut \in [Clients -> Seq(MessageIds)]
  /\ staged \in [Clients -> StagedWrites]
  /\ origin \in [MessageIds -> ConversationIds \cup {NoId}]
  /\ calls \in Nat

\* The count GetConversation answers is the number of messages the conversation
\* lists.  An append adds to the stored count and a range operation overwrites
\* it with the length of a list it read earlier, so one interleaving of the two
\* that the row lock lets through leaves the columns apart for good.
CountMatchesItems ==
  \A cv \in ConversationIds :
    message_count[cv] = Cardinality(conversation_items[cv])

\* The order of a conversation, and every snapshot of it, refer only to messages
\* of that conversation, and the order only to messages not deleted since: the
\* schema lets a conversation_items row name a message of any conversation and
\* a snapshot_items row name anything, so this is up to ensureMessagesExist,
\* the load in CreateSnapshot and the lock held between check and commit.
OwnMessagesOnly ==
  /\ \A cv \in ConversationIds :
       /\ MessagesOf(conversation_items[cv]) \subseteq messages[cv]
       /\ \A m \in messages[cv] : origin[m] = cv
  /\ \A s \in snapshots : \A m \in Range(s.items) : origin[m] = s.conversation

\* The rows a transaction is about to commit break no constraint of
\* conversation_items: no message would be listed twice (UNIQUE), none is
\* listed that has no row in messages (REFERENCES).  The store answers these
\* cases itself with ErrDuplicateMessage and ErrMessageNotFound; a constraint
\* that fires would reach the caller as an internal error.
ConstraintsNeverFire ==
  \A c \in Clients : pc[c] # "idle" =>
    LET cv    == Conv(c)
        after == (conversation_items[cv] \ staged[c].removed) \cup staged[c].added
    IN  \A r \in staged[c].added :
          /\ \A q \in after : q.message = r.message => q = r
          /\ r.message \in (messages[cv] \cup staged[c].messages) \ staged[c].purged

\* The version counts the changes of the list, no more and no fewer: a commit
\* that changes the list raises it by exactly one, and a commit that does not (a
\* snapshot, a change of another conversation) leaves it alone.  So no update of
\* one transaction is lost under another's, and no accepted range operation
\* counts as a change without being one.
VersionCountsChanges ==
  [][\A cv \in ConversationIds :
       version'[cv] = version[cv]
         + (IF conversation_items'[cv] # conversation_items[cv] THEN 1 ELSE 0)]_vars

\* A commit that takes rows away puts every row it adds above all positions the
\* conversation had: a reader that continues from an old page token may meet a
\* message again, but a rewrite never hides one from it.
RewriteMovesPastCursors ==
  [][\A cv \in ConversationIds :
       ~(conversation_items[cv] \subseteq conversation_items'[cv]) =>
         \A r \in conversation_items'[cv] \ conversation_items[cv] :
           \A q \in conversation_items[cv] : q.position < r.position]_vars

-----------------------------------------------------------------------------
\* The lock the next statement of a transaction has to wait for.
LockWanted(c) ==
  CASE pc[c] \in {"insert", "insert_snapshot"}             -> "key_share"
    [] pc[c] = "lock" /\ Conv(c) \in conversations         -> SelectLock
    [] pc[c] = "update"                                    -> UpdateLock
    [] OTHER                                               -> "none"

WaitsFor(c, d) ==
  /\ c # d
  /\ pc[c] # "idle"
  /\ Conv(c) = Conv(d)
  /\ \/ pc[c] = "ensure" /\ staged[d].created
     \/ Conflicts(LockWanted(c), held[d])

\* No set of transactions wait for each other: whoever waits, waits in the end
\* for one that can run.  Appends lock the conversation twice, first shared by
\* the foreign keys and then for the UPDATE, which is where a cycle would form.
NoDeadlock ==
  \A S \in SUBSET Clients :
    S # {} => \E c \in S : \A d \in S : ~WaitsFor(c, d)

\* Every transaction ends: none waits for ever for the row of its conversation.
EveryCallEnds == \A c \in Clients : pc[c] # "idle" ~> pc[c] = "idle"

=============================================================================
