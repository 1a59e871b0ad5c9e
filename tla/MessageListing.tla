--------------------------- MODULE MessageListing ---------------------------
(***************************************************************************)
(* The paged listings (internal/state/list.go, pagination.go, snapshot.go  *)
(* and their handlers in internal/server): clients that walk through the   *)
(* messages of a conversation, or of a snapshot, page by page, while the   *)
(* transactions of ConversationStore change the conversation under them.   *)
(*                                                                         *)
(* A list call is two statements outside any transaction, the metadata and *)
(* then the page, so a commit can fall between them as well as between two *)
(* calls, and no answer tells: the messages come with their count but not  *)
(* with the version, the ids with neither.  What ties the pages of a walk  *)
(* together is the page token, the position of the last message delivered. *)
(*                                                                         *)
(* The handlers refuse a token of another conversation or snapshot before  *)
(* they read anything; a walk always hands back the token it was given.    *)
(***************************************************************************)
EXTENDS ConversationStore

CONSTANTS
  Readers,           \* clients that walk, one walk at a time each
  Filters,           \* the sets of messages a role and kind filter can let through
  PageSizes,         \* the page_size a request may ask for
  defaultPageSize,
  maxPageSize,
  MaxDelivered       \* bound: messages after which a walk is not continued

ASSUME ListingAssumption ==
  /\ Filters \subseteq SUBSET MessageIds
  /\ PageSizes \subseteq Int
  /\ defaultPageSize \in Nat \ {0}
  /\ maxPageSize \in Nat \ {0}
  /\ MaxDelivered \in Nat
  /\ ConversationIds \cap SnapshotIds = {}

VARIABLES
  stage,      \* of each walk: "idle", "metadata" or "page" (the next statement), "done"
  walk        \* what each walk is after, where it is and what it was given

listVars == <<vars, stage, walk>>

NoCursor == -1      \* a nil *PageCursor: order_idx starts at 0

(***************************************************************************)
(* A walk has a source, a filter and the cursor of its page token; count   *)
(* is the message_count in its first answer.  `listed' and `rewritten' are *)
(* bookkeeping: the messages that were listed all the time since the walk  *)
(* began, and whether rows were taken away since.                          *)
(***************************************************************************)
NoWalk == [source |-> NoId, filter |-> {}, cursor |-> NoCursor, count |-> 0,
           delivered |-> <<>>, listed |-> {}, rewritten |-> FALSE]

-----------------------------------------------------------------------------
(***************************************************************************)
(* One page.                                                               *)
(***************************************************************************)
normalizePageSize(size) ==
  IF size <= 0 THEN defaultPageSize
  ELSE IF size > maxPageSize THEN maxPageSize
  ELSE size

\* Mutant: a cursor at zero is taken for no cursor.
AfterPositive(position, cursor) == cursor <= 0 \/ position > cursor

\* Mutant: the row of the cursor itself is read again.
AtOrAfter(position, cursor) == cursor = NoCursor \/ position >= cursor

\* AND ci.position > $n, when there is a cursor.
After(position, cursor) == cursor = NoCursor \/ position > cursor

\* ORDER BY position ASC LIMIT n
FirstRows(rows, n) == {r \in rows : Rank(rows, r) <= n}

\* One row more than the page holds is fetched, to know whether there is more.
Fetched(rows, cursor, limit) ==
  FirstRows({r \in rows : After(r.position, cursor)}, limit + 1)

PageOf(rows, cursor, limit) == FirstRows(Fetched(rows, cursor, limit), limit)

\* Mutant: the cursor is taken from the row that only tells there is more.
CursorPastPage(rows, cursor, limit) ==
  IF Cardinality(Fetched(rows, cursor, limit)) > limit
  THEN CHOOSE p \in {r.position : r \in Fetched(rows, cursor, limit)} :
         \A r \in Fetched(rows, cursor, limit) : r.position <= p
  ELSE NoCursor

NextCursor(rows, cursor, limit) ==
  IF Cardinality(Fetched(rows, cursor, limit)) > limit
  THEN CHOOSE p \in {r.position : r \in PageOf(rows, cursor, limit)} :
         \A r \in PageOf(rows, cursor, limit) : r.position <= p
  ELSE NoCursor

\* conversation_items JOIN messages, filtered by role and kind.
ConversationRows(cv, filter) ==
  {r \in conversation_items[cv] :
     /\ \E v \in ConversationIds : r.message \in messages[v]
     /\ r.message \in filter}

\* snapshot_items, order_idx in the place of the position.
SnapshotRows(id) ==
  UNION {{[position |-> i - 1, message |-> s.items[i]] : i \in DOMAIN s.items} :
           s \in {t \in snapshots : t.id = id}}

Rows(w) == IF w.source \in SnapshotIds THEN SnapshotRows(w.source)
                                       ELSE ConversationRows(w.source, w.filter)

-----------------------------------------------------------------------------
ListInit ==
  /\ Init
  /\ stage = [r \in Readers |-> "idle"]
  /\ walk = [r \in Readers |-> NoWalk]

\* A client asks for the first page.
StartWalk(r) ==
  /\ stage[r] \in {"idle", "done"}
  /\ \E source \in ConversationIds \cup SnapshotIds, filter \in Filters :
       walk' = [walk EXCEPT ![r] =
                  [NoWalk EXCEPT !.source = source,
                                 !.filter = IF source \in SnapshotIds
                                            THEN MessageIds ELSE filter,
                                 !.listed = IF source \in SnapshotIds THEN {}
                                            ELSE MessagesOf(conversation_items[source])]]
  /\ stage' = [stage EXCEPT ![r] = "metadata"]
  /\ UNCHANGED vars

\* loadConversationMetadata or loadSnapshot: not found, or the metadata.  Every
\* answer has a count of its own; the one a client pages by is the first.
LoadMetadata(r) ==
  /\ stage[r] = "metadata"
  /\ LET source == walk[r].source IN
       \/ /\ source \notin conversations \cup {s.id : s \in snapshots}
          /\ stage' = [stage EXCEPT ![r] = "idle"]
          /\ walk' = [walk EXCEPT ![r] = NoWalk]
       \/ /\ source \in conversations
          /\ stage' = [stage EXCEPT ![r] = "page"]
          /\ walk' = [walk EXCEPT ![r].count =
                         IF walk[r].cursor = NoCursor THEN message_count[source] ELSE @]
       \/ /\ source \in {s.id : s \in snapshots}
          /\ stage' = [stage EXCEPT ![r] = "page"]
          /\ UNCHANGED walk
  /\ UNCHANGED vars

\* The page, and the call for the next one with the token of the answer.
ReadPage(r) ==
  /\ stage[r] = "page"
  /\ Len(walk[r].delivered) <= MaxDelivered
  /\ \E size \in PageSizes :
       LET limit == normalizePageSize(size)
           w     == walk[r]
           next  == NextCursor(Rows(w), w.cursor, limit)
       IN  /\ walk' = [walk EXCEPT
                         ![r].delivered = @ \o OrderBy(PageOf(Rows(w), w.cursor, limit)),
                         ![r].cursor = next]
           /\ stage' = [stage EXCEPT ![r] = IF next = NoCursor THEN "done" ELSE "metadata"]
  /\ UNCHANGED vars

\* A step of a transaction, and what it does to the lists being walked through.
StoreStep ==
  /\ Next
  /\ walk' = [r \in Readers |->
                LET cv == walk[r].source
                IN  IF cv \notin ConversationIds THEN walk[r]
                    ELSE [walk[r] EXCEPT
                            !.listed = @ \cap MessagesOf(conversation_items'[cv]),
                            !.rewritten = @ \/ ~(conversation_items[cv]
                                                   \subseteq conversation_items'[cv])]]
  /\ UNCHANGED stage

ListStep(r) == LoadMetadata(r) \/ ReadPage(r)

ListNext == StoreStep \/ \E r \in Readers : StartWalk(r) \/ ListStep(r)

ListSpec == ListInit /\ [][ListNext]_listVars

\* A client that walks asks for the next page, and the statements run.
FairListSpec == ListSpec /\ \A r \in Readers : WF_listVars(ListStep(r))

-----------------------------------------------------------------------------
(***************************************************************************)
(* Properties.                                                             *)
(***************************************************************************)

Walking(r, sources) == stage[r] # "idle" /\ walk[r].source \in sources

\* A walk through a conversation misses no message that was listed all the time
\* since it began, whatever is appended, replaced or deleted meanwhile: such a
\* message has been delivered or is still ahead of the page token, even when a
\* rewrite has given every row a new position.
WalksMissNothing ==
  \A r \in Readers : Walking(r, ConversationIds) =>
    \A m \in walk[r].listed \cap walk[r].filter :
      \/ m \in Range(walk[r].delivered)
      \/ /\ stage[r] # "done"
         /\ \E row \in Rows(walk[r]) :
              row.message = m /\ After(row.position, walk[r].cursor)

\* A walk delivers a message twice only if the list was rewritten under it;
\* appends alone, in whichever order they commit, never repeat one.
WalksRepeatOnlyRewritten ==
  \A r \in Readers : Walking(r, ConversationIds) /\ ~walk[r].rewritten =>
    IsInjective(walk[r].delivered)

\* Every message that is counted is delivered: when nothing was taken off the
\* list, a walk without a filter delivers at least as many messages as its first
\* answer counted.  A commit between the two statements of a list call tears the
\* count from the page, and no answer shows it; but the count is read before the
\* first page, so what it counts is there to be read, in whatever order other
\* appends draw and commit their positions, and it is only ever too low.
WalksDeliverTheirCount ==
  \A r \in Readers :
    LET w == walk[r]
    IN  Walking(r, ConversationIds) /\ stage[r] = "done"
          /\ ~w.rewritten /\ w.filter = MessageIds
        => w.count <= Len(w.delivered)

\* A walk through a snapshot delivers exactly its messages, in order and with
\* repetitions, in pages of any sizes, also when the first page ends at
\* order_idx 0; deletions and rewrites of the conversation do not reach it.
SnapshotWalksAreExact ==
  \A r \in Readers, s \in snapshots : walk[r].source = s.id =>
    /\ Len(walk[r].delivered) <= Len(s.items)
    /\ walk[r].delivered = SubSeq(s.items, 1, Len(walk[r].delivered))
    /\ stage[r] = "done" => walk[r].delivered = s.items

\* Every walk comes to its last page, and before it has MaxDelivered messages: the
\* token always moves on.  (The calls of a behaviour are bounded; a conversation
\* that is rewritten faster than a client reads can keep it busy for ever.)
WalksEnd ==
  \A r \in Readers : stage[r] \in {"metadata", "page"} ~> stage[r] \in {"idle", "done"}

=============================================================================
