------------------ MODULE ConversationStoreRefinementProofs ------------------
(***************************************************************************)
(* The transactions of ConversationStore implement the indivisible         *)
(* operations of ConversationLog, for any number of clients,               *)
(* conversations, messages and requests.                                   *)
(***************************************************************************)
EXTENDS ConversationStoreProofs, ConversationStoreRefinement

-----------------------------------------------------------------------------
(***************************************************************************)
(* The operators of the promise are those of the store.                    *)
(***************************************************************************)

LEMMA SameOperators ==
  /\ \A ids : Log!Range(ids) = Range(ids) /\ Log!Unique(ids) = Unique(ids)
  /\ \A order, from, to : Log!BoundsFound(order, from, to) = BoundsFound(order, from, to)
  /\ \A order, from, to, ins :
       /\ Log!ReplaceSpecValid(order, from, to, ins) = ReplaceSpecValid(order, from, to, ins)
       /\ Log!ReplaceResult(order, from, to, ins) = ReplaceResult(order, from, to, ins)
  /\ \A order, from, to :
       /\ Log!DeleteSpecValid(order, from, to) = DeleteSpecValid(order, from, to)
       /\ Log!DeleteResult(order, from, to) = DeleteResult(order, from, to)
       /\ Log!DeletedIds(order, from, to) = DeletedIds(order, from, to)
<1>1. \A ids : Log!Range(ids) = Range(ids) /\ Log!Unique(ids) = Unique(ids)
  BY DEF Log!Range, Range, Log!Unique, Unique, Log!IsInjective, IsInjective
<1>2. \A order, id : Log!IndexOf(order, id) = IndexOf(order, id)
  BY DEF Log!IndexOf, IndexOf
<1>3. \A order, first, last, ins :
        Log!Splice(order, first, last, ins) = Splice(order, first, last, ins)
  BY DEF Log!Splice, Splice
<1>4. \A order, from, to : Log!BoundsFound(order, from, to) = BoundsFound(order, from, to)
  BY <1>1 DEF Log!BoundsFound, BoundsFound, Log!InOrder, InOrder
<1>5. \A order, from, to :
        /\ Log!ReplaceFirst(order, from, to) = ReplaceFirst(order, from, to)
        /\ Log!ReplaceLast(order, from, to) = ReplaceLast(order, from, to)
        /\ Log!DeleteFirst(order, from) = DeleteFirst(order, from)
        /\ Log!DeleteLast(order, to) = DeleteLast(order, to)
  BY <1>2 DEF Log!ReplaceFirst, ReplaceFirst, Log!ReplaceLast, ReplaceLast,
              Log!DeleteFirst, DeleteFirst, Log!DeleteLast, DeleteLast
<1>6. \A order, from, to, ins :
        /\ Log!ReplaceSpecValid(order, from, to, ins) = ReplaceSpecValid(order, from, to, ins)
        /\ Log!ReplaceResult(order, from, to, ins) = ReplaceResult(order, from, to, ins)
  BY <1>2, <1>3, <1>5 DEF Log!ReplaceSpecValid, ReplaceSpecValid, Log!ReplaceResult, ReplaceResult
<1>7. \A order, from, to :
        /\ Log!DeleteSpecValid(order, from, to) = DeleteSpecValid(order, from, to)
        /\ Log!DeleteResult(order, from, to) = DeleteResult(order, from, to)
        /\ Log!DeletedIds(order, from, to) = DeletedIds(order, from, to)
  BY <1>3, <1>5 DEF Log!DeleteSpecValid, DeleteSpecValid, Log!DeleteResult, DeleteResult,
                    Log!DeletedIds, DeletedIds
<1> QED
  BY <1>1, <1>4, <1>6, <1>7

-----------------------------------------------------------------------------
(***************************************************************************)
(* ORDER BY position: a row is listed at its rank, so a message is before  *)
(* another exactly if a row of it has the lower position.                  *)
(***************************************************************************)

\* a is listed before b exactly if the row of a has the lower position.
LEMMA BeforeIsLower ==
  ASSUME NEW rows \in SUBSET Row, IsFiniteSet(rows), OnePositionEach(rows), NEW a, NEW b
  PROVE  Log!Before(OrderBy(rows), a, b) <=>
           \E q, r \in rows : q.position < r.position /\ q.message = a /\ r.message = b
<1> DEFINE ids == OrderBy(rows)
<1>1. ASSUME NEW i \in DOMAIN ids, NEW j \in DOMAIN ids, i < j, ids[i] = a, ids[j] = b
      PROVE  \E q, r \in rows : q.position < r.position /\ q.message = a /\ r.message = b
  <2>1. PICK q \in rows : Rank(rows, q) = i /\ ids[i] = q.message
    BY RowsAreListed, OrderByPlaces
  <2>2. PICK r \in rows : Rank(rows, r) = j /\ ids[j] = r.message
    BY RowsAreListed, OrderByPlaces
  <2>3. q.position < r.position
    BY <1>1, <2>1, <2>2, RowsAreListed, RankMonotone
  <2> QED
    BY <1>1, <2>1, <2>2, <2>3
<1>2. ASSUME NEW q \in rows, NEW r \in rows, q.position < r.position,
             q.message = a, r.message = b
      PROVE  \E i, j \in DOMAIN ids : i < j /\ ids[i] = a /\ ids[j] = b
  <2>1. Rank(rows, q) < Rank(rows, r)
    BY <1>2, RowsAreListed, RankMonotone
  <2>2. /\ Rank(rows, q) \in DOMAIN ids /\ ids[Rank(rows, q)] = a
        /\ Rank(rows, r) \in DOMAIN ids /\ ids[Rank(rows, r)] = b
    BY <1>2, RowsAreListed, OrderByPlaces
  <2> QED
    BY <2>1, <2>2
<1> QED
  BY <1>1, <1>2 DEF Log!Before

\* Rows that are added to a list are merged into it.
LEMMA OrderByMerges ==
  ASSUME NEW rows \in SUBSET Row, IsFiniteSet(rows), OnePositionEach(rows),
         NEW added \in SUBSET Row, IsFiniteSet(added), OnePositionEach(added),
         Apart(added, rows)
  PROVE  Log!IsMerge(OrderBy(rows \cup added), OrderBy(rows), OrderBy(added))
<1> DEFINE all == rows \cup added
<1>1. all \in SUBSET Row /\ rows \subseteq all /\ added \subseteq all /\ rows \cap added = {}
  BY DEF Apart
<1>2. OnePositionEach(all)
  BY DEF OnePositionEach, Apart
<1>3. IsFiniteSet(all) /\ Cardinality(all) = Cardinality(rows) + Cardinality(added)
  <2>1. IsFiniteSet(rows \cap added) /\ Cardinality(rows \cap added) = 0
    BY <1>1, FS_EmptySet
  <2>2. IsFiniteSet(all)
    BY FS_Union
  <2>3. Cardinality(all) = Cardinality(rows) + Cardinality(added) - Cardinality(rows \cap added)
    BY FS_Union
  <2>4. Cardinality(rows) \in Nat /\ Cardinality(added) \in Nat
    BY FS_CardinalityType
  <2> QED
    BY <2>1, <2>2, <2>3, <2>4
<1> HIDE DEF all
<1>4. /\ Range(OrderBy(all)) = MessagesOf(all)
      /\ Range(OrderBy(rows)) = MessagesOf(rows)
      /\ Range(OrderBy(added)) = MessagesOf(added)
  BY <1>1, <1>2, <1>3, RowsAreListed, OrderByRange
<1>5. Range(OrderBy(all)) = Range(OrderBy(rows)) \cup Range(OrderBy(added))
  BY <1>4 DEF MessagesOf, all
<1>6. Len(OrderBy(all)) = Len(OrderBy(rows)) + Len(OrderBy(added))
  BY <1>1, <1>2, <1>3, RowsAreListed, OrderByProperties
<1>7. ASSUME NEW some \in {rows, added}, NEW a, NEW b, Log!Before(OrderBy(some), a, b)
      PROVE  Log!Before(OrderBy(all), a, b)
  <2>1. some \in SUBSET Row /\ IsFiniteSet(some) /\ OnePositionEach(some) /\ some \subseteq all
    BY <1>1
  <2>2. \E q, r \in some : q.position < r.position /\ q.message = a /\ r.message = b
    BY <1>7, <2>1, BeforeIsLower
  <2>3. \E q, r \in all : q.position < r.position /\ q.message = a /\ r.message = b
    BY <2>1, <2>2
  <2> QED
    BY <1>1, <1>2, <1>3, <2>3, BeforeIsLower
<1>8. \A ids \in {OrderBy(rows), OrderBy(added)} : \A a, b :
        Log!Before(ids, a, b) => Log!Before(OrderBy(all), a, b)
  BY <1>7
<1>9. Log!IsMerge(OrderBy(all), OrderBy(rows), OrderBy(added))
  BY <1>5, <1>6, <1>8, SameOperators DEF Log!IsMerge
<1> QED
  BY <1>9 DEF all

-----------------------------------------------------------------------------
(***************************************************************************)
(* A transaction keeps to what it was asked for: steps of others.          *)
(***************************************************************************)

\* An operation is not disturbed by a step that leaves its own state alone and,
\* once it has locked its conversation, the list and the messages of that.
LEMMA IntentKept ==
  ASSUME NEW d \in Clients, Intends(d),
         pc'[d] = pc[d], req'[d] = req[d], working'[d] = working[d],
         cut'[d] = cut[d], staged'[d] = staged[d],
         conversations \subseteq conversations',
         req[d].op \in {"replace", "delete"} /\ pc[d] # "lock" =>
           /\ conversation_items'[Conv(d)] = conversation_items[Conv(d)]
           /\ messages'[Conv(d)] = messages[Conv(d)]
  PROVE  Intends(d)'
<1>1. Conv(d)' = Conv(d)
  BY DEF Conv
<1>2. req[d].op = "append" => AppendIntends(d)'
  BY <1>1 DEF Intends, AppendIntends
<1>3. ASSUME req[d].op \in {"replace", "delete"}
      PROVE  RangeIntends(d)'
  <2>1. CASE pc[d] = "lock"
    BY <2>1 DEF RangeIntends
  <2>2. CASE pc[d] # "lock"
    <3>1. /\ conversation_items'[Conv(d)] = conversation_items[Conv(d)]
          /\ messages'[Conv(d)] = messages[Conv(d)]
      BY <1>3, <2>2
    <3>2. MessagesExist(Conv(d), req[d].ids)' <=> MessagesExist(Conv(d), req[d].ids)
      BY <1>1, <3>1 DEF MessagesExist
    <3>3. RangeIntends(d)
      BY <1>3 DEF Intends
    <3> QED
      BY <1>1, <3>1, <3>2, <3>3 DEF RangeIntends
  <2> QED
    BY <2>1, <2>2
<1>4. req[d].op = "snapshot" => SnapshotIntends(d)'
  BY <1>1 DEF Intends, SnapshotIntends
<1> QED
  BY <1>2, <1>3, <1>4 DEF Intends

\* A step that commits nothing and inserts no snapshot answers only for itself.
LEMMA OthersIntend ==
  ASSUME IntentInvariant, NEW c \in Clients, UNCHANGED tables,
         \A d \in Clients \ {c} :
           /\ pc'[d] = pc[d] /\ req'[d] = req[d] /\ working'[d] = working[d]
           /\ cut'[d] = cut[d] /\ staged'[d] = staged[d],
         staged'[c].snapshots = staged[c].snapshots \/ staged'[c].snapshots = {},
         Intends(c)'
  PROVE  IntentInvariant'
<1>1. ASSUME NEW d \in Clients \ {c}
      PROVE  Intends(d)'
  BY IntentKept DEF IntentInvariant, tables
<1>2. SnapshotsApart'
  <2>1. \A d \in Clients : staged'[d].snapshots \subseteq staged[d].snapshots
    OBVIOUS
  <2> QED
    BY <2>1 DEF IntentInvariant, SnapshotsApart, tables
<1> QED
  BY <1>1, <1>2 DEF IntentInvariant

\* A transaction that has ended intends nothing.
LEMMA FinishedIntends ==
  ASSUME TypeOK, NEW c \in Clients, Finish(c)
  PROVE  Intends(c)' /\ staged'[c].snapshots = {}
<1>1. req'[c] = NoRequest /\ staged'[c] = NoWrites
  BY FinishedIsIdle
<1> QED
  BY <1>1 DEF Intends, NoRequest, NoWrites

LEMMA InitIntends == Init => IntentInvariant
<1> SUFFICES ASSUME Init
             PROVE  IntentInvariant
  OBVIOUS
<1>1. \A c \in Clients : req[c] = NoRequest /\ staged[c] = NoWrites /\ snapshots = {}
  BY DEF Init
<1>2. \A c \in Clients : Intends(c)
  BY <1>1 DEF Intends, NoRequest, NoWrites
<1>3. SnapshotsApart
  BY <1>1 DEF Init, SnapshotsApart, NoWrites
<1> QED
  BY <1>2, <1>3 DEF IntentInvariant

-----------------------------------------------------------------------------
(***************************************************************************)
(* A transaction keeps to what it was asked for: its own statements.       *)
(***************************************************************************)

Intended == Owned /\ IntentInvariant

LEMMA RollbackIntends ==
  ASSUME Intended, NEW c \in Clients, Rollback(c)
  PROVE  IntentInvariant'
<1>1. Finish(c) /\ UNCHANGED tables
  BY DEF Rollback
<1> QED
  BY <1>1, FinishedIntends, FinishedOwns, OthersIntend DEF Intended, Owned, Inductive

\* A request begins with nothing staged.
LEMMA CallIntends ==
  ASSUME Intended, NEW c \in Clients, Call(c)
  PROVE  IntentInvariant'
<1> USE DEF Intended, Owned, Inductive, StoreInvariant
<1>1. PICK r \in Requests : /\ req' = [req EXCEPT ![c] = r]
                            /\ pc' = [pc EXCEPT ![c] = FirstStatement(r.op)]
  BY DEF Call
<1>2. pc[c] = "idle" /\ UNCHANGED <<tables, working, cut, staged>>
  BY DEF Call
<1>3. req[c].op = "none" /\ ~staged[c].created /\ staged[c].added = {}
  BY <1>2 DEF StatementState, AtStatement, Unwritten, NoRequest
<1>4. staged[c].messages = {} /\ staged[c].snapshots = {}
  <2>1. StagedOwn(c) /\ Intends(c)
    BY DEF OwnershipInvariant, IntentInvariant
  <2> QED
    BY <1>3, <2>1 DEF StagedOwn, Intends
<1>5. /\ req'[c] = r /\ pc'[c] = FirstStatement(r.op)
      /\ r.op \in {"append", "replace", "delete", "snapshot"}
      /\ \A d \in Clients \ {c} : pc'[d] = pc[d] /\ req'[d] = req[d]
  BY <1>1, RequestFields DEF TypeOK
<1>6. MessagesOf({}) = {}
  BY DEF MessagesOf
<1>7. r.op = "append" => AppendIntends(c)'
  BY <1>2, <1>3, <1>4, <1>5, <1>6 DEF AppendIntends, FirstStatement
<1>8. r.op \in {"replace", "delete"} => RangeIntends(c)'
  BY <1>5 DEF RangeIntends, FirstStatement
<1>9. r.op = "snapshot" => SnapshotIntends(c)'
  BY <1>5 DEF SnapshotIntends, FirstStatement
<1>10. Intends(c)'
  BY <1>2, <1>3, <1>4, <1>5, <1>7, <1>8, <1>9 DEF Intends
<1> QED
  BY <1>2, <1>5, <1>10, OthersIntend

LEMMA EnsureIntends ==
  ASSUME Intended, NEW c \in Clients, EnsureConversation(c)
  PROVE  IntentInvariant'
<1> USE DEF Intended, Owned, Inductive, StoreInvariant
<1>1. /\ UNCHANGED <<tables, req, working, cut>> /\ pc[c] = "ensure" /\ pc'[c] = "insert"
      /\ \A d \in Clients \ {c} : pc'[d] = pc[d] /\ staged'[d] = staged[d]
  BY DEF EnsureConversation, Goto, TypeOK
<1>2. /\ staged'[c].messages = staged[c].messages /\ staged'[c].added = staged[c].added
      /\ staged'[c].snapshots = staged[c].snapshots
      /\ staged'[c].created = (Conv(c) \notin conversations)
  <2>1. staged[c] \in StagedWrites
    BY DEF TypeOK
  <2> QED
    BY <2>1 DEF EnsureConversation, TypeOK, StagedWrites
<1>3. Intends(c) /\ req[c].op = "append"
  BY <1>1 DEF IntentInvariant, StatementState, AtStatement, Serves
<1>4. AppendIntends(c)'
  BY <1>1, <1>2, <1>3 DEF Intends, AppendIntends, Conv, tables
<1>5. Intends(c)'
  BY <1>1, <1>2, <1>3, <1>4 DEF Intends
<1> QED
  BY <1>1, <1>2, <1>5, OthersIntend

LEMMA InsertIntends ==
  ASSUME Intended, NEW c \in Clients, InsertMessage(c)
  PROVE  IntentInvariant'
<1> USE DEF Intended, Owned, Inductive, StoreInvariant
<1>1. PICK m \in MessageIds :
        staged' = [staged EXCEPT
                        ![c].messages = @ \cup {m},
                        ![c].added = @ \cup RowsAfter(last_position, <<m>>)]
  BY DEF InsertMessage
<1>2. /\ pc[c] = "insert" /\ UNCHANGED <<tables, req, working, cut>>
      /\ pc'[c] \in {"insert", "update"}
      /\ \A d \in Clients \ {c} : pc'[d] = pc[d] /\ staged'[d] = staged[d]
  BY <1>1 DEF InsertMessage, Goto, TypeOK
<1>3. /\ staged'[c].messages = staged[c].messages \cup {m}
      /\ staged'[c].added = staged[c].added \cup RowsAfter(last_position, <<m>>)
      /\ staged'[c].snapshots = staged[c].snapshots
      /\ staged'[c].created = staged[c].created
  <2>1. staged[c] \in StagedWrites
    BY DEF TypeOK
  <2> QED
    BY <1>1, <2>1 DEF TypeOK, StagedWrites
<1>4. MessagesOf(RowsAfter(last_position, <<m>>)) = {m}
  <2>1. <<m>> \in Seq(MessageIds) /\ Range(<<m>>) = {m} /\ last_position \in Nat
    BY DEF Range, TypeOK
  <2> QED
    BY <2>1, RowsOfList
<1>5. Intends(c) /\ req[c].op = "append"
  BY <1>2 DEF IntentInvariant, StatementState, AtStatement, Serves
<1>6. staged'[c].messages = MessagesOf(staged'[c].added)
  BY <1>3, <1>4, <1>5 DEF Intends, AppendIntends, MessagesOf
<1>7. AppendIntends(c)'
  BY <1>2, <1>3, <1>5, <1>6 DEF Intends, AppendIntends, Conv, tables
<1>8. Intends(c)'
  BY <1>2, <1>3, <1>5, <1>7 DEF Intends
<1> QED
  BY <1>2, <1>3, <1>8, OthersIntend

\* A step that only moves on, or computes in memory, has to answer for that.
LEMMA MoveIntends ==
  ASSUME Intended, NEW c \in Clients, UNCHANGED <<tables, req, staged>>,
         \A d \in Clients \ {c} :
           pc'[d] = pc[d] /\ working'[d] = working[d] /\ cut'[d] = cut[d],
         pc'[c] # "commit",
         req[c].op # "append",
         req[c].op \in {"replace", "delete"} => RangeIntends(c)',
         req[c].op = "snapshot" => SnapshotIntends(c)',
         pc[c] # "commit"
  PROVE  IntentInvariant'
<1>1. Intends(c)
  BY DEF Intended, IntentInvariant
<1>2. Intends(c)'
  BY <1>1 DEF Intends
<1> QED
  BY <1>2, OthersIntend DEF Intended

LEMMA LockIntends ==
  ASSUME Intended, NEW c \in Clients, LockConversation(c)
  PROVE  IntentInvariant'
<1> USE DEF Intended, Owned, Inductive, StoreInvariant
<1>1. CASE Rollback(c)
  BY <1>1, RollbackIntends
<1>2. CASE ~Rollback(c)
  <2>1. /\ pc[c] = "lock" /\ pc'[c] = "read" /\ Conv(c) \in conversations
        /\ UNCHANGED <<tables, req, working, cut, staged>>
        /\ \A d \in Clients \ {c} : pc'[d] = pc[d]
    BY <1>2 DEF LockConversation, Goto, TypeOK
  <2>2. req[c].op \in {"replace", "delete"}
    BY <2>1 DEF StatementState, AtStatement, Serves
  <2>3. RangeIntends(c)'
    BY <2>1 DEF RangeIntends, Conv, tables
  <2> QED
    BY <2>1, <2>2, <2>3, MoveIntends
<1> QED
  BY <1>1, <1>2

\* What is computed in memory is what the request means for the list read.
LEMMA ReadIntends ==
  ASSUME Intended, NEW c \in Clients, ReadOrder(c)
  PROVE  IntentInvariant'
<1> USE DEF Intended, Owned, Inductive, StoreInvariant
<1> DEFINE order == OrderBy(conversation_items[Conv(c)])
<1>1. CASE Rollback(c)
  BY <1>1, RollbackIntends
<1>2. CASE ~Rollback(c)
  <2>1. /\ pc[c] = "read"
        /\ RangeValid(req[c], order)
        /\ working' = [working EXCEPT ![c] = NewOrder(req[c], order)]
        /\ cut' = [cut EXCEPT ![c] = CutIds(req[c], order)]
        /\ Goto(c, IF req[c].op = "replace" THEN "verify" ELSE "rewrite")
        /\ UNCHANGED <<tables, req, staged>>
    BY <1>2 DEF ReadOrder
  <2>2. /\ working'[c] = NewOrder(req[c], order) /\ cut'[c] = CutIds(req[c], order)
        /\ pc'[c] = IF req[c].op = "replace" THEN "verify" ELSE "rewrite"
        /\ \A d \in Clients \ {c} :
             pc'[d] = pc[d] /\ working'[d] = working[d] /\ cut'[d] = cut[d]
    BY <2>1 DEF Goto, TypeOK
  <2>3. req[c].op \in {"replace", "delete"} /\ RangeIntends(c)
    BY <2>1 DEF StatementState, AtStatement, Serves, IntentInvariant, Intends
  <2>4. Conv(c) \in conversations
    BY <2>1, <2>3 DEF RangeIntends
  <2>5. order' = order /\ Conv(c)' = Conv(c)
    BY <2>1 DEF Conv, tables
  <2> HIDE DEF order
  <2>6. RangeIntends(c)'
    <3>1. order' = OrderBy(conversation_items[Conv(c)])'
      BY DEF order
    <3> QED
      BY <2>1, <2>2, <2>3, <2>4, <2>5, <3>1 DEF RangeIntends, tables
  <2> QED
    BY <2>1, <2>2, <2>3, <2>6, MoveIntends
<1> QED
  BY <1>1, <1>2

LEMMA VerifyIntends ==
  ASSUME Intended, NEW c \in Clients, VerifyOrder(c)
  PROVE  IntentInvariant'
<1> USE DEF Intended, Owned, Inductive, StoreInvariant
<1>1. CASE Rollback(c)
  BY <1>1, RollbackIntends
<1>2. CASE ~Rollback(c)
  <2>1. /\ pc[c] = "verify" /\ pc'[c] = "rewrite"
        /\ MessagesExist(Conv(c), req[c].ids) /\ Unique(working[c])
        /\ UNCHANGED <<tables, req, working, cut, staged>>
        /\ \A d \in Clients \ {c} : pc'[d] = pc[d]
    BY <1>2 DEF VerifyOrder, Goto, TypeOK
  <2>2. req[c].op = "replace" /\ RangeIntends(c)
    BY <2>1 DEF StatementState, AtStatement, Serves, IntentInvariant, Intends
  <2>3. Conv(c)' = Conv(c)
    BY <2>1 DEF Conv
  <2>4. MessagesExist(Conv(c), req[c].ids)'
    BY <2>1, <2>3 DEF MessagesExist, tables
  <2>5. RangeIntends(c)'
    BY <2>1, <2>2, <2>3, <2>4 DEF RangeIntends, tables
  <2> QED
    BY <2>1, <2>2, <2>5, MoveIntends
<1> QED
  BY <1>1, <1>2

\* The rows that are written show the new order, at whatever positions.
LEMMA RewriteIntends ==
  ASSUME Intended, NEW c \in Clients, RewriteOrder(c)
  PROVE  IntentInvariant'
<1> USE DEF Intended, Owned, Inductive, StoreInvariant
<1> DEFINE rows   == RowsAfter(last_position, working[c])
           purged == IF req[c].op = "delete" THEN Range(cut[c]) ELSE {}
<1>1. /\ pc[c] = "rewrite" /\ pc'[c] = "update" /\ UNCHANGED <<tables, req, working, cut>>
      /\ \A d \in Clients \ {c} : pc'[d] = pc[d] /\ staged'[d] = staged[d]
  BY DEF RewriteOrder, Goto, TypeOK
<1>2. /\ staged'[c].added = rows /\ staged'[c].purged = purged
      /\ staged'[c].snapshots = staged[c].snapshots
      /\ staged'[c].created = staged[c].created
  <2>1. staged[c] \in StagedWrites
    BY DEF TypeOK
  <2>2. staged'[c] = [staged[c] EXCEPT !.removed = conversation_items[Conv(c)],
                                       !.added = rows, !.purged = purged]
    BY DEF RewriteOrder, TypeOK
  <2> QED
    BY <2>1, <2>2 DEF StagedWrites
<1>3. req[c].op \in {"replace", "delete"} /\ Intends(c) /\ RangeIntends(c)
  BY <1>1 DEF StatementState, AtStatement, Serves, IntentInvariant, Intends
<1>4. OrderBy(rows) = working[c]
  BY OrderByRowsAfter DEF TypeOK
<1>5. purged = IF req[c].op = "delete" THEN Range(cut[c]) ELSE {}
  OBVIOUS
<1> HIDE DEF rows, purged
<1>6. Conv(c)' = Conv(c)
  BY <1>1 DEF Conv
<1>7. MessagesExist(Conv(c), req[c].ids)' <=> MessagesExist(Conv(c), req[c].ids)
  BY <1>1, <1>6 DEF MessagesExist, tables
<1>8. RangeIntends(c)'
  BY <1>1, <1>2, <1>3, <1>4, <1>5, <1>6, <1>7 DEF RangeIntends, tables
<1>9. Intends(c)'
  BY <1>1, <1>2, <1>3, <1>8 DEF Intends
<1> QED
  BY <1>1, <1>2, <1>9, OthersIntend

LEMMA UpdateIntends ==
  ASSUME Intended, NEW c \in Clients, UpdateConversation(c)
  PROVE  IntentInvariant'
<1> USE DEF Intended, Owned, Inductive, StoreInvariant
<1>1. /\ UNCHANGED <<tables, req, working, cut>> /\ pc[c] = "update" /\ pc'[c] = "commit"
      /\ \A d \in Clients \ {c} : pc'[d] = pc[d] /\ staged'[d] = staged[d]
  BY DEF UpdateConversation, Goto, TypeOK
<1>2. /\ staged'[c].messages = staged[c].messages /\ staged'[c].added = staged[c].added
      /\ staged'[c].purged = staged[c].purged /\ staged'[c].snapshots = staged[c].snapshots
      /\ staged'[c].created = staged[c].created
  <2>1. staged[c] \in StagedWrites
    BY DEF TypeOK
  <2>2. staged'[c] = [staged[c] EXCEPT !.message_count = NewCount(c), !.version = NewVersion(c)]
    BY DEF UpdateConversation, TypeOK
  <2> QED
    BY <2>1, <2>2 DEF StagedWrites
<1>3. Intends(c) /\ req[c].op \in {"append", "replace", "delete"}
  BY <1>1 DEF IntentInvariant, StatementState, AtStatement, Serves
<1>4. Conv(c)' = Conv(c)
  BY <1>1 DEF Conv
<1>5. MessagesExist(Conv(c), req[c].ids)' <=> MessagesExist(Conv(c), req[c].ids)
  BY <1>1, <1>4 DEF MessagesExist, tables
<1>6. req[c].op = "append" => AppendIntends(c)'
  BY <1>1, <1>2, <1>3, <1>4 DEF Intends, AppendIntends, tables
<1>7. req[c].op \in {"replace", "delete"} => RangeIntends(c)'
  BY <1>1, <1>2, <1>3, <1>4, <1>5 DEF Intends, RangeIntends, tables
<1>8. Intends(c)'
  BY <1>1, <1>2, <1>3, <1>6, <1>7 DEF Intends
<1> QED
  BY <1>1, <1>2, <1>8, OthersIntend

LEMMA CheckIntends ==
  ASSUME Intended, NEW c \in Clients, CheckConversation(c) \/ LoadMessages(c)
  PROVE  IntentInvariant'
<1> USE DEF Intended, Owned, Inductive, StoreInvariant
<1>1. CASE Rollback(c)
  BY <1>1, RollbackIntends
<1>2. CASE ~Rollback(c)
  <2>1. /\ (pc[c] = "check" /\ Conv(c) \in conversations) \/ pc[c] = "load"
        /\ pc[c] \in {"check", "load"} /\ pc'[c] \in {"load", "insert_snapshot"}
        /\ UNCHANGED <<tables, req, working, cut, staged>>
        /\ \A d \in Clients \ {c} : pc'[d] = pc[d]
    BY <1>2 DEF CheckConversation, LoadMessages, Goto, TypeOK
  <2>2. req[c].op = "snapshot" /\ SnapshotIntends(c)
    BY <2>1 DEF StatementState, AtStatement, Serves, IntentInvariant, Intends
  <2>3. SnapshotIntends(c)'
    BY <2>1, <2>2 DEF SnapshotIntends, Conv, tables
  <2> QED
    BY <2>1, <2>2, <2>3, MoveIntends
<1> QED
  BY <1>1, <1>2

\* The id of a snapshot is new to everybody.
LEMMA InsertSnapshotIntends ==
  ASSUME Intended, NEW c \in Clients, InsertSnapshot(c)
  PROVE  IntentInvariant'
<1> USE DEF Intended, Owned, Inductive, StoreInvariant
<1>1. PICK s \in SnapshotIds :
        /\ \A t \in snapshots \cup UNION {staged[d].snapshots : d \in Clients} : t.id # s
        /\ staged' = [staged EXCEPT ![c].snapshots =
                     {[id |-> s, conversation |-> Conv(c), items |-> req[c].ids]}]
  BY DEF InsertSnapshot
<1> DEFINE snap == [id |-> s, conversation |-> Conv(c), items |-> req[c].ids]
<1>2. /\ pc[c] = "insert_snapshot" /\ pc'[c] = "commit"
      /\ UNCHANGED <<tables, req, working, cut>>
      /\ \A d \in Clients \ {c} : pc'[d] = pc[d] /\ staged'[d] = staged[d]
  BY <1>1 DEF InsertSnapshot, Goto, TypeOK
<1>3. staged'[c].snapshots = {snap} /\ staged'[c].created = staged[c].created
  <2>1. staged[c] \in StagedWrites
    BY DEF TypeOK
  <2>2. staged'[c] = [staged[c] EXCEPT !.snapshots = {snap}]
    BY <1>1 DEF TypeOK
  <2> QED
    BY <2>1, <2>2 DEF StagedWrites
<1>4. req[c].op = "snapshot" /\ Intends(c)
  BY <1>2 DEF StatementState, AtStatement, Serves, IntentInvariant
<1>5. Conv(c)' = Conv(c)
  BY <1>2 DEF Conv
<1>6. SnapshotIntends(c)'
  BY <1>2, <1>3, <1>4, <1>5 DEF Intends, SnapshotIntends, tables
<1>7. Intends(c)'
  BY <1>2, <1>3, <1>4, <1>6 DEF Intends
<1>8. ASSUME NEW d \in Clients \ {c}
      PROVE  Intends(d)'
  BY <1>2, IntentKept DEF IntentInvariant, tables
<1>9. SnapshotsApart'
  <2>1. snap.id = s
    OBVIOUS
  <2> HIDE DEF snap
  <2>2. \A t \in snapshots : t.id # s
    BY <1>1
  <2>3. \A d \in Clients : \A t \in staged[d].snapshots : t.id # s
    BY <1>1
  <2>4. \A d \in Clients \ {c} : staged'[d].snapshots = staged[d].snapshots
    BY <1>2
  <2>5. SnapshotsApart /\ snapshots' = snapshots
    BY <1>2 DEF IntentInvariant, tables
  <2> QED
    BY <1>3, <2>1, <2>2, <2>3, <2>4, <2>5 DEF SnapshotsApart
<1> QED
  BY <1>7, <1>8, <1>9 DEF IntentInvariant

\* A commit leaves the list and the messages of a locked conversation alone.
LEMMA LockedIsSpared ==
  ASSUME Intended, NEW c \in Clients, Commit(c), NEW d \in Clients \ {c},
         req[d].op \in {"replace", "delete"}, pc[d] # "lock"
  PROVE  /\ conversation_items'[Conv(d)] = conversation_items[Conv(d)]
         /\ messages'[Conv(d)] = messages[Conv(d)]
<1> USE DEF Intended, Owned, Inductive, StoreInvariant
<1>1. AtStatement(d) /\ pc[d] \in Statements \cup {"idle"}
  BY DEF StatementState, TypeOK
<1>2. held[d] = "update" /\ req[d] \in Requests
  BY <1>1 DEF AtStatement, Statements, Serves, NoRequest
<1>3. Conv(d) \in ConversationIds
  BY <1>2, RequestFields DEF Conv
<1>4. held[c] \in {"key_share", "no_key_update", "update"}
  BY CommitWrites
<1>5. Conv(d) # Conv(c)
  BY <1>2, <1>4 DEF LocksExclude, Conflicts
<1> QED
  BY <1>3, <1>5, CommitWrites

LEMMA CommitIntends ==
  ASSUME Intended, NEW c \in Clients, Commit(c)
  PROVE  IntentInvariant'
<1> USE DEF Intended, Owned, Inductive
<1>1. /\ Intends(c)' /\ staged'[c].snapshots = {}
      /\ \A d \in Clients \ {c} :
           /\ pc'[d] = pc[d] /\ req'[d] = req[d] /\ working'[d] = working[d]
           /\ cut'[d] = cut[d] /\ staged'[d] = staged[d]
  BY FinishedIntends, FinishedOwns DEF Commit
<1>2. /\ conversations \subseteq conversations'
      /\ snapshots' = snapshots \cup staged[c].snapshots
      /\ pc[c] = "commit"
  BY DEF Commit
<1>3. ASSUME NEW d \in Clients \ {c}
      PROVE  Intends(d)'
  <2>1. Intends(d)
    BY DEF IntentInvariant
  <2> QED
    BY <1>1, <1>2, <2>1, IntentKept, LockedIsSpared
<1>4. SnapshotsApart'
  <2>1. SnapshotsApart /\ Intends(c)
    BY DEF IntentInvariant
  <2>2. \A s, t \in staged[c].snapshots : s = t
    BY <1>2, <2>1 DEF Intends, SnapshotIntends
  <2>3. \A s, t \in snapshots' : s.id = t.id => s = t
    BY <1>2, <2>1, <2>2 DEF SnapshotsApart
  <2>4. \A d \in Clients \ {c} : \A s \in staged'[d].snapshots : \A t \in snapshots' : t.id # s.id
    BY <1>1, <1>2, <2>1 DEF SnapshotsApart
  <2>5. \A d \in Clients : staged'[d].snapshots \subseteq staged[d].snapshots
    BY <1>1
  <2> QED
    BY <1>1, <2>1, <2>3, <2>4, <2>5 DEF SnapshotsApart
<1> QED
  BY <1>1, <1>3, <1>4 DEF IntentInvariant

LEMMA InitIntended == Init => Intended
BY InitOwns, InitIntends DEF Intended

LEMMA NextIntended == Intended /\ [Next]_vars => Intended'
<1> SUFFICES ASSUME Intended, [Next]_vars
             PROVE  Intended'
  OBVIOUS
<1>1. Owned'
  BY NextOwns DEF Intended
<1>2. CASE UNCHANGED vars
  <2>1. \A d \in Clients : Intends(d)'
    BY <1>2, IntentKept DEF Intended, IntentInvariant, vars, tables
  <2>2. SnapshotsApart'
    BY <1>2 DEF Intended, IntentInvariant, SnapshotsApart, vars, tables
  <2> QED
    BY <1>1, <2>1, <2>2 DEF Intended, IntentInvariant
<1>3. ASSUME NEW c \in Clients, Call(c) PROVE IntentInvariant'
  BY <1>3, CallIntends
<1>4. ASSUME NEW c \in Clients, Step(c) PROVE IntentInvariant'
  BY <1>4, EnsureIntends, InsertIntends, LockIntends, ReadIntends, VerifyIntends,
     RewriteIntends, UpdateIntends, CheckIntends, InsertSnapshotIntends, CommitIntends DEF Step
<1>5. ASSUME NEW c \in Clients, Abort(c) PROVE IntentInvariant'
  BY <1>5, RollbackIntends DEF Abort
<1>6. CASE Next
  BY <1>1, <1>3, <1>4, <1>5, <1>6 DEF Next, Intended
<1> QED
  BY <1>2, <1>6

\* What a transaction has read, computed, checked and staged is at each of its
\* statements what its request means for the committed tables of that moment,
\* whatever other transactions have committed since it began.
THEOREM IntentHolds == Spec => []IntentInvariant
<1>1. Intended => IntentInvariant
  BY DEF Intended
<1> QED
  BY <1>1, InitIntended, NextIntended, PTL DEF Spec

-----------------------------------------------------------------------------
(***************************************************************************)
(* The version.  An append adds rows, and a range operation finds a bound  *)
(* in the list, so it takes rows away and puts others at higher positions: *)
(* either changes the list.  A snapshot does not.                          *)
(***************************************************************************)

\* A range request that is let through names a message that is listed.
LEMMA ValidRangeHasRows ==
  ASSUME Intended, NEW c \in Clients, pc[c] = "commit",
         req[c].op \in {"replace", "delete"}, req[c] \in Requests
  PROVE  conversation_items[Conv(c)] # {}
<1> DEFINE order == OrderBy(conversation_items[Conv(c)])
<1>1. RangeValid(req[c], order)
  BY DEF Intended, IntentInvariant, Intends, RangeIntends
<1>2. req[c].from # NoId \/ req[c].to # NoId
  BY RequestFields
<1>3. DOMAIN order # {}
  BY <1>1, <1>2 DEF RangeValid, BoundsFound, InOrder, Range
<1>4. DOMAIN OrderBy({}) = {}
  BY OrderByEmpty
<1> QED
  BY <1>3, <1>4

\* A commit of a mutating operation changes the list of its conversation.
LEMMA CommitCounted ==
  ASSUME Intended, NEW c \in Clients, Commit(c)
  PROVE  version'[Conv(c)] = version[Conv(c)] +
           (IF conversation_items'[Conv(c)] # conversation_items[Conv(c)] THEN 1 ELSE 0)
<1> USE DEF Intended, Owned, Inductive, StoreInvariant
<1> DEFINE cv    == Conv(c)
           rows  == conversation_items[cv]
           added == staged[c].added
<1>1. /\ pc[c] = "commit" /\ AtStatement(c) /\ CommitOf(c)
      /\ cv \in ConversationIds /\ version[cv] \in Nat
  BY CommitEffect DEF Commit, StatementState, TypeOK
<1>2. CASE held[c] = "no_key_update"
  <2>1. Serves(c, {"append"}) /\ Cardinality(added) = req[c].size
    BY <1>1, <1>2 DEF AtStatement, Appended
  <2>2. req[c].size \in Nat \ {0}
    BY <2>1, RequestFields DEF Serves
  <2>3. added # {} /\ Apart(added, rows)
    BY <1>1, <2>1, <2>2, FS_EmptySet DEF PositionsFresh
  <2>4. rows \cup added # rows
    BY <2>3 DEF Apart
  <2> QED
    BY <1>1, <1>2, <2>4 DEF CommitOf
<1>3. CASE held[c] = "update"
  <2>1. Serves(c, {"replace", "delete"})
    BY <1>1, <1>3 DEF AtStatement
  <2>2. rows # {}
    BY <1>1, <2>1, ValidRangeHasRows DEF Serves
  <2>3. /\ \A r \in added, q \in rows : q.position < r.position
        /\ conversation_items'[cv] = added
        /\ version'[cv] = version[cv] + 1
    BY <1>1, <1>3 DEF CommitOf
  <2>4. \A q \in rows : q.position \in Nat
    BY <1>1 DEF TypeOK, Row
  <2>5. added # rows
    <3>1. PICK q \in rows : q.position \in Nat
      BY <2>2, <2>4
    <3>2. q \notin added
      BY <2>3, <3>1
    <3> QED
      BY <3>1, <3>2
  <2> QED
    BY <2>3, <2>5
<1>4. CASE held[c] = "key_share"
  BY <1>1, <1>4 DEF CommitOf
<1> QED
  BY <1>1, <1>2, <1>3, <1>4 DEF CommitOf

\* The version counts the changes of the list: a commit that changes it raises
\* the version by one, and no other step touches the version.
THEOREM VersionCorrect == Spec => VersionCountsChanges
<1> DEFINE Counted(cv) ==
             version'[cv] = version[cv] +
               (IF conversation_items'[cv] # conversation_items[cv] THEN 1 ELSE 0)
<1>1. ASSUME Intended, [Next]_vars, NEW cv \in ConversationIds
      PROVE  Counted(cv)
  <2>1. version[cv] \in Nat
    BY <1>1 DEF Intended, Owned, Inductive, TypeOK
  <2>2. CASE UNCHANGED <<conversation_items, version>>
    BY <2>1, <2>2
  <2>3. ASSUME NEW c \in Clients, Commit(c)
        PROVE  Counted(cv)
    <3>1. CASE cv = Conv(c)
      BY <1>1, <2>3, <3>1, CommitCounted
    <3>2. CASE cv # Conv(c)
      <4>1. version'[cv] = version[cv] /\ conversation_items'[cv] = conversation_items[cv]
        BY <1>1, <2>3, <3>2, CommitEffect DEF Intended, Owned
      <4> QED
        BY <2>1, <4>1
    <3> QED
      BY <3>1, <3>2
  <2> QED
    BY <1>1, <2>2, <2>3, OnlyCommitsChangeRows
<1>2. Intended /\ [Next]_vars => [\A cv \in ConversationIds : Counted(cv)]_vars
  BY <1>1
<1> QED
  BY <1>2, InitIntended, NextIntended, PTL DEF Spec, VersionCountsChanges

-----------------------------------------------------------------------------
(***************************************************************************)
(* A commit is an operation of the promise, and so is the loading of the   *)
(* messages of a snapshot; every other step is a stutter.                  *)
(***************************************************************************)
lists  == [cv \in ConversationIds |-> OrderBy(conversation_items[cv])]
drafts == [c \in Clients |-> Draft(c)]

\* The draft of a client depends on the client's own request only.
LEMMA OneDraftChanges ==
  ASSUME NEW c \in Clients,
         \A d \in Clients \ {c} : pc'[d] = pc[d] /\ req'[d] = req[d]
  PROVE  /\ drafts' = [drafts EXCEPT ![c] = Draft(c)']
         /\ Draft(c)' = Draft(c) => UNCHANGED drafts
<1>1. \A d \in Clients \ {c} : Draft(d)' = Draft(d)
  BY DEF Draft, Conv
<1> QED
  BY <1>1 DEF drafts

\* A transaction that ends leaves no draft.
LEMMA FinishDrafts ==
  ASSUME TypeOK, NEW c \in Clients, Finish(c)
  PROVE  /\ drafts' = [drafts EXCEPT ![c] = Log!NoDraft]
         /\ req[c].op # "snapshot" => UNCHANGED drafts
<1>1. /\ req'[c] = NoRequest
      /\ \A d \in Clients \ {c} : pc'[d] = pc[d] /\ req'[d] = req[d]
  BY FinishedIsIdle DEF Finish, TypeOK
<1>2. Draft(c)' = Log!NoDraft
  BY <1>1 DEF Draft, NoRequest, Log!NoDraft
<1>3. req[c].op # "snapshot" => Draft(c) = Log!NoDraft
  BY DEF Draft, Log!NoDraft
<1> QED
  BY <1>1, <1>2, <1>3, OneDraftChanges

\* Only the list of the committed conversation changes.
LEMMA CommitsToOneList ==
  ASSUME Inductive, NEW c \in Clients, Commit(c)
  PROVE  /\ Conv(c) \in ConversationIds
         /\ lists[Conv(c)] = OrderBy(conversation_items[Conv(c)])
         /\ lists' = [lists EXCEPT ![Conv(c)] = OrderBy(conversation_items'[Conv(c)])]
         /\ message_count' = [message_count EXCEPT ![Conv(c)] = message_count'[Conv(c)]]
         /\ version' = [version EXCEPT ![Conv(c)] = version'[Conv(c)]]
<1>1. /\ Conv(c) \in ConversationIds
      /\ \A cv \in ConversationIds \ {Conv(c)} :
           /\ conversation_items'[cv] = conversation_items[cv]
           /\ message_count'[cv] = message_count[cv]
           /\ version'[cv] = version[cv]
      /\ message_count' \in [ConversationIds -> Nat]
      /\ version' \in [ConversationIds -> Nat]
  BY CommitEffect
<1>2. lists' = [lists EXCEPT ![Conv(c)] = OrderBy(conversation_items'[Conv(c)])]
  BY <1>1 DEF lists
<1>3. message_count \in [ConversationIds -> Nat] /\ version \in [ConversationIds -> Nat]
  BY DEF Inductive, TypeOK
<1> QED
  BY <1>1, <1>2, <1>3 DEF lists

\* The rows of the conversation, as the lemmas about ORDER BY want them.
LEMMA CommittedRows ==
  ASSUME Inductive, NEW c \in Clients, Conv(c) \in ConversationIds
  PROVE  LET rows  == conversation_items[Conv(c)]
             added == staged[c].added
         IN  /\ rows \in SUBSET Row /\ IsFiniteSet(rows) /\ OnePositionEach(rows)
             /\ added \in SUBSET Row /\ IsFiniteSet(added) /\ OnePositionEach(added)
             /\ Apart(added, rows)
<1> USE DEF Inductive, StoreInvariant
<1>1. staged[c] \in StagedWrites
  BY DEF TypeOK
<1>2. staged[c].added \in SUBSET Row
  BY <1>1 DEF StagedWrites
<1>3. conversation_items[Conv(c)] \in SUBSET Row
  BY DEF TypeOK
<1> QED
  BY <1>2, <1>3 DEF PositionsFresh, UpTo

\* An append is a batch of new messages merged into the list.
LEMMA CommitAppends ==
  ASSUME Intended, NEW c \in Clients, Commit(c), req[c].op = "append"
  PROVE  /\ Log!Edit(Conv(c))
         /\ \E batch \in Batches : Log!AppendBatch(Conv(c), batch)
<1> USE DEF Intended, Owned, Inductive, StoreInvariant
<1> DEFINE cv    == Conv(c)
           w     == staged[c]
           rows  == conversation_items[cv]
           batch == OrderBy(w.added)
           all   == OrderBy(rows \cup w.added)
<1>1. /\ Serves(c, {"append"}) /\ Appended(c, req[c].size)
      /\ StagedOwn(c) /\ Intends(c) /\ AppendIntends(c) /\ pc[c] = "commit"
      /\ w.message_count = message_count[cv] + req[c].size
      /\ w.version = version[cv] + 1
  BY DEF Commit, StatementState, AtStatement, Serves, OwnershipInvariant,
         IntentInvariant, Intends
<1>2. /\ cv \in ConversationIds
      /\ conversations' = conversations \cup (IF w.created THEN {cv} ELSE {})
      /\ messages' = [messages EXCEPT ![cv] = (@ \cup w.messages) \ w.purged]
      /\ conversation_items' = [conversation_items EXCEPT ![cv] = (@ \ w.removed) \cup w.added]
      /\ message_count' = [message_count EXCEPT ![cv] = w.message_count]
      /\ version' = [version EXCEPT ![cv] = w.version]
      /\ snapshots' = snapshots \cup w.snapshots
      /\ origin' = [m \in MessageIds |-> IF m \in w.messages THEN cv ELSE origin[m]]
  BY CommitEffect DEF Commit, Mutates
<1>3. /\ w.removed = {} /\ w.purged = {} /\ w.snapshots = {}
      /\ Cardinality(w.added) = req[c].size
      /\ w.messages = MessagesOf(w.added)
      /\ cv \in conversations \/ w.created
  BY <1>1 DEF Appended, StagedOwn, Intends, AppendIntends
<1>4. /\ rows \in SUBSET Row /\ IsFiniteSet(rows) /\ OnePositionEach(rows)
      /\ w.added \in SUBSET Row /\ IsFiniteSet(w.added) /\ OnePositionEach(w.added)
      /\ Apart(w.added, rows)
  BY <1>2, CommittedRows
<1>5. /\ batch \in Seq(MessageIds) /\ Len(batch) = req[c].size
      /\ Range(batch) = w.messages /\ IsInjective(batch)
  BY <1>1, <1>3, <1>4, RowsAreListed, OrderByProperties, OrderByRange, OrderByMessages DEF StagedOwn
<1>6. req[c].size \in BatchSizes /\ req[c].size \in Nat \ {0}
  <2>1. req[c] \in Requests
    BY <1>1 DEF Serves
  <2>2. req[c] \in AppendRequest
    BY <2>1 DEF Requests, ReplaceRequest, DeleteRequest, SnapshotRequest, Request
  <2> QED
    BY <2>2, StoreAssumption DEF AppendRequest, Request
<1>7. batch \in Batches /\ batch # <<>>
  <2>1. batch \in [1..req[c].size -> MessageIds]
    BY <1>5
  <2> QED
    BY <1>5, <1>6, <2>1, RefinementAssumption
<1>8. \A m \in Range(batch) : origin[m] = NoId
  BY <1>5 DEF OwnershipInvariant, NewMessages
<1>9. conversations' = conversations \cup {cv}
  BY <1>2, <1>3
<1>10. messages' = [messages EXCEPT ![cv] = @ \cup Range(batch)]
  BY <1>2, <1>3, <1>5
<1>11. origin' = [m \in MessageIds |-> IF m \in Range(batch) THEN cv ELSE origin[m]]
  BY <1>2, <1>5
<1>12. conversation_items'[cv] = rows \cup w.added
  BY <1>2, <1>3 DEF TypeOK
<1>13. Log!IsMerge(all, OrderBy(rows), batch)
  BY <1>4, OrderByMerges
<1>14. Len(all) = Len(OrderBy(rows)) + Len(batch)
  BY <1>13 DEF Log!IsMerge
<1>15. /\ all \in Seq(MessageIds) /\ OrderBy(rows) \in Seq(MessageIds)
       /\ Len(OrderBy(rows)) = Cardinality(rows)
  <2>1. rows \cup w.added \in SUBSET Row /\ IsFiniteSet(rows \cup w.added)
    BY <1>4, FS_Union
  <2>2. OnePositionEach(rows \cup w.added)
    BY <1>4 DEF OnePositionEach, Apart
  <2> QED
    BY <1>4, <2>1, <2>2, RowsAreListed, OrderByProperties
<1>16. Range(all) = Range(OrderBy(rows)) \cup Range(batch)
  BY <1>13, SameOperators DEF Log!IsMerge
<1>17. message_count'[cv] = Len(all)
  <2>1. message_count[cv] = Cardinality(rows)
    BY <1>2 DEF CountMatchesItems
  <2>2. message_count'[cv] = message_count[cv] + req[c].size
    BY <1>1, <1>2 DEF TypeOK
  <2> QED
    BY <1>5, <1>14, <1>15, <2>1, <2>2
<1>18. version'[cv] = version[cv] + 1 /\ UNCHANGED snapshots
  BY <1>1, <1>2, <1>3 DEF TypeOK
<1>19. /\ lists[cv] = OrderBy(rows) /\ lists' = [lists EXCEPT ![cv] = all]
       /\ message_count' = [message_count EXCEPT ![cv] = Len(all)]
       /\ version' = [version EXCEPT ![cv] = @ + 1]
  BY <1>12, <1>17, <1>18, CommitsToOneList
<1> HIDE DEF cv, w, rows, batch, all
<1>20. Log!Edit(cv)
  <2>1. UNCHANGED drafts
    BY FinishDrafts DEF Commit
  <2> QED
    BY <1>18, <1>19, <2>1 DEF Log!Edit, drafts
<1>21. all \in [1..(Len(lists[cv]) + Len(batch)) -> Range(lists[cv]) \cup Range(batch)]
  <2>1. DOMAIN all = 1..Len(all) /\ \A i \in 1..Len(all) : all[i] \in Range(all)
    BY <1>15, LenProperties DEF Range
  <2>2. all = [i \in 1..Len(all) |-> all[i]]
    BY <1>15, LenProperties
  <2> QED
    BY <1>14, <1>16, <1>19, <2>1, <2>2
<1>22. Log!AppendBatch(cv, batch)
  BY <1>5, <1>7, <1>8, <1>9, <1>10, <1>11, <1>13, <1>19, <1>21, SameOperators
     DEF Log!AppendBatch, Log!BecomesList, Unique, lists
<1> QED
  BY <1>7, <1>20, <1>22 DEF cv

\* What the commit of a range operation does to the tables.
LEMMA CommitRewrites ==
  ASSUME Intended, NEW c \in Clients, Commit(c), req[c].op \in {"replace", "delete"}
  PROVE  LET cv    == Conv(c)
             r     == req[c]
             order == lists[cv]
             new   == NewOrder(r, order)
         IN  /\ cv \in ConversationIds /\ cv \in conversations /\ r \in Requests
             /\ RangeValid(r, order)
             /\ r.op = "replace" => Range(r.ids) \subseteq messages[cv] /\ Unique(new)
             /\ lists' = [lists EXCEPT ![cv] = new]
             /\ message_count' = [message_count EXCEPT ![cv] = Len(new)]
             /\ version' = [version EXCEPT ![cv] = @ + 1]
             /\ messages' = [messages EXCEPT ![cv] =
                  @ \ (IF r.op = "delete" THEN Range(CutIds(r, order)) ELSE {})]
             /\ UNCHANGED <<conversations, snapshots, origin, drafts>>
<1> USE DEF Intended, Owned, Inductive, StoreInvariant
<1> DEFINE cv    == Conv(c)
           w     == staged[c]
           r     == req[c]
           order == OrderBy(conversation_items[cv])
<1>1. /\ Serves(c, {"replace", "delete"}) /\ Rewritten(c) /\ r \in Requests
      /\ StagedOwn(c) /\ Intends(c) /\ RangeIntends(c) /\ pc[c] = "commit"
      /\ w.message_count = Len(working[c])
      /\ w.version = version[cv] + 1
  BY DEF Commit, StatementState, AtStatement, Serves, OwnershipInvariant,
         IntentInvariant, Intends
<1>2. /\ cv \in ConversationIds
      /\ conversations' = conversations \cup (IF w.created THEN {cv} ELSE {})
      /\ messages' = [messages EXCEPT ![cv] = (@ \cup w.messages) \ w.purged]
      /\ conversation_items' = [conversation_items EXCEPT ![cv] = (@ \ w.removed) \cup w.added]
      /\ message_count' = [message_count EXCEPT ![cv] = w.message_count]
      /\ version' = [version EXCEPT ![cv] = w.version]
      /\ snapshots' = snapshots \cup w.snapshots
      /\ origin' = [m \in MessageIds |-> IF m \in w.messages THEN cv ELSE origin[m]]
  BY CommitEffect DEF Commit, Mutates
<1>3. /\ w.messages = {} /\ w.snapshots = {} /\ ~w.created
      /\ cv \in conversations
      /\ RangeValid(r, order)
      /\ working[c] = NewOrder(r, order) /\ cut[c] = CutIds(r, order)
      /\ OrderBy(w.added) = working[c]
      /\ w.purged = IF r.op = "delete" THEN Range(cut[c]) ELSE {}
      /\ r.op = "replace" => MessagesExist(cv, r.ids) /\ Unique(working[c])
  BY <1>1 DEF StagedOwn, Intends, RangeIntends
<1>4. conversation_items'[cv] = w.added
  BY <1>1, <1>2 DEF Rewritten, TypeOK
<1>5. /\ lists[cv] = order /\ lists' = [lists EXCEPT ![cv] = OrderBy(w.added)]
  BY <1>4, CommitsToOneList
<1>6. UNCHANGED <<conversations, snapshots, origin>>
  <2>1. origin' = [m \in MessageIds |-> origin[m]]
    BY <1>2, <1>3
  <2>2. origin = [m \in MessageIds |-> origin[m]]
    BY DEF TypeOK
  <2> QED
    BY <1>2, <1>3, <2>1, <2>2
<1>7. r.op = "replace" => Range(r.ids) \subseteq messages[cv]
  BY <1>3 DEF MessagesExist
<1>8. message_count' = [message_count EXCEPT ![cv] = Len(working[c])]
  BY <1>1, <1>2
<1>9. version' = [version EXCEPT ![cv] = @ + 1]
  BY <1>1, <1>2 DEF TypeOK
<1>10. messages' = [messages EXCEPT ![cv] = @ \ (IF r.op = "delete" THEN Range(cut[c]) ELSE {})]
  BY <1>2, <1>3
<1>11. UNCHANGED drafts
  BY FinishDrafts DEF Commit
<1> QED
  BY <1>1, <1>2, <1>3, <1>5, <1>6, <1>7, <1>8, <1>9, <1>10, <1>11

\* The bounds of a range request are bounds the promise knows.
LEMMA BoundsOfRequest ==
  ASSUME NEW r \in Requests, r.op \in {"replace", "delete"}
  PROVE  /\ <<r.from, r.to>> \in Log!Bounds
         /\ r.ids \in IdLists \cup {<<>>}
<1>1. r \in ReplaceRequest \/ r \in DeleteRequest
  BY DEF Requests, AppendRequest, SnapshotRequest, Request
<1>2. /\ r.from \in Bound /\ r.to \in Bound
      /\ r.from # NoId \/ r.to # NoId
      /\ r.ids \in IdLists \cup {<<>>}
  BY <1>1 DEF ReplaceRequest, DeleteRequest, Request
<1> QED
  BY <1>2, RequestFields DEF Log!Bounds, Bound

LEMMA CommitReplaces ==
  ASSUME Intended, NEW c \in Clients, Commit(c), req[c].op = "replace"
  PROVE  /\ Log!Edit(Conv(c))
         /\ \E b \in Log!Bounds, ins \in IdLists \cup {<<>>} :
              Log!Replace(Conv(c), b[1], b[2], ins)
<1> DEFINE cv    == Conv(c)
           r     == req[c]
           order == lists[cv]
           new   == ReplaceResult(order, r.from, r.to, r.ids)
<1>1. /\ cv \in ConversationIds /\ cv \in conversations /\ r \in Requests
      /\ RangeValid(r, order)
      /\ Range(r.ids) \subseteq messages[cv] /\ Unique(new)
      /\ lists' = [lists EXCEPT ![cv] = new]
      /\ message_count' = [message_count EXCEPT ![cv] = Len(new)]
      /\ version' = [version EXCEPT ![cv] = @ + 1]
      /\ messages' = [messages EXCEPT ![cv] = @ \ {}]
      /\ UNCHANGED <<conversations, snapshots, origin, drafts>>
  BY CommitRewrites DEF NewOrder
<1>2. BoundsFound(order, r.from, r.to) /\ ReplaceSpecValid(order, r.from, r.to, r.ids)
  BY <1>1 DEF RangeValid
<1>3. UNCHANGED messages
  BY <1>1 DEF Intended, Owned, Inductive, TypeOK
<1>4. <<r.from, r.to>> \in Log!Bounds /\ r.ids \in IdLists \cup {<<>>}
  BY <1>1, BoundsOfRequest
<1> HIDE DEF cv, r, order, new
<1>5. Log!Edit(cv)
  BY <1>1 DEF Log!Edit, drafts
<1>6. Log!Replace(cv, r.from, r.to, r.ids)
  BY <1>1, <1>2, <1>3, SameOperators DEF Log!Replace, Log!BecomesList, lists, order, new
<1> QED
  BY <1>4, <1>5, <1>6 DEF cv

LEMMA CommitDeletes ==
  ASSUME Intended, NEW c \in Clients, Commit(c), req[c].op = "delete"
  PROVE  /\ Log!Edit(Conv(c))
         /\ \E b \in Log!Bounds : Log!Delete(Conv(c), b[1], b[2])
<1> DEFINE cv    == Conv(c)
           r     == req[c]
           order == lists[cv]
           new   == DeleteResult(order, r.from, r.to)
<1>1. /\ cv \in ConversationIds /\ cv \in conversations /\ r \in Requests
      /\ RangeValid(r, order)
      /\ lists' = [lists EXCEPT ![cv] = new]
      /\ message_count' = [message_count EXCEPT ![cv] = Len(new)]
      /\ version' = [version EXCEPT ![cv] = @ + 1]
      /\ messages' = [messages EXCEPT ![cv] = @ \ Range(DeletedIds(order, r.from, r.to))]
      /\ UNCHANGED <<conversations, snapshots, origin, drafts>>
  BY CommitRewrites DEF NewOrder, CutIds
<1>2. BoundsFound(order, r.from, r.to) /\ DeleteSpecValid(order, r.from, r.to)
  BY <1>1 DEF RangeValid
<1>3. <<r.from, r.to>> \in Log!Bounds
  BY <1>1, BoundsOfRequest
<1> HIDE DEF cv, r, order, new
<1>4. Log!Edit(cv)
  BY <1>1 DEF Log!Edit, drafts
<1>5. Log!Delete(cv, r.from, r.to)
  BY <1>1, <1>2, SameOperators DEF Log!Delete, Log!BecomesList, lists, order, new
<1> QED
  BY <1>3, <1>4, <1>5 DEF cv

LEMMA CommitSnapshots ==
  ASSUME Intended, NEW c \in Clients, Commit(c), req[c].op = "snapshot"
  PROVE  \E id \in SnapshotIds : Log!TakeSnapshot(c, id)
<1> USE DEF Intended, Owned, Inductive, StoreInvariant
<1> DEFINE cv == Conv(c)
           w  == staged[c]
           r  == req[c]
<1>1. /\ Serves(c, {"snapshot"}) /\ Unwritten(c) /\ r \in Requests
      /\ StagedOwn(c) /\ Intends(c) /\ SnapshotIntends(c) /\ pc[c] = "commit"
  BY DEF Commit, StatementState, AtStatement, Serves, OwnershipInvariant,
         IntentInvariant, Intends
<1>2. /\ cv \in ConversationIds
      /\ conversations' = conversations \cup (IF w.created THEN {cv} ELSE {})
      /\ messages' = [messages EXCEPT ![cv] = (@ \cup w.messages) \ w.purged]
      /\ conversation_items' = [conversation_items EXCEPT ![cv] = (@ \ w.removed) \cup w.added]
      /\ message_count' = [message_count EXCEPT ![cv] = @]
      /\ version' = [version EXCEPT ![cv] = @]
      /\ snapshots' = snapshots \cup w.snapshots
      /\ origin' = [m \in MessageIds |-> IF m \in w.messages THEN cv ELSE origin[m]]
  BY CommitEffect DEF Commit, Mutates
<1>3. /\ ~w.created /\ w.added = {} /\ w.removed = {} /\ w.messages = {} /\ w.purged = {}
      /\ cv \in conversations
  BY <1>1 DEF Unwritten, StagedOwn, SnapshotIntends
<1>4. PICK id \in SnapshotIds :
        w.snapshots = {[id |-> id, conversation |-> cv, items |-> r.ids]}
  BY <1>1 DEF SnapshotIntends
<1>5. r.ids \in IdLists /\ r.ids # <<>>
  BY <1>1 DEF Serves, Requests, AppendRequest, ReplaceRequest, DeleteRequest,
              SnapshotRequest, Request
<1>6. UNCHANGED <<conversations, messages, conversation_items, message_count, version, origin>>
  <2>1. origin' = [m \in MessageIds |-> origin[m]]
    BY <1>2, <1>3
  <2>2. origin = [m \in MessageIds |-> origin[m]]
    BY DEF TypeOK
  <2> QED
    BY <1>2, <1>3, <2>1, <2>2 DEF TypeOK
<1>7. UNCHANGED lists
  BY <1>6 DEF lists
<1>8. \A s \in snapshots : s.id # id
  BY <1>4 DEF IntentInvariant, SnapshotsApart
<1>9. /\ drafts[c] = [conversation |-> cv, items |-> r.ids]
      /\ drafts[c] # Log!NoDraft
      /\ drafts' = [drafts EXCEPT ![c] = Log!NoDraft]
  <2>1. drafts[c] = [conversation |-> cv, items |-> r.ids]
    BY <1>1 DEF drafts, Draft
  <2>2. Finish(c)
    BY DEF Commit
  <2> HIDE DEF cv, r
  <2> QED
    BY <1>5, <2>1, <2>2, FinishDrafts DEF Log!NoDraft
<1> HIDE DEF cv, r, w
<1>10. snapshots' = snapshots \cup {[id |-> id, conversation |-> drafts[c].conversation,
                                    items |-> drafts[c].items]}
  BY <1>2, <1>4, <1>9
<1>11. Log!TakeSnapshot(c, id)
  BY <1>6, <1>7, <1>8, <1>9, <1>10 DEF Log!TakeSnapshot, lists, drafts
<1> QED
  BY <1>11

LEMMA CommitImplements ==
  ASSUME Intended, NEW c \in Clients, Commit(c)
  PROVE  Log!Next
<1>1. req[c].op \in {"append", "replace", "delete", "snapshot"} /\ Conv(c) \in ConversationIds
  BY CommitEffect DEF Intended, Owned, Inductive, StoreInvariant, StatementState,
     AtStatement, Serves, Commit
<1> QED
  BY <1>1, CommitAppends, CommitReplaces, CommitDeletes, CommitSnapshots DEF Log!Next

LEMMA TablesAreTheLog == UNCHANGED tables /\ UNCHANGED drafts => UNCHANGED Log!vars
BY DEF tables, drafts, Log!vars

\* A transaction that is rolled back gives up its draft, if it has one.
LEMMA RollbackImplements ==
  ASSUME Intended, NEW c \in Clients, Rollback(c)
  PROVE  Log!Next
<1>1. drafts' = [drafts EXCEPT ![c] = Log!NoDraft] /\ UNCHANGED tables
  BY FinishDrafts DEF Rollback, Intended, Owned, Inductive
<1>2. Log!GiveUp(c)
  BY <1>1 DEF Log!GiveUp, tables, drafts
<1> QED
  BY <1>2 DEF Log!Next

\* The messages of a snapshot are copied in the one statement that loads them.
LEMMA LoadImplements ==
  ASSUME Intended, NEW c \in Clients, LoadMessages(c)
  PROVE  Log!Next
<1> USE DEF Intended, Owned, Inductive, StoreInvariant
<1>1. CASE Rollback(c)
  BY <1>1, RollbackImplements
<1>2. CASE ~Rollback(c)
  <2> DEFINE cv  == Conv(c)
             ids == req[c].ids
  <2>1. /\ pc[c] = "load" /\ pc'[c] = "insert_snapshot"
        /\ MessagesExist(cv, ids)
        /\ UNCHANGED <<tables, req>>
        /\ \A d \in Clients \ {c} : pc'[d] = pc[d]
    BY <1>2 DEF LoadMessages, Goto, TypeOK
  <2>2. /\ Serves(c, {"snapshot"}) /\ SnapshotIntends(c)
    BY <2>1 DEF StatementState, AtStatement, IntentInvariant, Intends, Serves
  <2>3. cv \in ConversationIds /\ cv \in conversations /\ ids \in IdLists /\ ids # <<>>
    BY <2>1, <2>2, RequestFields DEF SnapshotIntends, Serves, Conv, Requests, AppendRequest,
       ReplaceRequest, DeleteRequest, SnapshotRequest, Request
  <2>4. Draft(c) = Log!NoDraft /\ Draft(c)' = [conversation |-> cv, items |-> ids]
    BY <2>1, <2>2 DEF Draft, Log!NoDraft, Conv, Serves
  <2>5. drafts[c] = Log!NoDraft
        /\ drafts' = [drafts EXCEPT ![c] = [conversation |-> cv, items |-> ids]]
    BY <2>1, <2>4, OneDraftChanges DEF drafts
  <2> HIDE DEF cv, ids
  <2>6. Log!CopyMessages(c, cv, ids)
    BY <2>1, <2>3, <2>5, SameOperators DEF Log!CopyMessages, MessagesExist, tables, drafts
  <2> QED
    BY <2>3, <2>6 DEF Log!Next
<1> QED
  BY <1>1, <1>2

\* Of the remaining statements, one moves on with the draft it has, and the
\* others have none.
LEMMA OthersStutter ==
  ASSUME Intended, NEW c \in Clients,
         \/ Call(c) \/ EnsureConversation(c) \/ InsertMessage(c)
         \/ LockConversation(c) \/ ReadOrder(c) \/ VerifyOrder(c) \/ RewriteOrder(c)
         \/ UpdateConversation(c) \/ CheckConversation(c) \/ InsertSnapshot(c),
         ~Rollback(c)
  PROVE  UNCHANGED tables /\ UNCHANGED drafts
<1> USE DEF Intended, Owned, Inductive, StoreInvariant
<1>1. UNCHANGED tables
  BY DEF Call, EnsureConversation, InsertMessage, LockConversation, ReadOrder, VerifyOrder,
         RewriteOrder, UpdateConversation, CheckConversation, InsertSnapshot
<1>2. CASE Call(c)
  <2>1. PICK r \in Requests : /\ req' = [req EXCEPT ![c] = r]
                              /\ pc' = [pc EXCEPT ![c] = FirstStatement(r.op)]
    BY <1>2 DEF Call
  <2>2. /\ pc[c] = "idle" /\ pc'[c] \notin {"insert_snapshot", "commit"}
        /\ \A d \in Clients \ {c} : pc'[d] = pc[d] /\ req'[d] = req[d]
    BY <1>2, <2>1, RequestFields DEF Call, FirstStatement, TypeOK
  <2>3. Draft(c)' = Draft(c)
    BY <2>2 DEF Draft
  <2> QED
    BY <1>1, <2>2, <2>3, OneDraftChanges
<1>3. CASE ~Call(c)
  <2>1. /\ UNCHANGED req /\ \A d \in Clients \ {c} : pc'[d] = pc[d]
        /\ \/ pc[c] \notin {"insert_snapshot", "commit"} /\ pc'[c] \notin {"insert_snapshot", "commit"}
           \/ pc[c] = "update"
           \/ pc[c] = "insert_snapshot" /\ pc'[c] = "commit"
    BY <1>3 DEF EnsureConversation, InsertMessage, LockConversation, ReadOrder, VerifyOrder,
       RewriteOrder, UpdateConversation, CheckConversation, InsertSnapshot, Goto, TypeOK
  <2>2. pc[c] = "update" => req[c].op # "snapshot"
    BY DEF StatementState, AtStatement, Serves
  <2>3. Draft(c)' = Draft(c)
    BY <2>1, <2>2 DEF Draft, Conv
  <2> QED
    BY <1>1, <2>1, <2>3, OneDraftChanges
<1> QED
  BY <1>2, <1>3

LEMMA StepImplements == Intended /\ [Next]_vars => [Log!Next]_(Log!vars)
<1> SUFFICES ASSUME Intended, [Next]_vars
             PROVE  [Log!Next]_(Log!vars)
  OBVIOUS
<1>1. CASE UNCHANGED vars
  <2>1. UNCHANGED tables /\ UNCHANGED drafts
    BY <1>1 DEF vars, tables, drafts, Draft, Conv
  <2> QED
    BY <2>1, TablesAreTheLog
<1>2. ASSUME NEW c \in Clients, Call(c) \/ Step(c) \/ Abort(c)
      PROVE  Log!Next \/ UNCHANGED Log!vars
  <2>1. CASE Rollback(c)
    BY <2>1, RollbackImplements
  <2>2. CASE Commit(c)
    BY <2>2, CommitImplements
  <2>3. CASE LoadMessages(c)
    BY <2>3, LoadImplements
  <2>4. CASE ~Rollback(c) /\ ~Commit(c) /\ ~LoadMessages(c)
    BY <1>2, <2>4, OthersStutter, TablesAreTheLog DEF Step, Abort
  <2> QED
    BY <2>1, <2>2, <2>3, <2>4
<1>3. CASE Next
  BY <1>2, <1>3 DEF Next
<1> QED
  BY <1>1, <1>3

LEMMA InitImplements == Init => Log!Init
<1> SUFFICES ASSUME Init
             PROVE  Log!Init
  OBVIOUS
<1>1. lists = [cv \in ConversationIds |-> <<>>]
  BY OrderByEmpty DEF Init, lists
<1>2. drafts = [c \in Clients |-> Log!NoDraft]
  BY DEF Init, drafts, Draft, Log!NoDraft
<1> QED
  BY <1>1, <1>2 DEF Init, Log!Init, lists, drafts

\* Whatever the interleaving of statements, aborts and lost answers, callers see
\* a list of distinct messages that every operation changes at once and in full.
THEOREM StoreImplementsLog == Spec => ImplementsLog
<1>1. Spec => Log!Init
  BY InitImplements DEF Spec
<1>2. Spec => [][Log!Next]_(Log!vars)
  BY InitIntended, NextIntended, StepImplements, PTL DEF Spec
<1> QED
  BY <1>1, <1>2, PTL DEF ImplementsLog, Log!Spec

=============================================================================
