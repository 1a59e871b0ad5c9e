----------------------- MODULE ConversationStoreProofs -----------------------
(***************************************************************************)
(* The invariants and action properties of ConversationStore, for any      *)
(* number of clients, conversations, messages, snapshots and requests.     *)
(*                                                                         *)
(* StoreInvariant, with TypeOK, is inductive.  Most actions disturb        *)
(* little of it: the frame lemmas say what a step keeps when it leaves     *)
(* rows, locks or other transactions alone, and each action then has to    *)
(* answer for what it changes.                                             *)
(***************************************************************************)
EXTENDS ConversationStoreInv, RangeOpsProofs, FiniteSetTheorems, SequenceTheorems, TLAPS

Inductive == TypeOK /\ StoreInvariant

\* Rows to list: those of a conversation, or those of a snapshot, which count
\* from 0.
ListRow == [position : Int, message : MessageIds]

-----------------------------------------------------------------------------
(***************************************************************************)
(* Rows of conversation_items: what an INSERT adds, and what ORDER BY      *)
(* position returns.                                                       *)
(***************************************************************************)

\* The rows inserted for a list of ids: one per id, at the next positions.
LEMMA RowsAfterProperties ==
  ASSUME NEW last \in Int, NEW ids \in Seq(MessageIds)
  PROVE  /\ RowsAfter(last, ids) \subseteq ListRow
         /\ last \in Nat => RowsAfter(last, ids) \subseteq Row
         /\ IsFiniteSet(RowsAfter(last, ids))
         /\ Cardinality(RowsAfter(last, ids)) = Len(ids)
         /\ OnePositionEach(RowsAfter(last, ids))
         /\ \A r \in RowsAfter(last, ids) :
              last < r.position /\ r.position <= last + Len(ids)
<1> DEFINE rows == RowsAfter(last, ids)
           row(i) == [position |-> last + i, message |-> ids[i]]
           f == [i \in 1..Len(ids) |-> row(i)]
<1>1. Len(ids) \in Nat /\ DOMAIN ids = 1..Len(ids)
  BY LenProperties
<1>2. rows = {row(i) : i \in 1..Len(ids)}
  BY <1>1 DEF RowsAfter
<1>3. \A i \in 1..Len(ids) : row(i) \in ListRow /\ (last \in Nat => row(i) \in Row)
  BY <1>1, ElementOfSeq DEF Row, ListRow
<1>4. f \in Bijection(1..Len(ids), rows)
  <2>1. f \in [1..Len(ids) -> rows]
    BY <1>2
  <2>2. \A i, j \in 1..Len(ids) : f[i] = f[j] => i = j
    <3> SUFFICES ASSUME NEW i \in 1..Len(ids), NEW j \in 1..Len(ids), f[i] = f[j]
                 PROVE  i = j
      OBVIOUS
    <3>1. row(i).position = row(j).position
      OBVIOUS
    <3> QED
      BY <1>1, <3>1
  <2>3. \A r \in rows : \E i \in 1..Len(ids) : f[i] = r
    BY <1>2
  <2> QED
    BY <2>1, <2>2, <2>3 DEF Bijection, Injection, Surjection, IsInjective
<1>5. IsFiniteSet(rows) /\ Cardinality(rows) = Len(ids)
  <2>1. IsFiniteSet(1..Len(ids)) /\ Cardinality(1..Len(ids)) = Len(ids)
    BY <1>1, FS_Interval
  <2>2. ExistsBijection(1..Len(ids), rows)
    BY <1>4 DEF ExistsBijection
  <2> QED
    BY <2>1, <2>2, FS_Bijection
<1>6. OnePositionEach(rows)
  BY <1>1, <1>2 DEF OnePositionEach
<1>7. \A r \in rows : last < r.position /\ r.position <= last + Len(ids)
  BY <1>1, <1>2
<1> QED
  BY <1>2, <1>3, <1>5, <1>6, <1>7

\* A row of conversation_items is such a row.
LEMMA RowsAreListed == Row \subseteq ListRow
BY DEF Row, ListRow

\* The rank of a row is its place in the order of positions.
LEMMA RankProperties ==
  ASSUME NEW rows \in SUBSET ListRow, IsFiniteSet(rows), OnePositionEach(rows)
  PROVE  [r \in rows |-> Rank(rows, r)] \in Surjection(rows, 1..Cardinality(rows))
<1> DEFINE n == Cardinality(rows)
           below(r) == {q \in rows : q.position <= r.position}
           f == [r \in rows |-> Rank(rows, r)]
<1>1. n \in Nat
  BY FS_CardinalityType
<1>2. \A r \in rows : r.position \in Int
  BY DEF ListRow
<1>3. ASSUME NEW r \in rows
      PROVE  /\ IsFiniteSet(below(r))
             /\ Cardinality(below(r)) \in 1..n
  <2>1. below(r) \in SUBSET rows
    OBVIOUS
  <2>2. IsFiniteSet(below(r)) /\ Cardinality(below(r)) <= n
    BY <2>1, FS_Subset
  <2>3. r \in below(r)
    BY <1>2
  <2>4. Cardinality(below(r)) \in Nat /\ Cardinality(below(r)) # 0
    BY <2>2, <2>3, FS_CardinalityType, FS_EmptySet
  <2> QED
    BY <1>1, <2>2, <2>4
<1>4. f \in [rows -> 1..n]
  BY <1>3 DEF Rank
<1>5. ASSUME NEW q \in rows, NEW r \in rows, q.position < r.position
      PROVE  Cardinality(below(q)) # Cardinality(below(r))
  <2>1. below(q) \in SUBSET below(r)
    BY <1>2, <1>5
  <2>2. r \in below(r) /\ r \notin below(q)
    BY <1>2, <1>5
  <2> QED
    BY <1>3, <2>1, <2>2, FS_Subset
<1>6. ASSUME NEW q \in rows, NEW r \in rows, f[q] = f[r]
      PROVE  q = r
  <2>1. Cardinality(below(q)) = Cardinality(below(r))
    BY <1>6 DEF Rank
  <2>2. q.position = r.position
    BY <1>2, <1>5, <2>1
  <2> QED
    BY <2>2 DEF OnePositionEach
<1>7. f \in Injection(rows, 1..n)
  BY <1>4, <1>6 DEF Injection, IsInjective
<1>8. IsFiniteSet(1..n) /\ Cardinality(1..n) = n
  BY <1>1, FS_Interval
<1> QED
  BY <1>7, <1>8, FS_Injection

\* ORDER BY lists every row once.
LEMMA OrderByProperties ==
  ASSUME NEW rows \in SUBSET ListRow, IsFiniteSet(rows), OnePositionEach(rows)
  PROVE  OrderBy(rows) \in Seq(MessageIds) /\ Len(OrderBy(rows)) = Cardinality(rows)
<1> DEFINE n == Cardinality(rows)
           at(i) == CHOOSE r \in rows : Rank(rows, r) = i
<1>1. n \in Nat
  BY FS_CardinalityType
<1>2. \A i \in 1..n : \E r \in rows : Rank(rows, r) = i
  BY RankProperties DEF Surjection
<1>3. \A i \in 1..n : at(i).message \in MessageIds
  BY <1>2 DEF ListRow
<1> HIDE DEF n
<1>4. OrderBy(rows) = [i \in 1..n |-> at(i).message]
  BY DEF OrderBy, n
<1>5. OrderBy(rows) \in [1..n -> MessageIds]
  BY <1>3, <1>4
<1>6. OrderBy(rows) \in Seq(MessageIds)
  BY <1>1, <1>5, SeqDef
<1>7. Len(OrderBy(rows)) = n
  BY <1>1, <1>5, <1>6, LenProperties
<1> QED
  BY <1>6, <1>7 DEF n

\* The lower of two positions has the lower rank.
LEMMA RankMonotone ==
  ASSUME NEW rows \in SUBSET ListRow, IsFiniteSet(rows), OnePositionEach(rows),
         NEW q \in rows, NEW r \in rows
  PROVE  /\ Rank(rows, r) \in 1..Cardinality(rows)
         /\ q.position < r.position <=> Rank(rows, q) < Rank(rows, r)
<1> DEFINE below(x) == {p \in rows : p.position <= x.position}
<1>1. \A x \in rows : /\ IsFiniteSet(below(x)) /\ Cardinality(below(x)) \in Nat
                      /\ Cardinality(below(x)) <= Cardinality(rows)
                      /\ x \in below(x) /\ Cardinality(below(x)) # 0
  <2> SUFFICES ASSUME NEW x \in rows
               PROVE  /\ IsFiniteSet(below(x)) /\ Cardinality(below(x)) \in Nat
                      /\ Cardinality(below(x)) <= Cardinality(rows)
                      /\ x \in below(x) /\ Cardinality(below(x)) # 0
    OBVIOUS
  <2>1. below(x) \in SUBSET rows
    OBVIOUS
  <2>2. x.position \in Int
    BY DEF ListRow
  <2>3. x \in below(x)
    BY <2>2
  <2> HIDE DEF below
  <2> QED
    BY <2>1, <2>3, FS_Subset, FS_CardinalityType, FS_EmptySet
<1>2. Cardinality(rows) \in Nat
  BY FS_CardinalityType
<1>3. ASSUME NEW x \in rows, NEW y \in rows, x.position < y.position
      PROVE  Cardinality(below(x)) < Cardinality(below(y))
  <2>1. below(x) \subseteq below(y) /\ y \notin below(x) /\ y \in below(y)
    BY <1>3 DEF ListRow
  <2> HIDE DEF below
  <2>2. below(x) # below(y)
    BY <2>1
  <2>3. IsFiniteSet(below(y))
    BY <1>1
  <2>4. Cardinality(below(x)) # Cardinality(below(y))
    BY ONLY <2>1, <2>2, <2>3, FS_Subset
  <2>5. Cardinality(below(x)) <= Cardinality(below(y))
    BY ONLY <2>1, <2>3, FS_Subset
  <2> QED
    BY <1>1, <2>4, <2>5
<1>4. q.position < r.position \/ r.position < q.position \/ q = r
  BY DEF ListRow, OnePositionEach
<1>5. Rank(rows, q) = Cardinality(below(q)) /\ Rank(rows, r) = Cardinality(below(r))
  BY DEF Rank
<1>6. q.position \in Int /\ r.position \in Int
  BY DEF ListRow
<1>7. /\ Cardinality(below(q)) \in Nat /\ Cardinality(below(r)) \in Nat
      /\ Cardinality(below(r)) <= Cardinality(rows) /\ Cardinality(below(r)) # 0
  BY <1>1
<1> HIDE DEF below
<1> QED
  BY <1>2, <1>3, <1>4, <1>5, <1>6, <1>7

\* The message at each place of the list, and the place of each row.
LEMMA OrderByPlaces ==
  ASSUME NEW rows \in SUBSET ListRow, IsFiniteSet(rows), OnePositionEach(rows)
  PROVE  /\ DOMAIN OrderBy(rows) = 1..Cardinality(rows)
         /\ \A i \in DOMAIN OrderBy(rows) : \E r \in rows :
              Rank(rows, r) = i /\ OrderBy(rows)[i] = r.message
         /\ \A r \in rows : /\ Rank(rows, r) \in DOMAIN OrderBy(rows)
                            /\ OrderBy(rows)[Rank(rows, r)] = r.message
<1> DEFINE n == Cardinality(rows)
           at(i) == CHOOSE r \in rows : Rank(rows, r) = i
<1>1. OrderBy(rows) = [i \in 1..n |-> at(i).message]
  BY DEF OrderBy
<1>2. \A i \in 1..n : \E r \in rows : Rank(rows, r) = i
  BY RankProperties DEF Surjection
<1>3. \A i \in 1..n : at(i) \in rows /\ Rank(rows, at(i)) = i
  BY <1>2
<1>4. ASSUME NEW q \in rows, NEW r \in rows, Rank(rows, q) = Rank(rows, r)
      PROVE  q = r
  <2>1. Rank(rows, q) \in Int /\ Rank(rows, r) \in Int
    BY RankMonotone
  <2>2. ~(q.position < r.position) /\ ~(r.position < q.position)
    BY <1>4, <2>1, RankMonotone
  <2> QED
    BY <2>2 DEF ListRow, OnePositionEach
<1>5. \A r \in rows : Rank(rows, r) \in 1..n
  BY RankMonotone
<1>6. \A r \in rows : at(Rank(rows, r)) = r
  BY <1>3, <1>4, <1>5
<1> HIDE DEF n, at
<1> QED
  BY <1>1, <1>3, <1>5, <1>6 DEF n

\* The list shows every row.
LEMMA OrderByRange ==
  ASSUME NEW rows \in SUBSET ListRow, IsFiniteSet(rows), OnePositionEach(rows)
  PROVE  Range(OrderBy(rows)) = MessagesOf(rows)
BY OrderByPlaces DEF Range, MessagesOf

\* A list that is written at new positions is read again as it was.
LEMMA OrderByRowsAfter ==
  ASSUME NEW last \in Int, NEW ids \in Seq(MessageIds)
  PROVE  OrderBy(RowsAfter(last, ids)) = ids
<1> DEFINE rows   == RowsAfter(last, ids)
           row(i) == [position |-> last + i, message |-> ids[i]]
           n      == Len(ids)
<1>1. n \in Nat /\ DOMAIN ids = 1..n
  BY LenProperties
<1>2. rows = {row(i) : i \in 1..n}
  BY <1>1 DEF RowsAfter
<1>3. /\ rows \in SUBSET ListRow /\ IsFiniteSet(rows) /\ OnePositionEach(rows)
      /\ Cardinality(rows) = n
  BY RowsAfterProperties
<1>4. ASSUME NEW i \in 1..n
      PROVE  Rank(rows, row(i)) = i
  <2> DEFINE first == SubSeq(ids, 1, i)
             below == {q \in rows : q.position <= row(i).position}
  <2>1. /\ first \in Seq(MessageIds) /\ Len(first) = i
        /\ \A j \in 1..i : first[j] = ids[j]
    <3>1. 1 \in Int /\ i \in Int /\ 1 <= 1 /\ i <= Len(ids) /\ 1 <= i
      BY <1>1
    <3>2. /\ SubSeq(ids, 1, i) \in Seq(MessageIds)
          /\ Len(SubSeq(ids, 1, i)) = IF 1 <= i THEN i - 1 + 1 ELSE 0
          /\ \A j \in 1..(i - 1 + 1) : SubSeq(ids, 1, i)[j] = ids[1 + j - 1]
      BY <3>1, PieceOfOrder
    <3> QED
      BY <1>1, <3>1, <3>2
  <2> HIDE DEF first
  <2>2. DOMAIN first = 1..i
    BY <2>1, LenProperties
  <2>3. RowsAfter(last, first) = {row(j) : j \in 1..i}
    BY <2>1, <2>2 DEF RowsAfter
  <2>4. below = {row(j) : j \in 1..i}
    <3>1. \A j \in 1..n : row(j).position <= row(i).position <=> j <= i
      BY <1>1
    <3>2. 1..i = {j \in 1..n : j <= i}
      BY <1>1
    <3> QED
      BY <1>2, <3>1, <3>2
  <2>5. Cardinality(RowsAfter(last, first)) = i
    BY <2>1, RowsAfterProperties
  <2> QED
    BY <2>3, <2>4, <2>5 DEF Rank
<1>5. \A i \in 1..n : row(i) \in rows /\ row(i).message = ids[i]
  BY <1>2
<1> HIDE DEF rows, row
<1>6. DOMAIN OrderBy(rows) = 1..n /\ \A i \in 1..n : OrderBy(rows)[i] = ids[i]
  BY <1>3, <1>4, <1>5, OrderByPlaces
<1>7. OrderBy(rows) \in Seq(MessageIds) /\ Len(OrderBy(rows)) = n
  BY <1>3, OrderByProperties
<1>8. OrderBy(rows) = ids
  BY <1>1, <1>6, <1>7, SeqEqual DEF n
<1> QED
  BY <1>8 DEF rows

LEMMA OrderByEmpty == OrderBy({}) = <<>>
<1>1. {} \in SUBSET ListRow /\ IsFiniteSet({}) /\ OnePositionEach({}) /\ Cardinality({}) = 0
  BY FS_EmptySet DEF OnePositionEach
<1>2. OrderBy({}) \in Seq(MessageIds) /\ Len(OrderBy({})) = 0
  BY <1>1, OrderByProperties
<1> QED
  BY <1>2, EmptySeq

-----------------------------------------------------------------------------
(***************************************************************************)
(* Requests, and the order a range operation computes.                     *)
(***************************************************************************)

LEMMA RequestFields ==
  ASSUME NEW r \in Requests
  PROVE  /\ r.op \in {"append", "replace", "delete", "snapshot"}
         /\ r.conversation \in ConversationIds
         /\ r.size \in Nat
         /\ r.op = "append" => r.size \in Nat \ {0}
         /\ r.from \in Bound /\ r.to \in Bound
         /\ r.ids \in Seq(MessageIds)
         /\ r.op \in {"replace", "delete"} => r.from # NoId \/ r.to # NoId
<1>1. <<>> \in Seq(MessageIds)
  BY EmptySeq
<1>2. ASSUME NEW ops, NEW sizes, NEW bounds, NEW lists, r \in Request(ops, sizes, bounds, lists)
      PROVE  /\ r.op \in ops /\ r.conversation \in ConversationIds /\ r.size \in sizes
             /\ r.from \in bounds /\ r.to \in bounds /\ r.ids \in lists
  BY <1>2 DEF Request
<1>3. CASE r \in AppendRequest
  <2>1. r \in Request({"append"}, BatchSizes, {NoId}, {<<>>})
    BY <1>3 DEF AppendRequest
  <2>2. /\ r.op = "append" /\ r.conversation \in ConversationIds /\ r.size \in BatchSizes
        /\ r.from \in {NoId} /\ r.to \in {NoId} /\ r.ids \in {<<>>}
    BY <1>2, <2>1
  <2>3. r.ids \in Seq(MessageIds)
    BY <1>1, <2>2, StoreAssumption
  <2>4. r.op \in {"replace", "delete"} => r.from # NoId \/ r.to # NoId
    BY <1>3, <2>2
  <2> QED
    BY <2>2, <2>3, <2>4, StoreAssumption DEF Bound
<1>4. CASE r \in ReplaceRequest
  <2>1. r \in Request({"replace"}, {0}, Bound, IdLists \cup {<<>>})
    BY <1>4 DEF ReplaceRequest
  <2>2. /\ r.op = "replace" /\ r.conversation \in ConversationIds /\ r.size \in {0}
        /\ r.from \in Bound /\ r.to \in Bound /\ r.ids \in IdLists \cup {<<>>}
    BY <1>2, <2>1
  <2>3. r.ids \in Seq(MessageIds)
    BY <1>1, <2>2, StoreAssumption
  <2>4. r.op \in {"replace", "delete"} => r.from # NoId \/ r.to # NoId
    BY <1>4, <2>2 DEF ReplaceRequest
  <2> QED
    BY <2>2, <2>3, <2>4, StoreAssumption DEF Bound
<1>5. CASE r \in DeleteRequest
  <2>1. r \in Request({"delete"}, {0}, Bound, {<<>>})
    BY <1>5 DEF DeleteRequest
  <2>2. /\ r.op = "delete" /\ r.conversation \in ConversationIds /\ r.size \in {0}
        /\ r.from \in Bound /\ r.to \in Bound /\ r.ids \in {<<>>}
    BY <1>2, <2>1
  <2>3. r.ids \in Seq(MessageIds)
    BY <1>1, <2>2, StoreAssumption
  <2>4. r.op \in {"replace", "delete"} => r.from # NoId \/ r.to # NoId
    BY <1>5, <2>2 DEF DeleteRequest
  <2> QED
    BY <2>2, <2>3, <2>4, StoreAssumption DEF Bound
<1>6. CASE r \in SnapshotRequest
  <2>1. r \in Request({"snapshot"}, {0}, {NoId}, IdLists \ {<<>>})
    BY <1>6 DEF SnapshotRequest
  <2>2. /\ r.op = "snapshot" /\ r.conversation \in ConversationIds /\ r.size \in {0}
        /\ r.from \in {NoId} /\ r.to \in {NoId} /\ r.ids \in IdLists \ {<<>>}
    BY <1>2, <2>1
  <2>3. r.ids \in Seq(MessageIds)
    BY <1>1, <2>2, StoreAssumption
  <2>4. r.op \in {"replace", "delete"} => r.from # NoId \/ r.to # NoId
    BY <1>6, <2>2
  <2> QED
    BY <2>2, <2>3, <2>4, StoreAssumption DEF Bound
<1> QED
  BY <1>3, <1>4, <1>5, <1>6 DEF Requests

\* A valid range operation computes a list of messages to write back.
LEMMA NewOrderIsSequence ==
  ASSUME NEW r \in Requests, r.op \in {"replace", "delete"},
         NEW order \in Seq(MessageIds), RangeValid(r, order)
  PROVE  NewOrder(r, order) \in Seq(MessageIds) /\ CutIds(r, order) \in Seq(MessageIds)
<1>1. r.ids \in Seq(MessageIds) /\ <<>> \in Seq(MessageIds) /\ Len(order) \in Nat
  BY RequestFields, EmptySeq, LenProperties
<1>2. BoundsFound(order, r.from, r.to)
  BY DEF RangeValid
<1>3. CASE r.op = "replace"
  <2> DEFINE first == ReplaceFirst(order, r.from, r.to)
             last  == ReplaceLast(order, r.from, r.to)
  <2>1. r.from # NoId \/ r.to # NoId
    BY RequestFields
  <2>2. ReplaceSpecValid(order, r.from, r.to, r.ids)
    BY <1>3 DEF RangeValid
  <2>3. first \in 1..(Len(order) + 1) /\ last \in 0..Len(order) /\ first <= last + 1
    BY <1>2, <2>1, <2>2, ReplaceBounds
  <2> HIDE DEF first, last
  <2>4. IsSplice(Splice(order, first, last, r.ids), MessageIds, order, first, last, r.ids)
    BY <1>1, <2>3, SpliceProperties
  <2>5. SubSeq(order, first, last) \in Seq(MessageIds)
    BY <1>1, <2>3, PieceOfOrder
  <2> QED
    BY <1>3, <2>4, <2>5
    DEF IsSplice, NewOrder, CutIds, ReplaceResult, ReplacedIds, first, last
<1>4. CASE r.op = "delete"
  <2> DEFINE first == DeleteFirst(order, r.from)
             last  == DeleteLast(order, r.to)
  <2>1. DeleteSpecValid(order, r.from, r.to)
    BY <1>4 DEF RangeValid
  <2>2. first \in 1..Len(order) /\ last \in 1..Len(order) /\ first <= last
    BY <1>2, <2>1, DeleteBounds
  <2> HIDE DEF first, last
  <2>3. first \in 1..(Len(order) + 1) /\ last \in 0..Len(order) /\ first <= last + 1
    BY <1>1, <2>2
  <2>4. IsSplice(Splice(order, first, last, <<>>), MessageIds, order, first, last, <<>>)
    BY <1>1, <2>3, SpliceProperties
  <2>5. SubSeq(order, first, last) \in Seq(MessageIds)
    BY <1>1, <2>3, PieceOfOrder
  <2> QED
    BY <1>4, <2>4, <2>5
    DEF IsSplice, NewOrder, CutIds, DeleteResult, DeletedIds, first, last
<1> QED
  BY <1>3, <1>4

-----------------------------------------------------------------------------
(***************************************************************************)
(* Frame lemmas.                                                           *)
(***************************************************************************)

LEMMA ConflictsSymmetric ==
  ASSUME NEW mode1, NEW mode2
  PROVE  Conflicts(mode1, mode2) <=> Conflicts(mode2, mode1)
BY DEF Conflicts

\* Taking a lock respects the locks the others hold.
LEMMA LockingExcludes ==
  ASSUME LocksExclude, held \in [Clients -> LockModes], NEW c \in Clients,
         NEW mode, LockRow(c, mode), req' = req
  PROVE  LocksExclude'
<1> SUFFICES ASSUME NEW d \in Clients, NEW e \in Clients, d # e, Conv(d)' = Conv(e)'
             PROVE  ~Conflicts(held'[d], held'[e])
  BY DEF LocksExclude
<1>1. Conv(d) = Conv(e)
  BY DEF Conv
<1>2. ~Conflicts(held[d], held[e])
  BY <1>1 DEF LocksExclude
<1>3. \A x \in Clients : held'[x] = IF x = c /\ held[c] # "update" THEN mode ELSE held[x]
  BY DEF LockRow
<1>4. \A x \in Clients \ {c} : Conv(x) = Conv(c) => ~Conflicts(mode, held[x])
  BY DEF LockRow
<1>5. CASE d = c /\ held[c] # "update"
  BY <1>1, <1>3, <1>4, <1>5
<1>6. CASE e = c /\ held[c] # "update"
  BY <1>1, <1>3, <1>4, <1>6, ConflictsSymmetric
<1> QED
  BY <1>2, <1>3, <1>5, <1>6

\* A transaction without a lock is in nobody's way.
LEMMA NoLockExcludes ==
  ASSUME LocksExclude, NEW c \in Clients, held'[c] = "none",
         \A d \in Clients \ {c} : held'[d] = held[d] /\ req'[d] = req[d]
  PROVE  LocksExclude'
<1>1. \A mode : ~Conflicts("none", mode) /\ ~Conflicts(mode, "none")
  BY DEF Conflicts
<1> QED
  BY <1>1 DEF LocksExclude, Conv

\* Steps that insert no row, and commit none, keep the positions apart.
LEMMA PositionsKept ==
  ASSUME PositionsFresh, UNCHANGED <<conversation_items, last_position>>,
         \A d \in Clients : staged'[d].added = staged[d].added \/ staged'[d].added = {}
  PROVE  PositionsFresh'
<1>1. IsFiniteSet({})
  BY FS_EmptySet
<1>2. ASSUME NEW cv \in ConversationIds
      PROVE  /\ UpTo(conversation_items[cv], last_position)'
             /\ OnePositionEach(conversation_items[cv])'
  BY DEF PositionsFresh, UpTo, OnePositionEach
<1>3. ASSUME NEW d \in Clients
      PROVE  /\ UpTo(staged[d].added, last_position)'
             /\ OnePositionEach(staged[d].added)'
  BY <1>1 DEF PositionsFresh, UpTo, OnePositionEach
<1>4. ASSUME NEW d \in Clients
      PROVE  /\ \A cv \in ConversationIds : Apart(staged[d].added, conversation_items[cv])'
             /\ \A e \in Clients \ {d} : Apart(staged[d].added, staged[e].added)'
  BY DEF PositionsFresh, Apart
<1> QED
  BY <1>2, <1>3, <1>4 DEF PositionsFresh

\* A step of one transaction leaves the others where they are, unless it commits
\* rows of the conversation they are about to update or commit.
LEMMA OthersUndisturbed ==
  ASSUME NEW d \in Clients, AtStatement(d),
         pc'[d] = pc[d], req'[d] = req[d], held'[d] = held[d],
         working'[d] = working[d], staged'[d] = staged[d],
         pc[d] \in {"update", "commit"} =>
           \/ UNCHANGED <<conversation_items, message_count, version>>
           \/ /\ conversation_items'[Conv(d)] = conversation_items[Conv(d)]
              /\ message_count'[Conv(d)] = message_count[Conv(d)]
              /\ version'[Conv(d)] = version[Conv(d)]
  PROVE  AtStatement(d)'
<1>1. Conv(d)' = Conv(d)
  BY DEF Conv
<1>2. pc[d] \in {"update", "commit"} =>
        (Rewritten(d) <=> Rewritten(d)')
  BY <1>1 DEF Rewritten
<1>3. \A n : Appended(d, n) <=> Appended(d, n)'
  BY DEF Appended
<1>4. Unwritten(d) <=> Unwritten(d)'
  BY DEF Unwritten
<1>5. \A ops : Serves(d, ops) <=> Serves(d, ops)'
  BY DEF Serves
<1>6. pc[d] = "commit" => /\ message_count'[Conv(d)'] = message_count[Conv(d)]
                          /\ version'[Conv(d)'] = version[Conv(d)]
  BY <1>1
<1> QED
  BY <1>1, <1>2, <1>3, <1>4, <1>5, <1>6 DEF AtStatement

\* What a step of c, short of a commit, does to the others: nothing.
LEMMA OthersStay ==
  ASSUME StatementState, NEW c \in Clients,
         UNCHANGED <<conversation_items, message_count, version>>,
         \A d \in Clients \ {c} :
           /\ pc'[d] = pc[d] /\ req'[d] = req[d] /\ held'[d] = held[d]
           /\ working'[d] = working[d] /\ staged'[d] = staged[d],
         AtStatement(c)'
  PROVE  StatementState'
<1> SUFFICES ASSUME NEW d \in Clients \ {c}
             PROVE  AtStatement(d)'
  BY DEF StatementState
<1>1. AtStatement(d)
  BY DEF StatementState
<1> QED
  BY <1>1, OthersUndisturbed

LEMMA CountKept ==
  ASSUME CountMatchesItems, UNCHANGED <<conversation_items, message_count>>
  PROVE  CountMatchesItems'
BY DEF CountMatchesItems

-----------------------------------------------------------------------------
(***************************************************************************)
(* The initial state, calls and rollbacks.                                 *)
(***************************************************************************)

LEMMA NoWritesType == NoWrites \in StagedWrites
BY DEF NoWrites, StagedWrites

\* What a transaction stages is of the type of its writes.
LEMMA CreatedType ==
  ASSUME NEW w \in StagedWrites, NEW b \in BOOLEAN
  PROVE  [w EXCEPT !.created = b] \in StagedWrites
BY DEF StagedWrites

LEMMA InitInductive == Init => Inductive
<1> SUFFICES ASSUME Init
             PROVE  Inductive
  OBVIOUS
<1> USE DEF Init
<1>1. TypeOK
  BY NoWritesType, EmptySeq DEF TypeOK, LockModes
<1>2. LocksExclude
  BY DEF LocksExclude, Conflicts
<1>3. PositionsFresh
  BY FS_EmptySet DEF PositionsFresh, UpTo, OnePositionEach, Apart, NoWrites
<1>4. StatementState
  BY DEF StatementState, AtStatement, Unwritten, NoWrites
<1>5. CountMatchesItems
  BY FS_EmptySet DEF CountMatchesItems
<1> QED
  BY <1>1, <1>2, <1>3, <1>4, <1>5 DEF Inductive, StoreInvariant

\* However a transaction ends, its client is idle and holds nothing.
LEMMA FinishedIsIdle ==
  ASSUME TypeOK, NEW c \in Clients, Finish(c)
  PROVE  /\ pc'[c] = "idle" /\ req'[c] = NoRequest /\ held'[c] = "none"
         /\ staged'[c] = NoWrites
         /\ \A d \in Clients \ {c} :
              /\ pc'[d] = pc[d] /\ req'[d] = req[d] /\ held'[d] = held[d]
              /\ working'[d] = working[d] /\ staged'[d] = staged[d]
         /\ AtStatement(c)'
<1>1. /\ pc'[c] = "idle" /\ req'[c] = NoRequest /\ held'[c] = "none"
      /\ staged'[c] = NoWrites
  BY DEF TypeOK, Finish
<1>2. \A d \in Clients \ {c} :
        /\ pc'[d] = pc[d] /\ req'[d] = req[d] /\ held'[d] = held[d]
        /\ working'[d] = working[d] /\ staged'[d] = staged[d]
  BY DEF TypeOK, Finish
<1>3. AtStatement(c)'
  BY <1>1 DEF AtStatement, Unwritten, NoWrites
<1> QED
  BY <1>1, <1>2, <1>3

\* The variables that Finish sets keep their types.
LEMMA FinishTypes ==
  ASSUME TypeOK, NEW c \in Clients, Finish(c)
  PROVE  /\ last_position' \in Nat
         /\ pc' \in [Clients -> Statements \cup {"idle"}]
         /\ req' \in [Clients -> Requests \cup {NoRequest}]
         /\ held' \in [Clients -> LockModes]
         /\ working' \in [Clients -> Seq(MessageIds)]
         /\ cut' \in [Clients -> Seq(MessageIds)]
         /\ staged' \in [Clients -> StagedWrites]
         /\ calls' \in Nat
BY NoWritesType, EmptySeq DEF TypeOK, Finish, LockModes

LEMMA RollbackInductive ==
  ASSUME Inductive, NEW c \in Clients, Rollback(c)
  PROVE  Inductive'
<1> USE DEF Inductive, StoreInvariant
<1>1. Finish(c) /\ UNCHANGED tables
  BY DEF Rollback
<1>2. TypeOK'
  BY <1>1, FinishTypes DEF TypeOK, tables
<1>3. LocksExclude'
  BY <1>1, FinishedIsIdle, NoLockExcludes
<1>4. PositionsFresh'
  <2>1. \A d \in Clients : staged'[d].added = staged[d].added \/ staged'[d].added = {}
    BY <1>1, FinishedIsIdle DEF NoWrites
  <2> QED
    BY <1>1, <2>1, PositionsKept DEF Finish, tables
<1>5. StatementState'
  BY <1>1, FinishedIsIdle, OthersStay DEF tables
<1>6. CountMatchesItems'
  BY <1>1, CountKept DEF tables
<1> QED
  BY <1>2, <1>3, <1>4, <1>5, <1>6

LEMMA CallInductive ==
  ASSUME Inductive, NEW c \in Clients, Call(c)
  PROVE  Inductive'
<1> USE DEF Inductive, StoreInvariant
<1>1. PICK r \in Requests : /\ req' = [req EXCEPT ![c] = r]
                            /\ pc' = [pc EXCEPT ![c] = FirstStatement(r.op)]
  BY DEF Call
<1>2. /\ pc[c] = "idle"
      /\ calls' = calls + 1
      /\ UNCHANGED <<tables, last_position, held, working, cut, staged>>
  BY DEF Call
<1>3. r.op \in {"append", "replace", "delete", "snapshot"}
  BY RequestFields
<1>4. AtStatement(c)
  BY DEF StatementState
<1>5. TypeOK'
  <2>1. FirstStatement(r.op) \in Statements
    BY <1>3 DEF FirstStatement, Statements
  <2> QED
    BY <1>1, <1>2, <2>1 DEF TypeOK, tables
<1>6. \A d \in Clients \ {c} : req'[d] = req[d] /\ pc'[d] = pc[d]
  BY <1>1 DEF TypeOK
<1>7. LocksExclude'
  BY <1>2, <1>4, <1>6, NoLockExcludes DEF AtStatement
<1>8. PositionsFresh'
  BY <1>2, PositionsKept DEF tables
<1>9. StatementState'
  <2>1. req'[c] = r /\ pc'[c] = FirstStatement(r.op)
    BY <1>1 DEF TypeOK
  <2>2. held[c] = "none" /\ Unwritten(c)
    BY <1>2, <1>4 DEF AtStatement
  <2>3. AtStatement(c)'
    BY <1>2, <1>3, <2>1, <2>2 DEF AtStatement, FirstStatement, Serves, Unwritten, tables
  <2> QED
    BY <1>2, <1>6, <2>3, OthersStay DEF tables
<1>10. CountMatchesItems'
  BY <1>2, CountKept DEF tables
<1> QED
  BY <1>5, <1>7, <1>8, <1>9, <1>10

-----------------------------------------------------------------------------
(***************************************************************************)
(* AppendConversationMessages.                                             *)
(***************************************************************************)

LEMMA EnsureInductive ==
  ASSUME Inductive, NEW c \in Clients, EnsureConversation(c)
  PROVE  Inductive'
<1> USE DEF Inductive, StoreInvariant
<1>1. /\ pc[c] = "ensure"
      /\ pc' = [pc EXCEPT ![c] = "insert"]
      /\ staged' = [staged EXCEPT ![c].created = Conv(c) \notin conversations]
      /\ UNCHANGED <<tables, last_position, req, held, working, cut, calls>>
  BY DEF EnsureConversation, Goto
<1>2. AtStatement(c)
  BY DEF StatementState
<1>3. TypeOK'
  <2> DEFINE new == Conv(c) \notin conversations
  <2>1. new \in BOOLEAN
    OBVIOUS
  <2>2. staged' = [staged EXCEPT ![c] = [staged[c] EXCEPT !.created = new]]
    BY <1>1
  <2> HIDE DEF new
  <2>3. staged' \in [Clients -> StagedWrites]
    BY <2>1, <2>2, CreatedType DEF TypeOK
  <2> QED
    BY <1>1, <2>3 DEF TypeOK, tables, Statements
<1>4. LocksExclude'
  BY <1>1, <1>2, NoLockExcludes DEF AtStatement
<1>5. \A d \in Clients : staged'[d].added = staged[d].added
  BY <1>1 DEF TypeOK, StagedWrites
<1>6. PositionsFresh'
  BY <1>1, <1>5, PositionsKept DEF tables
<1>7. AtStatement(c)'
  <2>1. /\ pc'[c] = "insert" /\ req'[c] = req[c] /\ held'[c] = held[c]
        /\ staged'[c].added = staged[c].added /\ staged'[c].removed = staged[c].removed
    BY <1>1 DEF TypeOK, StagedWrites
  <2>2. Serves(c, {"append"}) /\ held[c] = "none" /\ Unwritten(c)
    BY <1>1, <1>2 DEF AtStatement
  <2>3. Serves(c, {"append"})'
    BY <2>1, <2>2 DEF Serves
  <2>4. Appended(c, 0)'
    BY <2>1, <2>2, FS_EmptySet DEF Appended, Unwritten
  <2>5. 0 \in 0..(req'[c].size - 1)
    BY <2>1, <2>2, RequestFields DEF Serves
  <2> QED
    BY <2>1, <2>2, <2>3, <2>4, <2>5 DEF AtStatement
<1>8. StatementState'
  BY <1>1, <1>7, OthersStay DEF tables, TypeOK
<1>9. CountMatchesItems'
  BY <1>1, CountKept DEF tables
<1> QED
  BY <1>3, <1>4, <1>6, <1>8, <1>9

\* Rows inserted past the last position are apart from all other rows.
LEMMA PositionsExtended ==
  ASSUME TypeOK, PositionsFresh, NEW c \in Clients,
         UNCHANGED conversation_items, last_position' \in Nat, last_position <= last_position',
         NEW old, old = staged[c].added \/ old = {}, NEW new,
         new \subseteq Row, OnePositionEach(new), IsFiniteSet(new),
         \A r \in new : last_position < r.position /\ r.position <= last_position',
         staged'[c].added = old \cup new,
         \A d \in Clients \ {c} : staged'[d] = staged[d]
  PROVE  PositionsFresh'
<1> DEFINE rows == staged[c].added
<1>1. /\ old \subseteq rows /\ rows \subseteq Row /\ last_position \in Nat
      /\ \A d \in Clients : staged[d].added \subseteq Row
      /\ \A cv \in ConversationIds : conversation_items[cv] \subseteq Row
  BY DEF TypeOK, StagedWrites
<1>2. \A r \in Row : r.position \in Nat
  BY DEF Row
<1>3. IsFiniteSet(old)
  BY FS_EmptySet DEF PositionsFresh, UpTo
<1>4. ASSUME NEW d \in Clients
      PROVE  \A r \in staged[d].added : r.position <= last_position
  BY DEF PositionsFresh, UpTo
<1>5. ASSUME NEW cv \in ConversationIds
      PROVE  \A r \in conversation_items[cv] : r.position <= last_position
  BY DEF PositionsFresh, UpTo
<1>6. ASSUME NEW cv \in ConversationIds
      PROVE  /\ UpTo(conversation_items[cv], last_position)'
             /\ OnePositionEach(conversation_items[cv])'
  BY <1>1, <1>2, <1>5 DEF PositionsFresh, UpTo, OnePositionEach
<1>7. UpTo(staged[c].added, last_position)' /\ OnePositionEach(staged[c].added)'
  <2>1. IsFiniteSet(old \cup new)
    BY <1>3, FS_Union
  <2>2. \A r \in old \cup new : r.position <= last_position'
    BY <1>1, <1>2, <1>4
  <2>3. OnePositionEach(old \cup new)
    BY <1>1, <1>2, <1>4 DEF OnePositionEach, PositionsFresh
  <2> QED
    BY <2>1, <2>2, <2>3 DEF UpTo, OnePositionEach
<1>8. ASSUME NEW d \in Clients \ {c}
      PROVE  UpTo(staged[d].added, last_position)' /\ OnePositionEach(staged[d].added)'
  <2>1. staged'[d].added = staged[d].added
    OBVIOUS
  <2> QED
    BY <1>1, <1>2, <1>4, <2>1 DEF PositionsFresh, UpTo, OnePositionEach
<1>9. ASSUME NEW d \in Clients, NEW cv \in ConversationIds
      PROVE  Apart(staged[d].added, conversation_items[cv])'
  <2>1. CASE d = c
    BY <1>1, <1>2, <1>5, <2>1 DEF Apart, PositionsFresh
  <2>2. CASE d # c
    BY <2>2 DEF Apart, PositionsFresh
  <2> QED
    BY <2>1, <2>2
<1>10. ASSUME NEW d \in Clients, NEW e \in Clients \ {d}
       PROVE  Apart(staged[d].added, staged[e].added)'
  <2>1. CASE d = c
    <3>1. staged'[e].added = staged[e].added
      BY <2>1
    <3> QED
      BY <1>1, <1>2, <1>4, <2>1, <3>1 DEF Apart, PositionsFresh
  <2>2. CASE e = c
    <3>1. staged'[d].added = staged[d].added
      BY <2>2
    <3> QED
      BY <1>1, <1>2, <1>4, <2>2, <3>1 DEF Apart, PositionsFresh
  <2>3. CASE d # c /\ e # c
    BY <2>3 DEF Apart, PositionsFresh
  <2> QED
    BY <2>1, <2>2, <2>3
<1> QED
  BY <1>6, <1>7, <1>8, <1>9, <1>10 DEF PositionsFresh

\* The lock held after LockRow.
LEMMA LockHeld ==
  ASSUME held \in [Clients -> LockModes], NEW c \in Clients, NEW mode \in LockModes,
         LockRow(c, mode)
  PROVE  /\ held' \in [Clients -> LockModes]
         /\ held'[c] = IF held[c] = "update" THEN "update" ELSE mode
         /\ \A d \in Clients \ {c} : held'[d] = held[d]
BY DEF LockRow

LEMMA InsertInductive ==
  ASSUME Inductive, NEW c \in Clients, InsertMessage(c)
  PROVE  Inductive'
<1> USE DEF Inductive, StoreInvariant
<1>1. PICK m \in MessageIds :
        staged' = [staged EXCEPT ![c].messages = @ \cup {m},
                                 ![c].added = @ \cup RowsAfter(last_position, <<m>>)]
  BY DEF InsertMessage
<1>2. /\ pc[c] = "insert"
      /\ LockRow(c, "key_share")
      /\ last_position' = last_position + 1
      /\ pc' = [pc EXCEPT ![c] = IF Cardinality(staged[c].added) + 1 = req[c].size
                                 THEN "update" ELSE "insert"]
      /\ UNCHANGED <<tables, req, working, cut, calls>>
  BY DEF InsertMessage, Goto
<1> DEFINE new == RowsAfter(last_position, <<m>>)
<1>3. /\ new \subseteq Row /\ IsFiniteSet(new) /\ Cardinality(new) = 1
      /\ OnePositionEach(new)
      /\ \A r \in new : last_position < r.position /\ r.position <= last_position + 1
  <2>1. <<m>> \in Seq(MessageIds) /\ Len(<<m>>) = 1
    OBVIOUS
  <2>2. last_position \in Nat /\ last_position \in Int
    BY DEF TypeOK
  <2> QED
    BY <2>1, <2>2, RowsAfterProperties
<1> HIDE DEF new
<1>4. /\ staged'[c].added = staged[c].added \cup new
      /\ staged'[c].removed = staged[c].removed
      /\ \A d \in Clients \ {c} : staged'[d] = staged[d]
      /\ staged' \in [Clients -> StagedWrites]
  <2> DEFINE w == [staged[c] EXCEPT !.messages = @ \cup {m}, !.added = @ \cup new]
  <2>1. staged[c] \in StagedWrites
    BY DEF TypeOK
  <2>2. staged' = [staged EXCEPT ![c] = w]
    BY <1>1 DEF new
  <2>3. /\ w \in StagedWrites
        /\ w.added = staged[c].added \cup new
        /\ w.removed = staged[c].removed
    <3> HIDE DEF w
    <3>1. w = [staged[c] EXCEPT !.messages = @ \cup {m}, !.added = @ \cup new]
      BY DEF w
    <3> QED
      BY <1>3, <2>1, <3>1 DEF StagedWrites
  <2> HIDE DEF w
  <2> QED
    BY <2>2, <2>3 DEF TypeOK
<1>5. AtStatement(c)
  BY DEF StatementState
<1>6. /\ Serves(c, {"append"})
      /\ held[c] \in {"none", "key_share"}
      /\ \E n \in 0..(req[c].size - 1) : Appended(c, n)
  BY <1>2, <1>5 DEF AtStatement
<1>7. PICK n \in 0..(req[c].size - 1) : Appended(c, n)
  BY <1>6
<1>8. req[c].size \in Nat \ {0}
  BY <1>6, RequestFields DEF Serves
<1>9. Cardinality(staged'[c].added) = n + 1
  <2>1. Cardinality(staged[c].added) = n /\ IsFiniteSet(staged[c].added)
    BY <1>7 DEF Appended, PositionsFresh, UpTo
  <2>2. staged[c].added \cap new = {}
    <3>1. \A r \in staged[c].added : r.position <= last_position
      BY DEF PositionsFresh, UpTo
    <3>2. \A r \in new : r.position \in Nat
      BY <1>3 DEF Row
    <3>3. last_position \in Nat
      BY DEF TypeOK
    <3> QED
      BY <1>3, <3>1, <3>2, <3>3
  <2>3. Cardinality(staged[c].added \cap new) = 0
    BY <2>2, FS_EmptySet
  <2>4. Cardinality(staged[c].added \cup new) = n + 1 - 0
    BY <1>3, <2>1, <2>3, FS_Union
  <2> QED
    BY <1>4, <2>4
<1>10. TypeOK'
  <2>1. held' \in [Clients -> LockModes]
    BY <1>2, LockHeld DEF TypeOK, LockModes
  <2>2. pc' \in [Clients -> Statements \cup {"idle"}]
    BY <1>2 DEF TypeOK, Statements
  <2> QED
    BY <1>2, <1>4, <2>1, <2>2 DEF TypeOK, tables
<1>11. LocksExclude'
  BY <1>2, LockingExcludes DEF TypeOK
<1>12. PositionsFresh'
  <2>1. last_position' \in Nat /\ last_position <= last_position'
    BY <1>2 DEF TypeOK
  <2>2. UNCHANGED conversation_items
    BY <1>2 DEF tables
  <2> QED
    BY <1>2, <1>3, <1>4, <2>1, <2>2, PositionsExtended
<1>13. AtStatement(c)'
  <2>1. req'[c] = req[c] /\ held'[c] = "key_share"
    BY <1>2, <1>6, LockHeld DEF TypeOK, LockModes
  <2>2. Serves(c, {"append"})'
    BY <1>6, <2>1 DEF Serves
  <2>3. Appended(c, n + 1)'
    BY <1>4, <1>7, <1>9 DEF Appended
  <2>4. Cardinality(staged[c].added) = n
    BY <1>7 DEF Appended
  <2>5. CASE n + 1 = req[c].size
    <3>1. pc'[c] = "update"
      BY <1>2, <2>4, <2>5 DEF TypeOK
    <3> QED
      BY <2>1, <2>2, <2>3, <2>5, <3>1 DEF AtStatement
  <2>6. CASE n + 1 # req[c].size
    <3>1. pc'[c] = "insert"
      BY <1>2, <2>4, <2>6 DEF TypeOK
    <3>2. n + 1 \in 0..(req'[c].size - 1)
      BY <1>8, <2>1, <2>6
    <3> QED
      BY <2>1, <2>2, <2>3, <3>1, <3>2 DEF AtStatement
  <2> QED
    BY <2>5, <2>6
<1>14. StatementState'
  <2>1. \A d \in Clients \ {c} :
          /\ pc'[d] = pc[d] /\ req'[d] = req[d] /\ held'[d] = held[d]
          /\ working'[d] = working[d] /\ staged'[d] = staged[d]
    BY <1>2, <1>4, LockHeld DEF TypeOK, LockModes
  <2> QED
    BY <1>2, <1>13, <2>1, OthersStay DEF tables
<1>15. CountMatchesItems'
  BY <1>2, CountKept DEF tables
<1> QED
  BY <1>10, <1>11, <1>12, <1>14, <1>15

-----------------------------------------------------------------------------
(***************************************************************************)
(* Steps that only move control on, or take a lock as well.                *)
(***************************************************************************)

\* A step that changes nothing but the statement and the lock of c.
LEMMA MoveInductive ==
  ASSUME Inductive, NEW c \in Clients, NEW label \in Statements, Goto(c, label),
         held' \in [Clients -> LockModes], \A d \in Clients \ {c} : held'[d] = held[d],
         working' \in [Clients -> Seq(MessageIds)], cut' \in [Clients -> Seq(MessageIds)],
         \A d \in Clients \ {c} : working'[d] = working[d],
         UNCHANGED <<tables, last_position, req, staged, calls>>,
         LocksExclude', AtStatement(c)'
  PROVE  Inductive'
<1> USE DEF Inductive, StoreInvariant
<1>1. pc' \in [Clients -> Statements \cup {"idle"}] /\ \A d \in Clients \ {c} : pc'[d] = pc[d]
  BY DEF Goto, TypeOK
<1>2. TypeOK'
  BY <1>1 DEF TypeOK, tables
<1>3. PositionsFresh'
  BY PositionsKept DEF tables
<1>4. StatementState'
  BY <1>1, OthersStay DEF tables
<1>5. CountMatchesItems'
  BY CountKept DEF tables
<1> QED
  BY <1>2, <1>3, <1>4, <1>5

LEMMA LockInductive ==
  ASSUME Inductive, NEW c \in Clients, LockConversation(c)
  PROVE  Inductive'
<1> USE DEF Inductive, StoreInvariant
<1>1. CASE Rollback(c)
  BY <1>1, RollbackInductive
<1>2. CASE ~Rollback(c)
  <2>1. /\ pc[c] = "lock"
        /\ LockRow(c, "update")
        /\ Goto(c, "read")
        /\ UNCHANGED <<tables, last_position, req, working, cut, staged, calls>>
    BY <1>2 DEF LockConversation, SelectLock
  <2>2. /\ held' \in [Clients -> LockModes] /\ held'[c] = "update"
        /\ \A d \in Clients \ {c} : held'[d] = held[d]
    BY <2>1, LockHeld DEF TypeOK, LockModes
  <2>3. LocksExclude'
    BY <2>1, LockingExcludes DEF TypeOK
  <2>4. Serves(c, {"replace", "delete"}) /\ Unwritten(c)
    BY <2>1 DEF StatementState, AtStatement
  <2>5. pc'[c] = "read"
    BY <2>1 DEF Goto, TypeOK
  <2>6. AtStatement(c)'
    BY <2>1, <2>2, <2>4, <2>5 DEF AtStatement, Serves, Unwritten
  <2> QED
    BY <2>1, <2>2, <2>3, <2>6, MoveInductive DEF Statements, TypeOK
<1> QED
  BY <1>1, <1>2

LEMMA ReadInductive ==
  ASSUME Inductive, NEW c \in Clients, ReadOrder(c)
  PROVE  Inductive'
<1> USE DEF Inductive, StoreInvariant
<1> DEFINE order == OrderBy(conversation_items[Conv(c)])
<1>1. CASE Rollback(c)
  BY <1>1, RollbackInductive
<1>2. CASE ~Rollback(c)
  <2>1. /\ pc[c] = "read"
        /\ RangeValid(req[c], order)
        /\ working' = [working EXCEPT ![c] = NewOrder(req[c], order)]
        /\ cut' = [cut EXCEPT ![c] = CutIds(req[c], order)]
        /\ Goto(c, IF req[c].op = "replace" THEN "verify" ELSE "rewrite")
        /\ UNCHANGED <<tables, last_position, req, held, staged, calls>>
    BY <1>2 DEF ReadOrder
  <2>2. Serves(c, {"replace", "delete"}) /\ held[c] = "update" /\ Unwritten(c)
    BY <2>1 DEF StatementState, AtStatement
  <2>3. Conv(c) \in ConversationIds
    BY <2>2, RequestFields DEF Serves, Conv
  <2>4. order \in Seq(MessageIds)
    BY <2>3, OrderByProperties, RowsAreListed DEF TypeOK, PositionsFresh, UpTo
  <2> HIDE DEF order
  <2>5. NewOrder(req[c], order) \in Seq(MessageIds) /\ CutIds(req[c], order) \in Seq(MessageIds)
    BY <2>1, <2>2, <2>4, NewOrderIsSequence DEF Serves
  <2>6. /\ working' \in [Clients -> Seq(MessageIds)] /\ cut' \in [Clients -> Seq(MessageIds)]
        /\ \A d \in Clients \ {c} : working'[d] = working[d]
    BY <2>1, <2>5 DEF TypeOK
  <2>7. LocksExclude'
    BY <2>1 DEF LocksExclude, Conv
  <2>8. pc'[c] = IF req[c].op = "replace" THEN "verify" ELSE "rewrite"
    BY <2>1 DEF Goto, TypeOK
  <2>9. AtStatement(c)'
    BY <2>1, <2>2, <2>8 DEF AtStatement, Serves, Unwritten
  <2>10. PICK label \in Statements : Goto(c, label)
    BY <2>1 DEF Statements
  <2> QED
    BY <2>1, <2>6, <2>7, <2>9, <2>10, MoveInductive DEF TypeOK
<1> QED
  BY <1>1, <1>2

LEMMA VerifyInductive ==
  ASSUME Inductive, NEW c \in Clients, VerifyOrder(c)
  PROVE  Inductive'
<1> USE DEF Inductive, StoreInvariant
<1>1. CASE Rollback(c)
  BY <1>1, RollbackInductive
<1>2. CASE ~Rollback(c)
  <2>1. /\ pc[c] = "verify"
        /\ Goto(c, "rewrite")
        /\ UNCHANGED <<tables, last_position, req, held, working, cut, staged, calls>>
    BY <1>2 DEF VerifyOrder
  <2>2. Serves(c, {"replace"}) /\ held[c] = "update" /\ Unwritten(c)
    BY <2>1 DEF StatementState, AtStatement
  <2>3. LocksExclude'
    BY <2>1 DEF LocksExclude, Conv
  <2>4. pc'[c] = "rewrite"
    BY <2>1 DEF Goto, TypeOK
  <2>5. AtStatement(c)'
    BY <2>1, <2>2, <2>4 DEF AtStatement, Serves, Unwritten
  <2> QED
    BY <2>1, <2>3, <2>5, MoveInductive DEF Statements, TypeOK
<1> QED
  BY <1>1, <1>2

LEMMA CheckInductive ==
  ASSUME Inductive, NEW c \in Clients, CheckConversation(c)
  PROVE  Inductive'
<1> USE DEF Inductive, StoreInvariant
<1>1. CASE Rollback(c)
  BY <1>1, RollbackInductive
<1>2. CASE ~Rollback(c)
  <2>1. /\ pc[c] = "check"
        /\ Goto(c, "load")
        /\ UNCHANGED <<tables, last_position, req, held, working, cut, staged, calls>>
    BY <1>2 DEF CheckConversation
  <2>2. Serves(c, {"snapshot"}) /\ held[c] = "none" /\ Unwritten(c)
    BY <2>1 DEF StatementState, AtStatement
  <2>3. LocksExclude'
    BY <2>1 DEF LocksExclude, Conv
  <2>4. pc'[c] = "load"
    BY <2>1 DEF Goto, TypeOK
  <2>5. AtStatement(c)'
    BY <2>1, <2>2, <2>4 DEF AtStatement, Serves, Unwritten
  <2> QED
    BY <2>1, <2>3, <2>5, MoveInductive DEF Statements, TypeOK
<1> QED
  BY <1>1, <1>2

LEMMA LoadInductive ==
  ASSUME Inductive, NEW c \in Clients, LoadMessages(c)
  PROVE  Inductive'
<1> USE DEF Inductive, StoreInvariant
<1>1. CASE Rollback(c)
  BY <1>1, RollbackInductive
<1>2. CASE ~Rollback(c)
  <2>1. /\ pc[c] = "load"
        /\ Goto(c, "insert_snapshot")
        /\ UNCHANGED <<tables, last_position, req, held, working, cut, staged, calls>>
    BY <1>2 DEF LoadMessages
  <2>2. Serves(c, {"snapshot"}) /\ held[c] = "none" /\ Unwritten(c)
    BY <2>1 DEF StatementState, AtStatement
  <2>3. LocksExclude'
    BY <2>1 DEF LocksExclude, Conv
  <2>4. pc'[c] = "insert_snapshot"
    BY <2>1 DEF Goto, TypeOK
  <2>5. AtStatement(c)'
    BY <2>1, <2>2, <2>4 DEF AtStatement, Serves, Unwritten
  <2> QED
    BY <2>1, <2>3, <2>5, MoveInductive DEF Statements, TypeOK
<1> QED
  BY <1>1, <1>2

-----------------------------------------------------------------------------
(***************************************************************************)
(* Steps that stage writes.                                                *)
(***************************************************************************)

\* The rows of a rewritten conversation all lie past those it had.
LEMMA RewriteInductive ==
  ASSUME Inductive, NEW c \in Clients, RewriteOrder(c)
  PROVE  Inductive'
<1> USE DEF Inductive, StoreInvariant
<1> DEFINE old == conversation_items[Conv(c)]
           new == RowsAfter(last_position, working[c])
           ids == IF req[c].op = "delete" THEN Range(cut[c]) ELSE {}
<1>1. /\ pc[c] = "rewrite"
      /\ staged' = [staged EXCEPT ![c].removed = old, ![c].added = new, ![c].purged = ids]
      /\ last_position' = last_position + Len(working[c])
      /\ Goto(c, "update")
      /\ UNCHANGED <<tables, req, held, working, cut, calls>>
  BY DEF RewriteOrder
<1>2. Serves(c, {"replace", "delete"}) /\ held[c] = "update"
  BY <1>1 DEF StatementState, AtStatement
<1>3. Conv(c) \in ConversationIds
  BY <1>2, RequestFields DEF Serves, Conv
<1>4. working[c] \in Seq(MessageIds) /\ Len(working[c]) \in Nat /\ last_position \in Nat
  BY LenProperties DEF TypeOK
<1>5. /\ new \subseteq Row /\ IsFiniteSet(new) /\ Cardinality(new) = Len(working[c])
      /\ OnePositionEach(new)
      /\ \A r \in new : last_position < r.position /\ r.position <= last_position'
  BY <1>1, <1>4, RowsAfterProperties
<1>6. old \subseteq Row /\ \A q \in old : q.position <= last_position
  BY <1>3 DEF TypeOK, PositionsFresh, UpTo
<1>7. ids \subseteq MessageIds
  BY LenProperties DEF TypeOK, Range
<1> HIDE DEF old, new, ids
<1>8. /\ staged' \in [Clients -> StagedWrites]
      /\ staged'[c].added = new /\ staged'[c].removed = old
      /\ \A d \in Clients \ {c} : staged'[d] = staged[d]
  <2> DEFINE w == [staged[c] EXCEPT !.removed = old, !.added = new, !.purged = ids]
  <2>1. staged[c] \in StagedWrites
    BY DEF TypeOK
  <2>2. staged' = [staged EXCEPT ![c] = w]
    BY <1>1
  <2>3. w \in StagedWrites /\ w.added = new /\ w.removed = old
    BY <1>5, <1>6, <1>7, <2>1 DEF StagedWrites
  <2> HIDE DEF w
  <2> QED
    BY <2>2, <2>3 DEF TypeOK
<1>9. TypeOK'
  <2>1. pc' \in [Clients -> Statements \cup {"idle"}]
    BY <1>1 DEF TypeOK, Statements, Goto
  <2> QED
    BY <1>1, <1>4, <1>8, <2>1 DEF TypeOK, tables
<1>10. LocksExclude'
  BY <1>1 DEF LocksExclude, Conv
<1>11. PositionsFresh'
  <2>1. last_position' \in Nat /\ last_position <= last_position'
    BY <1>1, <1>4
  <2>2. UNCHANGED conversation_items
    BY <1>1 DEF tables
  <2>3. staged'[c].added = {} \cup new
    BY <1>8
  <2> QED
    BY <1>5, <1>8, <2>1, <2>2, <2>3, PositionsExtended
<1>12. AtStatement(c)'
  <2>1. pc'[c] = "update" /\ Conv(c)' = Conv(c)
    BY <1>1 DEF Goto, TypeOK, Conv
  <2>2. \A r \in new, q \in old : q.position < r.position
    <3>1. \A r \in Row : r.position \in Nat
      BY DEF Row
    <3> QED
      BY <1>4, <1>5, <1>6, <3>1
  <2>3. Rewritten(c)'
    BY <1>1, <1>5, <1>8, <2>1, <2>2 DEF Rewritten, tables, old
  <2> QED
    BY <1>1, <1>2, <2>1, <2>3 DEF AtStatement, Serves
<1>13. StatementState'
  BY <1>1, <1>8, <1>12, OthersStay DEF tables, TypeOK, Goto
<1>14. CountMatchesItems'
  BY <1>1, CountKept DEF tables
<1> QED
  BY <1>9, <1>10, <1>11, <1>13, <1>14

\* A step that stages something else than rows.
LEMMA StageInductive ==
  ASSUME Inductive, NEW c \in Clients, NEW mode \in LockModes, LockRow(c, mode),
         Goto(c, "commit"), NEW w \in StagedWrites, staged' = [staged EXCEPT ![c] = w],
         w.added = staged[c].added,
         UNCHANGED <<tables, last_position, req, working, cut, calls>>,
         AtStatement(c)'
  PROVE  Inductive'
<1> USE DEF Inductive, StoreInvariant
<1>1. /\ staged' \in [Clients -> StagedWrites]
      /\ staged'[c] = w /\ \A d \in Clients \ {c} : staged'[d] = staged[d]
  BY DEF TypeOK
<1>2. held' \in [Clients -> LockModes] /\ \A d \in Clients \ {c} : held'[d] = held[d]
  BY LockHeld DEF TypeOK
<1>3. pc' \in [Clients -> Statements \cup {"idle"}] /\ \A d \in Clients \ {c} : pc'[d] = pc[d]
  BY DEF Goto, TypeOK, Statements
<1>4. TypeOK'
  BY <1>1, <1>2, <1>3 DEF TypeOK, tables
<1>5. LocksExclude'
  BY LockingExcludes DEF TypeOK
<1>6. PositionsFresh'
  <2>1. \A d \in Clients : staged'[d].added = staged[d].added
    BY <1>1
  <2> QED
    BY <2>1, PositionsKept DEF tables
<1>7. StatementState'
  BY <1>1, <1>2, <1>3, OthersStay DEF tables
<1>8. CountMatchesItems'
  BY CountKept DEF tables
<1> QED
  BY <1>4, <1>5, <1>6, <1>7, <1>8

LEMMA UpdateInductive ==
  ASSUME Inductive, NEW c \in Clients, UpdateConversation(c)
  PROVE  Inductive'
<1> USE DEF Inductive, StoreInvariant
<1> DEFINE count == NewCount(c)
           ver   == NewVersion(c)
           w     == [staged[c] EXCEPT !.message_count = count, !.version = ver]
<1>1. /\ pc[c] = "update"
      /\ LockRow(c, "no_key_update")
      /\ staged' = [staged EXCEPT ![c] = w]
      /\ Goto(c, "commit")
      /\ UNCHANGED <<tables, last_position, req, working, cut, calls>>
  BY DEF UpdateConversation, UpdateLock
<1>2. \/ Serves(c, {"append"}) /\ held[c] = "key_share" /\ Appended(c, req[c].size)
      \/ Serves(c, {"replace", "delete"}) /\ held[c] = "update" /\ Rewritten(c)
  BY <1>1 DEF StatementState, AtStatement
<1>3. Conv(c) \in ConversationIds /\ req[c].size \in Nat
  BY <1>2, RequestFields DEF Serves, Conv
<1>4. /\ count \in Nat /\ ver \in Nat
      /\ ver = version[Conv(c)] + 1
      /\ req[c].op = "append" => count = message_count[Conv(c)] + req[c].size
      /\ req[c].op # "append" => count = Len(working[c])
  <2>1. message_count[Conv(c)] \in Nat /\ version[Conv(c)] \in Nat /\ Len(working[c]) \in Nat
    BY <1>3, LenProperties DEF TypeOK
  <2> QED
    BY <1>3, <2>1 DEF NewCount, NewVersion
<1> HIDE DEF count, ver
<1>5. /\ w \in StagedWrites
      /\ w.added = staged[c].added /\ w.removed = staged[c].removed
      /\ w.message_count = count /\ w.version = ver
  <2>1. staged[c] \in StagedWrites
    BY DEF TypeOK
  <2> QED
    BY <1>4, <2>1 DEF StagedWrites
<1> HIDE DEF w
<1>6. /\ staged'[c] = w /\ pc'[c] = "commit"
      /\ held'[c] = IF held[c] = "update" THEN "update" ELSE "no_key_update"
  BY <1>1, LockHeld DEF TypeOK, Goto, LockModes
<1>7. AtStatement(c)'
  <2>1. /\ Conv(c)' = Conv(c) /\ req'[c] = req[c] /\ working'[c] = working[c]
        /\ UNCHANGED <<conversation_items, message_count, version>>
    BY <1>1 DEF Conv, tables
  <2>2. CASE Serves(c, {"append"}) /\ held[c] = "key_share" /\ Appended(c, req[c].size)
    <3>1. Serves(c, {"append"})' /\ Appended(c, req[c].size)' /\ held'[c] = "no_key_update"
      BY <1>5, <1>6, <2>1, <2>2 DEF Serves, Appended
    <3>2. /\ staged'[c].message_count = message_count'[Conv(c)'] + req'[c].size
          /\ staged'[c].version = version'[Conv(c)'] + 1
      BY <1>4, <1>5, <1>6, <2>1, <2>2 DEF Serves
    <3> QED
      BY <1>6, <3>1, <3>2 DEF AtStatement
  <2>3. CASE Serves(c, {"replace", "delete"}) /\ held[c] = "update" /\ Rewritten(c)
    <3>1. Serves(c, {"replace", "delete"})' /\ Rewritten(c)' /\ held'[c] = "update"
      BY <1>5, <1>6, <2>1, <2>3 DEF Serves, Rewritten
    <3>2. /\ staged'[c].message_count = Len(working'[c])
          /\ staged'[c].version = version'[Conv(c)'] + 1
      BY <1>4, <1>5, <1>6, <2>1, <2>3 DEF Serves
    <3> QED
      BY <1>6, <3>1, <3>2 DEF AtStatement
  <2> QED
    BY <1>2, <2>2, <2>3
<1> QED
  BY <1>1, <1>5, <1>7, StageInductive DEF LockModes

LEMMA InsertSnapshotInductive ==
  ASSUME Inductive, NEW c \in Clients, InsertSnapshot(c)
  PROVE  Inductive'
<1> USE DEF Inductive, StoreInvariant
<1>1. PICK s \in SnapshotIds :
        staged' = [staged EXCEPT ![c].snapshots =
                     {[id |-> s, conversation |-> Conv(c), items |-> req[c].ids]}]
  BY DEF InsertSnapshot
<1> DEFINE taken == {[id |-> s, conversation |-> Conv(c), items |-> req[c].ids]}
           w     == [staged[c] EXCEPT !.snapshots = taken]
<1>2. /\ pc[c] = "insert_snapshot"
      /\ LockRow(c, "key_share")
      /\ staged' = [staged EXCEPT ![c] = w]
      /\ Goto(c, "commit")
      /\ UNCHANGED <<tables, last_position, req, working, cut, calls>>
  BY <1>1 DEF InsertSnapshot
<1>3. Serves(c, {"snapshot"}) /\ held[c] = "none" /\ Unwritten(c)
  BY <1>2 DEF StatementState, AtStatement
<1>4. taken \subseteq Snapshot
  BY <1>3, RequestFields DEF Serves, Conv, Snapshot
<1> HIDE DEF taken
<1>5. /\ w \in StagedWrites
      /\ w.created = staged[c].created
      /\ w.added = staged[c].added /\ w.removed = staged[c].removed
  <2>1. staged[c] \in StagedWrites
    BY DEF TypeOK
  <2> QED
    BY <1>4, <2>1 DEF StagedWrites
<1> HIDE DEF w
<1>6. staged'[c] = w /\ pc'[c] = "commit" /\ held'[c] = "key_share"
  BY <1>2, <1>3, LockHeld DEF TypeOK, Goto, LockModes
<1>7. AtStatement(c)'
  BY <1>2, <1>3, <1>5, <1>6 DEF AtStatement, Serves, Unwritten
<1> QED
  BY <1>2, <1>5, <1>7, StageInductive DEF LockModes

-----------------------------------------------------------------------------
(***************************************************************************)
(* Commits.                                                                *)
(***************************************************************************)

\* What a commit does to the rows of the conversations, by operation.
CommitOf(c) ==
  LET cv == Conv(c)
  IN  \/ /\ conversation_items'[cv] = conversation_items[cv] \cup staged[c].added
         /\ Cardinality(staged[c].added) = req[c].size
         /\ message_count'[cv] = message_count[cv] + req[c].size
         /\ version'[cv] = version[cv] + 1
         /\ held[c] = "no_key_update"
      \/ /\ conversation_items'[cv] = staged[c].added
         /\ \A r \in staged[c].added, q \in conversation_items[cv] : q.position < r.position
         /\ message_count'[cv] = Cardinality(staged[c].added)
         /\ version'[cv] = version[cv] + 1
         /\ held[c] = "update"
      \/ /\ conversation_items'[cv] = conversation_items[cv]
         /\ message_count'[cv] = message_count[cv]
         /\ version'[cv] = version[cv]
         /\ held[c] = "key_share"

LEMMA CommitEffect ==
  ASSUME Inductive, NEW c \in Clients, Commit(c)
  PROVE  /\ Conv(c) \in ConversationIds /\ req[c].size \in Nat
         /\ staged[c] \in StagedWrites
         /\ message_count' \in [ConversationIds -> Nat]
         /\ version' \in [ConversationIds -> Nat]
         /\ conversation_items' \in [ConversationIds -> SUBSET Row]
         /\ \A cv \in ConversationIds \ {Conv(c)} :
              /\ conversation_items'[cv] = conversation_items[cv]
              /\ message_count'[cv] = message_count[cv]
              /\ version'[cv] = version[cv]
         /\ CommitOf(c)
<1> USE DEF Inductive, StoreInvariant
<1> DEFINE cv == Conv(c)
           w  == staged[c]
           rows  == (conversation_items[cv] \ w.removed) \cup w.added
           count == IF Mutates(req[c].op) THEN w.message_count ELSE message_count[cv]
           ver   == IF Mutates(req[c].op) THEN w.version ELSE version[cv]
<1>1. /\ pc[c] = "commit"
      /\ conversation_items' = [conversation_items EXCEPT ![cv] = rows]
      /\ message_count' = [message_count EXCEPT ![cv] = count]
      /\ version' = [version EXCEPT ![cv] = ver]
  BY DEF Commit
<1>2. \/ /\ Serves(c, {"append"})
         /\ held[c] = "no_key_update"
         /\ Appended(c, req[c].size)
         /\ w.message_count = message_count[cv] + req[c].size
         /\ w.version = version[cv] + 1
      \/ /\ Serves(c, {"replace", "delete"})
         /\ held[c] = "update"
         /\ Rewritten(c)
         /\ w.message_count = Len(working[c])
         /\ w.version = version[cv] + 1
      \/ Serves(c, {"snapshot"}) /\ held[c] = "key_share" /\ Unwritten(c)
  BY <1>1 DEF StatementState, AtStatement
<1>3. cv \in ConversationIds /\ req[c].size \in Nat
  BY <1>2, RequestFields DEF Serves, Conv
<1>4. w \in StagedWrites
  BY DEF TypeOK
<1>5. rows \subseteq Row /\ count \in Nat /\ ver \in Nat
  BY <1>3, <1>4 DEF TypeOK, StagedWrites
<1>6. conversation_items'[cv] = rows /\ message_count'[cv] = count /\ version'[cv] = ver
  BY <1>1, <1>3 DEF TypeOK
<1>7. CommitOf(c)
  <2>1. CASE Serves(c, {"append"}) /\ held[c] = "no_key_update"
             /\ Appended(c, req[c].size)
             /\ w.message_count = message_count[cv] + req[c].size
             /\ w.version = version[cv] + 1
    <3>1. Mutates(req[c].op)
      BY <2>1 DEF Mutates, Serves
    <3>2. rows = conversation_items[cv] \cup w.added
      BY <2>1 DEF Appended
    <3> QED
      BY <1>6, <2>1, <3>1, <3>2 DEF CommitOf, Appended
  <2>2. CASE Serves(c, {"replace", "delete"}) /\ held[c] = "update" /\ Rewritten(c)
             /\ w.message_count = Len(working[c])
             /\ w.version = version[cv] + 1
    <3>1. Mutates(req[c].op)
      BY <2>2 DEF Mutates, Serves
    <3>2. rows = w.added /\ Cardinality(w.added) = Len(working[c])
      BY <2>2 DEF Rewritten
    <3> QED
      BY <1>6, <2>2, <3>1, <3>2 DEF CommitOf, Rewritten
  <2>3. CASE Serves(c, {"snapshot"}) /\ held[c] = "key_share" /\ Unwritten(c)
    <3>1. ~Mutates(req[c].op)
      BY <2>3 DEF Mutates, Serves
    <3>2. rows = conversation_items[cv]
      BY <2>3 DEF Unwritten
    <3> QED
      BY <1>6, <2>3, <3>1, <3>2 DEF CommitOf
  <2> QED
    BY <1>2, <2>1, <2>2, <2>3
<1> HIDE DEF rows, count, ver
<1> QED
  BY <1>1, <1>3, <1>4, <1>5, <1>7 DEF TypeOK

LEMMA CommitTypes ==
  ASSUME Inductive, NEW c \in Clients, Commit(c)
  PROVE  TypeOK'
<1> USE DEF Inductive, StoreInvariant
<1> DEFINE cv == Conv(c)
           w  == staged[c]
<1>1. cv \in ConversationIds /\ w \in StagedWrites
  BY CommitEffect
<1>2. conversations' \subseteq ConversationIds
  BY <1>1 DEF Commit, TypeOK
<1>3. messages' \in [ConversationIds -> SUBSET MessageIds]
  <2> DEFINE ids == (messages[cv] \cup w.messages) \ w.purged
  <2>1. messages' = [messages EXCEPT ![cv] = ids]
    BY DEF Commit
  <2>2. ids \subseteq MessageIds
    BY <1>1 DEF TypeOK, StagedWrites
  <2> HIDE DEF ids
  <2> QED
    BY <2>1, <2>2 DEF TypeOK
<1>4. snapshots' \subseteq Snapshot
  BY <1>1 DEF Commit, TypeOK, StagedWrites
<1>5. origin' \in [MessageIds -> ConversationIds \cup {NoId}]
  <2>1. origin' = [m \in MessageIds |-> IF m \in w.messages THEN cv ELSE origin[m]]
    BY DEF Commit
  <2> QED
    BY <1>1, <2>1 DEF TypeOK
<1>6. Finish(c)
  BY DEF Commit
<1> QED
  BY <1>2, <1>3, <1>4, <1>5, <1>6, CommitEffect, FinishTypes DEF TypeOK

\* The rows of a commit were apart from all others, so they still are.
LEMMA CommitPositions ==
  ASSUME Inductive, NEW c \in Clients, Commit(c)
  PROVE  PositionsFresh'
<1> USE DEF Inductive, StoreInvariant
<1> DEFINE mine == Conv(c)
           old  == conversation_items[mine]
           added == staged[c].added
           new  == conversation_items'[mine]
<1>1. /\ mine \in ConversationIds
      /\ \A cv \in ConversationIds \ {mine} : conversation_items'[cv] = conversation_items[cv]
      /\ new \subseteq old \cup added
  BY CommitEffect DEF CommitOf
<1>2. /\ last_position' = last_position
      /\ staged'[c].added = {}
      /\ \A d \in Clients \ {c} : staged'[d].added = staged[d].added
  <2>1. Finish(c)
    BY DEF Commit
  <2>2. staged'[c] = NoWrites /\ \A d \in Clients \ {c} : staged'[d] = staged[d]
    BY <2>1, FinishedIsIdle
  <2> QED
    BY <2>1, <2>2 DEF Finish, NoWrites
<1>3. /\ UpTo(old, last_position) /\ OnePositionEach(old)
      /\ UpTo(added, last_position) /\ OnePositionEach(added)
      /\ Apart(added, old)
  BY <1>1 DEF PositionsFresh
<1>4. UpTo(new, last_position)
  BY <1>1, <1>3, FS_Union, FS_Subset DEF UpTo
<1>5. OnePositionEach(new)
  BY <1>1, <1>3 DEF OnePositionEach, Apart
<1>6. ASSUME NEW d \in Clients \ {c}
      PROVE  Apart(staged[d].added, new)
  <2>1. Apart(staged[d].added, old) /\ Apart(staged[d].added, added)
    BY <1>1 DEF PositionsFresh
  <2> QED
    BY <1>1, <2>1 DEF Apart
<1> HIDE DEF new
<1>7. ASSUME NEW cv \in ConversationIds
      PROVE  /\ UpTo(conversation_items[cv], last_position)'
             /\ OnePositionEach(conversation_items[cv])'
  <2>1. CASE cv = mine
    BY <1>2, <1>4, <1>5, <2>1 DEF UpTo, OnePositionEach, new
  <2>2. CASE cv # mine
    BY <1>1, <1>2, <2>2 DEF PositionsFresh, UpTo, OnePositionEach
  <2> QED
    BY <2>1, <2>2
<1>8. ASSUME NEW d \in Clients
      PROVE  /\ UpTo(staged[d].added, last_position)'
             /\ OnePositionEach(staged[d].added)'
  <2>1. CASE d = c
    BY <1>2, <2>1, FS_EmptySet DEF UpTo, OnePositionEach
  <2>2. CASE d # c
    BY <1>2, <2>2 DEF PositionsFresh, UpTo, OnePositionEach
  <2> QED
    BY <2>1, <2>2
<1>9. ASSUME NEW d \in Clients, NEW cv \in ConversationIds
      PROVE  Apart(staged[d].added, conversation_items[cv])'
  <2>1. CASE d = c
    BY <1>2, <2>1 DEF Apart
  <2>2. CASE d # c /\ cv = mine
    BY <1>2, <1>6, <2>2 DEF Apart, new
  <2>3. CASE d # c /\ cv # mine
    BY <1>1, <1>2, <2>3 DEF PositionsFresh, Apart
  <2> QED
    BY <2>1, <2>2, <2>3
<1>10. ASSUME NEW d \in Clients, NEW e \in Clients \ {d}
       PROVE  Apart(staged[d].added, staged[e].added)'
  BY <1>2 DEF PositionsFresh, Apart
<1> QED
  BY <1>7, <1>8, <1>9, <1>10 DEF PositionsFresh

\* The stored count after a commit is the number of rows again: the lock kept
\* both as they were when the transaction counted.
LEMMA CommitCounts ==
  ASSUME Inductive, NEW c \in Clients, Commit(c)
  PROVE  CountMatchesItems'
<1> USE DEF Inductive, StoreInvariant
<1> DEFINE mine  == Conv(c)
           old   == conversation_items[mine]
           added == staged[c].added
<1>1. mine \in ConversationIds /\ req[c].size \in Nat /\ CommitOf(c)
  BY CommitEffect
<1>2. message_count[mine] = Cardinality(old)
  BY <1>1 DEF CountMatchesItems
<1>3. IsFiniteSet(old) /\ IsFiniteSet(added) /\ Apart(added, old)
  BY <1>1 DEF PositionsFresh, UpTo
<1>4. old \cap added = {}
  BY <1>3 DEF Apart
<1>5. Cardinality(old \cup added) = Cardinality(old) + Cardinality(added)
  <2>1. Cardinality(old \cap added) = 0
    BY <1>4, FS_EmptySet
  <2>2. Cardinality(old) \in Nat /\ Cardinality(added) \in Nat
    BY <1>3, FS_CardinalityType
  <2> HIDE DEF old, added
  <2>3. Cardinality(old \cup added) =
          Cardinality(old) + Cardinality(added) - Cardinality(old \cap added)
    BY <1>3, FS_Union
  <2> QED
    BY <2>1, <2>2, <2>3
<1>6. message_count'[mine] = Cardinality(conversation_items'[mine])
  BY <1>1, <1>2, <1>5 DEF CommitOf
<1>7. \A cv \in ConversationIds \ {mine} :
        message_count'[cv] = Cardinality(conversation_items'[cv])
  BY CommitEffect DEF CountMatchesItems
<1> HIDE DEF mine
<1> QED
  BY <1>6, <1>7 DEF CountMatchesItems

\* No transaction loses what it has read under a commit: one that commits the
\* conversation holds a lock that excludes those that depend on its rows.
LEMMA CommitDisturbsNobody ==
  ASSUME Inductive, NEW c \in Clients, Commit(c), NEW d \in Clients \ {c}
  PROVE  AtStatement(d)'
<1> USE DEF Inductive, StoreInvariant
<1>1. /\ pc'[d] = pc[d] /\ req'[d] = req[d] /\ held'[d] = held[d]
      /\ working'[d] = working[d] /\ staged'[d] = staged[d]
  BY FinishedIsIdle DEF Commit
<1>2. AtStatement(d)
  BY DEF StatementState
<1>3. /\ Conv(c) \in ConversationIds /\ CommitOf(c)
      /\ \A cv \in ConversationIds \ {Conv(c)} :
           /\ conversation_items'[cv] = conversation_items[cv]
           /\ message_count'[cv] = message_count[cv]
           /\ version'[cv] = version[cv]
  BY CommitEffect
<1>4. CASE pc[d] \notin {"update", "commit"}
  BY <1>1, <1>2, <1>4, OthersUndisturbed
<1>5. CASE pc[d] \in {"update", "commit"} /\ Conv(d) # Conv(c)
  <2>1. Conv(d) \in ConversationIds
    BY <1>2, <1>5, RequestFields DEF AtStatement, Serves, Conv
  <2> QED
    BY <1>1, <1>2, <1>3, <1>5, <2>1, OthersUndisturbed
<1>6. CASE pc[d] \in {"update", "commit"} /\ Conv(d) = Conv(c)
  <2>1. ~Conflicts(held[c], held[d])
    BY <1>6 DEF LocksExclude
  <2>2. held[c] \in {"no_key_update", "update", "key_share"}
    BY <1>3 DEF CommitOf
  <2>3. held[d] # "update"
    BY <2>1, <2>2 DEF Conflicts
  <2>4. Conv(d)' = Conv(d)
    BY <1>1 DEF Conv
  <2>5. CASE pc[d] = "update"
    <3>1. Serves(d, {"append"}) /\ held[d] = "key_share" /\ Appended(d, req[d].size)
      BY <1>2, <2>3, <2>5 DEF AtStatement
    <3> QED
      BY <1>1, <2>5, <3>1 DEF AtStatement, Serves, Appended
  <2>6. CASE pc[d] = "commit" /\ held[d] = "no_key_update"
    <3>1. held[c] = "key_share"
      BY <2>1, <2>2, <2>6 DEF Conflicts
    <3>2. /\ conversation_items'[Conv(d)] = conversation_items[Conv(d)]
          /\ message_count'[Conv(d)] = message_count[Conv(d)]
          /\ version'[Conv(d)] = version[Conv(d)]
      BY <1>3, <1>6, <3>1 DEF CommitOf
    <3> QED
      BY <1>1, <1>2, <3>2, OthersUndisturbed
  <2>7. CASE pc[d] = "commit" /\ held[d] = "key_share"
    <3>1. Serves(d, {"snapshot"}) /\ Unwritten(d)
      BY <1>2, <2>7 DEF AtStatement
    <3> QED
      BY <1>1, <2>7, <3>1 DEF AtStatement, Serves, Unwritten
  <2> QED
    BY <1>2, <1>6, <2>3, <2>5, <2>6, <2>7 DEF AtStatement
<1> QED
  BY <1>4, <1>5, <1>6

LEMMA CommitInductive ==
  ASSUME Inductive, NEW c \in Clients, Commit(c)
  PROVE  Inductive'
<1> USE DEF Inductive, StoreInvariant
<1>1. Finish(c)
  BY DEF Commit
<1>2. LocksExclude'
  BY <1>1, FinishedIsIdle, NoLockExcludes
<1>3. StatementState'
  BY <1>1, FinishedIsIdle, CommitDisturbsNobody DEF StatementState
<1> QED
  BY <1>2, <1>3, CommitTypes, CommitPositions, CommitCounts

-----------------------------------------------------------------------------
(***************************************************************************)
(* The theorems.                                                           *)
(***************************************************************************)

LEMMA NextInductive == Inductive /\ [Next]_vars => Inductive'
<1> SUFFICES ASSUME Inductive, [Next]_vars
             PROVE  Inductive'
  OBVIOUS
<1>1. CASE UNCHANGED vars
  <2>1. TypeOK'
    BY <1>1 DEF Inductive, TypeOK, vars, tables
  <2>2. LocksExclude'
    BY <1>1 DEF Inductive, StoreInvariant, LocksExclude, Conv, vars
  <2>3. PositionsFresh'
    BY <1>1, PositionsKept DEF Inductive, StoreInvariant, vars, tables
  <2>4. StatementState'
    BY <1>1, OthersUndisturbed DEF Inductive, StoreInvariant, StatementState, vars, tables
  <2>5. CountMatchesItems'
    BY <1>1, CountKept DEF Inductive, StoreInvariant, vars, tables
  <2> QED
    BY <2>1, <2>2, <2>3, <2>4, <2>5 DEF Inductive, StoreInvariant
<1>2. ASSUME NEW c \in Clients, Call(c) PROVE Inductive'
  BY <1>2, CallInductive
<1>3. ASSUME NEW c \in Clients, Step(c) PROVE Inductive'
  BY <1>3, EnsureInductive, InsertInductive, LockInductive, ReadInductive,
     VerifyInductive, RewriteInductive, UpdateInductive, CheckInductive,
     LoadInductive, InsertSnapshotInductive, CommitInductive DEF Step
<1>4. ASSUME NEW c \in Clients, Abort(c) PROVE Inductive'
  BY <1>4, RollbackInductive DEF Abort
<1> QED
  BY <1>1, <1>2, <1>3, <1>4 DEF Next

\* In every reachable state the statements of the transactions, the locks they
\* hold, their staged rows and the committed rows agree.
THEOREM StoreIsConsistent == Spec => []StoreInvariant
<1>1. Inductive => StoreInvariant
  BY DEF Inductive
<1> QED
  BY <1>1, InitInductive, NextInductive, PTL DEF Spec

\* The variables keep their types under every interleaving of transactions.
THEOREM TypeCorrect == Spec => []TypeOK
<1>1. Inductive => TypeOK
  BY DEF Inductive
<1> QED
  BY <1>1, InitInductive, NextInductive, PTL DEF Spec

\* The message count the service answers is the number of messages it lists,
\* however appends, replacements, deletions and failures interleave.
THEOREM CountCorrect == Spec => []CountMatchesItems
<1>1. Inductive => CountMatchesItems
  BY DEF Inductive, StoreInvariant
<1> QED
  BY <1>1, InitInductive, NextInductive, PTL DEF Spec

\* Only a commit changes the rows of a conversation or its version.
LEMMA OnlyCommitsChangeRows ==
  ASSUME [Next]_vars
  PROVE  \/ UNCHANGED <<conversation_items, version>>
         \/ \E c \in Clients : Commit(c)
BY DEF Next, Step, Call, Abort, Rollback, vars, tables, EnsureConversation, InsertMessage,
       LockConversation, ReadOrder, VerifyOrder, RewriteOrder, UpdateConversation,
       CheckConversation, LoadMessages, InsertSnapshot

\* A step that takes rows away puts those it adds above all there were.
LEMMA StepMovesPast ==
  ASSUME Inductive, [Next]_vars, NEW cv \in ConversationIds,
         ~(conversation_items[cv] \subseteq conversation_items'[cv]),
         NEW r \in conversation_items'[cv] \ conversation_items[cv],
         NEW q \in conversation_items[cv]
  PROVE  q.position < r.position
<1>1. PICK c \in Clients : Commit(c)
  BY OnlyCommitsChangeRows
<1>2. CASE cv = Conv(c)
  BY <1>1, <1>2, CommitEffect DEF CommitOf
<1>3. CASE cv # Conv(c)
  BY <1>1, <1>3, CommitEffect
<1> QED
  BY <1>2, <1>3

\* A rewrite never puts a message at or below a position a reader may already
\* have passed.
THEOREM RewritesMovePastCursors == Spec => RewriteMovesPastCursors
<1> DEFINE MovedPast(cv) ==
             ~(conversation_items[cv] \subseteq conversation_items'[cv]) =>
               \A r \in conversation_items'[cv] \ conversation_items[cv] :
                 \A q \in conversation_items[cv] : q.position < r.position
<1>1. Inductive /\ [Next]_vars => [\A cv \in ConversationIds : MovedPast(cv)]_vars
  BY StepMovesPast
<1> QED
  BY <1>1, InitInductive, NextInductive, PTL DEF Spec, RewriteMovesPastCursors

-----------------------------------------------------------------------------
(***************************************************************************)
(* Deadlock.  Who holds the row for writing waits for nobody; so nobody in *)
(* a cycle waits for a writer, only appends and snapshots hold a lock that *)
(* way, and they wait for writers only.  What is left are transactions     *)
(* that hold nothing, and wait for one that holds something.               *)
(***************************************************************************)

\* Who waits, and for what.
LEMMA WaitingIsFor ==
  ASSUME Inductive, NEW c \in Clients, NEW d \in Clients, WaitsFor(c, d)
  PROVE  /\ held[c] \notin {"update", "no_key_update"}
         /\ \/ held[d] \in {"update", "no_key_update"}
            \/ held[c] = "none" /\ held[d] = "key_share"
            \/ pc[c] = "ensure" /\ staged[d].created
<1> USE DEF Inductive, StoreInvariant
<1>1. AtStatement(c) /\ c # d /\ pc[c] # "idle" /\ ~Conflicts(held[c], held[d])
  BY DEF StatementState, WaitsFor, LocksExclude
<1>2. held[c] \in LockModes /\ held[d] \in LockModes /\ pc[c] \in Statements \cup {"idle"}
  BY DEF TypeOK
<1>3. CASE pc[c] = "ensure" /\ staged[d].created
  BY <1>1, <1>3 DEF AtStatement
<1>4. CASE Conflicts(LockWanted(c), held[d])
  <2>1. LockWanted(c) # "none" /\ held[d] # "none"
    BY <1>4 DEF Conflicts
  <2>2. CASE pc[c] \in {"insert", "insert_snapshot"}
    <3>1. LockWanted(c) = "key_share" /\ held[c] \in {"none", "key_share"}
      BY <1>1, <2>2 DEF LockWanted, AtStatement
    <3> QED
      BY <1>4, <3>1 DEF Conflicts
  <2>3. CASE pc[c] = "lock"
    <3>1. held[c] = "none"
      BY <1>1, <2>3 DEF AtStatement
    <3> QED
      BY <1>2, <2>1, <3>1 DEF LockModes
  <2>4. CASE pc[c] = "update"
    <3>1. LockWanted(c) = "no_key_update"
      BY <2>4 DEF LockWanted, UpdateLock
    <3>2. held[d] \in {"update", "no_key_update"}
      BY <1>4, <3>1 DEF Conflicts
    <3>3. held[c] \in {"key_share", "update"}
      BY <1>1, <2>4 DEF AtStatement
    <3>4. held[c] # "update"
      BY <1>1, <3>2 DEF Conflicts
    <3> QED
      BY <3>2, <3>3, <3>4
  <2>5. pc[c] \in {"insert", "insert_snapshot", "lock", "update"}
    BY <2>1 DEF LockWanted
  <2> QED
    BY <2>2, <2>3, <2>4, <2>5
<1> QED
  BY <1>3, <1>4 DEF WaitsFor

\* No set of transactions, of any size, waits for one another.
LEMMA NoCycle == Inductive => NoDeadlock
<1> SUFFICES ASSUME Inductive, NEW S \in SUBSET Clients, S # {},
                    \A c \in S : \E d \in S : WaitsFor(c, d)
             PROVE  FALSE
  BY DEF NoDeadlock
<1>1. \A c \in S : held[c] \notin {"update", "no_key_update"}
  BY WaitingIsFor
<1>2. \A c \in S : held[c] = "none" \/ pc[c] = "ensure"
  BY <1>1, WaitingIsFor
<1>3. \A c \in S : pc[c] = "ensure" => held[c] = "none" /\ ~staged[c].created
  BY DEF Inductive, StoreInvariant, StatementState, AtStatement, Unwritten
<1>4. \A c \in S : \E d \in S : pc[c] = "ensure" /\ staged[d].created
  BY <1>1, <1>2, <1>3, WaitingIsFor
<1> QED
  BY <1>3, <1>4

\* Appends, range operations and snapshots never deadlock on a conversation.
THEOREM DeadlockFree == Spec => []NoDeadlock
BY NoCycle, InitInductive, NextInductive, PTL DEF Spec

-----------------------------------------------------------------------------
(***************************************************************************)
(* Which messages the lists and snapshots of a conversation refer to.      *)
(*                                                                         *)
(* OwnershipInvariant is inductive on top of StoreInvariant: a range       *)
(* operation has checked its messages under a lock that keeps every commit *)
(* to its conversation out, and what a snapshot has checked without one is *)
(* a property of the messages that no commit takes away.                   *)
(***************************************************************************)
Owned == Inductive /\ OwnershipInvariant

-----------------------------------------------------------------------------
(***************************************************************************)
(* What the range operators make of an order without repetitions.          *)
(***************************************************************************)

\* A splice holds nothing but what was there and what was inserted.
LEMMA SpliceRange ==
  ASSUME NEW S, NEW order \in Seq(S), NEW ins \in Seq(S), NEW new,
         NEW first \in 1..(Len(order) + 1), NEW last \in 0..Len(order),
         first <= last + 1, IsSplice(new, S, order, first, last, ins)
  PROVE  Range(new) \subseteq Range(order) \cup Range(ins)
<1>1. /\ Len(order) \in Nat /\ Len(ins) \in Nat /\ Len(new) \in Nat
      /\ DOMAIN order = 1..Len(order) /\ DOMAIN ins = 1..Len(ins)
      /\ DOMAIN new = 1..Len(new)
  BY LenProperties DEF IsSplice
<1> SUFFICES ASSUME NEW i \in 1..Len(new)
             PROVE  new[i] \in Range(order) \cup Range(ins)
  BY <1>1 DEF Range
<1>2. CASE i <= first - 1
  <2>1. i \in 1..(first - 1) /\ i \in 1..Len(order)
    BY <1>1, <1>2
  <2> QED
    BY <1>1, <2>1 DEF IsSplice, Range
<1>3. CASE first - 1 < i /\ i <= first - 1 + Len(ins)
  <2> DEFINE j == i - (first - 1)
  <2>1. j \in 1..Len(ins) /\ first - 1 + j = i
    BY <1>1, <1>3
  <2>2. new[first - 1 + j] = ins[j]
    BY <2>1 DEF IsSplice
  <2> HIDE DEF j
  <2> QED
    BY <1>1, <2>1, <2>2 DEF Range
<1>4. CASE first - 1 + Len(ins) < i
  <2> DEFINE j == i - (first - 1 + Len(ins))
  <2>1. Len(new) = Len(order) - (last - first + 1) + Len(ins)
    BY DEF IsSplice
  <2>2. /\ j \in 1..(Len(order) - last) /\ first - 1 + Len(ins) + j = i
        /\ last + j \in 1..Len(order)
    BY <1>1, <1>4, <2>1
  <2>3. new[first - 1 + Len(ins) + j] = order[last + j]
    BY <2>2 DEF IsSplice
  <2> HIDE DEF j
  <2> QED
    BY <1>1, <2>2, <2>3 DEF Range
<1> QED
  BY <1>1, <1>2, <1>3, <1>4

\* Cutting a range out of an order without repetitions leaves one, and none of
\* what was cut.
LEMMA CutApart ==
  ASSUME NEW S, NEW order \in Seq(S), IsInjective(order),
         NEW first \in 1..Len(order), NEW last \in 1..Len(order), first <= last,
         NEW new, IsSplice(new, S, order, first, last, <<>>)
  PROVE  /\ IsInjective(new)
         /\ Range(SubSeq(order, first, last)) \cap Range(new) = {}
<1> DEFINE at(i) == IF i < first THEN i ELSE i + (last - first + 1)
<1>1. /\ Len(order) \in Nat /\ Len(new) \in Nat /\ Len(<<>>) = 0
      /\ DOMAIN order = 1..Len(order) /\ DOMAIN new = 1..Len(new)
  BY LenProperties DEF IsSplice
<1>2. Len(new) = Len(order) - (last - first + 1)
  BY <1>1 DEF IsSplice
<1>3. ASSUME NEW i \in 1..Len(new)
      PROVE  new[i] = order[at(i)] /\ at(i) \in 1..Len(order) /\ at(i) \notin first..last
  <2>1. CASE i < first
    <3>1. i \in 1..(first - 1)
      BY <1>1, <2>1
    <3> QED
      BY <1>1, <2>1, <3>1 DEF IsSplice
  <2>2. CASE i >= first
    <3> DEFINE j == i - first + 1
    <3>1. j \in 1..(Len(order) - last) /\ first - 1 + 0 + j = i /\ last + j = at(i)
      BY <1>1, <1>2, <2>2
    <3>2. new[first - 1 + 0 + j] = order[last + j]
      BY <1>1, <3>1 DEF IsSplice
    <3> HIDE DEF j
    <3>3. new[i] = order[at(i)]
      BY <3>1, <3>2
    <3> QED
      BY <1>1, <1>2, <2>2, <3>3
  <2> QED
    BY <1>1, <2>1, <2>2
<1>4. IsInjective(new)
  <2> SUFFICES ASSUME NEW i \in 1..Len(new), NEW j \in 1..Len(new), new[i] = new[j]
               PROVE  i = j
    BY <1>1 DEF IsInjective
  <2>1. order[at(i)] = order[at(j)] /\ at(i) \in DOMAIN order /\ at(j) \in DOMAIN order
    BY <1>1, <1>3
  <2>2. at(i) = at(j)
    BY <2>1 DEF IsInjective
  <2> QED
    BY <1>1, <2>2
<1>5. ASSUME NEW m, m \in Range(SubSeq(order, first, last)), m \in Range(new)
      PROVE  FALSE
  <2> DEFINE cutout == SubSeq(order, first, last)
  <2>1. /\ cutout \in Seq(S) /\ Len(cutout) = last - first + 1
        /\ \A i \in 1..(last - first + 1) : cutout[i] = order[first + i - 1]
    BY PieceOfOrder
  <2>2. PICK i \in 1..(last - first + 1) : cutout[i] = m
    BY <1>5, <2>1, LenProperties DEF Range
  <2>3. PICK j \in 1..Len(new) : new[j] = m
    BY <1>1, <1>5 DEF Range
  <2>4. order[first + i - 1] = order[at(j)]
    BY <1>3, <2>1, <2>2, <2>3
  <2>5. first + i - 1 \in first..last /\ first + i - 1 \in 1..Len(order)
    BY <1>1
  <2>6. at(j) \in 1..Len(order) /\ at(j) \notin first..last
    BY <1>3
  <2>7. first + i - 1 = at(j)
    BY <1>1, <2>4, <2>5, <2>6 DEF IsInjective
  <2> QED
    BY <2>5, <2>6, <2>7
<1> QED
  BY <1>4, <1>5

\* ORDER BY shows messages of the rows only, and each once if each has one row.
LEMMA OrderByMessages ==
  ASSUME NEW rows \in SUBSET ListRow, IsFiniteSet(rows), OnePositionEach(rows)
  PROVE  /\ Range(OrderBy(rows)) \subseteq MessagesOf(rows)
         /\ OneRowEach(rows) => IsInjective(OrderBy(rows))
<1> DEFINE n == Cardinality(rows)
           at(i) == CHOOSE r \in rows : Rank(rows, r) = i
<1>1. n \in Nat
  BY FS_CardinalityType
<1>2. \A i \in 1..n : \E r \in rows : Rank(rows, r) = i
  BY RankProperties DEF Surjection
<1>3. \A i \in 1..n : at(i) \in rows /\ Rank(rows, at(i)) = i
  BY <1>2
<1> HIDE DEF n
<1>4. OrderBy(rows) = [i \in 1..n |-> at(i).message]
  BY DEF OrderBy, n
<1>5. Range(OrderBy(rows)) \subseteq MessagesOf(rows)
  BY <1>3, <1>4 DEF Range, MessagesOf
<1>6. ASSUME OneRowEach(rows), NEW i \in 1..n, NEW j \in 1..n, at(i).message = at(j).message
      PROVE  i = j
  <2>1. at(i) = at(j)
    BY <1>3, <1>6 DEF OneRowEach
  <2> QED
    BY <1>3, <2>1
<1>7. OneRowEach(rows) => IsInjective(OrderBy(rows))
  BY <1>4, <1>6 DEF IsInjective
<1> QED
  BY <1>5, <1>7

\* The new order of a range operation, before it is checked.
LEMMA NewOrderMessages ==
  ASSUME NEW r \in Requests, r.op \in {"replace", "delete"},
         NEW order \in Seq(MessageIds), RangeValid(r, order), IsInjective(order)
  PROVE  /\ Range(NewOrder(r, order)) \subseteq Range(order) \cup Range(r.ids)
         /\ r.op = "delete" =>
              /\ IsInjective(NewOrder(r, order))
              /\ Range(NewOrder(r, order)) \subseteq Range(order)
              /\ Range(CutIds(r, order)) \cap Range(NewOrder(r, order)) = {}
<1>1. r.ids \in Seq(MessageIds) /\ <<>> \in Seq(MessageIds) /\ Len(order) \in Nat
  BY RequestFields, EmptySeq, LenProperties
<1>2. BoundsFound(order, r.from, r.to)
  BY DEF RangeValid
<1>3. CASE r.op = "replace"
  <2> DEFINE first == ReplaceFirst(order, r.from, r.to)
             last  == ReplaceLast(order, r.from, r.to)
  <2>1. r.from # NoId \/ r.to # NoId
    BY RequestFields
  <2>2. ReplaceSpecValid(order, r.from, r.to, r.ids)
    BY <1>3 DEF RangeValid
  <2>3. first \in 1..(Len(order) + 1) /\ last \in 0..Len(order) /\ first <= last + 1
    BY <1>2, <2>1, <2>2, ReplaceBounds
  <2> HIDE DEF first, last
  <2>4. IsSplice(Splice(order, first, last, r.ids), MessageIds, order, first, last, r.ids)
    BY <1>1, <2>3, SpliceProperties
  <2>5. Range(Splice(order, first, last, r.ids)) \subseteq Range(order) \cup Range(r.ids)
    BY <1>1, <2>3, <2>4, SpliceRange
  <2> QED
    BY <1>3, <2>5 DEF NewOrder, ReplaceResult, first, last
<1>4. CASE r.op = "delete"
  <2> DEFINE first == DeleteFirst(order, r.from)
             last  == DeleteLast(order, r.to)
             new   == Splice(order, first, last, <<>>)
  <2>1. DeleteSpecValid(order, r.from, r.to)
    BY <1>4 DEF RangeValid
  <2>2. first \in 1..Len(order) /\ last \in 1..Len(order) /\ first <= last
    BY <1>2, <2>1, DeleteBounds
  <2> HIDE DEF first, last
  <2>3. first \in 1..(Len(order) + 1) /\ last \in 0..Len(order) /\ first <= last + 1
    BY <1>1, <2>2
  <2>4. IsSplice(new, MessageIds, order, first, last, <<>>)
    BY <1>1, <2>3, SpliceProperties
  <2> HIDE DEF new
  <2>5. Range(new) \subseteq Range(order) \cup Range(<<>>)
    BY <1>1, <2>3, <2>4, SpliceRange
  <2>6. Range(<<>>) = {}
    BY DEF Range
  <2>7. IsInjective(new) /\ Range(SubSeq(order, first, last)) \cap Range(new) = {}
    BY <2>2, <2>4, CutApart
  <2> QED
    BY <1>4, <2>5, <2>6, <2>7 DEF NewOrder, CutIds, DeleteResult, DeletedIds, first, last, new
<1> QED
  BY <1>3, <1>4

-----------------------------------------------------------------------------
(***************************************************************************)
(* Steps that commit nothing.                                              *)
(***************************************************************************)

LEMMA InitOwned == Init => OwnershipInvariant
<1> SUFFICES ASSUME Init
             PROVE  OwnershipInvariant
  OBVIOUS
<1>1. OwnMessagesOnly
  BY DEF Init, OwnMessagesOnly, MessagesOf
<1>2. \A c \in Clients : StagedOwn(c) /\ WorkingOwn(c)
  BY DEF Init, StagedOwn, WorkingOwn, NoWrites, NoRequest, OneRowEach, MessagesOf
<1> QED
  BY <1>1, <1>2 DEF Init, OwnershipInvariant, NewMessages, OneRowEach, NoWrites

\* The other transactions do not notice a step that commits nothing.
LEMMA OthersOwn ==
  ASSUME OwnershipInvariant, NEW c \in Clients, UNCHANGED tables,
         \A d \in Clients \ {c} :
           /\ pc'[d] = pc[d] /\ req'[d] = req[d] /\ working'[d] = working[d]
           /\ cut'[d] = cut[d] /\ staged'[d] = staged[d],
         \A m \in staged'[c].messages : m \in staged[c].messages \/ Fresh(m),
         StagedOwn(c)', WorkingOwn(c)'
  PROVE  OwnershipInvariant'
<1>1. OwnMessagesOnly' /\ \A cv \in ConversationIds : OneRowEach(conversation_items[cv])'
  BY DEF OwnershipInvariant, OwnMessagesOnly, OneRowEach, tables
<1>2. ASSUME NEW d \in Clients \ {c}
      PROVE  StagedOwn(d)' /\ WorkingOwn(d)'
  <2>1. Conv(d)' = Conv(d)
    BY DEF Conv
  <2>2. StagedOwn(d) /\ WorkingOwn(d)
    BY DEF OwnershipInvariant
  <2>3. StagedOwn(d)'
    BY <2>1, <2>2 DEF StagedOwn, OneRowEach, tables
  <2>4. WorkingOwn(d)'
    BY <2>1, <2>2 DEF WorkingOwn, tables
  <2> QED
    BY <2>3, <2>4
<1>3. NewMessages'
  <2>1. ASSUME NEW d \in Clients, NEW m \in staged'[d].messages
        PROVE  origin[m] = NoId
    BY DEF OwnershipInvariant, NewMessages, Fresh
  <2>2. ASSUME NEW d \in Clients \ {c}
        PROVE  staged'[c].messages \cap staged[d].messages = {}
    BY DEF OwnershipInvariant, NewMessages, Fresh
  <2> QED
    BY <2>1, <2>2 DEF OwnershipInvariant, NewMessages, tables
<1> QED
  BY <1>1, <1>2, <1>3 DEF OwnershipInvariant

\* A transaction that ends has staged and computed nothing.
LEMMA FinishedOwns ==
  ASSUME TypeOK, NEW c \in Clients, Finish(c)
  PROVE  /\ staged'[c] = NoWrites /\ StagedOwn(c)' /\ WorkingOwn(c)'
         /\ \A d \in Clients \ {c} :
              /\ pc'[d] = pc[d] /\ req'[d] = req[d] /\ working'[d] = working[d]
              /\ cut'[d] = cut[d] /\ staged'[d] = staged[d]
<1>1. /\ pc'[c] = "idle" /\ req'[c] = NoRequest /\ staged'[c] = NoWrites
      /\ \A d \in Clients \ {c} :
           /\ pc'[d] = pc[d] /\ req'[d] = req[d] /\ working'[d] = working[d]
           /\ cut'[d] = cut[d] /\ staged'[d] = staged[d]
  BY DEF TypeOK, Finish
<1>2. StagedOwn(c)'
  BY <1>1 DEF StagedOwn, NoWrites, NoRequest, OneRowEach
<1>3. WorkingOwn(c)'
  BY <1>1 DEF WorkingOwn
<1> QED
  BY <1>1, <1>2, <1>3

LEMMA RollbackOwned ==
  ASSUME Owned, NEW c \in Clients, Rollback(c)
  PROVE  OwnershipInvariant'
<1>1. Finish(c) /\ UNCHANGED tables
  BY DEF Rollback
<1>2. staged'[c].messages = {}
  BY <1>1, FinishedOwns DEF Owned, Inductive, NoWrites
<1> QED
  BY <1>1, <1>2, FinishedOwns, OthersOwn DEF Owned, Inductive

\* A step that changes neither what is staged nor a table has to answer only for
\* what it computes.
LEMMA MoveOwned ==
  ASSUME Owned, NEW c \in Clients, UNCHANGED <<tables, req, staged>>,
         \A d \in Clients \ {c} :
           pc'[d] = pc[d] /\ working'[d] = working[d] /\ cut'[d] = cut[d],
         WorkingOwn(c)'
  PROVE  OwnershipInvariant'
<1>1. StagedOwn(c)
  BY DEF Owned, OwnershipInvariant
<1>2. StagedOwn(c)'
  BY <1>1 DEF StagedOwn, Conv, OneRowEach, tables
<1> QED
  BY <1>2, OthersOwn DEF Owned

\* A request begins with nothing staged.
LEMMA CallOwned ==
  ASSUME Owned, NEW c \in Clients, Call(c)
  PROVE  OwnershipInvariant'
<1> USE DEF Owned, Inductive, StoreInvariant
<1>1. PICK r \in Requests : /\ req' = [req EXCEPT ![c] = r]
                            /\ pc' = [pc EXCEPT ![c] = FirstStatement(r.op)]
  BY DEF Call
<1>2. pc[c] = "idle" /\ UNCHANGED <<tables, working, cut, staged>>
  BY DEF Call
<1>3. req[c] = NoRequest /\ staged[c].added = {}
  BY <1>2 DEF StatementState, AtStatement, Unwritten
<1>4. StagedOwn(c) /\ staged[c].messages = {} /\ staged[c].purged = {}
  <2>1. StagedOwn(c)
    BY DEF OwnershipInvariant
  <2>2. req[c].op = "none"
    BY <1>3 DEF NoRequest
  <2> QED
    BY <2>1, <2>2 DEF StagedOwn
<1>5. StagedOwn(c)'
  BY <1>2, <1>3, <1>4 DEF StagedOwn, MessagesOf, OneRowEach, tables
<1>6. pc'[c] \in {"ensure", "lock", "check"}
  BY <1>1, RequestFields DEF FirstStatement, TypeOK
<1>7. WorkingOwn(c)'
  BY <1>6 DEF WorkingOwn
<1>8. \A d \in Clients \ {c} : pc'[d] = pc[d] /\ req'[d] = req[d]
  BY <1>1 DEF TypeOK
<1> QED
  BY <1>2, <1>5, <1>7, <1>8, OthersOwn

LEMMA EnsureOwned ==
  ASSUME Owned, NEW c \in Clients, EnsureConversation(c)
  PROVE  OwnershipInvariant'
<1> USE DEF Owned, Inductive
<1>1. /\ UNCHANGED <<tables, req, working, cut>> /\ pc'[c] = "insert"
      /\ \A d \in Clients \ {c} : pc'[d] = pc[d] /\ staged'[d] = staged[d]
  BY DEF EnsureConversation, Goto, TypeOK
<1>2. /\ staged'[c].messages = staged[c].messages /\ staged'[c].added = staged[c].added
      /\ staged'[c].purged = staged[c].purged /\ staged'[c].snapshots = staged[c].snapshots
  <2>1. staged[c] \in StagedWrites
    BY DEF TypeOK
  <2> QED
    BY <2>1 DEF EnsureConversation, TypeOK, StagedWrites
<1>3. StagedOwn(c)
  BY DEF OwnershipInvariant
<1>4. StagedOwn(c)'
  BY <1>1, <1>2, <1>3 DEF StagedOwn, Conv, OneRowEach, tables
<1>5. WorkingOwn(c)'
  BY <1>1 DEF WorkingOwn
<1> QED
  BY <1>1, <1>2, <1>4, <1>5, OthersOwn

\* The message and its row are new.
LEMMA InsertOwned ==
  ASSUME Owned, NEW c \in Clients, InsertMessage(c)
  PROVE  OwnershipInvariant'
<1> USE DEF Owned, Inductive, StoreInvariant
<1>1. PICK m \in MessageIds :
        /\ Fresh(m)
        /\ staged' = [staged EXCEPT
                        ![c].messages = @ \cup {m},
                        ![c].added = @ \cup RowsAfter(last_position, <<m>>)]
  BY DEF InsertMessage
<1>2. /\ pc[c] = "insert" /\ UNCHANGED <<tables, req, working, cut>>
      /\ pc'[c] \in {"insert", "update"}
      /\ \A d \in Clients \ {c} : pc'[d] = pc[d] /\ staged'[d] = staged[d]
  BY <1>1 DEF InsertMessage, Goto, TypeOK
<1>3. RowsAfter(last_position, <<m>>) = {[position |-> last_position + 1, message |-> m]}
  BY DEF RowsAfter
<1> DEFINE row == [position |-> last_position + 1, message |-> m]
<1>4. /\ staged'[c].messages = staged[c].messages \cup {m}
      /\ staged'[c].added = staged[c].added \cup {row}
      /\ staged'[c].purged = staged[c].purged /\ staged'[c].snapshots = staged[c].snapshots
  <2>1. staged[c] \in StagedWrites
    BY DEF TypeOK
  <2> QED
    BY <1>1, <1>3, <2>1 DEF TypeOK, StagedWrites
<1>5. req[c].op = "append" /\ StagedOwn(c)
  BY <1>2 DEF StatementState, AtStatement, Serves, OwnershipInvariant
<1>6. m \notin staged[c].messages
  BY <1>1 DEF Fresh
<1>7. row.message = m
  OBVIOUS
<1> HIDE DEF row
<1>8. \A q \in staged[c].added : q.message \in staged[c].messages
  BY <1>5 DEF StagedOwn, MessagesOf
<1>9. OneRowEach(staged'[c].added)
  BY <1>4, <1>5, <1>6, <1>7, <1>8 DEF StagedOwn, OneRowEach
<1>10. MessagesOf(staged'[c].added) \subseteq staged'[c].messages
  BY <1>4, <1>7, <1>8 DEF MessagesOf
<1>11. StagedOwn(c)'
  BY <1>2, <1>4, <1>5, <1>9, <1>10 DEF StagedOwn, OneRowEach, tables
<1>12. WorkingOwn(c)'
  BY <1>2 DEF WorkingOwn
<1> QED
  BY <1>1, <1>2, <1>4, <1>11, <1>12, OthersOwn

LEMMA LockOwned ==
  ASSUME Owned, NEW c \in Clients, LockConversation(c) \/ CheckConversation(c)
  PROVE  OwnershipInvariant'
<1> USE DEF Owned, Inductive
<1>1. CASE Rollback(c)
  BY <1>1, RollbackOwned
<1>2. CASE ~Rollback(c)
  <2>1. /\ UNCHANGED <<tables, req, working, cut, staged>> /\ pc'[c] \in {"read", "load"}
        /\ \A d \in Clients \ {c} : pc'[d] = pc[d]
    BY <1>2 DEF LockConversation, CheckConversation, Goto, TypeOK
  <2>2. WorkingOwn(c)'
    BY <2>1 DEF WorkingOwn
  <2> QED
    BY <2>1, <2>2, MoveOwned
<1> QED
  BY <1>1, <1>2

\* The order that is read lists messages of the conversation, each once.
LEMMA ReadOwned ==
  ASSUME Owned, NEW c \in Clients, ReadOrder(c)
  PROVE  OwnershipInvariant'
<1> USE DEF Owned, Inductive, StoreInvariant
<1> DEFINE rows  == conversation_items[Conv(c)]
           order == OrderBy(rows)
<1>1. CASE Rollback(c)
  BY <1>1, RollbackOwned
<1>2. CASE ~Rollback(c)
  <2>1. /\ pc[c] = "read"
        /\ RangeValid(req[c], order)
        /\ working' = [working EXCEPT ![c] = NewOrder(req[c], order)]
        /\ cut' = [cut EXCEPT ![c] = CutIds(req[c], order)]
        /\ Goto(c, IF req[c].op = "replace" THEN "verify" ELSE "rewrite")
        /\ UNCHANGED <<tables, last_position, req, held, staged, calls>>
    BY <1>2 DEF ReadOrder
  <2>2. Serves(c, {"replace", "delete"})
    BY <2>1 DEF StatementState, AtStatement
  <2>3. Conv(c) \in ConversationIds
    BY <2>2, RequestFields DEF Serves, Conv
  <2>4. rows \in SUBSET Row /\ IsFiniteSet(rows) /\ OnePositionEach(rows) /\ OneRowEach(rows)
    BY <2>3 DEF TypeOK, PositionsFresh, UpTo, OwnershipInvariant
  <2>5. MessagesOf(rows) \subseteq messages[Conv(c)]
    BY <2>3 DEF OwnershipInvariant, OwnMessagesOnly
  <2> HIDE DEF rows
  <2>6. /\ order \in Seq(MessageIds) /\ IsInjective(order)
        /\ Range(order) \subseteq messages[Conv(c)]
    BY <2>4, <2>5, RowsAreListed, OrderByProperties, OrderByMessages
  <2> HIDE DEF order
  <2>7. /\ Range(NewOrder(req[c], order)) \subseteq Range(order) \cup Range(req[c].ids)
        /\ req[c].op = "delete" =>
             /\ IsInjective(NewOrder(req[c], order))
             /\ Range(NewOrder(req[c], order)) \subseteq Range(order)
             /\ Range(CutIds(req[c], order)) \cap Range(NewOrder(req[c], order)) = {}
    BY <2>1, <2>2, <2>6, NewOrderMessages DEF Serves
  <2>8. /\ working'[c] = NewOrder(req[c], order) /\ cut'[c] = CutIds(req[c], order)
        /\ pc'[c] = IF req[c].op = "replace" THEN "verify" ELSE "rewrite"
        /\ \A d \in Clients \ {c} :
             pc'[d] = pc[d] /\ working'[d] = working[d] /\ cut'[d] = cut[d]
    BY <2>1 DEF Goto, TypeOK
  <2>9. req[c].op \in {"replace", "delete"} /\ Conv(c)' = Conv(c) /\ messages' = messages
    BY <2>1, <2>2 DEF Serves, Conv, tables
  <2>10. WorkingOwn(c)'
    <3>1. CASE req[c].op = "replace"
      BY <2>1, <2>6, <2>7, <2>8, <2>9, <3>1 DEF WorkingOwn
    <3>2. CASE req[c].op = "delete"
      BY <2>1, <2>6, <2>7, <2>8, <2>9, <3>2 DEF WorkingOwn
    <3> QED
      BY <2>9, <3>1, <3>2
  <2> QED
    BY <2>1, <2>8, <2>10, MoveOwned
<1> QED
  BY <1>1, <1>2

\* The inserted messages are those of the conversation, and none occurs twice.
LEMMA VerifyOwned ==
  ASSUME Owned, NEW c \in Clients, VerifyOrder(c)
  PROVE  OwnershipInvariant'
<1> USE DEF Owned, Inductive, StoreInvariant
<1>1. CASE Rollback(c)
  BY <1>1, RollbackOwned
<1>2. CASE ~Rollback(c)
  <2>1. /\ pc[c] = "verify" /\ pc'[c] = "rewrite"
        /\ MessagesExist(Conv(c), req[c].ids) /\ Unique(working[c])
        /\ UNCHANGED <<tables, req, working, cut, staged>>
        /\ \A d \in Clients \ {c} : pc'[d] = pc[d]
    BY <1>2 DEF VerifyOrder, Goto, TypeOK
  <2>2. req[c].op = "replace" /\ WorkingOwn(c)
    BY <2>1 DEF StatementState, AtStatement, Serves, OwnershipInvariant
  <2>3. Range(working[c]) \subseteq messages[Conv(c)]
    BY <2>1, <2>2 DEF WorkingOwn, MessagesExist
  <2>4. WorkingOwn(c)'
    BY <2>1, <2>2, <2>3 DEF WorkingOwn, Unique, Conv, tables
  <2> QED
    BY <2>1, <2>4, MoveOwned
<1> QED
  BY <1>1, <1>2

\* The rows of a list without repetitions.
LEMMA RowsOfList ==
  ASSUME NEW last \in Nat, NEW ids \in Seq(MessageIds)
  PROVE  /\ MessagesOf(RowsAfter(last, ids)) = Range(ids)
         /\ IsInjective(ids) => OneRowEach(RowsAfter(last, ids))
<1> DEFINE row(i) == [position |-> last + i, message |-> ids[i]]
<1>1. DOMAIN ids = 1..Len(ids) /\ Len(ids) \in Nat
  BY LenProperties
<1>2. RowsAfter(last, ids) = {row(i) : i \in DOMAIN ids}
  BY DEF RowsAfter
<1>3. \A i \in DOMAIN ids : row(i).message = ids[i]
  OBVIOUS
<1> HIDE DEF row
<1>4. MessagesOf(RowsAfter(last, ids)) = Range(ids)
  BY <1>2, <1>3 DEF MessagesOf, Range
<1>5. IsInjective(ids) => OneRowEach(RowsAfter(last, ids))
  BY <1>2, <1>3 DEF IsInjective, OneRowEach
<1> QED
  BY <1>4, <1>5

LEMMA RewriteOwned ==
  ASSUME Owned, NEW c \in Clients, RewriteOrder(c)
  PROVE  OwnershipInvariant'
<1> USE DEF Owned, Inductive, StoreInvariant
<1> DEFINE rows   == RowsAfter(last_position, working[c])
           purged == IF req[c].op = "delete" THEN Range(cut[c]) ELSE {}
<1>1. /\ pc[c] = "rewrite" /\ pc'[c] = "update" /\ UNCHANGED <<tables, req, working, cut>>
      /\ \A d \in Clients \ {c} : pc'[d] = pc[d] /\ staged'[d] = staged[d]
  BY DEF RewriteOrder, Goto, TypeOK
<1>2. /\ staged'[c].messages = staged[c].messages /\ staged'[c].added = rows
      /\ staged'[c].purged = purged /\ staged'[c].snapshots = staged[c].snapshots
  <2>1. staged[c] \in StagedWrites
    BY DEF TypeOK
  <2>2. staged'[c] = [staged[c] EXCEPT !.removed = conversation_items[Conv(c)],
                                       !.added = rows, !.purged = purged]
    BY DEF RewriteOrder, TypeOK
  <2> QED
    BY <2>1, <2>2 DEF StagedWrites
<1>3. req[c].op \in {"replace", "delete"} /\ StagedOwn(c) /\ WorkingOwn(c)
  BY <1>1 DEF StatementState, AtStatement, Serves, OwnershipInvariant
<1>4. last_position \in Nat /\ working[c] \in Seq(MessageIds)
  BY DEF TypeOK
<1>5. MessagesOf(rows) = Range(working[c]) /\ OneRowEach(rows)
  BY <1>1, <1>3, <1>4, RowsOfList DEF WorkingOwn
<1>6. MessagesOf(rows) \subseteq messages[Conv(c)] \ purged
  BY <1>1, <1>3, <1>5 DEF WorkingOwn
<1>7. req[c].op # "delete" => purged = {}
  OBVIOUS
<1> HIDE DEF rows, purged
<1>8. StagedOwn(c)'
  BY <1>1, <1>2, <1>3, <1>5, <1>6, <1>7 DEF StagedOwn, Conv, OneRowEach, tables
<1>9. WorkingOwn(c)'
  BY <1>1 DEF WorkingOwn
<1> QED
  BY <1>1, <1>2, <1>8, <1>9, OthersOwn

LEMMA UpdateOwned ==
  ASSUME Owned, NEW c \in Clients, UpdateConversation(c)
  PROVE  OwnershipInvariant'
<1> USE DEF Owned, Inductive
<1>1. /\ UNCHANGED <<tables, req, working, cut>> /\ pc'[c] = "commit"
      /\ \A d \in Clients \ {c} : pc'[d] = pc[d] /\ staged'[d] = staged[d]
  BY DEF UpdateConversation, Goto, TypeOK
<1>2. /\ staged'[c].messages = staged[c].messages /\ staged'[c].added = staged[c].added
      /\ staged'[c].purged = staged[c].purged /\ staged'[c].snapshots = staged[c].snapshots
  <2>1. staged[c] \in StagedWrites
    BY DEF TypeOK
  <2>2. staged'[c] = [staged[c] EXCEPT !.message_count = NewCount(c), !.version = NewVersion(c)]
    BY DEF UpdateConversation, TypeOK
  <2> QED
    BY <2>1, <2>2 DEF StagedWrites
<1>3. StagedOwn(c)
  BY DEF OwnershipInvariant
<1>4. StagedOwn(c)'
  BY <1>1, <1>2, <1>3 DEF StagedOwn, Conv, OneRowEach, tables
<1>5. WorkingOwn(c)'
  BY <1>1 DEF WorkingOwn
<1> QED
  BY <1>1, <1>2, <1>4, <1>5, OthersOwn

\* What is loaded belongs to the conversation, and always will.
LEMMA LoadOwned ==
  ASSUME Owned, NEW c \in Clients, LoadMessages(c)
  PROVE  OwnershipInvariant'
<1> USE DEF Owned, Inductive, StoreInvariant
<1>1. CASE Rollback(c)
  BY <1>1, RollbackOwned
<1>2. CASE ~Rollback(c)
  <2>1. /\ pc[c] = "load" /\ pc'[c] = "insert_snapshot"
        /\ MessagesExist(Conv(c), req[c].ids)
        /\ UNCHANGED <<tables, req, working, cut, staged>>
        /\ \A d \in Clients \ {c} : pc'[d] = pc[d]
    BY <1>2 DEF LoadMessages, Goto, TypeOK
  <2>2. Conv(c) \in ConversationIds
    BY <2>1, RequestFields DEF StatementState, AtStatement, Serves, Conv
  <2>3. \A m \in Range(req[c].ids) : origin[m] = Conv(c)
    BY <2>1, <2>2 DEF MessagesExist, OwnershipInvariant, OwnMessagesOnly
  <2>4. WorkingOwn(c)'
    BY <2>1, <2>3 DEF WorkingOwn, Conv, tables
  <2> QED
    BY <2>1, <2>4, MoveOwned
<1> QED
  BY <1>1, <1>2

LEMMA InsertSnapshotOwned ==
  ASSUME Owned, NEW c \in Clients, InsertSnapshot(c)
  PROVE  OwnershipInvariant'
<1> USE DEF Owned, Inductive
<1>1. PICK s \in SnapshotIds :
        staged' = [staged EXCEPT ![c].snapshots =
                     {[id |-> s, conversation |-> Conv(c), items |-> req[c].ids]}]
  BY DEF InsertSnapshot
<1> DEFINE snap == [id |-> s, conversation |-> Conv(c), items |-> req[c].ids]
<1>2. /\ pc[c] = "insert_snapshot" /\ pc'[c] = "commit"
      /\ UNCHANGED <<tables, req, working, cut>>
      /\ \A d \in Clients \ {c} : pc'[d] = pc[d] /\ staged'[d] = staged[d]
  BY <1>1 DEF InsertSnapshot, Goto, TypeOK
<1>3. /\ staged'[c].messages = staged[c].messages /\ staged'[c].added = staged[c].added
      /\ staged'[c].purged = staged[c].purged /\ staged'[c].snapshots = {snap}
  <2>1. staged[c] \in StagedWrites
    BY DEF TypeOK
  <2>2. staged'[c] = [staged[c] EXCEPT !.snapshots = {snap}]
    BY <1>1 DEF TypeOK
  <2> QED
    BY <2>1, <2>2 DEF StagedWrites
<1>4. StagedOwn(c) /\ WorkingOwn(c)
  BY DEF OwnershipInvariant
<1>5. snap.conversation = Conv(c) /\ snap.items = req[c].ids
  OBVIOUS
<1> HIDE DEF snap
<1>6. \A m \in Range(snap.items) : origin[m] = snap.conversation
  BY <1>2, <1>4, <1>5 DEF WorkingOwn
<1>7. StagedOwn(c)'
  BY <1>2, <1>3, <1>4, <1>6 DEF StagedOwn, Conv, OneRowEach, tables
<1>8. WorkingOwn(c)'
  BY <1>2 DEF WorkingOwn
<1> QED
  BY <1>2, <1>3, <1>7, <1>8, OthersOwn

-----------------------------------------------------------------------------
(***************************************************************************)
(* Commits.                                                                *)
(***************************************************************************)

\* What a commit does to messages and lists, by operation.
CommittedAs(c) ==
  LET cv == Conv(c)
      w  == staged[c]
  IN  \/ /\ conversation_items'[cv] = conversation_items[cv] \cup w.added
         /\ MessagesOf(w.added) \subseteq w.messages
         /\ w.purged = {}
      \/ /\ conversation_items'[cv] = w.added
         /\ MessagesOf(w.added) \subseteq messages[cv] \ w.purged
      \/ conversation_items'[cv] = conversation_items[cv] /\ w.purged = {}

LEMMA CommitWrites ==
  ASSUME Owned, NEW c \in Clients, Commit(c)
  PROVE  /\ Conv(c) \in ConversationIds
         /\ \A cv \in ConversationIds \ {Conv(c)} :
              /\ messages'[cv] = messages[cv]
              /\ conversation_items'[cv] = conversation_items[cv]
         /\ messages'[Conv(c)] =
              (messages[Conv(c)] \cup staged[c].messages) \ staged[c].purged
         /\ \A m \in MessageIds :
              origin'[m] = IF m \in staged[c].messages THEN Conv(c) ELSE origin[m]
         /\ held[c] \in {"key_share", "no_key_update", "update"}
         /\ CommittedAs(c)
<1> USE DEF Owned, Inductive, StoreInvariant
<1> DEFINE cv == Conv(c)
           w  == staged[c]
<1>1. /\ cv \in ConversationIds /\ CommitOf(c)
      /\ \A v \in ConversationIds \ {cv} : conversation_items'[v] = conversation_items[v]
  BY CommitEffect
<1>2. /\ messages' = [messages EXCEPT ![cv] = (@ \cup w.messages) \ w.purged]
      /\ conversation_items' = [conversation_items EXCEPT ![cv] = (@ \ w.removed) \cup w.added]
      /\ origin' = [m \in MessageIds |-> IF m \in w.messages THEN cv ELSE origin[m]]
      /\ pc[c] = "commit"
  BY DEF Commit
<1>3. conversation_items'[cv] = (conversation_items[cv] \ w.removed) \cup w.added
  BY <1>1, <1>2 DEF TypeOK
<1>4. /\ messages'[cv] = (messages[cv] \cup w.messages) \ w.purged
      /\ \A v \in ConversationIds \ {cv} : messages'[v] = messages[v]
  BY <1>1, <1>2 DEF TypeOK
<1>5. StagedOwn(c)
  BY DEF OwnershipInvariant
<1>6. \/ Serves(c, {"append"}) /\ Appended(c, req[c].size)
      \/ Serves(c, {"replace", "delete"}) /\ Rewritten(c)
      \/ Serves(c, {"snapshot"}) /\ Unwritten(c)
  BY <1>2 DEF StatementState, AtStatement
<1>7. CommittedAs(c)
  <2>1. CASE Serves(c, {"append"}) /\ Appended(c, req[c].size)
    BY <1>3, <1>5, <2>1 DEF StagedOwn, Serves, Appended, CommittedAs
  <2>2. CASE Serves(c, {"replace", "delete"}) /\ Rewritten(c)
    BY <1>3, <1>5, <2>2 DEF StagedOwn, Serves, Rewritten, CommittedAs
  <2>3. CASE Serves(c, {"snapshot"}) /\ Unwritten(c)
    BY <1>3, <1>5, <2>3 DEF StagedOwn, Serves, Unwritten, CommittedAs
  <2> QED
    BY <1>6, <2>1, <2>2, <2>3
<1>8. held[c] \in {"key_share", "no_key_update", "update"}
  BY <1>1 DEF CommitOf
<1> QED
  BY <1>1, <1>2, <1>4, <1>7, <1>8

\* A message that was committed once keeps its conversation.
LEMMA OriginStays ==
  ASSUME Owned, NEW c \in Clients, Commit(c), NEW m \in MessageIds, NEW cv \in ConversationIds,
         origin[m] = cv
  PROVE  origin'[m] = cv
<1>1. cv # NoId
  BY StoreAssumption
<1>2. m \notin staged[c].messages
  BY <1>1 DEF Owned, OwnershipInvariant, NewMessages
<1> QED
  BY <1>2, CommitWrites

\* The list of the committed conversation, and its messages.
LEMMA CommitOwnsList ==
  ASSUME Owned, NEW c \in Clients, Commit(c)
  PROVE  LET cv == Conv(c)
         IN  /\ MessagesOf(conversation_items'[cv]) \subseteq messages'[cv]
             /\ OneRowEach(conversation_items'[cv])
             /\ \A m \in messages'[cv] : origin'[m] = cv
<1> USE DEF Owned, Inductive, StoreInvariant
<1> DEFINE cv == Conv(c)
           w  == staged[c]
<1>1. /\ cv \in ConversationIds /\ CommittedAs(c)
      /\ messages'[cv] = (messages[cv] \cup w.messages) \ w.purged
      /\ \A m \in MessageIds : origin'[m] = IF m \in w.messages THEN cv ELSE origin[m]
  BY CommitWrites
<1>2. /\ MessagesOf(conversation_items[cv]) \subseteq messages[cv]
      /\ OneRowEach(conversation_items[cv]) /\ OneRowEach(w.added)
      /\ \A m \in messages[cv] : origin[m] = cv
  BY <1>1 DEF OwnershipInvariant, OwnMessagesOnly, StagedOwn
<1>3. messages[cv] \subseteq MessageIds /\ w.messages \subseteq MessageIds
  <2>1. w \in StagedWrites
    BY DEF TypeOK
  <2> QED
    BY <1>1, <2>1 DEF TypeOK, StagedWrites
<1>4. \A m \in messages'[cv] : origin'[m] = cv
  BY <1>1, <1>2, <1>3
<1>5. messages[cv] \cap w.messages = {}
  <2>1. \A m \in w.messages : origin[m] = NoId
    BY DEF OwnershipInvariant, NewMessages
  <2>2. cv # NoId
    BY <1>1, StoreAssumption
  <2> QED
    BY <1>2, <2>1, <2>2
<1>6. CASE /\ conversation_items'[cv] = conversation_items[cv] \cup w.added
           /\ MessagesOf(w.added) \subseteq w.messages
           /\ w.purged = {}
  <2>1. MessagesOf(conversation_items'[cv]) \subseteq messages'[cv]
    BY <1>1, <1>2, <1>6 DEF MessagesOf
  <2>2. \A q \in conversation_items[cv], r \in w.added : q.message # r.message
    BY <1>2, <1>5, <1>6 DEF MessagesOf
  <2>3. OneRowEach(conversation_items'[cv])
    BY <1>2, <1>6, <2>2 DEF OneRowEach
  <2> QED
    BY <1>4, <2>1, <2>3
<1>7. CASE /\ conversation_items'[cv] = w.added
           /\ MessagesOf(w.added) \subseteq messages[cv] \ w.purged
  BY <1>1, <1>2, <1>4, <1>7
<1>8. CASE conversation_items'[cv] = conversation_items[cv] /\ w.purged = {}
  BY <1>1, <1>2, <1>4, <1>8
<1> QED
  BY <1>1, <1>6, <1>7, <1>8 DEF CommittedAs

\* A range operation that has locked its conversation keeps every commit to it
\* out: the messages it has checked are still there.
LEMMA CommitElsewhere ==
  ASSUME Owned, NEW c \in Clients, Commit(c), NEW d \in Clients \ {c},
         held[d] = "update", Conv(d) \in ConversationIds
  PROVE  messages'[Conv(d)] = messages[Conv(d)]
<1> USE DEF Owned, Inductive, StoreInvariant
<1>1. held[c] \in {"key_share", "no_key_update", "update"}
  BY CommitWrites
<1>2. Conv(d) # Conv(c)
  BY <1>1 DEF LocksExclude, Conflicts
<1> QED
  BY <1>2, CommitWrites

LEMMA CommitSparesOthers ==
  ASSUME Owned, NEW c \in Clients, Commit(c), NEW d \in Clients \ {c}
  PROVE  StagedOwn(d)' /\ WorkingOwn(d)'
<1> USE DEF Owned, Inductive, StoreInvariant
<1>1. /\ pc'[d] = pc[d] /\ req'[d] = req[d] /\ working'[d] = working[d]
      /\ cut'[d] = cut[d] /\ staged'[d] = staged[d]
  BY FinishedOwns DEF Commit
<1>2. StagedOwn(d) /\ WorkingOwn(d) /\ AtStatement(d) /\ Conv(d)' = Conv(d)
  BY <1>1 DEF OwnershipInvariant, StatementState, Conv
<1>3. req[d] \in Requests => Conv(d) \in ConversationIds /\ Range(req[d].ids) \subseteq MessageIds
  <2> SUFFICES ASSUME req[d] \in Requests
               PROVE  Conv(d) \in ConversationIds /\ Range(req[d].ids) \subseteq MessageIds
    OBVIOUS
  <2>1. req[d].conversation \in ConversationIds /\ req[d].ids \in Seq(MessageIds)
    BY RequestFields
  <2> QED
    BY <2>1, LenProperties DEF Conv, Range
<1>4. ASSUME req[d].op \in {"replace", "delete"}
      PROVE  MessagesOf(staged[d].added) \subseteq messages'[Conv(d)] \ staged[d].purged
  <2>1. pc[d] \in Statements \cup {"idle"}
    BY DEF TypeOK
  <2>2. \/ staged[d].added = {}
        \/ held[d] = "update" /\ req[d] \in Requests
    BY <1>2, <1>4, <2>1 DEF AtStatement, Statements, Serves, Unwritten, NoRequest
  <2>3. CASE staged[d].added = {}
    BY <2>3 DEF MessagesOf
  <2>4. CASE held[d] = "update" /\ req[d] \in Requests
    BY <1>2, <1>3, <1>4, <2>4, CommitElsewhere DEF StagedOwn
  <2> QED
    BY <2>2, <2>3, <2>4
<1>5. ASSUME NEW s \in staged[d].snapshots, NEW m \in Range(s.items)
      PROVE  origin'[m] = s.conversation
  <2>1. s \in Snapshot
    <3>1. staged[d] \in StagedWrites
      BY DEF TypeOK
    <3> QED
      BY <3>1 DEF StagedWrites
  <2>2. s.conversation \in ConversationIds /\ s.items \in Seq(MessageIds)
    BY <2>1 DEF Snapshot
  <2>3. m \in MessageIds
    BY <2>2, LenProperties DEF Range
  <2>4. origin[m] = s.conversation
    BY <1>2 DEF StagedOwn
  <2> QED
    BY <2>2, <2>3, <2>4, OriginStays
<1>6. StagedOwn(d)'
  BY <1>1, <1>2, <1>4, <1>5 DEF StagedOwn, OneRowEach
<1>7. ASSUME pc[d] \in {"verify", "rewrite"}
      PROVE  messages'[Conv(d)] = messages[Conv(d)]
  BY <1>2, <1>3, <1>7, CommitElsewhere DEF AtStatement, Serves
<1>8. ASSUME pc[d] = "insert_snapshot", NEW m \in Range(req[d].ids)
      PROVE  origin'[m] = Conv(d)
  <2>1. req[d] \in Requests
    BY <1>2, <1>8 DEF AtStatement, Serves
  <2>2. origin[m] = Conv(d)
    BY <1>2, <1>8 DEF WorkingOwn
  <2> QED
    BY <1>3, <1>8, <2>1, <2>2, OriginStays
<1>9. WorkingOwn(d)'
  BY <1>1, <1>2, <1>7, <1>8 DEF WorkingOwn
<1> QED
  BY <1>6, <1>9

LEMMA CommitOwned ==
  ASSUME Owned, NEW c \in Clients, Commit(c)
  PROVE  OwnershipInvariant'
<1> USE DEF Owned, Inductive, StoreInvariant
<1>1. /\ staged'[c] = NoWrites /\ StagedOwn(c)' /\ WorkingOwn(c)'
      /\ \A d \in Clients \ {c} : staged'[d] = staged[d]
  BY FinishedOwns DEF Commit
<1>2. ASSUME NEW cv \in ConversationIds
      PROVE  /\ MessagesOf(conversation_items'[cv]) \subseteq messages'[cv]
             /\ OneRowEach(conversation_items'[cv])
             /\ \A m \in messages'[cv] : origin'[m] = cv
  <2>1. CASE cv = Conv(c)
    BY <2>1, CommitOwnsList
  <2>2. CASE cv # Conv(c)
    <3>1. /\ messages'[cv] = messages[cv] /\ messages[cv] \subseteq MessageIds
          /\ conversation_items'[cv] = conversation_items[cv]
      BY <2>2, CommitWrites DEF TypeOK
    <3>2. /\ MessagesOf(conversation_items[cv]) \subseteq messages[cv]
          /\ OneRowEach(conversation_items[cv])
          /\ \A m \in messages[cv] : origin[m] = cv
      BY DEF OwnershipInvariant, OwnMessagesOnly
    <3> QED
      BY <3>1, <3>2, OriginStays
  <2> QED
    BY <2>1, <2>2
<1>3. ASSUME NEW s \in snapshots', NEW m \in Range(s.items)
      PROVE  origin'[m] = s.conversation
  <2>1. s \in snapshots \cup staged[c].snapshots
    BY DEF Commit
  <2>2. s \in Snapshot
    <3>1. staged[c] \in StagedWrites
      BY DEF TypeOK
    <3> QED
      BY <2>1, <3>1 DEF StagedWrites, TypeOK
  <2>3. s.conversation \in ConversationIds /\ s.items \in Seq(MessageIds)
    BY <2>2 DEF Snapshot
  <2>4. m \in MessageIds
    BY <2>3, LenProperties DEF Range
  <2>5. origin[m] = s.conversation
    BY <2>1 DEF OwnershipInvariant, OwnMessagesOnly, StagedOwn
  <2> QED
    BY <2>3, <2>4, <2>5, OriginStays
<1>4. OwnMessagesOnly'
  BY <1>2, <1>3 DEF OwnMessagesOnly
<1>5. \A cv \in ConversationIds : OneRowEach(conversation_items[cv])'
  BY <1>2 DEF OneRowEach
<1>6. NewMessages'
  <2>1. ASSUME NEW d \in Clients, NEW m \in staged'[d].messages
        PROVE  origin'[m] = NoId
    <3>1. d # c /\ m \in staged[d].messages
      BY <1>1 DEF NoWrites
    <3>2. origin[m] = NoId /\ m \notin staged[c].messages
      BY <3>1 DEF OwnershipInvariant, NewMessages
    <3>3. staged[d] \in StagedWrites
      BY DEF TypeOK
    <3>4. m \in MessageIds
      BY <3>1, <3>3 DEF StagedWrites
    <3> QED
      BY <3>2, <3>4, CommitWrites
  <2>2. ASSUME NEW d \in Clients, NEW e \in Clients \ {d}
        PROVE  staged'[d].messages \cap staged'[e].messages = {}
    BY <1>1 DEF OwnershipInvariant, NewMessages, NoWrites
  <2> QED
    BY <2>1, <2>2 DEF NewMessages
<1>7. \A d \in Clients : StagedOwn(d)' /\ WorkingOwn(d)'
  BY <1>1, CommitSparesOthers
<1> QED
  BY <1>4, <1>5, <1>6, <1>7 DEF OwnershipInvariant

-----------------------------------------------------------------------------
(***************************************************************************)
(* The theorems.                                                           *)
(***************************************************************************)

LEMMA InitOwns == Init => Owned
BY InitOwned, InitInductive DEF Owned

LEMMA NextOwns == Owned /\ [Next]_vars => Owned'
<1> SUFFICES ASSUME Owned, [Next]_vars
             PROVE  Owned'
  OBVIOUS
<1>1. Inductive'
  BY NextInductive DEF Owned
<1>2. CASE UNCHANGED vars
  <2>1. \A d \in Clients : StagedOwn(d) /\ WorkingOwn(d)
    BY DEF Owned, OwnershipInvariant
  <2>2. \A d \in Clients : StagedOwn(d)'
    BY <1>2, <2>1 DEF StagedOwn, OneRowEach, Conv, vars, tables
  <2>3. \A d \in Clients : WorkingOwn(d)'
    BY <1>2, <2>1 DEF WorkingOwn, Conv, vars, tables
  <2>4. OwnMessagesOnly' /\ NewMessages'
    BY <1>2 DEF Owned, OwnershipInvariant, OwnMessagesOnly, NewMessages, vars, tables
  <2>5. \A cv \in ConversationIds : OneRowEach(conversation_items[cv])'
    BY <1>2 DEF Owned, OwnershipInvariant, OneRowEach, vars, tables
  <2> QED
    BY <1>1, <2>2, <2>3, <2>4, <2>5 DEF Owned, OwnershipInvariant
<1>3. ASSUME NEW c \in Clients, Call(c) PROVE OwnershipInvariant'
  BY <1>3, CallOwned
<1>4. ASSUME NEW c \in Clients, Step(c) PROVE OwnershipInvariant'
  BY <1>4, EnsureOwned, InsertOwned, LockOwned, ReadOwned, VerifyOwned, RewriteOwned,
     UpdateOwned, LoadOwned, InsertSnapshotOwned, CommitOwned DEF Step
<1>5. ASSUME NEW c \in Clients, Abort(c) PROVE OwnershipInvariant'
  BY <1>5, RollbackOwned DEF Abort
<1>6. CASE Next
  BY <1>1, <1>3, <1>4, <1>5, <1>6 DEF Next, Owned
<1> QED
  BY <1>2, <1>6

\* Between any two statements of concurrent transactions, what each has checked
\* about its messages without writing it yet is still true.
THEOREM OwnershipHolds == Spec => []OwnershipInvariant
<1>1. Owned => OwnershipInvariant
  BY DEF Owned
<1> QED
  BY <1>1, InitOwns, NextOwns, PTL DEF Spec

\* The order of a conversation lists its own, undeleted messages, and a snapshot
\* copies messages of its own conversation.
THEOREM OwnMessages == Spec => []OwnMessagesOnly
<1>1. Owned => OwnMessagesOnly
  BY DEF Owned, OwnershipInvariant
<1> QED
  BY <1>1, InitOwns, NextOwns, PTL DEF Spec

\* What the statements of a transaction write breaks no constraint.
LEMMA WritesAreValid == Owned => ConstraintsNeverFire
<1> SUFFICES ASSUME Owned, NEW c \in Clients, pc[c] # "idle", NEW r \in staged[c].added
             PROVE  LET cv    == Conv(c)
                        after == (conversation_items[cv] \ staged[c].removed) \cup staged[c].added
                    IN  /\ \A q \in after : q.message = r.message => q = r
                        /\ r.message \in (messages[cv] \cup staged[c].messages) \ staged[c].purged
  BY DEF ConstraintsNeverFire
<1> USE DEF Owned, Inductive, StoreInvariant
<1> DEFINE cv == Conv(c)
           w  == staged[c]
<1>1. AtStatement(c) /\ StagedOwn(c) /\ pc[c] \in Statements \cup {"idle"}
  BY DEF StatementState, OwnershipInvariant, TypeOK
<1>2. \/ Serves(c, {"append"}) /\ w.removed = {}
      \/ Serves(c, {"replace", "delete"}) /\ w.removed = conversation_items[cv]
  BY <1>1 DEF AtStatement, Statements, Unwritten, Appended, Rewritten
<1>3. cv \in ConversationIds
  BY <1>2, RequestFields DEF Serves, Conv
<1>4. \A q \in w.added : q.message = r.message => q = r
  BY <1>1 DEF StagedOwn, OneRowEach
<1>5. CASE Serves(c, {"append"}) /\ w.removed = {}
  <2>1. r.message \in w.messages /\ w.purged = {}
    BY <1>1, <1>5 DEF StagedOwn, Serves, MessagesOf
  <2>2. origin[r.message] = NoId
    BY <2>1 DEF OwnershipInvariant, NewMessages
  <2>3. \A q \in conversation_items[cv] : origin[q.message] = cv
    BY <1>3 DEF OwnershipInvariant, OwnMessagesOnly, MessagesOf
  <2>4. \A q \in conversation_items[cv] : q.message # r.message
    BY <1>3, <2>2, <2>3, StoreAssumption
  <2> QED
    BY <1>4, <2>1, <2>4
<1>6. CASE Serves(c, {"replace", "delete"}) /\ w.removed = conversation_items[cv]
  <2>1. r.message \in messages[cv] \ w.purged
    BY <1>1, <1>6 DEF StagedOwn, Serves, MessagesOf
  <2> QED
    BY <1>4, <1>6, <2>1
<1> QED
  BY <1>2, <1>5, <1>6

\* No transaction, however it interleaves with others, writes rows that the
\* unique constraint or the foreign key of conversation_items would refuse.
THEOREM ConstraintsHold == Spec => []ConstraintsNeverFire
BY WritesAreValid, InitOwns, NextOwns, PTL DEF Spec

=============================================================================
