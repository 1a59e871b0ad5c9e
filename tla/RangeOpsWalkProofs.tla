------------------------- MODULE RangeOpsWalkProofs -------------------------
(***************************************************************************)
(* The properties of RangeOpsWalk for every set of messages and every      *)
(* order the range operations can reach: they are right, can be undone, do *)
(* no harm when repeated, and are what the edits of slices compute.        *)
(***************************************************************************)
EXTENDS RangeOpsWalk, RangeOpsProofs

\* No order lists a message twice: insertions are checked, deletions cannot add.
OrderInvariant == order \in Seq(MessageIds) /\ Unique(order)

\* The range operations map orders to orders.
LEMMA OrdersStayOrders == Spec => []OrderInvariant
<1>1. Init => OrderInvariant
  BY WalkAssumption DEF Init, OrderInvariant
<1>2. OrderInvariant /\ [Next]_order => OrderInvariant'
  <2> SUFFICES ASSUME OrderInvariant, [Next]_order
               PROVE  OrderInvariant'
    OBVIOUS
  <2>1. CASE Replace
    <3>1. PICK from \in MessageIds \cup {NoId}, to \in MessageIds \cup {NoId},
               ins \in InsertLists :
            /\ from # NoId \/ to # NoId
            /\ ReplaceAccepted(order, from, to, ins)
            /\ order' = ReplaceResult(order, from, to, ins)
      BY <2>1 DEF Replace, Bounds
    <3>2. ins \in Seq(MessageIds)
      BY WalkAssumption
    <3>3. BoundsFound(order, from, to) /\ ReplaceSpecValid(order, from, to, ins)
      BY <3>1 DEF ReplaceAccepted
    <3>4. IsSplice(ReplaceResult(order, from, to, ins), MessageIds, order,
                   ReplaceFirst(order, from, to), ReplaceLast(order, from, to), ins)
      BY <3>1, <3>2, <3>3, ReplaceBounds, SpliceProperties DEF ReplaceResult, OrderInvariant
    <3>5. Unique(order')
      BY <3>1 DEF ReplaceAccepted
    <3> QED
      BY <3>1, <3>4, <3>5 DEF IsSplice, OrderInvariant
  <2>2. CASE Delete
    <3>1. PICK from \in MessageIds \cup {NoId}, to \in MessageIds \cup {NoId} :
            /\ DeleteAccepted(order, from, to)
            /\ order' = DeleteResult(order, from, to)
      BY <2>2 DEF Delete, Bounds
    <3>2. IsSplice(order', MessageIds, order, DeleteFirst(order, from), DeleteLast(order, to), <<>>)
          /\ Unique(order')
      BY <3>1, DeleteSplices DEF DeleteAccepted, OrderInvariant
    <3> QED
      BY <3>2 DEF IsSplice, OrderInvariant
  <2>3. CASE UNCHANGED order
    BY <2>3 DEF OrderInvariant
  <2> QED
    BY <2>1, <2>2, <2>3 DEF Next
<1> QED
  BY <1>1, <1>2, PTL DEF Spec

\* The answer of every replacement that inserts something is enough to undo it, whatever the
\* conversation, the range and the messages inserted.
THEOREM ReplaceReversible == Spec => []ReplaceIsReversible
<1>1. OrderInvariant => ReplaceIsReversible
  <2> SUFFICES ASSUME OrderInvariant,
                      NEW from \in MessageIds \cup {NoId}, NEW to \in MessageIds \cup {NoId},
                      from # NoId \/ to # NoId,
                      NEW ins \in InsertLists, ins # <<>>,
                      ReplaceAccepted(order, from, to, ins)
               PROVE  ReplaceResult(ReplaceResult(order, from, to, ins), ins[1], ins[Len(ins)],
                                    ReplacedIds(order, from, to)) = order
    BY DEF ReplaceIsReversible, Bounds
  <2>1. order \in Seq(MessageIds) /\ ins \in Seq(MessageIds) /\ NoId \notin MessageIds
    BY WalkAssumption DEF OrderInvariant
  <2>2. /\ BoundsFound(order, from, to)
        /\ ReplaceSpecValid(order, from, to, ins)
        /\ Unique(ReplaceResult(order, from, to, ins))
    BY DEF ReplaceAccepted
  <2> QED
    BY <2>1, <2>2, ReplaceIsUndone
<1> QED
  BY <1>1, OrdersStayOrders, PTL

\* A request that is sent twice in a row leaves the order alone the second time.
THEOREM RetriesAreHarmless == Spec => []RetryIsHarmless
<1>1. OrderInvariant => RetryIsHarmless
  <2> SUFFICES ASSUME OrderInvariant,
                      NEW from \in MessageIds \cup {NoId}, NEW to \in MessageIds \cup {NoId},
                      from # NoId \/ to # NoId
               PROVE  /\ \A ins \in InsertLists : ReplaceAccepted(order, from, to, ins) =>
                           LET result == ReplaceResult(order, from, to, ins) IN
                             ReplaceAccepted(result, from, to, ins) =>
                               ReplaceResult(result, from, to, ins) = result
                      /\ DeleteAccepted(order, from, to) =>
                           ~DeleteAccepted(DeleteResult(order, from, to), from, to)
    BY DEF RetryIsHarmless, Bounds
  <2>1. order \in Seq(MessageIds) /\ Unique(order) /\ InsertLists \subseteq Seq(MessageIds)
    BY WalkAssumption DEF OrderInvariant
  <2>2. ASSUME NEW ins \in InsertLists, ReplaceAccepted(order, from, to, ins),
               NEW result, result = ReplaceResult(order, from, to, ins),
               ReplaceAccepted(result, from, to, ins)
        PROVE  ReplaceResult(result, from, to, ins) = result
    BY <2>1, <2>2, ReplaceTwice DEF ReplaceAccepted
  <2>3. ASSUME DeleteAccepted(order, from, to)
        PROVE  ~DeleteAccepted(DeleteResult(order, from, to), from, to)
    BY <2>1, <2>3, DeleteTwice DEF DeleteAccepted
  <2> QED
    BY <2>2, <2>3
<1> QED
  BY <1>1, OrdersStayOrders, PTL

-----------------------------------------------------------------------------
(***************************************************************************)
(* The reference.                                                          *)
(***************************************************************************)

\* Who precedes whom, by places.
LEMMA PrecedencePlaces ==
  ASSUME NEW S, NEW ids \in Seq(S)
  PROVE  /\ Precedence(ids) \subseteq S \X S
         /\ \A a, b : <<a, b>> \in Precedence(ids) <=>
              \E i, j \in 1..Len(ids) : i < j /\ ids[i] = a /\ ids[j] = b
<1>1. DOMAIN ids = 1..Len(ids)
  BY LenProperties
<1>2. \A i \in 1..Len(ids) : ids[i] \in S
  BY ElementOfSeq
<1>3. ASSUME NEW i \in 1..Len(ids), NEW j \in 1..Len(ids), i < j
      PROVE  <<ids[i], ids[j]>> \in Precedence(ids)
  <2>1. <<i, j>> \in {q \in (DOMAIN ids) \X (DOMAIN ids) : q[1] < q[2]}
    BY <1>1, <1>3
  <2> QED
    BY <2>1 DEF Precedence
<1>4. ASSUME NEW pair \in Precedence(ids)
      PROVE  \E i, j \in 1..Len(ids) : i < j /\ pair = <<ids[i], ids[j]>>
  <2>1. PICK p \in (DOMAIN ids) \X (DOMAIN ids) : p[1] < p[2] /\ pair = <<ids[p[1]], ids[p[2]]>>
    BY <1>4 DEF Precedence
  <2> QED
    BY <1>1, <2>1
<1>5. Precedence(ids) \subseteq S \X S
  BY <1>2, <1>4
<1> QED
  BY <1>3, <1>4, <1>5

\* What precedes and what follows a listed message, by places.
LEMMA SidesByPlace ==
  ASSUME OrderInvariant, NEW p \in 1..Len(order)
  PROVE  /\ Preceding(order[p]) = {order[i] : i \in 1..(p - 1)}
         /\ Following(order[p]) = {order[i] : i \in (p + 1)..Len(order)}
<1>1. order \in Seq(MessageIds) /\ Len(order) \in Nat /\ DOMAIN order = 1..Len(order)
  BY LenProperties DEF OrderInvariant
<1>2. \A i \in 1..Len(order) : order[i] = order[p] => i = p
  BY <1>1, OnePlace DEF OrderInvariant
<1>3. \A m : m \in Range(order) <=> \E i \in 1..Len(order) : order[i] = m
  BY <1>1 DEF Range
<1>4. ASSUME NEW m
      PROVE  m \in Preceding(order[p]) <=> \E i \in 1..(p - 1) : order[i] = m
  <2>1. m \in Preceding(order[p]) <=>
          \E i, j \in 1..Len(order) : i < j /\ order[i] = m /\ order[j] = order[p]
    BY <1>1, <1>3, PrecedencePlaces DEF Preceding
  <2> QED
    BY <1>1, <1>2, <2>1
<1>5. ASSUME NEW m
      PROVE  m \in Following(order[p]) <=> \E i \in (p + 1)..Len(order) : order[i] = m
  <2>1. m \in Following(order[p]) <=>
          \E i, j \in 1..Len(order) : i < j /\ order[i] = order[p] /\ order[j] = m
    BY <1>1, <1>3, PrecedencePlaces DEF Following
  <2> QED
    BY <1>1, <1>2, <2>1
<1> QED
  BY <1>4, <1>5

\* A splice lists what was before, what is inserted and what was after, in turn.
LEMMA SpliceInTurn ==
  ASSUME OrderInvariant, NEW ins \in Seq(MessageIds),
         NEW first \in 1..(Len(order) + 1), NEW last \in 0..Len(order),
         first <= last + 1,
         NEW new, IsSplice(new, MessageIds, order, first, last, ins),
         NEW before, before = {order[i] : i \in 1..(first - 1)},
         NEW after, after = {order[i] : i \in (last + 1)..Len(order)}
  PROVE  InTurn(new, before, ins, after)
<1> DEFINE n == Len(ins)
           d == n - (last - first + 1)
           reference == (before \X (Range(ins) \cup after)) \cup (Range(ins) \X after)
                          \cup Precedence(ins)
                          \cup (Precedence(order) \cap ((before \X before) \cup (after \X after)))
<1>1. /\ order \in Seq(MessageIds) /\ Len(order) \in Nat /\ n \in Nat
      /\ \A i, j \in 1..Len(order) : order[i] = order[j] => i = j
  BY LenProperties, OnePlace DEF OrderInvariant
<1>2. new \in Seq(MessageIds) /\ Len(new) = Len(order) + d /\ Len(new) \in Nat
  <2>1. new \in Seq(MessageIds) /\ Len(new) = Len(order) - (last - first + 1) + n
    BY DEF IsSplice
  <2> QED
    BY <1>1, <2>1, LenProperties
<1>3. /\ \A m : m \in before <=> \E i \in 1..(first - 1) : order[i] = m
      /\ \A m : m \in after <=> \E i \in (last + 1)..Len(order) : order[i] = m
      /\ \A m : m \in Range(ins) <=> \E i \in 1..n : ins[i] = m
      /\ \A m : m \in Range(new) <=> \E i \in 1..Len(new) : new[i] = m
  BY <1>2, LenProperties DEF Range
<1>4. /\ \A i \in 1..(first - 1) : i \in 1..Len(new) /\ i \in 1..Len(order) /\ new[i] = order[i]
      /\ \A i \in 1..n : first - 1 + i \in 1..Len(new) /\ new[first - 1 + i] = ins[i]
      /\ \A i \in (last + 1)..Len(order) : i + d \in 1..Len(new) /\ new[i + d] = order[i]
  <2>1. ASSUME NEW i \in (last + 1)..Len(order)
        PROVE  new[i + d] = order[i]
    <3>1. i - last \in 1..(Len(order) - last)
      BY <1>1
    <3>2. new[first - 1 + n + (i - last)] = order[last + (i - last)]
      BY <3>1 DEF IsSplice
    <3>3. first - 1 + n + (i - last) = i + d /\ last + (i - last) = i
      BY <1>1
    <3> QED
      BY <3>2, <3>3
  <2>2. /\ \A i \in 1..(first - 1) : new[i] = order[i]
        /\ \A i \in 1..n : new[first - 1 + i] = ins[i]
    BY DEF IsSplice
  <2>3. /\ \A i \in 1..(first - 1) : i \in 1..Len(new) /\ i \in 1..Len(order)
        /\ \A i \in 1..n : first - 1 + i \in 1..Len(new)
        /\ \A i \in (last + 1)..Len(order) : i + d \in 1..Len(new)
    BY <1>1, <1>2
  <2> QED
    BY <2>1, <2>2, <2>3
<1>5. ASSUME NEW k \in 1..Len(new)
      PROVE  \/ k \in 1..(first - 1) /\ new[k] = order[k]
             \/ \E i \in 1..n : k = first - 1 + i /\ new[k] = ins[i]
             \/ \E i \in (last + 1)..Len(order) : k = i + d /\ new[k] = order[i]
  <2>1. FromSplice(new, order, first, last, ins, k)
    BY <1>1, SplicePlaces
  <2>2. k = first - 1 + (k - first + 1) /\ k = k - n + (last - first + 1) + d
    BY <1>1
  <2> QED
    BY <2>1, <2>2 DEF FromSplice
<1>6. d \in Int /\ d = n - (last - first + 1)
  BY <1>1
<1> HIDE DEF d, n
<1>7. Range(new) = before \cup Range(ins) \cup after
  <2>1. ASSUME NEW m \in Range(new)
        PROVE  m \in before \cup Range(ins) \cup after
    <3>1. PICK k \in 1..Len(new) : new[k] = m
      BY <1>3, <2>1
    <3>2. CASE k \in 1..(first - 1) /\ new[k] = order[k]
      BY <1>3, <3>1, <3>2
    <3>3. CASE \E i \in 1..n : k = first - 1 + i /\ new[k] = ins[i]
      <4>1. m \in Range(ins)
        BY <1>3, <3>1, <3>3
      <4> QED
        BY <4>1
    <3>4. CASE \E i \in (last + 1)..Len(order) : k = i + d /\ new[k] = order[i]
      <4>1. m \in after
        BY <1>3, <3>1, <3>4
      <4> QED
        BY <4>1
    <3> QED
      BY <1>5, <3>1, <3>2, <3>3, <3>4
  <2>2. ASSUME NEW m \in before \cup Range(ins) \cup after
        PROVE  m \in Range(new)
    <3>1. CASE m \in before
      BY <1>3, <1>4, <3>1
    <3>2. CASE m \in Range(ins)
      BY <1>3, <1>4, <3>2
    <3>3. CASE m \in after
      BY <1>3, <1>4, <3>3
    <3> QED
      BY <2>2, <3>1, <3>2, <3>3
  <2> QED
    BY <2>1, <2>2
<1>8. /\ \A a, b : <<a, b>> \in Precedence(new) <=>
           \E i, j \in 1..Len(new) : i < j /\ new[i] = a /\ new[j] = b
      /\ \A a, b : <<a, b>> \in Precedence(order) <=>
           \E i, j \in 1..Len(order) : i < j /\ order[i] = a /\ order[j] = b
      /\ \A a, b : <<a, b>> \in Precedence(ins) <=>
           \E i, j \in 1..n : i < j /\ ins[i] = a /\ ins[j] = b
      /\ Precedence(new) \subseteq MessageIds \X MessageIds
      /\ Precedence(order) \subseteq MessageIds \X MessageIds
      /\ Precedence(ins) \subseteq MessageIds \X MessageIds
  BY <1>1, <1>2, PrecedencePlaces DEF n
<1>9. ASSUME NEW i \in 1..Len(new), NEW j \in 1..Len(new), i < j
      PROVE  <<new[i], new[j]>> \in reference
  <2>1. CASE i \in 1..(first - 1) /\ new[i] = order[i]
    <3>1. new[i] \in before
      BY <1>3, <2>1
    <3>2. CASE j \in 1..(first - 1) /\ new[j] = order[j]
      BY <1>3, <1>4, <1>8, <1>9, <2>1, <3>1, <3>2
    <3>3. CASE ~(j \in 1..(first - 1) /\ new[j] = order[j])
      BY <1>3, <1>5, <3>1, <3>3
    <3> QED
      BY <3>2, <3>3
  <2>2. ASSUME NEW p \in 1..n, i = first - 1 + p, new[i] = ins[p]
        PROVE  <<new[i], new[j]>> \in reference
    <3>1. new[i] \in Range(ins)
      BY <1>3, <2>2
    <3>2. j \notin 1..(first - 1)
      BY <1>1, <1>9, <2>2
    <3>3. ASSUME NEW q \in 1..n, j = first - 1 + q, new[j] = ins[q]
          PROVE  <<new[i], new[j]>> \in reference
      <4>1. p < q
        BY <1>9, <2>2, <3>3
      <4> QED
        BY <1>8, <2>2, <3>3, <4>1
    <3>4. ASSUME NEW q \in (last + 1)..Len(order), new[j] = order[q]
          PROVE  <<new[i], new[j]>> \in reference
      BY <1>3, <3>1, <3>4
    <3> QED
      BY <1>5, <3>2, <3>3, <3>4
  <2>3. ASSUME NEW p \in (last + 1)..Len(order), i = p + d, new[i] = order[p]
        PROVE  <<new[i], new[j]>> \in reference
    <3>1. new[i] \in after
      BY <1>3, <2>3
    <3>2. /\ j \notin 1..(first - 1)
          /\ \A q \in 1..n : j # first - 1 + q
      <4>1. i > first - 1 + n
        BY <1>1, <1>6, <2>3
      <4>2. j > first - 1 + n
        BY <1>1, <1>9, <4>1
      <4> QED
        BY <1>1, <4>2
    <3>3. PICK q \in (last + 1)..Len(order) : j = q + d /\ new[j] = order[q]
      BY <1>5, <3>2
    <3>4. p < q /\ p \in 1..Len(order) /\ q \in 1..Len(order)
      BY <1>1, <1>6, <1>9, <2>3, <3>3
    <3> QED
      BY <1>3, <1>8, <2>3, <3>1, <3>3, <3>4
  <2> QED
    BY <1>5, <2>1, <2>2, <2>3
<1>10. ASSUME NEW a, NEW b, <<a, b>> \in reference
      PROVE  <<a, b>> \in Precedence(new)
  <2>1. \/ a \in before /\ b \in Range(ins)
        \/ a \in before /\ b \in after
        \/ a \in Range(ins) /\ b \in after
        \/ <<a, b>> \in Precedence(ins)
        \/ <<a, b>> \in Precedence(order) /\ a \in before /\ b \in before
        \/ <<a, b>> \in Precedence(order) /\ a \in after /\ b \in after
    BY <1>10
  <2>2. SUFFICES \E i, j \in 1..Len(new) : i < j /\ new[i] = a /\ new[j] = b
    BY <1>8
  <2>3. CASE a \in before /\ b \in Range(ins)
    <3>1. PICK p \in 1..(first - 1), q \in 1..n : order[p] = a /\ ins[q] = b
      BY <1>3, <2>3
    <3>2. p < first - 1 + q
      BY <1>1, <3>1
    <3> QED
      BY <1>4, <3>1, <3>2
  <2>4. CASE a \in before /\ b \in after
    <3>1. PICK p \in 1..(first - 1), q \in (last + 1)..Len(order) : order[p] = a /\ order[q] = b
      BY <1>3, <2>4
    <3>2. p < q + d
      BY <1>1, <1>6, <3>1
    <3> QED
      BY <1>4, <3>1, <3>2
  <2>5. CASE a \in Range(ins) /\ b \in after
    <3>1. PICK p \in 1..n, q \in (last + 1)..Len(order) : ins[p] = a /\ order[q] = b
      BY <1>3, <2>5
    <3>2. first - 1 + p < q + d
      BY <1>1, <1>6, <3>1
    <3> QED
      BY <1>4, <3>1, <3>2
  <2>6. CASE <<a, b>> \in Precedence(ins)
    <3>1. PICK p \in 1..n, q \in 1..n : p < q /\ ins[p] = a /\ ins[q] = b
      BY <1>8, <2>6
    <3>2. first - 1 + p < first - 1 + q
      BY <3>1
    <3> QED
      BY <1>4, <3>1, <3>2
  <2>7. CASE <<a, b>> \in Precedence(order) /\ a \in before /\ b \in before
    <3>1. PICK p \in 1..Len(order), q \in 1..Len(order) : p < q /\ order[p] = a /\ order[q] = b
      BY <1>8, <2>7
    <3>2. p \in 1..(first - 1) /\ q \in 1..(first - 1)
      BY <1>1, <1>3, <1>4, <2>7, <3>1
    <3> QED
      BY <1>4, <3>1, <3>2
  <2>8. CASE <<a, b>> \in Precedence(order) /\ a \in after /\ b \in after
    <3>1. PICK p \in 1..Len(order), q \in 1..Len(order) : p < q /\ order[p] = a /\ order[q] = b
      BY <1>8, <2>8
    <3>2. \A i \in (last + 1)..Len(order) : i \in 1..Len(order)
      BY <1>1
    <3>3. p \in (last + 1)..Len(order) /\ q \in (last + 1)..Len(order)
      BY <1>1, <1>3, <2>8, <3>1, <3>2
    <3>4. p + d < q + d
      BY <1>6, <3>1
    <3> QED
      BY <1>4, <3>1, <3>3, <3>4
  <2> QED
    BY <2>1, <2>3, <2>4, <2>5, <2>6, <2>7, <2>8
<1>11. Precedence(new) = reference
  <2>1. ASSUME NEW pair \in Precedence(new) PROVE pair \in reference
    <3>1. PICK a \in MessageIds, b \in MessageIds : pair = <<a, b>>
      BY <1>8, <2>1
    <3> HIDE DEF reference
    <3> QED
      BY <1>8, <1>9, <2>1, <3>1
  <2>2. ASSUME NEW pair \in reference PROVE pair \in Precedence(new)
    <3>1. \E a, b : pair = <<a, b>>
      BY <1>8, <2>2
    <3> HIDE DEF reference
    <3> QED
      BY <1>10, <2>2, <3>1
  <2> QED
    BY <2>1, <2>2
<1> QED
  BY <1>7, <1>11 DEF InTurn

\* Every accepted replacement lists what the reference says: whatever the order,
\* the bounds and the messages inserted.
THEOREM ReplaceIsRight == Spec => []ReplaceMatchesReference
<1>1. OrderInvariant => ReplaceMatchesReference
  <2> SUFFICES ASSUME OrderInvariant,
                      NEW from \in MessageIds \cup {NoId}, NEW to \in MessageIds \cup {NoId},
                      from # NoId \/ to # NoId,
                      NEW ins \in InsertLists, ReplaceAccepted(order, from, to, ins)
               PROVE  InTurn(ReplaceResult(order, from, to, ins),
                             KeptBefore(from, to), ins, KeptAfter(from, to))
    BY DEF ReplaceMatchesReference, Bounds
  <2> DEFINE first == ReplaceFirst(order, from, to)
             last  == ReplaceLast(order, from, to)
             new   == ReplaceResult(order, from, to, ins)
  <2>1. /\ order \in Seq(MessageIds) /\ ins \in Seq(MessageIds) /\ Len(order) \in Nat
        /\ BoundsFound(order, from, to) /\ ReplaceSpecValid(order, from, to, ins)
    BY WalkAssumption, LenProperties DEF OrderInvariant, ReplaceAccepted
  <2>2. first \in 1..(Len(order) + 1) /\ last \in 0..Len(order) /\ first <= last + 1
    BY <2>1, ReplaceBounds
  <2>3. IsSplice(new, MessageIds, order, first, last, ins)
    BY <2>1, <2>2, SpliceProperties DEF ReplaceResult
  <2>4. from # NoId =>
          LET p == IndexOf(order, from) IN
            /\ p \in 1..Len(order) /\ order[p] = from
            /\ Preceding(from) = {order[i] : i \in 1..(p - 1)}
            /\ Following(from) = {order[i] : i \in (p + 1)..Len(order)}
    BY <2>1, IndexOfBound, SidesByPlace DEF BoundsFound
  <2>5. to # NoId =>
          LET p == IndexOf(order, to) IN
            /\ p \in 1..Len(order) /\ order[p] = to
            /\ Preceding(to) = {order[i] : i \in 1..(p - 1)}
            /\ Following(to) = {order[i] : i \in (p + 1)..Len(order)}
    BY <2>1, IndexOfBound, SidesByPlace DEF BoundsFound
  <2>6. /\ KeptBefore(from, to) = {order[i] : i \in 1..(first - 1)}
        /\ KeptAfter(from, to) = {order[i] : i \in (last + 1)..Len(order)}
    <3>1. CASE from # NoId /\ to # NoId
      BY <2>4, <2>5, <3>1 DEF KeptBefore, KeptAfter, ReplaceFirst, ReplaceLast
    <3>2. CASE from # NoId /\ to = NoId
      <4> DEFINE p == IndexOf(order, from)
      <4>1. p \in 1..Len(order) /\ order[p] = from /\ first = p + 1 /\ last = p
        BY <2>4, <3>2 DEF ReplaceFirst, ReplaceLast
      <4>2. /\ KeptBefore(from, to) = {order[i] : i \in 1..(p - 1)} \cup {order[p]}
            /\ KeptAfter(from, to) = {order[i] : i \in (p + 1)..Len(order)}
        BY <2>4, <3>2 DEF KeptBefore, KeptAfter
      <4> HIDE DEF p, first, last
      <4>3. 1..p = 1..(p - 1) \cup {p} /\ first - 1 = p
        BY <4>1
      <4>4. {order[i] : i \in 1..p} = {order[i] : i \in 1..(p - 1)} \cup {order[p]}
        BY <4>3
      <4> QED
        BY <4>1, <4>2, <4>3, <4>4
    <3>3. CASE from = NoId
      <4> DEFINE p == IndexOf(order, to)
      <4>1. p \in 1..Len(order) /\ order[p] = to /\ first = p /\ last = p - 1
        BY <2>5, <3>3 DEF ReplaceFirst, ReplaceLast
      <4>2. /\ KeptBefore(from, to) = {order[i] : i \in 1..(p - 1)}
            /\ KeptAfter(from, to) = {order[i] : i \in (p + 1)..Len(order)} \cup {order[p]}
        BY <2>5, <3>3 DEF KeptBefore, KeptAfter
      <4> HIDE DEF p, first, last
      <4>3. p..Len(order) = (p + 1)..Len(order) \cup {p} /\ last + 1 = p
        BY <2>1, <4>1
      <4>4. {order[i] : i \in p..Len(order)} =
              {order[i] : i \in (p + 1)..Len(order)} \cup {order[p]}
        BY <4>3
      <4> QED
        BY <4>1, <4>2, <4>3, <4>4
    <3> QED
      BY <3>1, <3>2, <3>3
  <2> HIDE DEF first, last, new
  <2>7. InTurn(new, KeptBefore(from, to), ins, KeptAfter(from, to))
    BY <2>1, <2>2, <2>3, <2>6, SpliceInTurn
  <2> QED
    BY <2>7 DEF new
<1> QED
  BY <1>1, OrdersStayOrders, PTL

\* Every accepted deletion keeps what the reference says and reports the rest.
THEOREM DeleteIsRight == Spec => []DeleteMatchesReference
<1>1. OrderInvariant => DeleteMatchesReference
  <2> SUFFICES ASSUME OrderInvariant,
                      NEW from \in MessageIds \cup {NoId}, NEW to \in MessageIds \cup {NoId},
                      DeleteAccepted(order, from, to)
               PROVE  LET before == IF from = NoId THEN {} ELSE Preceding(from)
                          after  == IF to = NoId THEN {} ELSE Following(to)
                      IN  /\ InTurn(DeleteResult(order, from, to), before, <<>>, after)
                          /\ Range(DeletedIds(order, from, to)) =
                               Range(order) \ (before \cup after)
    BY DEF DeleteMatchesReference, Bounds
  <2> DEFINE first  == DeleteFirst(order, from)
             last   == DeleteLast(order, to)
             before == IF from = NoId THEN {} ELSE Preceding(from)
             after  == IF to = NoId THEN {} ELSE Following(to)
             new    == DeleteResult(order, from, to)
             none   == <<>>
             cut    == DeletedIds(order, from, to)
  <2>1. /\ order \in Seq(MessageIds) /\ none \in Seq(MessageIds) /\ Unique(order)
        /\ BoundsFound(order, from, to) /\ DeleteSpecValid(order, from, to)
    BY EmptySeq DEF OrderInvariant, DeleteAccepted
  <2>2. /\ first \in 1..(Len(order) + 1) /\ last \in 0..Len(order) /\ first <= last
        /\ first \in 1..Len(order) /\ last \in 1..Len(order) /\ Len(order) \in Nat
    BY <2>1, DeleteBounds, LenProperties
  <2>3. IsSplice(new, MessageIds, order, first, last, none)
    BY <2>1, DeleteSplices
  <2>4. before = {order[i] : i \in 1..(first - 1)}
    <3>1. CASE from = NoId
      BY <3>1 DEF DeleteFirst
    <3>2. CASE from # NoId
      <4>1. first \in 1..Len(order) /\ order[first] = from
        BY <2>1, <3>2, IndexOfBound DEF BoundsFound, DeleteFirst
      <4> QED
        BY <3>2, <4>1, SidesByPlace
    <3> QED
      BY <3>1, <3>2
  <2>5. after = {order[i] : i \in (last + 1)..Len(order)}
    <3>1. CASE to = NoId
      BY <2>2, <3>1 DEF DeleteLast
    <3>2. CASE to # NoId
      <4>1. last \in 1..Len(order) /\ order[last] = to
        BY <2>1, <3>2, IndexOfBound DEF BoundsFound, DeleteLast
      <4> QED
        BY <3>2, <4>1, SidesByPlace
    <3> QED
      BY <3>1, <3>2
  <2>6. cut = SubSeq(order, first, last)
    BY DEF DeletedIds
  <2> HIDE DEF first, last, before, after, new, none, cut
  <2>7. InTurn(new, before, none, after)
    <3>1. first <= last + 1
      BY <2>2
    <3> QED
      BY <2>1, <2>2, <2>3, <2>4, <2>5, <3>1, SpliceInTurn
  <2>8. /\ cut \in Seq(MessageIds) /\ Len(cut) = last - first + 1
        /\ \A i \in 1..(last - first + 1) : cut[i] = order[first + i - 1]
    <3>1. first \in Int /\ last \in Int /\ 1 <= first /\ last <= Len(order)
      BY <2>2
    <3> QED
      BY <2>1, <2>2, <2>6, <3>1, PieceOfOrder
  <2>9. /\ \A m : m \in Range(cut) <=> \E i \in 1..Len(cut) : cut[i] = m
        /\ \A m : m \in Range(order) <=> \E i \in 1..Len(order) : order[i] = m
        /\ \A i, j \in 1..Len(order) : order[i] = order[j] => i = j
    BY <2>1, <2>8, LenProperties, OnePlace DEF Range
  <2>10. ASSUME NEW m
         PROVE  m \in Range(cut) <=> \E i \in first..last : order[i] = m
    <3>1. ASSUME NEW i \in first..last
          PROVE  i - first + 1 \in 1..Len(cut) /\ cut[i - first + 1] = order[i]
      <4>1. i - first + 1 \in 1..(last - first + 1) /\ first + (i - first + 1) - 1 = i
        BY <2>2
      <4> QED
        BY <2>8, <4>1
    <3>2. ASSUME NEW i \in 1..Len(cut)
          PROVE  first + i - 1 \in first..last /\ cut[i] = order[first + i - 1]
      BY <2>2, <2>8
    <3> QED
      BY <2>9, <3>1, <3>2
  <2>11. Range(cut) = Range(order) \ (before \cup after)
    <3>1. ASSUME NEW i \in first..last
          PROVE  order[i] \in Range(order) /\ order[i] \notin before /\ order[i] \notin after
      <4>1. i \in 1..Len(order)
        BY <2>2
      <4>2. \A j \in 1..(first - 1) : j \in 1..Len(order) /\ j # i
        BY <2>2
      <4>3. \A j \in (last + 1)..Len(order) : j \in 1..Len(order) /\ j # i
        BY <2>2
      <4> QED
        BY <2>4, <2>5, <2>9, <4>1, <4>2, <4>3
    <3>2. ASSUME NEW i \in 1..Len(order), order[i] \notin before, order[i] \notin after
          PROVE  i \in first..last
      BY <2>2, <2>4, <2>5, <3>2
    <3> QED
      BY <2>9, <2>10, <3>1, <3>2
  <2> QED
    BY <2>7, <2>11 DEF before, after, new, none, cut
<1> QED
  BY <1>1, OrdersStayOrders, PTL

-----------------------------------------------------------------------------
(***************************************************************************)
(* Slices.  What append does to the elements of a slice, and which arrays  *)
(* it leaves alone.                                                        *)
(***************************************************************************)
Elems == MessageIds \cup {NoId}
Heaps == Seq(Seq(Elems))

\* A slice that lies in an array of the heap.
SliceOf(heap, s) ==
  /\ s \in [array : 1..Len(heap), off : Nat, len : Nat, cap : Nat]
  /\ s.len <= s.cap
  /\ s.off + s.cap <= Len(heap[s.array])

\* The array `a' is what it was.
SameArray(heap, later, a) == a \in 1..Len(later) /\ later[a] = heap[a]

\* The elements of a slice are a piece of its array.
LEMMA ElementsOfSlice ==
  ASSUME NEW heap \in Heaps, NEW s, SliceOf(heap, s)
  PROVE  /\ Elements(heap, s) \in Seq(Elems)
         /\ Len(Elements(heap, s)) = s.len
         /\ \A i \in 1..s.len : Elements(heap, s)[i] = heap[s.array][s.off + i]
<1> DEFINE a == heap[s.array]
           m == s.off + 1
           n == s.off + s.len
<1>1. /\ s.array \in 1..Len(heap) /\ s.off \in Nat /\ s.len \in Nat /\ s.cap \in Nat
      /\ s.len <= s.cap /\ s.off + s.cap <= Len(a)
  BY DEF SliceOf
<1>2. a \in Seq(Elems) /\ Len(a) \in Nat
  BY <1>1, ElementOfSeq, LenProperties DEF Heaps
<1>3. Elements(heap, s) = SubSeq(a, m, n)
  BY DEF Elements
<1> HIDE DEF a
<1>4. m \in Int /\ n \in Int /\ 1 <= m /\ n <= Len(a) /\ n - m + 1 = s.len
  BY <1>1, <1>2
<1>5. /\ SubSeq(a, m, n) \in Seq(Elems)
      /\ Len(SubSeq(a, m, n)) = IF m <= n THEN n - m + 1 ELSE 0
      /\ \A i \in 1..(n - m + 1) : SubSeq(a, m, n)[i] = a[m + i - 1]
  BY <1>2, <1>4, PieceOfOrder
<1>6. \A i \in 1..s.len : m + i - 1 = s.off + i
  BY <1>1
<1>7. m <= n <=> s.len # 0
  BY <1>1
<1> QED
  BY <1>1, <1>3, <1>4, <1>5, <1>6, <1>7 DEF a

\* s[low:high] of a slice, where low = 0 or high = len(s).
LEMMA ElementsOfWindow ==
  ASSUME NEW heap \in Heaps, NEW s, SliceOf(heap, s),
         NEW low \in 0..s.len, NEW high \in low..s.len
  PROVE  /\ SliceOf(heap, Window(s, low, high))
         /\ Elements(heap, Window(s, low, high)) = SubSeq(Elements(heap, s), low + 1, high)
         /\ Window(s, low, high).array = s.array
         /\ Window(s, low, high).len = high - low
         /\ Window(s, low, high).cap = s.cap - low
<1> DEFINE w == Window(s, low, high)
           e == Elements(heap, s)
<1>1. /\ s.array \in 1..Len(heap) /\ s.off \in Nat /\ s.len \in Nat /\ s.cap \in Nat
      /\ s.len <= s.cap /\ s.off + s.cap <= Len(heap[s.array])
  BY DEF SliceOf
<1>2. /\ w.array = s.array /\ w.off = s.off + low /\ w.len = high - low /\ w.cap = s.cap - low
  BY DEF Window, SliceOf
<1>3. SliceOf(heap, w)
  <2>1. s.off + low \in Nat /\ high - low \in Nat /\ s.cap - low \in Nat
    BY <1>1
  <2>2. w \in [array : 1..Len(heap), off : Nat, len : Nat, cap : Nat]
    BY <1>1, <2>1 DEF Window, SliceOf
  <2> HIDE DEF w
  <2>3. heap[s.array] \in Seq(Elems)
    BY <1>1, ElementOfSeq DEF Heaps
  <2>4. Len(heap[s.array]) \in Nat
    BY <2>3, LenProperties
  <2>5. w.len <= w.cap /\ w.off + w.cap <= Len(heap[w.array])
    BY <1>1, <1>2, <2>4
  <2> QED
    BY <2>2, <2>5 DEF SliceOf
<1> HIDE DEF w
<1>4. /\ Elements(heap, w) \in Seq(Elems)
      /\ Len(Elements(heap, w)) = w.len
      /\ \A i \in 1..w.len : Elements(heap, w)[i] = heap[w.array][w.off + i]
  BY <1>3, ElementsOfSlice
<1>5. e \in Seq(Elems) /\ Len(e) = s.len /\ \A i \in 1..s.len : e[i] = heap[s.array][s.off + i]
  BY ElementsOfSlice
<1> HIDE DEF e
<1>6. /\ SubSeq(e, low + 1, high) \in Seq(Elems)
      /\ Len(SubSeq(e, low + 1, high)) = IF low + 1 <= high THEN high - (low + 1) + 1 ELSE 0
      /\ \A i \in 1..(high - (low + 1) + 1) : SubSeq(e, low + 1, high)[i] = e[low + 1 + i - 1]
  <2>1. low + 1 \in Int /\ high \in Int /\ 1 <= low + 1 /\ high <= Len(e)
    BY <1>1, <1>5
  <2> QED
    BY <1>5, <2>1, PieceOfOrder
<1>7. ASSUME NEW i \in 1..w.len
      PROVE  Elements(heap, w)[i] = SubSeq(e, low + 1, high)[i]
  <2>1. /\ i \in 1..(high - (low + 1) + 1) /\ low + 1 + i - 1 = low + i
        /\ low + i \in 1..s.len /\ w.off + i = s.off + (low + i)
    BY <1>1, <1>2
  <2> QED
    BY <1>2, <1>4, <1>5, <1>6, <2>1
<1>8. Len(SubSeq(e, low + 1, high)) = w.len
  BY <1>1, <1>2, <1>6
<1>9. Elements(heap, w) = SubSeq(e, low + 1, high)
  BY <1>4, <1>6, <1>7, <1>8, SeqEqual
<1> QED
  BY <1>2, <1>3, <1>9 DEF w, e

\* A slice shows the same as long as its array is the same.
LEMMA SameElements ==
  ASSUME NEW heap, NEW later, NEW s, SliceOf(heap, s), SameArray(heap, later, s.array)
  PROVE  SliceOf(later, s) /\ Elements(later, s) = Elements(heap, s)
<1>1. s \in [array : 1..Len(later), off : Nat, len : Nat, cap : Nat]
  BY DEF SliceOf, SameArray
<1> QED
  BY <1>1 DEF SliceOf, SameArray, Elements
\* append: the elements of both, in the array of the first or in a new one.
Appended(heap, s, ids, after) ==
  /\ after.heap \in Heaps
  /\ SliceOf(after.heap, after.slice)
  /\ Elements(after.heap, after.slice) = Elements(heap, s) \o ids
  /\ after.slice.array \in {s.array, Len(heap) + 1}
  /\ after.slice.len = s.len + Len(ids)
  /\ \A a \in 1..Len(heap) : a # s.array => SameArray(heap, after.heap, a)

\* append within the capacity writes past the elements of the slice only.
LEMMA AppendInPlaceProperties ==
  ASSUME NEW heap \in Heaps, NEW s, SliceOf(heap, s), NEW ids \in Seq(Elems),
         s.len + Len(ids) <= s.cap
  PROVE  /\ Appended(heap, s, ids, AppendInPlace(heap, s, ids))
         /\ ids = <<>> => AppendInPlace(heap, s, ids).heap = heap
<1> DEFINE end   == s.off + s.len
           old   == heap[s.array]
           new   == [i \in DOMAIN old |-> IF i \in (end + 1)..(end + Len(ids))
                                          THEN ids[i - end] ELSE old[i]]
           later == [heap EXCEPT ![s.array] = new]
           t     == [s EXCEPT !.len = s.len + Len(ids)]
<1>1. AppendInPlace(heap, s, ids) = [heap |-> later, slice |-> t]
  BY DEF AppendInPlace
<1>2. /\ s.array \in 1..Len(heap) /\ s.off \in Nat /\ s.len \in Nat /\ s.cap \in Nat
      /\ s.len <= s.cap /\ s.off + s.cap <= Len(old)
  BY DEF SliceOf
<1>3. /\ old \in Seq(Elems) /\ Len(old) \in Nat /\ DOMAIN old = 1..Len(old)
      /\ Len(ids) \in Nat /\ Len(heap) \in Nat
      /\ \A i \in 1..Len(old) : old[i] \in Elems
      /\ \A i \in 1..Len(ids) : ids[i] \in Elems
  BY <1>2, ElementOfSeq, LenProperties DEF Heaps
<1> HIDE DEF old
<1>4. end \in Nat /\ end = s.off + s.len /\ end + Len(ids) <= Len(old)
  BY <1>2, <1>3
<1> HIDE DEF end
<1>5. new \in Seq(Elems) /\ Len(new) = Len(old)
  <2>1. ASSUME NEW i \in 1..Len(old)
        PROVE  (IF i \in (end + 1)..(end + Len(ids)) THEN ids[i - end] ELSE old[i]) \in Elems
    <3>1. CASE i \in (end + 1)..(end + Len(ids))
      <4>1. i - end \in 1..Len(ids)
        BY <1>3, <1>4, <3>1
      <4> QED
        BY <1>3, <3>1, <4>1
    <3>2. CASE i \notin (end + 1)..(end + Len(ids))
      BY <1>3, <3>2
    <3> QED
      BY <3>1, <3>2
  <2>2. new \in [1..Len(old) -> Elems]
    BY <1>3, <2>1
  <2> HIDE DEF new
  <2> QED
    BY <1>3, <2>2
<1>6. /\ \A i \in 1..end : new[i] = old[i]
      /\ \A i \in 1..Len(ids) : new[end + i] = ids[i]
  <2>1. ASSUME NEW i \in 1..end PROVE new[i] = old[i]
    <3>1. i \in 1..Len(old) /\ i \notin (end + 1)..(end + Len(ids))
      BY <1>3, <1>4
    <3> QED
      BY <1>3, <3>1
  <2>2. ASSUME NEW i \in 1..Len(ids) PROVE new[end + i] = ids[i]
    <3> DEFINE k == end + i
    <3>1. k \in 1..Len(old) /\ k \in (end + 1)..(end + Len(ids)) /\ k - end = i
      BY <1>3, <1>4
    <3> HIDE DEF k
    <3>2. new[k] = ids[k - end]
      BY <1>3, <3>1
    <3> QED
      BY <3>1, <3>2 DEF k
  <2> QED
    BY <2>1, <2>2
<1> HIDE DEF new
<1>7. /\ later \in Heaps /\ Len(later) = Len(heap) /\ later[s.array] = new
      /\ \A a \in 1..Len(heap) : a # s.array => later[a] = heap[a]
  BY <1>2, <1>5, ExceptSeq DEF Heaps
<1> HIDE DEF later
<1>8. /\ t.array = s.array /\ t.off = s.off /\ t.len = s.len + Len(ids) /\ t.cap = s.cap
  BY DEF SliceOf
<1>9. SliceOf(later, t)
  <2>1. s.len + Len(ids) \in Nat
    BY <1>2, <1>3
  <2>2. t \in [array : 1..Len(later), off : Nat, len : Nat, cap : Nat]
    BY <1>7, <2>1 DEF SliceOf
  <2>3. t.len <= t.cap /\ t.off + t.cap <= Len(later[t.array])
    BY <1>2, <1>5, <1>7, <1>8
  <2> QED
    BY <2>2, <2>3 DEF SliceOf
<1> HIDE DEF t
<1>10. Elements(later, t) = Elements(heap, s) \o ids
  <2> DEFINE e == Elements(heap, s)
             f == Elements(later, t)
             off == s.off
             len == s.len
             n == Len(ids)
  <2>1. e \in Seq(Elems) /\ Len(e) = len /\ \A i \in 1..len : e[i] = old[off + i]
    BY ElementsOfSlice DEF old
  <2>2. f \in Seq(Elems) /\ Len(f) = len + n /\ \A i \in 1..(len + n) : f[i] = new[off + i]
    <3>1. f \in Seq(Elems) /\ Len(f) = t.len /\ \A i \in 1..t.len : f[i] = new[t.off + i]
      BY <1>7, <1>8, <1>9, ElementsOfSlice
    <3> QED
      BY <1>8, <3>1
  <2>3. off \in Nat /\ len \in Nat /\ n \in Nat /\ end = off + len
    BY <1>2, <1>3, <1>4
  <2>4. \A i \in 1..n : new[end + i] = ids[i]
    BY <1>6
  <2> HIDE DEF e, f, off, len, n
  <2>5. /\ e \o ids \in Seq(Elems) /\ Len(e \o ids) = len + n
        /\ \A i \in 1..(len + n) : (e \o ids)[i] = IF i <= len THEN e[i] ELSE ids[i - len]
    BY <2>1, ConcatProperties DEF n
  <2>6. ASSUME NEW i \in 1..(len + n) PROVE f[i] = (e \o ids)[i]
    <3>1. CASE i <= len
      <4>1. off + i \in 1..end /\ i \in 1..len
        BY <2>3, <3>1
      <4> QED
        BY <1>6, <2>1, <2>2, <2>5, <3>1, <4>1
    <3>2. CASE ~(i <= len)
      <4>1. i - len \in 1..n /\ end + (i - len) = off + i
        BY <2>3, <3>2
      <4>2. new[end + (i - len)] = ids[i - len]
        BY <2>4, <4>1
      <4> QED
        BY <2>2, <2>5, <3>2, <4>1, <4>2
    <3> QED
      BY <3>1, <3>2
  <2>7. f = e \o ids
    BY <2>2, <2>5, <2>6, SeqEqual
  <2> QED
    BY <2>7 DEF e, f
<1>11. ids = <<>> => later = heap
  <2> SUFFICES ASSUME ids = <<>> PROVE later = heap
    OBVIOUS
  <2>1. Len(ids) = 0
    OBVIOUS
  <2>2. ASSUME NEW i \in 1..Len(old) PROVE new[i] = old[i]
    <3>1. i \notin (end + 1)..(end + Len(ids))
      BY <1>4, <2>1
    <3> QED
      BY <1>3, <3>1 DEF new
  <2>3. new = old
    BY <1>3, <1>5, <2>2, SeqEqual
  <2>4. \A a \in 1..Len(heap) : later[a] = heap[a]
    BY <1>7, <2>3 DEF old
  <2>5. heap \in Seq(Seq(Elems)) /\ later \in Seq(Seq(Elems))
    BY <1>7 DEF Heaps
  <2> QED
    BY <1>7, <2>4, <2>5, SeqEqual
<1>12. \A a \in 1..Len(heap) : a # s.array => SameArray(heap, later, a)
  BY <1>7 DEF SameArray
<1>13. Appended(heap, s, ids, [heap |-> later, slice |-> t])
  BY <1>7, <1>8, <1>9, <1>10, <1>12 DEF Appended
<1> QED
  BY <1>1, <1>11, <1>13

\* append beyond the capacity leaves every array alone.
LEMMA AppendToCopyProperties ==
  ASSUME NEW heap \in Heaps, NEW s, SliceOf(heap, s), NEW ids \in Seq(Elems),
         NEW spare \in Nat
  PROVE  LET after == AppendToCopy(heap, s, ids, spare) IN
         /\ Appended(heap, s, ids, after)
         /\ \A a \in 1..Len(heap) : SameArray(heap, after.heap, a)
         /\ after.slice.array = Len(heap) + 1
<1> DEFINE copy  == Elements(heap, s) \o ids
           room  == [i \in 1..spare |-> NoId]
           array == copy \o room
           later == Append(heap, array)
           t     == [array |-> Len(heap) + 1, off |-> 0,
                     len |-> Len(copy), cap |-> Len(copy) + spare]
<1>1. AppendToCopy(heap, s, ids, spare) = [heap |-> later, slice |-> t]
  BY DEF AppendToCopy
<1>2. /\ Elements(heap, s) \in Seq(Elems) /\ Len(Elements(heap, s)) = s.len
      /\ s.len \in Nat /\ s.array \in 1..Len(heap) /\ Len(heap) \in Nat /\ Len(ids) \in Nat
  BY ElementsOfSlice, LenProperties DEF SliceOf, Heaps
<1>3. copy \in Seq(Elems) /\ Len(copy) = s.len + Len(ids) /\ Len(copy) \in Nat
  <2> DEFINE e == Elements(heap, s)
  <2>1. e \in Seq(Elems) /\ Len(e) = s.len
    BY <1>2
  <2> HIDE DEF e
  <2>2. e \o ids \in Seq(Elems) /\ Len(e \o ids) = s.len + Len(ids)
    BY <2>1, ConcatProperties
  <2>3. s.len + Len(ids) \in Nat
    BY <1>2
  <2> QED
    BY <2>2, <2>3 DEF e
<1>4. room \in Seq(Elems) /\ Len(room) = spare
  <2>1. room \in [1..spare -> Elems]
    BY DEF Elems
  <2> HIDE DEF room
  <2> QED
    BY <2>1
<1> HIDE DEF copy, room
<1>5. /\ array \in Seq(Elems) /\ Len(array) = Len(copy) + spare
      /\ \A i \in 1..Len(copy) : array[i] = copy[i]
  <2>1. /\ array \in Seq(Elems) /\ Len(array) = Len(copy) + Len(room)
        /\ \A i \in 1..(Len(copy) + Len(room)) :
             array[i] = IF i <= Len(copy) THEN copy[i] ELSE room[i - Len(copy)]
    BY <1>3, <1>4, ConcatProperties
  <2> HIDE DEF array
  <2> QED
    BY <1>3, <1>4, <2>1
<1> HIDE DEF array
<1>6. /\ later \in Heaps /\ Len(later) = Len(heap) + 1 /\ later[Len(heap) + 1] = array
      /\ \A a \in 1..Len(heap) : later[a] = heap[a]
  BY <1>5, AppendProperties DEF Heaps
<1> HIDE DEF later
<1>7. \A a \in 1..Len(heap) : SameArray(heap, later, a)
  BY <1>2, <1>6 DEF SameArray
<1>8. /\ t.array = Len(heap) + 1 /\ t.off = 0 /\ t.len = Len(copy) /\ t.cap = Len(copy) + spare
  OBVIOUS
<1>9. SliceOf(later, t)
  <2>1. /\ Len(heap) + 1 \in 1..Len(later) /\ 0 \in Nat /\ Len(copy) \in Nat
        /\ Len(copy) + spare \in Nat
    BY <1>2, <1>3, <1>6
  <2>2. t \in [array : 1..Len(later), off : Nat, len : Nat, cap : Nat]
    BY <2>1
  <2> HIDE DEF t
  <2>3. t.len <= t.cap /\ t.off + t.cap <= Len(later[t.array])
    BY <1>3, <1>5, <1>6, <1>8
  <2> QED
    BY <2>2, <2>3 DEF SliceOf
<1> HIDE DEF t
<1>10. Elements(later, t) = copy
  <2>1. /\ Elements(later, t) \in Seq(Elems) /\ Len(Elements(later, t)) = Len(copy)
        /\ \A i \in 1..Len(copy) : Elements(later, t)[i] = array[0 + i]
    BY <1>6, <1>8, <1>9, ElementsOfSlice
  <2>2. \A i \in 1..Len(copy) : Elements(later, t)[i] = copy[i]
    BY <1>5, <2>1
  <2> QED
    BY <1>3, <2>1, <2>2, SeqEqual
<1>11. Appended(heap, s, ids, [heap |-> later, slice |-> t])
  BY <1>3, <1>6, <1>7, <1>8, <1>9, <1>10 DEF Appended, copy
<1> QED
  BY <1>1, <1>7, <1>8, <1>11

LEMMA AppendToProperties ==
  ASSUME NEW heap \in Heaps, NEW s, SliceOf(heap, s), NEW ids \in Seq(Elems),
         NEW spare \in Nat
  PROVE  Appended(heap, s, ids, AppendTo(heap, s, ids, spare))
BY AppendInPlaceProperties, AppendToCopyProperties DEF AppendTo

\* append to a slice without room never touches an array that is there.
LEMMA AppendToFull ==
  ASSUME NEW heap \in Heaps, NEW s, SliceOf(heap, s), s.cap = 0,
         NEW ids \in Seq(Elems), NEW spare \in Nat
  PROVE  LET after == AppendTo(heap, s, ids, spare) IN
         /\ \A a \in 1..Len(heap) : SameArray(heap, after.heap, a)
         /\ after.slice.array = Len(heap) + 1 \/ after.slice = s
<1>1. s.len = 0 /\ Len(ids) \in Nat /\ Len(heap) \in Nat
  BY LenProperties DEF SliceOf, Heaps
<1>2. CASE Len(ids) = 0
  <2>1. ids = <<>>
    BY <1>2, EmptySeq
  <2>2. AppendTo(heap, s, ids, spare) = AppendInPlace(heap, s, ids)
    BY <1>1, <1>2 DEF AppendTo
  <2>3. AppendInPlace(heap, s, ids).heap = heap
    <3>1. s.len + Len(ids) <= s.cap
      BY <1>1, <1>2
    <3> QED
      BY <2>1, <3>1, AppendInPlaceProperties
  <2>4. AppendInPlace(heap, s, ids).slice = s
    <3>1. AppendInPlace(heap, s, ids).slice = [s EXCEPT !.len = s.len + Len(ids)]
      BY DEF AppendInPlace
    <3>2. s \in [array : 1..Len(heap), off : Nat, len : Nat, cap : Nat] /\ s.len + Len(ids) = s.len
      BY <1>1, <1>2 DEF SliceOf
    <3> QED
      BY <3>1, <3>2
  <2> QED
    BY <1>1, <2>2, <2>3, <2>4 DEF SameArray
<1>3. CASE Len(ids) # 0
  <2>1. AppendTo(heap, s, ids, spare) = AppendToCopy(heap, s, ids, spare)
    BY <1>1, <1>3 DEF AppendTo
  <2> QED
    BY <2>1, AppendToCopyProperties
<1> QED
  BY <1>2, <1>3

\* The nil slice has no elements and no room.
LEMMA NilSliceProperties ==
  ASSUME NEW heap \in Heaps, 1 \in 1..Len(heap)
  PROVE  SliceOf(heap, NilSlice) /\ Elements(heap, NilSlice) = <<>> /\ NilSlice.cap = 0
         /\ NilSlice.array = 1
<1>1. heap[1] \in Seq(Elems)
  BY ElementOfSeq DEF Heaps
<1>2. Len(heap[1]) \in Nat
  BY <1>1, LenProperties
<1>3. SliceOf(heap, NilSlice)
  BY <1>2 DEF SliceOf, NilSlice
<1>4. Len(Elements(heap, NilSlice)) = 0 /\ Elements(heap, NilSlice) \in Seq(Elems)
  BY <1>3, ElementsOfSlice DEF NilSlice
<1>5. Elements(heap, NilSlice) = <<>>
  BY <1>4, EmptySeq
<1> QED
  BY <1>3, <1>5 DEF NilSlice

\* append to the nil slice: a slice of its own, and nothing else is touched.
LEMMA AppendToNil ==
  ASSUME NEW heap \in Heaps, 1 \in 1..Len(heap), NEW ids \in Seq(Elems), NEW spare \in Nat
  PROVE  LET after == AppendTo(heap, NilSlice, ids, spare) IN
         /\ after.heap \in Heaps
         /\ SliceOf(after.heap, after.slice)
         /\ Elements(after.heap, after.slice) = ids
         /\ \A a \in 1..Len(heap) : SameArray(heap, after.heap, a)
         /\ \/ after.slice.array = Len(heap) + 1
            \/ after.slice.array = 1 /\ after.slice.cap = 0
<1> DEFINE after == AppendTo(heap, NilSlice, ids, spare)
<1>1. SliceOf(heap, NilSlice) /\ Elements(heap, NilSlice) = <<>> /\ NilSlice.cap = 0
      /\ NilSlice.array = 1
  BY NilSliceProperties
<1>2. Appended(heap, NilSlice, ids, after)
  BY <1>1, AppendToProperties
<1>3. /\ \A a \in 1..Len(heap) : SameArray(heap, after.heap, a)
      /\ after.slice.array = Len(heap) + 1 \/ after.slice = NilSlice
  BY <1>1, AppendToFull
<1>4. <<>> \o ids = ids
  BY ConcatEmptySeq
<1> QED
  BY <1>1, <1>2, <1>3, <1>4 DEF Appended

\* append to a slice made since then: the first N arrays are not touched.
LEMMA AppendBeside ==
  ASSUME NEW heap \in Heaps, NEW s, SliceOf(heap, s), NEW ids \in Seq(Elems),
         NEW spare \in Nat, NEW N \in Nat, N <= Len(heap),
         s.array = N + 1 \/ s.cap = 0
  PROVE  \A a \in 1..N : SameArray(heap, AppendTo(heap, s, ids, spare).heap, a)
<1>1. Len(heap) \in Nat
  BY LenProperties DEF Heaps
<1>2. \A a \in 1..N : a \in 1..Len(heap) /\ a # N + 1
  BY <1>1
<1>3. CASE s.cap = 0
  BY <1>2, <1>3, AppendToFull
<1>4. CASE s.array = N + 1
  <2>1. Appended(heap, s, ids, AppendTo(heap, s, ids, spare))
    BY AppendToProperties
  <2> QED
    BY <1>2, <1>4, <2>1 DEF Appended
<1> QED
  BY <1>3, <1>4

\* The insertion: ids and rest are collected in a slice of their own before they
\* are written over the rest, so no array but that of the slice is touched.
LEMMA InsertAtProperties ==
  ASSUME NEW heap \in Heaps, 1 \in 1..Len(heap), NEW s, SliceOf(heap, s), s.array # 1,
         NEW pos \in 0..s.len, NEW ins \in Seq(Elems), NEW spare \in Nat
  PROVE  LET after == InsertAt(heap, s, pos, ins, spare)
             e     == Elements(heap, s)
         IN  /\ after.heap \in Heaps
             /\ SliceOf(after.heap, after.slice)
             /\ Elements(after.heap, after.slice) =
                  SubSeq(e, 1, pos) \o (ins \o SubSeq(e, pos + 1, s.len))
             /\ \A a \in 1..Len(heap) : a # s.array => SameArray(heap, after.heap, a)
<1> DEFINE e     == Elements(heap, s)
           N     == Len(heap)
           own   == AppendTo(heap, NilSlice, ins, spare)
           rest  == Elements(own.heap, Window(s, pos, s.len))
           tail  == AppendTo(own.heap, own.slice, rest, spare)
           all   == Elements(tail.heap, tail.slice)
           after == AppendTo(tail.heap, Window(s, 0, pos), all, spare)
<1>1. InsertAt(heap, s, pos, ins, spare) = after
  BY DEF InsertAt
<1>2. N \in Nat /\ s.array \in 1..N /\ s.len \in Nat
  BY LenProperties DEF Heaps, SliceOf
<1>3. /\ own.heap \in Heaps /\ SliceOf(own.heap, own.slice)
      /\ Elements(own.heap, own.slice) = ins
      /\ \A a \in 1..N : SameArray(heap, own.heap, a)
      /\ \/ own.slice.array = N + 1
         \/ own.slice.array = 1 /\ own.slice.cap = 0
  BY AppendToNil
<1> HIDE DEF own, after
<1>4. SliceOf(own.heap, s) /\ Elements(own.heap, s) = e
  BY <1>2, <1>3, SameElements
<1>5. rest = SubSeq(e, pos + 1, s.len) /\ rest \in Seq(Elems)
  <2> DEFINE w == Window(s, pos, s.len)
  <2>1. pos \in 0..s.len /\ s.len \in pos..s.len
    BY <1>2
  <2>2. SliceOf(own.heap, w) /\ Elements(own.heap, w) = SubSeq(Elements(own.heap, s), pos + 1, s.len)
    BY <1>3, <1>4, <2>1, ElementsOfWindow
  <2>3. Elements(own.heap, w) \in Seq(Elems)
    BY <1>3, <2>2, ElementsOfSlice
  <2> QED
    BY <1>4, <2>2, <2>3
<1> HIDE DEF rest
<1>6. /\ tail.heap \in Heaps /\ SliceOf(tail.heap, tail.slice)
      /\ all = ins \o rest
  <2>1. Appended(own.heap, own.slice, rest, tail)
    BY <1>3, <1>5, AppendToProperties
  <2> QED
    BY <1>3, <2>1 DEF Appended
<1>7. \A a \in 1..N : SameArray(heap, tail.heap, a)
  <2>1. \A a \in 1..N : a \in 1..Len(own.heap) /\ own.heap[a] = heap[a]
    BY <1>3 DEF SameArray
  <2>2. N <= Len(own.heap)
    BY <1>2, <2>1
  <2>3. own.slice.array = N + 1 \/ own.slice.cap = 0
    BY <1>3
  <2> HIDE DEF N
  <2>4. \A a \in 1..N : SameArray(own.heap, tail.heap, a)
    BY <1>2, <1>3, <1>5, <2>2, <2>3, AppendBeside
  <2> QED
    BY <2>1, <2>4 DEF SameArray
<1>8. all \in Seq(Elems)
  BY <1>6, ElementsOfSlice
<1> HIDE DEF all, tail
<1>9. SliceOf(tail.heap, s) /\ Elements(tail.heap, s) = e
  BY <1>2, <1>7, SameElements
<1>10. /\ SliceOf(tail.heap, Window(s, 0, pos))
       /\ Elements(tail.heap, Window(s, 0, pos)) = SubSeq(e, 1, pos)
       /\ Window(s, 0, pos).array = s.array
  <2> DEFINE zero == 0
  <2>1. zero \in 0..s.len /\ pos \in zero..s.len /\ zero + 1 = 1
    BY <1>2
  <2> HIDE DEF zero, e
  <2>2. /\ SliceOf(tail.heap, Window(s, zero, pos))
        /\ Elements(tail.heap, Window(s, zero, pos)) = SubSeq(Elements(tail.heap, s), zero + 1, pos)
        /\ Window(s, zero, pos).array = s.array
    BY <1>6, <1>9, <2>1, ElementsOfWindow
  <2>3. Elements(tail.heap, Window(s, zero, pos)) = SubSeq(e, 1, pos)
    BY <1>9, <2>1, <2>2
  <2> QED
    BY <2>2, <2>3 DEF zero
<1> HIDE DEF e
<1>11. Appended(tail.heap, Window(s, 0, pos), all, after)
  BY <1>6, <1>8, <1>10, AppendToProperties DEF after
<1>12. /\ after.heap \in Heaps /\ SliceOf(after.heap, after.slice)
       /\ Elements(after.heap, after.slice) = SubSeq(e, 1, pos) \o (ins \o SubSeq(e, pos + 1, s.len))
  BY <1>5, <1>6, <1>10, <1>11 DEF Appended
<1>13. \A a \in 1..N : a # s.array => SameArray(heap, after.heap, a)
  BY <1>7, <1>10, <1>11 DEF Appended, SameArray
<1> QED
  BY <1>1, <1>12, <1>13 DEF e

\* The copy of the order, and the slices that are cut out of it.
LEMMA CopiedOrder ==
  ASSUME OrderInvariant, NEW array \in {1, 2}
  PROVE  LET start == Copied(order)
             s     == [start.slice EXCEPT !.array = array]
         IN  /\ start.heap \in Heaps /\ Len(start.heap) = 2
             /\ SliceOf(start.heap, s) /\ s.array = array
             /\ s.len = Len(order) /\ s.cap = Len(order)
             /\ Elements(start.heap, s) = order
<1> DEFINE heap == <<order, order>>
           n    == Len(order)
           s    == [array |-> array, off |-> 0, len |-> n, cap |-> n]
<1>1. Copied(order).heap = heap /\ [Copied(order).slice EXCEPT !.array = array] = s
  BY DEF Copied
<1>2. order \in Seq(Elems) /\ n \in Nat
  BY SeqMonotonic, LenProperties DEF OrderInvariant, Elems
<1>3. heap \in Heaps /\ Len(heap) = 2 /\ heap[1] = order /\ heap[2] = order
  BY <1>2 DEF Heaps
<1> HIDE DEF heap
<1>4. heap[array] = order /\ array \in 1..Len(heap)
  BY <1>3
<1>5. SliceOf(heap, s)
  BY <1>2, <1>4 DEF SliceOf
<1>6. /\ Elements(heap, s) \in Seq(Elems) /\ Len(Elements(heap, s)) = n
      /\ \A i \in 1..n : Elements(heap, s)[i] = order[0 + i]
  BY <1>3, <1>4, <1>5, ElementsOfSlice
<1>7. Elements(heap, s) = order
  <2>1. \A i \in 1..n : Elements(heap, s)[i] = order[i]
    BY <1>6
  <2> QED
    BY <1>2, <1>6, <2>1, SeqEqual
<1> QED
  BY <1>1, <1>3, <1>5, <1>7

\* The two parts of a concatenation.
LEMMA PartsOfConcat ==
  ASSUME NEW S, NEW a \in Seq(S), NEW b \in Seq(S)
  PROVE  /\ SubSeq(a \o b, 1, Len(a)) = a
         /\ SubSeq(a \o b, Len(a) + 1, Len(a) + Len(b)) = b
<1> DEFINE e == a \o b
           m == Len(a)
           n == Len(b)
           k == m + 1
           l == m + n
<1>1. /\ e \in Seq(S) /\ Len(e) = l /\ m \in Nat /\ n \in Nat /\ Len(e) \in Nat
      /\ \A i \in 1..l : e[i] = IF i <= m THEN a[i] ELSE b[i - m]
  BY ConcatProperties, LenProperties
<1> HIDE DEF e
<1>2. SubSeq(e, 1, m) = a
  <2>1. /\ SubSeq(e, 1, m) \in Seq(S) /\ Len(SubSeq(e, 1, m)) = m
        /\ \A i \in 1..m : SubSeq(e, 1, m)[i] = e[i]
    <3> HIDE DEF m, n
    <3>1. /\ SubSeq(e, 1, m) \in Seq(S) /\ Len(SubSeq(e, 1, m)) = IF 1 <= m THEN m - 1 + 1 ELSE 0
          /\ \A i \in 1..(m - 1 + 1) : SubSeq(e, 1, m)[i] = e[1 + i - 1]
      BY <1>1, PieceOfOrder
    <3> QED
      BY <1>1, <3>1
  <2>2. \A i \in 1..m : e[i] = a[i]
    BY <1>1
  <2> QED
    BY <2>1, <2>2, SeqEqual
<1>3. SubSeq(e, k, l) = b
  <2> HIDE DEF m, n
  <2>1. k \in Int /\ l \in Int /\ 1 <= k /\ l <= Len(e) /\ l - k + 1 = n /\ (k <= l <=> n # 0)
    BY <1>1
  <2> HIDE DEF k, l
  <2>3. /\ SubSeq(e, k, l) \in Seq(S)
        /\ Len(SubSeq(e, k, l)) = IF k <= l THEN l - k + 1 ELSE 0
        /\ \A i \in 1..(l - k + 1) : SubSeq(e, k, l)[i] = e[k + i - 1]
    BY <1>1, <2>1, PieceOfOrder
  <2>4. Len(SubSeq(e, k, l)) = n
    BY <1>1, <2>1, <2>3
  <2>5. \A i \in 1..n : SubSeq(e, k, l)[i] = b[i]
    <3> SUFFICES ASSUME NEW i \in 1..n PROVE SubSeq(e, k, l)[i] = b[i]
      OBVIOUS
    <3> DEFINE p == k + i - 1
    <3>1. p \in 1..l /\ ~(p <= m) /\ p - m = i
      BY <1>1 DEF k, l
    <3>2. SubSeq(e, k, l)[i] = e[p]
      BY <2>1, <2>3
    <3> HIDE DEF p
    <3>3. e[p] = b[p - m]
      BY <1>1, <3>1
    <3> QED
      BY <3>1, <3>2, <3>3
  <2> QED
    BY <2>3, <2>4, <2>5, SeqEqual DEF n
<1> QED
  BY <1>2, <1>3 DEF e

\* The cut: what is left are the elements before and after it, and no array but
\* that of the slice, or a new one, is touched.
LEMMA CutRangeProperties ==
  ASSUME NEW heap \in Heaps, NEW s, SliceOf(heap, s), NEW from \in 0..s.len,
         NEW to \in Int, to + 1 \in from..s.len, NEW spare \in Nat
  PROVE  LET after == CutRange(heap, s, from, to, spare)
             e     == Elements(heap, s)
         IN  /\ after.heap \in Heaps /\ SliceOf(after.heap, after.slice)
             /\ Elements(after.heap, after.slice) =
                  SubSeq(e, 1, from) \o SubSeq(e, to + 2, s.len)
             /\ after.slice.array \in {s.array, Len(heap) + 1}
             /\ \A a \in 1..Len(heap) : a # s.array => SameArray(heap, after.heap, a)
<1> DEFINE e    == Elements(heap, s)
           zero == 0
           next == to + 1
           tail == Elements(heap, Window(s, next, s.len))
           head == Window(s, zero, from)
<1>1. CutRange(heap, s, from, to, spare) = AppendTo(heap, head, tail, spare)
  BY DEF CutRange
<1>2. /\ s.len \in Nat /\ zero \in 0..s.len /\ from \in zero..s.len /\ zero + 1 = 1
      /\ next \in 0..s.len /\ s.len \in next..s.len /\ next + 1 = to + 2
  BY DEF SliceOf
<1> HIDE DEF zero, next, e
<1>3. /\ SliceOf(heap, head) /\ Elements(heap, head) = SubSeq(e, 1, from)
      /\ head.array = s.array
  BY <1>2, ElementsOfWindow DEF e
<1>4. tail = SubSeq(e, to + 2, s.len) /\ tail \in Seq(Elems)
  <2>1. /\ SliceOf(heap, Window(s, next, s.len))
        /\ Elements(heap, Window(s, next, s.len)) = SubSeq(e, to + 2, s.len)
    <3>1. /\ SliceOf(heap, Window(s, next, s.len))
          /\ Elements(heap, Window(s, next, s.len)) = SubSeq(Elements(heap, s), next + 1, s.len)
      <4> DEFINE len == s.len
      <4>1. next \in 0..s.len /\ len \in next..s.len
        BY <1>2
      <4> HIDE DEF len
      <4>2. /\ SliceOf(heap, Window(s, next, len))
            /\ Elements(heap, Window(s, next, len)) = SubSeq(Elements(heap, s), next + 1, len)
        BY <4>1, ElementsOfWindow
      <4> QED
        BY <4>2 DEF len
    <3> QED
      BY <1>2, <3>1 DEF e
  <2> QED
    BY <2>1, ElementsOfSlice
<1> HIDE DEF head, tail
<1>5. Appended(heap, head, tail, AppendTo(heap, head, tail, spare))
  BY <1>3, <1>4, AppendToProperties
<1> QED
  BY <1>1, <1>3, <1>4, <1>5 DEF Appended, e

\* The insertion, or nothing when there is nothing to insert.
Inserted(after, heap, s, pos, ins, spare) ==
  /\ ins # <<>> => after = InsertAt(heap, s, pos, ins, spare)
  /\ ins = <<>> => after.heap = heap /\ after.slice = s

LEMMA InsertOrKeep ==
  ASSUME NEW heap \in Heaps, 1 \in 1..Len(heap), NEW s, SliceOf(heap, s), s.array # 1,
         NEW A \in Seq(Elems), NEW B \in Seq(Elems), NEW ins \in Seq(Elems), NEW spare \in Nat,
         Elements(heap, s) = A \o B,
         NEW after, Inserted(after, heap, s, Len(A), ins, spare)
  PROVE  /\ Elements(after.heap, after.slice) = A \o ins \o B
         /\ \A a \in 1..Len(heap) : a # s.array => SameArray(heap, after.heap, a)
<1> DEFINE e == Elements(heap, s)
           k == Len(A)
           n == s.len
<1>1. Len(e) = n /\ Len(A \o B) = k + Len(B) /\ k \in Nat /\ Len(B) \in Nat
  BY ElementsOfSlice, ConcatProperties, LenProperties
<1>2. n = k + Len(B)
  BY <1>1
<1>3. k \in 0..n
  BY <1>1, <1>2
<1>4. SubSeq(e, 1, k) = A /\ SubSeq(e, k + 1, n) = B
  BY <1>2, PartsOfConcat
<1>5. CASE ins = <<>>
  <2>1. A \o ins = A
    BY <1>5, ConcatEmptySeq
  <2>2. SliceOf(heap, s) /\ \A a \in 1..Len(heap) : SameArray(heap, heap, a)
    BY DEF SameArray
  <2> QED
    BY <1>5, <2>1, <2>2 DEF Inserted
<1>6. CASE ins # <<>>
  <2>1. /\ Elements(after.heap, after.slice) = SubSeq(e, 1, k) \o (ins \o SubSeq(e, k + 1, n))
        /\ \A a \in 1..Len(heap) : a # s.array => SameArray(heap, after.heap, a)
    <3> HIDE DEF k
    <3>1. after = InsertAt(heap, s, k, ins, spare)
      BY <1>6 DEF k, Inserted
    <3> QED
      BY <1>3, <3>1, InsertAtProperties
  <2>2. A \o ins \o B = A \o (ins \o B)
    BY ConcatAssociative
  <2> QED
    BY <1>4, <2>1, <2>2
<1> QED
  BY <1>5, <1>6

\* A replacement edits the copy of the order as the plain splice says, and keeps
\* the ids it reports in an array of their own.
LEMMA ReplaceInPlaceSplices ==
  ASSUME OrderInvariant, NEW from, NEW to, from # NoId \/ to # NoId,
         NEW ins \in InsertLists, NEW spare \in Spares, ReplaceAccepted(order, from, to, ins)
  PROVE  ReplaceInPlace(order, from, to, ins, spare) =
           [working  |-> ReplaceResult(order, from, to, ins),
            replaced |-> ReplacedIds(order, from, to)]
<1> DEFINE first    == ReplaceFirst(order, from, to)
           final    == ReplaceLast(order, from, to)
           n        == Len(order)
           start    == Copied(order)
           both     == from # NoId /\ to # NoId
           pos      == first - 1
           last     == final - 1
           replaced == IF both THEN TakeReplaced(start.heap, start.slice, pos, last, spare)
                               ELSE [start EXCEPT !.slice = NilSlice]
           rest     == IF both THEN CutRange(replaced.heap, start.slice, pos, last, spare)
                               ELSE start
           working  == IF ins # <<>> THEN InsertAt(rest.heap, rest.slice, pos, ins, spare)
                                     ELSE rest
           A        == SubSeq(order, 1, pos)
           B        == SubSeq(order, final + 1, n)
           R        == SubSeq(order, first, final)
           s        == start.slice
<1>1. ReplaceInPlace(order, from, to, ins, spare) =
        [working  |-> Elements(working.heap, working.slice),
         replaced |-> Elements(working.heap, replaced.slice)]
  BY DEF ReplaceInPlace
<1>2. /\ order \in Seq(Elems) /\ ins \in Seq(Elems) /\ spare \in Nat /\ n \in Nat
      /\ order \in Seq(MessageIds)
      /\ BoundsFound(order, from, to) /\ ReplaceSpecValid(order, from, to, ins)
  <2>1. order \in Seq(MessageIds) /\ ins \in Seq(MessageIds) /\ spare \in Nat
    BY WalkAssumption DEF OrderInvariant
  <2>2. order \in Seq(Elems) /\ ins \in Seq(Elems)
    BY <2>1, SeqMonotonic DEF Elems
  <2> QED
    BY <2>1, <2>2, LenProperties DEF ReplaceAccepted
<1>3. first \in 1..(n + 1) /\ final \in 0..n /\ first <= final + 1
  BY <1>2, ReplaceBounds
<1>4. both => first <= final
  BY <1>2 DEF ReplaceSpecValid, ReplaceFirst, ReplaceLast
<1>5. ~both => first = final + 1
  <2>1. from # NoId => IndexOf(order, from) \in 1..n
    BY <1>2, IndexOfBound DEF BoundsFound
  <2>2. to # NoId => IndexOf(order, to) \in 1..n
    BY <1>2, IndexOfBound DEF BoundsFound
  <2> QED
    BY <2>1, <2>2 DEF ReplaceFirst, ReplaceLast
<1>6. /\ start.heap \in Heaps /\ Len(start.heap) = 2 /\ SliceOf(start.heap, s)
      /\ s.array = 2 /\ s.len = n /\ Elements(start.heap, s) = order
  <2>1. [s EXCEPT !.array = 2] = s
    BY DEF Copied
  <2> QED
    BY <2>1, CopiedOrder
<1>7. ReplaceResult(order, from, to, ins) = A \o ins \o B /\ ReplacedIds(order, from, to) = R
  BY DEF ReplaceResult, ReplacedIds, Splice
<1> HIDE DEF first, final, n
<1>8. /\ A \in Seq(Elems) /\ B \in Seq(Elems) /\ R \in Seq(Elems) /\ Len(A) = pos
      /\ pos \in 0..n /\ last \in Int /\ pos + 1 = first /\ last + 2 = final + 1
  <2>1. 1 <= first /\ first \in Int /\ final \in Int /\ final <= n /\ pos \in Int /\ pos <= n
        /\ 1 <= final + 1 /\ final + 1 \in Int /\ n <= n /\ n \in Int
    BY <1>2, <1>3
  <2> HIDE DEF pos
  <2>2. A \in Seq(Elems) /\ B \in Seq(Elems) /\ R \in Seq(Elems)
    BY <1>2, <2>1, PieceOfOrder DEF n
  <2>3. Len(A) = IF 1 <= pos THEN pos - 1 + 1 ELSE 0
    BY <1>2, <2>1, PieceOfOrder DEF n
  <2> HIDE DEF A, B, R
  <2> QED
    BY <1>2, <1>3, <2>1, <2>2, <2>3 DEF pos
<1> HIDE DEF start
<1>9. /\ replaced.heap \in Heaps /\ SliceOf(replaced.heap, replaced.slice)
      /\ Elements(replaced.heap, replaced.slice) = R
      /\ \A a \in 1..2 : SameArray(start.heap, replaced.heap, a)
      /\ replaced.slice.array \in {1, 3}
  <2>1. CASE both
    <3> DEFINE next == last + 1
               w    == Window(s, pos, next)
    <3>1. pos \in 0..s.len /\ next \in pos..s.len /\ next = final
      BY <1>2, <1>3, <1>4, <1>6, <2>1
    <3> HIDE DEF next
    <3>2. SliceOf(start.heap, w) /\ Elements(start.heap, w) = SubSeq(order, pos + 1, next)
      BY <1>6, <3>1, ElementsOfWindow
    <3>3. Elements(start.heap, w) = R
      BY <1>8, <3>1, <3>2
    <3>4. replaced = AppendTo(start.heap, NilSlice, R, spare)
      BY <2>1, <3>3 DEF TakeReplaced, next
    <3>5. 1 \in 1..Len(start.heap) /\ Len(start.heap) + 1 = 3
      BY <1>6
    <3> HIDE DEF replaced, R
    <3> QED
      BY <1>2, <1>6, <1>8, <3>4, <3>5, AppendToNil
  <2>2. CASE ~both
    <3>1. replaced.heap = start.heap /\ replaced.slice = NilSlice
      BY <2>2 DEF Copied, start
    <3>2. R = <<>>
      <4>1. final < first /\ first \in Int /\ final \in Int
        BY <1>3, <1>5, <2>2
      <4> QED
        BY <4>1, SubSeqEmpty
    <3> HIDE DEF replaced, R
    <3>3. \A a \in 1..2 : a \in 1..Len(start.heap)
      BY <1>6
    <3>4. SliceOf(start.heap, NilSlice) /\ Elements(start.heap, NilSlice) = R
          /\ NilSlice.array = 1
      BY <1>6, <3>2, <3>3, NilSliceProperties
    <3>5. \A a \in 1..2 : SameArray(start.heap, start.heap, a)
      BY <3>3 DEF SameArray
    <3> QED
      BY <1>6, <3>1, <3>4, <3>5
  <2> QED
    BY <2>1, <2>2
<1> HIDE DEF replaced
<1>10. /\ rest.heap \in Heaps /\ SliceOf(rest.heap, rest.slice)
       /\ Elements(rest.heap, rest.slice) = A \o B
       /\ SliceOf(rest.heap, replaced.slice)
       /\ Elements(rest.heap, replaced.slice) = R
       /\ rest.slice.array # replaced.slice.array /\ rest.slice.array # 1
       /\ 1 \in 1..Len(rest.heap)
  <2>1. 1 \in 1..Len(replaced.heap) /\ 2 \in 1..Len(replaced.heap)
    BY <1>9 DEF SameArray
  <2>2. SliceOf(replaced.heap, s) /\ Elements(replaced.heap, s) = order
    BY <1>6, <1>9, SameElements
  <2>3. replaced.slice.array \in 1..Len(replaced.heap)
    BY <1>9 DEF SliceOf
  <2>4. CASE both
    <3>1. pos \in 0..s.len /\ last + 1 \in pos..s.len
      BY <1>2, <1>3, <1>4, <1>6, <2>4
    <3>2. rest = CutRange(replaced.heap, s, pos, last, spare)
      BY <2>4
    <3> HIDE DEF rest, pos, last, A, B, R
    <3>3. /\ rest.heap \in Heaps /\ SliceOf(rest.heap, rest.slice)
          /\ Elements(rest.heap, rest.slice) = SubSeq(order, 1, pos) \o SubSeq(order, last + 2, n)
          /\ rest.slice.array \in {2, Len(replaced.heap) + 1}
          /\ \A a \in 1..Len(replaced.heap) : a # 2 => SameArray(replaced.heap, rest.heap, a)
      <4> DEFINE e == Elements(replaced.heap, s)
      <4>1. replaced.heap \in Heaps /\ last \in Int /\ spare \in Nat
        BY <1>2, <1>8, <1>9
      <4> HIDE DEF replaced
      <4>2. /\ rest.heap \in Heaps /\ SliceOf(rest.heap, rest.slice)
            /\ Elements(rest.heap, rest.slice) = SubSeq(e, 1, pos) \o SubSeq(e, last + 2, s.len)
            /\ rest.slice.array \in {s.array, Len(replaced.heap) + 1}
            /\ \A a \in 1..Len(replaced.heap) :
                 a # s.array => SameArray(replaced.heap, rest.heap, a)
        BY <2>2, <3>1, <3>2, <4>1, CutRangeProperties
      <4> QED
        BY <1>6, <2>2, <4>2
    <3>4. Len(replaced.heap) \in Nat
      BY <1>9, LenProperties DEF Heaps
    <3>5. /\ SameArray(replaced.heap, rest.heap, replaced.slice.array)
          /\ SameArray(replaced.heap, rest.heap, 1)
      BY <1>9, <2>1, <2>3, <3>3
    <3>6. SliceOf(rest.heap, replaced.slice) /\ Elements(rest.heap, replaced.slice) = R
      BY <1>9, <3>5, SameElements
    <3>7. rest.slice.array # replaced.slice.array /\ rest.slice.array # 1
      BY <1>9, <2>1, <2>3, <3>3, <3>4
    <3>8. SubSeq(order, 1, pos) \o SubSeq(order, last + 2, n) = A \o B
      BY <1>8 DEF A, B
    <3> QED
      BY <3>3, <3>5, <3>6, <3>7, <3>8 DEF SameArray
  <2>5. CASE ~both
    <3>1. rest.heap = start.heap /\ rest.slice = s
      BY <2>5
    <3>2. replaced.heap = start.heap
      BY <2>5 DEF replaced, start, Copied
    <3>3. A \o B = order
      <4>1. first = final + 1
        BY <1>5, <2>5
      <4> DEFINE one == 1
      <4>2. /\ one \in 1..(n + 1) /\ pos \in (one - 1)..n /\ n \in pos..n
            /\ final + 1 = pos + 1
        BY <1>2, <1>3, <4>1
      <4> HIDE DEF one, pos
      <4>3. SubSeq(order, one, pos) \o SubSeq(order, pos + 1, n) = SubSeq(order, one, n)
        BY <1>2, <4>2, ConcatAdjacentSubSeq DEF n
      <4>4. SubSeq(order, 1, n) = order
        BY <1>2, SubSeqFull DEF n
      <4> QED
        BY <4>2, <4>3, <4>4 DEF one
    <3> HIDE DEF rest, A, B, R
    <3> QED
      BY <1>6, <1>9, <2>1, <3>1, <3>2, <3>3
  <2> QED
    BY <2>4, <2>5
<1> HIDE DEF rest, A, B, R
<1>11. /\ Elements(working.heap, working.slice) = A \o ins \o B
       /\ \A a \in 1..Len(rest.heap) : a # rest.slice.array => SameArray(rest.heap, working.heap, a)
  <2>1. ins # <<>> => working = InsertAt(rest.heap, rest.slice, Len(A), ins, spare)
    BY <1>8
  <2>2. ins = <<>> => working.heap = rest.heap /\ working.slice = rest.slice
    OBVIOUS
  <2> DEFINE h == rest.heap
             r == rest.slice
  <2>3. /\ h \in Heaps /\ 1 \in 1..Len(h) /\ SliceOf(h, r) /\ r.array # 1
        /\ A \in Seq(Elems) /\ B \in Seq(Elems) /\ ins \in Seq(Elems) /\ spare \in Nat
        /\ Elements(h, r) = A \o B
    BY <1>2, <1>8, <1>10
  <2> HIDE DEF working, h, r
  <2>4. Inserted(working, h, r, Len(A), ins, spare)
    BY <2>1, <2>2 DEF h, r, Inserted
  <2>5. /\ Elements(working.heap, working.slice) = A \o ins \o B
        /\ \A a \in 1..Len(h) : a # r.array => SameArray(h, working.heap, a)
    BY <2>3, <2>4, InsertOrKeep
  <2> QED
    BY <2>5 DEF h, r
<1> HIDE DEF working
<1>12. Elements(working.heap, replaced.slice) = R
  <2>1. replaced.slice.array \in 1..Len(rest.heap)
    BY <1>10 DEF SliceOf
  <2>2. SameArray(rest.heap, working.heap, replaced.slice.array)
    BY <1>10, <1>11, <2>1
  <2> DEFINE t == replaced.slice
  <2>3. SliceOf(rest.heap, t) /\ SameArray(rest.heap, working.heap, t.array)
    BY <1>10, <2>2
  <2> HIDE DEF t
  <2>4. Elements(working.heap, t) = Elements(rest.heap, t)
    BY <2>3, SameElements
  <2> QED
    BY <1>10, <2>4 DEF t
<1> QED
  BY <1>1, <1>7, <1>11, <1>12

\* A deletion leaves the order as read alone and collects what is deleted, and
\* what remains, in two arrays of their own.
LEMMA DeleteInPlaceSplices ==
  ASSUME OrderInvariant, NEW from, NEW to, NEW spare \in Spares,
         DeleteAccepted(order, from, to)
  PROVE  DeleteInPlace(order, from, to, spare) =
           [remaining |-> DeleteResult(order, from, to),
            deleted   |-> DeletedIds(order, from, to)]
<1> DEFINE first   == DeleteFirst(order, from)
           final   == DeleteLast(order, to)
           n       == Len(order)
           start   == Copied(order)
           s       == [start.slice EXCEPT !.array = 1]
           pos     == first - 1
           last    == final - 1
           deleted == TakeReplaced(start.heap, s, pos, last, spare)
           head    == AppendTo(deleted.heap, NilSlice,
                               Elements(deleted.heap, Window(s, 0, pos)), spare)
           both    == AppendTo(head.heap, head.slice,
                               Elements(head.heap, Window(s, last + 1, s.len)), spare)
           A       == SubSeq(order, 1, pos)
           B       == SubSeq(order, final + 1, n)
           R       == SubSeq(order, first, final)
<1>1. DeleteInPlace(order, from, to, spare) =
        [remaining |-> Elements(both.heap, both.slice),
         deleted   |-> Elements(both.heap, deleted.slice)]
  BY DEF DeleteInPlace
<1>2. /\ order \in Seq(Elems) /\ order \in Seq(MessageIds) /\ spare \in Nat /\ n \in Nat
      /\ BoundsFound(order, from, to) /\ DeleteSpecValid(order, from, to)
  <2>1. order \in Seq(MessageIds) /\ spare \in Nat
    BY WalkAssumption DEF OrderInvariant
  <2>2. order \in Seq(Elems)
    BY <2>1, SeqMonotonic DEF Elems
  <2> QED
    BY <2>1, <2>2, LenProperties DEF DeleteAccepted
<1>3. first \in 1..n /\ final \in 1..n /\ first <= final
  BY <1>2, DeleteBounds
<1>4. /\ start.heap \in Heaps /\ Len(start.heap) = 2 /\ SliceOf(start.heap, s)
      /\ s.array = 1 /\ s.len = n /\ Elements(start.heap, s) = order
  BY CopiedOrder
<1>5. DeleteResult(order, from, to) = A \o <<>> \o B /\ DeletedIds(order, from, to) = R
  BY DEF DeleteResult, DeletedIds, Splice
<1> HIDE DEF first, final, n, start, s
<1> DEFINE zero == 0
           next == last + 1
<1>6. /\ pos \in 0..n /\ pos \in 0..s.len /\ next \in pos..s.len /\ next \in 0..s.len
      /\ pos \in zero..s.len /\ zero \in 0..s.len /\ s.len \in next..s.len
      /\ pos + 1 = first /\ next = final /\ zero + 1 = 1
  BY <1>2, <1>3, <1>4
<1>7. both = AppendTo(head.heap, head.slice,
                      Elements(head.heap, Window(s, next, s.len)), spare)
  OBVIOUS
<1>8. A \in Seq(Elems) /\ B \in Seq(Elems) /\ R \in Seq(Elems)
  <2>1. 1 <= first /\ first \in Int /\ final \in Int /\ final <= n /\ pos \in Int /\ pos <= n
        /\ 1 <= final + 1 /\ final + 1 \in Int /\ n <= n /\ n \in Int
    BY <1>2, <1>3
  <2> HIDE DEF pos
  <2> QED
    BY <1>2, <2>1, PieceOfOrder DEF n
<1>9. /\ deleted.heap \in Heaps /\ SliceOf(deleted.heap, deleted.slice)
      /\ Elements(deleted.heap, deleted.slice) = R
      /\ \A a \in 1..2 : SameArray(start.heap, deleted.heap, a)
      /\ deleted.slice.array \in {1, 3}
  <2> DEFINE w == Window(s, pos, next)
  <2>1. deleted = AppendTo(start.heap, NilSlice, Elements(start.heap, w), spare)
    BY DEF TakeReplaced
  <2> HIDE DEF deleted, pos, next
  <2>2. SliceOf(start.heap, w) /\ Elements(start.heap, w) = SubSeq(order, pos + 1, next)
    BY <1>4, <1>6, ElementsOfWindow
  <2>3. Elements(start.heap, w) = R
    BY <1>6, <2>2
  <2>4. 1 \in 1..Len(start.heap) /\ Len(start.heap) + 1 = 3
    BY <1>4
  <2> HIDE DEF w, R
  <2> QED
    BY <1>2, <1>4, <1>8, <2>1, <2>3, <2>4, AppendToNil
<1> HIDE DEF both, pos, next
<1> DEFINE N == Len(deleted.heap)
<1>10. /\ SliceOf(deleted.heap, s) /\ Elements(deleted.heap, s) = order
       /\ 1 \in 1..N /\ N \in Nat /\ deleted.slice.array \in 1..N
  <2>1. SliceOf(deleted.heap, s) /\ Elements(deleted.heap, s) = order
    BY <1>4, <1>9, SameElements
  <2>2. 1 \in 1..N /\ deleted.slice.array \in 1..N
    BY <1>9 DEF SameArray, SliceOf
  <2>3. N \in Nat
    BY <1>9, LenProperties DEF Heaps
  <2> QED
    BY <2>1, <2>2, <2>3
<1> HIDE DEF deleted
<1>11. /\ head.heap \in Heaps /\ SliceOf(head.heap, head.slice)
       /\ Elements(head.heap, head.slice) = A
       /\ \A a \in 1..N : SameArray(deleted.heap, head.heap, a)
       /\ head.slice.array = N + 1 \/ head.slice.cap = 0
  <2> DEFINE w == Window(s, zero, pos)
  <2>1. head = AppendTo(deleted.heap, NilSlice, Elements(deleted.heap, w), spare)
    OBVIOUS
  <2> HIDE DEF head, zero
  <2>2. SliceOf(deleted.heap, w) /\ Elements(deleted.heap, w) = SubSeq(order, zero + 1, pos)
    BY <1>6, <1>9, <1>10, ElementsOfWindow
  <2>3. Elements(deleted.heap, w) = A
    BY <1>6, <2>2
  <2> HIDE DEF w, A
  <2> QED
    BY <1>2, <1>8, <1>9, <1>10, <2>1, <2>3, AppendToNil
<1>12. /\ SliceOf(head.heap, s) /\ Elements(head.heap, s) = order
       /\ SliceOf(head.heap, deleted.slice) /\ Elements(head.heap, deleted.slice) = R
  <2> HIDE DEF head, N
  <2>1. SameArray(deleted.heap, head.heap, s.array)
        /\ SameArray(deleted.heap, head.heap, deleted.slice.array)
    BY <1>4, <1>10, <1>11
  <2>2. SliceOf(head.heap, s) /\ Elements(head.heap, s) = Elements(deleted.heap, s)
    BY <1>10, <2>1, SameElements
  <2> DEFINE t == deleted.slice
  <2>3. SliceOf(deleted.heap, t) /\ SameArray(deleted.heap, head.heap, t.array)
    BY <1>9, <2>1
  <2> HIDE DEF t
  <2>4. SliceOf(head.heap, t) /\ Elements(head.heap, t) = Elements(deleted.heap, t)
    BY <2>3, SameElements
  <2> QED
    BY <1>9, <1>10, <2>2, <2>4 DEF t
<1> HIDE DEF head, N
<1>13. Elements(head.heap, Window(s, next, s.len)) = B
  <2>1. Elements(head.heap, Window(s, next, s.len)) = SubSeq(order, next + 1, s.len)
    BY <1>6, <1>11, <1>12, ElementsOfWindow
  <2> QED
    BY <1>4, <1>6, <2>1
<1> HIDE DEF A, B, R
<1>14. Elements(both.heap, both.slice) = A \o B
  <2>1. Appended(head.heap, head.slice, B, both)
    BY <1>2, <1>7, <1>8, <1>11, <1>13, AppendToProperties
  <2> QED
    BY <1>11, <2>1 DEF Appended
<1>15. Elements(both.heap, deleted.slice) = R
  <2>1. N <= Len(head.heap)
    <3>1. N \in Nat /\ 1 <= N /\ Len(head.heap) \in Nat
      BY <1>10, <1>11, LenProperties DEF Heaps
    <3>2. N \in 1..Len(head.heap)
      BY <1>11, <3>1 DEF SameArray
    <3> QED
      BY <3>1, <3>2
  <2>2. \A a \in 1..N : SameArray(head.heap, both.heap, a)
    BY <1>2, <1>7, <1>8, <1>10, <1>11, <1>13, <2>1, AppendBeside
  <2> QED
    BY <1>10, <1>12, <2>2, SameElements
<1>16. A \o <<>> \o B = A \o B
  BY <1>8, ConcatEmptySeq
<1> QED
  BY <1>1, <1>5, <1>14, <1>15, <1>16

\* The edits of shared backing arrays come out as the plain splice, and the ids
\* that are reported are not overwritten, whatever room append leaves.
THEOREM SlicesDoNotInterfere == Spec => []InPlaceEditsAreSplices
<1>1. OrderInvariant => InPlaceEditsAreSplices
  <2> SUFFICES ASSUME OrderInvariant,
                      NEW from \in MessageIds \cup {NoId}, NEW to \in MessageIds \cup {NoId},
                      from # NoId \/ to # NoId, NEW spare \in Spares
               PROVE  /\ \A ins \in InsertLists : ReplaceAccepted(order, from, to, ins) =>
                           ReplaceInPlace(order, from, to, ins, spare) =
                             [working  |-> ReplaceResult(order, from, to, ins),
                              replaced |-> ReplacedIds(order, from, to)]
                      /\ DeleteAccepted(order, from, to) =>
                           DeleteInPlace(order, from, to, spare) =
                             [remaining |-> DeleteResult(order, from, to),
                              deleted   |-> DeletedIds(order, from, to)]
    BY DEF InPlaceEditsAreSplices, Bounds
  <2> QED
    BY ReplaceInPlaceSplices, DeleteInPlaceSplices
<1> QED
  BY <1>1, OrdersStayOrders, PTL

=============================================================================
