--------------------------- MODULE RangeOpsProofs ---------------------------
(***************************************************************************)
(* What the in-memory part of the range operations computes for every      *)
(* order and every request.                                                *)
(***************************************************************************)
EXTENDS RangeOps, SequenceTheorems, TLAPS

\* A bound that is found is at an index of the order.
LEMMA IndexOfBound ==
  ASSUME NEW S, NEW order \in Seq(S), NEW id, InOrder(order, id)
  PROVE  /\ IndexOf(order, id) \in 1..Len(order)
         /\ order[IndexOf(order, id)] = id
<1>1. DOMAIN order = 1..Len(order)
  BY LenProperties
<1>2. PICK i \in DOMAIN order : order[i] = id
  BY DEF InOrder, Range
<1> QED
  BY <1>1, <1>2 DEF IndexOf

\* The bounds of the replaced range delimit a piece, perhaps empty, of the order.
LEMMA ReplaceBounds ==
  ASSUME NEW S, NEW order \in Seq(S), NEW from, NEW to, NEW ins,
         from # NoId \/ to # NoId,
         BoundsFound(order, from, to), ReplaceSpecValid(order, from, to, ins)
  PROVE  /\ ReplaceFirst(order, from, to) \in 1..(Len(order) + 1)
         /\ ReplaceLast(order, from, to) \in 0..Len(order)
         /\ ReplaceFirst(order, from, to) <= ReplaceLast(order, from, to) + 1
<1>1. Len(order) \in Nat
  BY LenProperties
<1>2. from # NoId => IndexOf(order, from) \in 1..Len(order)
  BY IndexOfBound DEF BoundsFound
<1>3. to # NoId => IndexOf(order, to) \in 1..Len(order)
  BY IndexOfBound DEF BoundsFound
<1> QED
  BY <1>1, <1>2, <1>3 DEF ReplaceFirst, ReplaceLast, ReplaceSpecValid

LEMMA DeleteBounds ==
  ASSUME NEW S, NEW order \in Seq(S), NEW from, NEW to,
         BoundsFound(order, from, to), DeleteSpecValid(order, from, to)
  PROVE  /\ DeleteFirst(order, from) \in 1..Len(order)
         /\ DeleteLast(order, to) \in 1..Len(order)
         /\ DeleteFirst(order, from) <= DeleteLast(order, to)
<1>1. Len(order) \in Nat \ {0}
  BY EmptySeq DEF DeleteSpecValid
<1>2. from # NoId => IndexOf(order, from) \in 1..Len(order)
  BY IndexOfBound DEF BoundsFound
<1>3. to # NoId => IndexOf(order, to) \in 1..Len(order)
  BY IndexOfBound DEF BoundsFound
<1> QED
  BY <1>1, <1>2, <1>3 DEF DeleteFirst, DeleteLast, DeleteSpecValid

\* A piece of an order, and a splice into one.
LEMMA PieceOfOrder ==
  ASSUME NEW S, NEW order \in Seq(S), NEW m \in Int, NEW n \in Int,
         1 <= m, n <= Len(order)
  PROVE  /\ SubSeq(order, m, n) \in Seq(S)
         /\ Len(SubSeq(order, m, n)) = IF m <= n THEN n - m + 1 ELSE 0
         /\ \A i \in 1..(n - m + 1) : SubSeq(order, m, n)[i] = order[m + i - 1]
<1>1. \A i \in m..n : order[i] \in S
  BY ElementOfSeq
<1> QED
  BY <1>1, SubSeqProperties

\* `new' is order with the elements first..last replaced by ins.
IsSplice(new, S, order, first, last, ins) ==
  /\ new \in Seq(S)
  /\ Len(new) = Len(order) - (last - first + 1) + Len(ins)
  /\ \A i \in 1..(first - 1) : new[i] = order[i]
  /\ \A i \in 1..Len(ins) : new[first - 1 + i] = ins[i]
  /\ \A i \in 1..(Len(order) - last) :
       new[first - 1 + Len(ins) + i] = order[last + i]

LEMMA SpliceProperties ==
  ASSUME NEW S, NEW order \in Seq(S), NEW ins \in Seq(S),
         NEW first \in 1..(Len(order) + 1), NEW last \in 0..Len(order),
         first <= last + 1
  PROVE  IsSplice(Splice(order, first, last, ins), S, order, first, last, ins)
<1> DEFINE head == SubSeq(order, 1, first - 1)
           tail == SubSeq(order, last + 1, Len(order))
<1>1. Len(order) \in Nat /\ Len(ins) \in Nat
  BY LenProperties
<1>2. /\ head \in Seq(S)
      /\ Len(head) = first - 1
      /\ \A i \in 1..(first - 1) : head[i] = order[i]
  BY <1>1, PieceOfOrder, 1 \in Int, first - 1 \in Int
<1>3. /\ tail \in Seq(S)
      /\ Len(tail) = Len(order) - last
      /\ \A i \in 1..(Len(order) - last) : tail[i] = order[last + i]
  <2>1. last + 1 \in Int /\ Len(order) \in Int
    BY <1>1
  <2>2. /\ tail \in Seq(S)
        /\ Len(tail) = IF last + 1 <= Len(order) THEN Len(order) - (last + 1) + 1 ELSE 0
        /\ \A i \in 1..(Len(order) - (last + 1) + 1) : tail[i] = order[(last + 1) + i - 1]
    BY <1>1, <2>1, PieceOfOrder, 1 <= last + 1, Len(order) <= Len(order)
  <2> QED
    BY <1>1, <2>2
<1> HIDE DEF head, tail
<1>4. /\ head \o ins \in Seq(S)
      /\ Len(head \o ins) = first - 1 + Len(ins)
      /\ \A i \in 1..(first - 1 + Len(ins)) : (head \o ins)[i] =
           IF i <= first - 1 THEN head[i] ELSE ins[i - (first - 1)]
  <2>1. /\ head \o ins \in Seq(S)
        /\ Len(head \o ins) = Len(head) + Len(ins)
        /\ \A i \in 1..Len(head) + Len(ins) : (head \o ins)[i] =
             IF i <= Len(head) THEN head[i] ELSE ins[i - Len(head)]
    <3>1. head \in Seq(S)
      BY <1>2
    <3> QED
      BY ONLY <3>1, ins \in Seq(S), ConcatProperties
  <2> QED
    BY <1>2, <2>1
<1> DEFINE front == head \o ins
<1> HIDE DEF front
<1>5. /\ front \o tail \in Seq(S)
      /\ Len(front \o tail) = first - 1 + Len(ins) + Len(order) - last
      /\ \A i \in 1..(first - 1 + Len(ins) + Len(order) - last) : (front \o tail)[i] =
           IF i <= first - 1 + Len(ins) THEN front[i]
                                        ELSE tail[i - (first - 1 + Len(ins))]
  <2>1. /\ front \o tail \in Seq(S)
        /\ Len(front \o tail) = Len(front) + Len(tail)
        /\ \A i \in 1..Len(front) + Len(tail) : (front \o tail)[i] =
             IF i <= Len(front) THEN front[i] ELSE tail[i - Len(front)]
    <3>1. front \in Seq(S) /\ tail \in Seq(S)
      BY <1>3, <1>4 DEF front
    <3> QED
      BY ONLY <3>1, ConcatProperties
  <2>2. Len(front) = first - 1 + Len(ins)
    BY <1>4 DEF front
  <2> QED
    BY <1>1, <1>3, <2>1, <2>2
<1> DEFINE whole == front \o tail
<1>6. \A i \in 1..(first - 1) : whole[i] = order[i]
  BY <1>1, <1>2, <1>4, <1>5 DEF front
<1>7. \A i \in 1..Len(ins) : whole[first - 1 + i] = ins[i]
  <2> SUFFICES ASSUME NEW i \in 1..Len(ins)
               PROVE  whole[first - 1 + i] = ins[i]
    OBVIOUS
  <2> DEFINE k == first - 1 + i
  <2>1. k \in 1..(first - 1 + Len(ins)) /\ k > first - 1 /\ k - (first - 1) = i
    BY <1>1
  <2>2. k \in 1..(first - 1 + Len(ins) + Len(order) - last)
    BY <1>1, <2>1
  <2> HIDE DEF k
  <2>3. (front \o tail)[k] = front[k]
    BY <1>5, <2>1, <2>2
  <2>4. front[k] = ins[k - (first - 1)]
    BY <1>4, <2>1 DEF front
  <2> QED
    BY <2>1, <2>3, <2>4 DEF k
<1>8. \A i \in 1..(Len(order) - last) : whole[first - 1 + Len(ins) + i] = order[last + i]
  <2> SUFFICES ASSUME NEW i \in 1..(Len(order) - last)
               PROVE  whole[first - 1 + Len(ins) + i] = order[last + i]
    OBVIOUS
  <2> DEFINE k == first - 1 + Len(ins) + i
  <2>1. /\ k \in 1..(first - 1 + Len(ins) + Len(order) - last)
        /\ k > first - 1 + Len(ins)
        /\ k - (first - 1 + Len(ins)) = i
    BY <1>1
  <2> HIDE DEF k
  <2>2. ~(k <= first - 1 + Len(ins))
    BY <1>1, <2>1
  <2>3. (front \o tail)[k] = tail[k - (first - 1 + Len(ins))]
    BY <1>5, <2>1, <2>2
  <2> QED
    BY <1>3, <2>1, <2>3 DEF k
<1>9. Len(whole) = Len(order) - (last - first + 1) + Len(ins)
  BY <1>1, <1>5
<1>10. Splice(order, first, last, ins) = whole
  BY DEF Splice, head, tail, front
<1> HIDE DEF whole
<1> QED
  BY <1>5, <1>6, <1>7, <1>8, <1>9, <1>10 DEF whole, IsSplice

-----------------------------------------------------------------------------
\* In an order without duplicates, a message is found where it is.
LEMMA IndexOfElement ==
  ASSUME NEW S, NEW order \in Seq(S), Unique(order), NEW i \in 1..Len(order)
  PROVE  IndexOf(order, order[i]) = i
<1>1. DOMAIN order = 1..Len(order)
  BY LenProperties
<1>2. \A j \in DOMAIN order : order[j] = order[i] => j = i
  BY <1>1 DEF Unique, IsInjective
<1> QED
  BY <1>1, <1>2 DEF IndexOf

\* Splicing out what was spliced in, and back in what was cut out, restores the
\* order, element by element.
LEMMA SpliceIsUndone ==
  ASSUME NEW S, NEW order \in Seq(S), NEW ins \in Seq(S),
         NEW first \in 1..(Len(order) + 1), NEW last \in 0..Len(order),
         first <= last + 1
  PROVE  Splice(Splice(order, first, last, ins), first, first + Len(ins) - 1,
                SubSeq(order, first, last)) = order
<1> DEFINE new     == Splice(order, first, last, ins)
           removed == SubSeq(order, first, last)
           end     == first + Len(ins) - 1
           undone  == Splice(new, first, end, removed)
<1>1. Len(order) \in Nat /\ Len(ins) \in Nat
  BY LenProperties
<1>2. /\ new \in Seq(S)
      /\ Len(new) = Len(order) - (last - first + 1) + Len(ins)
      /\ \A i \in 1..(first - 1) : new[i] = order[i]
      /\ \A i \in 1..(Len(order) - last) :
           new[first - 1 + Len(ins) + i] = order[last + i]
  <2>1. IsSplice(new, S, order, first, last, ins)
    BY SpliceProperties
  <2> HIDE DEF new
  <2> QED
    BY <2>1 DEF IsSplice
<1>3. /\ removed \in Seq(S)
      /\ Len(removed) = last - first + 1
      /\ \A i \in 1..(last - first + 1) : removed[i] = order[first + i - 1]
  <2>1. /\ removed \in Seq(S)
        /\ Len(removed) = IF first <= last THEN last - first + 1 ELSE 0
        /\ \A i \in 1..(last - first + 1) : removed[i] = order[first + i - 1]
    BY <1>1, PieceOfOrder
  <2> QED
    BY <1>1, <2>1
<1>4. first \in 1..(Len(new) + 1) /\ end \in 0..Len(new) /\ first <= end + 1
  BY <1>1, <1>2
<1> HIDE DEF new, removed, end
<1>5. /\ undone \in Seq(S)
      /\ Len(undone) = Len(new) - (end - first + 1) + Len(removed)
      /\ \A i \in 1..(first - 1) : undone[i] = new[i]
      /\ \A i \in 1..Len(removed) : undone[first - 1 + i] = removed[i]
      /\ \A i \in 1..(Len(new) - end) :
           undone[first - 1 + Len(removed) + i] = new[end + i]
  <2>1. IsSplice(undone, S, new, first, end, removed)
    BY <1>2, <1>3, <1>4, SpliceProperties
  <2> HIDE DEF undone
  <2> QED
    BY <2>1 DEF IsSplice
<1> HIDE DEF undone
<1>6. end = first + Len(ins) - 1
  BY DEF end
<1>7. Len(undone) = Len(order)
  <2>1. Len(undone) = Len(new) - (end - first + 1) + Len(removed)
    BY <1>5
  <2>2. Len(new) = Len(order) - (last - first + 1) + Len(ins)
    BY <1>2
  <2>3. Len(removed) = last - first + 1
    BY <1>3
  <2> QED
    BY <1>1, <1>6, <2>1, <2>2, <2>3
<1>8. ASSUME NEW i \in 1..Len(order)
      PROVE  undone[i] = order[i]
  <2>1. CASE i < first
    BY <1>1, <1>2, <1>5, <2>1
  <2>2. CASE first <= i /\ i <= last
    <3>1. PICK k \in 1..(last - first + 1) : i = first - 1 + k
      <4>1. i - first + 1 \in 1..(last - first + 1)
        BY <1>1, <2>2
      <4> QED
        BY <1>1, <4>1
    <3>2. undone[i] = removed[k]
      BY <1>3, <1>5, <3>1
    <3>3. removed[k] = order[first + k - 1]
      BY <1>3
    <3>4. first + k - 1 = i
      BY <3>1
    <3> QED
      BY <3>2, <3>3, <3>4
  <2>3. CASE last < i
    <3>1. PICK k \in 1..(Len(order) - last) : i = last + k
      <4>1. i - last \in 1..(Len(order) - last)
        BY <1>1, <2>3
      <4> QED
        BY <1>1, <4>1
    <3>2. k \in 1..(Len(new) - end) /\ i = first - 1 + Len(removed) + k
      BY <1>1, <1>2, <1>3, <1>6, <3>1
    <3>3. undone[i] = new[end + k]
      BY <1>5, <3>2
    <3>4. end + k = first - 1 + Len(ins) + k
      BY <1>1, <1>6, <3>1
    <3>5. new[first - 1 + Len(ins) + k] = order[last + k]
      BY <1>2
    <3> QED
      BY <3>1, <3>3, <3>4, <3>5
  <2> QED
    BY <1>1, <2>1, <2>2, <2>3
<1> QED
  <2>1. undone = order
    BY <1>5, <1>7, <1>8, SeqEqual
  <2> QED
    BY <2>1 DEF undone, new, removed, end

\* An element of an order has one place in it.
LEMMA OnePlace ==
  ASSUME NEW S, NEW order \in Seq(S), Unique(order),
         NEW i \in 1..Len(order), NEW j \in 1..Len(order), order[i] = order[j]
  PROVE  i = j
<1>1. IndexOf(order, order[i]) = i /\ IndexOf(order, order[j]) = j
  BY IndexOfElement
<1> QED
  BY <1>1

\* Where the elements of a splice come from.
FromSplice(new, order, first, last, ins, k) ==
  \/ k < first /\ k \in 1..Len(order) /\ new[k] = order[k]
  \/ k >= first /\ k - first + 1 \in 1..Len(ins) /\ new[k] = ins[k - first + 1]
  \/ /\ k >= first + Len(ins)
     /\ k - Len(ins) + (last - first + 1) \in (last + 1)..Len(order)
     /\ new[k] = order[k - Len(ins) + (last - first + 1)]

LEMMA SplicePlaces ==
  ASSUME NEW S, NEW order \in Seq(S), NEW ins \in Seq(S),
         NEW first \in 1..(Len(order) + 1), NEW last \in 0..Len(order),
         first <= last + 1,
         NEW new, IsSplice(new, S, order, first, last, ins),
         NEW k \in 1..Len(new)
  PROVE  FromSplice(new, order, first, last, ins, k)
<1>1. Len(order) \in Nat /\ Len(ins) \in Nat
  BY LenProperties
<1>2. Len(new) = Len(order) - (last - first + 1) + Len(ins)
  BY DEF IsSplice
<1>3. CASE k < first
  BY <1>1, <1>3 DEF IsSplice, FromSplice
<1>4. CASE k >= first /\ k < first + Len(ins)
  <2>1. k - first + 1 \in 1..Len(ins)
    BY <1>1, <1>4
  <2>2. new[first - 1 + (k - first + 1)] = ins[k - first + 1]
    BY <2>1 DEF IsSplice
  <2>3. first - 1 + (k - first + 1) = k
    OBVIOUS
  <2> QED
    BY <1>4, <2>1, <2>2, <2>3 DEF FromSplice
<1>5. CASE k >= first + Len(ins)
  <2> DEFINE i == k - first + 1 - Len(ins)
  <2>1. i \in 1..(Len(order) - last)
    BY <1>1, <1>2, <1>5
  <2>2. new[first - 1 + Len(ins) + i] = order[last + i]
    BY <2>1 DEF IsSplice
  <2>3. first - 1 + Len(ins) + i = k /\ last + i = k - Len(ins) + (last - first + 1)
    BY <1>1
  <2>4. last + i \in (last + 1)..Len(order)
    BY <1>1, <2>1
  <2> QED
    BY <1>5, <2>2, <2>3, <2>4 DEF FromSplice
<1> QED
  BY <1>1, <1>3, <1>4, <1>5

\* What is left of an order without duplicates has none.
LEMMA CutIsUnique ==
  ASSUME NEW S, NEW order \in Seq(S), Unique(order),
         NEW first \in 1..(Len(order) + 1), NEW last \in 0..Len(order),
         first <= last + 1,
         NEW new, IsSplice(new, S, order, first, last, <<>>)
  PROVE  Unique(new)
<1> DEFINE none    == <<>>
           from(k) == IF k < first THEN k ELSE k + (last - first + 1)
<1>1. none \in Seq(S) /\ Len(none) = 0 /\ Len(order) \in Nat
  BY EmptySeq, LenProperties
<1>2. ASSUME NEW k \in 1..Len(new)
      PROVE  from(k) \in 1..Len(order) /\ new[k] = order[from(k)]
  <2>1. IsSplice(new, S, order, first, last, none)
    OBVIOUS
  <2> HIDE DEF none
  <2>2. FromSplice(new, order, first, last, none, k)
    BY <1>1, <2>1, SplicePlaces
  <2>3. k - Len(none) + (last - first + 1) = k + (last - first + 1)
    BY <1>1
  <2> QED
    BY <1>1, <2>2, <2>3 DEF FromSplice
<1>3. new \in Seq(S)
  BY DEF IsSplice
<1>4. ASSUME NEW i \in 1..Len(new), NEW j \in 1..Len(new), new[i] = new[j]
      PROVE  i = j
  <2>1. from(i) \in 1..Len(order) /\ from(j) \in 1..Len(order) /\ order[from(i)] = order[from(j)]
    BY <1>2, <1>4
  <2>2. from(i) = from(j)
    <3> HIDE DEF from
    <3> QED BY <2>1, OnePlace
  <2> QED
    BY <1>1, <2>2
<1> QED
  BY <1>3, <1>4, LenProperties DEF Unique, IsInjective

\* A deletion is a splice of nothing, and leaves no duplicates.
LEMMA DeleteSplices ==
  ASSUME NEW S, NEW order \in Seq(S), Unique(order), NEW from, NEW to,
         BoundsFound(order, from, to), DeleteSpecValid(order, from, to)
  PROVE  /\ IsSplice(DeleteResult(order, from, to), S, order,
                     DeleteFirst(order, from), DeleteLast(order, to), <<>>)
         /\ Unique(DeleteResult(order, from, to))
<1> DEFINE first == DeleteFirst(order, from)
           last  == DeleteLast(order, to)
           none  == <<>>
<1>1. /\ first \in 1..(Len(order) + 1) /\ last \in 0..Len(order) /\ first <= last + 1
      /\ none \in Seq(S)
  BY DeleteBounds, EmptySeq, LenProperties
<1>2. DeleteResult(order, from, to) = Splice(order, first, last, none)
  BY DEF DeleteResult
<1> HIDE DEF first, last, none
<1>3. IsSplice(Splice(order, first, last, none), S, order, first, last, none)
  BY <1>1, SpliceProperties
<1>4. Unique(Splice(order, first, last, none))
  BY <1>1, <1>3, CutIsUnique DEF none
<1> QED
  BY <1>2, <1>3, <1>4 DEF first, last, none

-----------------------------------------------------------------------------
(***************************************************************************)
(* A request that is sent twice.                                           *)
(***************************************************************************)

\* A message cut out of an order is found in the new one only among the messages
\* that were inserted.
LEMMA FoundAmongInserted ==
  ASSUME NEW S, NEW order \in Seq(S), Unique(order), NEW ins \in Seq(S),
         NEW first \in 1..(Len(order) + 1), NEW last \in 0..Len(order),
         first <= last + 1,
         NEW new, IsSplice(new, S, order, first, last, ins),
         NEW i \in first..last, NEW k \in 1..Len(new), new[k] = order[i]
  PROVE  k >= first /\ k - first + 1 \in 1..Len(ins)
<1>1. i \in 1..Len(order) /\ Len(order) \in Nat /\ Len(ins) \in Nat
  BY LenProperties
<1>2. \A j \in 1..Len(order) : order[j] = order[i] => j = i
  BY <1>1, OnePlace
<1>3. FromSplice(new, order, first, last, ins, k)
  BY SplicePlaces
<1>4. \A j \in (last + 1)..Len(order) : j \in 1..Len(order) /\ j # i
  BY <1>1
<1> QED
  BY <1>1, <1>2, <1>3, <1>4 DEF FromSplice

\* Replacing the inserted messages by themselves changes nothing.
LEMMA SpliceAgain ==
  ASSUME NEW S, NEW order \in Seq(S), NEW ins \in Seq(S),
         NEW first \in 1..(Len(order) + 1), NEW last \in 0..Len(order),
         first <= last + 1,
         NEW new, IsSplice(new, S, order, first, last, ins),
         NEW again, IsSplice(again, S, new, first, first + Len(ins) - 1, ins)
  PROVE  again = new
<1> DEFINE n == Len(ins)
<1>1. n \in Nat /\ Len(order) \in Nat
  BY LenProperties
<1>2. Len(new) = Len(order) - (last - first + 1) + n /\ Len(again) = Len(new)
  <2>1. Len(again) = Len(new) - ((first + n - 1) - first + 1) + n
    BY DEF IsSplice
  <2>2. Len(new) = Len(order) - (last - first + 1) + n
    BY DEF IsSplice
  <2> QED
    BY <1>1, <2>1, <2>2
<1>3. again \in Seq(S) /\ new \in Seq(S)
  BY DEF IsSplice
<1>4. first \in 1..(Len(new) + 1) /\ first + n - 1 \in 0..Len(new) /\ first <= first + n - 1 + 1
  BY <1>1, <1>2
<1> HIDE DEF n
<1>5. ASSUME NEW k \in 1..Len(again)
      PROVE  again[k] = new[k]
  <2>1. CASE k >= first /\ k - first + 1 \in 1..n
    <3>1. new[first - 1 + (k - first + 1)] = ins[k - first + 1]
      BY <2>1 DEF IsSplice, n
    <3>2. again[first - 1 + (k - first + 1)] = ins[k - first + 1]
      BY <2>1 DEF IsSplice, n
    <3>3. first - 1 + (k - first + 1) = k
      OBVIOUS
    <3> QED
      BY <3>1, <3>2, <3>3
  <2>2. CASE ~(k >= first /\ k - first + 1 \in 1..n)
    <3>1. \/ k < first /\ again[k] = new[k]
          \/ again[k] = new[k - n + ((first + n - 1) - first + 1)]
      <4>1. IsSplice(again, S, new, first, first + n - 1, ins)
        BY DEF n
      <4> QED
        <5>1. FromSplice(again, new, first, first + n - 1, ins, k)
          BY <1>3, <1>4, <4>1, SplicePlaces
        <5> QED
          BY <2>2, <5>1 DEF FromSplice, n
    <3>2. k - n + ((first + n - 1) - first + 1) = k
      BY <1>1
    <3> QED
      BY <3>1, <3>2
  <2> QED
    BY <2>1, <2>2
<1> QED
  BY <1>2, <1>3, <1>5, SeqEqual

\* A replacement that is repeated and accepted once more changes nothing: with one
\* bound the same messages would be listed twice, and with two bounds the range
\* must be the messages that were inserted.
LEMMA ReplaceTwice ==
  ASSUME NEW S, NEW order \in Seq(S), Unique(order), NEW from, NEW to,
         NEW ins \in Seq(S), from # NoId \/ to # NoId,
         BoundsFound(order, from, to), ReplaceSpecValid(order, from, to, ins),
         NEW new, new = ReplaceResult(order, from, to, ins), Unique(new),
         BoundsFound(new, from, to), ReplaceSpecValid(new, from, to, ins),
         Unique(ReplaceResult(new, from, to, ins))
  PROVE  ReplaceResult(new, from, to, ins) = new
<1> DEFINE first == ReplaceFirst(order, from, to)
           last  == ReplaceLast(order, from, to)
           low   == ReplaceFirst(new, from, to)
           high  == ReplaceLast(new, from, to)
           again == Splice(new, low, high, ins)
           n     == Len(ins)
<1>1. /\ first \in 1..(Len(order) + 1) /\ last \in 0..Len(order) /\ first <= last + 1
      /\ Len(order) \in Nat /\ n \in Nat
  BY ReplaceBounds, LenProperties
<1>2. IsSplice(new, S, order, first, last, ins)
  BY <1>1, SpliceProperties DEF ReplaceResult
<1>3. new \in Seq(S) /\ Len(new) = Len(order) - (last - first + 1) + n /\ Len(new) \in Nat
  BY <1>2, LenProperties DEF IsSplice
<1>4. /\ low \in 1..(Len(new) + 1) /\ high \in 0..Len(new) /\ low <= high + 1
  BY <1>3, ReplaceBounds
<1>5. IsSplice(again, S, new, low, high, ins)
  BY <1>3, <1>4, SpliceProperties
<1>6. again = ReplaceResult(new, from, to, ins) /\ again \in Seq(S)
  BY <1>5 DEF ReplaceResult, IsSplice
<1>7. Len(again) = Len(new) - (high - low + 1) + n /\ Len(again) \in Nat
  BY <1>5, <1>6, LenProperties DEF IsSplice
<1>8. \A i, j \in 1..Len(again) : again[i] = again[j] => i = j
  <2> HIDE DEF again
  <2> QED BY <1>6, OnePlace
<1>9. /\ \A i \in 1..(low - 1) : again[i] = new[i]
      /\ \A i \in 1..n : again[low - 1 + i] = ins[i]
      /\ \A i \in 1..(Len(new) - high) : again[low - 1 + n + i] = new[high + i]
  BY <1>5 DEF IsSplice
<1>10. /\ \A i \in 1..(first - 1) : new[i] = order[i]
       /\ \A i \in 1..n : new[first - 1 + i] = ins[i]
       /\ \A i \in 1..(Len(order) - last) : new[first - 1 + n + i] = order[last + i]
  BY <1>2 DEF IsSplice
<1> HIDE DEF again
<1>11. CASE from # NoId /\ to # NoId
  <2>1. /\ first \in 1..Len(order) /\ order[first] = from
        /\ last \in 1..Len(order) /\ order[last] = to /\ first <= last
    BY <1>11, IndexOfBound DEF BoundsFound, ReplaceFirst, ReplaceLast, ReplaceSpecValid
  <2>2. /\ low \in 1..Len(new) /\ new[low] = from
        /\ high \in 1..Len(new) /\ new[high] = to /\ low <= high
    BY <1>3, <1>11, IndexOfBound DEF BoundsFound, ReplaceFirst, ReplaceLast, ReplaceSpecValid
  <2> HIDE DEF first, last, low, high, n
  <2>3. low >= first /\ low - first + 1 \in 1..n
    <3>1. first \in first..last
      BY <2>1
    <3> QED
      BY <1>1, <1>2, <2>1, <2>2, <3>1, FoundAmongInserted DEF n
  <2>4. high >= first /\ high - first + 1 \in 1..n
    <3>1. last \in first..last
      BY <2>1
    <3> QED
      BY <1>1, <1>2, <2>1, <2>2, <3>1, FoundAmongInserted DEF n
  <2>5. low = first
    <3> SUFFICES ASSUME low # first PROVE FALSE
      OBVIOUS
    <3>1. first \in 1..(low - 1) /\ 1 \in 1..n
      BY <1>1, <1>4, <2>3
    <3>2. new[first - 1 + 1] = ins[1] /\ again[low - 1 + 1] = ins[1] /\ again[first] = new[first]
      BY <1>9, <1>10, <3>1
    <3>3. first - 1 + 1 = first /\ low - 1 + 1 = low
      BY <1>1, <2>2
    <3>4. first \in 1..Len(again) /\ low \in 1..Len(again)
      BY <1>1, <1>3, <1>7, <2>2, <2>3, <2>4
    <3> QED
      BY <1>8, <3>2, <3>3, <3>4
  <2>6. high = first + n - 1
    <3> SUFFICES ASSUME high # first + n - 1 PROVE FALSE
      OBVIOUS
    <3> DEFINE i == first + n - 1 - high
    <3>1. i \in 1..(Len(new) - high) /\ n \in 1..n
      BY <1>1, <1>3, <2>2, <2>3, <2>4
    <3>2. again[low - 1 + n + i] = new[high + i] /\ again[low - 1 + n] = ins[n]
      BY <1>9, <3>1
    <3>3. new[first - 1 + n] = ins[n] /\ high + i = first - 1 + n
      BY <1>1, <1>10, <2>2, <3>1
    <3>4. low - 1 + n + i \in 1..Len(again) /\ low - 1 + n \in 1..Len(again)
      BY <1>1, <1>3, <1>7, <2>2, <2>5, <3>1
    <3>5. low - 1 + n + i # low - 1 + n
      BY <1>1, <2>2, <3>1
    <3> QED
      BY <1>8, <3>2, <3>3, <3>4, <3>5
  <2>7. IsSplice(again, S, new, first, first + n - 1, ins)
    BY <1>5, <2>5, <2>6 DEF again
  <2> QED
    BY <1>1, <1>2, <1>6, <2>7, SpliceAgain DEF n
<1>12. CASE ~(from # NoId /\ to # NoId)
  <2>1. /\ n \in Nat \ {0} /\ last = first - 1 /\ high = low - 1
    <3>1. ins # <<>>
      BY <1>12 DEF ReplaceSpecValid
    <3>2. Len(ins) # 0
      BY <3>1, EmptySeq
    <3>3. last = first - 1 /\ high = low - 1
      <4>1. CASE from = NoId
        BY <1>12, <4>1 DEF ReplaceFirst, ReplaceLast
      <4>2. CASE from # NoId
        <5>1. to = NoId
          BY <1>12, <4>2
        <5>2. IndexOf(order, from) \in Int /\ IndexOf(new, from) \in Int
          BY <1>3, <4>2, IndexOfBound DEF BoundsFound
        <5> QED
          BY <4>2, <5>1, <5>2 DEF ReplaceFirst, ReplaceLast
      <4> QED
        BY <4>1, <4>2
    <3> QED
      BY <1>1, <3>2, <3>3
  <2>2. low = first \/ low = first + n
    <3>1. CASE from = NoId
      <4>1. first = IndexOf(order, to) /\ low = IndexOf(new, to) /\ to # NoId
        BY <3>1 DEF ReplaceFirst
      <4>2. first \in 1..Len(order) /\ order[first] = to
        BY <4>1, IndexOfBound DEF BoundsFound
      <4> HIDE DEF first, last, low, high, n
      <4>3. 1 \in 1..(Len(order) - last) /\ last + 1 = first /\ first - 1 + n + 1 = first + n
        BY <1>1, <2>1, <4>2
      <4>4. new[first + n] = to
        BY <1>10, <4>2, <4>3
      <4>5. first + n \in 1..Len(new)
        BY <1>1, <1>3, <2>1, <4>2
      <4> QED
        BY <1>3, <4>1, <4>4, <4>5, IndexOfElement
    <3>2. CASE from # NoId
      <4>1. /\ first = IndexOf(order, from) + 1 /\ low = IndexOf(new, from) + 1
        BY <1>12, <3>2 DEF ReplaceFirst
      <4>2. IndexOf(order, from) \in 1..Len(order) /\ order[IndexOf(order, from)] = from
        BY <3>2, IndexOfBound DEF BoundsFound
      <4>3. first - 1 \in 1..(first - 1) /\ first - 1 = IndexOf(order, from)
        BY <4>1, <4>2
      <4> HIDE DEF first, last, low, high, n
      <4>4. new[first - 1] = from /\ first - 1 \in 1..Len(new)
        BY <1>1, <1>3, <1>10, <2>1, <4>2, <4>3
      <4>5. IndexOf(new, from) = first - 1
        BY <1>3, <4>4, IndexOfElement
      <4> QED
        BY <1>1, <4>1, <4>5
    <3> QED
      BY <3>1, <3>2
  <2> HIDE DEF first, last, low, high, n
  <2>3. again[first] = ins[1] /\ again[first + n] = ins[1]
    <3>1. 1 \in 1..n /\ first - 1 + 1 = first
      BY <1>1, <2>1
    <3>2. new[first] = ins[1]
      BY <1>10, <3>1
    <3>3. CASE low = first
      <4>1. 1 \in 1..(Len(new) - high) /\ high + 1 = first /\ first - 1 + n + 1 = first + n
        BY <1>1, <1>3, <2>1, <3>3
      <4>2. again[first - 1 + 1] = ins[1] /\ again[first - 1 + n + 1] = new[high + 1]
        BY <1>9, <3>1, <3>3, <4>1
      <4> QED
        BY <3>1, <3>2, <4>1, <4>2
    <3>4. CASE low = first + n
      <4>1. first \in 1..(low - 1) /\ low - 1 + 1 = first + n
        BY <1>1, <2>1, <3>4
      <4>2. again[first] = new[first] /\ again[low - 1 + 1] = ins[1]
        BY <1>9, <3>1, <4>1
      <4> QED
        BY <3>2, <4>1, <4>2
    <3> QED
      BY <2>2, <3>3, <3>4
  <2>4. first \in 1..Len(again) /\ first + n \in 1..Len(again) /\ first + n # first
    BY <1>1, <1>3, <1>4, <1>7, <2>1
  <2> QED
    BY <1>8, <2>3, <2>4
<1> QED
  BY <1>11, <1>12

\* A deletion that is repeated finds a bound gone.
LEMMA DeleteTwice ==
  ASSUME NEW S, NEW order \in Seq(S), Unique(order), NEW from, NEW to,
         from # NoId \/ to # NoId,
         BoundsFound(order, from, to), DeleteSpecValid(order, from, to)
  PROVE  ~BoundsFound(DeleteResult(order, from, to), from, to)
<1> DEFINE first == DeleteFirst(order, from)
           last  == DeleteLast(order, to)
           new   == DeleteResult(order, from, to)
           none  == <<>>
<1>1. /\ first \in 1..Len(order) /\ last \in 1..Len(order) /\ first <= last
      /\ Len(order) \in Nat /\ none \in Seq(S) /\ Len(none) = 0
  BY DeleteBounds, LenProperties, EmptySeq
<1>3. PICK i \in first..last, id \in {from, to} : order[i] = id /\ id # NoId
  <2>1. CASE from # NoId
    <3>1. order[first] = from
      BY <2>1, IndexOfBound DEF BoundsFound, DeleteFirst
    <3> QED
      BY <1>1, <2>1, <3>1
  <2>2. CASE to # NoId
    <3>1. order[last] = to
      BY <2>2, IndexOfBound DEF BoundsFound, DeleteLast
    <3> QED
      BY <1>1, <2>2, <3>1
  <2> QED
    BY <2>1, <2>2
<1> HIDE DEF first, last, new, none
<1>4. IsSplice(new, S, order, first, last, none)
  BY DeleteSplices DEF new, first, last, none
<1>5. ASSUME InOrder(new, id) PROVE FALSE
  <2>1. new \in Seq(S)
    BY <1>4 DEF IsSplice
  <2>2. PICK k \in 1..Len(new) : new[k] = order[i]
    BY <1>3, <1>5, <2>1, LenProperties DEF InOrder, Range
  <2>3. first \in 1..(Len(order) + 1) /\ last \in 0..Len(order) /\ first <= last + 1
    BY <1>1
  <2>4. k - first + 1 \in 1..Len(none)
    BY <1>1, <1>4, <2>2, <2>3, FoundAmongInserted
  <2> QED
    BY <1>1, <2>4
<1> QED
  BY <1>3, <1>5 DEF BoundsFound, new

\* For every order, every range or gap and every list of messages: replacing the
\* inserted messages by the ids reported as replaced restores the order.
THEOREM ReplaceIsUndone ==
  ASSUME NEW S, NoId \notin S,
         NEW order \in Seq(S), NEW from, NEW to, NEW ins \in Seq(S),
         from # NoId \/ to # NoId, ins # <<>>,
         BoundsFound(order, from, to), ReplaceSpecValid(order, from, to, ins),
         Unique(ReplaceResult(order, from, to, ins))
  PROVE  ReplaceResult(ReplaceResult(order, from, to, ins), ins[1], ins[Len(ins)],
                       ReplacedIds(order, from, to)) = order
<1> DEFINE first == ReplaceFirst(order, from, to)
           last  == ReplaceLast(order, from, to)
           new   == Splice(order, first, last, ins)
           n     == Len(ins)
<1>1. first \in 1..(Len(order) + 1) /\ last \in 0..Len(order) /\ first <= last + 1
  BY ReplaceBounds
<1>2. n \in Nat \ {0} /\ Len(order) \in Nat
  BY EmptySeq, LenProperties
<1>3. Unique(new)
  BY DEF ReplaceResult
<1> HIDE DEF first, last
<1>4. /\ new \in Seq(S)
      /\ Len(new) = Len(order) - (last - first + 1) + n
      /\ \A i \in 1..n : new[first - 1 + i] = ins[i]
  <2>1. IsSplice(new, S, order, first, last, ins)
    BY <1>1, SpliceProperties
  <2> HIDE DEF new
  <2> QED
    BY <2>1 DEF IsSplice
<1> HIDE DEF new, n
<1>5. IndexOf(new, ins[1]) = first /\ IndexOf(new, ins[n]) = first + n - 1
  <2>1. first \in 1..Len(new) /\ first + n - 1 \in 1..Len(new)
    BY <1>1, <1>2, <1>4
  <2>2. new[first] = ins[1]
    <3>1. new[first - 1 + 1] = ins[1]
      BY <1>2, <1>4
    <3>2. first - 1 + 1 = first
      BY <1>1
    <3> QED
      BY <3>1, <3>2
  <2>3. new[first + n - 1] = ins[n]
    <3>1. new[first - 1 + n] = ins[n]
      BY <1>2, <1>4
    <3>2. first - 1 + n = first + n - 1
      BY <1>1, <1>2
    <3> QED
      BY <3>1, <3>2
  <2> QED
    BY <1>3, <1>4, <2>1, <2>2, <2>3, IndexOfElement
<1>6. ins[1] # NoId /\ ins[n] # NoId
  <2>1. 1 \in 1..Len(ins) /\ n \in 1..Len(ins)
    BY <1>2 DEF n
  <2> QED
    BY <2>1, ElementOfSeq
<1>7. ReplaceResult(new, ins[1], ins[n], SubSeq(order, first, last))
        = Splice(new, first, first + n - 1, SubSeq(order, first, last))
  BY <1>5, <1>6 DEF ReplaceResult, ReplaceFirst, ReplaceLast
<1>8. Splice(new, first, first + n - 1, SubSeq(order, first, last)) = order
  BY <1>1, SpliceIsUndone DEF new, n
<1> QED
  BY <1>7, <1>8 DEF new, n, first, last, ReplaceResult, ReplacedIds

=============================================================================
