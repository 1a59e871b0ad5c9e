---------------------------- MODULE RangeOpsWalk ----------------------------
(***************************************************************************)
(* One conversation and one caller: the order of the conversation as range *)
(* operations follow one another.  Every order the operations can produce  *)
(* is a state, and in every state the in-memory computation of RangeOps is *)
(* compared, for every request, with what it should compute, stated        *)
(* without indices.                                                        *)
(***************************************************************************)
EXTENDS RangeSlices

CONSTANTS
  MessageIds,
  InsertLists,     \* the InsertIDs a request may carry, the empty list among them
  Spares           \* the room append may leave in a new array

ASSUME WalkAssumption ==
  /\ NoId \notin MessageIds
  /\ InsertLists \subseteq Seq(MessageIds)
  /\ Spares \subseteq Nat

VARIABLE order

Bounds == {b \in (MessageIds \cup {NoId}) \X (MessageIds \cup {NoId}) :
             b[1] # NoId \/ b[2] # NoId}

\* The last check of the code, that the inserted messages exist, is left out:
\* MessageIds stands for the messages that do.
ReplaceAccepted(ids, from, to, ins) ==
  /\ BoundsFound(ids, from, to)
  /\ ReplaceSpecValid(ids, from, to, ins)
  /\ Unique(ReplaceResult(ids, from, to, ins))

DeleteAccepted(ids, from, to) ==
  BoundsFound(ids, from, to) /\ DeleteSpecValid(ids, from, to)

\* Appended messages: the only way an order begins.
Init == order \in {ids \in InsertLists : Unique(ids)}

Replace == \E b \in Bounds, ins \in InsertLists :
             /\ ReplaceAccepted(order, b[1], b[2], ins)
             /\ order' = ReplaceResult(order, b[1], b[2], ins)

Delete == \E b \in Bounds :
            /\ DeleteAccepted(order, b[1], b[2])
            /\ order' = DeleteResult(order, b[1], b[2])

Next == Replace \/ Delete

Spec == Init /\ [][Next]_order

-----------------------------------------------------------------------------
(***************************************************************************)
(* The reference: which messages stay, told by who precedes whom.          *)
(***************************************************************************)
Precedence(ids) ==
  {<<ids[p[1]], ids[p[2]]>> : p \in {q \in (DOMAIN ids) \X (DOMAIN ids) : q[1] < q[2]}}

Preceding(id) == {m \in Range(order) : <<m, id>> \in Precedence(order)}
Following(id) == {m \in Range(order) : <<id, m>> \in Precedence(order)}

\* The messages on the near side of a replaced range, and those on its far side:
\* `from' alone stays before the gap, `to' alone stays after it.
KeptBefore(from, to) ==
  IF from = NoId THEN Preceding(to)
  ELSE IF to = NoId THEN Preceding(from) \cup {from}
  ELSE Preceding(from)

KeptAfter(from, to) ==
  IF to = NoId THEN Following(from)
  ELSE IF from = NoId THEN Following(to) \cup {to}
  ELSE Following(to)

\* `ids' lists `before' and `after' as they were listed, and `ins' between them.
InTurn(ids, before, ins, after) ==
  /\ Range(ids) = before \cup Range(ins) \cup after
  /\ Precedence(ids) =
       (before \X (Range(ins) \cup after)) \cup (Range(ins) \X after)
         \cup Precedence(ins)
         \cup (Precedence(order) \cap ((before \X before) \cup (after \X after)))

\* A replacement keeps what lies outside its bounds, in place, and puts the new
\* messages where the range was, after `from' or before `to' when only one bound
\* is given: the index arithmetic of ReplaceConversationMessagesRange.
ReplaceMatchesReference ==
  \A b \in Bounds, ins \in InsertLists : ReplaceAccepted(order, b[1], b[2], ins) =>
    InTurn(ReplaceResult(order, b[1], b[2], ins),
           KeptBefore(b[1], b[2]), ins, KeptAfter(b[1], b[2]))

\* A deletion keeps exactly what lies outside its bounds, in place, an absent
\* bound reaching to that end, and reports exactly the rest: the index arithmetic
\* of DeleteConversationMessagesRange.
DeleteMatchesReference ==
  \A b \in Bounds : DeleteAccepted(order, b[1], b[2]) =>
    LET before == IF b[1] = NoId THEN {} ELSE Preceding(b[1])
        after  == IF b[2] = NoId THEN {} ELSE Following(b[2])
    IN  /\ InTurn(DeleteResult(order, b[1], b[2]), before, <<>>, after)
        /\ Range(DeletedIds(order, b[1], b[2])) = Range(order) \ (before \cup after)

\* A caller that inserted something can undo a replacement with what the answer
\* reports: replacing the messages it inserted by the replaced ids restores the
\* order.  A replacement that only cuts leaves no messages that could be named as
\* the bounds; to undo it the caller must know a neighbour of the cut.
ReplaceIsReversible ==
  \A b \in Bounds, ins \in InsertLists :
    ins # <<>> /\ ReplaceAccepted(order, b[1], b[2], ins) =>
      ReplaceResult(ReplaceResult(order, b[1], b[2], ins), ins[1], ins[Len(ins)],
                    ReplacedIds(order, b[1], b[2])) = order

\* A client that lost the answer of a range operation may send it again: if
\* nothing came between, the repetition is refused or leaves the order as it is
\* (the version, the positions and updated_at still move when it is not refused).  Neither
\* operation compares versions; what refuses it is that a bound is gone, or
\* that a message would be listed twice.
RetryIsHarmless ==
  \A b \in Bounds :
    /\ \A ins \in InsertLists : ReplaceAccepted(order, b[1], b[2], ins) =>
         LET result == ReplaceResult(order, b[1], b[2], ins) IN
           ReplaceAccepted(result, b[1], b[2], ins) =>
             ReplaceResult(result, b[1], b[2], ins) = result
    /\ DeleteAccepted(order, b[1], b[2]) =>
         ~DeleteAccepted(DeleteResult(order, b[1], b[2]), b[1], b[2])

\* The edits of shared backing arrays come out as the plain splice, whatever
\* room append leaves: no element is overwritten before it is copied, and the
\* ids reported as replaced or deleted are not disturbed by the later edits.
InPlaceEditsAreSplices ==
  \A b \in Bounds, spare \in Spares :
    /\ \A ins \in InsertLists : ReplaceAccepted(order, b[1], b[2], ins) =>
         ReplaceInPlace(order, b[1], b[2], ins, spare) =
           [working  |-> ReplaceResult(order, b[1], b[2], ins),
            replaced |-> ReplacedIds(order, b[1], b[2])]
    /\ DeleteAccepted(order, b[1], b[2]) =>
         DeleteInPlace(order, b[1], b[2], spare) =
           [remaining |-> DeleteResult(order, b[1], b[2]),
            deleted   |-> DeletedIds(order, b[1], b[2])]

=============================================================================
