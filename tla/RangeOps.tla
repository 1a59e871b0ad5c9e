------------------------------ MODULE RangeOps ------------------------------
(***************************************************************************)
(* The pure part of the range operations: what                             *)
(* ReplaceConversationMessagesRange and DeleteConversationMessagesRange    *)
(* compute in memory from the order of a conversation they have read       *)
(* (internal/state/range_ops.go), before they write anything back.         *)
(*                                                                         *)
(* An order is a sequence of message ids.  A request names the first and   *)
(* the last message of a range; either may be absent (NoId, the nil        *)
(* pointer of the Go code).  Go's 0-based slice bounds become the 1-based  *)
(* positions of the first and the last replaced element.                   *)
(***************************************************************************)
EXTENDS Integers, Sequences, Functions

CONSTANT NoId      \* the absent bound of a range (a nil *uuid.UUID)

\* indexMap: the index of a message in the order that was read.
InOrder(order, id) == id \in Range(order)
IndexOf(order, id) == CHOOSE i \in DOMAIN order : order[i] = id

\* A bound that is given must occur in the order.
BoundsFound(order, from, to) ==
  \A id \in {from, to} : id # NoId => InOrder(order, id)

-----------------------------------------------------------------------------
(***************************************************************************)
(* The replaced range is order[ReplaceFirst .. ReplaceLast].  With only    *)
(* one bound nothing is replaced: the range is the empty gap right after   *)
(* `from', or right before `to', and the new messages go into that gap.    *)
(***************************************************************************)
ReplaceFirst(order, from, to) ==
  IF from = NoId THEN IndexOf(order, to)
  ELSE IF to = NoId THEN IndexOf(order, from) + 1
  ELSE IndexOf(order, from)

\* Mutant: the range ends before `to', as if the upper bound were exclusive.
ReplaceLastExclusive(order, from, to) ==
  IF to = NoId THEN IndexOf(order, from) ELSE IndexOf(order, to) - 1

ReplaceLast(order, from, to) ==
  IF to = NoId THEN IndexOf(order, from)
  ELSE IF from = NoId THEN IndexOf(order, to) - 1
  ELSE IndexOf(order, to)

\* ErrInvalidRangeSpec: bounds out of order, or one bound and nothing to insert.
ReplaceSpecValid(order, from, to, ins) ==
  IF from # NoId /\ to # NoId
  THEN IndexOf(order, from) <= IndexOf(order, to)
  ELSE ins # <<>>

\* The slice `working' after the cut and the insertion, and the slice `replaced'.
Splice(order, first, last, ins) ==
  SubSeq(order, 1, first - 1) \o ins \o SubSeq(order, last + 1, Len(order))

ReplaceResult(order, from, to, ins) ==
  Splice(order, ReplaceFirst(order, from, to), ReplaceLast(order, from, to), ins)

\* Mutant: working[fromIdx:toIdx], which leaves the last replaced id out.
ReplacedIdsShort(order, from, to) ==
  SubSeq(order, ReplaceFirst(order, from, to), ReplaceLast(order, from, to) - 1)

ReplacedIds(order, from, to) ==
  SubSeq(order, ReplaceFirst(order, from, to), ReplaceLast(order, from, to))

\* Mutant: the check is missing.
AnyOrder(ids) == TRUE

\* ensureUnique: no message occurs twice in the new order.
Unique(ids) == IsInjective(ids)

-----------------------------------------------------------------------------
\* An absent bound of a deletion extends it to that end of the conversation.
DeleteFirst(order, from) == IF from = NoId THEN 1 ELSE IndexOf(order, from)

\* Mutant: the default of the upper bound is one short.
DeleteLastShort(order, to) == IF to = NoId THEN Len(order) - 1 ELSE IndexOf(order, to)

DeleteLast(order, to) == IF to = NoId THEN Len(order) ELSE IndexOf(order, to)

\* ErrInvalidRangeSpec: nothing to delete from, or bounds out of order.
DeleteSpecValid(order, from, to) ==
  /\ order # <<>>
  /\ DeleteFirst(order, from) <= DeleteLast(order, to)

DeleteResult(order, from, to) ==
  Splice(order, DeleteFirst(order, from), DeleteLast(order, to), <<>>)

DeletedIds(order, from, to) ==
  SubSeq(order, DeleteFirst(order, from), DeleteLast(order, to))

=============================================================================
