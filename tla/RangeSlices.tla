----------------------------- MODULE RangeSlices -----------------------------
(***************************************************************************)
(* How the range operations build the new order in memory: with Go slices  *)
(* that share their backing arrays, edited in place by append              *)
(* (internal/state/range_ops.go).                                          *)
(*                                                                         *)
(* A heap is a sequence of backing arrays.  A slice is a window of one: it *)
(* starts after `off' elements, shows `len' and may grow in place up to    *)
(* `cap'.  append copies its second argument as memmove does, into the     *)
(* array of the first when that has room, and otherwise into a new array   *)
(* with `spare' elements of room more than needed: how many is the         *)
(* runtime's choice.                                                       *)
(***************************************************************************)
EXTENDS RangeOps

Elements(heap, s) == SubSeq(heap[s.array], s.off + 1, s.off + s.len)

\* s[low:high]
Window(s, low, high) ==
  [s EXCEPT !.off = @ + low, !.len = high - low, !.cap = @ - low]

NilSlice == [array |-> 1, off |-> 0, len |-> 0, cap |-> 0]

AppendInPlace(heap, s, ids) ==
  LET end == s.off + s.len
  IN  [heap  |-> [heap EXCEPT ![s.array] =
                    [i \in DOMAIN @ |-> IF i \in (end + 1)..(end + Len(ids))
                                        THEN ids[i - end] ELSE @[i]]],
       slice |-> [s EXCEPT !.len = @ + Len(ids)]]

AppendToCopy(heap, s, ids, spare) ==
  LET copy == Elements(heap, s) \o ids
  IN  [heap  |-> Append(heap, copy \o [i \in 1..spare |-> NoId]),
       slice |-> [array |-> Len(heap) + 1, off |-> 0,
                  len |-> Len(copy), cap |-> Len(copy) + spare]]

AppendTo(heap, s, ids, spare) ==
  IF s.len + Len(ids) <= s.cap THEN AppendInPlace(heap, s, ids)
                               ELSE AppendToCopy(heap, s, ids, spare)

\* order, and working: its copy, made by make and copy.
Copied(order) ==
  [heap  |-> <<order, order>>,
   slice |-> [array |-> 2, off |-> 0, len |-> Len(order), cap |-> Len(order)]]

\* Mutant: replaced = working[from:to+1], without the copy.
TakeReplacedShared(heap, working, from, to, spare) ==
  [heap |-> heap, slice |-> Window(working, from, to + 1)]

\* replaced = append(replaced, working[from:to+1]...)
TakeReplaced(heap, working, from, to, spare) ==
  AppendTo(heap, NilSlice, Elements(heap, Window(working, from, to + 1)), spare)

\* working = append(working[:from], working[to+1:]...)
CutRange(heap, working, from, to, spare) ==
  AppendTo(heap, Window(working, 0, from),
           Elements(heap, Window(working, to + 1, working.len)), spare)

\* working = append(working[:pos], append(idsCopy, working[pos:]...)...)
InsertAt(heap, working, pos, ins, spare) ==
  LET idsCopy == AppendTo(heap, NilSlice, ins, spare)
      tail    == AppendTo(idsCopy.heap, idsCopy.slice,
                          Elements(idsCopy.heap, Window(working, pos, working.len)), spare)
  IN  AppendTo(tail.heap, Window(working, 0, pos),
               Elements(tail.heap, tail.slice), spare)

\* The new order and the replaced ids, as the slices hold them at the end.
ReplaceInPlace(order, from, to, ins, spare) ==
  LET start    == Copied(order)
      both     == from # NoId /\ to # NoId
      pos      == ReplaceFirst(order, from, to) - 1
      last     == ReplaceLast(order, from, to) - 1
      replaced == IF both THEN TakeReplaced(start.heap, start.slice, pos, last, spare)
                          ELSE [start EXCEPT !.slice = NilSlice]
      rest     == IF both THEN CutRange(replaced.heap, start.slice, pos, last, spare)
                          ELSE start
      working  == IF ins # <<>> THEN InsertAt(rest.heap, rest.slice, pos, ins, spare)
                                ELSE rest
  IN  [working  |-> Elements(working.heap, working.slice),
       replaced |-> Elements(working.heap, replaced.slice)]

\* deleted and remaining are appended to slices of their own; order is kept.
DeleteInPlace(order, from, to, spare) ==
  LET start   == Copied(order)
      read    == [start.slice EXCEPT !.array = 1]
      first   == DeleteFirst(order, from) - 1
      last    == DeleteLast(order, to) - 1
      deleted == TakeReplaced(start.heap, read, first, last, spare)
      head    == AppendTo(deleted.heap, NilSlice,
                          Elements(deleted.heap, Window(read, 0, first)), spare)
      both    == AppendTo(head.heap, head.slice,
                          Elements(head.heap, Window(read, last + 1, read.len)), spare)
  IN  [remaining |-> Elements(both.heap, both.slice),
       deleted   |-> Elements(both.heap, deleted.slice)]

=============================================================================
