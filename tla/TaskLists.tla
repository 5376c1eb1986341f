------------------------------- MODULE TaskLists -------------------------------
(***************************************************************************)
(* The intrusive lists of task_types.h.  A List is the sequence of the     *)
(* tasks whose ListItem it links, with `index' naming the task its         *)
(* round-robin cursor is at; num_items is the length, head and list_end    *)
(* are the two ends.  A ListItem knows the list it is in (`container'), so *)
(* "t is in list l" is membership of t in the sequence.  As long as no     *)
(* task is linked twice - which is what the scheduler's invariants say -   *)
(* the sequence is exactly what the pointers spell.                        *)
(***************************************************************************)
EXTENDS Integers, SequencesExt

CONSTANT Null    \* the NULL pointer

EmptyList == [items |-> <<>>, index |-> Null]

\* Position of t among the links of s
PosOf(s, t) == CHOOSE k \in DOMAIN s : s[k] = t

\* s with t's item unlinked: the neighbours are stitched together
Unlinked(s, t) == RemoveAt(s, PosOf(s, t))

\* The item after t, or the head when t is the last one
NextOrHead(s, t) ==
  LET k == PosOf(s, t) IN IF k < Len(s) THEN s[k + 1] ELSE s[1]

\* Link t at the tail; the first item becomes the cursor too
ListAppend(l, t) ==
  [items |-> Append(l.items, t),
   index |-> IF l.items = <<>> THEN t ELSE l.index]

\* BUG: the cursor stays on the unlinked item.
ListUnlink_StaleIndex(l, t) ==
  [items |-> Unlinked(l.items, t), index |-> l.index]

\* Unlink t; a cursor on t moves to the next item, or to the (new) head
ListUnlink(l, t) ==
  LET rest == Unlinked(l.items, t)
  IN  [items |-> rest,
       index |-> IF l.index # t THEN l.index
                 ELSE IF rest = <<>> THEN Null
                 ELSE NextOrHead(l.items, t)]

\* The cursor moves on to the next item, or wraps to the head
ListAdvance(l) ==
  [l EXCEPT !.index = IF @ = Null THEN Null ELSE NextOrHead(l.items, @)]
===============================================================================
