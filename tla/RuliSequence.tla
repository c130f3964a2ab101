----------------------------- MODULE RuliSequence -----------------------------
(***************************************************************************)
(* What ruli_list.h promises of a list: a sequence of items that grows by   *)
(* one, loses one, or has one replaced.  Only Drop gives up the order: the  *)
(* last item takes the place of the one that is dropped.                    *)
(***************************************************************************)
EXTENDS Integers, Sequences

CONSTANT Items

VARIABLE items

Without(s, i) == [j \in 1 .. Len(s) - 1 |-> IF j < i THEN s[j] ELSE s[j + 1]]

With(s, i, x) ==
  [j \in 1 .. Len(s) + 1 |-> IF j < i THEN s[j] ELSE IF j = i THEN x ELSE s[j - 1]]

Push == \E x \in Items : items' = Append(items, x)
InsertAt == \E x \in Items, i \in DOMAIN items : items' = With(items, i, x)
ShiftAt == \E i \in DOMAIN items : items' = Without(items, i)
Drop ==
  \E i \in DOMAIN items :
    items' = [j \in 1 .. Len(items) - 1 |-> IF j = i THEN items[Len(items)] ELSE items[j]]
Set == \E x \in Items, i \in DOMAIN items : items' = [items EXCEPT ![i] = x]
Prune == \E n \in 0 .. Len(items) : items' = SubSeq(items, 1, n)

Spec == items = <<>> /\ [][Push \/ InsertAt \/ ShiftAt \/ Drop \/ Set \/ Prune]_items
=============================================================================
