-------------------------------- MODULE RuliList --------------------------------
(***************************************************************************)
(* The list every other part keeps its things in (ruli_list.c): an array    *)
(* that is doubled when it is full, and how many of its places are in use.  *)
(* A place that was given up keeps what it held.                            *)
(***************************************************************************)
EXTENDS Integers, Sequences

CONSTANTS
  Item,        \* what a place holds; Garbage is not one of them
  Garbage,     \* what malloc() and realloc() find in a new place
  FirstCap,    \* the capacity it is made with
  MaxCap       \* bound: no list is grown beyond

ASSUME ListAssumption ==
  /\ FirstCap \in Nat \ {0} /\ MaxCap \in Nat
  /\ Garbage \notin Item

VARIABLES
  head,        \* the places, head[1] is list->head[0]
  used         \* list->size; the capacity is Len(head)

listVars == <<head, used>>

\* ruli_list_new_cap()
ListInit == head = [i \in 1 .. FirstCap |-> Garbage] /\ used = 0

\* list_grow()
Grown == [i \in 1 .. 2 * Len(head) |-> IF i <= Len(head) THEN head[i] ELSE Garbage]

\* A list that cannot grow stays as it is, and the call fails.
Roomy == IF used < Len(head) THEN head ELSE Grown
MayGrow == used < Len(head) \/ 2 * Len(head) <= MaxCap

ListPush(x) ==
  /\ MayGrow
  /\ head' = [Roomy EXCEPT ![used + 1] = x]
  /\ used' = used + 1

\* The items are moved from the wrong end: the first of them is spread.
MutantMovedUp(h, i) == [j \in DOMAIN h |-> IF i < j /\ j <= used + 1 THEN h[i] ELSE h[j]]

\* The items from the i-th on move up, the last one first.
MovedUp(h, i) == [j \in DOMAIN h |-> IF i < j /\ j <= used + 1 THEN h[j - 1] ELSE h[j]]

\* ruli_list_insert_at() has to be given the place of an item.
ListInsertAt(i, x) ==
  /\ i \in 1 .. used /\ MayGrow
  /\ head' = [MovedUp(Roomy, i) EXCEPT ![i] = x]
  /\ used' = used + 1

ListShiftAt(i) ==
  /\ i \in 1 .. used
  /\ head' = [j \in DOMAIN head |-> IF i <= j /\ j < used THEN head[j + 1] ELSE head[j]]
  /\ used' = used - 1

ListPop == used > 0 /\ used' = used - 1 /\ UNCHANGED head

ListDrop(i) ==
  /\ i \in 1 .. used
  /\ head' = IF i = used THEN head ELSE [head EXCEPT ![i] = head[used]]
  /\ used' = used - 1

ListSet(i, x) ==
  /\ i \in 1 .. used
  /\ head' = [head EXCEPT ![i] = x]
  /\ UNCHANGED used

\* ruli_list_prune(), and with 0 ruli_list_clean()
ListPrune(n) == n \in 0 .. used /\ used' = n /\ UNCHANGED head

ListNext ==
  \/ \E x \in Item : ListPush(x) \/ \E i \in 1 .. used : ListInsertAt(i, x) \/ ListSet(i, x)
  \/ \E i \in 1 .. used : ListShiftAt(i) \/ ListDrop(i)
  \/ ListPop
  \/ \E n \in 0 .. used : ListPrune(n)

ListSpec == ListInit /\ [][ListNext]_listVars

-----------------------------------------------------------------------------
(* Properties.                                                             *)

\* The places in use hold items and are within the array, through every growth.
ListTypeOK ==
  /\ head \in Seq(Item \cup {Garbage})
  /\ used \in 0 .. Len(head)
  /\ \A i \in 1 .. used : head[i] \in Item

\* The list is the sequence it stands for, one call at a time.
Listed == INSTANCE RuliSequence WITH Items <- Item, items <- SubSeq(head, 1, used)

IsASequence == Listed!Spec
=============================================================================
