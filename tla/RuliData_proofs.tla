--------------------------- MODULE RuliData_proofs ---------------------------
(***************************************************************************)
(* Proofs about the parts of MCRuliData: the list, for any items and any    *)
(* capacities; the order of addresses, for any destinations; the reading of *)
(* an answer, of any length; the names of a message, of any length and with *)
(* any limits; and the lists read from a file, of any lines.                *)
(***************************************************************************)
EXTENDS MCRuliData, RuliLoops, SequenceTheorems, TLAPS

-----------------------------------------------------------------------------
(* The list.                                                               *)

Places == Item \cup {Garbage}

IInv == ListTypeOK /\ Len(head) > 0

\* The sequence the list stands for.
Listing == SubSeq(head, 1, used)

LEMMA FunctionIsSeq ==
  ASSUME NEW S, NEW n \in Nat, NEW f \in [1 .. n -> S]
  PROVE  f \in Seq(S) /\ Len(f) = n
OBVIOUS

LEMMA FrontPart ==
  ASSUME NEW S, NEW h, NEW n \in Nat, \A i \in 1 .. n : h[i] \in S
  PROVE  /\ SubSeq(h, 1, n) \in Seq(S) /\ Len(SubSeq(h, 1, n)) = n
         /\ \A i \in 1 .. n : SubSeq(h, 1, n)[i] = h[i]
BY SubSeqProperties

\* A sequence of the places in front is the front.
LEMMA FrontEqual ==
  ASSUME NEW S, NEW h, NEW n \in Nat, NEW s \in Seq(S), Len(s) = n,
         \A i \in 1 .. n : h[i] \in S, \A i \in 1 .. n : s[i] = h[i]
  PROVE  SubSeq(h, 1, n) = s
<1>1. /\ SubSeq(h, 1, n) \in Seq(S) /\ Len(SubSeq(h, 1, n)) = n
      /\ \A i \in 1 .. n : SubSeq(h, 1, n)[i] = h[i]
  BY FrontPart
<1>2. \A i \in 1 .. Len(s) : s[i] = SubSeq(h, 1, n)[i]
  BY <1>1
<1>. QED  BY <1>1, <1>2, SeqEqual

LEMMA ListingIs ==
  ASSUME ListTypeOK
  PROVE  /\ Listing \in Seq(Item) /\ Len(Listing) = used
         /\ \A i \in 1 .. used : Listing[i] = head[i]
BY FrontPart DEF ListTypeOK, Listing

\* A sequence of the items in use is the one the list stands for after a step.
LEMMA SameListing ==
  ASSUME ListTypeOK', NEW s \in Seq(Item), Len(s) = used',
         \A j \in 1 .. used' : s[j] = head'[j]
  PROVE  Listing' = s
<1>0. used' \in Nat /\ \A i \in 1 .. used' : head'[i] \in Item
  BY DEF ListTypeOK
<1>1. SubSeq(head', 1, used') = s
  BY <1>0, FrontEqual
<1>. QED  BY <1>1 DEF Listing

LEMMA SameFunction ==
  ASSUME ListTypeOK', NEW s \in [1 .. used' -> Item],
         \A j \in 1 .. used' : s[j] = head'[j]
  PROVE  Listing' = s
<1>1. used' \in Nat
  BY DEF ListTypeOK
<1>. QED  BY <1>1, FunctionIsSeq, SameListing

\* What list_grow() leaves: the items where they were, and a place for one more.
LEMMA RoomForOne ==
  ASSUME IInv
  PROVE  /\ Roomy \in Seq(Places)
         /\ used < Len(Roomy)
         /\ \A i \in 1 .. used : Roomy[i] = head[i]
<1>. USE DEF IInv, ListTypeOK, Places
<1>1. CASE used < Len(head)
  BY <1>1 DEF Roomy
<1>2. CASE used = Len(head)
  <2>1. Grown \in [1 .. 2 * Len(head) -> Places]
    BY DEF Grown
  <2>2. Grown \in Seq(Places) /\ Len(Grown) = 2 * Len(head)
    BY <2>1, FunctionIsSeq
  <2>3. \A i \in 1 .. used : Grown[i] = head[i]
    BY <1>2 DEF Grown
  <2>. QED  BY <1>2, <2>2, <2>3 DEF Roomy
<1>. QED  BY <1>1, <1>2

\* The calls, one by one: the list stays well formed, and its items are those
\* of the sequence after the same call.
LEMMA PushStep ==
  ASSUME IInv, NEW x \in Item, ListPush(x)
  PROVE  IInv' /\ Listing' = Append(Listing, x)
<1>1. IInv'
  BY RoomForOne DEF IInv, ListTypeOK, Places, ListPush
<1>2. \A i \in 1 .. used : head'[i] = head[i]
  BY RoomForOne DEF IInv, ListTypeOK, ListPush
<1>3. used \in Nat /\ used' = used + 1 /\ head'[used + 1] = x
  BY RoomForOne DEF IInv, ListTypeOK, ListPush
<1>4. /\ Append(Listing, x) \in Seq(Item) /\ Len(Append(Listing, x)) = used'
      /\ \A i \in 1 .. used' : Append(Listing, x)[i] = head'[i]
  BY <1>2, <1>3, ListingIs DEF IInv
<1>. QED  BY <1>1, <1>4, SameListing DEF IInv

LEMMA InsertStep ==
  ASSUME IInv, NEW x \in Item, NEW i \in 1 .. used, ListInsertAt(i, x)
  PROVE  IInv' /\ Listing' = Listed!With(Listing, i, x)
<1>1. /\ used \in Nat /\ used' = used + 1
      /\ head' = [MovedUp(Roomy, i) EXCEPT ![i] = x]
      /\ \A j \in 1 .. used : head[j] \in Item
  BY DEF IInv, ListTypeOK, ListInsertAt
<1>2. ASSUME NEW room \in Seq(Places), used < Len(room),
             NEW moved, moved = MovedUp(room, i)
      PROVE  /\ moved \in [1 .. Len(room) -> Places]
             /\ \A j \in 1 .. used + 1 : moved[j] = IF j <= i THEN room[j] ELSE room[j - 1]
  BY <1>1, <1>2 DEF MovedUp
<1>3. /\ MovedUp(Roomy, i) \in [1 .. Len(Roomy) -> Places]
      /\ \A j \in 1 .. used + 1 :
           MovedUp(Roomy, i)[j] = IF j <= i THEN Roomy[j] ELSE Roomy[j - 1]
  BY <1>2, RoomForOne
<1>4. Len(Roomy) \in Nat /\ used < Len(Roomy)
  BY RoomForOne
<1>5. head' \in [1 .. Len(Roomy) -> Places]
  BY <1>1, <1>3 DEF Places
<1>6. head' \in Seq(Places) /\ Len(head') = Len(Roomy)
  BY <1>4, <1>5, FunctionIsSeq
<1>7. \A j \in 1 .. used + 1 :
        head'[j] = IF j < i THEN head[j] ELSE IF j = i THEN x ELSE head[j - 1]
  <2>1. \A j \in 1 .. used : Roomy[j] = head[j]
    BY RoomForOne
  <2>2. \A j \in 1 .. used + 1 : head'[j] = IF j = i THEN x ELSE MovedUp(Roomy, i)[j]
    BY <1>1, <1>3, <1>4
  <2>3. ASSUME NEW j \in 1 .. used + 1
        PROVE  head'[j] = IF j < i THEN head[j] ELSE IF j = i THEN x ELSE head[j - 1]
    <3>1. CASE j < i
      BY <1>1, <1>3, <2>1, <2>2, <3>1
    <3>2. CASE j = i
      BY <2>2, <3>2
    <3>3. CASE j > i
      <4>1. j - 1 \in 1 .. used /\ ~(j <= i) /\ ~(j < i) /\ j # i
        BY <1>1, <3>3
      <4>. QED  BY <1>3, <2>1, <2>2, <4>1
    <3>. QED  BY <1>1, <3>1, <3>2, <3>3
  <2>. QED  BY <2>3
<1>8. IInv'
  BY <1>1, <1>4, <1>6, <1>7 DEF IInv, ListTypeOK, Places
<1>9. /\ Listed!With(Listing, i, x) \in [1 .. used' -> Item]
      /\ \A j \in 1 .. used' : Listed!With(Listing, i, x)[j] = head'[j]
  <2>1. /\ Len(Listing) = used
        /\ \A j \in 1 .. used : Listing[j] = head[j]
    BY ListingIs DEF IInv
  <2>. QED  BY <1>1, <1>7, <2>1 DEF Listed!With
<1>. QED  BY <1>8, <1>9, SameFunction DEF IInv

LEMMA ShiftStep ==
  ASSUME IInv, NEW i \in 1 .. used, ListShiftAt(i)
  PROVE  IInv' /\ Listing' = Listed!Without(Listing, i)
<1>. USE DEF IInv, ListTypeOK, Places, ListShiftAt
<1>1. head' \in [1 .. Len(head) -> Places]
  OBVIOUS
<1>2. head' \in Seq(Places) /\ Len(head') = Len(head)
  BY <1>1, FunctionIsSeq
<1>3. \A j \in 1 .. used' : head'[j] = IF j < i THEN head[j] ELSE head[j + 1]
  OBVIOUS
<1>4. IInv'
  BY <1>2, <1>3
<1>5. /\ Listed!Without(Listing, i) \in [1 .. used' -> Item]
      /\ \A j \in 1 .. used' : Listed!Without(Listing, i)[j] = head'[j]
  BY ListingIs, <1>3 DEF Listed!Without
<1>. QED  BY <1>4, <1>5, SameFunction

LEMMA DropStep ==
  ASSUME IInv, NEW i \in 1 .. used, ListDrop(i)
  PROVE  IInv' /\ Listing' = [j \in 1 .. Len(Listing) - 1 |->
                                IF j = i THEN Listing[Len(Listing)] ELSE Listing[j]]
<1>. DEFINE D == [j \in 1 .. Len(Listing) - 1 |->
                    IF j = i THEN Listing[Len(Listing)] ELSE Listing[j]]
<1>. USE DEF IInv, ListTypeOK, Places, ListDrop
<1>1. /\ head' \in Seq(Places) /\ Len(head') = Len(head)
      /\ \A j \in 1 .. used' : head'[j] = IF j = i THEN head[used] ELSE head[j]
  OBVIOUS
<1>2. IInv'
  BY <1>1
<1>3. /\ D \in [1 .. used' -> Item]
      /\ \A j \in 1 .. used' : D[j] = head'[j]
  BY ListingIs, <1>1
<1>. QED  BY <1>2, <1>3, SameFunction

LEMMA SetStep ==
  ASSUME IInv, NEW x \in Item, NEW i \in 1 .. used, ListSet(i, x)
  PROVE  IInv' /\ Listing' = [Listing EXCEPT ![i] = x]
<1>. USE DEF IInv, ListTypeOK, Places, ListSet
<1>1. IInv' /\ \A j \in 1 .. used' : head'[j] = IF j = i THEN x ELSE head[j]
  OBVIOUS
<1>2. LET s == [Listing EXCEPT ![i] = x]
      IN  /\ s \in Seq(Item) /\ Len(s) = used'
          /\ \A j \in 1 .. used' : s[j] = IF j = i THEN x ELSE head[j]
  BY ListingIs
<1>. QED  BY <1>1, <1>2, SameListing

LEMMA PruneStep ==
  ASSUME IInv, NEW n \in 0 .. used, used' = n, UNCHANGED head
  PROVE  IInv' /\ Listing' = SubSeq(Listing, 1, n)
<1>1. IInv' /\ n \in Nat /\ n <= used
  BY DEF IInv, ListTypeOK
<1>2. /\ \A j \in 1 .. n : Listing[j] \in Item
      /\ \A j \in 1 .. n : Listing[j] = head'[j]
  BY <1>1, ListingIs DEF IInv, ListTypeOK
<1>3. /\ SubSeq(Listing, 1, n) \in Seq(Item) /\ Len(SubSeq(Listing, 1, n)) = used'
      /\ \A j \in 1 .. n : SubSeq(Listing, 1, n)[j] = Listing[j]
  BY <1>1, <1>2, FrontPart
<1>4. \A j \in 1 .. used' : SubSeq(Listing, 1, n)[j] = head'[j]
  BY <1>2, <1>3
<1>. QED  BY <1>1, <1>3, <1>4, SameListing DEF IInv

\* A call of ruli_list.c is the call of the sequence the list stands for.
LEMMA Simulates ==
  ASSUME IInv, ListNext
  PROVE  IInv' /\ [Listed!Push \/ Listed!InsertAt \/ Listed!ShiftAt \/ Listed!Drop
                    \/ Listed!Set \/ Listed!Prune]_Listing
<1>. DEFINE Call == Listed!Push \/ Listed!InsertAt \/ Listed!ShiftAt \/ Listed!Drop
                      \/ Listed!Set \/ Listed!Prune
<1>0. DOMAIN Listing = 1 .. used /\ Len(Listing) = used
  BY ListingIs DEF IInv
<1>1. ASSUME NEW x \in Item, ListPush(x) PROVE IInv' /\ Call
  BY <1>1, PushStep DEF Listed!Push, Listing
<1>2. ASSUME NEW x \in Item, NEW i \in 1 .. used, ListInsertAt(i, x) PROVE IInv' /\ Call
  BY <1>0, <1>2, InsertStep DEF Listed!InsertAt, Listing
<1>3. ASSUME NEW x \in Item, NEW i \in 1 .. used, ListSet(i, x) PROVE IInv' /\ Call
  BY <1>0, <1>3, SetStep DEF Listed!Set, Listing
<1>4. ASSUME NEW i \in 1 .. used, ListShiftAt(i) PROVE IInv' /\ Call
  BY <1>0, <1>4, ShiftStep DEF Listed!ShiftAt, Listing
<1>5. ASSUME NEW i \in 1 .. used, ListDrop(i) PROVE IInv' /\ Call
  BY <1>0, <1>5, DropStep DEF Listed!Drop, Listing
<1>6. ASSUME NEW n \in 0 .. used, used' = n, UNCHANGED head PROVE IInv' /\ Call
  BY <1>0, <1>6, PruneStep DEF Listed!Prune, Listing
<1>7. CASE ListPop
  <2>1. used - 1 \in 0 .. used
    BY <1>7 DEF ListPop, IInv, ListTypeOK
  <2>. QED  BY <1>6, <1>7, <2>1 DEF ListPop
<1>8. ASSUME NEW n \in 0 .. used, ListPrune(n) PROVE IInv' /\ Call
  BY <1>6, <1>8 DEF ListPrune
<1>. QED  BY <1>1, <1>2, <1>3, <1>4, <1>5, <1>7, <1>8 DEF ListNext

LEMMA Initially == ASSUME ListInit PROVE IInv /\ Listing = <<>>
<1>1. head \in [1 .. FirstCap -> Places]
  BY DEF ListInit, Places
<1>2. FirstCap \in Nat /\ FirstCap > 0
  BY ListAssumption
<1>3. head \in Seq(Places) /\ Len(head) = FirstCap
  BY <1>1, <1>2, FunctionIsSeq
<1>4. IInv
  BY <1>2, <1>3 DEF ListInit, IInv, ListTypeOK, Places
<1>. QED  BY <1>4, SubSeqEmpty DEF ListInit, Listing

LEMMA Inductive == ListSpec => []IInv
<1>1. ASSUME IInv, [ListNext]_listVars PROVE IInv'
  <2>1. CASE UNCHANGED listVars
    BY <1>1, <2>1 DEF IInv, ListTypeOK, listVars
  <2>. QED  BY <1>1, <2>1, Simulates
<1>. QED  BY <1>1, Initially, PTL DEF ListSpec

\* The places in use hold items and lie within the array, for lists of any
\* capacity, however often they are doubled (list_grow(), shift_range()).
THEOREM ListTypeCorrect == ListSpec => []ListTypeOK
BY Inductive, PTL DEF IInv

\* ruli_list.c implements the sequence ruli_list.h promises: every call maps to
\* the same call of the sequence, none loses, doubles or misplaces an item.
THEOREM ListIsASequence == ListSpec => IsASequence
<1>1. ListInit => Listing = <<>>
  BY Initially
<1>2. IInv /\ [ListNext]_listVars
        => [Listed!Push \/ Listed!InsertAt \/ Listed!ShiftAt \/ Listed!Drop
              \/ Listed!Set \/ Listed!Prune]_Listing
  <2>1. UNCHANGED listVars => UNCHANGED Listing
    BY DEF listVars, Listing
  <2>. QED  BY <2>1, Simulates
<1>. QED  BY <1>1, <1>2, Inductive, PTL DEF ListSpec, IsASequence, Listed!Spec, Listing

-----------------------------------------------------------------------------
(* Destinations of any octets.                                             *)

AnyOctet == 0 .. 255
AnyAddress ==
  {a \in [family : {4, 6}, octets : Seq(AnyOctet)] : Len(a.octets) = IF a.family = 4 THEN 4 ELSE 16}

\* A source is asked of a socket of the destination's family.
AnyDestination(d) ==
  /\ d.addr \in AnyAddress
  /\ HasSource(d) => d.src \in AnyAddress /\ d.src.family = d.addr.family

\* The policy table ends with one that every address matches.
LEMMA PolicyFields ==
  /\ DOMAIN Policies = 1 .. 5
  /\ Policies[1].bits = 128 /\ Policies[2].bits = 16 /\ Policies[3].bits = 96
  /\ Policies[4].bits = 96 /\ Policies[5].bits = 0
  /\ \A i \in 1 .. 5 : Policies[i].precedence \in Int
BY DEF Policies, Policy

LEMMA LastMatches == ASSUME NEW o PROVE InNet(Policies[5], o)
BY PolicyFields DEF InNet

LEMMA PolicyFound ==
  ASSUME NEW a
  PROVE  \E m \in 1 .. 5 :
           /\ PolicyOf(a) = Policies[m] /\ InNet(Policies[m], Mapped(a))
           /\ \A i \in 1 .. 5 : InNet(Policies[i], Mapped(a)) => m <= i
<1>. DEFINE T == {i \in DOMAIN Policies : InNet(Policies[i], Mapped(a))}
<1>1. T \in SUBSET (1 .. 5) /\ T # {}
  BY LastMatches, PolicyFields
<1>2. PICK m : m = CHOOSE i \in T : \A j \in T : i <= j
  OBVIOUS
<1>3. m \in T /\ \A j \in T : m <= j
  <2>0. T \subseteq Nat
    BY <1>1
  <2>. HIDE DEF T
  <2>1. \E i \in T : \A j \in T : i <= j
    BY <1>1, <2>0, LeastNumber
  <2>. QED  BY <1>2, <2>1
<1>4. PolicyOf(a) = Policies[m]
  BY <1>2 DEF PolicyOf
<1>. QED  BY <1>3, <1>4, PolicyFields

LEMMA PrecedenceType == ASSUME NEW a PROVE PolicyOf(a).precedence \in Int
BY PolicyFound, PolicyFields

LEMMA ScopeType == ASSUME NEW a \in AnyAddress PROVE Scope(a) \in Int
<1>. DEFINE o == a.octets
<1>1. a.family \in {4, 6} /\ o \in Seq(AnyOctet) /\ Len(o) = IF a.family = 4 THEN 4 ELSE 16
  BY DEF AnyAddress
<1>2. CASE a.family = 4
  BY <1>1, <1>2 DEF Scope, LinkLocal, SiteLocal, Global, UnspecScope
<1>3. CASE a.family = 6
  <2>0. Len(o) = 16 /\ DOMAIN o = 1 .. 16
    BY <1>1, <1>3
  <2>1. o[2] \in AnyOctet
    BY <1>1, <2>0
  <2>2. o[2] % 16 \in Int
    BY <2>1 DEF AnyOctet
  <2>. QED  BY <1>3, <2>2 DEF Scope, LinkLocal, SiteLocal, Global, UnspecScope
<1>. QED  BY <1>1, <1>2, <1>3

\* Two octets that differ have a number of bits in common.
LEMMA CommonInOctetType ==
  ASSUME NEW x \in AnyOctet, NEW y \in AnyOctet
  PROVE  CommonInOctet(x, y) \in 0 .. 8
<1>. DEFINE E(k) == x \div 2 ^ (8 - k) = y \div 2 ^ (8 - k)
            F(k) == k = 8 \/ x \div 2 ^ (7 - k) # y \div 2 ^ (7 - k)
<1>1. \A k \in 0 .. 7 : F(k) <=> ~E(k + 1)
  <2>1. \A k \in 0 .. 7 : 8 - (k + 1) = 7 - k
    OBVIOUS
  <2>. QED  BY <2>1
<1>2. E(0)
  <2>1. 2 ^ (8 - 0) = 256
    OBVIOUS
  <2>2. x \div 256 = 0 /\ y \div 256 = 0
    BY DEF AnyOctet
  <2>. QED  BY <2>1, <2>2
<1>3. F(8)
  OBVIOUS
<1>. HIDE DEF E, F
<1>4. \E k \in 0 .. 8 : E(k) /\ F(k)
  <2>1. SUFFICES ASSUME ~ \E k \in 0 .. 8 : E(k) /\ F(k) PROVE FALSE
    OBVIOUS
  <2>2. \A k \in 0 .. 7 : E(k) => E(k + 1)
    BY <1>1, <2>1
  <2>3. E(1)
    BY <1>2, <2>2
  <2>4. E(2)
    BY <2>2, <2>3
  <2>5. E(3)
    BY <2>2, <2>4
  <2>6. E(4)
    BY <2>2, <2>5
  <2>7. E(5)
    BY <2>2, <2>6
  <2>8. E(6)
    BY <2>2, <2>7
  <2>9. E(7)
    BY <2>2, <2>8
  <2>10. E(8)
    BY <2>2, <2>9
  <2>. QED  BY <1>3, <2>1, <2>10
<1>. QED  BY <1>4 DEF CommonInOctet, E, F

LEMMA SharedType ==
  ASSUME NEW d, AnyDestination(d), HasSource(d)
  PROVE  Shared(d) \in Int
<1>. DEFINE s == d.addr.octets  t == d.src.octets  size == Len(s)
            apart == {i \in 1 .. size : s[i] # t[i]}
<1>1. /\ s \in Seq(AnyOctet) /\ t \in Seq(AnyOctet) /\ Len(t) = size /\ size \in Nat
      /\ size \in {4, 16}
  <2>1. d.addr \in AnyAddress /\ d.src \in AnyAddress /\ d.src.family = d.addr.family
    BY DEF AnyDestination
  <2>2. ASSUME NEW a \in AnyAddress
        PROVE  a.octets \in Seq(AnyOctet) /\ a.family \in {4, 6} /\ Len(a.octets) = IF a.family = 4 THEN 4 ELSE 16
    BY DEF AnyAddress
  <2>3. /\ s \in Seq(AnyOctet) /\ d.addr.family \in {4, 6}
        /\ Len(s) = IF d.addr.family = 4 THEN 4 ELSE 16
    BY <2>1, <2>2
  <2>4. t \in Seq(AnyOctet) /\ Len(t) = IF d.addr.family = 4 THEN 4 ELSE 16
    BY <2>1, <2>2
  <2>. HIDE DEF s, t
  <2>. QED  BY <2>3, <2>4
<1>2. CASE apart = {}
  BY <1>1, <1>2 DEF Shared, CommonBits
<1>3. CASE apart # {}
  <2>1. PICK i : i = CHOOSE j \in apart : \A k \in apart : j <= k
    OBVIOUS
  <2>2. i \in apart
    <3>1. \E j \in apart : \A k \in apart : j <= k
      <4>1. apart \subseteq Nat
        OBVIOUS
      <4>. HIDE DEF apart
      <4>. QED  BY <1>3, <4>1, LeastNumber
    <3>. HIDE DEF apart
    <3>. QED  BY <2>1, <3>1
  <2>3. i \in Int /\ s[i] \in AnyOctet /\ t[i] \in AnyOctet
    BY <1>1, <2>2
  <2>4. Shared(d) = 8 * (i - 1) + CommonInOctet(s[i], t[i])
    BY <1>3, <2>1, Zenon DEF Shared, CommonBits
  <2>. QED  BY <2>3, <2>4, CommonInOctetType
<1>. QED  BY <1>2, <1>3

\* The first policy that matches is the longest.
LEMMA LongestFirst ==
  ASSUME NEW a, NEW i \in 1 .. 5, InNet(Policies[i], Mapped(a))
  PROVE  Policies[i].bits <= PolicyOf(a).bits
<1>1. PICK m \in 1 .. 5 :
        /\ PolicyOf(a) = Policies[m] /\ InNet(Policies[m], Mapped(a))
        /\ \A j \in 1 .. 5 : InNet(Policies[j], Mapped(a)) => m <= j
  BY PolicyFound
<1>2. m <= i
  BY <1>1
<1>3. Policies[2].prefix[1] = 32 /\ Policies[3].prefix[1] = 0 /\ Policies[4].prefix[1] = 0
  <2>1. Policies[2].prefix = <<32, 2>> \o Zeros(14)
    BY DEF Policies, Policy
  <2>2. Policies[3].prefix = Zeros(16)
    BY DEF Policies, Policy
  <2>3. Policies[4].prefix = (Zeros(10) \o <<255, 255>>) \o Zeros(4)
    BY DEF Policies, Policy
  <2>4. (<<32, 2>> \o Zeros(14))[1] = 32 /\ Zeros(16)[1] = 0
    BY DEF Zeros
  <2>5. ((Zeros(10) \o <<255, 255>>) \o Zeros(4))[1] = 0
    BY DEF Zeros
  <2>. QED  BY <2>1, <2>2, <2>3, <2>4, <2>5
<1>4. ~(m = 2 /\ i \in {3, 4})
  <2>1. ASSUME InNet(Policies[2], Mapped(a)) PROVE Mapped(a)[1] = 32
    BY <2>1, <1>3, PolicyFields DEF InNet
  <2>2. ASSUME NEW j \in {3, 4}, InNet(Policies[j], Mapped(a)) PROVE Mapped(a)[1] = 0
    BY <2>2, <1>3, PolicyFields DEF InNet
  <2>. QED  BY <1>1, <2>1, <2>2
<1>. QED  BY <1>1, <1>2, <1>4, PolicyFields

-----------------------------------------------------------------------------
(* The order of any destinations.                                          *)

LEMMA Elements ==
  ASSUME NEW S, NEW r \in Seq(S), NEW n, Len(r) = n
  PROVE  DOMAIN r = 1 .. n /\ \A i \in 1 .. n : r[i] \in S
OBVIOUS

\* A sequence and one element behind it.
LEMMA Appended ==
  ASSUME NEW S, NEW r \in Seq(S), NEW one \in Seq(S), Len(one) = 1
  PROVE  /\ r \o one \in Seq(S) /\ DOMAIN (r \o one) = 1 .. Len(r) + 1
         /\ (r \o one)[Len(r) + 1] = one[1] /\ \A i \in 1 .. Len(r) : (r \o one)[i] = r[i]
<1>1. Len(r) \in Nat
  OBVIOUS
<1>2. /\ r \o one \in Seq(S)
      /\ DOMAIN (r \o one) = 1 .. Len(r) + Len(one)
      /\ \A i \in 1 .. Len(r) : (r \o one)[i] = r[i]
      /\ \A i \in Len(r) + 1 .. Len(r) + Len(one) :
               (r \o one)[i] = one[i - Len(r)]
  BY Joined
<1>3. Len(r) + 1 \in Len(r) + 1 .. Len(r) + Len(one) /\ (Len(r) + 1) - Len(r) = 1
  BY <1>1
<1>. QED  BY <1>2, <1>3

LEMMA SameElements ==
  ASSUME NEW S, NEW s \in Seq(S), NEW t \in Seq(S), DOMAIN s = DOMAIN t, \A i \in DOMAIN s : s[i] = t[i]
  PROVE  s = t
<1>1. Len(s) = Len(t)
  OBVIOUS
<1>2. \A i \in 1 .. Len(s) : s[i] = t[i]
  OBVIOUS
<1>. QED  BY <1>1, <1>2, SeqEqual

LEMMA SixAndOne ==
  ASSUME NEW S, NEW n, NEW r \in Seq(S), Len(r) = n, NEW f \in S
  PROVE  n = 6 => r \o <<f>> = <<r[1], r[2], r[3], r[4], r[5], r[6], f>>
<1>0. PICK one : one = <<f>>
  OBVIOUS
<1>1. PICK s : s = r \o one
  OBVIOUS
<1>2. one \in Seq(S) /\ Len(one) = 1 /\ one[1] = f
  BY <1>0
<1>3. s \in Seq(S) /\ DOMAIN s = 1 .. n + 1 /\ s[n + 1] = f /\ \A i \in 1 .. n : s[i] = r[i]
  <2>1. /\ r \o one \in Seq(S) /\ DOMAIN (r \o one) = 1 .. Len(r) + 1
        /\ (r \o one)[Len(r) + 1] = one[1] /\ \A i \in 1 .. Len(r) : (r \o one)[i] = r[i]
    BY <1>2, Appended
  <2>. QED  BY <1>1, <1>2, <2>1
<1>5. \A i \in 1 .. n : r[i] \in S
  BY Elements
<1>12. HAVE n = 6
<1>4. PICK t : t = <<r[1], r[2], r[3], r[4], r[5], r[6], f>>
  OBVIOUS
<1>6. t \in Seq(S) /\ DOMAIN t = 1 .. 7 /\ t[7] = f
  BY <1>12, <1>4, <1>5
<1>7. t[1] = r[1] /\ t[2] = r[2] /\ t[3] = r[3] /\ t[4] = r[4] /\ t[5] = r[5] /\ t[6] = r[6]
  BY <1>4
<1>8. \A i \in 1 .. 7 : i \in {1, 2, 3, 4, 5, 6, 7}
  OBVIOUS
<1>9. \A i \in 1 .. 7 : s[i] = t[i]
  BY <1>12, <1>3, <1>6, <1>7, <1>8
<1>10. DOMAIN s = DOMAIN t /\ \A i \in DOMAIN s : s[i] = t[i]
  BY <1>12, <1>3, <1>6, <1>9
<1>11. s = t
  BY <1>3, <1>6, <1>10, SameElements
<1>. QED  BY <1>0, <1>1, <1>4, <1>11

LEMMA SixAndOneNumber ==
  ASSUME NEW r \in Seq(Int), Len(r) = 6, NEW f \in Int
  PROVE  r \o <<f>> = <<r[1], r[2], r[3], r[4], r[5], r[6], f>>
<1>1. PICK S : S = Int
  OBVIOUS
<1>2. PICK n \in Nat : n = 6
  OBVIOUS
<1>3. r \in Seq(S) /\ Len(r) = n /\ f \in S
  BY <1>1, <1>2
<1>. QED  BY <1>2, <1>3, SixAndOne

LEMMA Opposite == ASSUME NEW x \in Int, NEW y \in Int, x + y = 0 PROVE x = -y
OBVIOUS

\* The first of some verdicts that is one.
LEMMA VerdictIs ==
  ASSUME NEW s \in Seq(Int), NEW i \in DOMAIN s, s[i] # 0, \A j \in 1 .. i - 1 : s[j] = 0
  PROVE  FirstVerdict(s) = s[i]
<1>. DEFINE T == {k \in DOMAIN s : s[k] # 0}
<1>1. i \in T /\ \A j \in T : i <= j
  OBVIOUS
<1>2. \A k \in T : (\A j \in T : k <= j) => k = i
  BY <1>1
<1>3. (CHOOSE k \in T : \A j \in T : k <= j) = i
  <2>. HIDE DEF T
  <2>. QED  BY <1>1, <1>2
<1>4. T # {}
  BY <1>1
<1>. QED  BY <1>3, <1>4, Zenon DEF FirstVerdict

LEMMA NoneIs ==
  ASSUME NEW s \in Seq(Int), \A j \in DOMAIN s : s[j] = 0
  PROVE  FirstVerdict(s) = 0
BY DEF FirstVerdict

LEMMA VerdictOfSeven ==
  ASSUME NEW a, NEW b, NEW c, NEW d, NEW e, NEW f, NEW g, NEW verdicts,
         a \in Int, b \in Int, c \in Int, d \in Int, e \in Int, f \in Int, g \in Int,
         verdicts = <<a, b, c, d, e, f, g>>
  PROVE  FirstVerdict(verdicts) =
           IF a # 0 THEN a ELSE IF b # 0 THEN b ELSE IF c # 0 THEN c ELSE
           IF d # 0 THEN d ELSE IF e # 0 THEN e ELSE IF f # 0 THEN f ELSE g
<1>. DEFINE s == <<a, b, c, d, e, f, g>>
<1>1. /\ s \in Seq(Int) /\ DOMAIN s = 1 .. 7
      /\ s[1] = a /\ s[2] = b /\ s[3] = c /\ s[4] = d /\ s[5] = e /\ s[6] = f /\ s[7] = g
  OBVIOUS
<1>. HIDE DEF s
<1>2. ASSUME NEW i \in 1 .. 7, s[i] # 0, \A j \in 1 .. i - 1 : s[j] = 0 PROVE FirstVerdict(s) = s[i]
  BY <1>1, <1>2, VerdictIs
<1>3. \/ \A i \in 1 .. 7 : s[i] = 0
      \/ \E i \in 1 .. 7 : s[i] # 0 /\ \A j \in 1 .. i - 1 : s[j] = 0
  <2>1. CASE \E i \in 1 .. 7 : s[i] # 0
    <3>. DEFINE T == {i \in 1 .. 7 : s[i] # 0}
    <3>1. T \subseteq Nat /\ T # {}
      BY <2>1
    <3>2. \E x \in T : \A y \in T : x <= y
      <4>. HIDE DEF T
      <4>. QED  BY <3>1, LeastNumber
    <3>. QED  BY <3>2
  <2>. QED  BY <2>1
<1>4. CASE \A i \in 1 .. 7 : s[i] = 0
  <2>1. FirstVerdict(s) = 0
    BY <1>1, <1>4, NoneIs
  <2>. QED  BY <1>1, <1>4, <2>1 DEF s
<1>5. ASSUME NEW i \in 1 .. 7, s[i] # 0, \A j \in 1 .. i - 1 : s[j] = 0
      PROVE  s[i] = IF a # 0 THEN a ELSE IF b # 0 THEN b ELSE IF c # 0 THEN c ELSE
                    IF d # 0 THEN d ELSE IF e # 0 THEN e ELSE IF f # 0 THEN f ELSE g
  <2>1. i \in {1, 2, 3, 4, 5, 6, 7}
    OBVIOUS
  <2>. QED  BY <1>1, <1>5, <2>1
<1>. QED  BY <1>2, <1>3, <1>4, <1>5 DEF s

Family(d, e) == Sooner(d.addr.family = 6, e.addr.family = 6)

\* What addr_cmp_preference() looks at, one after the other.
Verdicts(d, e, rfc3484, nosort6) ==
  (IF rfc3484 THEN Rules(d, e) ELSE <<>>) \o (IF nosort6 THEN <<>> ELSE <<Family(d, e)>>)

LEMMA RulesType ==
  ASSUME NEW d, NEW e
  PROVE  /\ Rules(d, e) \in Seq(Int) /\ Len(Rules(d, e)) = 6
         /\ Family(d, e) \in Int
BY DEF Rules, Sooner, Lower, Family

LEMMA MirrorRules ==
  ASSUME NEW d, NEW e, AnyDestination(d), AnyDestination(e)
  PROVE  /\ \A i \in 1 .. 6 : Rules(d, e)[i] = -Rules(e, d)[i]
         /\ Family(d, e) = -Family(e, d)
<1>1. PolicyOf(d.addr).precedence \in Int /\ PolicyOf(e.addr).precedence \in Int
  BY PrecedenceType
<1>2. Scope(d.addr) \in Int /\ Scope(e.addr) \in Int
  BY ScopeType DEF AnyDestination
<1>3. HasSource(d) /\ HasSource(e) => Shared(d) \in Int /\ Shared(e) \in Int
  BY SharedType
<1>4. \A m, n \in Int : Lower(m, n) = -Lower(n, m)
  BY DEF Lower
<1>5. Rules(d, e)[1] = -Rules(e, d)[1] /\ Rules(d, e)[2] = -Rules(e, d)[2] /\ Rules(d, e)[3] = -Rules(e, d)[3]
  BY DEF Rules, Sooner
<1>6. Rules(d, e)[4] = -Rules(e, d)[4] /\ Rules(d, e)[5] = -Rules(e, d)[5]
  BY <1>1, <1>2, <1>4 DEF Rules
<1>7. Rules(d, e)[6] = -Rules(e, d)[6]
  BY <1>3, <1>4 DEF Rules
<1>8. Family(d, e) = -Family(e, d)
  BY DEF Family, Sooner
<1>9. ASSUME NEW i \in 1 .. 6 PROVE Rules(d, e)[i] = -Rules(e, d)[i]
  <2>1. i \in {1, 2, 3, 4, 5, 6}
    OBVIOUS
  <2>. QED  BY <1>5, <1>6, <1>7, <2>1
<1>. QED  BY <1>8, <1>9

\* Verdicts that are the opposite of others come to the opposite.
LEMMA MirrorVerdict ==
  ASSUME NEW s \in Seq(Int), NEW t \in Seq(Int), Len(s) = Len(t), \A i \in DOMAIN s : s[i] = -t[i]
  PROVE  FirstVerdict(s) = -FirstVerdict(t)
<1>. DEFINE T == {i \in DOMAIN s : s[i] # 0}
<1>1. /\ DOMAIN s = DOMAIN t /\ DOMAIN s \subseteq Nat
      /\ \A i \in DOMAIN s : s[i] \in Int /\ t[i] \in Int /\ (s[i] = 0 <=> t[i] = 0)
  OBVIOUS
<1>2. CASE T = {}
  <2>1. \A i \in DOMAIN s : s[i] = 0 /\ t[i] = 0
    BY <1>1, <1>2
  <2>2. FirstVerdict(s) = 0 /\ FirstVerdict(t) = 0
    BY <1>1, <2>1, NoneIs
  <2>3. FirstVerdict(s) \in Int /\ FirstVerdict(t) \in Int /\ FirstVerdict(s) + FirstVerdict(t) = 0
    BY <2>2
  <2>. QED  BY <2>3, Opposite
<1>3. CASE T # {}
  <2>1. \E i \in T : \A j \in T : i <= j
    <3>1. T \subseteq Nat
      BY <1>1
    <3>. HIDE DEF T
    <3>. QED  BY <1>3, <3>1, LeastNumber
  <2>2. PICK i \in T : \A j \in T : i <= j
    BY <2>1
  <2>3. s[i] # 0 /\ \A j \in 1 .. i - 1 : s[j] = 0
    BY <2>2
  <2>4. i \in DOMAIN s /\ \A j \in 1 .. i - 1 : j \in DOMAIN s
    OBVIOUS
  <2>5. t[i] # 0 /\ \A j \in 1 .. i - 1 : t[j] = 0
    BY <1>1, <2>3, <2>4
  <2>. QED  BY <1>1, <2>3, <2>4, <2>5, VerdictIs
<1>. QED  BY <1>2, <1>3

LEMMA VerdictsAre ==
  ASSUME NEW d, NEW e, NEW rfc3484 \in BOOLEAN, NEW nosort6 \in BOOLEAN
  PROVE  /\ Cmp(d, e, rfc3484, nosort6) = FirstVerdict(Verdicts(d, e, rfc3484, nosort6))
         /\ Verdicts(d, e, rfc3484, nosort6) \in Seq(Int)
BY RulesType DEF Cmp, Verdicts, Family

\* Two destinations are never each to come before the other.
LEMMA Antisymmetric ==
  ASSUME NEW d, NEW e, AnyDestination(d), AnyDestination(e),
         NEW rfc3484 \in BOOLEAN, NEW nosort6 \in BOOLEAN
  PROVE  Cmp(d, e, rfc3484, nosort6) = -Cmp(e, d, rfc3484, nosort6)
<1>. DEFINE s == Verdicts(d, e, rfc3484, nosort6)  t == Verdicts(e, d, rfc3484, nosort6)
<1>1. s \in Seq(Int) /\ t \in Seq(Int)
  BY VerdictsAre
<1>2. Len(s) = Len(t) /\ \A i \in DOMAIN s : s[i] = -t[i]
  <2>1. /\ Rules(d, e) \in Seq(Int) /\ Len(Rules(d, e)) = 6
        /\ Rules(e, d) \in Seq(Int) /\ Len(Rules(e, d)) = 6
        /\ \A i \in 1 .. 6 : Rules(d, e)[i] = -Rules(e, d)[i]
        /\ Family(d, e) \in Int /\ Family(e, d) \in Int /\ Family(d, e) = -Family(e, d)
    BY RulesType, MirrorRules
  <2>2. CASE rfc3484 /\ ~nosort6
    <3>1. s = Rules(d, e) \o <<Family(d, e)>> /\ t = Rules(e, d) \o <<Family(e, d)>>
      BY <2>2 DEF Verdicts
    <3>2. PICK p, q : p = Rules(d, e) /\ q = Rules(e, d)
      OBVIOUS
    <3>3. PICK f, g : f = Family(d, e) /\ g = Family(e, d)
      OBVIOUS
    <3>. HIDE DEF s, t
    <3>4. s = <<p[1], p[2], p[3], p[4], p[5], p[6], f>> /\ t = <<q[1], q[2], q[3], q[4], q[5], q[6], g>>
      BY <2>1, <3>1, <3>2, <3>3, SixAndOneNumber
    <3>5. DOMAIN s = 1 .. 7 /\ Len(s) = 7 /\ Len(t) = 7
      BY <3>4
    <3>6. /\ s[1] = -t[1] /\ s[2] = -t[2] /\ s[3] = -t[3] /\ s[4] = -t[4] /\ s[5] = -t[5] /\ s[6] = -t[6]
          /\ s[7] = -t[7]
      BY <2>1, <3>2, <3>3, <3>4
    <3>7. \A i \in 1 .. 7 : i \in {1, 2, 3, 4, 5, 6, 7}
      OBVIOUS
    <3>. QED  BY <3>5, <3>6, <3>7
  <2>3. CASE rfc3484 /\ nosort6
    <3>1. s = Rules(d, e) \o <<>> /\ t = Rules(e, d) \o <<>>
      BY <2>3 DEF Verdicts
    <3>2. s = Rules(d, e) /\ t = Rules(e, d)
      <4>. HIDE DEF s, t
      <4>. QED  BY <2>1, <3>1, ConcatEmptySeq
    <3>3. DOMAIN Rules(d, e) = 1 .. 6
      BY <2>1, Elements
    <3>. HIDE DEF s, t
    <3>. QED  BY <2>1, <3>2, <3>3
  <2>4. CASE ~rfc3484 /\ ~nosort6
    <3>1. s = <<Family(d, e)>> /\ t = <<Family(e, d)>>
      <4>1. s = <<>> \o <<Family(d, e)>> /\ t = <<>> \o <<Family(e, d)>>
        BY <2>4 DEF Verdicts
      <4>2. <<Family(d, e)>> \in Seq(Int) /\ <<Family(e, d)>> \in Seq(Int)
        BY <2>1
      <4>. HIDE DEF s, t
      <4>. QED  BY <4>1, <4>2, EmptyJoined
    <3>. HIDE DEF s, t
    <3>2. DOMAIN s = {1} /\ s[1] = Family(d, e) /\ t[1] = Family(e, d) /\ Len(s) = 1 /\ Len(t) = 1
      BY <3>1
    <3>. QED  BY <2>1, <3>2
  <2>5. CASE ~rfc3484 /\ nosort6
    <3>1. s = <<>> /\ t = <<>>
      <4>1. s = <<>> \o <<>> /\ t = <<>> \o <<>>
        BY <2>5 DEF Verdicts
      <4>2. <<>> \in Seq(Int)
        OBVIOUS
      <4>. HIDE DEF s, t
      <4>. QED  BY <4>1, <4>2, EmptyJoined
    <3>. HIDE DEF s, t
    <3>. QED  BY <3>1
  <2>. QED  BY <2>2, <2>3, <2>4, <2>5
<1>. HIDE DEF s, t
<1>3. FirstVerdict(s) = -FirstVerdict(t)
  BY <1>1, <1>2, MirrorVerdict
<1>. QED  BY <1>3, VerdictsAre DEF s, t

\* What a destination is ordered by: the smaller comes first.
Keys(d) ==
  << IF HasSource(d) THEN 0 ELSE 1,
     IF HasSource(d) /\ ~SameScope(d) THEN 1 ELSE 0,
     IF HasSource(d) /\ ~SameLabel(d) THEN 1 ELSE 0,
     -PolicyOf(d.addr).precedence,
     Scope(d.addr),
     IF d.addr.family = 6 THEN 0 ELSE 1,
     IF HasSource(d) THEN -Shared(d) ELSE 0 >>

\* k is not after l in the order of seven numbers, the first first.
NotAfter(k, l) ==
  k[1] < l[1] \/ (k[1] = l[1] /\ (k[2] < l[2] \/ (k[2] = l[2] /\ (k[3] < l[3] \/ (k[3] = l[3] /\
    (k[4] < l[4] \/ (k[4] = l[4] /\ (k[5] < l[5] \/ (k[5] = l[5] /\ (k[6] < l[6] \/ (k[6] = l[6] /\
       k[7] <= l[7])))))))))))

LEMMA KeysType == ASSUME NEW d, AnyDestination(d) PROVE Keys(d) \in [1 .. 7 -> Int]
<1>1. PolicyOf(d.addr).precedence \in Int /\ Scope(d.addr) \in Int
  BY PrecedenceType, ScopeType DEF AnyDestination
<1>2. HasSource(d) => Shared(d) \in Int
  BY SharedType
<1>3. -PolicyOf(d.addr).precedence \in Int /\ (HasSource(d) => -Shared(d) \in Int)
  BY <1>1, <1>2
<1>. QED  BY <1>1, <1>3 DEF Keys

LEMMA OrderTransitive ==
  ASSUME NEW k \in [1 .. 7 -> Int], NEW l \in [1 .. 7 -> Int], NEW m \in [1 .. 7 -> Int],
         NotAfter(k, l), NotAfter(l, m)
  PROVE  NotAfter(k, m)
<1>1. \A i \in 1 .. 7 : k[i] \in Int /\ l[i] \in Int /\ m[i] \in Int
  OBVIOUS
<1>. QED  BY <1>1 DEF NotAfter

\* A verdict on one number, and then on what is left.
LEMMA OneVerdict ==
  ASSUME NEW k, NEW l, NEW v, NEW rest, NEW c,
         k \in Int, l \in Int, rest \in Int, v = Lower(k, l), c = IF v # 0 THEN v ELSE rest
  PROVE  c \in Int /\ (c <= 0 <=> k < l \/ (k = l /\ rest <= 0))
BY DEF Lower

LEMMA LastVerdicts ==
  ASSUME NEW k6, NEW l6, NEW k7, NEW l7, NEW r6, NEW f, NEW c,
         k6 \in Int, l6 \in Int, k7 \in Int, l7 \in Int,
         f = Lower(k6, l6), r6 = IF k6 = l6 THEN Lower(k7, l7) ELSE 0, c = IF r6 # 0 THEN r6 ELSE f
  PROVE  c \in Int /\ (c <= 0 <=> k6 < l6 \/ (k6 = l6 /\ k7 <= l7))
BY DEF Lower

\* The verdicts of two destinations that both have a source or both have none.
LEMMA OrderOfAlike ==
  ASSUME NEW k \in [1 .. 7 -> Int], NEW l \in [1 .. 7 -> Int],
         NEW r2, NEW r3, NEW r4, NEW r5, NEW r6, NEW f, NEW c,
         r2 = Lower(k[2], l[2]), r3 = Lower(k[3], l[3]), r4 = Lower(k[4], l[4]), r5 = Lower(k[5], l[5]),
         r6 = IF k[6] = l[6] THEN Lower(k[7], l[7]) ELSE 0, f = Lower(k[6], l[6]),
         c = IF r2 # 0 THEN r2 ELSE IF r3 # 0 THEN r3 ELSE
             IF r4 # 0 THEN r4 ELSE IF r5 # 0 THEN r5 ELSE IF r6 # 0 THEN r6 ELSE f
  PROVE  c <= 0 <=> (k[2] < l[2] \/ (k[2] = l[2] /\ (k[3] < l[3] \/ (k[3] = l[3] /\
           (k[4] < l[4] \/ (k[4] = l[4] /\ (k[5] < l[5] \/ (k[5] = l[5] /\ (k[6] < l[6] \/ (k[6] = l[6] /\
              k[7] <= l[7]))))))))))
<1>1. \A i \in 1 .. 7 : k[i] \in Int /\ l[i] \in Int
  OBVIOUS
<1>2. PICK c6 : c6 = IF r6 # 0 THEN r6 ELSE f
  OBVIOUS
<1>3. PICK c5 : c5 = IF r5 # 0 THEN r5 ELSE c6
  OBVIOUS
<1>4. PICK c4 : c4 = IF r4 # 0 THEN r4 ELSE c5
  OBVIOUS
<1>5. PICK c3 : c3 = IF r3 # 0 THEN r3 ELSE c4
  OBVIOUS
<1>6. c = IF r2 # 0 THEN r2 ELSE c3
  BY <1>2, <1>3, <1>4, <1>5
<1>7. c6 \in Int /\ (c6 <= 0 <=> k[6] < l[6] \/ (k[6] = l[6] /\ k[7] <= l[7]))
  <2>1. k[6] \in Int /\ l[6] \in Int /\ k[7] \in Int /\ l[7] \in Int
    BY <1>1
  <2>. QED  BY <1>2, <2>1, LastVerdicts
<1>8. c5 \in Int /\ (c5 <= 0 <=> k[5] < l[5] \/ (k[5] = l[5] /\ c6 <= 0))
  <2>1. k[5] \in Int /\ l[5] \in Int
    BY <1>1
  <2>. QED  BY <1>3, <1>7, <2>1, OneVerdict
<1>9. c4 \in Int /\ (c4 <= 0 <=> k[4] < l[4] \/ (k[4] = l[4] /\ c5 <= 0))
  <2>1. k[4] \in Int /\ l[4] \in Int
    BY <1>1
  <2>. QED  BY <1>4, <1>8, <2>1, OneVerdict
<1>10. c3 \in Int /\ (c3 <= 0 <=> k[3] < l[3] \/ (k[3] = l[3] /\ c4 <= 0))
  <2>1. k[3] \in Int /\ l[3] \in Int
    BY <1>1
  <2>. QED  BY <1>5, <1>9, <2>1, OneVerdict
<1>11. c <= 0 <=> k[2] < l[2] \/ (k[2] = l[2] /\ c3 <= 0)
  <2>1. k[2] \in Int /\ l[2] \in Int
    BY <1>1
  <2>. QED  BY <1>6, <1>10, <2>1, OneVerdict
<1>. QED  BY <1>7, <1>8, <1>9, <1>10, <1>11, Zenon

\* The comparison is the order of these numbers.
LEMMA CmpIsOrder ==
  ASSUME NEW d, NEW e, AnyDestination(d), AnyDestination(e)
  PROVE  Cmp(d, e, TRUE, FALSE) <= 0 <=> NotAfter(Keys(d), Keys(e))
<1>. DEFINE r == Rules(d, e)  f == Family(d, e)  k == Keys(d)  l == Keys(e)
<1>1. r \in Seq(Int) /\ Len(r) = 6 /\ f \in Int
  BY RulesType
<1>2. Cmp(d, e, TRUE, FALSE) = FirstVerdict(<<r[1], r[2], r[3], r[4], r[5], r[6], f>>)
  <2>1. Cmp(d, e, TRUE, FALSE) = FirstVerdict(r \o <<f>>)
    BY DEF Cmp, Family
  <2>. HIDE DEF r, f
  <2>2. r \o <<f>> = <<r[1], r[2], r[3], r[4], r[5], r[6], f>>
    BY <1>1, SixAndOneNumber
  <2>. QED  BY <2>1, <2>2
<1>3. r[1] \in Int /\ r[2] \in Int /\ r[3] \in Int /\ r[4] \in Int /\ r[5] \in Int /\ r[6] \in Int
  <2>1. \A i \in 1 .. 6 : r[i] \in Int
    <3>. HIDE DEF r
    <3>1. PICK n \in Nat : n = 6
      OBVIOUS
    <3>. QED  BY <1>1, <3>1, Elements
  <2>. QED  BY <2>1
<1>4. k \in [1 .. 7 -> Int] /\ l \in [1 .. 7 -> Int]
  BY KeysType
<1>5. /\ r[1] = Lower(k[1], l[1])
      /\ k[1] = l[1] => r[2] = Lower(k[2], l[2]) /\ r[3] = Lower(k[3], l[3])
      /\ r[5] = Lower(k[5], l[5])
      /\ f = Lower(k[6], l[6])
  BY DEF Rules, Keys, Family, Sooner, Lower
<1>6. r[4] = Lower(k[4], l[4])
  <2>1. PolicyOf(d.addr).precedence \in Int /\ PolicyOf(e.addr).precedence \in Int
    BY PrecedenceType
  <2>. QED  BY <2>1 DEF Rules, Keys, Lower
<1>7. k[1] = l[1] => r[6] = IF k[6] = l[6] THEN Lower(k[7], l[7]) ELSE 0
  <2>1. d.addr.family \in {4, 6} /\ e.addr.family \in {4, 6}
    BY DEF AnyDestination, AnyAddress
  <2>2. HasSource(d) => Shared(d) \in Int
    BY SharedType
  <2>3. HasSource(e) => Shared(e) \in Int
    BY SharedType
  <2>. QED  BY <2>1, <2>2, <2>3 DEF Rules, Keys, Lower
<1>. HIDE DEF r, f, k, l
<1>8. PICK c : c = IF r[2] # 0 THEN r[2] ELSE IF r[3] # 0 THEN r[3] ELSE
                   IF r[4] # 0 THEN r[4] ELSE IF r[5] # 0 THEN r[5] ELSE IF r[6] # 0 THEN r[6] ELSE f
  OBVIOUS
<1>9. Cmp(d, e, TRUE, FALSE) = IF r[1] # 0 THEN r[1] ELSE c
  <2>1. PICK v : v = <<r[1], r[2], r[3], r[4], r[5], r[6], f>>
    OBVIOUS
  <2>2. FirstVerdict(v) =
          IF r[1] # 0 THEN r[1] ELSE IF r[2] # 0 THEN r[2] ELSE IF r[3] # 0 THEN r[3] ELSE
          IF r[4] # 0 THEN r[4] ELSE IF r[5] # 0 THEN r[5] ELSE IF r[6] # 0 THEN r[6] ELSE f
    BY <1>1, <1>3, <2>1, VerdictOfSeven
  <2>. QED  BY <1>2, <1>8, <2>1, <2>2
<1>10. c \in Int
  BY <1>1, <1>3, <1>8
<1>11. k[1] \in Int /\ l[1] \in Int
  BY <1>4
<1>12. Cmp(d, e, TRUE, FALSE) <= 0 <=> k[1] < l[1] \/ (k[1] = l[1] /\ c <= 0)
  <2>1. PICK v, cmp : v = r[1] /\ cmp = Cmp(d, e, TRUE, FALSE)
    OBVIOUS
  <2>2. v = Lower(k[1], l[1]) /\ cmp = IF v # 0 THEN v ELSE c
    BY <1>5, <1>9, <2>1
  <2>3. cmp <= 0 <=> k[1] < l[1] \/ (k[1] = l[1] /\ c <= 0)
    BY <1>10, <1>11, <2>2, OneVerdict
  <2>. QED  BY <2>1, <2>3
<1>13. Cmp(d, e, TRUE, FALSE) <= 0 <=> NotAfter(k, l)
  <2>1. CASE k[1] = l[1]
    <3>1. PICK r2, r3, r4, r5, r6 : r2 = r[2] /\ r3 = r[3] /\ r4 = r[4] /\ r5 = r[5] /\ r6 = r[6]
      OBVIOUS
    <3>2. c <= 0 <=> (k[2] < l[2] \/ (k[2] = l[2] /\ (k[3] < l[3] \/ (k[3] = l[3] /\
           (k[4] < l[4] \/ (k[4] = l[4] /\ (k[5] < l[5] \/ (k[5] = l[5] /\ (k[6] < l[6] \/ (k[6] = l[6] /\
              k[7] <= l[7]))))))))))
      <4>1. /\ r2 = Lower(k[2], l[2]) /\ r3 = Lower(k[3], l[3]) /\ r4 = Lower(k[4], l[4]) /\ r5 = Lower(k[5], l[5])
            /\ r6 = IF k[6] = l[6] THEN Lower(k[7], l[7]) ELSE 0
        BY <1>5, <1>6, <1>7, <2>1, <3>1
      <4>2. c = IF r2 # 0 THEN r2 ELSE IF r3 # 0 THEN r3 ELSE
                IF r4 # 0 THEN r4 ELSE IF r5 # 0 THEN r5 ELSE IF r6 # 0 THEN r6 ELSE f
        BY <1>8, <3>1
      <4>. QED  BY <1>4, <1>5, <4>1, <4>2, OrderOfAlike
    <3>. QED  BY <1>12, <2>1, <3>2, Zenon DEF NotAfter
  <2>2. CASE k[1] # l[1]
    BY <1>11, <1>12, <2>2, Zenon DEF NotAfter
  <2>. QED  BY <2>1, <2>2
<1>. QED  BY <1>13 DEF k, l

\* What does not come after something that does not come after a third, does not
\* come after the third.
LEMMA Transitive ==
  ASSUME NEW d, NEW e, NEW f, AnyDestination(d), AnyDestination(e), AnyDestination(f),
         Cmp(d, e, TRUE, FALSE) <= 0, Cmp(e, f, TRUE, FALSE) <= 0
  PROVE  Cmp(d, f, TRUE, FALSE) <= 0
BY CmpIsOrder, KeysType, OrderTransitive

-----------------------------------------------------------------------------
(* The destinations of the run.                                            *)

LEMMA ZerosType ==
  ASSUME NEW S, 0 \in S, NEW n \in Nat
  PROVE  Zeros(n) \in Seq(S) /\ Len(Zeros(n)) = n
<1>1. Zeros(n) \in [1 .. n -> S]
  BY DEF Zeros
<1>. QED  BY <1>1, FunctionIsSeq

LEMMA LengthJoined ==
  ASSUME NEW S, NEW s \in Seq(S), NEW t \in Seq(S)
  PROVE  s \o t \in Seq(S) /\ Len(s \o t) = Len(s) + Len(t)
OBVIOUS

LEMMA SixOctets ==
  ASSUME NEW S, 0 \in S, NEW front \in Seq(S), NEW one \in Seq(S), Len(one) = 1,
         NEW n \in Nat, n + Len(front) = 15
  PROVE  /\ front \o Zeros(n) \o one \in Seq(S)
         /\ Len(front \o Zeros(n) \o one) = 16
<1>1. Zeros(n) \in Seq(S) /\ Len(Zeros(n)) = n
  BY ZerosType
<1>2. PICK z \in Seq(S) : z = Zeros(n)
  BY <1>1
<1>3. front \o z \in Seq(S) /\ Len(front \o z) = Len(front) + Len(z)
  BY LengthJoined
<1>4. (front \o z) \o one \in Seq(S) /\ Len((front \o z) \o one) = Len(front \o z) + Len(one)
  BY <1>3, LengthJoined
<1>5. Len(front) \in Nat /\ Len(front) + n + 1 = 16
  OBVIOUS
<1>. QED  BY <1>1, <1>2, <1>3, <1>4, <1>5

LEMMA FourIsAddress ==
  ASSUME NEW o, o \in Seq(AnyOctet), Len(o) = 4
  PROVE  V4(o) \in AnyAddress /\ V4(o).family = 4
BY DEF V4, AnyAddress

LEMMA SixIsAddress ==
  ASSUME NEW o, o \in Seq(AnyOctet), Len(o) = 16
  PROVE  V6(o) \in AnyAddress /\ V6(o).family = 6
BY DEF V6, AnyAddress

LEMMA SixType ==
  ASSUME NEW front \in Seq(AnyOctet), Len(front) <= 15, NEW last \in AnyOctet
  PROVE  Six(front, last) \in AnyAddress /\ Six(front, last).family = 6
<1>1. PICK one : one = <<last>>
  OBVIOUS
<1>2. one \in Seq(AnyOctet) /\ Len(one) = 1
  BY <1>1
<1>3. PICK n \in Nat : n = 15 - Len(front)
  OBVIOUS
<1>4. n + Len(front) = 15 /\ 0 \in AnyOctet
  BY <1>3 DEF AnyOctet
<1>5. PICK o : o = front \o Zeros(n) \o one
  OBVIOUS
<1>6. o \in Seq(AnyOctet) /\ Len(o) = 16
  BY <1>2, <1>4, <1>5, SixOctets
<1>7. V6(o) \in AnyAddress /\ V6(o).family = 6
  BY <1>6, SixIsAddress
<1>8. Six(front, last) = V6(o)
  BY <1>1, <1>3, <1>5 DEF Six
<1>. QED  BY <1>7, <1>8

LEMMA BehindZeros ==
  ASSUME NEW n \in Nat, NEW last \in Seq(AnyOctet), n + Len(last) = 16
  PROVE  V6(Zeros(n) \o last) \in AnyAddress /\ V6(Zeros(n) \o last).family = 6
<1>1. 0 \in AnyOctet
  BY DEF AnyOctet
<1>2. PICK S : S = AnyOctet
  OBVIOUS
<1>3. PICK z \in Seq(S) : z = Zeros(n) /\ Len(z) = n
  BY <1>1, <1>2, ZerosType
<1>4. PICK o : o = z \o last
  OBVIOUS
<1>5. o \in Seq(S) /\ Len(o) = n + Len(last)
  BY <1>2, <1>3, <1>4, LengthJoined
<1>6. o \in Seq(AnyOctet) /\ Len(o) = 16
  BY <1>2, <1>5
<1>7. V6(o) \in AnyAddress /\ V6(o).family = 6
  BY <1>6, SixIsAddress
<1>8. o = Zeros(n) \o last
  BY <1>3, <1>4
<1>. QED  BY <1>7, <1>8, Zenon

LEMMA KnownFour ==
  /\ \A a \in Addresses4 : a \in AnyAddress /\ a.family = 4
  /\ \A a \in {V4(<<10, 0, 0, 7>>), V4(<<198, 51, 100, 8>>)} : a \in AnyAddress /\ a.family = 4
<1>. DEFINE Fine(o) == V4(o) \in AnyAddress /\ V4(o).family = 4
<1>1. ASSUME NEW w \in AnyOctet, NEW x \in AnyOctet, NEW y \in AnyOctet, NEW z \in AnyOctet
      PROVE  Fine(<<w, x, y, z>>)
  BY DEF V4, AnyAddress
<1>2. \A n \in 0 .. 255 : n \in AnyOctet
  BY DEF AnyOctet
<1>3. /\ 0 \in AnyOctet /\ 1 \in AnyOctet /\ 2 \in AnyOctet /\ 7 \in AnyOctet /\ 8 \in AnyOctet
      /\ 9 \in AnyOctet /\ 10 \in AnyOctet /\ 51 \in AnyOctet /\ 100 \in AnyOctet
      /\ 127 \in AnyOctet /\ 198 \in AnyOctet
  BY <1>2
<1>. HIDE DEF Fine
<1>4. Fine(<<10, 0, 0, 1>>) /\ Fine(<<127, 0, 0, 1>>) /\ Fine(<<198, 51, 100, 2>>) /\ Fine(<<198, 51, 100, 9>>)
  BY <1>1, <1>3
<1>5. Fine(<<10, 0, 0, 7>>) /\ Fine(<<198, 51, 100, 8>>)
  BY <1>1, <1>3
<1>. QED  BY <1>4, <1>5 DEF Addresses4, Fine

LEMMA KnownSix ==
  /\ \A a \in Addresses6 : a \in AnyAddress /\ a.family = 6
  /\ \A a \in {Six(<<32, 1, 13, 184>>, 9), Six(<<254, 128>>, 9)} : a \in AnyAddress /\ a.family = 6
<1>. DEFINE Fine(f, x) == Six(f, x) \in AnyAddress /\ Six(f, x).family = 6
<1>0. ASSUME NEW f \in Seq(AnyOctet), Len(f) <= 15, NEW x \in AnyOctet PROVE Fine(f, x)
  BY <1>0, SixType
<1>1. <<>> \in Seq(AnyOctet) /\ Len(<<>>) <= 15
  OBVIOUS
<1>2. ASSUME NEW v \in AnyOctet, NEW w \in AnyOctet, NEW last \in AnyOctet
      PROVE  Fine(<<v, w>>, last)
  <2>1. <<v, w>> \in Seq(AnyOctet) /\ Len(<<v, w>>) <= 15
    OBVIOUS
  <2>. HIDE DEF Fine
  <2>. QED  BY <1>0, <2>1, Zenon
<1>3. ASSUME NEW v \in AnyOctet, NEW w \in AnyOctet, NEW x \in AnyOctet, NEW last \in AnyOctet
      PROVE  Fine(<<v, w, x>>, last)
  <2>1. <<v, w, x>> \in Seq(AnyOctet) /\ Len(<<v, w, x>>) <= 15
    OBVIOUS
  <2>. HIDE DEF Fine
  <2>. QED  BY <1>0, <2>1, Zenon
<1>4. ASSUME NEW v \in AnyOctet, NEW w \in AnyOctet, NEW x \in AnyOctet, NEW y \in AnyOctet, NEW last \in AnyOctet
      PROVE  Fine(<<v, w, x, y>>, last)
  <2>1. <<v, w, x, y>> \in Seq(AnyOctet) /\ Len(<<v, w, x, y>>) <= 15
    OBVIOUS
  <2>. HIDE DEF Fine
  <2>. QED  BY <1>0, <2>1, Zenon
<1>7. \A n \in 0 .. 255 : n \in AnyOctet
  BY DEF AnyOctet
<1>14. /\ 1 \in AnyOctet /\ 2 \in AnyOctet /\ 5 \in AnyOctet /\ 9 \in AnyOctet /\ 13 \in AnyOctet
       /\ 32 \in AnyOctet /\ 128 \in AnyOctet /\ 184 \in AnyOctet /\ 192 \in AnyOctet
       /\ 198 \in AnyOctet /\ 199 \in AnyOctet /\ 254 \in AnyOctet /\ 255 \in AnyOctet
  BY <1>7
<1>. HIDE DEF Fine
<1>8. Fine(<<>>, 1)
  BY <1>0, <1>1, <1>14, Zenon
<1>9. Fine(<<254, 128>>, 1) /\ Fine(<<254, 192>>, 1) /\ Fine(<<255, 5>>, 1) /\ Fine(<<254, 128>>, 9)
  BY <1>2, <1>14
<1>10. Fine(<<32, 2, 198>>, 1) /\ Fine(<<32, 2, 199>>, 1)
  BY <1>3, <1>14
<1>11. Fine(<<32, 1, 13, 184>>, 1) /\ Fine(<<32, 1, 13, 184>>, 9)
  BY <1>4, <1>14
<1>12. /\ V6(Zeros(10) \o <<255, 255, 10, 0, 0, 1>>) \in AnyAddress
       /\ V6(Zeros(10) \o <<255, 255, 10, 0, 0, 1>>).family = 6
  <2>1. PICK last : last = <<255, 255, 10, 0, 0, 1>>
    OBVIOUS
  <2>2. last \in Seq(AnyOctet) /\ Len(last) = 6
    BY <1>7, <2>1
  <2>3. PICK n \in Nat : n = 10
    OBVIOUS
  <2>4. n + Len(last) = 16
    BY <2>2, <2>3
  <2>5. V6(Zeros(n) \o last) \in AnyAddress /\ V6(Zeros(n) \o last).family = 6
    BY <2>2, <2>4, BehindZeros, Zenon
  <2>. QED  BY <2>1, <2>3, <2>5, Zenon
<1>13. /\ V6(Zeros(12) \o <<198, 51, 100, 2>>) \in AnyAddress
       /\ V6(Zeros(12) \o <<198, 51, 100, 2>>).family = 6
  <2>1. PICK last : last = <<198, 51, 100, 2>>
    OBVIOUS
  <2>2. last \in Seq(AnyOctet) /\ Len(last) = 4
    BY <1>7, <2>1
  <2>3. PICK n \in Nat : n = 12
    OBVIOUS
  <2>4. n + Len(last) = 16
    BY <2>2, <2>3
  <2>5. V6(Zeros(n) \o last) \in AnyAddress /\ V6(Zeros(n) \o last).family = 6
    BY <2>2, <2>4, BehindZeros, Zenon
  <2>. QED  BY <2>1, <2>3, <2>5, Zenon
<1>. QED  BY <1>8, <1>9, <1>10, <1>11, <1>12, <1>13 DEF Addresses6, Fine

LEMMA KnownDestinations == ASSUME NEW d \in Destinations PROVE AnyDestination(d)
<1>. DEFINE Sources4 == {V4(<<10, 0, 0, 7>>), V4(<<198, 51, 100, 8>>)}
            Sources6 == {Six(<<32, 1, 13, 184>>, 9), Six(<<254, 128>>, 9)}
<1>1. \/ \E a \in Addresses4 \cup Addresses6 : d = [addr |-> a, src |-> NoSource]
      \/ \E a \in Addresses4, s \in Sources4 : d = [addr |-> a, src |-> s]
      \/ \E a \in Addresses6, s \in Sources6 : d = [addr |-> a, src |-> s]
  BY DEF Destinations
<1>2. /\ \A a \in Addresses4 : a \in AnyAddress /\ a.family = 4
      /\ \A s \in Sources4 : s \in AnyAddress /\ s.family = 4
  BY KnownFour
<1>3. /\ \A a \in Addresses6 : a \in AnyAddress /\ a.family = 6
      /\ \A s \in Sources6 : s \in AnyAddress /\ s.family = 6
  BY KnownSix
<1>. HIDE DEF Sources4, Sources6
<1>4. ASSUME NEW a \in Addresses4 \cup Addresses6, d = [addr |-> a, src |-> NoSource]
      PROVE  AnyDestination(d)
  BY <1>2, <1>3, <1>4 DEF AnyDestination, HasSource
<1>5. ASSUME NEW a \in Addresses4, NEW s \in Sources4, d = [addr |-> a, src |-> s]
      PROVE  AnyDestination(d)
  BY <1>2, <1>5 DEF AnyDestination
<1>6. ASSUME NEW a \in Addresses6, NEW s \in Sources6, d = [addr |-> a, src |-> s]
      PROVE  AnyDestination(d)
  BY <1>3, <1>6 DEF AnyDestination
<1>. QED  BY <1>1, <1>4, <1>5, <1>6

-----------------------------------------------------------------------------
(* The reading of an answer.                                               *)

\* One turn of the loop of ti_dns_parse_hostname_answer(): the name wanted after
\* record k, and the places taken.
WantedNext(answer, domain, k, wanted) ==
  IF Alias(answer[k]) /\ Owns(answer[k], domain, wanted) /\ (answer[k].text \/ wanted # NoName)
    THEN answer[k].value ELSE wanted

TakenNext(answer, domain, k, taken) ==
  IF TakesFrom(answer[k], domain, WantedAfter(answer, domain)[k - 1]) THEN Append(taken, k) ELSE taken

\* The names that one more alias leads to.
AliasesNext(answer, names) ==
  names \cup {answer[k].value : k \in {i \in DOMAIN answer : Alias(answer[i]) /\ answer[i].owner \in names}}

LEMMA OnePushed ==
  ASSUME NEW S, NEW s \in Seq(S), NEW x \in S
  PROVE  Append(s, x) \in Seq(S) /\ Range(Append(s, x)) = Range(s) \cup {x}
<1>1. /\ DOMAIN Append(s, x) = (DOMAIN s) \cup {Len(s) + 1}
      /\ \A i \in DOMAIN s : Append(s, x)[i] = s[i] /\ i # Len(s) + 1
      /\ Append(s, x)[Len(s) + 1] = x
  OBVIOUS
<1>. QED  BY <1>1 DEF Range

LEMMA WantedRounds ==
  ASSUME NEW answer, Len(answer) \in Nat, NEW domain
  PROVE  /\ WantedAfter(answer, domain)[0] = NoName
         /\ \A k \in 1 .. Len(answer) :
              WantedAfter(answer, domain)[k] = WantedNext(answer, domain, k, WantedAfter(answer, domain)[k - 1])
<1>. DEFINE N == Len(answer)
            S == {NoName} \cup {answer[k].value : k \in 1 .. N}
            R(g) == [k \in 0 .. N |->
                      IF k = 0 THEN NoName
                      ELSE IF /\ Alias(answer[k]) /\ Owns(answer[k], domain, g[k - 1])
                              /\ answer[k].text \/ g[k - 1] # NoName
                        THEN answer[k].value
                      ELSE g[k - 1]]
            F == [x \in (1 .. N) \X S |-> WantedNext(answer, domain, x[1], x[2])]
<1>1. F \in RoundRules(S, N)
  BY DEF RoundRules, WantedNext
<1>2. \E f : IsRun(S, NoName, N, F, f)
  <2>1. NoName \in S
    OBVIOUS
  <2>. HIDE DEF F, S
  <2>. QED  BY <1>1, <2>1, Rounds
<1>3. PICK f \in [0 .. N -> S] : f[0] = NoName /\ \A k \in 1 .. N : f[k] = F[<<k, f[k - 1]>>]
  BY <1>2 DEF IsRun
<1>4. ASSUME NEW k \in 1 .. N PROVE f[k] = WantedNext(answer, domain, k, f[k - 1])
  <2>1. f[k - 1] \in S
    <3>. HIDE DEF S
    <3>. QED  BY <1>3, <1>4
  <2>. HIDE DEF S
  <2>. QED  BY <1>3, <1>4, <2>1
<1>5. f = R(f)
  <2>1. ASSUME NEW k \in 0 .. N PROVE f[k] = R(f)[k]
    <3>1. CASE k = 0
      BY <1>3, <3>1
    <3>2. CASE k # 0
      <4>1. k \in 1 .. N
        BY <3>2
      <4>. QED  BY <1>4, <3>2, <4>1 DEF WantedNext
    <3>. QED  BY <3>1, <3>2
  <2>. HIDE DEF S
  <2>. QED  BY <1>3, <2>1
<1>6. PICK p : p = CHOOSE g : g = R(g)
  OBVIOUS
<1>7. p = R(p)
  <2>. HIDE DEF R
  <2>. QED  BY <1>5, <1>6, Zenon
<1>8. WantedAfter(answer, domain) = p
  BY <1>6, Zenon DEF WantedAfter
<1>9. ASSUME NEW k \in 0 .. N PROVE p[k] = R(p)[k]
  BY <1>7
<1>10. p[0] = NoName
  BY <1>9
<1>11. ASSUME NEW k \in 1 .. N PROVE p[k] = WantedNext(answer, domain, k, p[k - 1])
  <2>1. k \in 0 .. N /\ k # 0
    OBVIOUS
  <2>. QED  BY <1>9, <2>1 DEF WantedNext
<1>. QED  BY <1>8, <1>10, <1>11

LEMMA TakenRounds ==
  ASSUME NEW answer, Len(answer) \in Nat, NEW domain
  PROVE  \E p : /\ p[0] = <<>>
                /\ \A k \in 1 .. Len(answer) : p[k] = TakenNext(answer, domain, k, p[k - 1])
                /\ Taken(answer, domain) = p[Len(answer)]
<1>. DEFINE N == Len(answer)
            R(g) == [k \in 0 .. N |->
                      IF k = 0 THEN <<>>
                      ELSE IF TakesFrom(answer[k], domain, WantedAfter(answer, domain)[k - 1])
                        THEN Append(g[k - 1], k)
                      ELSE g[k - 1]]
            F == [x \in (1 .. N) \X Seq(1 .. N) |-> TakenNext(answer, domain, x[1], x[2])]
<1>1. F \in RoundRules(Seq(1 .. N), N)
  <2>1. ASSUME NEW k \in 1 .. N, NEW t \in Seq(1 .. N) PROVE TakenNext(answer, domain, k, t) \in Seq(1 .. N)
    <3>1. Append(t, k) \in Seq(1 .. N)
      BY <2>1, OnePushed, Zenon
    <3>. QED  BY <2>1, <3>1, Zenon DEF TakenNext
  <2>. QED  BY <2>1 DEF RoundRules
<1>2. \E f : IsRun(Seq(1 .. N), <<>>, N, F, f)
  <2>1. <<>> \in Seq(1 .. N)
    OBVIOUS
  <2>. HIDE DEF F
  <2>. QED  BY <1>1, <2>1, Rounds
<1>3. PICK f \in [0 .. N -> Seq(1 .. N)] : f[0] = <<>> /\ \A k \in 1 .. N : f[k] = F[<<k, f[k - 1]>>]
  BY <1>2 DEF IsRun
<1>4. ASSUME NEW k \in 1 .. N PROVE f[k] = TakenNext(answer, domain, k, f[k - 1])
  <2>1. f[k - 1] \in Seq(1 .. N)
    BY <1>3, <1>4
  <2>. QED  BY <1>3, <1>4, <2>1
<1>5. f = R(f)
  <2>1. ASSUME NEW k \in 0 .. N PROVE f[k] = R(f)[k]
    <3>1. CASE k = 0
      BY <1>3, <3>1
    <3>2. CASE k # 0
      <4>1. k \in 1 .. N
        BY <3>2
      <4>. QED  BY <1>4, <3>2, <4>1 DEF TakenNext
    <3>. QED  BY <3>1, <3>2
  <2>. QED  BY <1>3, <2>1
<1>6. PICK p : p = CHOOSE g : g = R(g)
  OBVIOUS
<1>7. p = R(p)
  <2>. HIDE DEF R
  <2>. QED  BY <1>5, <1>6, Zenon
<1>8. Taken(answer, domain) = p[N]
  BY <1>6, Zenon DEF Taken
<1>9. ASSUME NEW k \in 0 .. N PROVE p[k] = R(p)[k]
  BY <1>7
<1>10. p[0] = <<>>
  BY <1>9
<1>11. ASSUME NEW k \in 1 .. N PROVE p[k] = TakenNext(answer, domain, k, p[k - 1])
  <2>1. k \in 0 .. N /\ k # 0
    OBVIOUS
  <2>. QED  BY <1>9, <2>1 DEF TakenNext
<1>. QED  BY <1>8, <1>10, <1>11

LEMMA AliasesRounds ==
  ASSUME NEW answer, Len(answer) \in Nat, NEW domain
  PROVE  \E p : /\ p[0] = {domain}
                /\ \A n \in 1 .. Len(answer) : p[n] = AliasesNext(answer, p[n - 1])
                /\ Aliases(answer, domain) = p[Len(answer)]
<1>. DEFINE N == Len(answer)
            S == SUBSET ({domain} \cup {answer[k].value : k \in DOMAIN answer})
            R(g) == [n \in 0 .. N |->
                      IF n = 0 THEN {domain}
                      ELSE g[n - 1] \cup {answer[k].value : k \in {i \in DOMAIN answer :
                               Alias(answer[i]) /\ answer[i].owner \in g[n - 1]}}]
            F == [x \in (1 .. N) \X S |-> AliasesNext(answer, x[2])]
<1>1. F \in RoundRules(S, N)
  <2>1. ASSUME NEW names \in S PROVE AliasesNext(answer, names) \in S
    BY DEF AliasesNext
  <2>. HIDE DEF S
  <2>. QED  BY <2>1 DEF RoundRules
<1>2. \E f : IsRun(S, {domain}, N, F, f)
  <2>1. {domain} \in S
    OBVIOUS
  <2>. HIDE DEF F, S
  <2>. QED  BY <1>1, <2>1, Rounds
<1>3. PICK f \in [0 .. N -> S] : f[0] = {domain} /\ \A n \in 1 .. N : f[n] = F[<<n, f[n - 1]>>]
  BY <1>2 DEF IsRun
<1>4. ASSUME NEW n \in 1 .. N PROVE f[n] = AliasesNext(answer, f[n - 1])
  <2>. HIDE DEF S
  <2>1. f[n - 1] \in S
    BY <1>3, <1>4
  <2>. QED  BY <1>3, <1>4, <2>1
<1>5. f = R(f)
  <2>1. ASSUME NEW n \in 0 .. N PROVE f[n] = R(f)[n]
    <3>1. CASE n = 0
      BY <1>3, <3>1
    <3>2. CASE n # 0
      <4>1. n \in 1 .. N
        BY <3>2
      <4>. QED  BY <1>4, <3>2, <4>1 DEF AliasesNext
    <3>. QED  BY <3>1, <3>2
  <2>. HIDE DEF S
  <2>. QED  BY <1>3, <2>1
<1>6. PICK p : p = CHOOSE g : g = R(g)
  OBVIOUS
<1>7. p = R(p)
  <2>. HIDE DEF R
  <2>. QED  BY <1>5, <1>6, Zenon
<1>8. Aliases(answer, domain) = p[N]
  BY <1>6, Zenon DEF Aliases
<1>9. ASSUME NEW n \in 0 .. N PROVE p[n] = R(p)[n]
  BY <1>7
<1>10. p[0] = {domain}
  <2>1. 0 \in 0 .. N
    OBVIOUS
  <2>2. R(p)[0] = {domain}
    BY <2>1
  <2>. HIDE DEF R
  <2>. QED  BY <1>9, <2>1, <2>2
<1>11. ASSUME NEW n \in 1 .. N PROVE p[n] = AliasesNext(answer, p[n - 1])
  <2>1. n \in 0 .. N /\ n # 0
    OBVIOUS
  <2>. QED  BY <1>9, <2>1 DEF AliasesNext
<1>. QED  BY <1>8, <1>10, <1>11

\* The places taken are those of the records that are taken from.
LEMMA TakenAre ==
  ASSUME NEW answer, Len(answer) \in Nat, NEW domain
  PROVE  /\ Taken(answer, domain) \in Seq(1 .. Len(answer))
         /\ Range(Taken(answer, domain)) =
              {k \in 1 .. Len(answer) : TakesFrom(answer[k], domain, WantedAfter(answer, domain)[k - 1])}
<1>. DEFINE N == Len(answer)
            Takes(k) == TakesFrom(answer[k], domain, WantedAfter(answer, domain)[k - 1])
<1>1. PICK p : /\ p[0] = <<>>
               /\ \A k \in 1 .. N : p[k] = TakenNext(answer, domain, k, p[k - 1])
               /\ Taken(answer, domain) = p[N]
  BY TakenRounds
<1>. DEFINE T == {n \in 0 .. N : p[n] \in Seq(1 .. N) /\ Range(p[n]) = {k \in 1 .. n : Takes(k)}}
<1>2. 0 \in T
  <2>1. <<>> \in Seq(1 .. N) /\ Range(<<>>) = {}
    BY DEF Range
  <2>2. {k \in 1 .. 0 : Takes(k)} = {}
    OBVIOUS
  <2>. HIDE DEF Takes
  <2>3. p[0] \in Seq(1 .. N) /\ Range(p[0]) = {k \in 1 .. 0 : Takes(k)}
    BY <1>1, <2>1, <2>2, Zenon
  <2>. QED  BY <2>3
<1>3. ASSUME NEW n \in 1 .. N, n - 1 \in T PROVE n \in T
  <2>. HIDE DEF Takes
  <2>1. p[n] = IF Takes(n) THEN Append(p[n - 1], n) ELSE p[n - 1]
    BY <1>1 DEF TakenNext, Takes
  <2>2. p[n - 1] \in Seq(1 .. N) /\ Range(p[n - 1]) = {k \in 1 .. n - 1 : Takes(k)}
    BY <1>3
  <2>3. 1 .. n = (1 .. n - 1) \cup {n}
    OBVIOUS
  <2>4. CASE ~Takes(n)
    BY <2>1, <2>2, <2>3, <2>4
  <2>5. CASE Takes(n)
    <3>1. /\ Append(p[n - 1], n) \in Seq(1 .. N)
          /\ Range(Append(p[n - 1], n)) = Range(p[n - 1]) \cup {n}
      <4>1. PICK S, s, x : S = 1 .. N /\ s = p[n - 1] /\ x = n
        OBVIOUS
      <4>2. s \in Seq(S) /\ x \in S
        BY <2>2, <4>1
      <4>3. Append(s, x) \in Seq(S) /\ Range(Append(s, x)) = Range(s) \cup {x}
        BY <4>2, OnePushed
      <4>. QED  BY <4>1, <4>3, Zenon
    <3>2. p[n] = Append(p[n - 1], n)
      BY <2>1, <2>5
    <3>3. p[n] \in Seq(1 .. N) /\ Range(p[n]) = Range(p[n - 1]) \cup {n}
      BY <2>2, <3>1, <3>2
    <3>4. Range(p[n]) = {k \in 1 .. n : Takes(k)}
      BY <2>2, <2>3, <2>5, <3>3
    <3>. QED  BY <3>3, <3>4
  <2>. QED  BY <2>4, <2>5
<1>. HIDE DEF T
<1>4. 0 .. N \subseteq T
  BY <1>2, <1>3, CountedUp
<1>5. N \in T
  BY <1>4
<1>. QED  BY <1>1, <1>5 DEF T

\* What is wanted is what the aliases looked at lead to.
LEMMA WantedIsAlias ==
  ASSUME NEW answer, Len(answer) \in Nat, DOMAIN answer = 1 .. Len(answer), NEW domain,
         \A k \in 1 .. Len(answer) : answer[k].owner # NoName
  PROVE  \A k \in 0 .. Len(answer) :
           WantedAfter(answer, domain)[k] \in {NoName} \cup Aliases(answer, domain)
           /\ domain \in Aliases(answer, domain)
<1>. DEFINE N == Len(answer)  w == WantedAfter(answer, domain)
<1>1. w[0] = NoName /\ \A k \in 1 .. N : w[k] = WantedNext(answer, domain, k, w[k - 1])
  BY WantedRounds
<1>2. PICK to : /\ to[0] = {domain}
                /\ \A n \in 1 .. N : to[n] = AliasesNext(answer, to[n - 1])
                /\ Aliases(answer, domain) = to[N]
  BY AliasesRounds
<1>3. \A n \in 1 .. N : to[n - 1] \subseteq to[n]
  BY <1>2 DEF AliasesNext
<1>. HIDE DEF w
<1>. DEFINE T == {k \in 0 .. N : domain \in to[k] /\ w[k] \in {NoName} \cup to[k]}
<1>4. 0 \in T
  BY <1>1, <1>2
<1>5. ASSUME NEW k \in 1 .. N, k - 1 \in T PROVE k \in T
  <2>1. domain \in to[k - 1] /\ w[k - 1] \in {NoName} \cup to[k - 1]
    BY <1>5
  <2>2. CASE w[k] = w[k - 1]
    <3>1. w[k] = w[k - 1]
      BY <2>2
    <3>. QED  BY <1>3, <2>1, <3>1
  <2>3. CASE Alias(answer[k]) /\ Owns(answer[k], domain, w[k - 1]) /\ w[k] = answer[k].value
    <3>1. w[k] = answer[k].value
      BY <2>3
    <3>2. answer[k].owner \in to[k - 1]
      BY <2>1, <2>3 DEF Owns
    <3>3. answer[k].value \in to[k]
      BY <1>2, <2>3, <3>2 DEF AliasesNext
    <3>. QED  BY <1>3, <2>1, <3>1, <3>3
  <2>4. w[k] = WantedNext(answer, domain, k, w[k - 1])
    BY <1>1
  <2>. QED  BY <2>2, <2>3, <2>4 DEF WantedNext
<1>6. 0 .. N \subseteq T
  <2>. HIDE DEF T
  <2>. QED  BY <1>4, <1>5, CountedUp
\* To the end of the answer there are ever more aliases.
<1>. DEFINE U == {m \in 0 .. N : to[N - m] \subseteq to[N]}
<1>7. 0 \in U
  OBVIOUS
<1>8. ASSUME NEW m \in 1 .. N, m - 1 \in U PROVE m \in U
  <2>1. N - m + 1 \in 1 .. N /\ (N - m + 1) - 1 = N - m /\ N - (m - 1) = N - m + 1
    OBVIOUS
  <2>2. to[N - m] \subseteq to[N - m + 1]
    BY <1>3, <2>1
  <2>. QED  BY <1>8, <2>1, <2>2
<1>9. 0 .. N \subseteq U
  <2>. HIDE DEF U
  <2>. QED  BY <1>7, <1>8, CountedUp
<1>10. ASSUME NEW k \in 0 .. N PROVE to[k] \subseteq to[N]
  <2>1. N - k \in 0 .. N /\ N - (N - k) = k
    OBVIOUS
  <2>. QED  BY <1>9, <2>1
<1>11. ASSUME NEW k \in 0 .. N PROVE w[k] \in {NoName} \cup to[N] /\ domain \in to[N]
  BY <1>6, <1>10
<1>. QED  BY <1>2, <1>11 DEF w

\* If the aliases come in order, what is wanted is the name the last one gave.
LEMMA WantedIsLast ==
  ASSUME NEW answer, Len(answer) \in Nat, DOMAIN answer = 1 .. Len(answer), NEW domain,
         InChainOrder(answer, domain)
  PROVE  \A k \in 1 .. Len(answer) :
           Read(answer[k]) => Owns(answer[k], domain, WantedAfter(answer, domain)[k - 1])
<1>. DEFINE N == Len(answer)  w == WantedAfter(answer, domain)
            Found(k) == {i \in 1 .. k : Alias(answer[i])}
            Newest(k, i) == i \in Found(k) /\ \A j \in Found(k) : j <= i
            Good(k) == \/ Found(k) = {}
                       \/ \E i \in 1 .. k : Newest(k, i) /\ w[k] = answer[i].value
            T == {k \in 0 .. N : Good(k)}
<1>1. w[0] = NoName /\ \A k \in 1 .. N : w[k] = WantedNext(answer, domain, k, w[k - 1])
  BY WantedRounds
<1>. HIDE DEF w
<1>2. ASSUME NEW k \in 1 .. N, Read(answer[k]), Good(k - 1)
      PROVE  Owns(answer[k], domain, w[k - 1])
  <2>1. /\ Found(k - 1) = {} => answer[k].owner = domain
        /\ Found(k - 1) # {} =>
             answer[k].owner = answer[CHOOSE i \in Found(k - 1) : \A j \in Found(k - 1) : j <= i].value
    BY <1>2 DEF InChainOrder
  <2>2. CASE Found(k - 1) = {}
    BY <2>1, <2>2 DEF Owns
  <2>3. CASE Found(k - 1) # {}
    <3>1. PICK i \in 1 .. k - 1 : Newest(k - 1, i) /\ w[k - 1] = answer[i].value
      BY <1>2, <2>3
    <3>2. \A m \in Found(k - 1) : (\A j \in Found(k - 1) : j <= m) => m = i
      BY <3>1
    <3>3. (CHOOSE m \in Found(k - 1) : \A j \in Found(k - 1) : j <= m) = i
      <4>1. i \in Found(k - 1) /\ \A j \in Found(k - 1) : j <= i
        BY <3>1
      <4>. HIDE DEF Found
      <4>. QED  BY <3>2, <4>1
    <3>. QED  BY <2>1, <2>3, <3>1, <3>3 DEF Owns
  <2>. QED  BY <2>2, <2>3
<1>3. 0 \in T
  OBVIOUS
<1>4. ASSUME NEW k \in 1 .. N, k - 1 \in T PROVE k \in T
  <2>1. Good(k - 1)
    BY <1>4
  <2>2. Found(k) = Found(k - 1) \cup {i \in {k} : Alias(answer[i])}
    OBVIOUS
  <2>3. CASE Alias(answer[k])
    <3>1. Owns(answer[k], domain, w[k - 1])
      BY <1>2, <2>1, <2>3 DEF Alias
    <3>2. w[k] = answer[k].value
      <4>1. Read(answer[k]) /\ k \in DOMAIN answer
        BY <2>3 DEF Alias
      <4>2. answer[k].text
        BY <2>3, <4>1 DEF InChainOrder
      <4>. QED  BY <1>1, <2>3, <3>1, <4>2 DEF WantedNext
    <3>3. Newest(k, k)
      BY <2>3
    <3>. QED  BY <3>2, <3>3
  <2>4. CASE ~Alias(answer[k])
    <3>1. w[k] = w[k - 1] /\ Found(k) = Found(k - 1)
      BY <1>1, <2>2, <2>4 DEF WantedNext
    <3>2. \A i \in 1 .. k - 1 : i \in 1 .. k
      OBVIOUS
    <3>. QED  BY <2>1, <3>1, <3>2
  <2>. QED  BY <2>3, <2>4
<1>5. 0 .. N \subseteq T
  <2>. HIDE DEF T
  <2>. QED  BY <1>3, <1>4, CountedUp
<1>6. ASSUME NEW k \in 1 .. N, Read(answer[k]) PROVE Owns(answer[k], domain, w[k - 1])
  <2>1. k - 1 \in T
    BY <1>5
  <2>. HIDE DEF Good
  <2>. QED  BY <1>2, <1>6, <2>1
<1>. QED  BY <1>6 DEF w

-----------------------------------------------------------------------------
(* What is read of a message.                                              *)

Byte == 0 .. 255

Stops == Nat \X (0 .. DepthLimit) \X (0 .. OwnerBuffer)

\* The room of the buffers.
LEMMA RoomIs ==
  /\ NameLimit \in Nat \ {0} /\ DepthLimit \in Nat /\ OwnerBuffer \in Nat /\ TextBuffer \in Nat
  /\ NameLimit \in 0 .. OwnerBuffer /\ TextBuffer \in 0 .. OwnerBuffer /\ TextBuffer < NameLimit
BY LimitsAssumption DEF OwnerBuffer, TextBuffer

\* The label that begins at p.
LabelAt(msg, p, beyond) == [i \in 1 .. Octet(msg, p, beyond) |-> Octet(msg, p + i, beyond)]

\* Where a pointer at p leads.
TargetAt(msg, p, beyond) == Pack2(msg, p, beyond) - 192 * 256

\* What a walk finds from p, with so many pointers and so many octets left, where rest is what it finds from there.
Found(msg, beyond, asText, rest, p, depth, left) ==
  LET len == Octet(msg, p, beyond) IN
  IF p >= Len(msg) THEN Bad
  ELSE IF len = 0 THEN IF left > 0 THEN IF asText THEN <<>> ELSE << 0 >> ELSE Bad
  ELSE IF IsPointer(len)
    THEN IF depth = 0 THEN Bad ELSE rest[<<TargetAt(msg, p, beyond), depth - 1, left>>]
  ELSE IF ~Fits(len + 1, left) THEN Bad
  ELSE Before(Piece(LabelAt(msg, p, beyond), asText), rest[<<p + len + 1, depth, left - (len + 1)>>])

\* Octets are numbers.
LEMMA ByteIs == \A b \in Byte : b \in Nat /\ b \in Int /\ 0 <= b /\ b <= 255
BY DEF Byte

\* What is read of a message, and behind it, is octets.
LEMMA BytesRead ==
  ASSUME NEW msg \in Seq(Byte), NEW beyond \in Byte
  PROVE  /\ \A p \in Nat : Octet(msg, p, beyond) \in Byte
         /\ \A p \in Nat : IsPointer(Octet(msg, p, beyond)) => TargetAt(msg, p, beyond) \in Nat
         /\ \A p \in Nat : LabelAt(msg, p, beyond) \in Seq(Byte)
                           /\ Len(LabelAt(msg, p, beyond)) = Octet(msg, p, beyond)
<1>1. ASSUME NEW p \in Nat PROVE Octet(msg, p, beyond) \in Byte
  BY DEF Octet
<1>2. ASSUME NEW p \in Nat, IsPointer(Octet(msg, p, beyond)) PROVE TargetAt(msg, p, beyond) \in Nat
  <2>1. PICK a, b : a = Octet(msg, p, beyond) /\ b = Octet(msg, p + 1, beyond)
    OBVIOUS
  <2>2. a \in Nat /\ b \in Nat /\ a >= 192
    <3>1. p + 1 \in Nat
      OBVIOUS
    <3>2. a \in Byte /\ b \in Byte
      BY <1>1, <2>1, <3>1
    <3>3. a >= 192
      BY <1>2, <2>1 DEF IsPointer
    <3>. QED  BY <3>2, <3>3, ByteIs
  <2>3. TargetAt(msg, p, beyond) = 256 * a + b - 192 * 256
    BY <2>1, <2>2 DEF TargetAt, Pack2
  <2>4. 256 * a + b - 192 * 256 \in Nat
    BY <2>2
  <2>. QED  BY <2>3, <2>4, Zenon
<1>3. ASSUME NEW p \in Nat
      PROVE  LabelAt(msg, p, beyond) \in Seq(Byte) /\ Len(LabelAt(msg, p, beyond)) = Octet(msg, p, beyond)
  <2>1. PICK n : n = Octet(msg, p, beyond)
    OBVIOUS
  <2>2. n \in Nat
    BY <1>1, <2>1, ByteIs
  <2>3. LabelAt(msg, p, beyond) \in [1 .. n -> Byte]
    BY <1>1, <2>1, <2>2 DEF LabelAt
  <2>4. \A f \in [1 .. n -> Byte] : f \in Seq(Byte) /\ Len(f) = n
    BY <2>2
  <2>. QED  BY <2>1, <2>3, <2>4
<1>. QED  BY <1>1, <1>2, <1>3

\* The piece a label gives a name or a text is one octet longer than the label.
LEMMA PieceIs ==
  ASSUME NEW l \in Seq(Byte), Len(l) \in Byte, NEW asText \in BOOLEAN
  PROVE  Piece(l, asText) \in Seq(Byte) /\ Len(Piece(l, asText)) = Len(l) + 1
<1>1. CASE asText
  BY <1>1 DEF Piece, Dot, Byte
<1>2. CASE ~asText
  <2>1. <<Len(l)>> \in Seq(Byte) /\ Len(<<Len(l)>>) = 1
    OBVIOUS
  <2>. QED  BY <1>2, <2>1 DEF Piece
<1>. QED  BY <1>1, <1>2

\* No name and no text is a failure.
LEMMA BadIs ==
  /\ Bad \in Seq(Int) /\ Wild \in Seq(Int) /\ Bad # Wild
  /\ \A s \in Seq(Byte) : s # Bad /\ s # Wild
<1>1. Bad \in Seq(Int) /\ Bad[1] = -1 /\ Len(Bad) = 1
  BY DEF Bad
<1>2. Wild \in Seq(Int) /\ Wild[1] = -2 /\ Len(Wild) = 1
  BY DEF Wild
<1>3. ASSUME NEW s \in Seq(Byte), s \in {Bad, Wild} PROVE FALSE
  <2>1. 1 \in 1 .. Len(s) /\ s[1] < 0
    BY <1>1, <1>2, <1>3
  <2>2. s[1] \in Byte
    BY <2>1, ElementOfSeq
  <2>. QED  BY <2>1, <2>2, ByteIs
<1>4. Bad # Wild
  BY <1>1, <1>2
<1>. QED  BY <1>1, <1>2, <1>3, <1>4

\* A piece joined to what is found behind it, or to a failure, is a sequence.
LEMMA BeforeIs ==
  ASSUME NEW s \in Seq(Byte), NEW t \in Seq(Int)
  PROVE  Before(s, t) \in Seq(Int)
<1>1. s \in Seq(Int)
  <2>1. Byte \subseteq Int
    BY ByteIs
  <2>. QED  BY <2>1, SeqMonotonic
<1>. QED  BY <1>1, BadIs, ConcatProperties DEF Before

\* How far a walk is from its end at most: a pointer leads to a place with fewer
\* pointers left, a label to one with fewer octets left.
StopSize == [at \in Stops |-> at[2] * (OwnerBuffer + 1) + at[3]]
StopSizes == (DepthLimit + 1) * (OwnerBuffer + 1)

\* Every step of a walk leads to a stop of a smaller size.
LEMMA WalkShrinks ==
  ASSUME NEW msg \in Seq(Byte), NEW beyond \in Byte
  PROVE  /\ StopSizes \in Nat /\ StopSize \in [Stops -> 0 .. StopSizes]
         /\ \A p \in Nat, depth \in 0 .. DepthLimit, left \in 0 .. OwnerBuffer :
              /\ <<p, depth, left>> \in Stops
              /\ depth # 0 /\ IsPointer(Octet(msg, p, beyond)) =>
                   /\ <<TargetAt(msg, p, beyond), depth - 1, left>> \in Stops
                   /\ StopSize[<<TargetAt(msg, p, beyond), depth - 1, left>>] < StopSize[<<p, depth, left>>]
              /\ Fits(Octet(msg, p, beyond) + 1, left) =>
                   LET len == Octet(msg, p, beyond) IN
                   /\ <<p + len + 1, depth, left - (len + 1)>> \in Stops
                   /\ StopSize[<<p + len + 1, depth, left - (len + 1)>>] < StopSize[<<p, depth, left>>]
<1>0. OwnerBuffer \in Nat /\ DepthLimit \in Nat
  BY RoomIs
<1>1. StopSizes \in Nat /\ StopSize \in [Stops -> 0 .. StopSizes]
  <2>1. ASSUME NEW d \in 0 .. DepthLimit, NEW t \in 0 .. OwnerBuffer
        PROVE  d * (OwnerBuffer + 1) + t \in 0 .. StopSizes
    <3>1. PICK M \in Nat, e \in Nat : M = OwnerBuffer + 1 /\ DepthLimit = d + e
      <4>1. OwnerBuffer + 1 \in Nat /\ DepthLimit - d \in Nat /\ DepthLimit = d + (DepthLimit - d)
        BY <1>0
      <4>. QED  BY <4>1
    <3>2. d * M \in Nat /\ e * M \in Nat /\ (d + e + 1) * M = d * M + e * M + M
      <4>1. \A i, j, n \in Nat : i * n \in Nat /\ (i + j + 1) * n = i * n + j * n + n
        OBVIOUS
      <4>2. d \in Nat /\ M \in Nat /\ e \in Nat
        BY <1>0, <3>1
      <4>. QED  BY <4>1, <4>2, Zenon
    <3>3. StopSizes = d * M + e * M + M
      BY <3>1, <3>2 DEF StopSizes
    <3>4. PICK y \in Nat, z \in Nat : y = d * M /\ z = e * M
      BY <3>2
    <3>5. y + t \in 0 .. y + z + M
      BY <1>0, <3>1
    <3>. QED  BY <3>1, <3>3, <3>4, <3>5
  <2>2. \A at \in Stops : at[2] \in 0 .. DepthLimit /\ at[3] \in 0 .. OwnerBuffer
    BY DEF Stops
  <2>3. StopSizes \in Nat
    BY <1>0 DEF StopSizes
  <2>. QED  BY <2>1, <2>2, <2>3 DEF StopSize
<1>2. \A p \in Nat, depth \in 0 .. DepthLimit, left \in 0 .. OwnerBuffer :
        /\ <<p, depth, left>> \in Stops
        /\ StopSize[<<p, depth, left>>] = depth * (OwnerBuffer + 1) + left
  BY DEF Stops, StopSize
<1>3. ASSUME NEW p \in Nat, NEW depth \in 0 .. DepthLimit, NEW left \in 0 .. OwnerBuffer,
             depth # 0, IsPointer(Octet(msg, p, beyond))
      PROVE  /\ <<TargetAt(msg, p, beyond), depth - 1, left>> \in Stops
             /\ StopSize[<<TargetAt(msg, p, beyond), depth - 1, left>>] < StopSize[<<p, depth, left>>]
  <2>1. PICK q \in Nat : q = TargetAt(msg, p, beyond)
    BY <1>3, BytesRead
  <2>2. depth - 1 \in 0 .. DepthLimit
    BY <1>0, <1>3
  <2>3. (depth - 1) * (OwnerBuffer + 1) + left < depth * (OwnerBuffer + 1) + left
    BY <1>0
  <2>. QED  BY <1>2, <2>1, <2>2, <2>3
<1>4. ASSUME NEW p \in Nat, NEW depth \in 0 .. DepthLimit, NEW left \in 0 .. OwnerBuffer,
             NEW len \in Nat, Fits(len + 1, left)
      PROVE  /\ <<p + len + 1, depth, left - (len + 1)>> \in Stops
             /\ StopSize[<<p + len + 1, depth, left - (len + 1)>>] < StopSize[<<p, depth, left>>]
  <2>1. p + len + 1 \in Nat /\ left - (len + 1) \in 0 .. OwnerBuffer
    BY <1>0, <1>4 DEF Fits
  <2>2. depth * (OwnerBuffer + 1) + (left - (len + 1)) < depth * (OwnerBuffer + 1) + left
    BY <1>0
  <2>. QED  BY <1>2, <2>1, <2>2
<1>5. \A p \in Nat : Octet(msg, p, beyond) \in Nat
  BY BytesRead, ByteIs
<1>. QED  BY <1>1, <1>2, <1>3, <1>4, <1>5

\* A walk finds what the code says it does, given what it finds later.
IsWalk(msg, beyond, asText, rest) ==
  /\ rest \in [Stops -> Seq(Int)]
  /\ \A start, room : Walk(msg, start, beyond, asText, room) = rest[<<start, DepthLimit, room>>]
  /\ \A p \in Nat, depth \in 0 .. DepthLimit, left \in 0 .. OwnerBuffer :
       rest[<<p, depth, left>>] = Found(msg, beyond, asText, rest, p, depth, left)

\* A walk finds the same as the recursive function of the model, at every stop.
LEMMA WalkRests ==
  ASSUME NEW msg \in Seq(Byte), NEW beyond \in Byte, NEW asText \in BOOLEAN
  PROVE  \E rest : IsWalk(msg, beyond, asText, rest)
<1>0. \A at \in Stops :
        \E p \in Nat, depth \in 0 .. DepthLimit, left \in 0 .. OwnerBuffer : at = <<p, depth, left>>
  BY DEF Stops
<1>. DEFINE R(g) ==
              [at \in Nat \X (0 .. DepthLimit) \X (0 .. OwnerBuffer) |->
                LET p == at[1]
                    depth == at[2]
                    left == at[3]
                    len == Octet(msg, p, beyond)
                    label == [i \in 1 .. len |-> Octet(msg, p + i, beyond)]
                IN IF p >= Len(msg) THEN Bad
                   ELSE IF len = 0 THEN IF left > 0 THEN IF asText THEN <<>> ELSE << 0 >> ELSE Bad
                   ELSE IF IsPointer(len)
                     THEN IF depth = 0 THEN Bad
                          ELSE g[<<Pack2(msg, p, beyond) - 192 * 256, depth - 1, left>>]
                   ELSE IF ~Fits(len + 1, left) THEN Bad
                   ELSE Before(Piece(label, asText), g[<<p + len + 1, depth, left - (len + 1)>>])]
            G == [h \in [Stops -> Seq(Int)] |-> R(h)]
<1>1. \A g : R(g) = [at \in Stops |-> Found(msg, beyond, asText, g, at[1], at[2], at[3])]
  BY Zenon DEF Stops, Found, LabelAt, TargetAt
<1>. HIDE DEF R
<1>2. ASSUME NEW g \in [Stops -> Seq(Int)], NEW p \in Nat, NEW depth \in 0 .. DepthLimit, NEW left \in 0 .. OwnerBuffer
      PROVE  Found(msg, beyond, asText, g, p, depth, left) \in Seq(Int)
  <2>1. <<>> \in Seq(Int) /\ << 0 >> \in Seq(Int) /\ Bad \in Seq(Int)
    BY BadIs
  <2>2. depth # 0 /\ IsPointer(Octet(msg, p, beyond)) => g[<<TargetAt(msg, p, beyond), depth - 1, left>>] \in Seq(Int)
    BY WalkShrinks
  <2>3. ASSUME Fits(Octet(msg, p, beyond) + 1, left)
        PROVE Before(Piece(LabelAt(msg, p, beyond), asText),
                     g[<<p + Octet(msg, p, beyond) + 1, depth, left - (Octet(msg, p, beyond) + 1)>>]) \in Seq(Int)
    <3>1. g[<<p + Octet(msg, p, beyond) + 1, depth, left - (Octet(msg, p, beyond) + 1)>>] \in Seq(Int)
      BY <2>3, WalkShrinks
    <3>2. Piece(LabelAt(msg, p, beyond), asText) \in Seq(Byte)
      <4>1. PICK l \in Seq(Byte) : l = LabelAt(msg, p, beyond) /\ Len(l) \in Byte
        BY BytesRead
      <4>. QED  BY <4>1, PieceIs
    <3>. QED  BY <3>1, <3>2, BeforeIs
  <2>. QED  BY <2>1, <2>2, <2>3 DEF Found
<1>3. ASSUME NEW g, NEW h,
             NEW p \in Nat, NEW depth \in 0 .. DepthLimit, NEW left \in 0 .. OwnerBuffer,
             \A e \in Stops : StopSize[e] < StopSize[<<p, depth, left>>] => g[e] = h[e]
      PROVE  Found(msg, beyond, asText, g, p, depth, left) = Found(msg, beyond, asText, h, p, depth, left)
  <2>1. ASSUME depth # 0, IsPointer(Octet(msg, p, beyond))
        PROVE  g[<<TargetAt(msg, p, beyond), depth - 1, left>>] = h[<<TargetAt(msg, p, beyond), depth - 1, left>>]
    BY <1>3, <2>1, WalkShrinks
  <2>2. ASSUME Fits(Octet(msg, p, beyond) + 1, left)
        PROVE  g[<<p + Octet(msg, p, beyond) + 1, depth, left - (Octet(msg, p, beyond) + 1)>>]
                 = h[<<p + Octet(msg, p, beyond) + 1, depth, left - (Octet(msg, p, beyond) + 1)>>]
    BY <1>3, <2>2, WalkShrinks
  <2>. QED  BY <2>1, <2>2, Zenon DEF Found
<1>4. StopSizes \in Nat /\ StopSize \in [Stops -> 0 .. StopSizes]
  BY WalkShrinks
<1>5. G \in [[Stops -> Seq(Int)] -> [Stops -> Seq(Int)]]
  <2>1. ASSUME NEW g \in [Stops -> Seq(Int)] PROVE R(g) \in [Stops -> Seq(Int)]
    <3>1. \A at \in Stops : Found(msg, beyond, asText, g, at[1], at[2], at[3]) \in Seq(Int)
      BY <1>0, <1>2
    <3>. QED  BY <1>1, <3>1
  <2>. QED  BY <2>1
<1>6. \A g, h \in [Stops -> Seq(Int)] : \A d \in Stops :
        (\A e \in Stops : StopSize[e] < StopSize[d] => g[e] = h[e]) => G[g][d] = G[h][d]
  <2>1. ASSUME NEW g \in [Stops -> Seq(Int)], NEW h \in [Stops -> Seq(Int)], NEW d \in Stops,
               \A e \in Stops : StopSize[e] < StopSize[d] => g[e] = h[e]
        PROVE  G[g][d] = G[h][d]
    <3>1. PICK p \in Nat, depth \in 0 .. DepthLimit, left \in 0 .. OwnerBuffer : d = <<p, depth, left>>
      BY <1>0
    <3>2. Found(msg, beyond, asText, g, p, depth, left) = Found(msg, beyond, asText, h, p, depth, left)
      BY <1>3, <2>1, <3>1
    <3>. QED  BY <1>1, <3>1, <3>2
  <2>. HIDE DEF G
  <2>. QED  BY <2>1
<1>7. PICK m, z, f, D, S : m = StopSizes /\ z = StopSize /\ f = G /\ D = Stops /\ S = Seq(Int)
  OBVIOUS
<1>8. IsRule(D, S, m, z, f)
  <2>. HIDE DEF G
  <2>1. IsRule(Stops, Seq(Int), StopSizes, StopSize, G)
    BY <1>4, <1>5, <1>6 DEF IsRule
  <2>. QED  BY <1>7, <2>1, Zenon
<1>9. \E h \in [D -> S] : h = f[h]
  <2>1. m \in Nat /\ <<>> \in S
    <3>1. <<>> \in Seq(Int)
      OBVIOUS
    <3>. QED  BY <1>4, <1>7, <3>1
  <2>2. PICK c : c \in S
    BY <2>1
  <2>. QED  BY <1>8, <2>1, <2>2, Recursion
<1>10. PICK h \in [D -> S] : h = f[h]
  BY <1>9
<1>11. h \in [Stops -> Seq(Int)] /\ h = R(h)
  BY <1>7, <1>10
<1>12. PICK rest : rest = CHOOSE g : g = R(g)
  OBVIOUS
<1>13. rest = R(rest)
  BY <1>11, <1>12, Zenon
<1>14. rest = h
  <2>. DEFINE Same == {at \in Stops : rest[at] = h[at]}
  <2>1. ASSUME NEW at \in Stops, \A e \in Stops : StopSize[e] < StopSize[at] => e \in Same
        PROVE  at \in Same
    <3>1. PICK p \in Nat, depth \in 0 .. DepthLimit, left \in 0 .. OwnerBuffer : at = <<p, depth, left>>
      BY <1>0
    <3>2. \A e \in Stops : StopSize[e] < StopSize[at] => rest[e] = h[e]
      BY <2>1
    <3>3. Found(msg, beyond, asText, rest, p, depth, left) = Found(msg, beyond, asText, h, p, depth, left)
      BY <1>3, <3>1, <3>2
    <3>4. rest[at] = Found(msg, beyond, asText, rest, p, depth, left)
      BY <1>1, <1>13, <3>1
    <3>5. h[at] = Found(msg, beyond, asText, h, p, depth, left)
      BY <1>1, <1>11, <3>1
    <3>. QED  BY <3>3, <3>4, <3>5
  <2>2. \A at \in Stops : at \in Same
    <3>. HIDE DEF Same
    <3>. QED  BY <1>4, <2>1, BySize
  <2>3. rest = [at \in Stops |-> Found(msg, beyond, asText, rest, at[1], at[2], at[3])]
    BY <1>1, <1>13
  <2>. QED  BY <1>11, <2>2, <2>3
<1>15. \A start, room : Walk(msg, start, beyond, asText, room) = rest[<<start, DepthLimit, room>>]
  BY <1>12, Zenon DEF Walk, R
<1>16. \A p \in Nat, depth \in 0 .. DepthLimit, left \in 0 .. OwnerBuffer :
         h[<<p, depth, left>>] = Found(msg, beyond, asText, h, p, depth, left)
  <2>1. h = [at \in Stops |-> Found(msg, beyond, asText, h, at[1], at[2], at[3])]
    BY <1>1, <1>11
  <2>2. ASSUME NEW p \in Nat, NEW depth \in 0 .. DepthLimit, NEW left \in 0 .. OwnerBuffer
        PROVE  h[<<p, depth, left>>] = Found(msg, beyond, asText, h, p, depth, left)
    <3>1. PICK at \in Stops : at = <<p, depth, left>>
      BY DEF Stops
    <3>2. h[at] = Found(msg, beyond, asText, h, at[1], at[2], at[3])
      BY <2>1
    <3>. QED  BY <3>1, <3>2
  <2>. QED  BY <2>2
<1>. QED  BY <1>11, <1>14, <1>15, <1>16 DEF IsWalk

\* What holds wherever a walk stops if it holds where it stops next holds
\* wherever it stops.
Inherited(msg, beyond, T) ==
  \A p \in Nat, depth \in 0 .. DepthLimit, left \in 0 .. OwnerBuffer :
    /\ depth # 0 /\ IsPointer(Octet(msg, p, beyond)) => <<TargetAt(msg, p, beyond), depth - 1, left>> \in T
    /\ Fits(Octet(msg, p, beyond) + 1, left) =>
         <<p + Octet(msg, p, beyond) + 1, depth, left - (Octet(msg, p, beyond) + 1)>> \in T
    => <<p, depth, left>> \in T

\* Induction along a walk.
LEMMA ByWalk ==
  ASSUME NEW msg \in Seq(Byte), NEW beyond \in Byte, NEW T, Inherited(msg, beyond, T)
  PROVE  \A p \in Nat, depth \in 0 .. DepthLimit, left \in 0 .. OwnerBuffer : <<p, depth, left>> \in T
<1>1. ASSUME NEW at \in Stops, \A e \in Stops : StopSize[e] < StopSize[at] => e \in T
      PROVE  at \in T
  <2>1. PICK p \in Nat, depth \in 0 .. DepthLimit, left \in 0 .. OwnerBuffer : at = <<p, depth, left>>
    BY DEF Stops
  <2>2. depth # 0 /\ IsPointer(Octet(msg, p, beyond)) => <<TargetAt(msg, p, beyond), depth - 1, left>> \in T
    BY <1>1, <2>1, WalkShrinks
  <2>3. Fits(Octet(msg, p, beyond) + 1, left) =>
          <<p + Octet(msg, p, beyond) + 1, depth, left - (Octet(msg, p, beyond) + 1)>> \in T
    BY <1>1, <2>1, WalkShrinks
  <2>. QED  BY <2>1, <2>2, <2>3 DEF Inherited
<1>2. StopSizes \in Nat /\ StopSize \in [Stops -> 0 .. StopSizes]
  BY WalkShrinks
<1>3. \A at \in Stops : at \in T
  BY <1>1, <1>2, BySize
<1>. QED  BY <1>3 DEF Stops

-----------------------------------------------------------------------------
(* Names and their texts.                                                  *)

\* The names written with a set of labels, each with its text.
Pairs == Seq(Byte) \X Seq(Byte)

Coded(l) == <<Len(l)>> \o l
Spelt(l) == Append(l, Dot)

\* A label is written with its length before it, and spelt with a dot behind it.
LEMMA PiecesAre == \A l : Piece(l, FALSE) = Coded(l) /\ Piece(l, TRUE) = Spelt(l)
BY DEF Piece, Coded, Spelt

Closed(L, T) ==
  /\ <<<< 0 >>, <<>>>> \in T
  /\ \A l \in L, x \in T : <<Coded(l) \o x[1], Spelt(l) \o x[2]>> \in T

Written(L) == {x \in Pairs : \A T \in SUBSET Pairs : Closed(L, T) => x \in T}

\* The labels a message may hold.
Labels == {l \in Seq(Byte) : Len(l) \in 1 .. 191}

\* A label is an octet shorter than its code and than what is spelt of it.
LEMMA LabelIs ==
  ASSUME NEW l \in Labels
  PROVE  /\ l \in Seq(Byte) /\ Len(l) \in 1 .. 191 /\ Len(l) \in Byte
         /\ Coded(l) \in Seq(Byte) /\ Spelt(l) \in Seq(Byte)
         /\ Len(Coded(l)) = Len(l) + 1 /\ Len(Spelt(l)) = Len(l) + 1
<1>1. l \in Seq(Byte) /\ Len(l) \in 1 .. 191
  BY DEF Labels
<1>2. Len(l) \in Byte
  BY <1>1 DEF Byte
<1>. QED  BY <1>1, <1>2, PieceIs, PiecesAre

\* The root is written, and a label before what is written.
LEMMA WrittenIs ==
  ASSUME NEW L \in SUBSET Labels
  PROVE  Written(L) \subseteq Pairs /\ Closed(L, Written(L))
<1>1. <<<< 0 >>, <<>>>> \in Pairs
  <2>1. 0 \in Byte
    BY DEF Byte
  <2>2. << 0 >> \in Seq(Byte) /\ <<>> \in Seq(Byte)
    BY <2>1
  <2>. QED  BY <2>2 DEF Pairs
<1>2. ASSUME NEW l \in L, NEW x \in Pairs
      PROVE  <<Coded(l) \o x[1], Spelt(l) \o x[2]>> \in Pairs
  <2>1. x[1] \in Seq(Byte) /\ x[2] \in Seq(Byte)
    BY DEF Pairs
  <2>2. Coded(l) \o x[1] \in Seq(Byte) /\ Spelt(l) \o x[2] \in Seq(Byte)
    BY <2>1, LabelIs, ConcatProperties
  <2>. QED  BY <2>2 DEF Pairs
<1>3. <<<< 0 >>, <<>>>> \in Written(L)
  BY <1>1 DEF Written, Closed
<1>4. ASSUME NEW l \in L, NEW x \in Written(L)
      PROVE  <<Coded(l) \o x[1], Spelt(l) \o x[2]>> \in Written(L)
  <2>1. x \in Pairs /\ \A T \in SUBSET Pairs : Closed(L, T) => x \in T
    BY DEF Written
  <2>2. PICK y : y = <<Coded(l) \o x[1], Spelt(l) \o x[2]>>
    OBVIOUS
  <2>3. ASSUME NEW T \in SUBSET Pairs, Closed(L, T) PROVE y \in T
    BY <2>1, <2>2, <2>3, Zenon DEF Closed
  <2>4. y \in Pairs
    BY <1>2, <2>1, <2>2
  <2>5. y \in Written(L)
    BY <2>3, <2>4, Zenon DEF Written
  <2>. QED  BY <2>2, <2>5
<1>. QED  BY <1>3, <1>4, Zenon DEF Closed, Written

\* Nothing else is written.
LEMMA WrittenLeast ==
  ASSUME NEW L, NEW T \in SUBSET Pairs, Closed(L, T)
  PROVE  \A x \in Written(L) : x \in T
BY DEF Written

\* Both walks fail, or what they find is a name and its text, and the name
\* fits.
ReadsName(L, name, text, room) ==
  \/ name = Bad /\ text = Bad
  \/ <<name, text>> \in Written(L) /\ Len(name) <= room

\* The walk that expands and the walk that extracts, from wherever they start, find
\* a name and its text.
LEMMA ReadAsWritten ==
  ASSUME NEW msg \in Seq(Byte), NEW beyond \in Byte,
         NEW names, IsWalk(msg, beyond, FALSE, names),
         NEW texts, IsWalk(msg, beyond, TRUE, texts)
  PROVE  \A p \in Nat, depth \in 0 .. DepthLimit, left \in 0 .. OwnerBuffer :
           ReadsName(Labels, names[<<p, depth, left>>], texts[<<p, depth, left>>], left)
<1>0. OwnerBuffer \in Nat
  BY RoomIs
<1>. DEFINE L == Labels
            T == {at \in Stops : ReadsName(L, names[at], texts[at], at[3])}
<1>1. ASSUME NEW p \in Nat, NEW depth \in 0 .. DepthLimit, NEW left \in 0 .. OwnerBuffer,
             depth # 0 /\ IsPointer(Octet(msg, p, beyond)) => <<TargetAt(msg, p, beyond), depth - 1, left>> \in T,
             Fits(Octet(msg, p, beyond) + 1, left) =>
               <<p + Octet(msg, p, beyond) + 1, depth, left - (Octet(msg, p, beyond) + 1)>> \in T
      PROVE  ReadsName(L, names[<<p, depth, left>>], texts[<<p, depth, left>>], left)
  <2>0. /\ names[<<p, depth, left>>] = Found(msg, beyond, FALSE, names, p, depth, left)
        /\ texts[<<p, depth, left>>] = Found(msg, beyond, TRUE, texts, p, depth, left)
    BY DEF IsWalk
  <2>1. CASE p >= Len(msg)
    BY <2>0, <2>1 DEF Found, ReadsName
  <2>2. CASE p < Len(msg) /\ Octet(msg, p, beyond) = 0
    <3>1. CASE left > 0
      <4>1. names[<<p, depth, left>>] = << 0 >> /\ texts[<<p, depth, left>>] = <<>>
        BY <2>0, <2>2, <3>1 DEF Found
      <4>2. <<<< 0 >>, <<>>>> \in Written(L) /\ Len(<< 0 >>) = 1
        BY WrittenIs DEF Closed
      <4>. QED  BY <1>0, <3>1, <4>1, <4>2 DEF ReadsName
    <3>2. CASE ~(left > 0)
      BY <2>0, <2>2, <3>2 DEF Found, ReadsName
    <3>. QED  BY <3>1, <3>2
  <2>3. CASE p < Len(msg) /\ Octet(msg, p, beyond) # 0 /\ IsPointer(Octet(msg, p, beyond))
    <3>1. CASE depth = 0
      BY <2>0, <2>3, <3>1 DEF Found, ReadsName
    <3>2. CASE depth # 0
      <4>1. PICK at : at = <<TargetAt(msg, p, beyond), depth - 1, left>>
        OBVIOUS
      <4>2. names[<<p, depth, left>>] = names[at] /\ texts[<<p, depth, left>>] = texts[at]
        BY <2>0, <2>3, <3>2, <4>1 DEF Found
      <4>3. ReadsName(L, names[at], texts[at], at[3]) /\ at[3] = left
        BY <1>1, <2>3, <3>2, <4>1
      <4>. QED  BY <4>2, <4>3
    <3>. QED  BY <3>1, <3>2
  <2>4. CASE p < Len(msg) /\ Octet(msg, p, beyond) # 0 /\ ~IsPointer(Octet(msg, p, beyond))
    <3>1. PICK len \in Nat : len = Octet(msg, p, beyond)
      BY <1>0, BytesRead, ByteIs
    <3>2. CASE ~Fits(len + 1, left)
      BY <2>0, <2>4, <3>1, <3>2 DEF Found, ReadsName
    <3>3. CASE Fits(len + 1, left)
      <4>1. PICK at : at = <<p + len + 1, depth, left - (len + 1)>>
        OBVIOUS
      <4>2. PICK l : l = LabelAt(msg, p, beyond)
        OBVIOUS
      <4>3. /\ names[<<p, depth, left>>] = Before(Coded(l), names[at])
            /\ texts[<<p, depth, left>>] = Before(Spelt(l), texts[at])
        <5>1. ~(p >= Len(msg))
          BY <1>0, <2>4
        <5>2. names[<<p, depth, left>>] = Before(Piece(l, FALSE), names[at])
          BY <2>0, <2>4, <3>1, <3>3, <4>1, <4>2, <5>1 DEF Found
        <5>3. texts[<<p, depth, left>>] = Before(Piece(l, TRUE), texts[at])
          BY <2>0, <2>4, <3>1, <3>3, <4>1, <4>2, <5>1 DEF Found
        <5>. QED  BY <5>2, <5>3, PiecesAre
      <4>4. at \in T /\ at[3] = left - (len + 1)
        BY <1>1, <3>1, <3>3, <4>1
      <4>5. ReadsName(L, names[at], texts[at], left - (len + 1))
        BY <4>4
      <4>6. CASE names[at] = Bad /\ texts[at] = Bad
        BY <4>3, <4>6 DEF Before, ReadsName
      <4>7. CASE ~(names[at] = Bad /\ texts[at] = Bad)
        <5>1. <<names[at], texts[at]>> \in Written(L) /\ Len(names[at]) <= left - (len + 1)
          BY <4>5, <4>7 DEF ReadsName
        <5>2. names[at] \in Seq(Byte) /\ texts[at] \in Seq(Byte)
          BY <5>1, WrittenIs DEF Pairs
        <5>3. names[at] \notin {Bad, Wild} /\ texts[at] \notin {Bad, Wild}
          BY <5>2, BadIs
        <5>4. p + len + 1 < Len(msg)
          <6>1. p + len + 1 \in Nat /\ left - (len + 1) \in 0 .. OwnerBuffer
            BY <1>0, <3>3 DEF Fits
          <6>2. names[at] = Found(msg, beyond, FALSE, names, p + len + 1, depth, left - (len + 1))
            BY <4>1, <6>1 DEF IsWalk
          <6>3. CASE p + len + 1 >= Len(msg)
            BY <5>3, <6>2, <6>3, Zenon DEF Found
          <6>. QED  BY <1>0, <6>1, <6>3
        <5>5. l \in L /\ Len(l) = len
          <6>1. l \in Seq(Byte) /\ Len(l) = len
            BY <3>1, <4>2, BytesRead
          <6>2. len \in 1 .. 191
            <7>1. len <= 255
              BY <1>0, <3>1, BytesRead, ByteIs
            <7>2. len # 0 /\ ~IsPointer(len)
              BY <2>4, <3>1
            <7>. QED  BY <7>1, <7>2 DEF IsPointer
          <6>. QED  BY <6>1, <6>2 DEF Labels
        <5>6. <<Coded(l) \o names[at], Spelt(l) \o texts[at]>> \in Written(L)
          <6>1. PICK x : x = <<names[at], texts[at]>>
            OBVIOUS
          <6>2. x \in Written(L) /\ x[1] = names[at] /\ x[2] = texts[at]
            BY <5>1, <6>1
          <6>3. Closed(L, Written(L))
            BY WrittenIs
          <6>4. <<Coded(l) \o x[1], Spelt(l) \o x[2]>> \in Written(L)
            BY <5>5, <6>2, <6>3, Zenon DEF Closed
          <6>. QED  BY <6>2, <6>4
        <5>7. Len(Coded(l) \o names[at]) <= left
          <6>1. PICK s \in Seq(Byte), t \in Seq(Byte) : s = Coded(l) /\ t = names[at] /\ Len(s) = len + 1
            BY <5>2, <5>5, LabelIs
          <6>2. Len(s \o t) = Len(s) + Len(t) /\ Len(t) \in Nat
            OBVIOUS
          <6>3. Len(t) <= left - (len + 1)
            BY <5>1, <6>1
          <6>4. Len(s \o t) <= left
            <7>1. PICK a, b, c : a = Len(s \o t) /\ b = Len(t) /\ c = Len(s)
              OBVIOUS
            <7>2. b \in Nat /\ b <= left - (len + 1)
              BY <6>2, <6>3, <7>1
            <7>3. c = len + 1 /\ a = c + b
              BY <6>1, <6>2, <7>1
            <7>4. a <= left
              BY <1>0, <7>2, <7>3
            <7>. QED  BY <7>1, <7>4
          <6>. QED  BY <6>1, <6>4
        <5>. QED  BY <4>3, <5>3, <5>6, <5>7 DEF Before, ReadsName
      <4>. QED  BY <4>6, <4>7
    <3>. QED  BY <3>2, <3>3
  <2>. QED  BY <1>0, <2>1, <2>2, <2>3, <2>4
<1>2. \A p \in Nat, depth \in 0 .. DepthLimit, left \in 0 .. OwnerBuffer :
        <<p, depth, left>> \in T <=>
          ReadsName(L, names[<<p, depth, left>>], texts[<<p, depth, left>>], left)
  BY DEF Stops
<1>3. Inherited(msg, beyond, T)
  <2>. HIDE DEF T, L
  <2>. QED  BY <1>1, <1>2 DEF Inherited
<1>4. \A p \in Nat, depth \in 0 .. DepthLimit, left \in 0 .. OwnerBuffer : <<p, depth, left>> \in T
  <2>. HIDE DEF T
  <2>. QED  BY <1>3, ByWalk
<1>. QED  BY <1>2, <1>4, Zenon

-----------------------------------------------------------------------------
(* Decoding.                                                               *)

\* What decoding a name finds from p, where rest is what it finds from there, and
\* sign the first octet that is negative as a char.
DecodedFrom(name, room, sign, rest, p) ==
  LET len == name[p + 1] IN
  IF p >= Len(name) THEN Bad
  ELSE IF len = 0 THEN IF p < room THEN <<>> ELSE Bad
  ELSE IF IsPointer(len) THEN Bad
  ELSE IF len >= sign THEN Wild
  ELSE IF ~Fits(p + len + 1, room) \/ p + len >= Len(name) THEN Bad
  ELSE Before(Append(SubSeq(name, p + 2, p + 1 + len), Dot), rest[p + len + 1])

\* A dot is an octet.
LEMMA DotIs == Dot \in Byte
BY DEF Dot, Byte

\* One step of the function that decoding is the fixed point of.
Rests(name, room, sign, g) ==
  [p \in Nat |->
     LET len == name[p + 1] IN
     IF p >= Len(name) THEN Bad
     ELSE IF len = 0 THEN IF p < room THEN <<>> ELSE Bad
     ELSE IF IsPointer(len) THEN Bad
     ELSE IF len >= sign THEN Wild
     ELSE IF ~Fits(p + len + 1, room) \/ p + len >= Len(name) THEN Bad
     ELSE Before(Append(SubSeq(name, p + 2, p + 1 + len), Dot), g[p + len + 1])]

\* The function that TLA+ chooses for it.
DecodingRest(name, room, sign) == CHOOSE g : g = Rests(name, room, sign, g)

\* What a function must say to be one that decodes.
IsDecoding(name, room, sign, rest) ==
  \A p \in Nat : rest[p] = DecodedFrom(name, room, sign, rest, p)

\* Decoding is where that function starts.
LEMMA DecodedStarts ==
  ASSUME NEW name, NEW room
  PROVE  Decoded(name, room) = DecodingRest(name, room, CharSign)[0]
BY Zenon DEF Decoded, DecodingRest, Rests

\* The function of the model exists, and says at every place what one step does.
LEMMA DecodedRests ==
  ASSUME NEW name \in Seq(Byte), NEW room \in Nat, NEW sign \in Nat
  PROVE  IsDecoding(name, room, sign, DecodingRest(name, room, sign))
<1>. DEFINE R(g) == Rests(name, room, sign, g)
            to == [p \in Nat |-> IF p < Len(name) THEN p + name[p + 1] + 1 ELSE p]
            One(r) == [q \in Nat |-> r]
            F == [at \in Nat \X Seq(Int) |-> DecodedFrom(name, room, sign, One(at[2]), at[1])]
<1>1. \A g : R(g) = [p \in Nat |-> DecodedFrom(name, room, sign, g, p)]
  BY Zenon DEF Rests, DecodedFrom
<1>. HIDE DEF R
<1>2. \A p \in Nat : p < Len(name) => name[p + 1] \in Nat /\ name[p + 1] \in Byte
  BY ByteIs
<1>3. to \in [Nat -> Nat] /\ \A p \in Nat : p < Len(name) => p < to[p]
  BY <1>2
<1>4. ASSUME NEW p \in Nat, NEW r \in Seq(Int)
      PROVE  DecodedFrom(name, room, sign, One(r), p) \in Seq(Int)
  <2>1. CASE p >= Len(name)
    BY <2>1, BadIs DEF DecodedFrom
  <2>2. CASE p < Len(name)
    <3>1. PICK len \in Nat : len = name[p + 1]
      BY <1>2, <2>2
    <3>2. ASSUME p + len < Len(name)
          PROVE  Before(Append(SubSeq(name, p + 2, p + 1 + len), Dot), One(r)[p + len + 1]) \in Seq(Int)
      <4>1. \A i \in p + 2 .. p + 1 + len : name[i] \in Byte
        BY <3>2
      <4>2. p + 2 \in Int /\ p + 1 + len \in Int /\ p + len + 1 \in Nat
        BY <3>1
      <4>3. SubSeq(name, p + 2, p + 1 + len) \in Seq(Byte)
        BY <4>1, <4>2, SubSeqProperties
      <4>4. Append(SubSeq(name, p + 2, p + 1 + len), Dot) \in Seq(Byte)
        BY <4>3, DotIs, AppendProperties
      <4>5. One(r)[p + len + 1] = r
        BY <4>2
      <4>. HIDE DEF One
      <4>. QED  BY <4>4, <4>5, BeforeIs
    <3>3. <<>> \in Seq(Int) /\ Bad \in Seq(Int) /\ Wild \in Seq(Int)
      BY BadIs
    <3>4. ~(p + len >= Len(name)) => p + len < Len(name)
      BY <3>1
    <3>. HIDE DEF One
    <3>. QED  BY <3>1, <3>2, <3>3, <3>4 DEF DecodedFrom
  <2>. QED  BY <2>1, <2>2
<1>5. LeadsOn(Seq(Int), Len(name), to, F)
  <2>1. F \in [Nat \X Seq(Int) -> Seq(Int)]
    <3>. HIDE DEF One
    <3>. QED  BY <1>4
  <2>2. ASSUME NEW p \in Nat, NEW r \in Seq(Int), NEW s \in Seq(Int), p >= Len(name)
        PROVE  F[<<p, r>>] = F[<<p, s>>]
    <3>1. /\ F[<<p, r>>] = DecodedFrom(name, room, sign, One(r), p)
          /\ F[<<p, s>>] = DecodedFrom(name, room, sign, One(s), p)
      OBVIOUS
    <3>. HIDE DEF One, F
    <3>. QED  BY <2>2, <3>1 DEF DecodedFrom
  <2>. HIDE DEF F, to
  <2>. QED  BY <1>3, <2>1, <2>2 DEF LeadsOn
<1>6. \E h \in [Nat -> Seq(Int)] : \A p \in Nat : h[p] = F[<<p, h[to[p]]>>]
  <2>1. PICK n \in Nat : n = Len(name)
    OBVIOUS
  <2>2. PICK S : S = Seq(Int)
    OBVIOUS
  <2>3. PICK c : c \in S
    BY <2>2, BadIs
  <2>. HIDE DEF F, to
  <2>4. LeadsOn(S, n, to, F)
    BY <1>5, <2>1, <2>2
  <2>5. \E h \in [Nat -> S] : \A p \in Nat : h[p] = F[<<p, h[to[p]]>>]
    BY <2>3, <2>4, Onward
  <2>. QED  BY <2>2, <2>5
<1>7. PICK h \in [Nat -> Seq(Int)] : \A p \in Nat : h[p] = F[<<p, h[to[p]]>>]
  BY <1>6
<1>8. h = R(h)
  <2>1. ASSUME NEW p \in Nat PROVE h[p] = DecodedFrom(name, room, sign, h, p)
    <3>1. h[p] = DecodedFrom(name, room, sign, One(h[to[p]]), p)
      <4>1. to[p] \in Nat
        BY <1>3
      <4>. HIDE DEF to
      <4>2. <<p, h[to[p]]>> \in Nat \X Seq(Int)
        BY <4>1
      <4>. QED  BY <1>7, <4>2
    <3>2. CASE p >= Len(name)
      <4>. HIDE DEF One
      <4>. QED  BY <3>1, <3>2 DEF DecodedFrom
    <3>3. CASE p < Len(name)
      <4>1. PICK len \in Nat : len = name[p + 1]
        BY <1>2, <3>3
      <4>2. One(h[to[p]])[p + len + 1] = h[p + len + 1]
        <5>1. to[p] = p + len + 1 /\ p + len + 1 \in Nat
          <6>1. to[p] = p + name[p + 1] + 1
            BY <3>3
          <6>2. p + name[p + 1] + 1 = p + len + 1
            BY <4>1
          <6>. HIDE DEF to
          <6>. QED  BY <6>1, <6>2
        <5>. HIDE DEF to
        <5>2. PICK r : r = h[to[p]]
          OBVIOUS
        <5>3. PICK q \in Nat : q = p + len + 1 /\ q = to[p]
          BY <5>1
        <5>4. One(r)[q] = r
          OBVIOUS
        <5>. HIDE DEF One
        <5>. QED  BY <5>2, <5>3, <5>4
      <4>. HIDE DEF One
      <4>. QED  BY <3>1, <4>1, <4>2 DEF DecodedFrom
    <3>. QED  BY <3>2, <3>3
  <2>. QED  BY <1>1, <2>1
<1>9. PICK rest : rest = DecodingRest(name, room, sign)
  OBVIOUS
<1>10. rest = R(rest)
  BY <1>8, <1>9, Zenon DEF DecodingRest, R
<1>11. IsDecoding(name, room, sign, rest)
  BY <1>1, <1>10 DEF IsDecoding
<1>. QED  BY <1>9, <1>11

\* Where the parts of a name or a text are that goes on with a label behind pre.
NameParts(pre, l, s, t) ==
  /\ t \in Seq(Byte) /\ Len(t) = Len(pre) + Len(l) + 1 + Len(s)
  /\ t[Len(pre) + 1] = Len(l)
  /\ SubSeq(t, Len(pre) + 2, Len(pre) + 1 + Len(l)) = l
  /\ pre \o Coded(l) \in Seq(Byte) /\ t = (pre \o Coded(l)) \o s
  /\ Len(pre \o Coded(l)) = Len(pre) + Len(l) + 1

\* The octets of a label in a name.
LEMMA PieceInName ==
  ASSUME NEW pre \in Seq(Byte), NEW l \in Labels, NEW s \in Seq(Byte)
  PROVE  NameParts(pre, l, s, pre \o (Coded(l) \o s))
<1>0. PICK t : t = pre \o (Coded(l) \o s)
  OBVIOUS
<1>1. PICK piece \in Seq(Byte) : piece = Coded(l) /\ Len(piece) = Len(l) + 1
  BY LabelIs
<1>2. l \in Seq(Byte) /\ Len(l) \in Nat /\ Len(l) \in Byte
  BY LabelIs, LenProperties
<1>3. piece[1] = Len(l) /\ \A i \in 1 .. Len(l) : piece[i + 1] = l[i]
  <2>1. PICK one : one = <<Len(l)>>
    OBVIOUS
  <2>2. one \in Seq(Byte) /\ Len(one) = 1 /\ one[1] = Len(l)
    BY <1>2, <2>1
  <2>3. piece = one \o l
    BY <1>1, <2>1 DEF Coded
  <2>4. /\ \A i \in 1 .. Len(one) : piece[i] = one[i]
        /\ \A i \in 1 .. Len(l) : piece[Len(one) + i] = l[i]
    <3>1. one \in Seq(Byte)
      BY <2>2
    <3>. QED  BY <1>2, <2>3, <3>1, JoinedAt
  <2>5. \A i \in 1 .. Len(l) : 1 + i = i + 1
    BY <1>2
  <2>6. piece[1] = Len(l)
    BY <2>2, <2>4
  <2>7. \A i \in 1 .. Len(l) : piece[1 + i] = l[i]
    BY <2>2, <2>4
  <2>. QED  BY <2>5, <2>6, <2>7
<1>4. /\ t \in Seq(Byte) /\ Len(t) = Len(pre) + Len(piece) + Len(s)
      /\ Len(pre) \in Nat /\ Len(piece) \in Nat /\ Len(s) \in Nat
      /\ \A i \in 1 .. Len(piece) : t[Len(pre) + i] = piece[i]
      /\ pre \o piece \in Seq(Byte) /\ Len(pre \o piece) = Len(pre) + Len(piece)
      /\ t = (pre \o piece) \o s
  <2>1. t = pre \o (piece \o s)
    BY <1>0, <1>1
  <2>2. LiesBetween(Byte, pre, piece, s, t)
    BY <2>1, Between, Zenon
  <2>. QED  BY <2>2 DEF LiesBetween
<1>5. t[Len(pre) + 1] = Len(l)
  BY <1>1, <1>2, <1>3, <1>4
<1>6. SubSeq(t, Len(pre) + 2, Len(pre) + 1 + Len(l)) = l
  <2>1. PICK k \in Nat : k = Len(pre) + 1
    BY <1>4
  <2>2. \A i \in 1 .. Len(l) : t[k + i] = l[i]
    <3>1. ASSUME NEW i \in 1 .. Len(l) PROVE t[k + i] = l[i]
      <4>1. i + 1 \in 1 .. Len(piece) /\ k + i = Len(pre) + (i + 1)
        BY <1>1, <1>2, <1>4, <2>1
      <4>. QED  BY <1>3, <1>4, <4>1
    <3>. QED  BY <3>1
  <2>3. k + Len(l) <= Len(t) /\ k + 1 = Len(pre) + 2 /\ k + Len(l) = Len(pre) + 1 + Len(l)
    BY <1>1, <1>2, <1>4, <2>1
  <2>4. SubSeq(t, k + 1, k + Len(l)) = l
    BY <1>2, <1>4, <2>2, <2>3, PartEqual
  <2>. QED  BY <2>3, <2>4
<1>7. NameParts(pre, l, s, t)
  BY <1>1, <1>2, <1>4, <1>5, <1>6 DEF NameParts
<1>. QED  BY <1>0, <1>7, Zenon

TextParts(pre, l, s, t) ==
  /\ t \in Seq(Byte) /\ Len(t) = Len(pre) + Len(l) + 1 + Len(s)
  /\ t[Len(pre) + Len(l) + 1] = Dot
  /\ \A i \in 1 .. Len(l) : t[Len(pre) + i] = l[i]
  /\ pre \o Spelt(l) \in Seq(Byte) /\ t = (pre \o Spelt(l)) \o s
  /\ Len(pre \o Spelt(l)) = Len(pre) + Len(l) + 1
  /\ (pre \o Spelt(l))[Len(pre) + Len(l) + 1] = Dot

\* The characters of a label in a text.
LEMMA PieceInText ==
  ASSUME NEW pre \in Seq(Byte), NEW l \in Labels, NEW s \in Seq(Byte)
  PROVE  TextParts(pre, l, s, pre \o (Spelt(l) \o s))
<1>0. PICK t : t = pre \o (Spelt(l) \o s)
  OBVIOUS
<1>1. PICK piece \in Seq(Byte) : piece = Spelt(l) /\ Len(piece) = Len(l) + 1
  BY LabelIs
<1>2. l \in Seq(Byte) /\ Len(l) \in Nat
  BY LabelIs, LenProperties
<1>3. piece[Len(l) + 1] = Dot /\ \A i \in 1 .. Len(l) : piece[i] = l[i]
  BY <1>1, <1>2, DotIs, AppendProperties DEF Spelt
<1>4. /\ t \in Seq(Byte) /\ Len(t) = Len(pre) + Len(piece) + Len(s)
      /\ Len(pre) \in Nat /\ Len(piece) \in Nat /\ Len(s) \in Nat
      /\ \A i \in 1 .. Len(piece) : t[Len(pre) + i] = piece[i]
      /\ pre \o piece \in Seq(Byte) /\ Len(pre \o piece) = Len(pre) + Len(piece)
      /\ \A i \in 1 .. Len(piece) : (pre \o piece)[Len(pre) + i] = piece[i]
      /\ t = (pre \o piece) \o s
  <2>1. t = pre \o (piece \o s)
    BY <1>0, <1>1
  <2>2. LiesBetween(Byte, pre, piece, s, t)
    BY <2>1, Between, Zenon
  <2>. QED  BY <2>2 DEF LiesBetween
<1>5. Len(l) + 1 \in 1 .. Len(piece) /\ Len(pre) + Len(l) + 1 = Len(pre) + (Len(l) + 1)
  BY <1>1, <1>2, <1>4
<1>6. \A i \in 1 .. Len(l) : i \in 1 .. Len(piece)
  BY <1>1, <1>2
<1>7. t[Len(pre) + Len(l) + 1] = Dot /\ (pre \o piece)[Len(pre) + Len(l) + 1] = Dot
  BY <1>3, <1>4, <1>5
<1>8. \A i \in 1 .. Len(l) : t[Len(pre) + i] = l[i]
  BY <1>3, <1>4, <1>6
<1>9. TextParts(pre, l, s, t)
  BY <1>1, <1>2, <1>4, <1>7, <1>8 DEF TextParts
<1>. QED  BY <1>0, <1>9, Zenon

\* The name of no label, and a name with one label more.
LEMMA RootIs ==
  /\ << 0 >> \in Seq(Byte) /\ Len(<< 0 >>) = 1 /\ << 0 >>[1] = 0
  /\ <<>> \in Seq(Byte) /\ Len(<<>>) = 0 /\ Len(<< 0 >>) = Len(<<>>) + 1
<1>1. 0 \in Byte
  BY DEF Byte
<1>. QED  BY <1>1

\* More labels write more names.
LEMMA WrittenMore ==
  ASSUME NEW L, NEW M, L \subseteq M
  PROVE  Written(L) \subseteq Written(M)
<1>1. \A T : Closed(M, T) => Closed(L, T)
  BY DEF Closed
<1>. QED  BY <1>1 DEF Written

\* A name is an octet longer than its text, and none of them is empty.
LEMMA WrittenLengths ==
  ASSUME NEW x \in Written(Labels)
  PROVE  /\ x[1] \in Seq(Byte) /\ x[2] \in Seq(Byte)
         /\ Len(x[1]) \in Nat /\ Len(x[2]) \in Nat /\ Len(x[1]) = Len(x[2]) + 1
<1>. DEFINE T == {y \in Pairs : Len(y[1]) = Len(y[2]) + 1}
<1>1. Closed(Labels, T)
  <2>1. <<<< 0 >>, <<>>>> \in T
    <3>1. PICK a \in Seq(Byte), b \in Seq(Byte) : a = << 0 >> /\ b = <<>> /\ Len(a) = Len(b) + 1
      BY RootIs, Zenon
    <3>2. <<a, b>> \in T
      BY <3>1 DEF Pairs
    <3>. QED  BY <3>1, <3>2
  <2>2. ASSUME NEW l \in Labels, NEW y \in T
        PROVE  <<Coded(l) \o y[1], Spelt(l) \o y[2]>> \in T
    <3>1. PICK a \in Seq(Byte), b \in Seq(Byte) : a = y[1] /\ b = y[2] /\ Len(a) = Len(b) + 1
      BY <2>2 DEF Pairs
    <3>2. PICK c \in Seq(Byte), d \in Seq(Byte) : c = Coded(l) /\ d = Spelt(l) /\ Len(c) = Len(d)
      BY LabelIs
    <3>3. c \o a \in Seq(Byte) /\ d \o b \in Seq(Byte) /\ Len(c \o a) = Len(d \o b) + 1
      <4>1. /\ c \o a \in Seq(Byte) /\ d \o b \in Seq(Byte)
            /\ Len(c \o a) = Len(c) + Len(a) /\ Len(d \o b) = Len(d) + Len(b)
            /\ Len(d) \in Nat /\ Len(b) \in Nat
        BY JoinedAt
      <4>. QED  BY <3>1, <3>2, <4>1
    <3>4. <<c \o a, d \o b>> \in T
      BY <3>3 DEF Pairs
    <3>. QED  BY <3>1, <3>2, <3>4
  <2>. QED  BY <2>1, <2>2 DEF Closed
<1>2. x \in T
  BY <1>1, WrittenLeast
<1>. QED  BY <1>2, LenProperties DEF Pairs

\* Labels with a length that has no sign.
Under(sign) == {l \in Labels : Len(l) < sign}

\* Names of them are decoded to the end if they fit.
DecodesTo(room, sign, x) ==
  \A pre \in Seq(Byte) : \A rest :
    IsDecoding(pre \o x[1], room, sign, rest) =>
      rest[Len(pre)] = IF Len(pre \o x[1]) <= room THEN x[2] ELSE Bad

\* The root is decoded as the empty text.
LEMMA RootDecodes ==
  ASSUME NEW room \in Nat, NEW sign \in Nat
  PROVE  DecodesTo(room, sign, <<<< 0 >>, <<>>>>)
<1>1. SUFFICES ASSUME NEW pre \in Seq(Byte), NEW rest, NEW t, t = pre \o << 0 >>,
                      IsDecoding(t, room, sign, rest)
               PROVE  rest[Len(pre)] = IF Len(t) <= room THEN <<>> ELSE Bad
  BY DEF DecodesTo
<1>2. PICK p : p = Len(pre)
  OBVIOUS
<1>3. Len(t) = p + 1 /\ t[p + 1] = 0 /\ p \in Nat
  <2>1. PICK a \in Seq(Byte) : a = << 0 >>
    BY RootIs
  <2>2. PICK n : n = Len(a)
    OBVIOUS
  <2>3. n = 1 /\ a[1] = 0
    BY <2>1, <2>2
  <2>4. Len(t) = p + n /\ p \in Nat /\ \A i \in 1 .. n : t[p + i] = a[i]
    BY <1>1, <1>2, <2>1, <2>2, JoinedAt
  <2>. QED  BY <2>3, <2>4
<1>4. rest[p] = DecodedFrom(t, room, sign, rest, p)
  BY <1>1, <1>3 DEF IsDecoding
<1>5. ~(p >= Len(t)) /\ (p < room <=> Len(t) <= room)
  BY <1>3
<1>. QED  BY <1>2, <1>3, <1>4, <1>5 DEF DecodedFrom

\* A label before what is decoded is decoded.
LEMMA LabelDecodes ==
  ASSUME NEW room \in Nat, NEW sign \in Nat, NEW l \in Under(sign), NEW x \in Written(Labels),
         DecodesTo(room, sign, x)
  PROVE  DecodesTo(room, sign, <<Coded(l) \o x[1], Spelt(l) \o x[2]>>)
<1>1. SUFFICES ASSUME NEW pre \in Seq(Byte), NEW rest, NEW t, t = pre \o (Coded(l) \o x[1]),
                      IsDecoding(t, room, sign, rest)
               PROVE  rest[Len(pre)] = IF Len(t) <= room THEN Spelt(l) \o x[2] ELSE Bad
  BY DEF DecodesTo
<1>0. l \in Labels /\ Len(l) < sign
  BY DEF Under
<1>2. PICK a \in Seq(Byte), b \in Seq(Byte) : a = x[1] /\ b = x[2] /\ Len(a) = Len(b) + 1
  BY WrittenLengths
<1>3. PICK more : more = pre \o Coded(l)
  OBVIOUS
<1>4. /\ t \in Seq(Byte) /\ Len(t) = Len(pre) + Len(l) + 1 + Len(a)
      /\ t[Len(pre) + 1] = Len(l)
      /\ SubSeq(t, Len(pre) + 2, Len(pre) + 1 + Len(l)) = l
      /\ more \in Seq(Byte) /\ t = more \o a
      /\ Len(more) = Len(pre) + Len(l) + 1
  <2>1. t = pre \o (Coded(l) \o a)
    BY <1>1, <1>2
  <2>2. NameParts(pre, l, a, t)
    BY <1>0, <2>1, PieceInName, Zenon
  <2>. QED  BY <1>3, <2>2, Zenon DEF NameParts
<1>5. PICK p, len, n : p = Len(pre) /\ len = Len(l) /\ n = Len(t)
  OBVIOUS
<1>6. /\ p \in Nat /\ len \in 1 .. 191 /\ n \in Nat /\ n >= p + len + 2
      /\ t[p + 1] = len /\ SubSeq(t, p + 2, p + 1 + len) = l
  <2>1. Len(pre) \in Nat /\ Len(b) \in Nat /\ Len(l) \in 1 .. 191
    BY <1>0, LabelIs, LenProperties
  <2>2. Len(t) = Len(pre) + Len(l) + 1 + (Len(b) + 1)
    BY <1>2, <1>4
  <2>3. PICK k \in Nat : k = Len(b)
    BY <2>1
  <2>4. n = p + len + 1 + (k + 1)
    BY <1>5, <2>2, <2>3
  <2>5. t[p + 1] = len /\ SubSeq(t, p + 2, p + 1 + len) = l
    BY <1>4, <1>5, Zenon
  <2>6. p \in Nat /\ len \in 1 .. 191
    BY <1>5, <2>1
  <2>. QED  BY <2>4, <2>5, <2>6
<1>7. rest[p + len + 1] = IF n <= room THEN b ELSE Bad
  <2>1. IsDecoding(more \o a, room, sign, rest)
    BY <1>1, <1>4
  <2>2. rest[Len(more)] = IF Len(t) <= room THEN x[2] ELSE Bad
    <3>1. \A q \in Seq(Byte) :
            IsDecoding(q \o x[1], room, sign, rest) =>
              rest[Len(q)] = IF Len(q \o x[1]) <= room THEN x[2] ELSE Bad
      BY Zenon DEF DecodesTo
    <3>. QED  BY <1>2, <1>4, <2>1, <3>1
  <2>. QED  BY <1>2, <1>4, <1>5, <2>2
<1>8. rest[p] = DecodedFrom(t, room, sign, rest, p)
  BY <1>1, <1>6 DEF IsDecoding
<1>9. /\ ~(p >= Len(t)) /\ len # 0 /\ ~IsPointer(len) /\ ~(p + len >= Len(t))
      /\ n <= room => Fits(p + len + 1, room)
  <2>1. p \in Nat /\ len \in 1 .. 191 /\ n \in Nat /\ n >= p + len + 2
    BY <1>6
  <2>2. ~(p >= n) /\ len # 0 /\ ~(len >= 192) /\ (n <= room => p + len + 1 < room) /\ ~(p + len >= n)
    BY <2>1
  <2>. QED  BY <1>5, <2>2, Zenon DEF IsPointer, Fits
<1>10. ~(len >= sign)
  <2>1. len \in Nat /\ len < sign
    BY <1>0, <1>5, <1>6
  <2>. QED  BY <2>1
<1>11. CASE n <= room
  <2>1. rest[p] = Before(Append(l, Dot), b)
    BY <1>6, <1>7, <1>8, <1>9, <1>10, <1>11, Zenon DEF DecodedFrom
  <2>2. b \notin {Bad, Wild}
    BY BadIs
  <2>. QED  BY <1>2, <1>5, <1>11, <2>1, <2>2, Zenon DEF Before, Spelt
<1>12. CASE ~(n <= room)
  <2>1. rest[p] \in {Bad, Before(Append(l, Dot), Bad)}
    BY <1>6, <1>7, <1>8, <1>9, <1>10, <1>12 DEF DecodedFrom
  <2>. QED  BY <1>5, <1>12, <2>1 DEF Before
<1>. QED  BY <1>11, <1>12

\* Labels of short lengths are labels.
LEMMA UnderIs ==
  ASSUME NEW sign
  PROVE  Under(sign) \subseteq Labels /\ Written(Under(sign)) \subseteq Written(Labels)
<1>1. Under(sign) \subseteq Labels
  BY DEF Under
<1>. QED  BY <1>1, WrittenMore

\* What finds of a name what decoding does finds its text.
LEMMA DecodingIs ==
  ASSUME NEW sign \in Nat, NEW x \in Written(Under(sign)), NEW room \in Nat,
         NEW rest, IsDecoding(x[1], room, sign, rest)
  PROVE  rest[0] = IF Len(x[1]) <= room THEN x[2] ELSE Bad
<1>. DEFINE T == {y \in Written(Under(sign)) : DecodesTo(room, sign, y)}
<1>1. Closed(Under(sign), T) /\ T \in SUBSET Pairs
  <2>1. Closed(Under(sign), Written(Under(sign))) /\ Written(Under(sign)) \subseteq Pairs
    BY UnderIs, WrittenIs
  <2>. QED  BY <2>1, UnderIs, RootDecodes, LabelDecodes DEF Closed
<1>2. DecodesTo(room, sign, x)
  BY <1>1, WrittenLeast
<1>3. PICK a \in Seq(Byte) : a = x[1]
  BY UnderIs, WrittenLengths
<1>4. <<>> \in Seq(Byte) /\ <<>> \o a = a /\ Len(<<>>) = 0
  BY RootIs, EmptyJoined
<1>5. PICK pre \in Seq(Byte) : pre \o a = a /\ Len(pre) = 0
  BY <1>4
<1>. QED  BY <1>2, <1>3, <1>5 DEF DecodesTo

\* A name whose lengths are positive as chars is decoded as its text.
LEMMA DecodedIs ==
  ASSUME NEW x \in Written(Under(CharSign)), NEW room \in Nat
  PROVE  Decoded(x[1], room) = IF Len(x[1]) <= room THEN x[2] ELSE Bad
<1>1. PICK a \in Seq(Byte) : a = x[1]
  BY UnderIs, WrittenLengths
<1>0. CharSign \in Nat
  BY LimitsAssumption
<1>2. PICK rest : Decoded(a, room) = rest[0] /\ IsDecoding(a, room, CharSign, rest)
  BY <1>0, DecodedStarts, DecodedRests
<1>. QED  BY <1>0, <1>1, <1>2, DecodingIs

\* A name has one text.
LEMMA SameNameSameText ==
  ASSUME NEW x \in Written(Labels), NEW y \in Written(Labels), x[1] = y[1]
  PROVE  x[2] = y[2]
<1>1. PICK a \in Seq(Byte) : a = x[1] /\ a = y[1]
  BY WrittenLengths
<1>2. PICK room \in Nat : room = Len(a)
  OBVIOUS
<1>3. PICK rest : IsDecoding(a, room, 192, rest)
  <2>1. PICK sign \in Nat : sign = 192
    OBVIOUS
  <2>2. PICK rest : IsDecoding(a, room, sign, rest)
    BY DecodedRests
  <2>. QED  BY <2>1, <2>2
<1>4. Labels = Under(192)
  <2>1. ASSUME NEW l \in Labels PROVE Len(l) < 192
    <3>1. PICK n \in 1 .. 191 : n = Len(l)
      BY DEF Labels
    <3>2. n < 192
      OBVIOUS
    <3>. QED  BY <3>1, <3>2, Zenon
  <2>. QED  BY <2>1 DEF Under
<1>5. rest[0] = x[2]
  BY <1>1, <1>2, <1>3, <1>4, DecodingIs
<1>6. rest[0] = y[2]
  BY <1>1, <1>2, <1>3, <1>4, DecodingIs
<1>. QED  BY <1>5, <1>6

-----------------------------------------------------------------------------
(* Encoding.                                                               *)

\* Where the label ends that begins behind p.
DotsBehind(text, p) == {i \in p + 1 .. Len(text) : text[i] = Dot}
EndAt(text, p) ==
  IF DotsBehind(text, p) = {} THEN Len(text) + 1
  ELSE CHOOSE i \in DotsBehind(text, p) : \A j \in DotsBehind(text, p) : i <= j

\* A place behind p with no dot before it, and a dot there or the end of the text.
IsEnd(text, p, e) ==
  /\ e \in p + 1 .. Len(text) + 1
  /\ \A i \in p + 1 .. e - 1 : text[i] # Dot
  /\ e = Len(text) + 1 \/ text[e] = Dot

\* There is one place where a label of a text ends.
LEMMA EndIs ==
  ASSUME NEW text \in Seq(Byte), NEW p \in Nat, p < Len(text)
  PROVE  IsEnd(text, p, EndAt(text, p)) /\ \A e : IsEnd(text, p, e) => e = EndAt(text, p)
<1>1. PICK d, n : d = DotsBehind(text, p) /\ n = Len(text) /\ n \in Nat
  OBVIOUS
<1>2. d \subseteq Nat /\ \A i \in Nat : i \in d <=> i \in p + 1 .. n /\ text[i] = Dot
  BY <1>1 DEF DotsBehind
<1>3. CASE d = {}
  <2>1. EndAt(text, p) = n + 1
    BY <1>1, <1>3 DEF EndAt
  <2>2. \A i \in p + 1 .. n : text[i] # Dot
    BY <1>2, <1>3
  <2>3. IsEnd(text, p, n + 1)
    BY <1>1, <2>2 DEF IsEnd
  <2>4. ASSUME NEW e, IsEnd(text, p, e) PROVE e = n + 1
    <3>1. e \in p + 1 .. n + 1 /\ (e = n + 1 \/ text[e] = Dot)
      BY <1>1, <2>4 DEF IsEnd
    <3>2. e \in p + 1 .. n => text[e] # Dot
      BY <2>2
    <3>3. e = n + 1 \/ e \in p + 1 .. n
      BY <1>1, <3>1
    <3>. QED  BY <3>1, <3>2, <3>3
  <2>. QED  BY <2>1, <2>3, <2>4
<1>4. CASE d # {}
  <2>1. EndAt(text, p) = CHOOSE i \in d : \A j \in d : i <= j
    BY <1>1, <1>4, Zenon DEF EndAt
  <2>2. \E i \in d : \A j \in d : i <= j
    BY <1>2, <1>4, LeastNumber
  <2>3. PICK m : m = EndAt(text, p)
    OBVIOUS
  <2>4. m \in d /\ \A j \in d : m <= j
    BY <2>1, <2>2, <2>3, Zenon
  <2>5. m \in p + 1 .. n /\ text[m] = Dot
    BY <1>2, <2>4
  <2>6. \A i \in p + 1 .. m - 1 : text[i] # Dot
    <3>1. ASSUME NEW i \in p + 1 .. m - 1, text[i] = Dot PROVE FALSE
      <4>1. i \in Nat /\ i \in p + 1 .. n
        <5>1. m \in p + 1 .. n /\ n \in Nat
          BY <1>1, <2>5
        <5>. QED  BY <5>1
      <4>2. i \in d
        BY <1>2, <3>1, <4>1
      <4>. QED  BY <2>4, <2>5, <4>2
    <3>. QED  BY <3>1
  <2>7. IsEnd(text, p, m)
    BY <1>1, <2>5, <2>6 DEF IsEnd
  <2>8. ASSUME NEW e, IsEnd(text, p, e) PROVE e = m
    <3>1. /\ e \in p + 1 .. n + 1 /\ \A i \in p + 1 .. e - 1 : text[i] # Dot
          /\ e = n + 1 \/ text[e] = Dot
      BY <1>1, <2>8 DEF IsEnd
    <3>2. ~(m < e)
      BY <2>5, <3>1
    <3>3. ~(e < m)
      <4>1. ASSUME e < m PROVE e # n + 1 /\ e \in p + 1 .. m - 1
        BY <1>1, <2>5, <3>1, <4>1
      <4>2. e \in p + 1 .. m - 1 => text[e] # Dot
        BY <2>6
      <4>. QED  BY <3>1, <4>1, <4>2
    <3>. QED  BY <2>5, <3>1, <3>2, <3>3
  <2>. QED  BY <2>3, <2>7, <2>8
<1>. QED  BY <1>3, <1>4

EncodedFrom(text, room, rest, p) ==
  LET end == EndAt(text, p)
      len == end - p - 1
  IN IF p >= Len(text) THEN << 0 >>
     ELSE IF ~LabelFits(len, room - p) THEN Bad
     ELSE Before(<<len>> \o SubSeq(text, p + 1, end - 1), rest[p + len + 1])

IsEncoding(text, room, rest) == \A p \in Nat : rest[p] = EncodedFrom(text, room, rest, p)

EncodingRule(text, room, g) ==
  [p \in Nat |->
     LET dots == {i \in p + 1 .. Len(text) : text[i] = Dot}
         end == IF dots = {} THEN Len(text) + 1 ELSE CHOOSE i \in dots : \A j \in dots : i <= j
         len == end - p - 1
     IN IF p >= Len(text) THEN << 0 >>
        ELSE IF ~LabelFits(len, room - p) THEN Bad
        ELSE Before(<<len>> \o SubSeq(text, p + 1, end - 1), g[p + len + 1])]
EncodingRest(text, room) == CHOOSE g : g = EncodingRule(text, room, g)

\* Encoding finds what the recursive function of the model does, from every place.
LEMMA EncodedRests ==
  ASSUME NEW text \in Seq(Byte), NEW room \in Nat
  PROVE  IsEncoding(text, room, EncodingRest(text, room))
<1>. DEFINE R(g) == EncodingRule(text, room, g)
            to == [p \in Nat |-> IF p < Len(text) THEN EndAt(text, p) ELSE p]
            One(r) == [q \in Nat |-> r]
            F == [at \in Nat \X Seq(Int) |-> EncodedFrom(text, room, One(at[2]), at[1])]
<1>1. \A g : R(g) = [p \in Nat |-> EncodedFrom(text, room, g, p)]
  BY Zenon DEF EncodedFrom, EndAt, DotsBehind, EncodingRule
<1>2. ASSUME NEW p \in Nat, p < Len(text)
      PROVE  EndAt(text, p) \in p + 1 .. Len(text) + 1 /\ EndAt(text, p) \in Nat
  BY <1>2, EndIs DEF IsEnd
<1>3. to \in [Nat -> Nat] /\ \A p \in Nat : p < Len(text) => p < to[p]
  BY <1>2
<1>. HIDE DEF R
<1>4. ASSUME NEW p \in Nat, NEW r \in Seq(Int)
      PROVE  EncodedFrom(text, room, One(r), p) \in Seq(Int)
  <2>1. CASE p >= Len(text)
    BY <2>1 DEF EncodedFrom
  <2>2. CASE p < Len(text)
    <3>1. PICK end \in Nat, len \in Nat : end = EndAt(text, p) /\ len = end - p - 1 /\ end \in p + 1 .. Len(text) + 1
      BY <1>2, <2>2
    <3>2. SubSeq(text, p + 1, end - 1) \in Seq(Int)
      <4>1. \A i \in p + 1 .. end - 1 : text[i] \in Int
        BY <3>1, ByteIs
      <4>2. p + 1 \in Int /\ end - 1 \in Int
        BY <3>1
      <4>. QED  BY <4>1, <4>2, SubSeqProperties
    <3>3. <<len>> \o SubSeq(text, p + 1, end - 1) \in Seq(Int)
      <4>1. <<len>> \in Seq(Int)
        OBVIOUS
      <4>. QED  BY <3>2, <4>1, ConcatProperties
    <3>4. p + len + 1 \in Nat
      OBVIOUS
    <3>5. One(r)[p + len + 1] = r
      BY <3>4
    <3>. HIDE DEF One
    <3>6. Before(<<len>> \o SubSeq(text, p + 1, end - 1), One(r)[p + len + 1]) \in Seq(Int)
      BY <3>3, <3>5, BadIs, ConcatProperties DEF Before
    <3>7. Bad \in Seq(Int) /\ ~(p >= Len(text))
      BY <2>2, BadIs
    <3>. QED  BY <3>1, <3>6, <3>7, Zenon DEF EncodedFrom
  <2>. QED  BY <2>1, <2>2
<1>5. LeadsOn(Seq(Int), Len(text), to, F)
  <2>1. F \in [Nat \X Seq(Int) -> Seq(Int)]
    <3>. HIDE DEF One
    <3>. QED  BY <1>4
  <2>2. ASSUME NEW p \in Nat, NEW r \in Seq(Int), NEW s \in Seq(Int), p >= Len(text)
        PROVE  F[<<p, r>>] = F[<<p, s>>]
    <3>1. /\ F[<<p, r>>] = EncodedFrom(text, room, One(r), p)
          /\ F[<<p, s>>] = EncodedFrom(text, room, One(s), p)
      OBVIOUS
    <3>. HIDE DEF One, F
    <3>. QED  BY <2>2, <3>1 DEF EncodedFrom
  <2>. HIDE DEF F, to
  <2>. QED  BY <1>3, <2>1, <2>2 DEF LeadsOn
<1>6. \E h \in [Nat -> Seq(Int)] : \A p \in Nat : h[p] = F[<<p, h[to[p]]>>]
  <2>1. PICK n \in Nat : n = Len(text)
    OBVIOUS
  <2>2. PICK S : S = Seq(Int)
    OBVIOUS
  <2>3. PICK c : c \in S
    BY <2>2, BadIs
  <2>. HIDE DEF F, to
  <2>4. LeadsOn(S, n, to, F)
    BY <1>5, <2>1, <2>2
  <2>5. \E h \in [Nat -> S] : \A p \in Nat : h[p] = F[<<p, h[to[p]]>>]
    BY <2>3, <2>4, Onward
  <2>. QED  BY <2>2, <2>5
<1>7. PICK h \in [Nat -> Seq(Int)] : \A p \in Nat : h[p] = F[<<p, h[to[p]]>>]
  BY <1>6
<1>8. h = R(h)
  <2>1. ASSUME NEW p \in Nat PROVE h[p] = EncodedFrom(text, room, h, p)
    <3>1. h[p] = EncodedFrom(text, room, One(h[to[p]]), p)
      <4>1. to[p] \in Nat
        BY <1>3
      <4>. HIDE DEF to
      <4>2. <<p, h[to[p]]>> \in Nat \X Seq(Int)
        BY <4>1
      <4>. QED  BY <1>7, <4>2
    <3>2. CASE p >= Len(text)
      <4>. HIDE DEF One
      <4>. QED  BY <3>1, <3>2 DEF EncodedFrom
    <3>3. CASE p < Len(text)
      <4>1. PICK end \in Nat, len \in Nat : end = EndAt(text, p) /\ len = end - p - 1 /\ p + len + 1 = end
        BY <1>2, <3>3
      <4>2. One(h[to[p]])[p + len + 1] = h[p + len + 1]
        <5>1. to[p] = EndAt(text, p)
          BY <3>3
        <5>2. to[p] = end
          BY <4>1, <5>1
        <5>. HIDE DEF to
        <5>3. PICK r : r = h[to[p]]
          OBVIOUS
        <5>4. One(r)[end] = r
          OBVIOUS
        <5>. HIDE DEF One
        <5>. QED  BY <4>1, <5>2, <5>3, <5>4
      <4>. HIDE DEF One
      <4>. QED  BY <3>1, <4>1, <4>2, Zenon DEF EncodedFrom
    <3>. QED  BY <3>2, <3>3
  <2>. QED  BY <1>1, <2>1
<1>9. PICK rest : rest = EncodingRest(text, room)
  OBVIOUS
<1>10. rest = R(rest)
  BY <1>8, <1>9, Zenon DEF EncodingRest, R
<1>11. IsEncoding(text, room, rest)
  BY <1>1, <1>10 DEF IsEncoding
<1>. QED  BY <1>9, <1>11

\* Encoding begins at the front of the text without the dot at its end.
LEMMA EncodedUnfolds ==
  ASSUME NEW given, NEW room
  PROVE  Encoded(given, room) =
           IF room < Len(Undotted(given)) + 2 \/ Len(Undotted(given)) > NameLimit THEN Bad
           ELSE EncodingRest(Undotted(given), room)[0]
BY Zenon DEF Encoded, EncodingRest, EncodingRule

EndsInDot(t) == Len(t) = 0 \/ t[Len(t)] = Dot

\* Labels that may be encoded.
Plain == {l \in Labels : Len(l) <= LabelLimit /\ \A i \in DOMAIN l : l[i] # Dot}

\* A text without the dot at its end.
LEMMA UndottedIs ==
  ASSUME NEW t \in Seq(Byte), EndsInDot(t)
  PROVE  /\ Undotted(t) \in Seq(Byte) /\ Len(Undotted(t)) = IF Len(t) = 0 THEN 0 ELSE Len(t) - 1
         /\ \A i \in 1 .. Len(Undotted(t)) : Undotted(t)[i] = t[i]
<1>1. CASE Len(t) = 0
  BY <1>1 DEF Undotted
<1>2. CASE Len(t) # 0
  <2>1. PICK n \in Nat : n = Len(t) /\ n >= 1
    BY <1>2
  <2>2. Undotted(t) = SubSeq(t, 1, n - 1)
    BY <1>2, <2>1 DEF Undotted, EndsInDot
  <2>3. n - 1 \in Nat /\ \A i \in 1 .. n - 1 : t[i] \in Byte
    BY <2>1
  <2>4. PICK u : u = SubSeq(t, 1, n - 1)
    OBVIOUS
  <2>5. u \in Seq(Byte) /\ Len(u) = n - 1 /\ \A i \in 1 .. n - 1 : u[i] = t[i]
    BY <2>3, <2>4, SubSeqProperties
  <2>. QED  BY <1>2, <2>1, <2>2, <2>4, <2>5
<1>. QED  BY <1>1, <1>2

EncodesTo(room, x) ==
  /\ EndsInDot(x[2])
  /\ \A pre \in Seq(Byte) : \A rest :
       EndsInDot(pre) /\ Len(pre \o x[2]) + 1 <= room /\ IsEncoding(Undotted(pre \o x[2]), room, rest)
         => rest[Len(pre)] = x[1]

\* The empty text is encoded as the root.
LEMMA RootEncodes ==
  ASSUME NEW room \in Nat
  PROVE  EncodesTo(room, <<<< 0 >>, <<>>>>)
<1>1. EndsInDot(<<>>)
  BY RootIs DEF EndsInDot
<1>2. ASSUME NEW pre \in Seq(Byte), NEW rest, EndsInDot(pre), IsEncoding(Undotted(pre), room, rest)
      PROVE  rest[Len(pre)] = << 0 >>
  <2>1. PICK u : u = Undotted(pre)
    OBVIOUS
  <2>2. PICK p : p = Len(pre) /\ p \in Nat
    OBVIOUS
  <2>3. p >= Len(u)
    BY <1>2, <2>1, <2>2, UndottedIs
  <2>4. rest[p] = EncodedFrom(u, room, rest, p)
    BY <1>2, <2>1, <2>2 DEF IsEncoding
  <2>. QED  BY <2>2, <2>3, <2>4 DEF EncodedFrom
<1>3. \A pre \in Seq(Byte) : pre \o <<>> = pre
  OBVIOUS
<1>. QED  BY <1>1, <1>2, <1>3 DEF EncodesTo

\* A text with a label before it ends in a dot if it did.
LEMMA StillEndsInDot ==
  ASSUME NEW pre \in Seq(Byte), NEW l \in Labels, NEW b \in Seq(Byte), EndsInDot(b),
         NEW t, TextParts(pre, l, b, t)
  PROVE  EndsInDot(t) /\ EndsInDot(pre \o Spelt(l))
<1>1. PICK more : more = pre \o Spelt(l)
  OBVIOUS
<1>2. PICK p \in Nat, k \in Nat : p = Len(pre) /\ k = Len(b)
  OBVIOUS
<1>3. PICK len \in Nat : len = Len(l)
  BY LabelIs
<1>4. /\ t \in Seq(Byte) /\ Len(t) = p + len + 1 + k /\ t[p + len + 1] = Dot
      /\ more \in Seq(Byte) /\ t = more \o b /\ Len(more) = p + len + 1 /\ more[p + len + 1] = Dot
  BY <1>1, <1>2, <1>3, Zenon DEF TextParts
<1>5. EndsInDot(more)
  BY <1>4 DEF EndsInDot
<1>6. CASE k = 0
  <2>1. Len(t) = p + len + 1
    BY <1>2, <1>3, <1>4, <1>6
  <2>. QED  BY <1>1, <1>4, <1>5, <2>1 DEF EndsInDot
<1>7. CASE k # 0
  <2>1. b[k] = Dot /\ k \in 1 .. k
    BY <1>2, <1>7 DEF EndsInDot
  <2>2. \A i \in 1 .. Len(b) : t[Len(more) + i] = b[i]
    BY <1>4, JoinedAt
  <2>3. t[p + len + 1 + k] = Dot
    BY <1>2, <1>4, <2>1, <2>2
  <2>. QED  BY <1>1, <1>4, <1>5, <2>3, Zenon DEF EndsInDot
<1>. QED  BY <1>6, <1>7

\* A label without a dot is encoded before what is encoded.
LEMMA LabelEncodes ==
  ASSUME NEW room \in Nat, NEW l \in Plain, NEW x \in Written(Plain), EncodesTo(room, x)
  PROVE  EncodesTo(room, <<Coded(l) \o x[1], Spelt(l) \o x[2]>>)
<1>1. PICK a \in Seq(Byte), b \in Seq(Byte) : a = x[1] /\ b = x[2] /\ x \in Written(Labels)
  <2>1. Plain \subseteq Labels
    BY DEF Plain
  <2>. QED  BY <2>1, WrittenMore, WrittenLengths
<1>2. PICK len : len = Len(l) /\ len \in 1 .. LabelLimit /\ len \in Nat /\ LabelLimit \in Nat
  <2>1. l \in Labels /\ Len(l) <= LabelLimit
    BY DEF Plain
  <2>2. PICK len : len = Len(l)
    OBVIOUS
  <2>3. len \in 1 .. 191 /\ len <= LabelLimit
    BY <2>1, <2>2, LabelIs
  <2>. QED  BY <2>2, <2>3, LimitsAssumption
<1>3. l \in Labels /\ l \in Seq(Byte) /\ \A i \in 1 .. len : l[i] # Dot
  <2>1. l \in Labels /\ \A i \in DOMAIN l : l[i] # Dot
    BY DEF Plain
  <2>2. l \in Seq(Byte)
    BY <2>1, LabelIs
  <2>3. DOMAIN l = 1 .. len
    BY <1>2, <2>2
  <2>. QED  BY <2>1, <2>2, <2>3
<1>4. EndsInDot(b)
  BY <1>1 DEF EncodesTo
<1>5. ASSUME NEW pre \in Seq(Byte), NEW t, t = pre \o (Spelt(l) \o b)
      PROVE  TextParts(pre, l, b, t) /\ EndsInDot(pre \o Spelt(l)) /\ EndsInDot(t)
  <2>1. TextParts(pre, l, b, t)
    BY <1>3, <1>5, PieceInText, Zenon
  <2>. QED  BY <1>3, <1>4, <2>1, StillEndsInDot
<1>6. EndsInDot(Spelt(l) \o b)
  <2>1. PICK none \in Seq(Byte) : none = <<>>
    BY RootIs
  <2>2. none \o (Spelt(l) \o b) = Spelt(l) \o b
    <3>1. Spelt(l) \o b \in Seq(Byte)
      BY <1>3, LabelIs, ConcatProperties
    <3>. QED  BY <2>1, <3>1, EmptyJoined
  <2>3. EndsInDot(none \o (Spelt(l) \o b))
    BY <1>5
  <2>. QED  BY <2>2, <2>3
<1>7. ASSUME NEW pre \in Seq(Byte), NEW rest, NEW t, t = pre \o (Spelt(l) \o b),
             Len(t) + 1 <= room, IsEncoding(Undotted(t), room, rest)
      PROVE  rest[Len(pre)] = Coded(l) \o a
  <2>0. PICK u : u = Undotted(t)
    OBVIOUS
  <2>1. PICK p : p = Len(pre) /\ p \in Nat
    OBVIOUS
  <2>2. TextParts(pre, l, b, t) /\ EndsInDot(pre \o Spelt(l)) /\ EndsInDot(t)
    BY <1>5, <1>7
  <2>3. PICK k \in Nat : k = Len(b)
    OBVIOUS
  <2>4. PICK more : more = pre \o Spelt(l)
    OBVIOUS
  <2>5. /\ t \in Seq(Byte) /\ Len(t) = p + len + 1 + k /\ t[p + len + 1] = Dot
        /\ \A i \in 1 .. len : t[p + i] = l[i]
        /\ more \in Seq(Byte) /\ t = more \o b /\ Len(more) = p + len + 1
    BY <1>2, <2>1, <2>2, <2>3, <2>4, Zenon DEF TextParts
  <2>6. u \in Seq(Byte) /\ Len(u) = p + len + k /\ \A i \in 1 .. Len(u) : u[i] = t[i]
    <3>1. /\ u \in Seq(Byte) /\ Len(u) = (IF Len(t) = 0 THEN 0 ELSE Len(t) - 1)
          /\ \A i \in 1 .. Len(u) : u[i] = t[i]
      BY <2>0, <2>2, <2>5, UndottedIs
    <3>2. PICK n, m : n = Len(t) /\ m = Len(u)
      OBVIOUS
    <3>3. n = p + len + 1 + k /\ m = (IF n = 0 THEN 0 ELSE n - 1)
      BY <2>5, <3>1, <3>2
    <3>4. m = p + len + k
      BY <1>2, <2>1, <2>3, <3>3
    <3>. QED  BY <3>1, <3>2, <3>4
  <2>7. \A i \in 1 .. len : u[p + i] = l[i]
    <3>1. ASSUME NEW i \in 1 .. len PROVE u[p + i] = l[i]
      <4>1. p + i \in 1 .. p + len + k
        BY <1>2, <2>1, <2>3
      <4>. QED  BY <2>5, <2>6, <4>1
    <3>. QED  BY <3>1
  <2>8. IsEnd(u, p, p + len + 1)
    <3>1. p + len + 1 \in p + 1 .. p + len + k + 1
      BY <1>2, <2>1, <2>3
    <3>2. ASSUME NEW i \in p + 1 .. p + len + 1 - 1 PROVE u[i] # Dot
      <4>1. i - p \in 1 .. len /\ p + (i - p) = i
        BY <1>2, <2>1
      <4>. QED  BY <1>3, <2>7, <4>1
    <3>3. p + len + 1 = p + len + k + 1 \/ u[p + len + 1] = Dot
      <4>1. k # 0 => p + len + 1 \in 1 .. p + len + k
        BY <1>2, <2>1, <2>3
      <4>2. k # 0 => u[p + len + 1] = Dot
        BY <2>5, <2>6, <4>1
      <4>. QED  BY <1>2, <2>1, <4>2
    <3>4. PICK e, m : e = p + len + 1 /\ m = Len(u)
      OBVIOUS
    <3>5. m + 1 = p + len + k + 1 /\ e - 1 = p + len + 1 - 1
      <4>1. m = p + len + k
        BY <2>6, <3>4
      <4>. QED  BY <1>2, <2>1, <2>3, <3>4, <4>1
    <3>6. /\ e \in p + 1 .. m + 1 /\ \A i \in p + 1 .. e - 1 : u[i] # Dot
          /\ e = m + 1 \/ u[e] = Dot
      <4>1. e \in p + 1 .. m + 1
        BY <3>1, <3>4, <3>5
      <4>2. \A i \in p + 1 .. e - 1 : u[i] # Dot
        BY <3>2, <3>5, Zenon
      <4>3. e = m + 1 \/ u[e] = Dot
        BY <3>3, <3>4, <3>5, Zenon
      <4>. QED  BY <4>1, <4>2, <4>3
    <3>. QED  BY <3>4, <3>6, Zenon DEF IsEnd
  <2>9. EndAt(u, p) = p + len + 1 /\ p < Len(u)
    <3>1. p < Len(u)
      BY <1>2, <2>1, <2>3, <2>6
    <3>. QED  BY <2>1, <2>6, <2>8, <3>1, EndIs
  <2>10. LabelFits(len, room - p)
    <3>1. p + len + 1 + k + 1 <= room
      BY <1>7, <2>5
    <3>2. len + 1 <= room - p
      BY <1>2, <2>1, <2>3, <3>1
    <3>. QED  BY <1>2, <3>2 DEF LabelFits
  <2>11. SubSeq(u, p + 1, p + len) = l
    <3>1. p + Len(l) <= Len(u) /\ \A i \in 1 .. Len(l) : u[p + i] = l[i]
      <4>1. p + len <= p + len + k
        BY <1>2, <2>1, <2>3
      <4>. QED  BY <1>2, <2>6, <2>7, <4>1
    <3>2. SubSeq(u, p + 1, p + Len(l)) = l
      BY <1>3, <2>1, <2>6, <3>1, PartEqual
    <3>. QED  BY <1>2, <3>2
  <2>12. rest[p + len + 1] = a
    <3>1. Len(more \o b) + 1 <= room /\ IsEncoding(Undotted(more \o b), room, rest) /\ EndsInDot(more)
      BY <1>7, <2>2, <2>4, <2>5
    <3>2. rest[Len(more)] = x[1]
      BY <1>1, <2>5, <3>1, Zenon DEF EncodesTo
    <3>. QED  BY <1>1, <2>5, <3>2
  <2>13. rest[p] = EncodedFrom(u, room, rest, p)
    BY <1>7, <2>0, <2>1 DEF IsEncoding
  <2>14. rest[p] = Before(<<len>> \o l, a)
    <3>1. PICK end : end = EndAt(u, p)
      OBVIOUS
    <3>2. end - p - 1 = len /\ end - 1 = p + len /\ p + len + 1 \in Nat /\ ~(p >= Len(u))
      <4>1. ~(p >= p + len + k)
        BY <1>2, <2>1, <2>3
      <4>. QED  BY <1>2, <2>1, <2>6, <2>9, <3>1, <4>1
    <3>. QED  BY <2>10, <2>11, <2>12, <2>13, <3>1, <3>2, Zenon DEF EncodedFrom
  <2>15. a \notin {Bad, Wild}
    BY BadIs
  <2>. QED  BY <1>2, <2>1, <2>14, <2>15, Zenon DEF Before, Coded
<1>8. \A pre \in Seq(Byte) : \A rest :
        Len(pre \o (Spelt(l) \o b)) + 1 <= room
          /\ IsEncoding(Undotted(pre \o (Spelt(l) \o b)), room, rest)
        => rest[Len(pre)] = Coded(l) \o a
  BY <1>7, Zenon
<1>. QED  BY <1>1, <1>6, <1>8 DEF EncodesTo

\* Labels without dots are labels.
LEMMA PlainIs == Plain \subseteq Labels /\ Written(Plain) \subseteq Written(Labels)
<1>1. Plain \subseteq Labels
  BY DEF Plain
<1>. QED  BY <1>1, WrittenMore

\* Every name of labels without dots is encoded from its text, behind any front.
LEMMA NamesEncode ==
  ASSUME NEW x \in Written(Plain), NEW room \in Nat
  PROVE  EncodesTo(room, x)
<1>. DEFINE T == {y \in Written(Plain) : EncodesTo(room, y)}
<1>1. Closed(Plain, Written(Plain)) /\ Written(Plain) \subseteq Pairs
  BY PlainIs, WrittenIs
<1>2. Closed(Plain, T) /\ T \in SUBSET Pairs
  BY <1>1, RootEncodes, LabelEncodes DEF Closed
<1>. QED  BY <1>2, WrittenLeast

\* A text is encoded as the name it is the text of.
LEMMA EncodedAt ==
  ASSUME NEW x \in Written(Plain), NEW room \in Nat, Len(x[2]) + 1 <= room
  PROVE  EncodingRest(Undotted(x[2]), room)[0] = x[1]
<1>1. PICK b \in Seq(Byte) : b = x[2]
  BY PlainIs, WrittenLengths
<1>2. PICK pre \in Seq(Byte) : pre = <<>> /\ Len(pre) = 0 /\ pre \o b = b
  <2>1. <<>> \in Seq(Byte) /\ Len(<<>>) = 0
    BY RootIs
  <2>. QED  BY <2>1, EmptyJoined
<1>3. EncodesTo(room, x)
  BY NamesEncode
<1>4. EndsInDot(pre) /\ EndsInDot(b)
  BY <1>1, <1>2, <1>3 DEF EndsInDot, EncodesTo
<1>5. PICK rest : rest = EncodingRest(Undotted(b), room)
  OBVIOUS
<1>6. IsEncoding(Undotted(b), room, rest)
  <2>1. Undotted(b) \in Seq(Byte)
    BY <1>4, UndottedIs
  <2>. QED  BY <1>5, <2>1, EncodedRests
<1>7. Len(pre \o x[2]) + 1 <= room /\ IsEncoding(Undotted(pre \o x[2]), room, rest)
  BY <1>1, <1>2, <1>6
<1>8. rest[Len(pre)] = x[1]
  BY <1>3, <1>4, <1>7, Zenon DEF EncodesTo
<1>. QED  BY <1>1, <1>2, <1>5, <1>8

\* A text is encoded as its name, in the room the code asks for.
LEMMA EncodedIs ==
  ASSUME NEW x \in Written(Plain), Len(x[1]) <= NameLimit
  PROVE  Encoded(x[2], EncodeSize(x[2])) = x[1]
<1>1. PICK b \in Seq(Byte) : b = x[2] /\ Len(x[1]) = Len(b) + 1
  BY PlainIs, WrittenLengths
<1>2. PICK n \in Nat : n = Len(b)
  BY <1>1
<1>3. EndsInDot(b)
  <2>1. EncodesTo(0, x)
    BY NamesEncode
  <2>. QED  BY <1>1, <2>1 DEF EncodesTo
<1>4. PICK k \in Nat : k = Len(Undotted(b)) /\ k = IF n = 0 THEN 0 ELSE n - 1
  <2>1. Undotted(b) \in Seq(Byte) /\ Len(Undotted(b)) = IF Len(b) = 0 THEN 0 ELSE Len(b) - 1
    BY <1>3, UndottedIs
  <2>. QED  BY <1>2, <2>1
<1>5. PICK room : room = EncodeSize(b) /\ room = k + 2
  BY <1>4 DEF EncodeSize
<1>6. room \in Nat /\ ~(room < k + 2) /\ ~(k > NameLimit) /\ n + 1 <= room
  BY <1>1, <1>2, <1>4, <1>5, LimitsAssumption
<1>7. Encoded(b, room) = EncodingRest(Undotted(b), room)[0]
  BY <1>4, <1>6, EncodedUnfolds, Zenon
<1>8. EncodingRest(Undotted(b), room)[0] = x[1]
  BY <1>1, <1>2, <1>6, EncodedAt
<1>. QED  BY <1>1, <1>5, <1>7, <1>8

\* Names whose texts are the same but for the dot behind them are the same.
LEMMA SameTextSameName ==
  ASSUME NEW x \in Written(Plain), NEW y \in Written(Plain), Undotted(x[2]) = Undotted(y[2])
  PROVE  x[1] = y[1]
<1>1. PICK n \in Nat, k \in Nat : n = Len(x[2]) /\ k = Len(y[2])
  BY PlainIs, WrittenLengths
<1>2. PICK room \in Nat : room = n + k + 1
  OBVIOUS
<1>3. n + 1 <= room /\ k + 1 <= room
  BY <1>2
<1>4. EncodingRest(Undotted(x[2]), room)[0] = x[1]
  BY <1>1, <1>3, EncodedAt
<1>5. EncodingRest(Undotted(y[2]), room)[0] = y[1]
  BY <1>1, <1>3, EncodedAt
<1>. QED  BY <1>4, <1>5

-----------------------------------------------------------------------------
(* The labels of a name.                                                   *)

\* The labels from p on, where rest is the labels from there.
HeldFrom(name, rest, p) ==
  IF p >= Len(name) \/ name[p + 1] = 0 THEN {}
  ELSE {SubSeq(name, p + 2, p + 1 + name[p + 1])} \cup rest[p + 1 + name[p + 1]]

IsHeld(name, rest) == \A p \in Nat : rest[p] = HeldFrom(name, rest, p)

\* The labels of a name are those the recursive function of the model gives.
LEMMA HeldRests ==
  ASSUME NEW name \in Seq(Byte)
  PROVE  \E rest : LabelsIn(name) = rest[0] /\ IsHeld(name, rest)
<1>. DEFINE R(g) == [p \in Nat |->
              IF p >= Len(name) \/ name[p + 1] = 0 THEN {}
              ELSE {SubSeq(name, p + 2, p + 1 + name[p + 1])} \cup g[p + 1 + name[p + 1]]]
            to == [p \in Nat |-> IF p < Len(name) THEN p + 1 + name[p + 1] ELSE p]
            One(r) == [q \in Nat |-> r]
            A == {SubSeq(name, p + 2, p + 1 + name[p + 1]) : p \in Nat}
            F == [at \in Nat \X SUBSET A |-> HeldFrom(name, One(at[2]), at[1])]
<1>1. \A g : R(g) = [p \in Nat |-> HeldFrom(name, g, p)]
  BY Zenon DEF HeldFrom
<1>. HIDE DEF R
<1>2. \A p \in Nat : p < Len(name) => name[p + 1] \in Nat
  BY ByteIs
<1>3. to \in [Nat -> Nat] /\ \A p \in Nat : p < Len(name) => p < to[p]
  BY <1>2
<1>4. ASSUME NEW p \in Nat, NEW r \in SUBSET A
      PROVE  HeldFrom(name, One(r), p) \in SUBSET A
  <2>1. CASE p >= Len(name)
    BY <2>1 DEF HeldFrom
  <2>2. CASE p < Len(name)
    <3>1. PICK q \in Nat : q = p + 1 + name[p + 1]
      BY <1>2, <2>2
    <3>2. One(r)[q] = r
      OBVIOUS
    <3>3. SubSeq(name, p + 2, p + 1 + name[p + 1]) \in A
      OBVIOUS
    <3>4. HeldFrom(name, One(r), p) \in {{}, {SubSeq(name, p + 2, p + 1 + name[p + 1])} \cup One(r)[q]}
      <4>. HIDE DEF One, A
      <4>. QED  BY <3>1, Zenon DEF HeldFrom
    <3>. HIDE DEF One, A
    <3>. QED  BY <3>2, <3>3, <3>4
  <2>. QED  BY <2>1, <2>2
<1>5. LeadsOn(SUBSET A, Len(name), to, F)
  <2>1. F \in [Nat \X SUBSET A -> SUBSET A]
    <3>. HIDE DEF One, A
    <3>. QED  BY <1>4
  <2>2. ASSUME NEW p \in Nat, NEW r \in SUBSET A, NEW s \in SUBSET A, p >= Len(name)
        PROVE  F[<<p, r>>] = F[<<p, s>>]
    <3>1. /\ F[<<p, r>>] = HeldFrom(name, One(r), p)
          /\ F[<<p, s>>] = HeldFrom(name, One(s), p)
      OBVIOUS
    <3>. HIDE DEF One, F, A
    <3>. QED  BY <2>2, <3>1 DEF HeldFrom
  <2>. HIDE DEF F, to, A
  <2>. QED  BY <1>3, <2>1, <2>2 DEF LeadsOn
<1>6. \E h \in [Nat -> SUBSET A] : \A p \in Nat : h[p] = F[<<p, h[to[p]]>>]
  <2>1. PICK n \in Nat : n = Len(name)
    OBVIOUS
  <2>2. PICK S : S = SUBSET A
    OBVIOUS
  <2>3. PICK c : c \in S
    BY <2>2
  <2>. HIDE DEF F, to, A
  <2>4. LeadsOn(S, n, to, F)
    BY <1>5, <2>1, <2>2
  <2>5. \E h \in [Nat -> S] : \A p \in Nat : h[p] = F[<<p, h[to[p]]>>]
    BY <2>3, <2>4, Onward
  <2>. QED  BY <2>2, <2>5
<1>7. PICK h \in [Nat -> SUBSET A] : \A p \in Nat : h[p] = F[<<p, h[to[p]]>>]
  BY <1>6
<1>8. h = R(h)
  <2>1. ASSUME NEW p \in Nat PROVE h[p] = HeldFrom(name, h, p)
    <3>1. h[p] = HeldFrom(name, One(h[to[p]]), p)
      <4>1. to[p] \in Nat
        BY <1>3
      <4>. HIDE DEF to, A
      <4>2. <<p, h[to[p]]>> \in Nat \X SUBSET A
        BY <4>1
      <4>. QED  BY <1>7, <4>2
    <3>2. CASE p >= Len(name)
      <4>. HIDE DEF One, A
      <4>. QED  BY <3>1, <3>2 DEF HeldFrom
    <3>3. CASE p < Len(name)
      <4>1. PICK q \in Nat : q = p + 1 + name[p + 1] /\ q = to[p]
        BY <1>2, <3>3
      <4>2. One(h[to[p]])[q] = h[q]
        <5>. HIDE DEF to, A
        <5>. QED  BY <4>1
      <4>. HIDE DEF One, A, to
      <4>. QED  BY <3>1, <4>1, <4>2 DEF HeldFrom
    <3>. QED  BY <3>2, <3>3
  <2>. HIDE DEF A
  <2>. QED  BY <1>1, <2>1
<1>9. PICK rest : rest = CHOOSE g : g = R(g)
  OBVIOUS
<1>10. rest = R(rest)
  BY <1>8, <1>9, Zenon
<1>11. LabelsIn(name) = rest[0]
  BY <1>9, Zenon DEF LabelsIn, R
<1>. QED  BY <1>1, <1>10, <1>11 DEF IsHeld

\* A name all labels of which are of a kind is written with labels of that kind.
LEMMA WrittenOf ==
  ASSUME NEW L \in SUBSET Labels, NEW x \in Written(Labels),
         \A l \in Labels : l \in LabelsIn(x[1]) => l \in L
  PROVE  x \in Written(L)
<1>. DEFINE HoldsFew(y) ==
              \A pre \in Seq(Byte) : \A rest :
                IsHeld(pre \o y[1], rest) /\ (\A l \in Labels : l \in rest[Len(pre)] => l \in L) => y \in Written(L)
            T == {y \in Written(Labels) : HoldsFew(y)}
<1>0. Closed(L, Written(L)) /\ Closed(Labels, Written(Labels)) /\ Written(Labels) \subseteq Pairs
  BY WrittenIs
<1>1. <<<< 0 >>, <<>>>> \in T
  BY <1>0 DEF Closed
<1>2. ASSUME NEW l \in Labels, NEW y \in T
      PROVE  <<Coded(l) \o y[1], Spelt(l) \o y[2]>> \in T
  <2>1. PICK z : z = <<Coded(l) \o y[1], Spelt(l) \o y[2]>>
    OBVIOUS
  <2>2. z \in Written(Labels)
    BY <1>0, <2>1 DEF Closed
  <2>3. ASSUME NEW pre \in Seq(Byte), NEW rest, IsHeld(pre \o z[1], rest),
               \A e \in Labels : e \in rest[Len(pre)] => e \in L
        PROVE  z \in Written(L)
    <3>1. PICK a \in Seq(Byte) : a = y[1] /\ Len(a) \in Nat
      BY WrittenLengths
    <3>2. PICK t, more : t = pre \o z[1] /\ more = pre \o Coded(l)
      OBVIOUS
    <3>3. NameParts(pre, l, a, t)
      <4>1. t = pre \o (Coded(l) \o a)
        BY <2>1, <3>1, <3>2
      <4>. QED  BY <4>1, PieceInName, Zenon
    <3>4. PICK p \in Nat, len \in Nat : p = Len(pre) /\ len = Len(l) /\ len # 0
      <4>1. PICK n : n = Len(l) /\ n \in 1 .. 191
        BY LabelIs
      <4>2. n \in Nat /\ n # 0 /\ Len(pre) \in Nat
        BY <4>1
      <4>. QED  BY <4>1, <4>2
    <3>5. /\ t \in Seq(Byte) /\ Len(t) = p + len + 1 + Len(a) /\ t[p + 1] = len
          /\ SubSeq(t, p + 2, p + 1 + len) = l
          /\ more \in Seq(Byte) /\ t = more \o a /\ Len(more) = p + len + 1
      BY <3>2, <3>3, <3>4, Zenon DEF NameParts
    <3>6. rest[p] = {l} \cup rest[Len(more)]
      <4>1. rest[p] = HeldFrom(t, rest, p)
        BY <2>3, <3>2 DEF IsHeld
      <4>2. ~(p >= Len(t)) /\ p + 1 + len = Len(more)
        <5>0. Len(t) \in Nat /\ Len(more) \in Nat
          BY <3>5, LenProperties
        <5>1. PICK k \in Nat, n \in Nat, m \in Nat : k = Len(a) /\ n = Len(t) /\ m = Len(more)
          BY <3>1, <5>0, Zenon
        <5>2. n = p + len + 1 + k /\ m = p + len + 1
          BY <3>5, <5>1
        <5>3. ~(p >= n) /\ p + 1 + len = m
          BY <5>1, <5>2
        <5>. QED  BY <5>1, <5>3, Zenon
      <4>. QED  BY <3>4, <3>5, <4>1, <4>2, Zenon DEF HeldFrom
    <3>7. l \in L /\ \A e \in Labels : e \in rest[Len(more)] => e \in L
      BY <2>3, <3>4, <3>6
    <3>8. y \in Written(L)
      <4>1. HoldsFew(y)
        OBVIOUS
      <4>2. IsHeld(more \o y[1], rest)
        BY <2>3, <3>1, <3>2, <3>5
      <4>. QED  BY <3>5, <3>7, <4>1, <4>2
    <3>. QED  BY <1>0, <2>1, <3>7, <3>8, Zenon DEF Closed
  <2>4. HoldsFew(z)
    BY <2>3
  <2>. QED  BY <2>1, <2>2, <2>4
<1>3. Closed(Labels, T) /\ T \in SUBSET Pairs
  <2>1. T \in SUBSET Pairs
    BY <1>0
  <2>. HIDE DEF T
  <2>. QED  BY <1>1, <1>2, <2>1 DEF Closed
<1>4. HoldsFew(x)
  <2>1. x \in T
    <3>. HIDE DEF T
    <3>. QED  BY <1>3, WrittenLeast
  <2>. QED  BY <2>1
<1>5. PICK a \in Seq(Byte) : a = x[1]
  BY WrittenLengths
<1>6. PICK rest : LabelsIn(a) = rest[0] /\ IsHeld(a, rest)
  BY HeldRests
<1>7. PICK pre \in Seq(Byte) : pre \o a = a /\ Len(pre) = 0
  <2>1. <<>> \in Seq(Byte) /\ <<>> \o a = a /\ Len(<<>>) = 0
    BY RootIs, EmptyJoined
  <2>. QED  BY <2>1
<1>8. IsHeld(pre \o x[1], rest) /\ \A l \in Labels : l \in rest[Len(pre)] => l \in L
  BY <1>5, <1>6, <1>7
<1>. QED  BY <1>4, <1>8

\* Names whose lengths are read as they are, and names an encoder can have written.
LEMMA ShortAre ==
  ASSUME NEW x \in Written(Labels)
  PROVE  /\ Short(x[1]) => x \in Written(Under(CharSign))
         /\ Writable(x[1]) => x \in Written(Plain)
<1>1. ASSUME Short(x[1]) PROVE x \in Written(Under(CharSign))
  <2>1. \A l \in Labels : l \in LabelsIn(x[1]) => l \in Under(CharSign)
    BY <1>1 DEF Short, Under
  <2>. QED  BY <2>1, UnderIs, WrittenOf
<1>2. ASSUME Writable(x[1]) PROVE x \in Written(Plain)
  <2>1. \A l \in Labels : l \in LabelsIn(x[1]) => l \in Plain
    BY <1>2 DEF Writable, Plain
  <2>. QED  BY <2>1, PlainIs, WrittenOf
<1>. QED  BY <1>1, <1>2

-----------------------------------------------------------------------------
(* Joining.                                                                *)

\* Joining octets is associative.
LEMMA Associative == \A e, f, g \in Seq(Byte) : (e \o f) \o g = e \o (f \o g)
<1>1. PICK S : S = Byte
  OBVIOUS
<1>2. ASSUME NEW s \in Seq(S), NEW t \in Seq(S), NEW u \in Seq(S)
      PROVE  (s \o t) \o u = s \o (t \o u)
  BY ConcatAssociative
<1>. QED  BY <1>1, <1>2

Joint(x, y) == <<SubSeq(x[1], 1, Len(x[1]) - 1) \o y[1], x[2] \o y[2]>>

\* A name with another one behind it, in the place of its last octet, is the name
\* of the texts joined.
LEMMA JointIs ==
  ASSUME NEW L \in SUBSET Labels, NEW x \in Written(L), NEW y \in Written(L)
  PROVE  Joint(x, y) \in Written(L)
<1>. DEFINE W == Written(L)
            T == {z \in W : Joint(z, y) \in W}
<1>1. Closed(L, W) /\ W \subseteq Pairs
  BY WrittenIs
<1>2. PICK c \in Seq(Byte), d \in Seq(Byte) : c = y[1] /\ d = y[2] /\ y = <<c, d>>
  BY <1>1 DEF Pairs
<1>3. <<<< 0 >>, <<>>>> \in T
  <2>1. SubSeq(<< 0 >>, 1, Len(<< 0 >>) - 1) = <<>>
    OBVIOUS
  <2>2. Joint(<<<< 0 >>, <<>>>>, y) = <<<<>> \o c, <<>> \o d>>
    BY <1>2, <2>1 DEF Joint
  <2>3. Joint(<<<< 0 >>, <<>>>>, y) = y
    BY <1>2, <2>2, EmptyJoined
  <2>4. <<<< 0 >>, <<>>>> \in W
    BY <1>1 DEF Closed
  <2>. QED  BY <2>3, <2>4
<1>4. ASSUME NEW l \in L, NEW z \in T
      PROVE  <<Coded(l) \o z[1], Spelt(l) \o z[2]>> \in T
  <2>1. PICK a \in Seq(Byte), b \in Seq(Byte) : a = z[1] /\ b = z[2] /\ Len(a) = Len(b) + 1
    BY WrittenMore, WrittenLengths
  <2>2. PICK s \in Seq(Byte), t \in Seq(Byte) : s = Coded(l) /\ t = Spelt(l)
    BY LabelIs
  <2>3. PICK front \in Seq(Byte) : front = SubSeq(a, 1, Len(a) - 1)
    <3>1. \A i \in 1 .. Len(a) - 1 : a[i] \in Byte
      OBVIOUS
    <3>2. 1 \in Int /\ Len(a) - 1 \in Int
      BY <2>1
    <3>. QED  BY <3>1, <3>2, SubSeqProperties
  <2>4. Joint(z, y) = <<front \o c, b \o d>>
    BY <1>2, <2>1, <2>3 DEF Joint
  <2>5. SubSeq(s \o a, 1, Len(s \o a) - 1) = s \o front
    <3>1. PICK n \in Nat, m \in Nat : n = Len(s) /\ m = Len(b) /\ Len(a) = m + 1
      BY <2>1
    <3>2. PICK w \in Seq(Byte) : w = s \o front
      BY <2>4, ConcatProperties
    <3>3. front \in Seq(Byte) /\ Len(front) = m /\ \A i \in 1 .. m : front[i] = a[i]
      <4>1. 1 \in Int /\ Len(a) - 1 \in Int /\ \A i \in 1 .. Len(a) - 1 : a[i] \in Byte
        BY <3>1
      <4>2. /\ front \in Seq(Byte) /\ Len(front) = (IF 1 <= Len(a) - 1 THEN Len(a) - 1 - 1 + 1 ELSE 0)
            /\ \A i \in 1 .. Len(a) - 1 - 1 + 1 : front[i] = a[1 + i - 1]
        BY <2>3, <4>1, SubSeqProperties
      <4>. QED  BY <3>1, <4>2
    <3>4. /\ Len(w) = n + m /\ \A i \in 1 .. n : w[i] = s[i]
          /\ \A i \in 1 .. m : w[n + i] = front[i]
      <4>1. /\ Len(w) = Len(s) + Len(front) /\ \A i \in 1 .. Len(s) : w[i] = s[i]
            /\ \A i \in 1 .. Len(front) : w[Len(s) + i] = front[i]
        BY <2>4, <3>2, JoinedAt
      <4>. QED  BY <3>1, <3>3, <4>1
    <3>5. PICK v \in Seq(Byte) : v = s \o a
      BY ConcatProperties
    <3>6. /\ Len(v) = n + (m + 1) /\ \A i \in 1 .. n : v[i] = s[i]
          /\ \A i \in 1 .. m + 1 : v[n + i] = a[i]
      <4>1. /\ Len(v) = Len(s) + Len(a) /\ \A i \in 1 .. Len(s) : v[i] = s[i]
            /\ \A i \in 1 .. Len(a) : v[Len(s) + i] = a[i]
        BY <3>5, JoinedAt
      <4>. QED  BY <3>1, <4>1
    <3>7. \A i \in 1 .. n + m : v[0 + i] = w[i]
      <4>1. ASSUME NEW i \in 1 .. n + m PROVE v[i] = w[i]
        <5>1. CASE i \in 1 .. n
          BY <3>4, <3>6, <5>1
        <5>2. CASE i \notin 1 .. n
          <6>1. PICK j \in 1 .. m : i = n + j /\ j \in 1 .. m + 1
            <7>1. i - n \in 1 .. m /\ i = n + (i - n) /\ i - n \in 1 .. m + 1
              BY <5>2
            <7>. QED  BY <7>1
          <6>. QED  BY <3>3, <3>4, <3>6, <6>1
        <5>. QED  BY <5>1, <5>2
      <4>. QED  BY <4>1
    <3>8. SubSeq(v, 0 + 1, 0 + Len(w)) = w
      BY <3>4, <3>6, <3>7, PartEqual
    <3>9. 0 + 1 = 1 /\ 0 + Len(w) = Len(v) - 1
      BY <3>4, <3>6
    <3>. QED  BY <3>2, <3>5, <3>8, <3>9
  <2>6. PICK z1 : z1 = <<s \o a, t \o b>>
    OBVIOUS
  <2>7. Joint(z1, y) = <<(s \o front) \o c, (t \o b) \o d>>
    <3>1. z1[1] = s \o a /\ z1[2] = t \o b
      BY <2>6
    <3>. QED  BY <1>2, <2>5, <3>1, Zenon DEF Joint
  <2>8. (s \o front) \o c = s \o (front \o c) /\ (t \o b) \o d = t \o (b \o d)
    <3>1. (t \o b) \o d = t \o (b \o d)
      BY Associative, Zenon
    <3>2. \A f, g \in Seq(Byte) : (s \o f) \o g = s \o (f \o g)
      BY Associative, Zenon
    <3>3. \A g \in Seq(Byte) : (s \o front) \o g = s \o (front \o g)
      BY <3>2, Zenon
    <3>. QED  BY <3>1, <3>3, Zenon
  <2>9. PICK j : j = Joint(z, y)
    OBVIOUS
  <2>10. <<Coded(l) \o j[1], Spelt(l) \o j[2]>> \in W
    BY <1>1, <2>9, Zenon DEF Closed
  <2>11. j[1] = front \o c /\ j[2] = b \o d
    BY <2>4, <2>9
  <2>12. Joint(z1, y) \in W
    BY <2>2, <2>7, <2>8, <2>10, <2>11
  <2>13. z1 \in W
    <3>1. z1 = <<Coded(l) \o z[1], Spelt(l) \o z[2]>>
      BY <2>1, <2>2, <2>6
    <3>. QED  BY <1>1, <3>1, Zenon DEF Closed
  <2>. QED  BY <2>1, <2>2, <2>6, <2>12, <2>13
<1>5. Closed(L, T) /\ T \in SUBSET Pairs
  <2>1. T \in SUBSET Pairs
    BY <1>1
  <2>. HIDE DEF T
  <2>. QED  BY <1>3, <1>4, <2>1 DEF Closed
<1>6. x \in T
  <2>. HIDE DEF T
  <2>. QED  BY <1>5, WrittenLeast
<1>. QED  BY <1>6

-----------------------------------------------------------------------------
(* How much room a walk needs.                                             *)

\* The octets of the buffer that are used.
SizeOf(asText, s) == IF asText THEN Len(s) + 1 ELSE Len(s)

\* What a walk finds is a failure, or fits.
LEMMA WalkFits ==
  ASSUME NEW msg \in Seq(Byte), NEW beyond \in Byte, NEW asText \in BOOLEAN,
         NEW rest, IsWalk(msg, beyond, asText, rest)
  PROVE  \A p \in Nat, depth \in 0 .. DepthLimit, left \in 0 .. OwnerBuffer :
           rest[<<p, depth, left>>] # Bad =>
             /\ rest[<<p, depth, left>>] \in Seq(Byte)
             /\ SizeOf(asText, rest[<<p, depth, left>>]) \in Nat
             /\ 1 <= SizeOf(asText, rest[<<p, depth, left>>])
             /\ SizeOf(asText, rest[<<p, depth, left>>]) <= left
<1>1. PICK names : IsWalk(msg, beyond, FALSE, names) /\ (~asText => names = rest)
  <2>1. CASE asText
    <3>1. PICK names : IsWalk(msg, beyond, FALSE, names)
      <4>1. \E names : IsWalk(msg, beyond, FALSE, names)
        BY WalkRests
      <4>. QED  BY <4>1
    <3>. QED  BY <2>1, <3>1
  <2>2. CASE ~asText
    <3>1. asText = FALSE
      BY <2>2
    <3>. QED  BY <3>1
  <2>. QED  BY <2>1, <2>2
<1>2. PICK texts : IsWalk(msg, beyond, TRUE, texts) /\ (asText => texts = rest)
  <2>1. CASE asText
    <3>1. asText = TRUE
      BY <2>1
    <3>. QED  BY <3>1
  <2>2. CASE ~asText
    <3>1. PICK texts : IsWalk(msg, beyond, TRUE, texts)
      <4>1. \E texts : IsWalk(msg, beyond, TRUE, texts)
        BY WalkRests
      <4>. QED  BY <4>1
    <3>. QED  BY <2>2, <3>1
  <2>. QED  BY <2>1, <2>2
<1>3. ASSUME NEW p \in Nat, NEW depth \in 0 .. DepthLimit, NEW left \in 0 .. OwnerBuffer,
             NEW at, at = <<p, depth, left>>, rest[at] # Bad
      PROVE  /\ rest[at] \in Seq(Byte) /\ SizeOf(asText, rest[at]) \in Nat
             /\ 1 <= SizeOf(asText, rest[at]) /\ SizeOf(asText, rest[at]) <= left
  <2>1. ReadsName(Labels, names[at], texts[at], left)
    BY <1>1, <1>2, <1>3, ReadAsWritten
  <2>2. <<names[at], texts[at]>> \in Written(Labels) /\ Len(names[at]) <= left
    BY <1>1, <1>2, <1>3, <2>1 DEF ReadsName
  <2>3. PICK x : x = <<names[at], texts[at]>>
    OBVIOUS
  <2>4. /\ x[1] \in Seq(Byte) /\ x[2] \in Seq(Byte)
        /\ Len(x[1]) \in Nat /\ Len(x[2]) \in Nat /\ Len(x[1]) = Len(x[2]) + 1
    BY <2>2, <2>3, WrittenLengths
  <2>5. x[1] = names[at] /\ x[2] = texts[at]
    BY <2>3
  <2>6. PICK k \in Nat : k = Len(x[2]) /\ Len(x[1]) = k + 1 /\ k + 1 <= left
    BY <2>2, <2>4, <2>5
  <2>7. rest[at] \in {x[1], x[2]} /\ SizeOf(asText, rest[at]) = k + 1
    <3>1. CASE asText
      BY <1>2, <2>5, <2>6, <3>1 DEF SizeOf
    <3>2. CASE ~asText
      BY <1>1, <2>5, <2>6, <3>2 DEF SizeOf
    <3>. QED  BY <3>1, <3>2
  <2>8. k + 1 \in Nat /\ 1 <= k + 1
    OBVIOUS
  <2>. QED  BY <2>4, <2>6, <2>7, <2>8
<1>. QED  BY <1>3, Zenon

\* What is found is found with more pointers and any other room it fits.
FindsMore(asText, rest, at) ==
  \A more \in at[2] .. DepthLimit, other \in 0 .. OwnerBuffer :
    rest[at] # Bad /\ SizeOf(asText, rest[at]) <= other => rest[<<at[1], more, other>>] = rest[at]

\* A walk that succeeds does so with more pointers, and wherever what it finds fits.
LEMMA WalkFindsMore ==
  ASSUME NEW msg \in Seq(Byte), NEW beyond \in Byte, NEW asText \in BOOLEAN,
         NEW rest, IsWalk(msg, beyond, asText, rest)
  PROVE  \A p \in Nat, depth \in 0 .. DepthLimit, left \in 0 .. OwnerBuffer :
           FindsMore(asText, rest, <<p, depth, left>>)
<1>0. OwnerBuffer \in Nat /\ DepthLimit \in Nat
  BY RoomIs
<1>. DEFINE T == {at \in Stops : FindsMore(asText, rest, at)}
<1>1. ASSUME NEW p \in Nat, NEW depth \in 0 .. DepthLimit, NEW left \in 0 .. OwnerBuffer,
             depth # 0 /\ IsPointer(Octet(msg, p, beyond)) => <<TargetAt(msg, p, beyond), depth - 1, left>> \in T,
             Fits(Octet(msg, p, beyond) + 1, left) =>
               <<p + Octet(msg, p, beyond) + 1, depth, left - (Octet(msg, p, beyond) + 1)>> \in T,
             NEW more \in depth .. DepthLimit, NEW other \in 0 .. OwnerBuffer, rest[<<p, depth, left>>] # Bad,
             SizeOf(asText, rest[<<p, depth, left>>]) <= other
      PROVE  rest[<<p, more, other>>] = rest[<<p, depth, left>>]
  <2>0. more \in 0 .. DepthLimit
    BY <1>0
  <2>1. /\ rest[<<p, depth, left>>] = Found(msg, beyond, asText, rest, p, depth, left)
        /\ rest[<<p, more, other>>] = Found(msg, beyond, asText, rest, p, more, other)
    BY <2>0 DEF IsWalk
  <2>2. ~(p >= Len(msg))
    BY <1>1, <2>1, Zenon DEF Found
  <2>3. CASE Octet(msg, p, beyond) = 0
    <3>1. left > 0
      BY <1>1, <2>1, <2>2, <2>3, Zenon DEF Found
    <3>2. other > 0
      <4>1. PICK n \in Nat : n = SizeOf(asText, rest[<<p, depth, left>>]) /\ 1 <= n
        BY <1>1, WalkFits
      <4>2. n <= other
        BY <1>1, <4>1
      <4>. QED  BY <4>1, <4>2
    <3>3. PICK v : v = IF asText THEN <<>> ELSE << 0 >>
      OBVIOUS
    <3>4. rest[<<p, depth, left>>] = v
      BY <2>1, <2>2, <2>3, <3>1, <3>3, Zenon DEF Found
    <3>5. rest[<<p, more, other>>] = v
      BY <2>1, <2>2, <2>3, <3>2, <3>3, Zenon DEF Found
    <3>. QED  BY <3>4, <3>5, Zenon
  <2>4. CASE Octet(msg, p, beyond) # 0 /\ IsPointer(Octet(msg, p, beyond))
    <3>1. depth # 0 /\ more # 0
      <4>1. depth # 0
        BY <1>1, <2>1, <2>2, <2>4, Zenon DEF Found
      <4>. QED  BY <1>0, <4>1
    <3>2. PICK q : q = TargetAt(msg, p, beyond)
      OBVIOUS
    <3>3. /\ rest[<<p, depth, left>>] = rest[<<q, depth - 1, left>>]
          /\ rest[<<p, more, other>>] = rest[<<q, more - 1, other>>]
      BY <2>1, <2>2, <2>4, <3>1, <3>2, Zenon DEF Found
    <3>4. FindsMore(asText, rest, <<q, depth - 1, left>>)
      BY <1>1, <2>4, <3>1, <3>2
    <3>5. more - 1 \in depth - 1 .. DepthLimit
      BY <1>0, <3>1
    <3>. QED  BY <1>1, <3>3, <3>4, <3>5 DEF FindsMore
  <2>5. CASE Octet(msg, p, beyond) # 0 /\ ~IsPointer(Octet(msg, p, beyond))
    <3>1. PICK len \in Nat : len = Octet(msg, p, beyond)
      BY BytesRead, ByteIs
    <3>2. Fits(len + 1, left)
      BY <1>1, <2>1, <2>2, <2>5, <3>1, Zenon DEF Found
    <3>3. PICK l : l = LabelAt(msg, p, beyond)
      OBVIOUS
    <3>4. PICK x, y : x = rest[<<p + len + 1, depth, left - (len + 1)>>] /\ y = rest[<<p + len + 1, more, other - (len + 1)>>]
      OBVIOUS
    <3>5. rest[<<p, depth, left>>] = Before(Piece(l, asText), x)
      BY <2>1, <2>2, <2>5, <3>1, <3>2, <3>3, <3>4, Zenon DEF Found
    <3>6. x # Bad
      BY <1>1, <3>5, Zenon DEF Before
    <3>7. PICK n \in Nat : x \in Seq(Byte) /\ n = SizeOf(asText, x) /\ 1 <= n
      <4>1. p + len + 1 \in Nat /\ left - (len + 1) \in 0 .. OwnerBuffer
        BY <1>0, <3>2 DEF Fits
      <4>. QED  BY <3>4, <3>6, <4>1, WalkFits
    <3>8. SizeOf(asText, rest[<<p, depth, left>>]) = len + 1 + n
      <4>1. PICK c \in Seq(Byte) : c = Piece(l, asText) /\ Len(c) = len + 1
        <5>1. PICK k \in Seq(Byte) : k = l /\ Len(k) = len /\ Len(k) \in Byte
          BY <3>1, <3>3, BytesRead
        <5>. QED  BY <5>1, PieceIs
      <4>2. rest[<<p, depth, left>>] = c \o x
        BY <3>5, <3>7, <4>1, BadIs DEF Before
      <4>3. Len(c \o x) = len + 1 + Len(x) /\ Len(x) \in Nat
        BY <3>7, <4>1
      <4>4. PICK i, j \in Nat : i = Len(c \o x) /\ j = Len(x) /\ i = len + 1 + j
        BY <4>3
      <4>5. n = IF asText THEN j + 1 ELSE j
        BY <3>7, <4>4 DEF SizeOf
      <4>6. SizeOf(asText, c \o x) = IF asText THEN i + 1 ELSE i
        BY <4>4 DEF SizeOf
      <4>7. (IF asText THEN i + 1 ELSE i) = len + 1 + n
        <5>1. CASE asText
          BY <4>4, <4>5, <5>1
        <5>2. CASE ~asText
          BY <4>4, <4>5, <5>2
        <5>. QED  BY <5>1, <5>2
      <4>. QED  BY <4>2, <4>6, <4>7
    <3>9. Fits(len + 1, other) /\ n <= other - (len + 1) /\ other - (len + 1) \in 0 .. OwnerBuffer
      <4>1. len + 1 + n <= other
        BY <1>1, <3>8
      <4>. QED  BY <1>0, <3>7, <4>1 DEF Fits
    <3>10. rest[<<p, more, other>>] = Before(Piece(l, asText), y)
      BY <2>1, <2>2, <2>5, <3>1, <3>3, <3>4, <3>9, Zenon DEF Found
    <3>11. FindsMore(asText, rest, <<p + len + 1, depth, left - (len + 1)>>)
      BY <1>1, <3>1, <3>2
    <3>12. y = x
      BY <3>4, <3>6, <3>7, <3>9, <3>11 DEF FindsMore
    <3>. QED  BY <3>5, <3>10, <3>12, Zenon
  <2>. QED  BY <2>3, <2>4, <2>5
<1>2. \A p \in Nat, depth \in 0 .. DepthLimit, left \in 0 .. OwnerBuffer :
        <<p, depth, left>> \in T <=> FindsMore(asText, rest, <<p, depth, left>>)
  BY DEF Stops
<1>3. Inherited(msg, beyond, T)
  <2>1. ASSUME NEW p \in Nat, NEW depth \in 0 .. DepthLimit, NEW left \in 0 .. OwnerBuffer,
               depth # 0 /\ IsPointer(Octet(msg, p, beyond)) => <<TargetAt(msg, p, beyond), depth - 1, left>> \in T,
               Fits(Octet(msg, p, beyond) + 1, left) =>
                 <<p + Octet(msg, p, beyond) + 1, depth, left - (Octet(msg, p, beyond) + 1)>> \in T
        PROVE  FindsMore(asText, rest, <<p, depth, left>>)
    <3>. HIDE DEF T
    <3>. QED  BY <1>1, <2>1 DEF FindsMore
  <2>. HIDE DEF T
  <2>. QED  BY <1>2, <2>1 DEF Inherited
<1>4. \A p \in Nat, depth \in 0 .. DepthLimit, left \in 0 .. OwnerBuffer : <<p, depth, left>> \in T
  <2>. HIDE DEF T
  <2>. QED  BY <1>3, ByWalk
<1>. QED  BY <1>2, <1>4, Zenon

-----------------------------------------------------------------------------
(* Skipping.                                                               *)

\* Where skipping a name goes on from p, past being where it ends from there.
SkippedFrom(msg, past, p) ==
  IF p >= Len(msg) THEN -1
  ELSE IF msg[p + 1] = 0 THEN p + 1
  ELSE IF IsPointer(msg[p + 1]) THEN IF p + PointerSize > Len(msg) THEN -1 ELSE p + PointerSize
  ELSE past[p + msg[p + 1] + 1]

\* Skipping finds what the recursive function of the model does, from every place.
LEMMA SkippedRests ==
  ASSUME NEW msg \in Seq(Byte)
  PROVE  \E past : /\ \A start : Skipped(msg, start) = past[start]
                   /\ \A p \in Nat : past[p] = SkippedFrom(msg, past, p)
<1>. DEFINE R(g) == [p \in Nat |->
              IF p >= Len(msg) THEN -1
              ELSE IF msg[p + 1] = 0 THEN p + 1
              ELSE IF IsPointer(msg[p + 1]) THEN IF p + PointerSize > Len(msg) THEN -1 ELSE p + PointerSize
              ELSE g[p + msg[p + 1] + 1]]
            to == [p \in Nat |-> IF p < Len(msg) THEN p + msg[p + 1] + 1 ELSE p]
            One(r) == [q \in Nat |-> r]
            F == [at \in Nat \X Int |-> SkippedFrom(msg, One(at[2]), at[1])]
<1>1. \A g : R(g) = [p \in Nat |-> SkippedFrom(msg, g, p)]
  BY Zenon DEF SkippedFrom
<1>. HIDE DEF R
<1>2. \A p \in Nat : p < Len(msg) => msg[p + 1] \in Nat
  BY ByteIs
<1>3. to \in [Nat -> Nat] /\ \A p \in Nat : p < Len(msg) => p < to[p]
  BY <1>2
<1>4. ASSUME NEW p \in Nat, NEW r \in Int
      PROVE  SkippedFrom(msg, One(r), p) \in Int
  <2>1. CASE p >= Len(msg)
    BY <2>1 DEF SkippedFrom
  <2>2. CASE p < Len(msg)
    <3>1. PICK len \in Nat : len = msg[p + 1]
      BY <1>2, <2>2
    <3>2. p + 1 \in Int /\ p + PointerSize \in Int /\ -1 \in Int
      BY DEF PointerSize
    <3>3. p + len + 1 \in Nat /\ One(r)[p + len + 1] = r
      OBVIOUS
    <3>. HIDE DEF One
    <3>. QED  BY <3>1, <3>2, <3>3 DEF SkippedFrom
  <2>. QED  BY <2>1, <2>2
<1>5. LeadsOn(Int, Len(msg), to, F)
  <2>1. F \in [Nat \X Int -> Int]
    <3>. HIDE DEF One
    <3>. QED  BY <1>4
  <2>2. ASSUME NEW p \in Nat, NEW r \in Int, NEW s \in Int, p >= Len(msg)
        PROVE  F[<<p, r>>] = F[<<p, s>>]
    <3>1. /\ F[<<p, r>>] = SkippedFrom(msg, One(r), p)
          /\ F[<<p, s>>] = SkippedFrom(msg, One(s), p)
      OBVIOUS
    <3>. HIDE DEF One, F
    <3>. QED  BY <2>2, <3>1 DEF SkippedFrom
  <2>. HIDE DEF F, to
  <2>. QED  BY <1>3, <2>1, <2>2 DEF LeadsOn
<1>6. \E h \in [Nat -> Int] : \A p \in Nat : h[p] = F[<<p, h[to[p]]>>]
  <2>1. PICK n \in Nat : n = Len(msg)
    OBVIOUS
  <2>2. PICK S : S = Int
    OBVIOUS
  <2>3. PICK c : c \in S
    BY <2>2
  <2>. HIDE DEF F, to
  <2>4. LeadsOn(S, n, to, F)
    BY <1>5, <2>1, <2>2
  <2>5. \E h \in [Nat -> S] : \A p \in Nat : h[p] = F[<<p, h[to[p]]>>]
    BY <2>3, <2>4, Onward
  <2>. QED  BY <2>2, <2>5
<1>7. PICK h \in [Nat -> Int] : \A p \in Nat : h[p] = F[<<p, h[to[p]]>>]
  BY <1>6
<1>8. h = R(h)
  <2>1. ASSUME NEW p \in Nat PROVE h[p] = SkippedFrom(msg, h, p)
    <3>1. h[p] = SkippedFrom(msg, One(h[to[p]]), p)
      <4>1. to[p] \in Nat
        BY <1>3
      <4>. HIDE DEF to
      <4>2. <<p, h[to[p]]>> \in Nat \X Int
        BY <4>1
      <4>. QED  BY <1>7, <4>2
    <3>2. CASE p >= Len(msg)
      <4>. HIDE DEF One
      <4>. QED  BY <3>1, <3>2 DEF SkippedFrom
    <3>3. CASE p < Len(msg)
      <4>1. PICK len \in Nat : len = msg[p + 1]
        BY <1>2, <3>3
      <4>2. One(h[to[p]])[p + len + 1] = h[p + len + 1]
        <5>1. to[p] = p + len + 1 /\ p + len + 1 \in Nat
          <6>1. to[p] = p + msg[p + 1] + 1
            BY <3>3
          <6>2. p + msg[p + 1] + 1 = p + len + 1
            BY <4>1
          <6>. HIDE DEF to
          <6>. QED  BY <6>1, <6>2
        <5>. HIDE DEF to
        <5>2. PICK r : r = h[to[p]]
          OBVIOUS
        <5>3. PICK q \in Nat : q = p + len + 1 /\ q = to[p]
          BY <5>1
        <5>4. One(r)[q] = r
          OBVIOUS
        <5>. HIDE DEF One
        <5>. QED  BY <5>2, <5>3, <5>4
      <4>. HIDE DEF One
      <4>. QED  BY <3>1, <4>1, <4>2 DEF SkippedFrom
    <3>. QED  BY <3>2, <3>3
  <2>. QED  BY <1>1, <2>1
<1>9. PICK past : past = CHOOSE g : g = R(g)
  OBVIOUS
<1>10. past = R(past)
  BY <1>8, <1>9, Zenon
<1>11. \A start : Skipped(msg, start) = past[start]
  BY <1>9, Zenon DEF Skipped, R
<1>. QED  BY <1>1, <1>10, <1>11

\* Parts of a message that follow each other are one.
LEMMA MessageParts ==
  \A t \in Seq(Byte) : \A p, q, e \in Nat :
    p <= q /\ q <= e /\ e <= Len(t) => SubSeq(t, p + 1, q) \o SubSeq(t, q + 1, e) = SubSeq(t, p + 1, e)
<1>1. PICK S : S = Byte
  OBVIOUS
<1>2. ASSUME NEW t \in Seq(S), NEW p \in Nat, NEW q \in Nat, NEW e \in Nat, p <= q, q <= e, e <= Len(t)
      PROVE  SubSeq(t, p + 1, q) \o SubSeq(t, q + 1, e) = SubSeq(t, p + 1, e)
  BY <1>2, PartsJoined
<1>. QED  BY <1>1, <1>2

\* The octets of a coded label.
LEMMA CodedIs ==
  ASSUME NEW l \in Labels
  PROVE  Coded(l)[1] = Len(l) /\ \A i \in 1 .. Len(l) : Coded(l)[i + 1] = l[i]
<1>1. l \in Seq(Byte) /\ Len(l) \in Nat /\ Len(l) \in Byte
  BY LabelIs, LenProperties
<1>2. PICK one : one = <<Len(l)>>
  OBVIOUS
<1>3. one \in Seq(Byte) /\ Len(one) = 1 /\ one[1] = Len(l)
  BY <1>1, <1>2
<1>4. PICK piece : piece = Coded(l)
  OBVIOUS
<1>5. piece = one \o l
  BY <1>2, <1>4 DEF Coded
<1>6. /\ \A i \in 1 .. Len(one) : piece[i] = one[i]
      /\ \A i \in 1 .. Len(l) : piece[Len(one) + i] = l[i]
  <2>1. one \in Seq(Byte)
    BY <1>3
  <2>. QED  BY <1>1, <1>5, <2>1, JoinedAt
<1>7. piece[1] = Len(l) /\ \A i \in 1 .. Len(l) : piece[i + 1] = l[i]
  BY <1>1, <1>3, <1>6
<1>. QED  BY <1>4, <1>7, Zenon

\* A label that ends in a message begins in it.
LEMMA LabelBegins ==
  \A msg \in Seq(Byte), p \in Nat : \A len \in 1 .. 191 : p + len < Len(msg) => p < Len(msg)
<1>1. \A n, p, len \in Nat : p + len < n => p < n
  OBVIOUS
<1>2. \A msg \in Seq(Byte) : Len(msg) \in Nat
  OBVIOUS
<1>3. 1 .. 191 \subseteq Nat
  OBVIOUS
<1>. QED  BY <1>1, <1>2, <1>3, Zenon

\* The octets of a label in a message are the label, coded.
LEMMA LabelInMessage ==
  ASSUME NEW msg \in Seq(Byte), NEW beyond \in Byte, NEW p \in Nat,
         NEW len \in 1 .. 191, len = Octet(msg, p, beyond), p + len < Len(msg)
  PROVE  Coded(LabelAt(msg, p, beyond)) = SubSeq(msg, p + 1, p + len + 1)
<1>1. PICK l \in Seq(Byte) : l = LabelAt(msg, p, beyond) /\ Len(l) = len
  BY BytesRead
<1>2. l \in Labels
  <2>1. len \in Byte
    BY DEF Byte
  <2>. QED  BY <1>1, <2>1 DEF Labels
<1>3. PICK c \in Seq(Byte) : c = Coded(l) /\ Len(c) = len + 1 /\ c[1] = len /\ \A i \in 1 .. len : c[i + 1] = l[i]
  BY <1>1, <1>2, LabelIs, CodedIs
<1>4. PICK n \in Nat : n = Len(msg)
  OBVIOUS
<1>5. msg[p + 1] = len
  <2>1. p < Len(msg)
    <3>. QED  BY LabelBegins, Zenon
  <2>2. Octet(msg, p, beyond) = msg[p + 1]
    BY <2>1, Zenon DEF Octet
  <2>. QED  BY <2>2, Zenon
<1>6. \A i \in 1 .. len : l[i] = msg[p + i + 1]
  <2>1. ASSUME NEW i \in 1 .. len PROVE l[i] = msg[p + i + 1]
    <3>1. l[i] = Octet(msg, p + i, beyond)
      BY <1>1 DEF LabelAt
    <3>2. p + i < n
      BY <1>4
    <3>. QED  BY <1>4, <3>1, <3>2 DEF Octet
  <2>. QED  BY <2>1
<1>7. ASSUME NEW i \in 1 .. len + 1 PROVE msg[p + i] = c[i]
  <2>1. CASE i = 1
    BY <1>3, <1>5, <2>1
  <2>2. CASE i # 1
    <3>1. PICK j \in 1 .. len : i = j + 1 /\ p + j + 1 = p + i
      <4>1. i - 1 \in 1 .. len /\ i = (i - 1) + 1 /\ p + (i - 1) + 1 = p + i
        BY <2>2
      <4>. QED  BY <4>1
    <3>. QED  BY <1>3, <1>6, <3>1
  <2>. QED  BY <2>1, <2>2
<1>8. p + Len(c) <= Len(msg) /\ p + Len(c) = p + len + 1 /\ \A i \in 1 .. Len(c) : msg[p + i] = c[i]
  <2>1. Len(c) = len + 1
    BY <1>3
  <2>2. p + (len + 1) <= n /\ p + (len + 1) = p + len + 1
    BY <1>4
  <2>3. \A i \in 1 .. Len(c) : msg[p + i] = c[i]
    BY <1>7, <2>1
  <2>4. p + Len(c) = p + len + 1 /\ p + Len(c) <= Len(msg)
    BY <1>4, <2>1, <2>2
  <2>. QED  BY <2>3, <2>4
<1>9. SubSeq(msg, p + 1, p + Len(c)) = c
  BY <1>8, PartEqual
<1>. QED  BY <1>1, <1>3, <1>8, <1>9

\* What was skipped from p is the name that is found there, or the front of it
\* and a pointer to the rest.
ReadUpTo(msg, rest, e, p, name) ==
  \/ e \in Nat /\ p < e /\ e <= Len(msg) /\ SubSeq(msg, p + 1, e) = name
  \/ \E k \in Nat, depth \in 0 .. DepthLimit, left \in 0 .. OwnerBuffer :
       /\ e = k + 2 /\ p <= k /\ k < Len(msg) /\ IsPointer(msg[k + 1])
       /\ rest[<<TargetAt(msg, k, 0), depth, left>>] # Bad
       /\ name = SubSeq(msg, p + 1, k) \o rest[<<TargetAt(msg, k, 0), depth, left>>]

\* Joining octets before what a walk finds is associative.
LEMMA OctetsBefore ==
  \A a, b \in Seq(Byte) : \A z \in Seq(Int) : (a \o b) \o z = a \o (b \o z)
<1>1. ASSUME NEW a \in Seq(Byte), NEW b \in Seq(Byte), NEW z \in Seq(Int)
      PROVE  (a \o b) \o z = a \o (b \o z)
  <2>1. Byte \subseteq Int
    BY ByteIs
  <2>2. a \in Seq(Int) /\ b \in Seq(Int)
    BY <2>1, SeqMonotonic
  <2>. QED  BY <2>2, ConcatAssociative
<1>. QED  BY <1>1

\* Wherever both succeed, what is skipped is what is read.
LEMMA SkippedIsRead ==
  ASSUME NEW msg \in Seq(Byte), NEW rest, IsWalk(msg, 0, FALSE, rest),
         NEW past, \A p \in Nat : past[p] = SkippedFrom(msg, past, p)
  PROVE  \A p \in Nat, depth \in 0 .. DepthLimit, left \in 0 .. OwnerBuffer :
           rest[<<p, depth, left>>] # Bad /\ past[p] # -1
             => ReadUpTo(msg, rest, past[p], p, rest[<<p, depth, left>>])
<1>0. OwnerBuffer \in Nat /\ DepthLimit \in Nat /\ 0 \in Byte
  BY RoomIs DEF Byte
<1>. DEFINE Q(at) == rest[at] # Bad /\ past[at[1]] # -1 => ReadUpTo(msg, rest, past[at[1]], at[1], rest[at])
            T == {at \in Stops : Q(at)}
<1>5. \A p, q, e \in Nat :
        p <= q /\ q <= e /\ e <= Len(msg) => SubSeq(msg, p + 1, q) \o SubSeq(msg, q + 1, e) = SubSeq(msg, p + 1, e)
  BY MessageParts, Zenon
<1>6. \A a, b \in Seq(Byte) : \A z \in Seq(Int) : (a \o b) \o z = a \o (b \o z)
  BY OctetsBefore
<1>1. ASSUME NEW p \in Nat, NEW depth \in 0 .. DepthLimit, NEW left \in 0 .. OwnerBuffer,
             Fits(Octet(msg, p, 0) + 1, left) =>
               <<p + Octet(msg, p, 0) + 1, depth, left - (Octet(msg, p, 0) + 1)>> \in T,
             rest[<<p, depth, left>>] # Bad, past[p] # -1
      PROVE  ReadUpTo(msg, rest, past[p], p, rest[<<p, depth, left>>])
  <2>1. rest[<<p, depth, left>>] = Found(msg, 0, FALSE, rest, p, depth, left)
    BY DEF IsWalk
  <2>2. ~(p >= Len(msg))
    BY <1>1, <2>1, Zenon DEF Found
  <2>3. PICK n \in Nat : n = Len(msg) /\ p < n
    BY <2>2
  <2>4. PICK len \in Nat : len = Octet(msg, p, 0) /\ len = msg[p + 1] /\ len <= 255 /\ p + 1 \in 1 .. Len(msg)
    <3>1. Octet(msg, p, 0) = msg[p + 1] /\ p + 1 \in 1 .. Len(msg)
      BY <2>3 DEF Octet
    <3>. QED  BY <3>1, ByteIs
  <2>5. past[p] = SkippedFrom(msg, past, p)
    BY <1>1
  <2>6. CASE len = 0
    <3>1. past[p] = p + 1
      BY <2>2, <2>4, <2>5, <2>6, Zenon DEF SkippedFrom
    <3>2. rest[<<p, depth, left>>] = << 0 >>
      BY <1>1, <2>1, <2>2, <2>4, <2>6, Zenon DEF Found
    <3>3. SubSeq(msg, p + 1, p + 1) = << 0 >>
      <4>1. PICK u \in Seq(Byte) : u = SubSeq(msg, p + 1, p + 1) /\ Len(u) = 1 /\ u[1] = 0
        <5>1. p <= p + 1 /\ p + 1 <= Len(msg) /\ (p + 1) - p = 1 /\ p + 1 \in Nat /\ 1 \in 1 .. 1
          BY <2>3
        <5>2. IsPart(Byte, msg, p, p + 1, SubSeq(msg, p + 1, p + 1))
          BY <5>1, PartIs, Zenon
        <5>3. p + 1 \in Nat /\ msg[p + 1] = 0
          BY <2>4, <2>6
        <5>. QED  BY <5>1, <5>2, <5>3, Zenon DEF IsPart
      <4>2. u = << 0 >>
        <5>1. << 0 >> \in Seq(Byte) /\ Len(<< 0 >>) = 1 /\ << 0 >>[1] = 0
          BY RootIs
        <5>2. PICK v \in Seq(Byte) : v = << 0 >> /\ Len(v) = 1 /\ v[1] = 0
          BY <5>1
        <5>3. \A i \in 1 .. Len(u) : u[i] = v[i]
          BY <4>1, <5>2
        <5>4. u = v
          BY <4>1, <5>2, <5>3, SeqEqual
        <5>. QED  BY <5>2, <5>4
      <4>. QED  BY <4>1, <4>2
    <3>4. p + 1 \in Nat /\ p < p + 1 /\ p + 1 <= Len(msg)
      BY <2>3
    <3>. QED  BY <3>1, <3>2, <3>3, <3>4, Zenon DEF ReadUpTo
  <2>7. CASE len # 0 /\ IsPointer(len)
    <3>1. past[p] = p + 2
      <4>1. past[p] = p + PointerSize
        BY <1>1, <2>2, <2>4, <2>5, <2>7, Zenon DEF SkippedFrom
      <4>. QED  BY <4>1 DEF PointerSize
    <3>2. depth # 0
      BY <1>1, <2>1, <2>2, <2>4, <2>7, Zenon DEF Found
    <3>3. PICK z : z = rest[<<TargetAt(msg, p, 0), depth - 1, left>>] /\ rest[<<p, depth, left>>] = z
      BY <2>1, <2>2, <2>4, <2>7, <3>2, Zenon DEF Found
    <3>4. SubSeq(msg, p + 1, p) \o z = z
      <4>1. z \in Seq(Int)
        <5>1. <<p, depth, left>> \in Stops
          BY DEF Stops
        <5>. QED  BY <3>3, <5>1 DEF IsWalk
      <4>2. SubSeq(msg, p + 1, p) = <<>>
        <5>1. PICK u \in Seq(Byte) : u = SubSeq(msg, p + 1, p) /\ Len(u) = 0
          <6>1. p <= p /\ p <= Len(msg) /\ p - p = 0
            BY <2>3
          <6>2. IsPart(Byte, msg, p, p, SubSeq(msg, p + 1, p))
            BY <6>1, PartIs, Zenon
          <6>. QED  BY <6>1, <6>2, Zenon DEF IsPart
        <5>. QED  BY <5>1
      <4>. QED  BY <4>1, <4>2, EmptyJoined
    <3>5. depth - 1 \in 0 .. DepthLimit /\ p <= p /\ p < Len(msg)
      BY <1>0, <2>3, <3>2
    <3>. QED  BY <1>1, <2>4, <2>7, <3>1, <3>3, <3>4, <3>5, Zenon DEF ReadUpTo
  <2>8. CASE len # 0 /\ ~IsPointer(len)
    <3>1. Fits(len + 1, left)
      BY <1>1, <2>1, <2>2, <2>4, <2>8, Zenon DEF Found
    <3>2. PICK l : l = LabelAt(msg, p, 0)
      OBVIOUS
    <3>3. PICK q \in Nat : q = p + len + 1
      OBVIOUS
    <3>4. PICK r : r = rest[<<q, depth, left - (len + 1)>>]
      OBVIOUS
    <3>5. rest[<<p, depth, left>>] = Before(Piece(l, FALSE), r)
      BY <2>1, <2>2, <2>4, <2>8, <3>1, <3>2, <3>3, <3>4, Zenon DEF Found
    <3>6. r # Bad /\ rest[<<p, depth, left>>] = Coded(l) \o r
      <4>1. r # Bad
        BY <1>1, <3>5, Zenon DEF Before
      <4>2. r # Wild
        <5>1. r \in Seq(Byte)
          <6>1. left - (len + 1) \in 0 .. OwnerBuffer
            BY <1>0, <3>1 DEF Fits
          <6>. QED  BY <1>0, <3>4, <4>1, <6>1, WalkFits
        <5>. QED  BY <5>1, BadIs
      <4>3. r \notin {Bad, Wild}
        BY <4>1, <4>2
      <4>. QED  BY <3>5, <4>1, <4>3, PiecesAre, Zenon DEF Before
    <3>7. past[p] = past[q]
      BY <2>2, <2>4, <2>5, <2>8, <3>3, Zenon DEF SkippedFrom
    <3>8. left - (len + 1) \in 0 .. OwnerBuffer
      BY <1>0, <3>1 DEF Fits
    <3>9. q < n /\ r \in Seq(Int)
      <4>1. r = Found(msg, 0, FALSE, rest, q, depth, left - (len + 1))
        BY <3>4, <3>8 DEF IsWalk
      <4>2. ~(q >= Len(msg))
        BY <3>6, <4>1, Zenon DEF Found
      <4>3. <<q, depth, left - (len + 1)>> \in Stops
        BY <3>8 DEF Stops
      <4>. QED  BY <2>3, <3>4, <4>2, <4>3 DEF IsWalk
    <3>10. Coded(l) = SubSeq(msg, p + 1, q)
      <4>1. len \in 1 .. 191 /\ p + len < Len(msg)
        <5>1. ~(len >= 192)
          BY <2>8 DEF IsPointer
        <5>2. p + len < n /\ len \in 1 .. 191
          <6>1. len # 0 /\ q < n
            BY <2>8, <3>9
          <6>. QED  BY <3>3, <5>1, <6>1
        <5>. QED  BY <2>3, <5>2, Zenon
      <4>. QED  BY <1>0, <2>4, <3>2, <3>3, <4>1, LabelInMessage
    <3>11. ReadUpTo(msg, rest, past[q], q, r)
      <4>1. <<q, depth, left - (len + 1)>> \in T
        BY <1>1, <2>4, <3>1, <3>3
      <4>. QED  BY <1>1, <3>4, <3>6, <3>7, <4>1
    <3>12. CASE past[q] \in Nat /\ q < past[q] /\ past[q] <= Len(msg) /\ SubSeq(msg, q + 1, past[q]) = r
      <4>1. PICK e \in Nat : e = past[q] /\ q < e /\ e <= Len(msg) /\ SubSeq(msg, q + 1, e) = r
        BY <3>12
      <4>2. p <= q /\ q <= e /\ p < e
        BY <3>3, <4>1
      <4>3. SubSeq(msg, p + 1, q) \o SubSeq(msg, q + 1, e) = SubSeq(msg, p + 1, e)
        BY <1>5, <4>1, <4>2
      <4>. QED  BY <3>6, <3>7, <3>10, <4>1, <4>2, <4>3, Zenon DEF ReadUpTo
    <3>13. ASSUME NEW k \in Nat, NEW d \in 0 .. DepthLimit, NEW t \in 0 .. OwnerBuffer, NEW z,
                  past[q] = k + 2, q <= k, k < Len(msg), IsPointer(msg[k + 1]),
                  z = rest[<<TargetAt(msg, k, 0), d, t>>], z # Bad,
                  r = SubSeq(msg, q + 1, k) \o z
           PROVE  ReadUpTo(msg, rest, past[p], p, rest[<<p, depth, left>>])
      <4>1. SubSeq(msg, p + 1, q) \o SubSeq(msg, q + 1, k) = SubSeq(msg, p + 1, k)
        <5>1. p <= q /\ k <= Len(msg)
          BY <3>3, <3>13
        <5>. QED  BY <1>5, <3>13, <5>1
      <4>2. SubSeq(msg, p + 1, q) \o r = SubSeq(msg, p + 1, k) \o z
        <5>1. SubSeq(msg, p + 1, q) \in Seq(Byte)
          <6>1. p <= q /\ q <= Len(msg)
            BY <2>3, <3>3, <3>9
          <6>. QED  BY <6>1, PartIs, Zenon DEF IsPart
        <5>2. SubSeq(msg, q + 1, k) \in Seq(Byte)
          <6>1. k <= Len(msg)
            BY <3>13
          <6>. QED  BY <3>13, <6>1, PartIs, Zenon DEF IsPart
        <5>3. z \in Seq(Int)
          <6>1. Octet(msg, k, 0) = msg[k + 1]
            BY <3>13, Zenon DEF Octet
          <6>2. TargetAt(msg, k, 0) \in Nat
            BY <1>0, <3>13, <6>1, BytesRead
          <6>3. <<TargetAt(msg, k, 0), d, t>> \in Stops
            BY <6>2 DEF Stops
          <6>. QED  BY <3>13, <6>3 DEF IsWalk
        <5>4. SubSeq(msg, p + 1, q) \o (SubSeq(msg, q + 1, k) \o z) = (SubSeq(msg, p + 1, q) \o SubSeq(msg, q + 1, k)) \o z
          BY <1>6, <5>1, <5>2, <5>3, Zenon
        <5>. QED  BY <3>13, <4>1, <5>4, Zenon
      <4>3. p <= k
        BY <3>3, <3>13
      <4>. QED  BY <3>6, <3>7, <3>10, <3>13, <4>2, <4>3, Zenon DEF ReadUpTo
    <3>14. (\E k \in Nat, d \in 0 .. DepthLimit, t \in 0 .. OwnerBuffer :
              /\ past[q] = k + 2 /\ q <= k /\ k < Len(msg) /\ IsPointer(msg[k + 1])
              /\ rest[<<TargetAt(msg, k, 0), d, t>>] # Bad
              /\ r = SubSeq(msg, q + 1, k) \o rest[<<TargetAt(msg, k, 0), d, t>>])
           => ReadUpTo(msg, rest, past[p], p, rest[<<p, depth, left>>])
      BY <3>13, Zenon
    <3>. QED  BY <3>11, <3>12, <3>14, Zenon DEF ReadUpTo
  <2>. QED  BY <2>6, <2>7, <2>8
<1>2. \A p \in Nat, depth \in 0 .. DepthLimit, left \in 0 .. OwnerBuffer :
        <<p, depth, left>> \in T <=>
          (rest[<<p, depth, left>>] # Bad /\ past[p] # -1
             => ReadUpTo(msg, rest, past[p], p, rest[<<p, depth, left>>]))
  <2>1. ASSUME NEW p \in Nat, NEW depth \in 0 .. DepthLimit, NEW left \in 0 .. OwnerBuffer
        PROVE  <<p, depth, left>> \in Stops /\ <<p, depth, left>>[1] = p
    BY DEF Stops
  <2>. QED  BY <2>1
<1>3. Inherited(msg, 0, T)
  <2>. HIDE DEF T
  <2>. QED  BY <1>1, <1>2 DEF Inherited
<1>4. \A p \in Nat, depth \in 0 .. DepthLimit, left \in 0 .. OwnerBuffer : <<p, depth, left>> \in T
  <2>. HIDE DEF T
  <2>. QED  BY <1>0, <1>3, ByWalk
<1>. QED  BY <1>2, <1>4, Zenon

-----------------------------------------------------------------------------
(* The names of a message.                                                 *)

\* Where a name begins in a message there is none, or a name, and one text wherever
\* there is room for it.
NameAndText(m, p, x) ==
  /\ x \in Written(Labels) /\ x[1] = Expanded(m, p, 0) /\ x[2] = Extracted(m, p, 0, OwnerBuffer)
  /\ x[2] = Extracted(m, p, 0, NameLimit)
  /\ x[1] \in Seq(Byte) /\ x[2] \in Seq(Byte)
  /\ Len(x[1]) \in Nat /\ Len(x[2]) \in Nat /\ Len(x[1]) = Len(x[2]) + 1 /\ Len(x[1]) <= NameLimit

\* The text is extracted into every buffer with room for it.
LEMMA TextByRoom ==
  ASSUME NEW m \in Seq(Byte), NEW p \in Nat, NEW room \in 0 .. OwnerBuffer
  PROVE  Extracted(m, p, 0, room) =
           IF Extracted(m, p, 0, OwnerBuffer) # Bad /\ Len(Extracted(m, p, 0, OwnerBuffer)) < room
           THEN Extracted(m, p, 0, OwnerBuffer) ELSE Bad
<1>0. 0 \in Byte /\ OwnerBuffer \in 0 .. OwnerBuffer /\ DepthLimit \in 0 .. DepthLimit
      /\ DepthLimit \in DepthLimit .. DepthLimit /\ room \in Nat /\ room <= OwnerBuffer /\ OwnerBuffer \in Nat
  BY RoomIs DEF Byte
<1>1. PICK texts : IsWalk(m, 0, TRUE, texts)
  <2>1. \E texts : IsWalk(m, 0, TRUE, texts)
    BY <1>0, WalkRests
  <2>. QED  BY <2>1
<1>2. PICK s, t : s = texts[<<p, DepthLimit, room>>] /\ t = texts[<<p, DepthLimit, OwnerBuffer>>]
  OBVIOUS
<1>3. Extracted(m, p, 0, room) = s /\ Extracted(m, p, 0, OwnerBuffer) = t
  BY <1>1, <1>2, Zenon DEF IsWalk, Extracted
<1>4. /\ s # Bad => s \in Seq(Byte) /\ SizeOf(TRUE, s) \in Nat /\ SizeOf(TRUE, s) <= room
      /\ t # Bad => t \in Seq(Byte) /\ SizeOf(TRUE, t) \in Nat
  BY <1>0, <1>1, <1>2, WalkFits
<1>5. s # Bad /\ SizeOf(TRUE, s) <= OwnerBuffer => t = s
  <2>1. FindsMore(TRUE, texts, <<p, DepthLimit, room>>)
    BY <1>0, <1>1, WalkFindsMore
  <2>. QED  BY <1>0, <1>2, <2>1 DEF FindsMore
<1>6. t # Bad /\ SizeOf(TRUE, t) <= room => s = t
  <2>1. FindsMore(TRUE, texts, <<p, DepthLimit, OwnerBuffer>>)
    BY <1>0, <1>1, WalkFindsMore
  <2>. QED  BY <1>0, <1>2, <2>1 DEF FindsMore
<1>7. \A e : SizeOf(TRUE, e) = Len(e) + 1
  BY DEF SizeOf
<1>8. CASE s = Bad
  <2>1. CASE t # Bad
    <3>1. PICK k \in Nat : k = Len(t)
      BY <1>4, <2>1
    <3>2. ~(k + 1 <= room)
      BY <1>6, <1>7, <1>8, <2>1, <3>1
    <3>3. ~(k < room)
      BY <1>0, <3>2
    <3>. QED  BY <1>3, <1>8, <3>1, <3>3
  <2>2. CASE t = Bad
    BY <1>3, <1>8, <2>2
  <2>. QED  BY <2>1, <2>2
<1>9. CASE s # Bad
  <2>1. PICK k \in Nat : k = Len(s) /\ k + 1 <= room
    <3>1. s \in Seq(Byte) /\ SizeOf(TRUE, s) <= room
      BY <1>4, <1>9
    <3>2. PICK k \in Nat : k = Len(s)
      BY <3>1
    <3>3. SizeOf(TRUE, s) = k + 1
      BY <1>7, <3>2
    <3>. QED  BY <3>1, <3>2, <3>3
  <2>2. k + 1 <= OwnerBuffer /\ k < room
    BY <1>0, <2>1
  <2>3. t = s
    BY <1>5, <1>7, <1>9, <2>1, <2>2
  <2>. QED  BY <1>3, <1>9, <2>1, <2>2, <2>3
<1>. QED  BY <1>8, <1>9

\* A name that is read, with its text; only a name that is read has one.
LEMMA NameIsRead ==
  ASSUME NEW m \in Seq(Byte), NEW p \in Nat
  PROVE  /\ Expanded(m, p, 0) = Bad <=> Extracted(m, p, 0, NameLimit) = Bad
         /\ Expanded(m, p, 0) # Bad => \E x : NameAndText(m, p, x)
<1>0. 0 \in Byte /\ NameLimit \in 0 .. OwnerBuffer /\ DepthLimit \in 0 .. DepthLimit
  BY RoomIs DEF Byte
<1>1. PICK names : IsWalk(m, 0, FALSE, names)
  <2>1. \E names : IsWalk(m, 0, FALSE, names)
    BY <1>0, WalkRests
  <2>. QED  BY <2>1
<1>2. PICK texts : IsWalk(m, 0, TRUE, texts)
  <2>1. \E texts : IsWalk(m, 0, TRUE, texts)
    BY <1>0, WalkRests
  <2>. QED  BY <2>1
<1>3. PICK a, b : a = names[<<p, DepthLimit, NameLimit>>] /\ b = texts[<<p, DepthLimit, NameLimit>>]
  OBVIOUS
<1>4. Expanded(m, p, 0) = a /\ Extracted(m, p, 0, NameLimit) = b
  BY <1>1, <1>2, <1>3, Zenon DEF IsWalk, Expanded, Extracted
<1>5. ReadsName(Labels, a, b, NameLimit)
  BY <1>0, <1>1, <1>2, <1>3, ReadAsWritten
<1>6. CASE a = Bad /\ b = Bad
  BY <1>4, <1>6
<1>7. CASE ~(a = Bad /\ b = Bad)
  <2>1. PICK x : x = <<a, b>>
    OBVIOUS
  <2>2. x \in Written(Labels) /\ Len(a) <= NameLimit /\ x[1] = a /\ x[2] = b
    BY <1>5, <1>7, <2>1 DEF ReadsName
  <2>3. /\ x[1] \in Seq(Byte) /\ x[2] \in Seq(Byte)
        /\ Len(x[1]) \in Nat /\ Len(x[2]) \in Nat /\ Len(x[1]) = Len(x[2]) + 1
    BY <2>2, WrittenLengths
  <2>4. a # Bad /\ b # Bad
    BY <2>2, <2>3, BadIs
  <2>5. Extracted(m, p, 0, OwnerBuffer) = b
    BY <1>0, <1>4, <2>4, TextByRoom
  <2>6. NameAndText(m, p, x)
    BY <1>4, <2>2, <2>3, <2>5, Zenon DEF NameAndText
  <2>. QED  BY <1>4, <2>4, <2>6, Zenon
<1>. QED  BY <1>6, <1>7

\* The readers agree.
LEMMA ReadersDo ==
  ASSUME NEW m \in Seq(Byte), NEW p \in Nat
  PROVE  ReadersAgree(m, p)
<1>. DEFINE name == Expanded(m, p, 0)
            text == Extracted(m, p, 0, OwnerBuffer)
<1>1. name = Bad <=> Extracted(m, p, 0, NameLimit) = Bad
  BY NameIsRead
<1>2. \A room \in 0 .. OwnerBuffer :
        Extracted(m, p, 0, room) = IF text # Bad /\ Len(text) < room THEN text ELSE Bad
  BY TextByRoom
<1>3. ASSUME name # Bad, Short(name)
      PROVE  Decoded(name, TextBuffer) = Extracted(m, p, 0, TextBuffer)
  <2>1. PICK x : NameAndText(m, p, x)
    BY <1>3, NameIsRead
  <2>2. x \in Written(Under(CharSign))
    BY <1>3, <2>1, ShortAre DEF NameAndText
  <2>3. Decoded(x[1], TextBuffer) = IF Len(x[1]) <= TextBuffer THEN x[2] ELSE Bad
    BY <2>2, RoomIs, DecodedIs
  <2>4. Extracted(m, p, 0, TextBuffer) = IF x[2] # Bad /\ Len(x[2]) < TextBuffer THEN x[2] ELSE Bad
    BY <1>2, <2>1, RoomIs, Zenon DEF NameAndText
  <2>5. x[2] # Bad
    BY <2>1, BadIs DEF NameAndText
  <2>6. Len(x[1]) <= TextBuffer <=> Len(x[2]) < TextBuffer
    <3>1. PICK k \in Nat : k = Len(x[2]) /\ Len(x[1]) = k + 1
      BY <2>1 DEF NameAndText
    <3>2. k + 1 <= TextBuffer <=> k < TextBuffer
      BY RoomIs
    <3>. QED  BY <3>1, <3>2, Zenon
  <2>. QED  BY <2>1, <2>3, <2>4, <2>5, <2>6, Zenon DEF NameAndText
<1>4. ASSUME name # Bad, NEW q \in 0 .. Len(m) - 1, Expanded(m, q, 0) # Bad
      PROVE  LET matches == Matches(Extracted(m, q, 0, OwnerBuffer), text) IN
             /\ SameName(m, q, 0, name) = "RULI_TXT_OK" => matches
             /\ matches /\ Writable(name) /\ Writable(Expanded(m, q, 0)) => SameName(m, q, 0, name) = "RULI_TXT_OK"
  <2>1. PICK x : NameAndText(m, p, x)
    BY <1>4, NameIsRead
  <2>2. PICK y : NameAndText(m, q, y)
    <3>1. q \in Nat
      OBVIOUS
    <3>. QED  BY <1>4, <3>1, NameIsRead
  <2>3. x[1] = y[1] => x[2] = y[2]
    BY <2>1, <2>2, SameNameSameText DEF NameAndText
  <2>4. Writable(x[1]) /\ Writable(y[1]) /\ Undotted(x[2]) = Undotted(y[2]) => x[1] = y[1]
    <3>1. Writable(x[1]) /\ Writable(y[1]) => x \in Written(Plain) /\ y \in Written(Plain)
      BY <2>1, <2>2, ShortAre DEF NameAndText
    <3>. QED  BY <3>1, SameTextSameName
  <2>5. SameName(m, q, 0, name) = "RULI_TXT_OK" <=> y[1] = x[1]
    <3>1. SameName(m, q, 0, name) = IF y[1] = x[1] THEN "RULI_TXT_OK" ELSE "RULI_TXT_BAD"
      BY <1>4, <2>1, <2>2, Zenon DEF SameName, NameAndText
    <3>. QED  BY <3>1
  <2>6. name = x[1] /\ text = x[2] /\ Expanded(m, q, 0) = y[1] /\ Extracted(m, q, 0, OwnerBuffer) = y[2]
    BY <2>1, <2>2 DEF NameAndText
  <2>. QED  BY <2>3, <2>4, <2>5, <2>6, Zenon DEF Matches
<1>. QED  BY <1>1, <1>2, <1>3, <1>4, Zenon DEF ReadersAgree

\* Encoding is the inverse of extracting.
LEMMA EncodingInverts ==
  ASSUME NEW m \in Seq(Byte), NEW p \in Nat
  PROVE  EncodingIsInverse(m, p)
<1>1. SUFFICES ASSUME Expanded(m, p, 0) # Bad, Writable(Expanded(m, p, 0))
               PROVE  Encoded(Extracted(m, p, 0, OwnerBuffer), EncodeSize(Extracted(m, p, 0, OwnerBuffer)))
                        = Expanded(m, p, 0)
  BY DEF EncodingIsInverse
<1>2. PICK x : NameAndText(m, p, x)
  BY <1>1, NameIsRead
<1>3. x \in Written(Plain)
  BY <1>1, <1>2, ShortAre DEF NameAndText
<1>4. Encoded(x[2], EncodeSize(x[2])) = x[1]
  BY <1>2, <1>3, EncodedIs DEF NameAndText
<1>. QED  BY <1>2, <1>4, Zenon DEF NameAndText

\* Names joined are texts joined.
LEMMA NamesJoin ==
  ASSUME NEW m \in Seq(Byte), NEW p \in Nat
  PROVE  ConcatJoinsTexts(m, p)
<1>. DEFINE first == Expanded(m, 0, 0)
            second == Expanded(m, p, 0)
            both == Concat(first, second, NameLimit)
<1>1. SUFFICES ASSUME first # Bad, Len(first) < NameLimit, Short(first),
                      second # Bad, Len(second) < NameLimit, Short(second)
               PROVE  IF Len(first) + Len(second) - 1 > NameLimit THEN both = Bad
                      ELSE Decoded(both, TextBuffer) =
                             IF Len(both) > TextBuffer THEN Bad
                             ELSE Extracted(m, 0, 0, OwnerBuffer) \o Extracted(m, p, 0, OwnerBuffer)
  BY Zenon DEF ConcatJoinsTexts
<1>2. PICK x : NameAndText(m, 0, x)
  <2>1. 0 \in Nat
    OBVIOUS
  <2>. QED  BY <1>1, <2>1, NameIsRead
<1>3. PICK y : NameAndText(m, p, y)
  BY <1>1, NameIsRead
<1>4. x \in Written(Under(CharSign)) /\ y \in Written(Under(CharSign))
  BY <1>1, <1>2, <1>3, ShortAre DEF NameAndText
<1>5. PICK z \in Written(Under(CharSign)) : z = Joint(x, y)
  BY <1>4, UnderIs, JointIs
<1>6. PICK a \in Seq(Byte), b \in Seq(Byte), joined \in Seq(Byte) :
        a = x[1] /\ b = y[1] /\ joined = z[1] /\ Len(a) >= 1
  <2>1. z[1] \in Seq(Byte)
    BY UnderIs, WrittenLengths
  <2>2. x[1] \in Seq(Byte) /\ y[1] \in Seq(Byte) /\ Len(x[1]) >= 1
    BY <1>2, <1>3 DEF NameAndText
  <2>. QED  BY <2>1, <2>2
<1>7. joined = SubSeq(a, 1, Len(a) - 1) \o b /\ z[2] = x[2] \o y[2]
  BY <1>5, <1>6 DEF Joint
<1>8. PICK i \in Nat, j \in Nat : i = Len(a) /\ j = Len(b) /\ i >= 1
  BY <1>6
<1>9. Len(joined) = i + j - 1
  <2>1. IsPart(Byte, a, 0, i - 1, SubSeq(a, 0 + 1, i - 1))
    <3>1. i - 1 \in Nat /\ 0 <= i - 1 /\ i - 1 <= Len(a) /\ 0 \in Nat
      BY <1>8
    <3>. QED  BY <3>1, PartIs, Zenon
  <2>2. PICK front \in Seq(Byte) : front = SubSeq(a, 1, i - 1) /\ Len(front) = i - 1
    <3>1. 0 + 1 = 1 /\ (i - 1) - 0 = i - 1
      OBVIOUS
    <3>. QED  BY <2>1, <3>1, Zenon DEF IsPart
  <2>3. joined = front \o b
    BY <1>7, <1>8, <2>2
  <2>4. Len(joined) = Len(front) + Len(b)
    BY <2>3, JoinedAt
  <2>. QED  BY <1>8, <2>2, <2>4
<1>10. first = a /\ second = b
  BY <1>2, <1>3, <1>6 DEF NameAndText
<1>11. i < NameLimit /\ j < NameLimit /\ NameLimit \in Nat
  BY <1>1, <1>8, <1>10, LimitsAssumption
<1>12. both = IF i + j - 1 > NameLimit THEN Bad ELSE joined
  <2>1. ~(i >= NameLimit) /\ ~(j >= NameLimit) /\ ~(i > NameLimit)
    BY <1>11
  <2>2. Concat(a, b, NameLimit) = IF i + j - 1 > NameLimit THEN Bad ELSE joined
    BY <1>7, <1>8, <1>9, <2>1, Zenon DEF Concat
  <2>. QED  BY <1>10, <2>2
<1>13. Decoded(joined, TextBuffer) = IF Len(joined) <= TextBuffer THEN x[2] \o y[2] ELSE Bad
  BY <1>6, <1>7, RoomIs, DecodedIs
<1>14. Len(joined) <= TextBuffer <=> ~(Len(joined) > TextBuffer)
  <2>1. PICK k : k = Len(joined) /\ k \in Nat
    OBVIOUS
  <2>2. k <= TextBuffer <=> ~(k > TextBuffer)
    BY <2>1, RoomIs
  <2>. QED  BY <2>1, <2>2
<1>15. x[2] = Extracted(m, 0, 0, OwnerBuffer) /\ y[2] = Extracted(m, p, 0, OwnerBuffer)
  BY <1>2, <1>3 DEF NameAndText
<1>. HIDE DEF first, second, both
<1>. QED  BY <1>8, <1>10, <1>12, <1>13, <1>14, <1>15, Zenon

\* What is skipped is the name, or its front and the place of the rest.
LEMMA SkippedWhatIsRead ==
  ASSUME NEW m \in Seq(Byte), NEW p \in Nat
  PROVE  SkipsWhatIsRead(m, p)
<1>0. 0 \in Byte
  BY DEF Byte
<1>1. PICK rest : IsWalk(m, 0, FALSE, rest)
  <2>1. \E names : IsWalk(m, 0, FALSE, names)
    BY <1>0, WalkRests
  <2>. QED  BY <2>1
<1>2. PICK past : (\A start : Skipped(m, start) = past[start]) /\ \A q \in Nat : past[q] = SkippedFrom(m, past, q)
  BY <1>0, SkippedRests
<1>3. \A q : Expanded(m, q, 0) = rest[<<q, DepthLimit, NameLimit>>]
  BY <1>1, Zenon DEF IsWalk, Expanded
<1>4. PICK name : name = Expanded(m, p, 0)
  OBVIOUS
<1>5. SUFFICES ASSUME name # Bad, past[p] # -1
               PROVE  \/ SubSeq(m, p + 1, past[p]) = name
                      \/ /\ past[p] - 2 >= p /\ IsPointer(m[past[p] - 2 + 1])
                         /\ Expanded(m, TargetAt(m, past[p] - 2, 0), 0) # Bad
                         /\ name = SubSeq(m, p + 1, past[p] - 2) \o Expanded(m, TargetAt(m, past[p] - 2, 0), 0)
  BY <1>2, <1>4, Zenon DEF SkipsWhatIsRead, TargetAt
<1>6. DepthLimit \in 0 .. DepthLimit /\ NameLimit \in 0 .. OwnerBuffer
  BY RoomIs
<1>7. ReadUpTo(m, rest, past[p], p, name)
  <2>1. \A q \in Nat, depth \in 0 .. DepthLimit, left \in 0 .. OwnerBuffer :
          rest[<<q, depth, left>>] # Bad /\ past[q] # -1
            => ReadUpTo(m, rest, past[q], q, rest[<<q, depth, left>>])
    BY <1>0, <1>1, <1>2, SkippedIsRead
  <2>2. rest[<<p, DepthLimit, NameLimit>>] # Bad /\ past[p] # -1
          => ReadUpTo(m, rest, past[p], p, rest[<<p, DepthLimit, NameLimit>>])
    BY <1>6, <2>1, Zenon
  <2>. QED  BY <1>3, <1>4, <1>5, <2>2, Zenon
<1>8. ASSUME NEW k \in Nat, NEW depth \in 0 .. DepthLimit, NEW left \in 0 .. OwnerBuffer,
             past[p] = k + 2, p <= k, k < Len(m), IsPointer(m[k + 1]),
             rest[<<TargetAt(m, k, 0), depth, left>>] # Bad,
             name = SubSeq(m, p + 1, k) \o rest[<<TargetAt(m, k, 0), depth, left>>]
      PROVE  /\ past[p] - 2 >= p /\ IsPointer(m[past[p] - 2 + 1])
             /\ Expanded(m, TargetAt(m, past[p] - 2, 0), 0) # Bad
             /\ name = SubSeq(m, p + 1, past[p] - 2) \o Expanded(m, TargetAt(m, past[p] - 2, 0), 0)
  <2>1. PICK at : at = past[p] - 2
    OBVIOUS
  <2>2. at = k /\ at >= p
    BY <1>8, <2>1
  <2>3. PICK q \in Nat : q = TargetAt(m, k, 0)
    <3>1. Octet(m, k, 0) = m[k + 1]
      BY <1>8, Zenon DEF Octet
    <3>. QED  BY <1>0, <1>8, <3>1, BytesRead
  <2>0. PICK z : z = rest[<<q, depth, left>>]
    OBVIOUS
  <2>4. SizeOf(FALSE, z) <= NameLimit
    <3>1. name \in Seq(Byte) /\ SizeOf(FALSE, name) \in Nat /\ SizeOf(FALSE, name) <= NameLimit
      <4>1. \A place \in Nat, deep \in 0 .. DepthLimit, room \in 0 .. OwnerBuffer :
              rest[<<place, deep, room>>] # Bad =>
                /\ rest[<<place, deep, room>>] \in Seq(Byte)
                /\ SizeOf(FALSE, rest[<<place, deep, room>>]) \in Nat
                /\ SizeOf(FALSE, rest[<<place, deep, room>>]) <= room
        BY <1>0, <1>1, WalkFits
      <4>2. rest[<<p, DepthLimit, NameLimit>>] = name
        BY <1>3, <1>4, Zenon
      <4>. QED  BY <1>5, <1>6, <4>1, <4>2, Zenon
    <3>2. z \in Seq(Byte)
      BY <1>0, <1>1, <1>8, <2>0, <2>3, WalkFits
    <3>3. PICK u \in Seq(Byte) : u = SubSeq(m, p + 1, k)
      <4>1. k <= Len(m)
        BY <1>8
      <4>2. IsPart(Byte, m, p, k, SubSeq(m, p + 1, k))
        BY <1>8, <4>1, PartIs, Zenon
      <4>. QED  BY <4>2 DEF IsPart
    <3>4. Len(name) = Len(u) + Len(z) /\ Len(u) \in Nat /\ Len(z) \in Nat
      <4>1. name = u \o z
        BY <1>8, <2>0, <2>3, <3>3
      <4>. QED  BY <3>2, <4>1
    <3>5. PICK i \in Nat, j \in Nat : i = Len(u) /\ j = Len(z)
      BY <3>4
    <3>6. i + j <= NameLimit
      BY <3>1, <3>4, <3>5 DEF SizeOf
    <3>7. j <= NameLimit
      BY <3>6, RoomIs
    <3>. QED  BY <3>5, <3>7 DEF SizeOf
  <2>5. Expanded(m, q, 0) = rest[<<q, depth, left>>]
    <3>1. FindsMore(FALSE, rest, <<q, depth, left>>)
      BY <1>0, <1>1, WalkFindsMore
    <3>2. PICK b : b = <<q, depth, left>>
      OBVIOUS
    <3>3. b = <<q, depth, left>> /\ b[1] = q /\ b[2] = depth /\ b[3] = left
      BY <3>2
    <3>4. DepthLimit \in depth .. DepthLimit
      BY RoomIs
    <3>5. rest[b] # Bad /\ SizeOf(FALSE, rest[b]) <= NameLimit
      BY <1>8, <2>0, <2>3, <2>4, <3>2
    <3>6. rest[<<q, DepthLimit, NameLimit>>] = rest[b]
      BY <1>6, <3>1, <3>3, <3>4, <3>5, Zenon DEF FindsMore
    <3>. QED  BY <1>3, <3>3, <3>6, Zenon
  <2>. QED  BY <1>8, <2>1, <2>2, <2>3, <2>5, Zenon
<1>9. (\E k \in Nat, depth \in 0 .. DepthLimit, left \in 0 .. OwnerBuffer :
         /\ past[p] = k + 2 /\ p <= k /\ k < Len(m) /\ IsPointer(m[k + 1])
         /\ rest[<<TargetAt(m, k, 0), depth, left>>] # Bad
         /\ name = SubSeq(m, p + 1, k) \o rest[<<TargetAt(m, k, 0), depth, left>>])
      => /\ past[p] - 2 >= p /\ IsPointer(m[past[p] - 2 + 1])
         /\ Expanded(m, TargetAt(m, past[p] - 2, 0), 0) # Bad
         /\ name = SubSeq(m, p + 1, past[p] - 2) \o Expanded(m, TargetAt(m, past[p] - 2, 0), 0)
  BY <1>8, Zenon
<1>. QED  BY <1>7, <1>9, Zenon DEF ReadUpTo

\* Wherever a name begins in a message, whatever its octets and whatever the limits,
\* the functions that read, write, compare, join and skip names agree about it
\* (ruli_txt.c, ruli_parse.c), up to the sizes of their buffers, the lengths that
\* are negative as chars, and the labels no text can be encoded as.
THEOREM NamesOfAMessage ==
  ASSUME NEW m \in Seq(Byte), NEW p \in Nat
  PROVE  ReadersAgree(m, p) /\ EncodingIsInverse(m, p) /\ ConcatJoinsTexts(m, p) /\ SkipsWhatIsRead(m, p)
BY ReadersDo, EncodingInverts, NamesJoin, SkippedWhatIsRead

-----------------------------------------------------------------------------
(* Lists from a file.                                                      *)

\* What is left of sequences joined from the k-th one on.
IsFlat(S, parts, from) ==
  /\ from \in [1 .. Len(parts) + 1 -> Seq(S)]
  /\ from[Len(parts) + 1] = <<>>
  /\ \A k \in 1 .. Len(parts) : from[k] = parts[k] \o from[k + 1]

\* Sequences are joined as the recursive function of the model joins them.
LEMMA FlatFrom ==
  ASSUME NEW S, NEW parts \in Seq(Seq(S))
  PROVE  \E from : IsFlat(S, parts, from) /\ Flat(parts) = from[1]
<1>1. PICK n \in Nat : n = Len(parts)
  OBVIOUS
<1>. DEFINE R(g) == [k \in 1 .. Len(parts) + 1 |-> IF k > Len(parts) THEN <<>> ELSE parts[k] \o g[k + 1]]
            F == [x \in (1 .. n) \X Seq(S) |-> parts[x[1]] \o x[2]]
<1>2. F \in [(1 .. n) \X Seq(S) -> Seq(S)]
  <2>1. ASSUME NEW k \in 1 .. n, NEW s \in Seq(S) PROVE parts[k] \o s \in Seq(S)
    BY <1>1, ConcatProperties
  <2>. QED  BY <2>1
<1>3. PICK f : IsBackwards(Seq(S), <<>>, 1, n, F, f)
  <2>1. <<>> \in Seq(S) /\ 1 <= n + 1 /\ 1 \in Nat
    OBVIOUS
  <2>2. PICK Z, e : Z = Seq(S) /\ e = <<>> /\ e \in Z
    BY <2>1
  <2>. HIDE DEF F
  <2>3. \E f : IsBackwards(Z, e, 1, n, F, f)
    BY <1>2, <2>1, <2>2, Backwards
  <2>. QED  BY <2>2, <2>3
<1>4. f \in [1 .. n + 1 -> Seq(S)] /\ f[n + 1] = <<>> /\ \A k \in 1 .. n : f[k] = parts[k] \o f[k + 1]
  <2>1. f \in [1 .. n + 1 -> Seq(S)] /\ f[n + 1] = <<>> /\ \A k \in 1 .. n : f[k] = F[<<k, f[k + 1]>>]
    <3>. HIDE DEF F
    <3>. QED  BY <1>3 DEF IsBackwards
  <2>2. ASSUME NEW k \in 1 .. n PROVE f[k] = parts[k] \o f[k + 1]
    <3>1. k + 1 \in 1 .. n + 1
      OBVIOUS
    <3>2. <<k, f[k + 1]>> \in (1 .. n) \X Seq(S)
      BY <2>1, <3>1
    <3>. QED  BY <2>1, <3>2
  <2>. QED  BY <2>1, <2>2
<1>5. f = R(f)
  <2>1. ASSUME NEW k \in 1 .. n + 1 PROVE f[k] = IF k > n THEN <<>> ELSE parts[k] \o f[k + 1]
    <3>1. CASE k > n
      <4>1. k = n + 1
        BY <3>1
      <4>. QED  BY <1>4, <3>1, <4>1
    <3>2. CASE ~(k > n)
      <4>1. k \in 1 .. n
        BY <3>2
      <4>. QED  BY <1>4, <3>2, <4>1
    <3>. QED  BY <3>1, <3>2
  <2>2. f = [k \in 1 .. n + 1 |-> IF k > n THEN <<>> ELSE parts[k] \o f[k + 1]]
    BY <1>4, <2>1
  <2>. QED  BY <1>1, <2>2, Zenon
<1>6. PICK from : from = CHOOSE g : g = R(g)
  OBVIOUS
<1>7. from = R(from)
  <2>. HIDE DEF R
  <2>. QED  BY <1>5, <1>6, Zenon
<1>8. Flat(parts) = from[1]
  BY <1>6, Zenon DEF Flat
<1>9. DOMAIN from = 1 .. n + 1 /\ from[n + 1] = <<>> /\ \A k \in 1 .. n : from[k] = parts[k] \o from[k + 1]
  <2>1. DOMAIN from = 1 .. n + 1
    BY <1>1, <1>7
  <2>2. \A k \in 1 .. n + 1 : from[k] = IF k > n THEN <<>> ELSE parts[k] \o from[k + 1]
    BY <1>1, <1>7
  <2>3. n + 1 \in 1 .. n + 1 /\ n + 1 > n
    OBVIOUS
  <2>4. \A k \in 1 .. n : k \in 1 .. n + 1 /\ ~(k > n)
    OBVIOUS
  <2>. QED  BY <2>1, <2>2, <2>3, <2>4
<1>10. 1 .. n + 1 \subseteq {k \in 1 .. n + 1 : from[k] = f[k]}
  <2>. DEFINE T == {k \in 1 .. n + 1 : from[k] = f[k]}
  <2>1. n + 1 \in T
    BY <1>4, <1>9
  <2>2. \A k \in 1 .. n : k + 1 \in T => k \in T
    <3>1. \A k \in 1 .. n : k \in 1 .. n + 1
      OBVIOUS
    <3>. QED  BY <1>4, <1>9, <3>1
  <2>3. 1 <= n + 1 /\ 1 \in Nat
    OBVIOUS
  <2>. HIDE DEF T
  <2>4. 1 .. n + 1 \subseteq T
    BY <2>1, <2>2, <2>3, CountedDown
  <2>. QED  BY <2>4 DEF T
<1>11. IsFlat(S, parts, from)
  <2>1. from \in [1 .. n + 1 -> Seq(S)]
    <3>1. \A k \in 1 .. n + 1 : from[k] \in Seq(S)
      BY <1>4, <1>10
    <3>2. from = [k \in 1 .. n + 1 |-> from[k]]
      <4>. HIDE DEF R
      <4>1. R(from) = [k \in 1 .. n + 1 |-> IF k > n THEN <<>> ELSE parts[k] \o from[k + 1]]
        BY <1>1, Zenon DEF R
      <4>2. from = [k \in 1 .. n + 1 |-> IF k > n THEN <<>> ELSE parts[k] \o from[k + 1]]
        BY <1>7, <4>1
      <4>. QED  BY <1>9, <4>2
    <3>. QED  BY <3>1, <3>2
  <2>. QED  BY <1>1, <1>9, <2>1 DEF IsFlat
<1>. QED  BY <1>8, <1>11

\* What joins the sequences from the first one on is what they are joined to.
LEMMA FlatIs ==
  ASSUME NEW S, NEW parts \in Seq(Seq(S)), NEW g, IsFlat(S, parts, g)
  PROVE  Flat(parts) = g[1] /\ Flat(parts) \in Seq(S)
<1>1. PICK n \in Nat : n = Len(parts)
  OBVIOUS
<1>2. PICK from : IsFlat(S, parts, from) /\ Flat(parts) = from[1]
  BY FlatFrom
<1>. DEFINE T == {k \in 1 .. n + 1 : from[k] = g[k]}
<1>3. n + 1 \in T
  BY <1>1, <1>2 DEF IsFlat
<1>4. \A k \in 1 .. n : k + 1 \in T => k \in T
  <2>1. \A k \in 1 .. n : k \in 1 .. n + 1
    OBVIOUS
  <2>. QED  BY <1>1, <1>2, <2>1 DEF IsFlat
<1>5. 1 <= n + 1 /\ 1 \in Nat /\ 1 \in 1 .. n + 1
  OBVIOUS
<1>6. 1 .. n + 1 \subseteq T
  <2>. HIDE DEF T
  <2>. QED  BY <1>3, <1>4, <1>5, CountedDown
<1>7. from[1] = g[1]
  BY <1>5, <1>6
<1>8. from[1] \in Seq(S)
  BY <1>1, <1>2, <1>5 DEF IsFlat
<1>. QED  BY <1>2, <1>7, <1>8

\* A sequence joined in front of others comes before what they are joined to.
LEMMA FlatOfMore ==
  ASSUME NEW S, NEW x \in Seq(S), NEW s \in Seq(Seq(S))
  PROVE  Flat(<<x>> \o s) = x \o Flat(s) /\ <<x>> \o s \in Seq(Seq(S)) /\ Flat(s) \in Seq(S)
<1>1. PICK from : IsFlat(S, s, from) /\ Flat(s) = from[1]
  BY FlatFrom
<1>2. PICK n \in Nat : n = Len(s)
  OBVIOUS
<1>3. PICK t \in Seq(Seq(S)) : t = <<x>> \o s /\ Len(t) = n + 1 /\ t[1] = x /\ \A k \in 1 .. n : t[k + 1] = s[k]
  <2>1. PICK Z : Z = Seq(S)
    OBVIOUS
  <2>2. PICK a \in Seq(Z) : a = <<x>> /\ Len(a) = 1 /\ a[1] = x
    <3>1. x \in Z
      BY <2>1
    <3>. QED  BY <3>1, SingleIs
  <2>3. s \in Seq(Z)
    BY <2>1
  <2>4. a \o s \in Seq(Z) /\ Len(a \o s) = Len(a) + Len(s)
        /\ \A i \in 1 .. Len(a) + Len(s) : (a \o s)[i] = IF i <= Len(a) THEN a[i] ELSE s[i - Len(a)]
    BY <2>2, <2>3, ConcatProperties
  <2>5. Len(a \o s) = n + 1 /\ (a \o s)[1] = x /\ \A k \in 1 .. n : (a \o s)[k + 1] = s[k]
    BY <1>2, <2>2, <2>4
  <2>. QED  BY <2>1, <2>2, <2>4, <2>5
<1>. DEFINE g == [k \in 1 .. n + 2 |-> IF k = 1 THEN x \o from[1] ELSE from[k - 1]]
<1>4. from \in [1 .. n + 1 -> Seq(S)] /\ from[n + 1] = <<>> /\ \A k \in 1 .. n : from[k] = s[k] \o from[k + 1]
  BY <1>1, <1>2 DEF IsFlat
<1>5. g \in [1 .. n + 2 -> Seq(S)]
  <2>1. 1 \in 1 .. n + 1 /\ \A k \in 1 .. n + 2 : k # 1 => k - 1 \in 1 .. n + 1
    OBVIOUS
  <2>2. x \o from[1] \in Seq(S)
    BY <1>4, <2>1
  <2>. QED  BY <1>4, <2>1, <2>2
<1>6. g[n + 2] = <<>> /\ g[1] = x \o from[1] /\ \A k \in 1 .. n + 1 : g[k + 1] = from[k]
  <2>1. n + 2 \in 1 .. n + 2 /\ n + 2 # 1 /\ n + 2 - 1 = n + 1 /\ 1 \in 1 .. n + 2
    OBVIOUS
  <2>2. \A k \in 1 .. n + 1 : k + 1 \in 1 .. n + 2 /\ k + 1 # 1 /\ k + 1 - 1 = k
    OBVIOUS
  <2>. QED  BY <1>4, <2>1, <2>2
<1>7. ASSUME NEW k \in 1 .. n + 1 PROVE g[k] = t[k] \o g[k + 1]
  <2>1. CASE k = 1
    <3>. HIDE DEF g
    <3>. QED  BY <1>3, <1>6, <2>1
  <2>2. CASE k # 1
    <3>1. PICK j \in 1 .. n : k = j + 1
      <4>1. k - 1 \in 1 .. n /\ k = (k - 1) + 1
        BY <2>2
      <4>. QED  BY <4>1
    <3>2. j \in 1 .. n + 1 /\ j + 1 \in 1 .. n + 1
      OBVIOUS
    <3>3. g[k] = from[j] /\ g[k + 1] = from[j + 1] /\ t[k] = s[j]
      <4>. HIDE DEF g
      <4>. QED  BY <1>3, <1>6, <3>1, <3>2
    <3>. HIDE DEF g
    <3>. QED  BY <1>4, <3>3
  <2>. QED  BY <2>1, <2>2
<1>8. IsFlat(S, t, g)
  <2>1. Len(t) + 1 = n + 2 /\ Len(t) = n + 1
    BY <1>3
  <2>. HIDE DEF g
  <2>. QED  BY <1>5, <1>6, <1>7, <2>1 DEF IsFlat
<1>9. Flat(t) = g[1]
  <2>. HIDE DEF g
  <2>. QED  BY <1>8, FlatIs
<1>10. Flat(s) \in Seq(S)
  <2>1. 1 \in 1 .. n + 1
    OBVIOUS
  <2>. QED  BY <1>1, <1>4, <2>1
<1>. HIDE DEF g
<1>. QED  BY <1>1, <1>3, <1>6, <1>9, <1>10

\* No sequences joined are empty.
LEMMA FlatOfNone ==
  ASSUME NEW S
  PROVE  Flat(<<>>) = <<>>
<1>1. PICK s \in Seq(Seq(S)) : s = <<>> /\ Len(s) = 0
  BY EmptySeq
<1>2. PICK from : IsFlat(S, s, from) /\ Flat(s) = from[1]
  BY <1>1, FlatFrom
<1>. QED  BY <1>1, <1>2 DEF IsFlat

\* A line that fits in the buffer is read at once (fgets() in ruli_conf.c).
LEMMA LineIsAPart ==
  ASSUME NEW W, NEW line \in Seq(W), Len(line) <= BufferWords
  PROVE  Parts(line) = IF line = <<>> THEN <<>> ELSE <<line>>
<1>1. PICK n \in Nat, b \in Nat : n = Len(line) /\ b = BufferWords /\ b > 0 /\ n <= b
  BY BufferAssumption
<1>2. CASE n = 0
  <2>1. (b - 1) \div b = 0
    BY <1>1
  <2>2. (Len(line) + BufferWords - 1) \div BufferWords = 0
    <3>1. n + b - 1 = b - 1
      BY <1>2
    <3>. QED  BY <1>1, <2>1, <3>1
  <2>3. line = <<>>
    BY <1>1, <1>2, EmptySeq
  <2>4. PICK f : f = Parts(line) /\ DOMAIN f = 1 .. 0 /\ f = [k \in 1 .. 0 |-> f[k]]
    BY <2>2 DEF Parts
  <2>5. f \in Seq(Seq(W)) /\ Len(f) = 0
    <3>1. \A k \in 1 .. 0 : f[k] \in Seq(W)
      OBVIOUS
    <3>. QED  BY <2>4, <3>1
  <2>. QED  BY <2>3, <2>4, <2>5, EmptySeq
<1>3. CASE n # 0
  <2>1. (n + b - 1) \div b = 1
    <3>1. PICK r \in 0 .. b - 1 : n + b - 1 = b + r
      <4>1. n - 1 \in 0 .. b - 1 /\ n + b - 1 = b + (n - 1)
        BY <1>1, <1>3
      <4>. QED  BY <4>1
    <3>2. (b + r) \div b = 1
      BY <1>1
    <3>. QED  BY <3>1, <3>2
  <2>2. Parts(line) = [k \in 1 .. 1 |-> LET to == IF k * BufferWords < Len(line) THEN k * BufferWords ELSE Len(line)
                                        IN SubSeq(line, (k - 1) * BufferWords + 1, to)]
    BY <1>1, <2>1, Zenon DEF Parts
  <2>3. ASSUME NEW k \in 1 .. 1
        PROVE  SubSeq(line, (k - 1) * BufferWords + 1, IF k * BufferWords < Len(line) THEN k * BufferWords ELSE Len(line)) = line
    <3>1. k = 1 /\ (k - 1) * BufferWords + 1 = 1 /\ k * BufferWords = b
      BY <1>1
    <3>2. (IF k * BufferWords < Len(line) THEN k * BufferWords ELSE Len(line)) = n
      BY <1>1, <3>1
    <3>3. SubSeq(line, 1, n) = line
      BY <1>1, SubSeqFull
    <3>. QED  BY <3>1, <3>2, <3>3
  <2>4. Parts(line) = [k \in 1 .. 1 |-> line]
    BY <2>2, <2>3
  <2>5. line # <<>>
    BY <1>1, <1>3
  <2>. QED  BY <2>4, <2>5
<1>. QED  BY <1>2, <1>3

\* What the lines of a file give, joined from its n-th line on.
IsLoaded(W, file, directive, l) ==
  /\ l \in [1 .. Len(file) + 1 -> Seq(W)]
  /\ l[Len(file) + 1] = <<>>
  /\ \A n \in 1 .. Len(file) : l[n] = TakenFrom(file[n], directive) \o l[n + 1]

TakenAll(lines, directive) == [k \in DOMAIN lines |-> TakenFrom(lines[k], directive)]

\* Nothing is taken from no lines, and nothing from an empty line.
LEMMA NothingTaken ==
  ASSUME NEW directive
  PROVE  TakenAll(<<>>, directive) = <<>> /\ TakenFrom(<<>>, directive) = <<>>
<1>1. TakenAll(<<>>, directive) = [k \in 1 .. 0 |-> TakenFrom(<<>>[k], directive)]
  <2>1. DOMAIN <<>> = 1 .. 0
    BY EmptySeq
  <2>. QED  BY <2>1, Zenon DEF TakenAll
<1>2. PICK t : t = TakenAll(<<>>, directive)
  OBVIOUS
<1>3. t = [k \in 1 .. 0 |-> t[k]]
  BY <1>1, <1>2
<1>4. TakenFrom(<<>>, directive) = <<>>
  BY Zenon DEF TakenFrom
<1>. QED  BY <1>2, <1>3, <1>4, EmptyIs, Zenon

\* What is taken from a line more comes before what is taken from the others.
LEMMA MoreTaken ==
  ASSUME NEW W, NEW line \in Seq(W), NEW lines \in Seq(Seq(W)), NEW directive
  PROVE  TakenAll(<<line>> \o lines, directive) = <<TakenFrom(line, directive)>> \o TakenAll(lines, directive)
<1>1. PICK Z : Z = Seq(W)
  OBVIOUS
<1>2. PICK a \in Seq(Z) : a = <<line>> /\ Len(a) = 1 /\ a[1] = line
  BY <1>1, SingleIs
<1>3. PICK T : \A x \in Z : TakenFrom(x, directive) \in T
  <2>1. \A x \in Z : TakenFrom(x, directive) \in {TakenFrom(y, directive) : y \in Z}
    OBVIOUS
  <2>. QED  BY <2>1
<1>4. PICK t : t = TakenFrom(line, directive) /\ t \in T
  BY <1>1, <1>3
<1>5. PICK b \in Seq(T) : b = <<TakenFrom(line, directive)>> /\ Len(b) = 1 /\ b[1] = t
  BY <1>4, SingleIs
<1>6. lines \in Seq(Z)
  BY <1>1
<1>7. PICK c \in Seq(T) : c = TakenAll(lines, directive) /\ Len(c) = Len(lines) /\ \A k \in 1 .. Len(lines) : c[k] = TakenFrom(lines[k], directive)
  <2>1. PICK n \in Nat : n = Len(lines) /\ DOMAIN lines = 1 .. n /\ \A k \in 1 .. n : lines[k] \in Z
    BY <1>6
  <2>2. TakenAll(lines, directive) = [k \in 1 .. n |-> TakenFrom(lines[k], directive)]
    BY <2>1 DEF TakenAll
  <2>3. PICK c : c = TakenAll(lines, directive)
    OBVIOUS
  <2>4. c \in [1 .. n -> T] /\ \A k \in 1 .. n : c[k] = TakenFrom(lines[k], directive)
    BY <1>3, <2>1, <2>2, <2>3
  <2>5. c \in Seq(T) /\ Len(c) = n
    BY <2>4
  <2>. QED  BY <2>1, <2>3, <2>4, <2>5
<1>8. PICK n \in Nat : n = Len(lines)
  OBVIOUS
<1>9. PICK m \in Seq(Z) : m = a \o lines /\ Len(m) = n + 1 /\ m[1] = line /\ \A k \in 1 .. n : m[k + 1] = lines[k]
  <2>1. a \o lines \in Seq(Z) /\ Len(a \o lines) = Len(a) + Len(lines)
        /\ \A i \in 1 .. Len(a) + Len(lines) : (a \o lines)[i] = IF i <= Len(a) THEN a[i] ELSE lines[i - Len(a)]
    BY <1>2, <1>6, ConcatProperties
  <2>2. Len(a \o lines) = n + 1 /\ (a \o lines)[1] = line /\ \A k \in 1 .. n : (a \o lines)[k + 1] = lines[k]
    BY <1>2, <1>8, <2>1
  <2>. QED  BY <2>1, <2>2
<1>10. PICK d \in Seq(T) : d = b \o c /\ Len(d) = n + 1 /\ d[1] = t /\ \A k \in 1 .. n : d[k + 1] = c[k]
  <2>1. b \o c \in Seq(T) /\ Len(b \o c) = Len(b) + Len(c)
        /\ \A i \in 1 .. Len(b) + Len(c) : (b \o c)[i] = IF i <= Len(b) THEN b[i] ELSE c[i - Len(b)]
    BY <1>5, <1>7, ConcatProperties
  <2>2. Len(c) = n /\ Len(b) = 1
    BY <1>5, <1>7, <1>8
  <2>3. Len(b \o c) = n + 1 /\ (b \o c)[1] = t /\ \A k \in 1 .. n : (b \o c)[k + 1] = c[k]
    BY <1>5, <2>1, <2>2
  <2>. QED  BY <2>1, <2>3
<1>11. ASSUME NEW k \in 1 .. n + 1 PROVE TakenFrom(m[k], directive) = d[k]
  <2>1. CASE k = 1
    BY <1>4, <1>9, <1>10, <2>1
  <2>2. CASE k # 1
    <3>1. PICK j \in 1 .. n : k = j + 1
      <4>1. k - 1 \in 1 .. n /\ k = (k - 1) + 1
        BY <2>2
      <4>. QED  BY <4>1
    <3>2. m[k] = lines[j] /\ d[k] = c[j]
      BY <1>9, <1>10, <3>1
    <3>. QED  BY <1>7, <1>8, <3>2
  <2>. QED  BY <2>1, <2>2
<1>12. DOMAIN m = 1 .. n + 1 /\ d = [k \in 1 .. n + 1 |-> d[k]]
  <2>1. DOMAIN m = 1 .. n + 1 /\ d \in [1 .. n + 1 -> T]
    BY <1>9, <1>10, LenProperties
  <2>. QED  BY <2>1
<1>13. TakenAll(m, directive) = d
  <2>1. TakenAll(m, directive) = [k \in 1 .. n + 1 |-> TakenFrom(m[k], directive)]
    BY <1>12 DEF TakenAll
  <2>. QED  BY <1>11, <1>12, <2>1
<1>14. a \o lines = <<line>> \o lines /\ b \o c = <<TakenFrom(line, directive)>> \o TakenAll(lines, directive)
  BY <1>2, <1>5, <1>7, Zenon
<1>. QED  BY <1>9, <1>10, <1>13, <1>14, Zenon

\* The words taken from a line are those from the second up to the one before
\* the first that is refused.
IsTaken(line, directive, m) ==
  /\ m \in Nat \ {0}
  /\ m = 1 \/ m <= Len(line)
  /\ TakenFrom(line, directive) = SubSeq(line, 2, m)
  /\ IF line # <<>> /\ line[1] = directive
     THEN 2 .. m = {k \in 2 .. Len(line) : \A j \in 2 .. k : line[j] \notin BadWords}
     ELSE m = 1

\* A line has words up to the first that is refused, or to its end.
LEMMA FirstRefused ==
  ASSUME NEW W, NEW line \in Seq(W), Len(line) >= 1
  PROVE  \E m \in 1 .. Len(line) : /\ \A j \in 2 .. m : line[j] \notin BadWords
                                   /\ m < Len(line) => line[m + 1] \in BadWords
<1>1. PICK n \in Nat : n = Len(line) /\ n >= 1
  OBVIOUS
<1>. DEFINE T == {k \in 1 .. n : (\A j \in 2 .. k : line[j] \notin BadWords)
                                  \/ \E m \in 1 .. n : (\A j \in 2 .. m : line[j] \notin BadWords) /\ (m < n => line[m + 1] \in BadWords)}
<1>2. 1 \in T
  BY <1>1
<1>3. ASSUME NEW k \in 2 .. n, k - 1 \in T PROVE k \in T
  <2>1. CASE \E m \in 1 .. n : (\A j \in 2 .. m : line[j] \notin BadWords) /\ (m < n => line[m + 1] \in BadWords)
    BY <2>1
  <2>2. CASE (\A j \in 2 .. k - 1 : line[j] \notin BadWords) /\ line[k] \in BadWords
    <3>1. k - 1 \in 1 .. n /\ (k - 1) + 1 = k
      OBVIOUS
    <3>2. \E m \in 1 .. n : (\A j \in 2 .. m : line[j] \notin BadWords) /\ (m < n => line[m + 1] \in BadWords)
      BY <2>2, <3>1
    <3>. QED  BY <3>2
  <2>3. CASE (\A j \in 2 .. k - 1 : line[j] \notin BadWords) /\ line[k] \notin BadWords
    <3>1. \A j \in 2 .. k : j = k \/ j \in 2 .. k - 1
      OBVIOUS
    <3>. QED  BY <2>3, <3>1
  <2>. QED  BY <1>3, <2>1, <2>2, <2>3
<1>4. 0 .. n - 1 \subseteq {k \in 0 .. n - 1 : k + 1 \in T}
  <2>. DEFINE U == {k \in 0 .. n - 1 : k + 1 \in T}
  <2>1. 0 \in U /\ n - 1 \in Nat
    BY <1>1, <1>2
  <2>2. \A i \in 1 .. n - 1 : i - 1 \in U => i \in U
    <3>1. ASSUME NEW i \in 1 .. n - 1, i - 1 \in U PROVE i \in U
      <4>1. i + 1 \in 2 .. n /\ (i + 1) - 1 = (i - 1) + 1 /\ i \in 0 .. n - 1
        OBVIOUS
      <4>2. (i + 1) - 1 \in T
        BY <3>1, <4>1
      <4>3. i + 1 \in T
        <5>. HIDE DEF T
        <5>. QED  BY <1>3, <4>1, <4>2
      <4>. QED  BY <4>1, <4>3
    <3>. QED  BY <3>1
  <2>. HIDE DEF U
  <2>3. 0 .. n - 1 \subseteq U
    BY <2>1, <2>2, CountedUp
  <2>. QED  BY <2>3 DEF U
<1>5. n \in T
  <2>1. n - 1 \in 0 .. n - 1 /\ (n - 1) + 1 = n
    BY <1>1
  <2>. QED  BY <1>4, <2>1
<1>. QED  BY <1>1, <1>5

\* Those are the words that are taken.
LEMMA WordsTakenAre ==
  ASSUME NEW W, NEW line \in Seq(W), NEW m \in 1 .. Len(line),
         \A j \in 2 .. m : line[j] \notin BadWords,
         m < Len(line) => line[m + 1] \in BadWords
  PROVE  WordsTaken(line) = SubSeq(line, 2, m)
<1>1. PICK n \in Nat : n = Len(line) /\ m <= n
  OBVIOUS
<1>. DEFINE R(g) == [k \in 2 .. Len(line) + 1 |-> IF k > Len(line) \/ line[k] \in BadWords THEN <<>> ELSE <<line[k]>> \o g[k + 1]]
            F == [x \in (2 .. n) \X Seq(W) |-> IF line[x[1]] \in BadWords THEN <<>> ELSE <<line[x[1]]>> \o x[2]]
<1>2. F \in [(2 .. n) \X Seq(W) -> Seq(W)]
  <2>1. ASSUME NEW k \in 2 .. n, NEW s \in Seq(W) PROVE <<line[k]>> \o s \in Seq(W) /\ <<>> \in Seq(W)
    <3>1. line[k] \in W
      BY <1>1, ElementOfSeq
    <3>2. PICK a \in Seq(W) : a = <<line[k]>>
      BY <3>1, SingleIs
    <3>. QED  BY <3>2, ConcatProperties
  <2>. QED  BY <2>1
<1>3. PICK f : IsBackwards(Seq(W), <<>>, 2, n, F, f)
  <2>1. <<>> \in Seq(W) /\ 2 <= n + 1 /\ 2 \in Nat
    BY <1>1
  <2>2. PICK Z, e : Z = Seq(W) /\ e = <<>> /\ e \in Z
    BY <2>1
  <2>. HIDE DEF F
  <2>3. \E f : IsBackwards(Z, e, 2, n, F, f)
    BY <1>2, <2>1, <2>2, Backwards
  <2>. QED  BY <2>2, <2>3
<1>4. f \in [2 .. n + 1 -> Seq(W)] /\ f[n + 1] = <<>> /\ \A k \in 2 .. n : f[k] = F[<<k, f[k + 1]>>]
  <2>. HIDE DEF F
  <2>. QED  BY <1>3 DEF IsBackwards
<1>5. \A k \in 2 .. n : f[k] = IF line[k] \in BadWords THEN <<>> ELSE <<line[k]>> \o f[k + 1]
  <2>1. ASSUME NEW k \in 2 .. n PROVE f[k] = IF line[k] \in BadWords THEN <<>> ELSE <<line[k]>> \o f[k + 1]
    <3>1. k + 1 \in 2 .. n + 1
      OBVIOUS
    <3>2. <<k, f[k + 1]>> \in (2 .. n) \X Seq(W)
      BY <1>4, <3>1
    <3>. QED  BY <1>4, <3>2
  <2>. QED  BY <2>1
<1>6. f = R(f)
  <2>1. ASSUME NEW k \in 2 .. n + 1 PROVE f[k] = IF k > n \/ line[k] \in BadWords THEN <<>> ELSE <<line[k]>> \o f[k + 1]
    <3>1. CASE k > n
      <4>1. k = n + 1
        BY <3>1
      <4>. QED  BY <1>4, <3>1, <4>1
    <3>2. CASE ~(k > n)
      <4>1. k \in 2 .. n
        BY <3>2
      <4>. QED  BY <1>5, <3>2, <4>1
    <3>. QED  BY <3>1, <3>2
  <2>2. f = [k \in 2 .. n + 1 |-> IF k > n \/ line[k] \in BadWords THEN <<>> ELSE <<line[k]>> \o f[k + 1]]
    <3>1. f = [k \in 2 .. n + 1 |-> f[k]]
      BY <1>4
    <3>. QED  BY <2>1, <3>1, Zenon
  <2>. QED  BY <1>1, <2>2, Zenon
<1>7. PICK from : from = CHOOSE g : g = R(g)
  OBVIOUS
<1>8. from = R(from)
  <2>. HIDE DEF R
  <2>. QED  BY <1>6, <1>7, Zenon
<1>9. WordsTaken(line) = from[2]
  BY <1>7, Zenon DEF WordsTaken
<1>10. \A k \in 2 .. n + 1 : from[k] = IF k > n \/ line[k] \in BadWords THEN <<>> ELSE <<line[k]>> \o from[k + 1]
  BY <1>1, <1>8
<1>. HIDE DEF R, F
<1>. DEFINE T == {k \in 2 .. m + 1 : from[k] = SubSeq(line, k, m)}
<1>11. m + 1 \in T
  <2>1. from[m + 1] = <<>>
    <3>1. m + 1 \in 2 .. n + 1 /\ (m + 1 > n \/ m < n)
      BY <1>1
    <3>. QED  BY <1>1, <1>10, <3>1
  <2>2. SubSeq(line, m + 1, m) = <<>>
    BY SubSeqEmpty
  <2>3. m + 1 \in 2 .. m + 1
    OBVIOUS
  <2>. QED  BY <2>1, <2>2, <2>3
<1>12. ASSUME NEW k \in 2 .. m, k + 1 \in T PROVE k \in T
  <2>1. k \in 2 .. n + 1 /\ ~(k > n) /\ line[k] \notin BadWords
    BY <1>1
  <2>2. from[k] = <<line[k]>> \o from[k + 1]
    BY <1>10, <2>1
  <2>3. SubSeq(line, k, m) = <<line[k]>> \o SubSeq(line, k + 1, m)
    <3>1. k \in 1 .. Len(line) /\ m \in k .. Len(line)
      BY <1>1
    <3>. QED  BY <3>1, SubSeqRecursiveFirst
  <2>4. k \in 2 .. m + 1 /\ from[k + 1] = SubSeq(line, k + 1, m)
    BY <1>12
  <2>. QED  BY <2>2, <2>3, <2>4
<1>13. 2 .. m + 1 \subseteq T
  <2>1. 2 <= m + 1 /\ 2 \in Nat /\ m \in Nat
    OBVIOUS
  <2>. HIDE DEF T
  <2>. QED  BY <1>11, <1>12, <2>1, CountedDown
<1>14. 2 \in 2 .. m + 1
  OBVIOUS
<1>. QED  BY <1>9, <1>13, <1>14

\* What is taken from a line is a part of it.
LEMMA TakenOf ==
  ASSUME NEW W, NEW line \in Seq(W), NEW directive
  PROVE  \E m : IsTaken(line, directive, m)
<1>1. CASE line # <<>> /\ line[1] = directive
  <2>1. Len(line) >= 1 /\ Len(line) \in Nat
    BY <1>1, EmptySeq
  <2>2. PICK m \in 1 .. Len(line) : (\A j \in 2 .. m : line[j] \notin BadWords) /\ (m < Len(line) => line[m + 1] \in BadWords)
    BY <2>1, FirstRefused
  <2>3. TakenFrom(line, directive) = SubSeq(line, 2, m)
    <3>1. WordsTaken(line) = SubSeq(line, 2, m)
      BY <2>2, WordsTakenAre
    <3>. QED  BY <1>1, <3>1, Zenon DEF TakenFrom
  <2>4. 2 .. m = {k \in 2 .. Len(line) : \A j \in 2 .. k : line[j] \notin BadWords}
    <3>1. ASSUME NEW k \in 2 .. m PROVE k \in 2 .. Len(line) /\ \A j \in 2 .. k : line[j] \notin BadWords
      <4>1. \A j \in 2 .. k : j \in 2 .. m
        OBVIOUS
      <4>2. k \in 2 .. Len(line)
        BY <2>1
      <4>. QED  BY <2>2, <4>1, <4>2
    <3>2. ASSUME NEW k \in 2 .. Len(line), \A j \in 2 .. k : line[j] \notin BadWords PROVE k \in 2 .. m
      <4>1. CASE k > m
        <5>1. m < Len(line) /\ m + 1 \in 2 .. k
          BY <2>1, <4>1
        <5>. QED  BY <2>2, <3>2, <5>1
      <4>2. CASE ~(k > m)
        BY <4>2
      <4>. QED  BY <4>1, <4>2
    <3>. QED  BY <3>1, <3>2
  <2>5. m \in Nat \ {0} /\ m <= Len(line)
    BY <2>1
  <2>. QED  BY <1>1, <2>3, <2>4, <2>5, Zenon DEF IsTaken
<1>2. CASE ~(line # <<>> /\ line[1] = directive)
  <2>1. TakenFrom(line, directive) = <<>>
    BY <1>2, Zenon DEF TakenFrom
  <2>2. SubSeq(line, 2, 1) = <<>> /\ 1 \in Nat \ {0}
    BY SubSeqEmpty
  <2>3. IsTaken(line, directive, 1)
    BY <1>2, <2>1, <2>2, Zenon DEF IsTaken
  <2>. QED  BY <2>3
<1>. QED  BY <1>1, <1>2

\* What is taken from a line is a sequence of its words.
LEMMA TakenIn ==
  ASSUME NEW W, NEW line \in Seq(W), NEW directive
  PROVE  TakenFrom(line, directive) \in Seq(W)
<1>1. PICK m : IsTaken(line, directive, m)
  BY TakenOf
<1>2. m \in Nat \ {0} /\ (m = 1 \/ m <= Len(line)) /\ TakenFrom(line, directive) = SubSeq(line, 2, m)
  BY <1>1, Zenon DEF IsTaken
<1>3. \A i \in 2 .. m : line[i] \in W
  <2>1. \A i \in 2 .. m : i \in 1 .. Len(line)
    BY <1>2
  <2>. QED  BY <2>1, ElementOfSeq
<1>4. SubSeq(line, 2, m) \in Seq(W)
  BY <1>2, <1>3, SubSeqProperties
<1>. QED  BY <1>2, <1>4

\* What is taken from lines is sequences of their words.
LEMMA AllTakenIn ==
  ASSUME NEW W, NEW lines \in Seq(Seq(W)), NEW directive
  PROVE  TakenAll(lines, directive) \in Seq(Seq(W))
<1>1. PICK Z : Z = Seq(W)
  OBVIOUS
<1>2. PICK n \in Nat : DOMAIN lines = 1 .. n /\ \A k \in 1 .. n : lines[k] \in Z
  BY <1>1
<1>3. TakenAll(lines, directive) = [k \in 1 .. n |-> TakenFrom(lines[k], directive)]
  BY <1>2, Zenon DEF TakenAll
<1>4. \A k \in 1 .. n : TakenFrom(lines[k], directive) \in Z
  BY <1>1, <1>2, TakenIn
<1>5. TakenAll(lines, directive) \in [1 .. n -> Z]
  BY <1>3, <1>4
<1>6. TakenAll(lines, directive) \in Seq(Z)
  BY <1>5
<1>. QED  BY <1>1, <1>6

\* What is loaded from a file whose lines fit in the buffer.
LEMMA LoadedIs ==
  ASSUME NEW W, NEW file \in Seq(Seq(W)), \A n \in DOMAIN file : Len(file[n]) <= BufferWords, NEW directive
  PROVE  \E l : IsLoaded(W, file, directive, l) /\ Loaded(file, directive) = l[1]
<1>0. \A line \in Seq(W) : \A lines \in Seq(Seq(W)) :
         TakenAll(<<line>> \o lines, directive) = <<TakenFrom(line, directive)>> \o TakenAll(lines, directive)
  BY MoreTaken
<1>1. PICK Z : Z = Seq(W)
  OBVIOUS
<1>2. PICK N \in Nat : N = Len(file) /\ DOMAIN file = 1 .. N /\ \A n \in 1 .. N : file[n] \in Z
  BY <1>1
<1>3. ASSUME NEW n \in 1 .. N PROVE Parts(file[n]) = IF file[n] = <<>> THEN <<>> ELSE <<file[n]>>
  <2>1. file[n] \in Seq(W) /\ Len(file[n]) <= BufferWords
    BY <1>1, <1>2
  <2>. QED  BY <2>1, LineIsAPart
<1>4. ASSUME NEW n \in 1 .. N PROVE Parts(file[n]) \in Seq(Z)
  <2>1. file[n] \in Z /\ <<>> \in Seq(Z)
    BY <1>2
  <2>2. <<file[n]>> \in Seq(Z)
    BY <2>1, SingleIs
  <2>. QED  BY <1>3, <2>1, <2>2
<1>5. PICK P : P = [n \in DOMAIN file |-> Parts(file[n])]
  OBVIOUS
<1>6. P \in Seq(Seq(Z)) /\ Len(P) = N /\ \A n \in 1 .. N : P[n] = Parts(file[n])
  <2>1. PICK Y : Y = Seq(Z)
    OBVIOUS
  <2>2. P \in [1 .. N -> Y] /\ \A n \in 1 .. N : P[n] = Parts(file[n])
    BY <1>2, <1>4, <1>5, <2>1
  <2>3. P \in Seq(Y) /\ Len(P) = N
    BY <2>2
  <2>. QED  BY <2>1, <2>2, <2>3
<1>7. PICK from : IsFlat(Z, P, from) /\ Flat(P) = from[1]
  BY <1>6, FlatFrom
<1>8. from \in [1 .. N + 1 -> Seq(Z)] /\ from[N + 1] = <<>> /\ \A n \in 1 .. N : from[n] = Parts(file[n]) \o from[n + 1]
  BY <1>6, <1>7 DEF IsFlat
<1>. DEFINE l == [n \in 1 .. N + 1 |-> Flat(TakenAll(from[n], directive))]
<1>9. Loaded(file, directive) = l[1]
  <2>1. Loaded(file, directive) = Flat(TakenAll(Flat(P), directive))
    BY <1>5, Zenon DEF Loaded, TakenAll
  <2>2. 1 \in 1 .. N + 1
    OBVIOUS
  <2>. QED  BY <1>7, <2>1, <2>2
<1>10. l[N + 1] = <<>>
  <2>1. N + 1 \in 1 .. N + 1
    OBVIOUS
  <2>2. TakenAll(from[N + 1], directive) = <<>>
    BY <1>8, NothingTaken
  <2>. QED  BY <2>1, <2>2, FlatOfNone
<1>11. ASSUME NEW n \in 1 .. N + 1 PROVE l[n] = Flat(TakenAll(from[n], directive)) /\ l[n] \in Seq(W)
  <2>1. from[n] \in Seq(Seq(W))
    BY <1>1, <1>8
  <2>2. TakenAll(from[n], directive) \in Seq(Seq(W))
    BY <2>1, AllTakenIn
  <2>3. Flat(TakenAll(from[n], directive)) \in Seq(W)
    BY <2>2, FlatOfMore, EmptySeq
  <2>. QED  BY <2>3
<1>12. l \in [1 .. N + 1 -> Seq(W)]
  BY <1>11
<1>13. ASSUME NEW n \in 1 .. N PROVE l[n] = TakenFrom(file[n], directive) \o l[n + 1]
  <2>1. n \in 1 .. N + 1 /\ n + 1 \in 1 .. N + 1
    OBVIOUS
  <2>2. from[n] = Parts(file[n]) \o from[n + 1] /\ from[n + 1] \in Seq(Seq(W))
    BY <1>1, <1>8, <2>1
  <2>3. file[n] \in Seq(W)
    BY <1>1, <1>2
  <2>4. CASE file[n] = <<>>
    <3>1. from[n] = from[n + 1]
      <4>1. Parts(file[n]) = <<>>
        BY <1>3, <2>4
      <4>. QED  BY <2>2, <4>1, ConcatEmptySeq
    <3>2. l[n] = l[n + 1] /\ l[n + 1] \in Seq(W)
      <4>. HIDE DEF l
      <4>. QED  BY <1>11, <2>1, <3>1
    <3>3. TakenFrom(file[n], directive) = <<>>
      BY <2>4, NothingTaken
    <3>. HIDE DEF l
    <3>. QED  BY <3>2, <3>3, ConcatEmptySeq
  <2>5. CASE file[n] # <<>>
    <3>1. PICK x, s : x = TakenFrom(file[n], directive) /\ s = TakenAll(from[n + 1], directive)
      OBVIOUS
    <3>2. TakenAll(from[n], directive) = <<x>> \o s
      <4>1. Parts(file[n]) = <<file[n]>>
        BY <1>3, <2>5
      <4>2. from[n] = <<file[n]>> \o from[n + 1]
        BY <2>2, <4>1
      <4>3. TakenAll(<<file[n]>> \o from[n + 1], directive) = <<TakenFrom(file[n], directive)>> \o TakenAll(from[n + 1], directive)
        BY <1>0, <2>2, <2>3, Zenon
      <4>. QED  BY <3>1, <4>2, <4>3, Zenon
    <3>3. x \in Seq(W) /\ s \in Seq(Seq(W))
      BY <2>2, <2>3, <3>1, TakenIn, AllTakenIn
    <3>4. Flat(<<x>> \o s) = x \o Flat(s)
      BY <3>3, FlatOfMore
    <3>. HIDE DEF l
    <3>. QED  BY <1>11, <2>1, <3>1, <3>2, <3>4, Zenon
  <2>. QED  BY <2>4, <2>5
<1>14. IsLoaded(W, file, directive, l)
  <2>. HIDE DEF l
  <2>. QED  BY <1>2, <1>10, <1>12, <1>13 DEF IsLoaded
<1>. QED  BY <1>9, <1>14

\* The words given by the lines from the n-th on, if the m-th gives those up to m[n].
From(N, m, n) == {q \in (1 .. N) \X Nat : q[1] >= n /\ q[2] \in 2 .. m[q[1]]}

\* Those of a set of places up to a place.
UpTo(G, p) == {q \in G : q[1] < p[1] \/ (q[1] = p[1] /\ q[2] <= p[2])}

Row(n, k) == {n} \X (2 .. k)

\* A row has as many places as there are words taken.
LEMMA RowIs ==
  ASSUME NEW n, NEW k \in Nat \ {0}
  PROVE  IsFiniteSet(Row(n, k)) /\ Cardinality(Row(n, k)) = k - 1
<1>1. IsFiniteSet({n}) /\ Cardinality({n}) = 1
  BY FS_Singleton
<1>2. IsFiniteSet(2 .. k) /\ Cardinality(2 .. k) = IF 2 > k THEN 0 ELSE k - 2 + 1
  BY FS_Interval
<1>3. Cardinality(2 .. k) = k - 1
  BY <1>2
<1>4. IsFiniteSet(Row(n, k)) /\ Cardinality(Row(n, k)) = Cardinality({n}) * Cardinality(2 .. k)
  BY <1>1, <1>2, FS_Product DEF Row
<1>. QED  BY <1>1, <1>3, <1>4

\* A line more is a row more.
LEMMA FromIs ==
  ASSUME NEW N \in Nat, NEW m \in [1 .. N -> Nat \ {0}], NEW n \in 1 .. N
  PROVE  /\ From(N, m, n) = Row(n, m[n]) \cup From(N, m, n + 1)
         /\ Row(n, m[n]) \cap From(N, m, n + 1) = {}
<1>1. ASSUME NEW q \in From(N, m, n) PROVE q \in Row(n, m[n]) \cup From(N, m, n + 1)
  <2>1. q \in (1 .. N) \X Nat /\ q[1] >= n /\ q[2] \in 2 .. m[q[1]]
    BY Zenon DEF From
  <2>2. CASE q[1] = n
    <3>1. q = <<q[1], q[2]>> /\ q[2] \in 2 .. m[n]
      BY <2>1, <2>2
    <3>2. q \in Row(n, m[n])
      BY <2>2, <3>1 DEF Row
    <3>. QED  BY <3>2
  <2>3. CASE q[1] # n
    <3>1. q[1] >= n + 1
      BY <2>1, <2>3
    <3>. QED  BY <2>1, <3>1 DEF From
  <2>. QED  BY <2>2, <2>3
<1>2. ASSUME NEW q \in Row(n, m[n]) PROVE q \in From(N, m, n)
  <2>1. q[1] = n /\ q[2] \in 2 .. m[n] /\ q = <<q[1], q[2]>>
    BY DEF Row
  <2>2. q \in (1 .. N) \X Nat
    <3>1. q[2] \in Nat
      BY <2>1
    <3>. QED  BY <2>1, <3>1
  <2>. QED  BY <2>1, <2>2 DEF From
<1>3. ASSUME NEW q \in From(N, m, n + 1) PROVE q \in From(N, m, n) /\ q \notin Row(n, m[n])
  <2>1. q \in (1 .. N) \X Nat /\ q[1] >= n + 1 /\ q[2] \in 2 .. m[q[1]]
    BY Zenon DEF From
  <2>2. q[1] >= n /\ q[1] # n
    BY <2>1
  <2>. QED  BY <2>1, <2>2 DEF From, Row
<1>. QED  BY <1>1, <1>2, <1>3

\* No words are given behind the last line.
LEMMA FromNone ==
  ASSUME NEW N \in Nat, NEW m \in [1 .. N -> Nat \ {0}]
  PROVE  From(N, m, N + 1) = {}
BY DEF From

\* The places up to one in the first row are the front of the row.
LEMMA UpToARow ==
  ASSUME NEW N \in Nat, NEW m \in [1 .. N -> Nat \ {0}], NEW n \in 1 .. N, NEW p \in Row(n, m[n])
  PROVE  UpTo(From(N, m, n), p) = Row(n, p[2]) /\ p[1] = n /\ p[2] \in 2 .. m[n]
<1>1. p[1] = n /\ p[2] \in 2 .. m[n]
  BY DEF Row
<1>2. ASSUME NEW q \in UpTo(From(N, m, n), p) PROVE q \in Row(n, p[2])
  <2>1. q \in From(N, m, n) /\ (q[1] < p[1] \/ (q[1] = p[1] /\ q[2] <= p[2]))
    BY Zenon DEF UpTo
  <2>2. q \in (1 .. N) \X Nat /\ q[1] >= n /\ q[2] \in 2 .. m[q[1]]
    BY <2>1, Zenon DEF From
  <2>3. q[1] = n /\ q[2] \in 2 .. p[2] /\ q = <<q[1], q[2]>>
    BY <1>1, <2>1, <2>2
  <2>. QED  BY <2>3 DEF Row
<1>3. ASSUME NEW q \in Row(n, p[2]) PROVE q \in UpTo(From(N, m, n), p)
  <2>1. q[1] = n /\ q[2] \in 2 .. p[2] /\ q = <<q[1], q[2]>>
    BY DEF Row
  <2>2. q[2] \in 2 .. m[n] /\ q[2] \in Nat /\ q[2] <= p[2]
    BY <1>1, <2>1
  <2>3. q \in (1 .. N) \X Nat /\ q[1] >= n /\ q[2] \in 2 .. m[q[1]]
    BY <2>1, <2>2
  <2>4. q \in From(N, m, n)
    BY <2>3, Zenon DEF From
  <2>. QED  BY <1>1, <2>1, <2>2, <2>4 DEF UpTo
<1>. QED  BY <1>1, <1>2, <1>3

\* The places up to one behind the first row are the row and those behind it.
LEMMA UpToBehindARow ==
  ASSUME NEW N \in Nat, NEW m \in [1 .. N -> Nat \ {0}], NEW n \in 1 .. N, NEW p \in From(N, m, n + 1)
  PROVE  /\ UpTo(From(N, m, n), p) = Row(n, m[n]) \cup UpTo(From(N, m, n + 1), p)
         /\ Row(n, m[n]) \cap UpTo(From(N, m, n + 1), p) = {}
         /\ p \in UpTo(From(N, m, n + 1), p)
<1>1. p \in (1 .. N) \X Nat /\ p[1] >= n + 1 /\ p[2] \in 2 .. m[p[1]]
  BY Zenon DEF From
<1>2. From(N, m, n) = Row(n, m[n]) \cup From(N, m, n + 1) /\ Row(n, m[n]) \cap From(N, m, n + 1) = {}
  BY FromIs
<1>3. ASSUME NEW q \in Row(n, m[n]) PROVE q[1] < p[1]
  <2>1. q[1] = n
    BY DEF Row
  <2>. QED  BY <1>1, <2>1
<1>4. UpTo(From(N, m, n), p) = Row(n, m[n]) \cup UpTo(From(N, m, n + 1), p)
  BY <1>2, <1>3 DEF UpTo
<1>5. Row(n, m[n]) \cap UpTo(From(N, m, n + 1), p) = {}
  BY <1>2 DEF UpTo
<1>6. p \in UpTo(From(N, m, n + 1), p)
  BY <1>1 DEF UpTo
<1>. QED  BY <1>4, <1>5, <1>6

\* The words of rows joined stand where as many words are given up to them.
InOrder(W, file, G, l) ==
  /\ IsFiniteSet(G)
  /\ Len(l) = Cardinality(G)
  /\ \A p \in G : l[Cardinality(UpTo(G, p))] = file[p[1]][p[2]]

\* A row in front keeps the order.
LEMMA RowInFront ==
  ASSUME NEW W, NEW N \in Nat, NEW file \in [1 .. N -> Seq(W)], NEW m \in [1 .. N -> Nat \ {0}],
         NEW n \in 1 .. N, m[n] = 1 \/ m[n] <= Len(file[n]),
         NEW l \in Seq(W), InOrder(W, file, From(N, m, n + 1), l)
  PROVE  InOrder(W, file, From(N, m, n), SubSeq(file[n], 2, m[n]) \o l)
<1>1. PICK G : G = From(N, m, n)
  OBVIOUS
<1>2. PICK H : H = From(N, m, n + 1)
  OBVIOUS
<1>3. PICK line \in Seq(W) : line = file[n] /\ Len(line) \in Nat
  OBVIOUS
<1>4. PICK a \in Nat : m[n] = a + 1 /\ a + 1 \in Nat \ {0} /\ a + 1 - 1 = a
  <2>1. m[n] \in Nat \ {0}
    OBVIOUS
  <2>2. m[n] - 1 \in Nat /\ m[n] = (m[n] - 1) + 1
    BY <2>1
  <2>. QED  BY <2>2
<1>5. PICK R : R = Row(n, a + 1)
  OBVIOUS
<1>6. IsFiniteSet(R) /\ Cardinality(R) = a
  BY <1>4, <1>5, RowIs
<1>7. IsFiniteSet(H) /\ Len(l) = Cardinality(H) /\ \A p \in H : l[Cardinality(UpTo(H, p))] = file[p[1]][p[2]]
  BY <1>2, Zenon DEF InOrder
<1>8. PICK b \in Nat : b = Cardinality(H) /\ b = Len(l)
  BY <1>7, FS_CardinalityType
<1>9. G = R \cup H /\ R \cap H = {}
  <2>1. From(N, m, n) = Row(n, m[n]) \cup From(N, m, n + 1) /\ Row(n, m[n]) \cap From(N, m, n + 1) = {}
    BY FromIs, Zenon
  <2>. QED  BY <1>1, <1>2, <1>4, <1>5, <2>1, Zenon
<1>10. Cardinality({}) = 0
  BY FS_EmptySet
<1>11. IsFiniteSet(G) /\ Cardinality(G) = a + b
  <2>1. IsFiniteSet(R \cup H) /\ Cardinality(R \cup H) = Cardinality(R) + Cardinality(H) - Cardinality(R \cap H)
    BY <1>6, <1>7, FS_Union, Zenon
  <2>2. IsFiniteSet(G) /\ Cardinality(G) = a + b - 0
    BY <1>6, <1>8, <1>9, <1>10, <2>1, Zenon
  <2>3. a + b - 0 = a + b
    OBVIOUS
  <2>. QED  BY <2>2, <2>3
<1>12. PICK s \in Seq(W) : s = SubSeq(line, 2, a + 1) /\ Len(s) = a /\ \A i \in 1 .. a : s[i] = line[i + 1]
  <2>1. \A i \in 2 .. a + 1 : line[i] \in W
    <3>1. \A i \in 2 .. a + 1 : i \in 1 .. Len(line)
      BY <1>3, <1>4
    <3>. QED  BY <3>1, ElementOfSeq
  <2>2. /\ SubSeq(line, 2, a + 1) \in Seq(W)
        /\ Len(SubSeq(line, 2, a + 1)) = IF 2 <= a + 1 THEN a + 1 - 2 + 1 ELSE 0
        /\ \A i \in 1 .. a + 1 - 2 + 1 : SubSeq(line, 2, a + 1)[i] = line[2 + i - 1]
    BY <2>1, SubSeqProperties
  <2>3. Len(SubSeq(line, 2, a + 1)) = a
    BY <2>2
  <2>4. \A i \in 1 .. a : 2 + i - 1 = i + 1 /\ i \in 1 .. a + 1 - 2 + 1
    OBVIOUS
  <2>5. \A i \in 1 .. a : SubSeq(line, 2, a + 1)[i] = line[i + 1]
    BY <2>2, <2>4
  <2>. QED  BY <2>2, <2>3, <2>5
<1>13. PICK t : t = s \o l
  OBVIOUS
<1>14. Len(t) = a + b /\ (\A i \in 1 .. a : t[i] = s[i]) /\ \A i \in 1 .. b : t[a + i] = l[i]
  <2>1. /\ Len(s \o l) = Len(s) + Len(l)
        /\ \A i \in 1 .. Len(s) : (s \o l)[i] = s[i]
        /\ \A i \in 1 .. Len(l) : (s \o l)[Len(s) + i] = l[i]
    BY JoinedAt
  <2>. QED  BY <1>8, <1>12, <1>13, <2>1, Zenon
<1>15. ASSUME NEW p \in R PROVE t[Cardinality(UpTo(G, p))] = file[p[1]][p[2]]
  <2>1. UpTo(G, p) = Row(n, p[2]) /\ p[1] = n /\ p[2] \in 2 .. a + 1
    <3>1. p \in Row(n, m[n])
      BY <1>4, <1>5
    <3>2. UpTo(From(N, m, n), p) = Row(n, p[2]) /\ p[1] = n /\ p[2] \in 2 .. m[n]
      BY <3>1, UpToARow, Zenon
    <3>. QED  BY <1>1, <1>4, <3>2, Zenon
  <2>2. PICK i \in 1 .. a : p[2] = i + 1 /\ i + 1 \in Nat \ {0} /\ i + 1 - 1 = i
    <3>1. PICK k \in 2 .. a + 1 : k = p[2]
      BY <2>1, Zenon
    <3>2. k - 1 \in 1 .. a /\ k = (k - 1) + 1 /\ (k - 1) + 1 \in Nat \ {0} /\ (k - 1) + 1 - 1 = k - 1
      OBVIOUS
    <3>. QED  BY <3>1, <3>2, Zenon
  <2>3. Cardinality(UpTo(G, p)) = i
    BY <2>1, <2>2, RowIs
  <2>. QED  BY <1>3, <1>12, <1>14, <2>1, <2>2, <2>3
<1>16. ASSUME NEW p \in H PROVE t[Cardinality(UpTo(G, p))] = file[p[1]][p[2]]
  <2>1. UpTo(G, p) = R \cup UpTo(H, p) /\ R \cap UpTo(H, p) = {} /\ p \in UpTo(H, p)
    <3>1. p \in From(N, m, n + 1)
      BY <1>2
    <3>2. /\ UpTo(From(N, m, n), p) = Row(n, m[n]) \cup UpTo(From(N, m, n + 1), p)
          /\ Row(n, m[n]) \cap UpTo(From(N, m, n + 1), p) = {}
          /\ p \in UpTo(From(N, m, n + 1), p)
      BY <3>1, UpToBehindARow, Zenon
    <3>. QED  BY <1>1, <1>2, <1>4, <1>5, <3>2, Zenon
  <2>2. IsFiniteSet(UpTo(H, p)) /\ Cardinality(UpTo(H, p)) <= b
    <3>1. UpTo(H, p) \in SUBSET H
      BY DEF UpTo
    <3>. QED  BY <1>7, <1>8, <3>1, FS_Subset
  <2>3. PICK c \in Nat : c = Cardinality(UpTo(H, p)) /\ c # 0
    BY <2>1, <2>2, FS_CardinalityType, FS_EmptySet
  <2>4. Cardinality(UpTo(G, p)) = a + c
    <3>1. Cardinality(R \cup UpTo(H, p)) = Cardinality(R) + Cardinality(UpTo(H, p)) - Cardinality(R \cap UpTo(H, p))
      BY <1>6, <2>2, FS_Union, Zenon
    <3>2. Cardinality(UpTo(G, p)) = a + c - 0
      BY <1>6, <1>10, <2>1, <2>3, <3>1, Zenon
    <3>3. a + c - 0 = a + c
      OBVIOUS
    <3>. QED  BY <3>2, <3>3
  <2>5. c \in 1 .. b
    BY <2>2, <2>3
  <2>. QED  BY <1>7, <1>14, <2>3, <2>4, <2>5
<1>17. InOrder(W, file, G, t)
  <2>1. \A p \in G : t[Cardinality(UpTo(G, p))] = file[p[1]][p[2]]
    BY <1>9, <1>15, <1>16
  <2>. QED  BY <1>11, <1>14, <2>1 DEF InOrder
<1>. QED  BY <1>1, <1>3, <1>4, <1>12, <1>13, <1>17

\* The words of all rows joined are in order.
LEMMA RowsInOrder ==
  ASSUME NEW W, NEW N \in Nat, NEW file \in [1 .. N -> Seq(W)], NEW m \in [1 .. N -> Nat \ {0}],
         \A n \in 1 .. N : m[n] = 1 \/ m[n] <= Len(file[n]),
         NEW l \in [1 .. N + 1 -> Seq(W)], l[N + 1] = <<>>,
         \A n \in 1 .. N : l[n] = SubSeq(file[n], 2, m[n]) \o l[n + 1]
  PROVE  InOrder(W, file, From(N, m, 1), l[1])
<1>. DEFINE T == {n \in 1 .. N + 1 : InOrder(W, file, From(N, m, n), l[n])}
<1>1. N + 1 \in T
  <2>1. From(N, m, N + 1) = {}
    BY FromNone
  <2>2. l[N + 1] = <<>> /\ Len(l[N + 1]) = 0
    BY EmptySeq
  <2>3. InOrder(W, file, From(N, m, N + 1), l[N + 1])
    BY <2>1, <2>2, FS_EmptySet DEF InOrder
  <2>. QED  BY <2>3
<1>2. ASSUME NEW n \in 1 .. N, n + 1 \in T PROVE n \in T
  <2>1. n + 1 \in 1 .. N + 1 /\ n \in 1 .. N + 1
    OBVIOUS
  <2>2. InOrder(W, file, From(N, m, n), SubSeq(file[n], 2, m[n]) \o l[n + 1])
    BY <1>2, <2>1, RowInFront
  <2>. QED  BY <2>1, <2>2
<1>3. 1 <= N + 1 /\ 1 \in Nat /\ 1 \in 1 .. N + 1
  OBVIOUS
<1>4. 1 .. N + 1 \subseteq T
  <2>. HIDE DEF T
  <2>. QED  BY <1>1, <1>2, <1>3, CountedDown
<1>. QED  BY <1>3, <1>4

\* What a file says is given is what its rows hold.
LEMMA GivenIs ==
  ASSUME NEW W, NEW N \in Nat, NEW file \in [1 .. N -> Seq(W)], NEW directive,
         NEW m \in [1 .. N -> Nat \ {0}], \A n \in 1 .. N : IsTaken(file[n], directive, m[n])
  PROVE  Given(file, directive) = From(N, m, 1)
<1>. DEFINE words(n) == {k \in 2 .. Len(file[n]) : \A j \in 2 .. k : file[n][j] \notin BadWords}
            lines == {n \in DOMAIN file : file[n] # <<>> /\ file[n][1] = directive}
<1>1. Given(file, directive) = UNION {{n} \X words(n) : n \in lines}
  BY Zenon DEF Given
<1>2. lines \subseteq 1 .. N
  OBVIOUS
<1>3. ASSUME NEW n \in 1 .. N PROVE IF n \in lines THEN words(n) = 2 .. m[n] ELSE m[n] = 1
  <2>1. IF file[n] # <<>> /\ file[n][1] = directive THEN 2 .. m[n] = words(n) ELSE m[n] = 1
    BY Zenon DEF IsTaken
  <2>2. n \in lines <=> file[n] # <<>> /\ file[n][1] = directive
    OBVIOUS
  <2>. HIDE DEF words, lines
  <2>. QED  BY <2>1, <2>2
<1>. HIDE DEF words, lines
<1>4. ASSUME NEW q \in Given(file, directive) PROVE q \in From(N, m, 1)
  <2>1. PICK n \in lines : q \in {n} \X words(n)
    BY <1>1
  <2>2. n \in 1 .. N /\ words(n) = 2 .. m[n] /\ m[n] \in Nat
    BY <1>2, <1>3
  <2>3. q = <<q[1], q[2]>> /\ q[1] = n /\ q[2] \in 2 .. m[n]
    BY <2>1, <2>2
  <2>4. q \in (1 .. N) \X Nat /\ q[1] >= 1 /\ q[2] \in 2 .. m[q[1]]
    <3>1. q[2] \in Nat
      BY <2>2, <2>3
    <3>. QED  BY <2>2, <2>3, <3>1
  <2>. QED  BY <2>4, Zenon DEF From
<1>5. ASSUME NEW q \in From(N, m, 1) PROVE q \in Given(file, directive)
  <2>1. q \in (1 .. N) \X Nat /\ q[2] \in 2 .. m[q[1]]
    BY Zenon DEF From
  <2>2. PICK n \in 1 .. N : n = q[1]
    BY <2>1
  <2>3. m[n] # 1 /\ q \in {n} \X (2 .. m[n])
    BY <2>1, <2>2
  <2>4. n \in lines /\ words(n) = 2 .. m[n]
    BY <1>3, <2>3
  <2>. QED  BY <1>1, <2>3, <2>4
<1>. QED  BY <1>4, <1>5

\* The list loaded from a file whose lines fit in the buffer has the words of every
\* line of the directive, up to the first that is refused, in the order of the file,
\* however many lines and words there are.
THEOREM ListOfAFile ==
  ASSUME NEW W, NEW file \in Seq(Seq(W)), \A n \in DOMAIN file : Len(file[n]) <= BufferWords, NEW directive
  PROVE  LET given  == Given(file, directive)
             loaded == LoadList(TRUE, file, directive)
             Place(p) == Cardinality({q \in given : q[1] < p[1] \/ (q[1] = p[1] /\ q[2] <= p[2])})
         IN /\ loaded.ok <=> given # {}
            /\ Len(loaded.list) = Cardinality(given)
            /\ \A p \in given : loaded.list[Place(p)] = file[p[1]][p[2]]
<1>1. PICK N \in Nat : N = Len(file) /\ file \in [1 .. N -> Seq(W)]
  OBVIOUS
<1>2. PICK l : IsLoaded(W, file, directive, l) /\ Loaded(file, directive) = l[1]
  BY LoadedIs
<1>3. l \in [1 .. N + 1 -> Seq(W)] /\ l[N + 1] = <<>> /\ \A n \in 1 .. N : l[n] = TakenFrom(file[n], directive) \o l[n + 1]
  BY <1>1, <1>2, Zenon DEF IsLoaded
<1>. DEFINE m == [n \in 1 .. N |-> CHOOSE k : IsTaken(file[n], directive, k)]
<1>4. ASSUME NEW n \in 1 .. N PROVE IsTaken(file[n], directive, m[n])
  <2>1. file[n] \in Seq(W)
    BY <1>1
  <2>2. \E k : IsTaken(file[n], directive, k)
    BY <2>1, TakenOf
  <2>3. m[n] = CHOOSE k : IsTaken(file[n], directive, k)
    OBVIOUS
  <2>. HIDE DEF m
  <2>. QED  BY <2>2, <2>3, Zenon
<1>5. m = [n \in 1 .. N |-> m[n]]
  OBVIOUS
<1>. HIDE DEF m
<1>6. ASSUME NEW n \in 1 .. N
      PROVE  m[n] \in Nat \ {0} /\ (m[n] = 1 \/ m[n] <= Len(file[n])) /\ TakenFrom(file[n], directive) = SubSeq(file[n], 2, m[n])
  BY <1>4, Zenon DEF IsTaken
<1>7. m \in [1 .. N -> Nat \ {0}]
  BY <1>5, <1>6
<1>8. Given(file, directive) = From(N, m, 1)
  BY <1>1, <1>4, <1>7, GivenIs
<1>9. \A n \in 1 .. N : l[n] = SubSeq(file[n], 2, m[n]) \o l[n + 1]
  BY <1>3, <1>6
<1>10. InOrder(W, file, Given(file, directive), l[1])
  <2>1. \A n \in 1 .. N : m[n] = 1 \/ m[n] <= Len(file[n])
    BY <1>6
  <2>2. InOrder(W, file, From(N, m, 1), l[1])
    BY <1>1, <1>3, <1>7, <1>9, <2>1, RowsInOrder, Zenon
  <2>. QED  BY <1>8, <2>2
<1>11. PICK G : G = Given(file, directive)
  OBVIOUS
<1>12. PICK list \in Seq(W) : list = l[1] /\ list = Loaded(file, directive)
  <2>1. 1 \in 1 .. N + 1
    OBVIOUS
  <2>. QED  BY <1>2, <1>3, <2>1
<1>13. IsFiniteSet(G) /\ Len(list) = Cardinality(G) /\ \A p \in G : list[Cardinality(UpTo(G, p))] = file[p[1]][p[2]]
  BY <1>10, <1>11, <1>12, Zenon DEF InOrder
<1>14. list = <<>> <=> G = {}
  <2>1. Cardinality(G) = 0 <=> G = {}
    BY <1>13, FS_EmptySet
  <2>2. Len(list) = 0 <=> list = <<>>
    BY EmptySeq
  <2>. QED  BY <1>13, <2>1, <2>2
<1>15. PICK loaded : loaded = LoadList(TRUE, file, directive)
  OBVIOUS
<1>16. loaded = IF list = <<>> THEN [ok |-> FALSE, list |-> <<>>] ELSE [ok |-> TRUE, list |-> list]
  BY <1>12, <1>15, Zenon DEF LoadList
<1>17. loaded.list = list /\ (loaded.ok <=> G # {})
  <2>1. CASE list = <<>>
    BY <1>14, <1>16, <2>1
  <2>2. CASE list # <<>>
    BY <1>14, <1>16, <2>2
  <2>. QED  BY <2>1, <2>2
<1>18. \A p : UpTo(G, p) = {q \in G : q[1] < p[1] \/ (q[1] = p[1] /\ q[2] <= p[2])}
  BY Zenon DEF UpTo
<1>. QED  BY <1>11, <1>13, <1>15, <1>17, <1>18, Zenon

-----------------------------------------------------------------------------
(* The theorems.                                                           *)

\* addr_cmp_preference() orders destinations of any octets, with a source of their
\* family or with none, as qsort() needs it: no two are each to come before the
\* other, and with IPv6 first among equals what does not come after something does
\* not come after what that does not come after.
THEOREM AddressOrder ==
  /\ \A d, e : AnyDestination(d) /\ AnyDestination(e) =>
       \A rfc3484, nosort6 \in BOOLEAN : Cmp(d, e, rfc3484, nosort6) = -Cmp(e, d, rfc3484, nosort6)
  /\ \A d, e, f : AnyDestination(d) /\ AnyDestination(e) /\ AnyDestination(f) =>
       (Cmp(d, e, TRUE, FALSE) <= 0 /\ Cmp(e, f, TRUE, FALSE) <= 0 => Cmp(d, f, TRUE, FALSE) <= 0)
BY Antisymmetric, Transitive

\* match_prefix() takes the first policy that matches: of those that match any
\* address it is one with the longest prefix.
THEOREM FirstPolicyIsLongest == \A a : FirstIsLongest(a)
BY LongestFirst, PolicyFields DEF FirstIsLongest

\* ti_dns_parse_hostname_answer() takes no address from a name the domain does not
\* lead to, what an alias that cannot be decoded leaves in the buffer being one; if
\* the aliases can be decoded and come in order it takes every address, and reports
\* success exactly if there is one and memory for all.
THEOREM AddressesOfDomain ==
  ASSUME NEW answer, Len(answer) \in Nat, DOMAIN answer = 1 .. Len(answer), NEW domain,
         \A k \in 1 .. Len(answer) : answer[k].owner # NoName
  PROVE  LET taken == Taken(answer, domain)
             address(k) == Read(answer[k]) /\ ~Alias(answer[k])
         IN /\ \A i \in DOMAIN taken :
                 address(taken[i]) /\ answer[taken[i]].owner \in Aliases(answer, domain)
            /\ InChainOrder(answer, domain) =>
                 /\ \A k \in DOMAIN answer : address(k) => \E i \in DOMAIN taken : taken[i] = k
                 /\ \A room \in Nat :
                      HostCode("OK", TRUE, answer, domain, room) = "TI_DNS_SUCCESS"
                        <=> (\E k \in DOMAIN answer : address(k)) /\ Len(taken) <= room
<1>. DEFINE N == Len(answer)  taken == Taken(answer, domain)  w == WantedAfter(answer, domain)
            address(k) == Read(answer[k]) /\ ~Alias(answer[k])
            Takes(k) == TakesFrom(answer[k], domain, w[k - 1])
<1>1. taken \in Seq(1 .. N) /\ Range(taken) = {k \in 1 .. N : Takes(k)}
  BY TakenAre
<1>2. ASSUME NEW k \in 1 .. N, Takes(k)
      PROVE  address(k) /\ answer[k].owner \in Aliases(answer, domain)
  <2>1. k - 1 \in 0 .. N
    OBVIOUS
  <2>2. w[k - 1] \in {NoName} \cup Aliases(answer, domain) /\ domain \in Aliases(answer, domain)
    BY <2>1, WantedIsAlias
  <2>. QED  BY <1>2, <2>2 DEF TakesFrom, Owns
<1>3. ASSUME InChainOrder(answer, domain), NEW k \in 1 .. N, address(k) PROVE Takes(k)
  BY <1>3, WantedIsLast DEF TakesFrom
<1>. HIDE DEF taken, Takes, address
<1>4. ASSUME NEW i \in DOMAIN taken PROVE taken[i] \in 1 .. N /\ Takes(taken[i])
  BY <1>1 DEF Range
<1>5. ASSUME NEW k \in 1 .. N, Takes(k) PROVE \E i \in DOMAIN taken : taken[i] = k
  BY <1>1, <1>5 DEF Range
<1>6. ASSUME NEW room \in Nat
      PROVE  HostCode("OK", TRUE, answer, domain, room) = "TI_DNS_SUCCESS" <=> taken # <<>> /\ Len(taken) <= room
  <2>1. Len(taken) \in Nat
    BY <1>1
  <2>. QED  BY <2>1 DEF HostCode, taken
<1>7. taken # <<>> <=> \E k \in 1 .. N : Takes(k)
  <2>0. taken \in Seq(1 .. N)
    BY <1>1
  <2>1. taken # <<>> <=> DOMAIN taken # {}
    <3>1. PICK S : S = 1 .. N
      OBVIOUS
    <3>2. PICK t \in Seq(S) : t = taken
      BY <2>0, <3>1
    <3>3. t = <<>> <=> Len(t) = 0
      BY <3>2, EmptySeq
    <3>4. DOMAIN t = {} <=> Len(t) = 0
      <4>1. Len(t) # 0 => 1 \in DOMAIN t
        BY <3>2
      <4>2. Len(t) = 0 => DOMAIN t = {}
        BY <3>2
      <4>. QED  BY <4>1, <4>2
    <3>. QED  BY <3>2, <3>3, <3>4
  <2>. QED  BY <1>4, <1>5, <2>1
<1>8. \A k \in 1 .. N : Takes(k) => address(k)
  BY <1>2
<1>. QED  BY <1>2, <1>3, <1>4, <1>5, <1>6, <1>7, <1>8 DEF taken, address

\* What the run samples.
SampleInv ==
  /\ Is("pair") => sample.value \in Destinations \X Destinations
  /\ Is("answer") => sample.value \in Answers
  /\ Is("file") => sample.value \in Files

LEMMA Sampled == Spec => []SampleInv
<1>1. Init => SampleInv
  BY DEF Init, SampleInv, Is, None, Of
<1>2. ASSUME SampleInv, [Next]_dataVars PROVE SampleInv'
  <2>1. CASE UNCHANGED sample
    BY <1>2, <2>1 DEF SampleInv, Is
  <2>2. CASE PickPair
    <3>1. PICK d \in Destinations, e \in Destinations : sample' = Of("pair", <<d, e>>)
      BY <2>2 DEF PickPair
    <3>. QED  BY <3>1 DEF SampleInv, Is, Of
  <2>3. CASE PickAnswer
    <3>1. PICK a \in Answers : sample' = Of("answer", a)
      BY <2>3 DEF PickAnswer
    <3>. QED  BY <3>1 DEF SampleInv, Is, Of
  <2>4. CASE PickFile
    <3>1. PICK f \in Files : sample' = Of("file", f)
      BY <2>4 DEF PickFile
    <3>. QED  BY <3>1 DEF SampleInv, Is, Of
  <2>5. ASSUME NEW part, part \notin {"pair", "answer", "file"}, NEW v, sample' = Of(part, v) PROVE SampleInv'
    BY <2>5 DEF SampleInv, Is, Of
  <2>6. CASE PickText \/ PickMessage \/ PickTarget \/ PickPiece
    BY <2>5, <2>6 DEF PickText, PickMessage, PickTarget, PickPiece
  <2>. QED  BY <1>2, <2>1, <2>2, <2>3, <2>4, <2>6 DEF Next, Pick, dataVars
<1>. QED  BY <1>1, <1>2, PTL DEF Spec

\* The destinations the run compares are ordered, as all others are.
THEOREM DestinationsOrdered == Spec => []AddressesAreOrdered
<1>1. SampleInv => AddressesAreOrdered
  <2>1. SUFFICES ASSUME SampleInv, Is("pair") PROVE AddressesAreOrdered
    BY DEF AddressesAreOrdered
  <2>2. PICK d \in Destinations, e \in Destinations : sample.value = <<d, e>>
    BY <2>1 DEF SampleInv
  <2>3. AnyDestination(d) /\ AnyDestination(e) /\ \A f \in Destinations : AnyDestination(f)
    BY KnownDestinations
  <2>4. CmpAntisymmetric(d, e)
    BY <2>3, AddressOrder DEF CmpAntisymmetric
  <2>5. CmpTransitive(d, e)
    BY <2>3, AddressOrder, Zenon DEF CmpTransitive
  <2>6. FirstIsLongest(d.addr)
    BY FirstPolicyIsLongest
  <2>. QED  BY <2>2, <2>4, <2>5, <2>6 DEF AddressesAreOrdered
<1>. QED  BY <1>1, Sampled, PTL

\* The answers of the run, of any length, give the addresses of the domain.
THEOREM AnswersRead == Spec => []AddressesOfTheDomain
<1>1. SampleInv => AddressesOfTheDomain
  <2>1. SUFFICES ASSUME SampleInv, Is("answer") PROVE AddressesOfTheDomain
    BY DEF AddressesOfTheDomain
  <2>2. PICK answer : answer = sample.value
    OBVIOUS
  <2>3. PICK m \in 0 .. AnswerLen : answer \in [1 .. m -> {r \in Records : r.type # "A" \/ r.value = "domain"}]
    BY <2>1, <2>2 DEF SampleInv, Answers, SeqsUpTo
  <2>4. AnswerLen \in Nat /\ m \in Nat
    BY BoundsAssumption
  <2>5. \A r \in Records : r.owner \in Names
    BY DEF Records, Names
  <2>6. Len(answer) = m /\ DOMAIN answer = 1 .. m
    BY <2>3, <2>4
  <2>7. \A k \in 1 .. m : answer[k].owner # NoName
    BY <2>3, <2>5, NoNameAssumption
  <2>8. \A room \in 0 .. AnswerLen : room \in Nat
    BY <2>4
  <2>. DEFINE taken == Taken(answer, "domain")
              address(k) == Read(answer[k]) /\ ~Alias(answer[k])
              Succeeds(room) == HostCode("OK", TRUE, answer, "domain", room) = "TI_DNS_SUCCESS"
                                  <=> (\E k \in DOMAIN answer : address(k)) /\ Len(taken) <= room
              AllTaken == \A k \in DOMAIN answer : address(k) => \E i \in DOMAIN taken : taken[i] = k
              OnlyFound == \A i \in DOMAIN taken :
                         address(taken[i]) /\ answer[taken[i]].owner \in Aliases(answer, "domain")
  <2>9. OnlyFound /\ (InChainOrder(answer, "domain") => AllTaken /\ \A room \in Nat : Succeeds(room))
    BY <2>4, <2>6, <2>7, AddressesOfDomain, Zenon
  <2>10. InChainOrder(answer, "domain") => \A room \in 0 .. AnswerLen : Succeeds(room)
    <3>. HIDE DEF Succeeds
    <3>. QED  BY <2>8, <2>9
  <2>. QED  BY <2>2, <2>9, <2>10, Zenon DEF AddressesOfTheDomain
<1>. QED  BY <1>1, Sampled, PTL

\* A line or a file of the run is a sequence.
LEMMA FileIs ==
  ASSUME NEW f \in Files
  PROVE  \E W : f \in Seq(Seq(W))
<1>1. PICK W : W = {"search", "x", "y", "bad"}
  OBVIOUS
<1>2. Lines \subseteq Seq(W)
  <2>1. ASSUME NEW l \in Lines PROVE l \in Seq(W)
    <3>1. PICK n \in 0 .. 4 : l \in [1 .. n -> W]
      BY <1>1 DEF Lines, SeqsUpTo
    <3>. QED  BY <3>1
  <2>. QED  BY <2>1
<1>3. PICK Y : Y = Seq(W)
  OBVIOUS
<1>4. PICK n \in Nat : f \in [1 .. n -> Y]
  <2>1. CASE f \in SeqsUpTo(Lines, 1)
    <3>1. PICK n \in 0 .. 1 : f \in [1 .. n -> Lines]
      BY <2>1 DEF SeqsUpTo
    <3>. QED  BY <1>2, <1>3, <3>1
  <2>2. CASE f \in [1 .. 2 -> {l \in Lines : Len(l) \in {0, 2, 3}}]
    <3>1. f \in [1 .. 2 -> Y]
      BY <1>2, <1>3, <2>2
    <3>. QED  BY <3>1
  <2>. QED  BY <2>1, <2>2 DEF Files
<1>5. f \in Seq(Y)
  BY <1>4
<1>. QED  BY <1>3, <1>5

\* The list loaded from a file of the run has the words it gives, in their order.
THEOREM FilesLoaded == Spec => []ListsInOrder
<1>1. SampleInv => ListsInOrder
  <2>1. SUFFICES ASSUME SampleInv, Is("file") PROVE ListsInOrder
    BY DEF ListsInOrder
  <2>2. PICK W : sample.value \in Seq(Seq(W))
    BY <2>1, FileIs DEF SampleInv
  <2>. QED  BY <2>2, ListOfAFile, Zenon DEF ListsInOrder
<1>. QED  BY <1>1, Sampled, PTL
=============================================================================
