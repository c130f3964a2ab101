------------------------ MODULE RuliSrvOrder_proofs -------------------------
(***************************************************************************)
(* Proofs about RuliSrvOrder, for answers of any length with any           *)
(* priorities and weights.                                                 *)
(***************************************************************************)
EXTENDS RuliSrvOrder, SequenceTheorems, WellFoundedInduction, TLAPS

-----------------------------------------------------------------------------
(* First and last elements of sets of places.                              *)

LEMMA MinOfPlaces ==
  ASSUME NEW n \in Nat, NEW S \in SUBSET (1 .. n), S # {}
  PROVE  Min(S) \in S /\ \A i \in S : Min(S) <= i
<1>. DEFINE Less == {ss \in Nat \X Nat : ss[1] < ss[2]}
<1>1. IsWellFoundedOn(Less, Nat)
  BY NatLessThanWellFounded DEF OpToRel
<1>2. S \subseteq Nat
  OBVIOUS
<1>. HIDE DEF Less
<1>3. PICK m \in S : \A i \in S : ~(<<i, m>> \in Less)
  BY <1>1, <1>2, WFMin
<1>4. \A i \in S : m <= i
  <2>. TAKE i \in S
  <2>1. i \in Nat /\ m \in Nat
    OBVIOUS
  <2>2. i < m => <<i, m>> \in Less
    BY <2>1 DEF Less
  <2>. QED  BY <1>3, <2>1, <2>2
<1>. QED  BY <1>2, <1>4 DEF Min

LEMMA MaxOfPlaces ==
  ASSUME NEW n \in Nat, NEW S \in SUBSET (1 .. n), S # {}
  PROVE  Max(S) \in S /\ \A i \in S : i <= Max(S)
<1>. DEFINE T == {n + 1 - i : i \in S}
<1>1. T \in SUBSET (1 .. n) /\ T # {}
  <2>1. PICK i \in S : TRUE
    OBVIOUS
  <2>2. n + 1 - i \in T
    BY <2>1
  <2>3. ASSUME NEW j \in S
        PROVE  n + 1 - j \in 1 .. n
    <3>1. j \in 1 .. n
      OBVIOUS
    <3>. QED  BY <3>1
  <2>. QED  BY <2>2, <2>3
<1>2. PICK m \in T : \A i \in T : m <= i
  BY <1>1, MinOfPlaces
<1>3. PICK s \in S : m = n + 1 - s
  BY <1>2
<1>4. \A i \in S : i <= s
  BY <1>2, <1>3
<1>. QED  BY <1>4 DEF Max

-----------------------------------------------------------------------------
(* Lists: what insertion, removal and push do to the records in them.      *)

LEMMA InsertedList ==
  ASSUME NEW S, NEW s \in Seq(S), NEW i \in 1 .. Len(s), NEW e \in S
  PROVE  /\ InsertAt(s, i, e) \in Seq(S)
         /\ ToSet(s) \subseteq ToSet(InsertAt(s, i, e))
<1>1. /\ InsertAt(s, i, e) \in Seq(S)
      /\ Len(InsertAt(s, i, e)) = Len(s) + 1
      /\ \A k \in 1 .. i - 1 : InsertAt(s, i, e)[k] = s[k]
      /\ \A k \in i .. Len(s) : InsertAt(s, i, e)[k + 1] = s[k]
  <2>. DEFINE a == SubSeq(s, 1, i - 1)
              b == SubSeq(s, i, Len(s))
  <2>0. \A k \in 1 .. Len(s) : s[k] \in S
    BY ElementOfSeq
  <2>1. /\ a \in Seq(S) /\ Len(a) = i - 1
        /\ \A k \in 1 .. i - 1 : a[k] = s[k]
    <3>1. \A k \in 1 .. i - 1 : s[k] \in S
      BY <2>0
    <3>. QED  BY <3>1, SubSeqProperties
  <2>2. /\ b \in Seq(S) /\ Len(b) = Len(s) - i + 1
        /\ \A k \in 1 .. Len(s) - i + 1 : b[k] = s[i + k - 1]
    <3>1. \A k \in i .. Len(s) : s[k] \in S
      BY <2>0
    <3>. QED  BY <3>1, SubSeqProperties
  <2>3. <<e>> \in Seq(S) /\ Len(<<e>>) = 1 /\ <<e>>[1] = e
    OBVIOUS
  <2>. HIDE DEF a, b
  <2>4. /\ a \o <<e>> \in Seq(S) /\ Len(a \o <<e>>) = i
        /\ \A k \in 1 .. i - 1 : (a \o <<e>>)[k] = s[k]
    BY <2>1, <2>3, ConcatProperties
  <2>. DEFINE c == a \o <<e>>
  <2>. HIDE DEF c
  <2>5. /\ c \o b \in Seq(S) /\ Len(c \o b) = Len(s) + 1
        /\ \A k \in 1 .. Len(s) + 1 : (c \o b)[k] = IF k <= i THEN c[k] ELSE b[k - i]
    <3>1. c \in Seq(S) /\ Len(c) = i
      BY <2>4 DEF c
    <3>2. /\ c \o b \in Seq(S) /\ Len(c \o b) = Len(c) + Len(b)
          /\ \A k \in 1 .. Len(c) + Len(b) :
               (c \o b)[k] = IF k <= Len(c) THEN c[k] ELSE b[k - Len(c)]
      BY <2>2, <3>1, ConcatProperties
    <3>3. Len(c) + Len(b) = Len(s) + 1
      BY <2>2, <3>1, LenProperties
    <3>. QED  BY <3>1, <3>2, <3>3
  <2>6. InsertAt(s, i, e) = c \o b
    BY DEF InsertAt, a, b, c
  <2>7. \A k \in i .. Len(s) : b[k + 1 - i] = s[k]
    BY <2>2
  <2>. QED  BY <2>4, <2>5, <2>6, <2>7, SMTT(30) DEF c
<1>2. ASSUME NEW k \in DOMAIN s
      PROVE  s[k] \in ToSet(InsertAt(s, i, e))
  <2>1. CASE k < i
    BY <1>1, <2>1 DEF ToSet
  <2>2. CASE i <= k
    BY <1>1, <2>2, SMTT(30) DEF ToSet
  <2>. QED  BY <2>1, <2>2
<1>. QED  BY <1>1, <1>2 DEF ToSet

LEMMA RemovedList ==
  ASSUME NEW S, NEW s \in Seq(S), NEW i \in 1 .. Len(s)
  PROVE  /\ RemoveAt(s, i) \in Seq(S) /\ Len(RemoveAt(s, i)) = Len(s) - 1
         /\ \A k \in 1 .. i - 1 : RemoveAt(s, i)[k] = s[k]
         /\ ToSet(s) \subseteq ToSet(RemoveAt(s, i)) \cup {s[i]}
<1>1. /\ RemoveAt(s, i) \in Seq(S)
      /\ Len(RemoveAt(s, i)) = Len(s) - 1
      /\ \A k \in 1 .. i - 1 : RemoveAt(s, i)[k] = s[k]
      /\ \A k \in i + 1 .. Len(s) : RemoveAt(s, i)[k - 1] = s[k]
  <2>. DEFINE a == SubSeq(s, 1, i - 1)
              b == SubSeq(s, i + 1, Len(s))
  <2>0. \A k \in 1 .. Len(s) : s[k] \in S
    BY ElementOfSeq
  <2>1. /\ a \in Seq(S) /\ Len(a) = i - 1
        /\ \A k \in 1 .. i - 1 : a[k] = s[k]
    <3>1. \A k \in 1 .. i - 1 : s[k] \in S
      BY <2>0
    <3>. QED  BY <3>1, SubSeqProperties
  <2>2. /\ b \in Seq(S) /\ Len(b) = Len(s) - i
        /\ \A k \in 1 .. Len(s) - i : b[k] = s[i + k]
    <3>1. \A k \in i + 1 .. Len(s) : s[k] \in S
      BY <2>0
    <3>. QED  BY <3>1, SubSeqProperties
  <2>. HIDE DEF a, b
  <2>3. /\ a \o b \in Seq(S) /\ Len(a \o b) = Len(s) - 1
        /\ \A k \in 1 .. Len(s) - 1 : (a \o b)[k] = IF k < i THEN a[k] ELSE b[k - i + 1]
    BY <2>1, <2>2, ConcatProperties
  <2>4. RemoveAt(s, i) = a \o b
    BY DEF RemoveAt, a, b
  <2>5. \A k \in i + 1 .. Len(s) : b[k - i] = s[k]
    BY <2>2
  <2>. QED  BY <2>1, <2>3, <2>4, <2>5
<1>2. ASSUME NEW k \in DOMAIN s
      PROVE  s[k] \in ToSet(RemoveAt(s, i)) \cup {s[i]}
  <2>1. CASE k < i
    BY <1>1, <2>1 DEF ToSet
  <2>2. CASE i < k
    BY <1>1, <2>2, SMTT(30) DEF ToSet
  <2>. QED  BY <2>1, <2>2
<1>. QED  BY <1>1, <1>2 DEF ToSet

LEMMA PushedList ==
  ASSUME NEW S, NEW s \in Seq(S), NEW e \in S
  PROVE  /\ Append(s, e) \in Seq(S)
         /\ ToSet(Append(s, e)) = ToSet(s) \cup {e}
<1>1. /\ Append(s, e) \in Seq(S) /\ Len(Append(s, e)) = Len(s) + 1
      /\ \A k \in 1 .. Len(s) : Append(s, e)[k] = s[k]
      /\ Append(s, e)[Len(s) + 1] = e
  BY AppendProperties
<1>2. DOMAIN s = 1 .. Len(s) /\ DOMAIN Append(s, e) = 1 .. Len(s) + 1 /\ Len(s) \in Nat
  BY <1>1, LenProperties
<1>3. ASSUME NEW x \in ToSet(s) \cup {e}
      PROVE  x \in ToSet(Append(s, e))
  <2>1. CASE x = e
    BY <1>1, <1>2, <2>1 DEF ToSet
  <2>2. CASE x \in ToSet(s)
    <3>1. PICK k \in 1 .. Len(s) : x = s[k]
      BY <1>2, <2>2 DEF ToSet
    <3>. QED  BY <1>1, <1>2, <3>1 DEF ToSet
  <2>. QED  BY <1>3, <2>1, <2>2
<1>4. ASSUME NEW k \in 1 .. Len(s) + 1
      PROVE  Append(s, e)[k] \in ToSet(s) \cup {e}
  BY <1>1, <1>2 DEF ToSet
<1>. QED  BY <1>1, <1>2, <1>3, <1>4 DEF ToSet

-----------------------------------------------------------------------------
(* The places the two steps compute.                                       *)

LEMMA InsertedKeeps ==
  ASSUME TypeOK, NEW j \in 1 .. Len(rr)
  PROVE  /\ Inserted(j) \in Seq(1 .. Len(rr))
         /\ ToSet(pri) \subseteq ToSet(Inserted(j))
<1>1. Len(pri) \in Nat /\ pri \in Seq(1 .. Len(rr)) /\ DOMAIN pri = 1 .. Len(pri)
  BY LenProperties DEF TypeOK
<1>2. CASE Places(j) = {}
  BY <1>1, <1>2 DEF Inserted
<1>3. CASE Places(j) # {}
  <2>1. Places(j) \in SUBSET (1 .. Len(pri))
    BY <1>1 DEF Places
  <2>2. Min(Places(j)) \in 1 .. Len(pri)
    BY <1>1, <1>3, <2>1, MinOfPlaces
  <2>. QED  BY <1>1, <1>3, <2>2, InsertedList DEF Inserted
<1>. QED  BY <1>2, <1>3

LEMMA ReachedPlace ==
  ASSUME TypeOK, NEW rnd, Reached(rnd) # {}
  PROVE  /\ Max(Reached(rnd)) \in Reached(rnd) /\ Max(Reached(rnd)) \in 1 .. Len(pri)
         /\ \A i \in Reached(rnd) : i <= Max(Reached(rnd))
<1>1. Len(pri) \in Nat /\ DOMAIN pri = 1 .. Len(pri)
  BY LenProperties DEF TypeOK
<1>2. Reached(rnd) \in SUBSET (1 .. Len(pri))
  BY <1>1 DEF Reached
<1>. QED  BY <1>1, <1>2, MaxOfPlaces

\* A number not above the weight of the block is reached inside the block.
LEMMA ReachedInBlock ==
  ASSUME TypeOK, Choosing, NEW rnd, rnd <= BlockWeight
  PROVE  Reached(rnd) # {} /\ Max(Reached(rnd)) \in Block
<1>1. Len(pri) \in Nat /\ DOMAIN pri = 1 .. Len(pri) /\ Len(pri) > 0
  BY LenProperties, EmptySeq DEF TypeOK, Choosing
<1>2. Block \in SUBSET (1 .. Len(pri)) /\ Len(pri) \in Block
  BY <1>1 DEF Block
<1>3. Min(Block) \in Block
  BY <1>1, <1>2, MinOfPlaces
<1>4. Min(Block) \in Reached(rnd)
  BY <1>2, <1>3 DEF Reached, Block, BlockWeight
<1>5. Max(Reached(rnd)) \in 1 .. Len(pri) /\ Min(Block) <= Max(Reached(rnd))
  BY <1>4, ReachedPlace
<1>6. \A i \in 1 .. Len(pri) : Min(Block) <= i => i \in Block
  BY <1>1, <1>2, <1>3 DEF Block
<1>. QED  BY <1>4, <1>5, <1>6

LEMMA DrawnInBlock ==
  ASSUME TypeOK, Choosing, NEW rnd \in Drawn
  PROVE  Reached(rnd) # {} /\ Max(Reached(rnd)) \in Block
<1>1. rnd <= BlockWeight
  BY DEF Drawn
<1>. QED  BY <1>1, ReachedInBlock

-----------------------------------------------------------------------------
(* The types, and no record lost.                                          *)

\* The variables keep their types: lists of records of the answer.
THEOREM TypeCorrect == Spec => []TypeOK
<1>1. Init => TypeOK
  <2>. SUFFICES ASSUME Init PROVE TypeOK
    OBVIOUS
  <2>1. PICK n \in 1 .. MaxRecords : rr \in [1 .. n -> Rdata]
    BY DEF Init
  <2>2. n \in Nat /\ Len(rr) = n /\ rr \in Seq(Rdata)
    BY <2>1, ConstantsAssumption
  <2>. QED  BY <2>1, <2>2, EmptySeq DEF Init, TypeOK
<1>2. TypeOK /\ [Next]_vars => TypeOK'
  <2>. SUFFICES ASSUME TypeOK, [Next]_vars PROVE TypeOK'
    OBVIOUS
  <2>0. Len(rr) \in Nat
    BY LenProperties DEF TypeOK
  <2>1. CASE InsertByPriority
    <3>1. next \in 1 .. Len(rr) /\ next + 1 \in 1 .. Len(rr) + 1
      BY <2>0, <2>1 DEF InsertByPriority, TypeOK
    <3>2. pri' \in Seq(1 .. Len(rr))
      BY <2>1, <3>1, InsertedKeeps, PushedList DEF InsertByPriority
    <3>. QED  BY <2>1, <3>1, <3>2 DEF InsertByPriority, TypeOK
  <2>2. CASE InsertFails
    <3>1. next \in 1 .. Len(rr)
      BY <2>0, <2>2 DEF InsertFails, TypeOK
    <3>2. pri' \in Seq(1 .. Len(rr))
      BY <2>2, <3>1, InsertedKeeps DEF InsertFails, TypeOK
    <3>. QED  BY <2>2, <3>2 DEF InsertFails, TypeOK
  <2>3. CASE SelectByWeight
    <3>1. PICK i \in 1 .. Len(pri) : wei' = Append(wei, pri[i]) /\ pri' = RemoveAt(pri, i)
      BY <2>3, ReachedPlace DEF SelectByWeight
    <3>2. pri' \in Seq(1 .. Len(rr)) /\ wei' \in Seq(1 .. Len(rr))
      BY <3>1, RemovedList, PushedList, ElementOfSeq DEF TypeOK
    <3>. QED  BY <2>3, <3>2 DEF SelectByWeight, TypeOK
  <2>4. CASE SelectFails
    <3>1. PICK i \in 1 .. Len(pri) : pri' = RemoveAt(pri, i)
      BY <2>4, ReachedPlace DEF SelectFails
    <3>2. pri' \in Seq(1 .. Len(rr))
      BY <3>1, RemovedList DEF TypeOK
    <3>. QED  BY <2>4, <3>2 DEF SelectFails, TypeOK
  <2>5. CASE SelectAborts
    BY <2>5 DEF SelectAborts, TypeOK
  <2>6. CASE SelectDone
    BY <2>6 DEF SelectDone, TypeOK
  <2>7. CASE UNCHANGED vars
    BY <2>7 DEF vars, TypeOK
  <2>. QED  BY <2>1, <2>2, <2>3, <2>4, <2>5, <2>6, <2>7 DEF Next
<1>. QED  BY <1>1, <1>2, PTL DEF Spec

\* Whatever the random numbers are, every record handled is on one of the
\* lists until the handler fails: nothing on the way loses a record.
THEOREM Complete == Spec => []NothingLost
<1>1. Init => NothingLost
  BY DEF Init, NothingLost
<1>2. TypeOK /\ NothingLost /\ [Next]_vars => NothingLost'
  <2>. SUFFICES ASSUME TypeOK, NothingLost, [Next]_vars PROVE NothingLost'
    OBVIOUS
  <2>0. Len(rr) \in Nat
    BY LenProperties DEF TypeOK
  <2>1. CASE InsertByPriority
    <3>1. next \in 1 .. Len(rr) /\ 1 .. next' - 1 = (1 .. next - 1) \cup {next}
      BY <2>0, <2>1 DEF InsertByPriority, TypeOK
    <3>2. ToSet(pri) \cup {next} \subseteq ToSet(pri')
      BY <2>1, <3>1, InsertedKeeps, PushedList DEF InsertByPriority
    <3>. QED  BY <2>1, <3>1, <3>2 DEF InsertByPriority, NothingLost
  <2>2. CASE InsertFails \/ SelectFails \/ SelectAborts
    BY <2>2 DEF InsertFails, SelectFails, SelectAborts, Choosing, NothingLost
  <2>3. CASE SelectByWeight
    <3>1. PICK i \in 1 .. Len(pri) : wei' = Append(wei, pri[i]) /\ pri' = RemoveAt(pri, i)
      BY <2>3, ReachedPlace DEF SelectByWeight
    <3>2. pri[i] \in 1 .. Len(rr)
      BY ElementOfSeq DEF TypeOK
    <3>3. ToSet(pri) \subseteq ToSet(pri') \cup {pri[i]}
      BY <3>1, RemovedList DEF TypeOK
    <3>4. ToSet(wei') = ToSet(wei) \cup {pri[i]}
      BY <3>1, <3>2, PushedList DEF TypeOK
    <3>. QED  BY <2>3, <3>3, <3>4 DEF SelectByWeight, NothingLost
  <2>4. CASE SelectDone
    BY <2>4 DEF SelectDone, NothingLost
  <2>5. CASE UNCHANGED vars
    BY <2>5 DEF vars, NothingLost
  <2>. QED  BY <2>1, <2>2, <2>3, <2>4, <2>5 DEF Next
<1>. QED  BY <1>1, <1>2, TypeCorrect, PTL DEF Spec

-----------------------------------------------------------------------------
(* The weighted choice.                                                    *)

\* The choice stays in the block of the current priority and on the list.
THEOREM Choice == Spec => ChoiceInBlock
<1>1. ASSUME TypeOK, [Next]_vars
      PROVE  [/\ code' # "OFF_THE_LIST"
              /\ wei' # wei =>
                   \E i \in Block : wei' = Append(wei, pri[i]) /\ pri' = RemoveAt(pri, i)]_vars
  <2>1. CASE SelectByWeight
    <3>1. PICK rnd \in Drawn :
            /\ wei' = Append(wei, pri[Max(Reached(rnd))])
            /\ pri' = RemoveAt(pri, Max(Reached(rnd)))
      BY <2>1 DEF SelectByWeight
    <3>2. Max(Reached(rnd)) \in Block
      BY <1>1, <2>1, <3>1, DrawnInBlock DEF SelectByWeight
    <3>3. code' # "OFF_THE_LIST"
      BY <2>1 DEF SelectByWeight, Choosing
    <3>. QED  BY <3>1, <3>2, <3>3
  <2>2. CASE SelectAborts
    <3>1. PICK rnd \in RandNext(BlockWeight) :
            code' = IF rnd \notin Drawn THEN "RANGE"
                    ELSE IF Reached(rnd) = {} THEN "OFF_THE_LIST" ELSE code
      BY <2>2 DEF SelectAborts
    <3>2. rnd \in Drawn => Reached(rnd) # {}
      BY <1>1, <2>2, DrawnInBlock DEF SelectAborts
    <3>. QED  BY <2>2, <3>1, <3>2 DEF SelectAborts, Choosing
  <2>3. CASE InsertByPriority \/ InsertFails \/ SelectFails \/ SelectDone
    BY <2>3 DEF InsertByPriority, InsertFails, SelectFails, SelectDone
  <2>4. CASE UNCHANGED vars
    BY <2>4
  <2>. QED  BY <1>1, <2>1, <2>2, <2>3, <2>4 DEF Next
<1>. QED  BY <1>1, TypeCorrect, PTL DEF Spec, ChoiceInBlock

-----------------------------------------------------------------------------
(* Answers by strictly descending priority.                                *)

\* pri_srv_list holds the first records in their order, wei_srv_list the
\* others from the last one backwards.
InStep ==
  Descending /\ code \in {"VOID", "SORTED"} =>
    /\ Len(pri) + Len(wei) = next - 1
    /\ \A i \in 1 .. Len(pri) : pri[i] = i
    /\ \A i \in 1 .. Len(wei) : wei[i] = next - i
    /\ next <= Len(rr) => wei = <<>>
    /\ code = "SORTED" => next > Len(rr) /\ pri = <<>>

LEMMA PrioritiesDiffer ==
  ASSUME TypeOK, Descending, NEW i \in 1 .. Len(rr), NEW j \in 1 .. Len(rr), i < j
  PROVE  Priority(i) \in Nat /\ Priority(j) \in Nat /\ Priority(i) > Priority(j)
<1>1. DOMAIN rr = 1 .. Len(rr) /\ rr[i] \in Rdata /\ rr[j] \in Rdata
  BY LenProperties, ElementOfSeq DEF TypeOK
<1>. QED  BY <1>1, ConstantsAssumption DEF Descending, Priority, Rdata

\* Such an answer comes out reversed, each record once.
THEOREM RightOrder == Spec => []RightWhenDescending
<1>1. Init => InStep
  BY EmptySeq DEF Init, InStep
<1>2. TypeOK /\ InStep /\ [Next]_vars => InStep'
  <2>. SUFFICES ASSUME TypeOK, InStep, [Next]_vars, Descending, code' \in {"VOID", "SORTED"}
                PROVE  InStep'
    BY DEF Next, vars, InsertByPriority, InsertFails, SelectByWeight, SelectFails,
           SelectAborts, SelectDone, InStep, Descending, Priority
  <2>0. /\ Len(rr) \in Nat /\ next \in 1 .. Len(rr) + 1
        /\ Len(pri) \in Nat /\ Len(wei) \in Nat
    BY LenProperties DEF TypeOK
  <2>a. /\ pri \in Seq(1 .. Len(rr)) /\ wei \in Seq(1 .. Len(rr))
        /\ DOMAIN pri = 1 .. Len(pri)
        /\ (pri # <<>> => Len(pri) > 0) /\ (wei # <<>> => Len(wei) > 0)
    BY LenProperties, EmptySeq DEF TypeOK
  <2>b. Len(<<>>) = 0
    OBVIOUS
  <2>c. pri \in Seq(1 .. Len(rr))
    BY DEF TypeOK
  <2>1. CASE InsertByPriority
    <3>1. /\ next \in 1 .. Len(rr) /\ Len(pri) = next - 1 /\ wei = <<>>
          /\ \A i \in 1 .. Len(pri) : pri[i] = i
      BY <2>0, <2>1, <2>b DEF InsertByPriority, InStep
    <3>2. Places(next) = {}
      <4>. SUFFICES ASSUME NEW k \in 1 .. Len(pri)
                    PROVE  ~(Priority(pri[k]) <= Priority(next))
        BY <2>a DEF Places
      <4>. QED  BY <3>1, PrioritiesDiffer
    <3>3. pri' = Append(pri, next)
      BY <2>1, <3>2 DEF InsertByPriority, Inserted
    <3>4. /\ Len(pri') = next /\ \A i \in 1 .. Len(pri) : pri'[i] = pri[i]
          /\ pri'[next] = next
      BY <2>a, <3>1, <3>3, AppendProperties
    <3>5. \A i \in 1 .. Len(pri') : pri'[i] = i
      BY <2>0, <3>1, <3>4
    <3>. QED  BY <2>0, <2>1, <2>b, <3>1, <3>4, <3>5 DEF InsertByPriority, InStep
  <2>2. CASE SelectByWeight
    <3>1. /\ next = Len(rr) + 1 /\ Len(pri) + Len(wei) = next - 1 /\ Len(pri) > 0
          /\ \A i \in 1 .. Len(pri) : pri[i] = i
          /\ \A i \in 1 .. Len(wei) : wei[i] = next - i
      <4>1. code = "VOID" /\ next > Len(rr) /\ pri # <<>>
        BY <2>2 DEF SelectByWeight, Choosing
      <4>2. /\ Len(pri) + Len(wei) = next - 1
            /\ \A i \in 1 .. Len(pri) : pri[i] = i
            /\ \A i \in 1 .. Len(wei) : wei[i] = next - i
        BY <4>1 DEF InStep
      <4>3. next = Len(rr) + 1
        BY <2>0, <4>1
      <4>4. Len(pri) > 0
        BY <2>a, <4>1
      <4>. QED  BY <4>2, <4>3, <4>4
    <3>2. PICK i \in Block : wei' = Append(wei, pri[i]) /\ pri' = RemoveAt(pri, i)
      BY <2>2, DrawnInBlock DEF SelectByWeight
    <3>3. i = Len(pri)
      <4>1. i \in 1 .. Len(pri) /\ Priority(pri[i]) = Priority(pri[Len(pri)])
        BY <2>0, <2>a, <3>2, SMTT(30) DEF Block
      <4>2. i \in 1 .. Len(rr) /\ Len(pri) \in 1 .. Len(rr)
        BY <2>0, <3>1, <4>1
      <4>3. pri[i] = i /\ pri[Len(pri)] = Len(pri)
        BY <2>0, <3>1, <4>1
      <4>4. ~(i < Len(pri))
        BY <4>1, <4>2, <4>3, PrioritiesDiffer
      <4>. QED  BY <2>0, <4>1, <4>4
    <3>4. /\ Len(pri') = Len(pri) - 1
          /\ \A k \in 1 .. Len(pri) - 1 : pri'[k] = pri[k]
      <4>1. Len(pri) \in 1 .. Len(pri) /\ pri' = RemoveAt(pri, Len(pri))
        BY <2>0, <3>1, <3>2, <3>3
      <4>2. /\ Len(RemoveAt(pri, Len(pri))) = Len(pri) - 1
            /\ \A k \in 1 .. Len(pri) - 1 : RemoveAt(pri, Len(pri))[k] = pri[k]
        <5>1. ASSUME NEW j \in 1 .. Len(pri)
              PROVE  /\ Len(RemoveAt(pri, j)) = Len(pri) - 1
                     /\ \A k \in 1 .. j - 1 : RemoveAt(pri, j)[k] = pri[k]
          BY <2>c, RemovedList
        <5>. QED  BY <4>1, <5>1
      <4>. QED  BY <4>1, <4>2
    <3>5. pri[i] = Len(pri) /\ pri[i] \in 1 .. Len(rr)
      BY <2>0, <3>1, <3>3
    <3>6. /\ Len(wei') = Len(wei) + 1 /\ wei'[Len(wei) + 1] = Len(pri)
          /\ \A k \in 1 .. Len(wei) : wei'[k] = wei[k]
      BY <2>a, <3>2, <3>5, AppendProperties
    <3>7. \A k \in 1 .. Len(wei') : wei'[k] = next - k
      BY <2>0, <3>1, <3>6
    <3>8. \A k \in 1 .. Len(pri') : pri'[k] = k
      BY <2>0, <3>1, <3>4
    <3>9. next' = next /\ rr' = rr /\ code' = "VOID"
      BY <2>2 DEF SelectByWeight, Choosing
    <3>10. Len(pri') + Len(wei') = next' - 1 /\ ~(next' <= Len(rr'))
      BY <2>0, <3>1, <3>4, <3>6, <3>9
    <3>. QED  BY <3>7, <3>8, <3>9, <3>10 DEF InStep
  <2>3. CASE SelectDone
    BY <2>0, <2>3 DEF SelectDone, InStep, Descending, Priority
  <2>4. CASE InsertFails \/ SelectFails \/ SelectAborts
    BY <2>4 DEF InsertFails, SelectFails, SelectAborts, Choosing
  <2>5. CASE UNCHANGED vars
    BY <2>5 DEF vars, InStep, Descending, Priority
  <2>. QED  BY <2>1, <2>2, <2>3, <2>4, <2>5 DEF Next
<1>3. TypeOK /\ InStep => RightWhenDescending
  <2>. SUFFICES ASSUME TypeOK, InStep, code = "SORTED", Descending
                PROVE  wei = [i \in DOMAIN rr |-> Len(rr) + 1 - i]
    BY DEF RightWhenDescending
  <2>1. Len(rr) \in Nat /\ DOMAIN rr = 1 .. Len(rr) /\ wei \in [1 .. Len(wei) -> 1 .. Len(rr)]
    BY LenProperties DEF TypeOK
  <2>2. Len(wei) = Len(rr) /\ next = Len(rr) + 1 /\ \A i \in 1 .. Len(wei) : wei[i] = next - i
    <3>1. /\ Len(pri) + Len(wei) = next - 1 /\ next > Len(rr) /\ pri = <<>>
          /\ \A i \in 1 .. Len(wei) : wei[i] = next - i
      BY DEF InStep
    <3>2. next \in 1 .. Len(rr) + 1 /\ Len(wei) \in Nat
      BY LenProperties DEF TypeOK
    <3>3. Len(pri) = 0
      BY <3>1
    <3>4. next = Len(rr) + 1
      BY <2>1, <3>1, <3>2
    <3>5. Len(wei) = Len(rr)
      <4>1. Len(pri) + Len(wei) = next - 1
        BY <3>1
      <4>2. Len(rr) \in Nat /\ Len(wei) \in Nat
        BY <2>1, <3>2
      <4>3. 0 + Len(wei) = Len(rr) + 1 - 1
        BY <3>3, <3>4, <4>1
      <4>. QED  BY <4>2, <4>3
    <3>. QED  BY <3>1, <3>4, <3>5
  <2>. QED  BY <2>1, <2>2
<1>. QED  BY <1>1, <1>2, <1>3, TypeCorrect, PTL DEF Spec
=============================================================================
