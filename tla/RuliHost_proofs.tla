--------------------------- MODULE RuliHost_proofs --------------------------
(***************************************************************************)
(* Proofs about RuliHost, whatever the names, the records of the answers,  *)
(* the types wanted and the depth of the search are.                       *)
(***************************************************************************)
EXTENDS RuliHost, RuliLoops, TLAPS

\* What an answer to a pending query finds: nothing called back yet, and the
\* first type asked for, or both.
Asking ==
  /\ calls = 0
  /\ \/ qtype = FirstType /\ asked = {FirstType}
     \/ qtype = "A" /\ asked = Wanted

IInv ==
  /\ app \in {"free", "held", "lost"}
  /\ calls \in Nat
  /\ PendingUntilDone
  /\ under = "pending" => Asking
  /\ CodeMatchesRcode
  /\ AsksEveryType

\* What a run of on_host_answer() does to the variables that matter here.
Finishes(c) ==
  /\ under = "pending"
  /\ under' = "listed" /\ code' = c /\ calls' = calls + 1
  /\ app' = app /\ c \in Codes
  /\ c \in {"OK", "EMPTY"} => rcode' = "NOERROR"
  /\ c = "RCODE" => rcode' = "ERROR"
  /\ c \in {"OK", "EMPTY", "RCODE"} => asked' = asked /\ ~NeedsInA

AsksAgain ==
  /\ under = "pending"
  /\ under' = "pending" /\ code' = code /\ calls' = calls
  /\ app' = app /\ NeedsInA
  /\ qtype' = "A" /\ asked' = asked \cup {"A"}

LEMMA AnswerStep ==
  ASSUME OnHostAnswer
  PROVE  AsksAgain \/ \E c \in Codes : Finishes(c)
<1>1. ASSUME NEW c \in {"OK", "EMPTY", "RCODE"}, NEW an, under = "pending",
             ResubmitElseDone(c, an),
             c \in {"OK", "EMPTY"} => rcode' = "NOERROR",
             c = "RCODE" => rcode' = "ERROR"
      PROVE  AsksAgain \/ \E d \in Codes : Finishes(d)
  <2>1. CASE NeedsInA /\ Resubmit /\ ResubmitOk
    BY <1>1, <2>1 DEF Resubmit, ResubmitOk, AsksAgain
  <2>2. CASE NeedsInA /\ Resubmit /\ ResubmitFails
    <3>1. Finishes("QUERY")
      BY <1>1, <2>2 DEF Resubmit, ResubmitFails, Finishes, Codes
    <3>. QED  BY <3>1 DEF Codes
  <2>3. CASE ~NeedsInA /\ QueryDone(c)
    <3>1. Finishes(c)
      BY <1>1, <2>3 DEF QueryDone, Finishes, Codes
    <3>. QED  BY <1>1, <3>1 DEF Codes
  <2>. QED  BY <1>1, <2>1, <2>2, <2>3 DEF ResubmitElseDone, Resubmit
<1>2. ASSUME NEW c \in {"ALARM", "QUERY", "PARSE", "CNAME", "OTHER"},
             under = "pending", QueryDone(c)
      PROVE  \E d \in Codes : Finishes(d)
  BY <1>2 DEF QueryDone, Finishes, Codes
<1>3. CASE OnFailure
  BY <1>2, <1>3 DEF OnFailure
<1>4. CASE OnBadRcode
  BY <1>1, <1>4 DEF OnBadRcode
<1>5. CASE OnUnparsable
  BY <1>2, <1>5 DEF OnUnparsable
<1>6. CASE OnRecords
  <2>1. \E an, new :
          OnAddresses(an, new) \/ OnNoMemory(an, new) \/ OnTooDeep(an) \/ OnNoAddress(an)
    BY <1>6 DEF OnRecords
  <2>2. under = "pending" /\ rcode' = "NOERROR"
    BY <1>6 DEF OnRecords
  <2>7. PICK an, new :
          OnAddresses(an, new) \/ OnNoMemory(an, new) \/ OnTooDeep(an) \/ OnNoAddress(an)
    BY <2>1
  <2>3. CASE OnAddresses(an, new)
    BY <1>1, <2>2, <2>3 DEF OnAddresses
  <2>4. CASE OnNoMemory(an, new) \/ OnTooDeep(an)
    BY <1>2, <2>2, <2>4 DEF OnNoMemory, OnTooDeep
  <2>5. CASE OnNoAddress(an)
    BY <1>1, <2>2, <2>5 DEF OnNoAddress
  <2>. QED  BY <2>7, <2>3, <2>4, <2>5
<1>. QED  BY <1>3, <1>4, <1>5, <1>6 DEF OnHostAnswer

-----------------------------------------------------------------------------
(* The inductive invariant.                                                *)

THEOREM Invariance == Spec => []IInv
<1>1. Init => IInv
  BY DEF Init, IInv, PendingUntilDone, CodeMatchesRcode, AsksEveryType
<1>2. IInv /\ [Next]_vars => IInv'
  <2>. SUFFICES ASSUME IInv, [Next]_vars PROVE IInv'
    OBVIOUS
  <2>1. CASE Submit
    BY <2>1 DEF Submit, IInv, PendingUntilDone, CodeMatchesRcode, AsksEveryType,
                Asking, FirstType
  <2>2. CASE Delete
    BY <2>2 DEF Delete, IInv, PendingUntilDone, CodeMatchesRcode, AsksEveryType, Asking
  <2>3. CASE Detach
    BY <2>3 DEF Detach, IInv, PendingUntilDone, CodeMatchesRcode, AsksEveryType,
                Asking, FirstType
  <2>4. CASE OnHostAnswer
    <3>1. CASE AsksAgain
      <4>1. Asking /\ app = "held" /\ code = "VOID"
        BY <3>1 DEF AsksAgain, IInv, PendingUntilDone
      <4>2. asked' = Wanted
        BY <3>1, <4>1, ConstantsAssumption
        DEF AsksAgain, Asking, NeedsInA, FirstType, AddressTypes
      <4>. QED  BY <3>1, <4>1, <4>2 DEF AsksAgain, IInv, PendingUntilDone,
                CodeMatchesRcode, AsksEveryType, Asking
    <3>2. ASSUME NEW c \in Codes, Finishes(c)
          PROVE  IInv'
      <4>1. Asking /\ app = "held" /\ code = "VOID" /\ c # "VOID"
        BY <3>2 DEF Finishes, IInv, PendingUntilDone, Codes
      <4>2. c \in {"OK", "EMPTY", "RCODE"} => asked' = Wanted
        BY <3>2, <4>1, ConstantsAssumption
        DEF Finishes, Asking, NeedsInA, FirstType, AddressTypes
      <4>. QED  BY <3>2, <4>1, <4>2 DEF Finishes, IInv, PendingUntilDone,
                CodeMatchesRcode, AsksEveryType, Asking
    <3>. QED  BY <2>4, <3>1, <3>2, AnswerStep
  <2>5. CASE UNCHANGED vars
    BY <2>5 DEF vars, IInv, PendingUntilDone, CodeMatchesRcode, AsksEveryType,
                Asking, FirstType
  <2>. QED  BY <2>1, <2>2, <2>3, <2>4, <2>5 DEF Next
<1>. QED  BY <1>1, <1>2, PTL DEF Spec

\* A host query held without a result has its resolver query pending, and no
\* other has.
THEOREM Pending == Spec => []PendingUntilDone
BY Invariance, PTL DEF IInv

\* The result of a host query is what the callers assert about the rcode.
THEOREM CodeAndRcode == Spec => []CodeMatchesRcode
BY Invariance, PTL DEF IInv

\* No type that may be asked for is skipped.
THEOREM EveryType == Spec => []AsksEveryType
BY Invariance, PTL DEF IInv

-----------------------------------------------------------------------------
(* The host query implements the promise of a query.                       *)

\* One callback per submission, unless the query is deleted first.
THEOREM Implements == Spec => CallsBackOnce
<1>. DEFINE ph == [q \in {Domain} |-> HostPhase]
            cl == [q \in {Domain} |-> IF app = "held" THEN calls ELSE 0]
<1>1. Init => Promise!Init
  BY DEF Init, Promise!Init, HostPhase
<1>2. IInv /\ [Next]_vars => [Promise!Next]_(Promise!vars)
  <2>. SUFFICES ASSUME IInv, [Next]_vars PROVE [Promise!Next]_(Promise!vars)
    OBVIOUS
  <2>0. /\ ph[Domain] = HostPhase /\ cl[Domain] = (IF app = "held" THEN calls ELSE 0)
        /\ \A x : [ph EXCEPT ![Domain] = x] = [q \in {Domain} |-> x]
        /\ \A x : [cl EXCEPT ![Domain] = x] = [q \in {Domain} |-> x]
    OBVIOUS
  <2>1. CASE Submit
    <3>1. CASE app' = "held"
      <4>1. Promise!Submit(Domain)
        BY <2>0, <2>1, <3>1 DEF Submit, HostPhase, Promise!Submit
      <4>. QED  BY <4>1 DEF Promise!Next
    <3>2. CASE app' \in {"free", "lost"}
      BY <2>1, <3>2 DEF Submit, HostPhase, Promise!vars
    <3>. QED  BY <2>1, <3>1, <3>2 DEF Submit
  <2>2. CASE Delete
    <3>1. Promise!Delete(Domain)
      BY <2>0, <2>2 DEF Delete, HostPhase, Promise!Delete
    <3>. QED  BY <3>1 DEF Promise!Next
  <2>3. CASE Detach
    BY <2>3 DEF Detach, HostPhase, Promise!vars
  <2>4. CASE OnHostAnswer
    <3>1. CASE AsksAgain
      BY <3>1 DEF AsksAgain, HostPhase, Promise!vars
    <3>2. ASSUME NEW c \in Codes, Finishes(c)
          PROVE  Promise!Answer(Domain)
      <4>1. app = "held" /\ app' = "held" /\ code = "VOID" /\ code' = c /\ c # "VOID"
            /\ calls' = calls + 1
        BY <3>2 DEF Finishes, IInv, PendingUntilDone, Codes
      <4>. QED  BY <2>0, <4>1 DEF HostPhase, Promise!Answer
    <3>. QED  BY <2>4, <3>1, <3>2, AnswerStep DEF Promise!Next
  <2>5. CASE UNCHANGED vars
    BY <2>5 DEF vars, HostPhase, Promise!vars
  <2>. QED  BY <2>1, <2>2, <2>3, <2>4, <2>5 DEF Next
<1>. QED  BY <1>1, <1>2, Invariance, PTL DEF Spec, CallsBackOnce

-----------------------------------------------------------------------------
(* The search of an answer.                                                *)

Matches(r, owner) == r.type \in Wanted /\ r.owner = owner

\* One round of the loop that pushes the addresses of a name.
Push(an, owner, n, list) ==
  IF Matches(an[n], owner) THEN Append(list, an[n]) ELSE list

LEMMA PushType ==
  ASSUME NEW an \in Seq(Record), NEW owner, NEW n \in DOMAIN an, NEW list \in Seq(Address)
  PROVE  Push(an, owner, n, list) \in Seq(Address)
<1>1. an[n] \in Record
  OBVIOUS
<1>2. Matches(an[n], owner) => an[n] \in Address
  BY <1>1, ConstantsAssumption DEF Matches, Record, Address, AddressTypes
<1>. QED  BY <1>2 DEF Push

\* The list of addresses as it grows with the loop over the records.
LEMMA PushedRounds ==
  ASSUME NEW an \in Seq(Record), NEW owner
  PROVE  \E p \in [0 .. Len(an) -> Seq(Address)] :
           /\ p[0] = <<>>
           /\ \A i \in 1 .. Len(an) : p[i] = Push(an, owner, i, p[i - 1])
           /\ AddressesOf(an, owner) = p[Len(an)]
<1>. DEFINE R(g) == [n \in 0 .. Len(an) |->
                      IF n = 0 THEN <<>>
                      ELSE IF an[n].type \in Wanted /\ an[n].owner = owner
                        THEN Append(g[n - 1], an[n])
                      ELSE g[n - 1]]
            F == [x \in (1 .. Len(an)) \X Seq(Address) |-> Push(an, owner, x[1], x[2])]
<1>1. F \in RoundRules(Seq(Address), Len(an))
  BY PushType DEF RoundRules
<1>2. \E f : IsRun(Seq(Address), <<>>, Len(an), F, f)
  <2>1. <<>> \in Seq(Address) /\ Len(an) \in Nat
    OBVIOUS
  <2>. HIDE DEF F
  <2>. QED  BY <1>1, <2>1, Rounds
<1>3. PICK f \in [0 .. Len(an) -> Seq(Address)] :
        /\ f[0] = <<>>
        /\ \A i \in 1 .. Len(an) : f[i] = F[<<i, f[i - 1]>>]
  BY <1>2 DEF IsRun
<1>4. ASSUME NEW i \in 1 .. Len(an) PROVE f[i] = Push(an, owner, i, f[i - 1])
  <2>1. f[i - 1] \in Seq(Address)
    BY <1>3, <1>4
  <2>. QED  BY <1>3, <1>4, <2>1
<1>5. f = R(f)
  <2>1. ASSUME NEW i \in 0 .. Len(an) PROVE f[i] = R(f)[i]
    <3>1. CASE i = 0
      BY <1>3, <3>1
    <3>2. CASE i # 0
      <4>1. i \in 1 .. Len(an)
        BY <3>2
      <4>. QED  BY <1>4, <3>2, <4>1 DEF Push, Matches
    <3>. QED  BY <3>1, <3>2
  <2>. QED  BY <1>3, <2>1
<1>6. PICK p : p = CHOOSE g : g = R(g)
  OBVIOUS
<1>7. p = R(p)
  <2>. HIDE DEF R
  <2>. QED  BY <1>5, <1>6, Zenon
<1>8. AddressesOf(an, owner) = p[Len(an)]
  BY <1>6, Zenon DEF AddressesOf
<1>9. p[0] = <<>> /\ \A i \in 1 .. Len(an) : p[i] = Push(an, owner, i, p[i - 1])
  <2>1. ASSUME NEW i \in 0 .. Len(an) PROVE p[i] = R(p)[i]
    BY <1>7
  <2>2. p[0] = <<>>
    BY <2>1
  <2>3. ASSUME NEW i \in 1 .. Len(an) PROVE p[i] = Push(an, owner, i, p[i - 1])
    <3>1. i \in 0 .. Len(an) /\ i # 0
      OBVIOUS
    <3>. QED  BY <2>1, <3>1 DEF Push, Matches
  <2>. QED  BY <2>2, <2>3
<1>10. p \in [0 .. Len(an) -> Seq(Address)]
  <2>. DEFINE T == {i \in 0 .. Len(an) : p[i] \in Seq(Address)}
  <2>1. 0 \in T
    <3>1. 0 \in 0 .. Len(an) /\ p[0] \in Seq(Address)
      BY <1>9
    <3>. QED  BY <3>1
  <2>2. ASSUME NEW i \in 1 .. Len(an), i - 1 \in T PROVE i \in T
    BY <1>9, <2>2, PushType
  <2>3. 0 .. Len(an) \subseteq T
    <3>1. Len(an) \in Nat
      OBVIOUS
    <3>. HIDE DEF T
    <3>. QED  BY <2>1, <2>2, <3>1, CountedUp
  <2>4. p = [i \in 0 .. Len(an) |-> p[i]]
    BY <1>7
  <2>. QED  BY <2>3, <2>4
<1>. QED  BY <1>8, <1>9, <1>10

\* What is found are addresses.
LEMMA AddressesType ==
  ASSUME NEW an \in Seq(Record), NEW owner
  PROVE  AddressesOf(an, owner) \in Seq(Address)
BY PushedRounds

\* Addresses are found when the answer has any.
LEMMA AddressesFound ==
  ASSUME NEW an \in Seq(Record), NEW owner
  PROVE  AddressesOf(an, owner) = <<>> <=> \A k \in DOMAIN an : ~Matches(an[k], owner)
<1>1. PICK p \in [0 .. Len(an) -> Seq(Address)] :
        /\ p[0] = <<>>
        /\ \A i \in 1 .. Len(an) : p[i] = Push(an, owner, i, p[i - 1])
        /\ AddressesOf(an, owner) = p[Len(an)]
  BY PushedRounds
<1>. DEFINE T == {i \in 0 .. Len(an) : p[i] = <<>> <=> \A k \in 1 .. i : ~Matches(an[k], owner)}
<1>2. 0 \in T
  BY <1>1
<1>3. ASSUME NEW i \in 1 .. Len(an), i - 1 \in T PROVE i \in T
  <2>1. p[i] = Push(an, owner, i, p[i - 1]) /\ p[i - 1] \in Seq(Address)
    BY <1>1
  <2>2. CASE Matches(an[i], owner)
    <3>1. p[i] # <<>>
      BY <2>1, <2>2 DEF Push
    <3>. QED  BY <2>2, <3>1
  <2>3. CASE ~Matches(an[i], owner)
    <3>1. p[i] = p[i - 1]
      BY <2>1, <2>3 DEF Push
    <3>2. (\A k \in 1 .. i - 1 : ~Matches(an[k], owner)) <=> \A k \in 1 .. i : ~Matches(an[k], owner)
      BY <2>3
    <3>. QED  BY <1>3, <3>1, <3>2
  <2>. QED  BY <2>2, <2>3
<1>4. Len(an) \in T
  <2>1. Len(an) \in Nat
    OBVIOUS
  <2>. HIDE DEF T
  <2>2. 0 .. Len(an) \subseteq T
    BY <1>2, <1>3, <2>1, CountedUp
  <2>. QED  BY <2>1, <2>2
<1>. QED  BY <1>1, <1>4

IsCname(r, owner) == r.type = "CNAME" /\ r.owner = owner

\* The first CNAME of a name is one, and no record before it is; when none is
\* found the answer has none.
LEMMA CnameFound ==
  ASSUME NEW an \in Seq(Record), NEW owner
  PROVE  \/ /\ FirstCname(an, owner) = 0
            /\ \A k \in DOMAIN an : ~IsCname(an[k], owner)
         \/ /\ FirstCname(an, owner) \in DOMAIN an
            /\ IsCname(an[FirstCname(an, owner)], owner)
            /\ \A k \in 1 .. FirstCname(an, owner) - 1 : ~IsCname(an[k], owner)
<1>. DEFINE I == {i \in 1 .. Len(an) : an[i].type = "CNAME" /\ an[i].owner = owner}
<1>1. FirstCname(an, owner) = IF I # {} THEN Min(I) ELSE 0
  BY DEF FirstCname, SelectInSeq
<1>2. CASE I = {}
  BY <1>1, <1>2 DEF IsCname
<1>3. CASE I # {}
  <2>1. \E x \in I : \A y \in I : x <= y
    <3>1. I \subseteq Nat
      OBVIOUS
    <3>. HIDE DEF I
    <3>. QED  BY <1>3, <3>1, LeastNumber
  <2>2. Min(I) \in I /\ \A y \in I : Min(I) <= y
    BY <2>1 DEF Min
  <2>3. PICK m : m = FirstCname(an, owner)
    OBVIOUS
  <2>4. m \in I /\ \A y \in I : m <= y
    BY <1>1, <1>3, <2>2, <2>3
  <2>5. m \in DOMAIN an /\ IsCname(an[m], owner)
    BY <2>4 DEF IsCname
  <2>6. ASSUME NEW k \in 1 .. m - 1 PROVE ~IsCname(an[k], owner)
    <3>1. k \in 1 .. Len(an) /\ ~(m <= k)
      BY <2>5
    <3>. QED  BY <2>4, <3>1 DEF IsCname
  <2>. QED  BY <2>3, <2>5, <2>6
<1>. QED  BY <1>2, <1>3

\* A CNAME record is made of its owner and its target.
LEMMA CnameRecord ==
  ASSUME NEW r \in Record, NEW owner, IsCname(r, owner)
  PROVE  r.target \in Names /\ r = [owner |-> owner, type |-> "CNAME", target |-> r.target]
BY DEF IsCname, Record, Address, AddressTypes

-----------------------------------------------------------------------------
(* The chain of aliases.                                                   *)

\* One round of the loop along the CNAMEs.
Follow(an, owner) ==
  IF EndsAt(an, owner) THEN owner ELSE an[FirstCname(an, owner)].target

\* Where the loop does not end it meets a CNAME of a name without addresses,
\* the first one of that name.
LEMMA FollowedCname ==
  ASSUME NEW an \in Seq(Record), NEW owner, ~EndsAt(an, owner)
  PROVE  /\ Follow(an, owner) \in Names
         /\ AddressesOf(an, owner) = <<>>
         /\ \E k \in DOMAIN an :
              /\ an[k] = [owner |-> owner, type |-> "CNAME", target |-> Follow(an, owner)]
              /\ \A j \in 1 .. k - 1 : ~(an[j].type = "CNAME" /\ an[j].owner = owner)
<1>1. PICK k : k = FirstCname(an, owner)
  OBVIOUS
<1>2. /\ k \in DOMAIN an
      /\ IsCname(an[k], owner)
      /\ \A j \in 1 .. k - 1 : ~IsCname(an[j], owner)
  BY <1>1, CnameFound DEF EndsAt
<1>3. an[k].target \in Names /\ an[k] = [owner |-> owner, type |-> "CNAME", target |-> an[k].target]
  <2>1. an[k] \in Record
    BY <1>2
  <2>. QED  BY <1>2, <2>1, CnameRecord
<1>4. Follow(an, owner) = an[k].target
  BY <1>1 DEF Follow
<1>5. AddressesOf(an, owner) = <<>>
  BY DEF EndsAt
<1>. QED  BY <1>2, <1>3, <1>4, <1>5 DEF IsCname

\* The names the loop looks at.
LEMMA NamesRounds ==
  ASSUME NEW an \in Seq(Record)
  PROVE  /\ NameAfter(an) \in [0 .. MaxCnameDepth -> Names]
         /\ NameAfter(an)[0] = Domain
         /\ \A i \in 1 .. MaxCnameDepth : NameAfter(an)[i] = Follow(an, NameAfter(an)[i - 1])
<1>. DEFINE M == MaxCnameDepth
            R(g) == [n \in 0 .. M |->
                      IF n = 0 THEN Domain
                      ELSE IF EndsAt(an, g[n - 1]) THEN g[n - 1]
                      ELSE an[FirstCname(an, g[n - 1])].target]
            F == [x \in (1 .. M) \X Names |-> Follow(an, x[2])]
<1>0. M \in Nat /\ Domain \in Names
  BY ConstantsAssumption
<1>1. \A x \in Names : Follow(an, x) \in Names
  BY FollowedCname DEF Follow
<1>2. F \in RoundRules(Names, M)
  BY <1>1 DEF RoundRules
<1>3. \E f : IsRun(Names, Domain, M, F, f)
  <2>. HIDE DEF F, M
  <2>. QED  BY <1>0, <1>2, Rounds
<1>4. PICK f \in [0 .. M -> Names] :
        /\ f[0] = Domain
        /\ \A i \in 1 .. M : f[i] = F[<<i, f[i - 1]>>]
  BY <1>3 DEF IsRun
<1>5. ASSUME NEW i \in 1 .. M PROVE f[i] = Follow(an, f[i - 1])
  <2>1. f[i - 1] \in Names
    BY <1>0, <1>4, <1>5
  <2>. QED  BY <1>4, <1>5, <2>1
<1>6. f = R(f)
  <2>1. ASSUME NEW i \in 0 .. M PROVE f[i] = R(f)[i]
    <3>1. CASE i = 0
      BY <1>4, <3>1
    <3>2. CASE i # 0
      <4>1. i \in 1 .. M
        BY <1>0, <3>2
      <4>. QED  BY <1>5, <3>2, <4>1 DEF Follow
    <3>. QED  BY <3>1, <3>2
  <2>. QED  BY <1>4, <2>1
<1>7. PICK p : p = CHOOSE g : g = R(g)
  OBVIOUS
<1>8. p = R(p)
  <2>. HIDE DEF R
  <2>. QED  BY <1>6, <1>7, Zenon
<1>9. NameAfter(an) = p
  BY <1>7, Zenon DEF NameAfter
<1>10. p[0] = Domain /\ \A i \in 1 .. M : p[i] = Follow(an, p[i - 1])
  <2>1. ASSUME NEW i \in 0 .. M PROVE p[i] = R(p)[i]
    BY <1>8
  <2>2. p[0] = Domain
    BY <1>0, <2>1
  <2>3. ASSUME NEW i \in 1 .. M PROVE p[i] = Follow(an, p[i - 1])
    <3>1. i \in 0 .. M /\ i # 0
      BY <1>0
    <3>. QED  BY <2>1, <3>1 DEF Follow
  <2>. QED  BY <2>2, <2>3
<1>11. p \in [0 .. M -> Names]
  <2>. DEFINE T == {i \in 0 .. M : p[i] \in Names}
  <2>1. 0 \in T
    BY <1>0, <1>10
  <2>2. ASSUME NEW i \in 1 .. M, i - 1 \in T PROVE i \in T
    BY <1>0, <1>1, <1>10, <2>2
  <2>3. 0 .. M \subseteq T
    <3>. HIDE DEF T, M
    <3>. QED  BY <1>0, <2>1, <2>2, CountedUp
  <2>4. p = [i \in 0 .. M |-> p[i]]
    BY <1>8
  <2>. QED  BY <2>3, <2>4
<1>. QED  BY <1>9, <1>10, <1>11

\* The domain itself is reached without a CNAME.
LEMMA LeadsNowhere ==
  ASSUME NEW an \in Seq(Record)
  PROVE  Leads(an, 0, Domain)
<1>. DEFINE chain == [i \in 0 .. 0 |-> Domain]
<1>1. chain \in [0 .. 0 -> Names] /\ chain[0] = Domain
  BY ConstantsAssumption
<1>2. 0 .. 0 - 1 = {}
  OBVIOUS
<1>. HIDE DEF chain
<1>. QED  BY <1>1, <1>2 DEF Leads

\* A chain goes on by one CNAME.
LEMMA LeadsFurther ==
  ASSUME NEW an \in Seq(Record), NEW n \in Nat, NEW name, Leads(an, n, name),
         ~EndsAt(an, name)
  PROVE  Leads(an, n + 1, Follow(an, name))
<1>. DEFINE Link(a, b) ==
              /\ AddressesOf(an, a) = <<>>
              /\ \E k \in DOMAIN an :
                   /\ an[k] = [owner |-> a, type |-> "CNAME", target |-> b]
                   /\ \A j \in 1 .. k - 1 : ~(an[j].type = "CNAME" /\ an[j].owner = a)
<1>1. PICK chain \in [0 .. n -> Names] :
        /\ chain[0] = Domain /\ chain[n] = name
        /\ \A i \in 0 .. n - 1 : Link(chain[i], chain[i + 1])
  BY DEF Leads
<1>2. Link(name, Follow(an, name)) /\ Follow(an, name) \in Names
  BY FollowedCname
<1>. HIDE DEF Link
<1>. DEFINE longer == [i \in 0 .. n + 1 |-> IF i = n + 1 THEN Follow(an, name) ELSE chain[i]]
<1>3. longer \in [0 .. n + 1 -> Names]
  BY <1>1, <1>2
<1>4. longer[0] = Domain /\ longer[n + 1] = Follow(an, name)
  BY <1>1
<1>5. ASSUME NEW i \in 0 .. n PROVE Link(longer[i], longer[i + 1])
  <2>1. longer[i] = chain[i]
    OBVIOUS
  <2>2. CASE i = n
    BY <1>1, <1>2, <2>1, <2>2
  <2>3. CASE i # n
    <3>1. i \in 0 .. n - 1 /\ longer[i + 1] = chain[i + 1]
      BY <2>3
    <3>. QED  BY <1>1, <2>1, <3>1
  <2>. QED  BY <2>2, <2>3
<1>6. 0 .. (n + 1) - 1 = 0 .. n
  OBVIOUS
<1>. HIDE DEF longer
<1>7. \E c \in [0 .. n + 1 -> Names] :
        /\ c[0] = Domain /\ c[n + 1] = Follow(an, name)
        /\ \A i \in 0 .. (n + 1) - 1 : Link(c[i], c[i + 1])
  BY <1>3, <1>4, <1>5, <1>6
<1>. QED  BY <1>7 DEF Leads, Link

\* Every name the loop looks at is led to by as many CNAMEs as there were
\* rounds, or by fewer and the loop ends there.
LEMMA NamesAreLedTo ==
  ASSUME NEW an \in Seq(Record)
  PROVE  \A m \in 0 .. MaxCnameDepth :
           \E n \in 0 .. m : /\ Leads(an, n, NameAfter(an)[m])
                             /\ n = m \/ EndsAt(an, NameAfter(an)[m])
<1>. DEFINE M == MaxCnameDepth
            Led(m) == \E n \in 0 .. m : /\ Leads(an, n, NameAfter(an)[m])
                                        /\ n = m \/ EndsAt(an, NameAfter(an)[m])
            T == {m \in 0 .. M : Led(m)}
<1>0. M \in Nat
  BY ConstantsAssumption
<1>1. 0 \in T
  <2>1. Led(0)
    <3>1. NameAfter(an)[0] = Domain
      BY NamesRounds
    <3>. QED  BY <3>1, LeadsNowhere
  <2>. QED  BY <1>0, <2>1
<1>2. ASSUME NEW m \in 1 .. M, m - 1 \in T PROVE m \in T
  <2>1. PICK n \in 0 .. m - 1 :
          /\ Leads(an, n, NameAfter(an)[m - 1])
          /\ n = m - 1 \/ EndsAt(an, NameAfter(an)[m - 1])
    BY <1>2
  <2>2. NameAfter(an)[m] = Follow(an, NameAfter(an)[m - 1])
    BY <1>2, NamesRounds
  <2>3. CASE EndsAt(an, NameAfter(an)[m - 1])
    <3>1. NameAfter(an)[m] = NameAfter(an)[m - 1]
      BY <2>2, <2>3 DEF Follow
    <3>2. n \in 0 .. m
      BY <1>2
    <3>. QED  BY <1>2, <2>1, <2>3, <3>1, <3>2
  <2>4. CASE ~EndsAt(an, NameAfter(an)[m - 1])
    <3>1. n = m - 1 /\ n \in Nat
      BY <2>1, <2>4
    <3>2. Leads(an, n + 1, NameAfter(an)[m])
      BY <2>1, <2>2, <2>4, <3>1, LeadsFurther
    <3>3. n + 1 = m /\ m \in 0 .. m /\ m \in 0 .. M
      BY <1>2, <3>1
    <3>. QED  BY <3>2, <3>3
  <2>. QED  BY <2>3, <2>4
<1>3. 0 .. M \subseteq T
  <2>. HIDE DEF T, M
  <2>. QED  BY <1>0, <1>1, <1>2, CountedUp
<1>. QED  BY <1>3

\* The search of any answer ends where the chain of its aliases ends, or too
\* deep.
LEMMA ChaseFollows ==
  ASSUME NEW an \in Seq(Record)
  PROVE  LET chase == Chase(an)
             name  == chase.owner
         IN  \/ /\ chase.end = "found"
                /\ \E n \in 0 .. MaxCnameDepth : Leads(an, n, name)
                /\ HasAddress(an, name)
             \/ /\ chase.end = "none"
                /\ \E n \in 0 .. MaxCnameDepth : Leads(an, n, name)
                /\ ~HasAddress(an, name) /\ ~HasCname(an, name)
             \/ /\ chase.end = "deep"
                /\ Leads(an, MaxCnameDepth, name)
                /\ ~HasAddress(an, name) /\ HasCname(an, name)
<1>1. PICK last : last = NameAfter(an)[MaxCnameDepth]
  OBVIOUS
<1>2. PICK n \in 0 .. MaxCnameDepth :
        Leads(an, n, last) /\ (n = MaxCnameDepth \/ EndsAt(an, last))
  BY <1>1, NamesAreLedTo, ConstantsAssumption
<1>3. Chase(an).owner = last
  BY <1>1 DEF Chase
<1>4. HasAddress(an, last) <=> AddressesOf(an, last) # <<>>
  BY AddressesFound DEF HasAddress, Matches, ToSet
<1>5. HasCname(an, last) <=> FirstCname(an, last) # 0
  BY CnameFound DEF HasCname, IsCname, ToSet
<1>6. CASE AddressesOf(an, last) # <<>>
  <2>1. Chase(an).end = "found"
    BY <1>1, <1>6 DEF Chase
  <2>. QED  BY <1>2, <1>3, <1>4, <1>6, <2>1
<1>7. CASE AddressesOf(an, last) = <<>> /\ FirstCname(an, last) = 0
  <2>1. Chase(an).end = "none"
    BY <1>1, <1>7 DEF Chase
  <2>. QED  BY <1>2, <1>3, <1>4, <1>5, <1>7, <2>1
<1>8. CASE AddressesOf(an, last) = <<>> /\ FirstCname(an, last) # 0
  <2>1. Chase(an).end = "deep"
    BY <1>1, <1>8 DEF Chase
  <2>2. n = MaxCnameDepth
    BY <1>2, <1>8 DEF EndsAt
  <2>. QED  BY <1>2, <1>3, <1>4, <1>5, <1>8, <2>1, <2>2
<1>. QED  BY <1>6, <1>7, <1>8

-----------------------------------------------------------------------------
(* Types.                                                                  *)

LEMMA FirstTypeWanted == FirstType \in Wanted
BY ConstantsAssumption DEF FirstType, AddressTypes

\* The answers are sequences of records.
LEMMA AnswersType == Answers \subseteq Seq(Record)
BY DEF Answers

LEMMA ResubmitElseDoneType ==
  ASSUME TypeOK, NEW c \in Codes, NEW an \in Seq(Record), ResubmitElseDone(c, an),
         rcode' \in {"VOID", "NOERROR", "ERROR"}, addrs' \in Seq(Address)
  PROVE  TypeOK'
<1>1. CASE NeedsInA /\ Resubmit
  BY <1>1 DEF TypeOK, Resubmit, ResubmitOk, ResubmitFails, NeedsInA, Codes
<1>2. CASE QueryDone(c) /\ answer' = an
  BY <1>2 DEF TypeOK, QueryDone
<1>. QED  BY <1>1, <1>2 DEF ResubmitElseDone

LEMMA QueryDoneType ==
  ASSUME TypeOK, NEW c \in Codes, QueryDone(c), answer' \in Seq(Record),
         rcode' \in {"VOID", "NOERROR", "ERROR"}, addrs' \in Seq(Address)
  PROVE  TypeOK'
BY DEF TypeOK, QueryDone

\* Every kind of on_host_answer() keeps the types.
LEMMA OnHostAnswerType == ASSUME TypeOK, OnHostAnswer PROVE TypeOK'
<1>. USE DEF Codes
<1>0. answer \in Seq(Record) /\ addrs \in Seq(Address) /\ rcode \in {"VOID", "NOERROR", "ERROR"}
  BY DEF TypeOK
<1>1. CASE OnFailure
  BY <1>0, <1>1, QueryDoneType DEF OnFailure
<1>2. CASE OnBadRcode
  BY <1>0, <1>2, ResubmitElseDoneType DEF OnBadRcode
<1>3. CASE OnUnparsable
  BY <1>0, <1>3, QueryDoneType DEF OnUnparsable
<1>4. CASE OnRecords
  <2>0. PICK an \in Seq(Record) : \E owner :
          \/ OnAddresses(an, AddressesOf(an, owner)) \/ OnNoMemory(an, AddressesOf(an, owner))
          \/ OnTooDeep(an) \/ OnNoAddress(an)
    BY <1>4, AnswersType DEF OnRecords
  <2>1. PICK owner :
          \/ OnAddresses(an, AddressesOf(an, owner)) \/ OnNoMemory(an, AddressesOf(an, owner))
          \/ OnTooDeep(an) \/ OnNoAddress(an)
    BY <2>0
  <2>2. PICK new \in Seq(Address) : new = AddressesOf(an, owner)
    BY AddressesType
  <2>3. rcode' \in {"VOID", "NOERROR", "ERROR"}
    BY <1>4 DEF OnRecords
  <2>4. CASE OnAddresses(an, new)
    <3>1. addrs' \in Seq(Address) /\ ResubmitElseDone("OK", an)
      BY <1>0, <2>4 DEF OnAddresses
    <3>. QED  BY <2>3, <3>1, ResubmitElseDoneType
  <2>5. CASE OnNoMemory(an, new)
    <3>1. PICK k \in 1 .. Len(new) : addrs' = addrs \o SubSeq(new, 1, k - 1)
      BY <2>5 DEF OnNoMemory
    <3>2. SubSeq(new, 1, k - 1) \in Seq(Address)
      OBVIOUS
    <3>3. addrs' \in Seq(Address) /\ QueryDone("OTHER") /\ answer' \in Seq(Record)
      BY <1>0, <2>5, <3>1, <3>2 DEF OnNoMemory
    <3>. QED  BY <2>3, <3>3, QueryDoneType
  <2>6. CASE OnTooDeep(an)
    BY <1>0, <2>3, <2>6, QueryDoneType DEF OnTooDeep
  <2>7. CASE OnNoAddress(an)
    BY <1>0, <2>3, <2>7, ResubmitElseDoneType DEF OnNoAddress
  <2>. QED  BY <2>1, <2>2, <2>4, <2>5, <2>6, <2>7
<1>. QED  BY <1>1, <1>2, <1>3, <1>4 DEF OnHostAnswer

\* The variables keep their types, whatever the answers hold.
THEOREM TypeCorrect == Spec => []TypeOK
<1>1. Init => TypeOK
  BY FirstTypeWanted DEF Init, TypeOK
<1>2. TypeOK /\ [Next]_vars => TypeOK'
  <2>. SUFFICES ASSUME TypeOK, [Next]_vars PROVE TypeOK'
    OBVIOUS
  <2>1. CASE Submit
    BY <2>1, FirstTypeWanted DEF Submit, TypeOK
  <2>2. CASE Delete
    BY <2>2 DEF Delete, TypeOK
  <2>3. CASE Detach
    BY <2>3 DEF Detach, TypeOK
  <2>4. CASE OnHostAnswer
    BY <2>4, OnHostAnswerType
  <2>5. CASE UNCHANGED vars
    BY <2>5 DEF vars, TypeOK
  <2>. QED  BY <2>1, <2>2, <2>3, <2>4, <2>5 DEF Next
<1>. QED  BY <1>1, <1>2, PTL DEF Spec

\* The search along the aliases of any answer ends at the right name, however
\* many names there are and however deep it may go: it follows the first CNAME
\* of each name, stops at the first name that has addresses, and fails with
\* CODE_CNAME only when the chain goes on (on_host_answer()).
THEOREM ChaseRight == Spec => []ChaseIsRight
<1>1. TypeOK => ChaseIsRight
  <2>. SUFFICES ASSUME TypeOK PROVE ChaseIsRight
    OBVIOUS
  <2>1. answer \in Seq(Record)
    BY DEF TypeOK
  <2>. QED  BY <2>1, ChaseFollows DEF ChaseIsRight
<1>. QED  BY <1>1, TypeCorrect, PTL

-----------------------------------------------------------------------------
(* The addresses kept.                                                     *)

\* What addresses are appended to is a prefix of the result.
LEMMA PrefixOfAppended ==
  ASSUME NEW s \in Seq(Address), NEW t \in Seq(Address)
  PROVE  IsPrefix(s, s \o t)
<1>1. Len(s) <= Len(s \o t)
  OBVIOUS
<1>2. SubSeq(s, 1, Len(s)) = SubSeq(s \o t, 1, Len(s))
  OBVIOUS
<1>. QED  BY <1>1, <1>2 DEF IsPrefix

LEMMA OnHostAnswerKeeps ==
  ASSUME TypeOK, OnHostAnswer
  PROVE  \E t \in Seq(Address) : addrs' = addrs \o t
<1>1. addrs \in Seq(Address)
  BY DEF TypeOK
<1>2. CASE UNCHANGED addrs
  <2>1. addrs' = addrs \o <<>> /\ <<>> \in Seq(Address)
    BY <1>1, <1>2
  <2>. QED  BY <2>1
<1>3. CASE OnFailure \/ OnBadRcode \/ OnUnparsable
  BY <1>2, <1>3 DEF OnFailure, OnBadRcode, OnUnparsable
<1>4. CASE OnRecords
  <2>0. PICK an \in Seq(Record) : \E owner :
          \/ OnAddresses(an, AddressesOf(an, owner)) \/ OnNoMemory(an, AddressesOf(an, owner))
          \/ OnTooDeep(an) \/ OnNoAddress(an)
    BY <1>4, AnswersType DEF OnRecords
  <2>1. PICK owner :
          \/ OnAddresses(an, AddressesOf(an, owner)) \/ OnNoMemory(an, AddressesOf(an, owner))
          \/ OnTooDeep(an) \/ OnNoAddress(an)
    BY <2>0
  <2>2. PICK new \in Seq(Address) : new = AddressesOf(an, owner)
    BY AddressesType
  <2>3. CASE OnAddresses(an, new)
    BY <2>3 DEF OnAddresses
  <2>4. CASE OnNoMemory(an, new)
    <3>1. PICK k \in 1 .. Len(new) : addrs' = addrs \o SubSeq(new, 1, k - 1)
      BY <2>4 DEF OnNoMemory
    <3>2. SubSeq(new, 1, k - 1) \in Seq(Address)
      OBVIOUS
    <3>. QED  BY <3>1, <3>2
  <2>5. CASE OnTooDeep(an) \/ OnNoAddress(an)
    BY <1>2, <2>5 DEF OnTooDeep, OnNoAddress
  <2>. QED  BY <2>1, <2>2, <2>3, <2>4, <2>5
<1>. QED  BY <1>3, <1>4 DEF OnHostAnswer

\* No address is lost between two answers: what an earlier one brought stays,
\* in front of what the next one brings, until the caller takes the list over
\* or deletes the query.
THEOREM AddressesKept == Spec => KeepsAddresses
<1>1. TypeOK /\ IInv /\ [Next]_vars
        => [under = "pending" /\ app' = "held" => IsPrefix(addrs, addrs')]_vars
  <2>. SUFFICES ASSUME TypeOK, IInv, Next, under = "pending", app' = "held"
                PROVE  IsPrefix(addrs, addrs')
    OBVIOUS
  <2>1. app = "held" /\ code = "VOID"
    BY DEF IInv, PendingUntilDone
  <2>2. OnHostAnswer
    BY <2>1 DEF Next, Submit, Delete, Detach
  <2>3. PICK t \in Seq(Address) : addrs' = addrs \o t
    BY <2>2, OnHostAnswerKeeps
  <2>. QED  BY <2>3, PrefixOfAppended DEF TypeOK
<1>. QED  BY <1>1, TypeCorrect, Invariance, PTL DEF Spec, KeepsAddresses
=============================================================================
