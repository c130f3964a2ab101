------------------------------- MODULE RuliLoops -------------------------------
(***************************************************************************)
(* Lemmas about loops, for the proofs: what the rounds of a loop leave,     *)
(* what a recursive definition of the model finds, the sets of numbers and  *)
(* the sequences the loops of the library work on.                          *)
(*                                                                         *)
(* All of them rest on one fact, that every set of natural numbers that is  *)
(* not empty has a least element.                                          *)
(***************************************************************************)
EXTENDS Integers, Sequences, SequencesExt, FiniteSetTheorems, SequenceTheorems, WellFoundedInduction, TLAPS

-----------------------------------------------------------------------------
(* Numbers and rounds.                                                     *)

\* Every set of numbers that is not empty has a least one.
LEMMA LeastNumber ==
  ASSUME NEW T, T \subseteq Nat, T # {}
  PROVE  \E x \in T : \A y \in T : x <= y
<1>1. PICK R : R = OpToRel(<, Nat)
  OBVIOUS
<1>2. IsWellFoundedOn(R, Nat)
  BY <1>1, NatLessThanWellFounded, Zenon
<1>3. \A x, y \in Nat : x < y => <<x, y>> \in R
  BY <1>1 DEF OpToRel
<1>4. PICK x \in T : \A y \in T : ~ (<<y, x>> \in R)
  BY <1>2, WFMin
<1>5. ASSUME NEW y \in T PROVE x <= y
  <2>1. x \in Nat /\ y \in Nat
    BY <1>4, <1>5
  <2>2. ~(y < x)
    BY <1>3, <1>4, <1>5, <2>1
  <2>. QED  BY <2>1, <2>2
<1>. QED  BY <1>5

\* A set that holds 0 and with every number the next one, up to n, holds all
\* of them.
LEMMA CountedUp ==
  ASSUME NEW n \in Nat, NEW T, 0 \in T,
         \A i \in 1 .. n : i - 1 \in T => i \in T
  PROVE  0 .. n \subseteq T
<1>. DEFINE Left == {i \in 0 .. n : i \notin T}
<1>1. CASE Left # {}
  <2>0. \E x \in Left : \A y \in Left : x <= y
    <3>1. Left \subseteq Nat
      OBVIOUS
    <3>. HIDE DEF Left
    <3>. QED  BY <1>1, <3>1, LeastNumber
  <2>1. PICK x \in Left : \A y \in Left : x <= y
    BY <2>0
  <2>2. x \in 1 .. n /\ x \notin T
    BY <2>1
  <2>3. x - 1 \notin Left
    BY <2>1, <2>2
  <2>. QED  BY <2>2, <2>3
<1>. QED  BY <1>1

\* What each round of a loop of n rounds does to its state, and the states of
\* such a loop.
RoundRules(S, n) == [(1 .. n) \X S -> S]

IsRun(S, c, n, F, f) ==
  /\ f \in [0 .. n -> S]
  /\ f[0] = c
  /\ \A i \in 1 .. n : f[i] = F[<<i, f[i - 1]>>]

\* A loop of n rounds has a state after every round.
LEMMA Rounds ==
  ASSUME NEW S, NEW c \in S, NEW n \in Nat, NEW F \in RoundRules(S, n)
  PROVE  \E f : IsRun(S, c, n, F, f)
<1>. USE DEF RoundRules
<1>. DEFINE Upto(m, f) == f[0] = c /\ \A i \in 1 .. m : f[i] = F[<<i, f[i - 1]>>]
            T == {m \in 0 .. n : \E f \in [0 .. m -> S] : Upto(m, f)}
<1>1. 0 \in T
  <2>1. [i \in 0 .. 0 |-> c] \in [0 .. 0 -> S]
    OBVIOUS
  <2>2. Upto(0, [i \in 0 .. 0 |-> c])
    OBVIOUS
  <2>3. \E f \in [0 .. 0 -> S] : Upto(0, f)
    BY <2>1, <2>2
  <2>. QED  BY <2>3
<1>2. ASSUME NEW m \in 1 .. n, m - 1 \in T PROVE m \in T
  <2>1. PICK f \in [0 .. m - 1 -> S] : Upto(m - 1, f)
    BY <1>2
  <2>2. F[<<m, f[m - 1]>>] \in S
    BY <1>2, <2>1
  <2>. DEFINE g == [i \in 0 .. m |-> IF i = m THEN F[<<m, f[m - 1]>>] ELSE f[i]]
  <2>3. g \in [0 .. m -> S]
    BY <2>1, <2>2
  <2>4. g[0] = c
    BY <1>2, <2>1
  <2>5. ASSUME NEW i \in 1 .. m PROVE g[i] = F[<<i, g[i - 1]>>]
    <3>1. CASE i = m
      <4>1. g[i] = F[<<m, f[m - 1]>>] /\ g[i - 1] = f[m - 1]
        BY <3>1, <2>5
      <4>. QED  BY <3>1, <4>1
    <3>2. CASE i # m
      <4>1. i \in 1 .. m - 1
        BY <3>2, <2>5
      <4>2. g[i] = f[i] /\ g[i - 1] = f[i - 1]
        BY <3>2, <4>1
      <4>. QED  BY <2>1, <4>1, <4>2
    <3>. QED  BY <3>1, <3>2
  <2>6. \E h \in [0 .. m -> S] : Upto(m, h)
    <3>. HIDE DEF g
    <3>. QED  BY <2>3, <2>4, <2>5
  <2>. QED  BY <2>6
<1>. HIDE DEF T
<1>3. 0 .. n \subseteq T
  BY <1>1, <1>2, CountedUp
<1>4. n \in T
  BY <1>3
<1>. QED  BY <1>4 DEF T, IsRun


-----------------------------------------------------------------------------
(* Sequences joined.                                                       *)

\* The elements of a sequence made of two.
LEMMA Joined ==
  ASSUME NEW S, NEW s \in Seq(S), NEW t \in Seq(S)
  PROVE  /\ s \o t \in Seq(S)
         /\ DOMAIN (s \o t) = 1 .. Len(s) + Len(t)
         /\ \A i \in 1 .. Len(s) : (s \o t)[i] = s[i]
         /\ \A i \in Len(s) + 1 .. Len(s) + Len(t) :
              i - Len(s) \in DOMAIN t /\ (s \o t)[i] = t[i - Len(s)]
         /\ Range(s \o t) = Range(s) \cup Range(t)
<1>1. /\ s \o t \in Seq(S)
      /\ Len(s) \in Nat /\ Len(t) \in Nat
      /\ DOMAIN s = 1 .. Len(s) /\ DOMAIN t = 1 .. Len(t)
      /\ DOMAIN (s \o t) = 1 .. Len(s) + Len(t)
      /\ \A i \in 1 .. Len(s) : (s \o t)[i] = s[i]
  OBVIOUS
<1>2. ASSUME NEW i \in Len(s) + 1 .. Len(s) + Len(t)
      PROVE  i - Len(s) \in DOMAIN t /\ (s \o t)[i] = t[i - Len(s)]
  OBVIOUS
<1>3. Range(s \o t) \subseteq Range(s) \cup Range(t)
  <2>1. ASSUME NEW i \in 1 .. Len(s) + Len(t) PROVE (s \o t)[i] \in Range(s) \cup Range(t)
    <3>1. CASE i <= Len(s)
      BY <1>1, <3>1 DEF Range
    <3>2. CASE ~(i <= Len(s))
      <4>1. i \in Len(s) + 1 .. Len(s) + Len(t)
        BY <1>1, <3>2
      <4>. QED  BY <1>2, <4>1 DEF Range
    <3>. QED  BY <3>1, <3>2
  <2>. QED  BY <1>1, <2>1 DEF Range
<1>4. Range(s) \subseteq Range(s \o t)
  <2>1. \A i \in 1 .. Len(s) : i \in 1 .. Len(s) + Len(t)
    BY <1>1
  <2>. QED  BY <1>1, <2>1 DEF Range
<1>5. Range(t) \subseteq Range(s \o t)
  <2>1. ASSUME NEW i \in 1 .. Len(t) PROVE t[i] \in Range(s \o t)
    <3>1. /\ i + Len(s) \in Len(s) + 1 .. Len(s) + Len(t)
          /\ i + Len(s) \in 1 .. Len(s) + Len(t)
          /\ (i + Len(s)) - Len(s) = i
      BY <1>1
    <3>2. (s \o t)[i + Len(s)] = t[i]
      BY <1>2, <3>1
    <3>. QED  BY <1>1, <3>1, <3>2 DEF Range
  <2>. QED  BY <1>1, <2>1 DEF Range
<1>. QED  BY <1>1, <1>2, <1>3, <1>4, <1>5

\* Nothing is gained by joining the empty sequence.
LEMMA EmptyJoined ==
  ASSUME NEW S, NEW t \in Seq(S)
  PROVE  <<>> \o t = t
<1>1. <<>> \in Seq(S) /\ Len(<<>>) = 0
  OBVIOUS
<1>2. DOMAIN (<<>> \o t) = DOMAIN t
  BY <1>1
<1>3. ASSUME NEW i \in DOMAIN t PROVE (<<>> \o t)[i] = t[i]
  BY <1>1
<1>4. <<>> \o t \in Seq(S)
  BY <1>1
<1>. QED  BY <1>2, <1>3, <1>4

\* A sequence of sequences is flattened by joining them one by one.
LEMMA FlattenRounds ==
  ASSUME NEW S, NEW n \in Nat, NEW seqs \in [1 .. n -> Seq(S)]
  PROVE  \E flat \in [0 .. n -> Seq(S)] :
           /\ flat[0] = <<>>
           /\ \A i \in 1 .. n : flat[i] = flat[i - 1] \o seqs[i]
           /\ FlattenSeq(seqs) = flat[n]
<1>. DEFINE F == [x \in (1 .. n) \X Seq(S) |-> x[2] \o seqs[x[1]]]
            R(g) == [i \in 1 .. n |-> IF i = 1 THEN seqs[i] ELSE g[i - 1] \o seqs[i]]
<1>1. \E f : IsRun(Seq(S), <<>>, n, F, f)
  <2>1. F \in RoundRules(Seq(S), n)
    BY DEF RoundRules
  <2>2. <<>> \in Seq(S)
    OBVIOUS
  <2>. HIDE DEF F
  <2>. QED  BY <2>1, <2>2, Rounds
<1>2. PICK f \in [0 .. n -> Seq(S)] :
        /\ f[0] = <<>>
        /\ \A i \in 1 .. n : f[i] = F[<<i, f[i - 1]>>]
  BY <1>1 DEF IsRun
<1>3. ASSUME NEW i \in 1 .. n PROVE f[i] = f[i - 1] \o seqs[i]
  <2>1. f[i - 1] \in Seq(S)
    BY <1>2
  <2>. QED  BY <1>2, <2>1
<1>4. CASE n = 0
  <2>1. Len(seqs) = 0 /\ seqs = <<>>
    BY <1>4
  <2>2. FlattenSeq(seqs) = f[n]
    BY <1>2, <1>4, <2>1 DEF FlattenSeq
  <2>. QED  BY <1>2, <1>3, <2>2
<1>5. CASE n # 0
  <2>. DEFINE g == [i \in 1 .. n |-> f[i]]
  <2>0. f[1] = seqs[1]
    <3>1. 1 \in 1 .. n /\ 1 - 1 = 0 /\ 0 \in 0 .. n
      BY <1>5
    <3>2. f[1] = f[0] \o seqs[1]
      BY <1>3, <3>1
    <3>3. seqs[1] \in Seq(S)
      BY <3>1
    <3>. QED  BY <1>2, <3>2, <3>3, EmptyJoined
  <2>1. g = R(g)
    <3>1. ASSUME NEW i \in 1 .. n PROVE g[i] = R(g)[i]
      <4>1. CASE i = 1
        BY <2>0, <4>1
      <4>2. CASE i # 1
        <5>1. i - 1 \in 1 .. n
          BY <4>2
        <5>. QED  BY <1>3, <4>2, <5>1
      <4>. QED  BY <4>1, <4>2
    <3>. QED  BY <3>1
  <2>2. PICK p : p = CHOOSE h : h = R(h)
    OBVIOUS
  <2>3. p = R(p)
    <3>. HIDE DEF R, g
    <3>. QED  BY <2>1, <2>2, Zenon
  <2>4. Len(seqs) = n
    OBVIOUS
  <2>5. FlattenSeq(seqs) = p[n]
    <3>1. FlattenSeq(seqs) = p[Len(seqs)]
      BY <1>5, <2>2, <2>4, Zenon DEF FlattenSeq
    <3>. QED  BY <2>4, <3>1
  <2>. DEFINE T == {i \in 0 .. n : i = 0 \/ p[i] = f[i]}
  <2>6. ASSUME NEW i \in 1 .. n, i - 1 \in T PROVE i \in T
    <3>1. p[i] = R(p)[i]
      BY <2>3
    <3>2. CASE i = 1
      <4>1. p[i] = seqs[i]
        BY <3>1, <3>2
      <4>. QED  BY <2>0, <3>2, <4>1
    <3>3. CASE i # 1
      <4>1. p[i - 1] = f[i - 1]
        BY <2>6, <3>3
      <4>2. p[i] = p[i - 1] \o seqs[i]
        BY <3>1, <3>3
      <4>3. f[i] = p[i]
        BY <1>3, <4>1, <4>2
      <4>. QED  BY <4>3
    <3>. QED  BY <3>2, <3>3
  <2>7. n \in T
    <3>1. 0 \in T
      OBVIOUS
    <3>. HIDE DEF T
    <3>2. 0 .. n \subseteq T
      BY <2>6, <3>1, CountedUp
    <3>. QED  BY <3>2
  <2>. QED  BY <1>2, <1>3, <1>5, <2>5, <2>7
<1>. QED  BY <1>4, <1>5

\* When every element of the n-th sequence is labelled n, and none is in it
\* twice, the flattened sequence has the elements of all of them, none twice,
\* in the order of their labels.
LEMMA FlattenedInOrder ==
  ASSUME NEW S, NEW n \in Nat, NEW seqs \in [1 .. n -> Seq(S)], NEW label \in [S -> Int],
         \A i \in 1 .. n : IsInjective(seqs[i]) /\ \A x \in Range(seqs[i]) : label[x] = i
  PROVE  /\ FlattenSeq(seqs) \in Seq(S)
         /\ IsInjective(FlattenSeq(seqs))
         /\ \A i, j \in DOMAIN FlattenSeq(seqs) :
              i <= j => label[FlattenSeq(seqs)[i]] <= label[FlattenSeq(seqs)[j]]
         /\ Range(FlattenSeq(seqs)) = UNION {Range(seqs[i]) : i \in 1 .. n}
<1>1. PICK flat \in [0 .. n -> Seq(S)] :
        /\ flat[0] = <<>>
        /\ \A i \in 1 .. n : flat[i] = flat[i - 1] \o seqs[i]
        /\ FlattenSeq(seqs) = flat[n]
  BY FlattenRounds
<1>. DEFINE Good(m, s) ==
              /\ IsInjective(s)
              /\ \A x \in Range(s) : label[x] <= m
              /\ \A i, j \in DOMAIN s : i <= j => label[s[i]] <= label[s[j]]
              /\ Range(s) = UNION {Range(seqs[i]) : i \in 1 .. m}
            T == {m \in 0 .. n : Good(m, flat[m])}
<1>2. 0 \in T
  <2>1. DOMAIN flat[0] = {} /\ Range(flat[0]) = {}
    BY <1>1 DEF Range
  <2>2. Good(0, flat[0])
    BY <2>1 DEF IsInjective
  <2>. QED  BY <2>2
<1>3. ASSUME NEW m \in 1 .. n, m - 1 \in T PROVE m \in T
  <2>0. flat[m - 1] \in Seq(S)
    BY <1>1
  <2>1. PICK s \in Seq(S) : s = flat[m - 1]
    BY <2>0
  <2>2. PICK t \in Seq(S) : t = seqs[m]
    OBVIOUS
  <2>3. flat[m] = s \o t
    BY <1>1, <2>1, <2>2
  <2>4. Good(m - 1, s)
    BY <1>3, <2>1
  <2>5. IsInjective(t) /\ \A x \in Range(t) : label[x] = m
    BY <2>2
  <2>6. /\ DOMAIN (s \o t) = 1 .. Len(s) + Len(t)
        /\ \A i \in 1 .. Len(s) : (s \o t)[i] = s[i]
        /\ \A i \in Len(s) + 1 .. Len(s) + Len(t) :
             i - Len(s) \in DOMAIN t /\ (s \o t)[i] = t[i - Len(s)]
        /\ Range(s \o t) = Range(s) \cup Range(t)
    BY Joined
  <2>7. Len(s) \in Nat /\ DOMAIN s = 1 .. Len(s) /\ Len(t) \in Nat /\ DOMAIN t = 1 .. Len(t)
    OBVIOUS
  <2>8. ASSUME NEW i \in DOMAIN (s \o t)
        PROVE  \/ i \in DOMAIN s /\ (s \o t)[i] = s[i] /\ label[s[i]] <= m - 1
               \/ ~(i <= Len(s)) /\ i - Len(s) \in DOMAIN t /\ (s \o t)[i] = t[i - Len(s)] /\ label[t[i - Len(s)]] = m
    <3>1. CASE i <= Len(s)
      <4>1. i \in DOMAIN s
        BY <2>6, <2>7, <2>8, <3>1
      <4>. QED  BY <2>4, <2>6, <2>7, <4>1 DEF Range
    <3>2. CASE ~(i <= Len(s))
      <4>1. i \in Len(s) + 1 .. Len(s) + Len(t)
        BY <2>6, <2>7, <2>8, <3>2
      <4>. QED  BY <2>5, <2>6, <2>7, <3>2, <4>1 DEF Range
    <3>. QED  BY <3>1, <3>2
  <2>9. /\ \A x \in S : label[x] \in Int
        /\ \A i \in DOMAIN s : s[i] \in S
        /\ \A i \in DOMAIN t : t[i] \in S
    OBVIOUS
  <2>10. ASSUME NEW i \in DOMAIN (s \o t), NEW j \in DOMAIN (s \o t), (s \o t)[i] = (s \o t)[j]
         PROVE  i = j
    <3>1. /\ i \in DOMAIN s /\ j \in DOMAIN s => i = j
          /\ i - Len(s) \in DOMAIN t /\ j - Len(s) \in DOMAIN t /\ (s \o t)[i] = t[i - Len(s)] /\ (s \o t)[j] = t[j - Len(s)]
               => i = j
      <4>1. i \in DOMAIN s /\ j \in DOMAIN s => i = j
        BY <2>4, <2>6, <2>7, <2>10 DEF IsInjective
      <4>2. ASSUME i - Len(s) \in DOMAIN t, j - Len(s) \in DOMAIN t,
                   (s \o t)[i] = t[i - Len(s)], (s \o t)[j] = t[j - Len(s)]
            PROVE  i = j
        <5>1. i - Len(s) = j - Len(s)
          BY <2>5, <2>10, <4>2 DEF IsInjective
        <5>. QED  BY <2>6, <2>7, <5>1
      <4>. QED  BY <4>1, <4>2
    <3>2. ~(m <= m - 1)
      OBVIOUS
    <3>. QED  BY <2>8, <2>10, <3>1, <3>2
  <2>11. ASSUME NEW i \in DOMAIN (s \o t), NEW j \in DOMAIN (s \o t), i <= j
         PROVE  label[(s \o t)[i]] <= label[(s \o t)[j]]
    <3>1. CASE j \in DOMAIN s /\ (s \o t)[j] = s[j]
      <4>1. i \in DOMAIN s /\ (s \o t)[i] = s[i]
        BY <2>6, <2>7, <2>11, <3>1
      <4>. QED  BY <2>4, <2>11, <3>1, <4>1
    <3>2. CASE label[(s \o t)[j]] = m
      <4>1. label[(s \o t)[i]] = m \/ (i \in DOMAIN s /\ (s \o t)[i] = s[i] /\ label[s[i]] <= m - 1)
        BY <2>8
      <4>2. CASE label[(s \o t)[i]] = m
        BY <3>2, <4>2
      <4>3. CASE i \in DOMAIN s /\ (s \o t)[i] = s[i] /\ label[s[i]] <= m - 1
        <5>1. label[s[i]] \in Int /\ label[s[i]] <= m
          BY <2>9, <4>3
        <5>. QED  BY <3>2, <4>3, <5>1
      <4>. QED  BY <4>1, <4>2, <4>3
    <3>. QED  BY <2>8, <3>1, <3>2
  <2>12. ASSUME NEW x \in Range(s \o t) PROVE label[x] <= m
    <3>1. PICK i \in DOMAIN (s \o t) : x = (s \o t)[i]
      BY DEF Range
    <3>2. x \in S /\ label[x] \in Int
      BY <2>8, <2>9, <3>1
    <3>3. label[x] <= m - 1 \/ label[x] = m
      BY <2>8, <3>1
    <3>. QED  BY <3>2, <3>3
  <2>13. Range(s \o t) = UNION {Range(seqs[i]) : i \in 1 .. m}
    <3>1. 1 .. m = (1 .. m - 1) \cup {m}
      OBVIOUS
    <3>2. Range(s) = UNION {Range(seqs[i]) : i \in 1 .. m - 1}
      BY <2>4
    <3>. QED  BY <2>2, <2>6, <3>1, <3>2
  <2>14. IsInjective(s \o t)
    BY <2>10 DEF IsInjective
  <2>15. Good(m, s \o t)
    BY <2>11, <2>12, <2>13, <2>14
  <2>16. Good(m, flat[m])
    <3>. HIDE DEF Good
    <3>. QED  BY <2>3, <2>15
  <2>. QED  BY <2>16
<1>4. n \in T
  <2>. HIDE DEF T
  <2>1. 0 .. n \subseteq T
    BY <1>2, <1>3, CountedUp
  <2>. QED  BY <2>1
<1>. QED  BY <1>1, <1>4

\* A finite set made a sequence has its elements, none twice.
LEMMA SetAsSequence ==
  ASSUME NEW S, IsFiniteSet(S)
  PROVE  SetToSeq(S) \in Seq(S) /\ IsInjective(SetToSeq(S)) /\ Range(SetToSeq(S)) = S
<1>. DEFINE n == Cardinality(S)
<1>1. n \in Nat /\ ExistsBijection(1 .. n, S)
  BY FS_CardinalityType
<1>2. PICK b : b \in Bijection(1 .. n, S)
  BY <1>1 DEF ExistsBijection
<1>3. b \in [1 .. n -> S] /\ IsInjective(b)
  BY <1>2 DEF Bijection, Injection, IsInjective
<1>4. PICK f : f = SetToSeq(S)
  OBVIOUS
<1>5. f \in [1 .. n -> S] /\ IsInjective(f)
  BY <1>3, <1>4 DEF SetToSeq
<1>6. f \in Injection(1 .. n, S)
  BY <1>5 DEF Injection, IsInjective
<1>7. IsFiniteSet(1 .. n) /\ Cardinality(1 .. n) = n
  <2>1. n = 0 \/ n >= 1
    BY <1>1
  <2>2. 1 \in Int /\ n \in Int
    BY <1>1
  <2>. HIDE DEF n
  <2>3. Cardinality(1 .. n) = IF 1 > n THEN 0 ELSE n - 1 + 1
    BY <2>2, FS_Interval
  <2>4. IsFiniteSet(1 .. n)
    BY <2>2, FS_Interval
  <2>. QED  BY <2>1, <2>2, <2>3, <2>4
<1>8. f \in Surjection(1 .. n, S)
  BY <1>6, <1>7, FS_Injection
<1>9. Range(f) = S
  BY <1>5, <1>8 DEF Surjection, Range
<1>10. f \in Seq(S)
  BY <1>1, <1>5
<1>. QED  BY <1>4, <1>5, <1>9, <1>10

-----------------------------------------------------------------------------
(* Recursion, loops that run backwards, and parts of sequences.            *)

\* The rule G of a recursive definition on D: what it gives at a place depends only
\* on what there is at places of a smaller size.
IsRule(D, S, n, size, G) ==
  /\ size \in [D -> 0 .. n] /\ G \in [[D -> S] -> [D -> S]]
  /\ \A g, h \in [D -> S] : \A d \in D :
       (\A e \in D : size[e] < size[d] => g[e] = h[e]) => G[g][d] = G[h][d]

\* A function may be defined by recursion if what it is at a place depends only on
\* what it is at places of a smaller size.
LEMMA Recursion ==
  ASSUME NEW D, NEW S, NEW c \in S, NEW n \in Nat, NEW size, NEW G, IsRule(D, S, n, size, G)
  PROVE  \E h \in [D -> S] : h = G[h]
<1>. USE DEF IsRule
<1>. DEFINE Below(m, h) == \A d \in D : size[d] < m => h[d] = G[h][d]
            T == {m \in 0 .. n + 1 : \E h \in [D -> S] : Below(m, h)}
<1>1. 0 \in T
  <2>1. [d \in D |-> c] \in [D -> S]
    OBVIOUS
  <2>2. \A h : Below(0, h)
    OBVIOUS
  <2>. HIDE DEF Below
  <2>3. \E h \in [D -> S] : Below(0, h)
    BY <2>1, <2>2
  <2>. QED  BY <2>3
<1>2. ASSUME NEW m \in 1 .. n + 1, m - 1 \in T PROVE m \in T
  <2>1. PICK h \in [D -> S] : Below(m - 1, h)
    BY <1>2
  <2>2. PICK g : g = G[h]
    OBVIOUS
  <2>3. g \in [D -> S]
    BY <2>2
  <2>4. ASSUME NEW d \in D, size[d] < m PROVE g[d] = G[g][d]
    <3>1. \A e \in D : size[e] < size[d] => g[e] = h[e]
      BY <2>1, <2>2, <2>4
    <3>2. G[g][d] = G[h][d]
      BY <2>3, <3>1
    <3>. QED  BY <2>2, <3>2
  <2>5. \E f \in [D -> S] : Below(m, f)
    BY <2>3, <2>4
  <2>. QED  BY <2>5
<1>. HIDE DEF T
<1>3. 0 .. n + 1 \subseteq T
  BY <1>1, <1>2, CountedUp
<1>4. n + 1 \in T
  BY <1>3
<1>5. PICK h \in [D -> S] : Below(n + 1, h)
  BY <1>4 DEF T
<1>6. \A d \in D : h[d] = G[h][d]
  BY <1>5
<1>7. h = G[h]
  BY <1>6
<1>. QED  BY <1>7

\* What a loop does that goes on from place p to place to[p], F of the result from
\* there being the result from p.
LeadsOn(S, n, to, F) ==
  /\ to \in [Nat -> Nat] /\ \A p \in Nat : p < n => p < to[p]
  /\ F \in [Nat \X S -> S]
  /\ \A p \in Nat : \A r, s \in S : p >= n => F[<<p, r>>] = F[<<p, s>>]

\* A loop that goes through places from a first one on, each time to a later
\* one, and ends behind the n-th, has a result from every place.
LEMMA Onward ==
  ASSUME NEW S, NEW c \in S, NEW n \in Nat, NEW to, NEW F, LeadsOn(S, n, to, F)
  PROVE  \E h \in [Nat -> S] : \A p \in Nat : h[p] = F[<<p, h[to[p]]>>]
<1>. USE DEF LeadsOn
<1>. DEFINE size == [p \in Nat |-> IF p < n THEN n - p ELSE 0]
            Step(h) == [p \in Nat |-> F[<<p, h[to[p]]>>]]
            G == [h \in [Nat -> S] |-> Step(h)]
<1>1. size \in [Nat -> 0 .. n]
  OBVIOUS
<1>2. ASSUME NEW h \in [Nat -> S] PROVE Step(h) \in [Nat -> S]
  <2>1. \A p \in Nat : <<p, h[to[p]]>> \in Nat \X S
    OBVIOUS
  <2>. QED  BY <2>1
<1>3. G \in [[Nat -> S] -> [Nat -> S]]
  <2>. HIDE DEF Step
  <2>. QED  BY <1>2
<1>4. ASSUME NEW g \in [Nat -> S], NEW h \in [Nat -> S], NEW p \in Nat,
             \A e \in Nat : size[e] < size[p] => g[e] = h[e]
      PROVE  G[g][p] = G[h][p]
  <2>1. G[g][p] = F[<<p, g[to[p]]>>] /\ G[h][p] = F[<<p, h[to[p]]>>]
    OBVIOUS
  <2>2. CASE p < n
    <3>1. to[p] \in Nat /\ p < to[p]
      BY <2>2
    <3>2. size[to[p]] < size[p]
      BY <2>2, <3>1
    <3>3. g[to[p]] = h[to[p]]
      BY <1>4, <3>1, <3>2
    <3>. QED  BY <2>1, <3>3
  <2>3. CASE p >= n
    <3>1. g[to[p]] \in S /\ h[to[p]] \in S
      OBVIOUS
    <3>2. F[<<p, g[to[p]]>>] = F[<<p, h[to[p]]>>]
      BY <2>3, <3>1
    <3>. QED  BY <2>1, <3>2
  <2>. QED  BY <2>2, <2>3
<1>5. IsRule(Nat, S, n, size, G)
  <2>. HIDE DEF size, G
  <2>. QED  BY <1>1, <1>3, <1>4 DEF IsRule
<1>6. PICK D, z, g : D = Nat /\ z = size /\ g = G
  OBVIOUS
<1>7. \E h \in [D -> S] : h = g[h]
  <2>. HIDE DEF size, G
  <2>1. ASSUME NEW E, NEW y, NEW f, IsRule(E, S, n, y, f)
        PROVE  \E h \in [E -> S] : h = f[h]
    BY <2>1, Recursion
  <2>2. IsRule(D, S, n, z, g)
    BY <1>5, <1>6, Zenon
  <2>3. \E h \in [D -> S] : h = g[h]
    BY <2>1, <2>2
  <2>. QED  BY <2>3, Zenon
<1>8. PICK h \in [D -> S] : h = g[h]
  BY <1>7
<1>9. h \in [Nat -> S] /\ h = G[h]
  <2>. HIDE DEF G
  <2>. QED  BY <1>6, <1>8
<1>10. \A p \in Nat : G[h][p] = F[<<p, h[to[p]]>>]
  BY <1>9
<1>. QED  BY <1>9, <1>10

\* What holds at a place whenever it holds at all places of a smaller size holds
\* at every place.
LEMMA BySize ==
  ASSUME NEW D, NEW n \in Nat, NEW size \in [D -> 0 .. n], NEW T,
         \A d \in D : (\A e \in D : size[e] < size[d] => e \in T) => d \in T
  PROVE  \A d \in D : d \in T
<1>. DEFINE Sizes == {size[d] : d \in {e \in D : e \notin T}}
<1>1. SUFFICES ASSUME Sizes # {} PROVE FALSE
  OBVIOUS
<1>2. \E x \in Sizes : \A y \in Sizes : x <= y
  <2>1. Sizes \subseteq Nat
    OBVIOUS
  <2>. HIDE DEF Sizes
  <2>. QED  BY <1>1, <2>1, LeastNumber
<1>3. PICK d \in D : d \notin T /\ \A e \in D : e \notin T => size[d] <= size[e]
  BY <1>2
<1>4. \A e \in D : size[e] < size[d] => e \in T
  <2>1. \A e \in D : size[e] \in Nat /\ size[d] \in Nat
    OBVIOUS
  <2>. QED  BY <1>3, <2>1
<1>. QED  BY <1>3, <1>4

\* The elements of a sequence made of two, counted in each.
LEMMA JoinedAt ==
  ASSUME NEW S, NEW a \in Seq(S), NEW b \in Seq(S)
  PROVE  /\ a \o b \in Seq(S) /\ Len(a \o b) = Len(a) + Len(b)
         /\ Len(a) \in Nat /\ Len(b) \in Nat
         /\ \A i \in 1 .. Len(a) : (a \o b)[i] = a[i]
         /\ \A i \in 1 .. Len(b) : (a \o b)[Len(a) + i] = b[i]
<1>1. /\ a \o b \in Seq(S) /\ Len(a \o b) = Len(a) + Len(b)
      /\ Len(a) \in Nat /\ Len(b) \in Nat
      /\ \A i \in 1 .. Len(a) + Len(b) : (a \o b)[i] = IF i <= Len(a) THEN a[i] ELSE b[i - Len(a)]
  BY ConcatProperties, LenProperties
<1>2. \A i \in 1 .. Len(a) : (a \o b)[i] = a[i]
  BY <1>1
<1>3. ASSUME NEW i \in 1 .. Len(b) PROVE (a \o b)[Len(a) + i] = b[i]
  <2>1. Len(a) + i \in 1 .. Len(a) + Len(b) /\ ~(Len(a) + i <= Len(a)) /\ (Len(a) + i) - Len(a) = i
    BY <1>1
  <2>. QED  BY <1>1, <2>1
<1>. QED  BY <1>1, <1>2, <1>3

\* A part of a sequence is what has its elements.
LEMMA PartEqual ==
  ASSUME NEW S, NEW t \in Seq(S), NEW s \in Seq(S), NEW k \in Nat, k + Len(s) <= Len(t),
         \A i \in 1 .. Len(s) : t[k + i] = s[i]
  PROVE  SubSeq(t, k + 1, k + Len(s)) = s
<1>1. \A i \in k + 1 .. k + Len(s) : t[i] \in S
  OBVIOUS
<1>2. k + 1 \in Int /\ k + Len(s) \in Int
  OBVIOUS
<1>3. PICK u : u = SubSeq(t, k + 1, k + Len(s))
  OBVIOUS
<1>4. /\ u \in Seq(S) /\ Len(u) = IF k + 1 <= k + Len(s) THEN k + Len(s) - (k + 1) + 1 ELSE 0
      /\ \A i \in 1 .. k + Len(s) - (k + 1) + 1 : u[i] = t[k + 1 + i - 1]
  BY <1>1, <1>2, <1>3, SubSeqProperties
<1>5. Len(u) = Len(s)
  BY <1>4
<1>6. \A i \in 1 .. Len(u) : u[i] = s[i]
  <2>1. ASSUME NEW i \in 1 .. Len(s) PROVE u[i] = s[i]
    <3>1. i \in 1 .. k + Len(s) - (k + 1) + 1 /\ k + 1 + i - 1 = k + i
      OBVIOUS
    <3>. QED  BY <1>4, <2>1, <3>1
  <2>. QED  BY <1>5, <2>1
<1>. QED  BY <1>3, <1>4, <1>5, <1>6, SeqEqual

\* Where the elements of what is between two sequences are.
LiesBetween(S, pre, b, s, t) ==
  /\ t \in Seq(S) /\ Len(t) = Len(pre) + Len(b) + Len(s)
  /\ Len(pre) \in Nat /\ Len(b) \in Nat /\ Len(s) \in Nat
  /\ \A i \in 1 .. Len(pre) : t[i] = pre[i]
  /\ \A i \in 1 .. Len(b) : t[Len(pre) + i] = b[i]
  /\ pre \o b \in Seq(S) /\ Len(pre \o b) = Len(pre) + Len(b)
  /\ \A i \in 1 .. Len(b) : (pre \o b)[Len(pre) + i] = b[i]
  /\ t = (pre \o b) \o s

\* What is between two sequences keeps its elements.
LEMMA Between ==
  ASSUME NEW S, NEW pre \in Seq(S), NEW b \in Seq(S), NEW s \in Seq(S),
         NEW t, t = pre \o (b \o s)
  PROVE  LiesBetween(S, pre, b, s, t)
<1>1. PICK u \in Seq(S) : u = b \o s
  BY ConcatProperties
<1>2. /\ Len(u) = Len(b) + Len(s) /\ \A i \in 1 .. Len(b) : u[i] = b[i]
      /\ Len(b) \in Nat /\ Len(s) \in Nat
  BY <1>1, JoinedAt
<1>3. /\ t \in Seq(S) /\ Len(t) = Len(pre) + Len(u) /\ Len(pre) \in Nat
      /\ \A i \in 1 .. Len(pre) : t[i] = pre[i]
      /\ \A i \in 1 .. Len(u) : t[Len(pre) + i] = u[i]
  BY <1>1, JoinedAt
<1>4. \A i \in 1 .. Len(b) : t[Len(pre) + i] = b[i]
  <2>1. \A i \in 1 .. Len(b) : i \in 1 .. Len(u)
    BY <1>2
  <2>. QED  BY <1>2, <1>3, <2>1
<1>5. /\ pre \o b \in Seq(S) /\ Len(pre \o b) = Len(pre) + Len(b)
      /\ \A i \in 1 .. Len(b) : (pre \o b)[Len(pre) + i] = b[i]
  BY JoinedAt
<1>6. t = (pre \o b) \o s
  BY ConcatAssociative
<1>. QED  BY <1>2, <1>3, <1>4, <1>5, <1>6 DEF LiesBetween

\* A part of a sequence, and two parts that follow each other.
IsPart(S, t, p, e, u) ==
  u \in Seq(S) /\ Len(u) = e - p /\ \A i \in 1 .. e - p : u[i] = t[p + i]

\* A part of a sequence has its elements.
LEMMA PartIs ==
  ASSUME NEW S, NEW t \in Seq(S), NEW p \in Nat, NEW e \in Nat, p <= e, e <= Len(t)
  PROVE  IsPart(S, t, p, e, SubSeq(t, p + 1, e))
<1>1. \A i \in p + 1 .. e : t[i] \in S
  OBVIOUS
<1>2. p + 1 \in Int /\ e \in Int
  OBVIOUS
<1>3. PICK u : u = SubSeq(t, p + 1, e)
  OBVIOUS
<1>4. /\ u \in Seq(S) /\ Len(u) = (IF p + 1 <= e THEN e - (p + 1) + 1 ELSE 0)
      /\ \A i \in 1 .. e - (p + 1) + 1 : u[i] = t[p + 1 + i - 1]
  BY <1>1, <1>2, <1>3, SubSeqProperties
<1>5. Len(u) = e - p
  BY <1>4
<1>6. ASSUME NEW i \in 1 .. e - p PROVE u[i] = t[p + i]
  <2>1. i \in 1 .. e - (p + 1) + 1 /\ p + 1 + i - 1 = p + i
    OBVIOUS
  <2>. QED  BY <1>4, <2>1
<1>. QED  BY <1>3, <1>4, <1>5, <1>6 DEF IsPart

\* Two parts that follow each other are one.
LEMMA PartsJoined ==
  ASSUME NEW S, NEW t \in Seq(S), NEW p \in Nat, NEW q \in Nat, NEW e \in Nat, p <= q, q <= e, e <= Len(t)
  PROVE  SubSeq(t, p + 1, q) \o SubSeq(t, q + 1, e) = SubSeq(t, p + 1, e)
<1>1. PICK n \in Nat : n = Len(t)
  OBVIOUS
<1>2. PICK a \in Seq(S) : a = SubSeq(t, p + 1, q) /\ Len(a) = q - p /\ \A i \in 1 .. q - p : a[i] = t[p + i]
  <2>1. q <= Len(t)
    BY <1>1
  <2>2. IsPart(S, t, p, q, SubSeq(t, p + 1, q))
    BY <2>1, PartIs, Zenon
  <2>. QED  BY <2>2, Zenon DEF IsPart
<1>3. PICK b \in Seq(S) : b = SubSeq(t, q + 1, e) /\ Len(b) = e - q /\ \A i \in 1 .. e - q : b[i] = t[q + i]
  <2>1. IsPart(S, t, q, e, SubSeq(t, q + 1, e))
    BY PartIs, Zenon
  <2>. QED  BY <2>1, Zenon DEF IsPart
<1>4. PICK s \in Seq(S) : s = a \o b
  BY ConcatProperties
<1>5. /\ Len(s) = Len(a) + Len(b) /\ \A i \in 1 .. Len(a) : s[i] = a[i]
      /\ \A i \in 1 .. Len(b) : s[Len(a) + i] = b[i]
  BY <1>4, JoinedAt
<1>6. /\ Len(s) = e - p /\ \A i \in 1 .. q - p : s[i] = a[i]
      /\ \A i \in 1 .. e - q : s[(q - p) + i] = b[i]
  BY <1>2, <1>3, <1>5
<1>7. ASSUME NEW i \in 1 .. e - p PROVE t[p + i] = s[i]
  <2>1. CASE i <= q - p
    BY <1>2, <1>6, <2>1
  <2>2. CASE ~(i <= q - p)
    <3>1. PICK j \in 1 .. e - q : i = (q - p) + j /\ q + j = p + i
      <4>1. i - (q - p) \in 1 .. e - q /\ i = (q - p) + (i - (q - p)) /\ q + (i - (q - p)) = p + i
        BY <2>2
      <4>. QED  BY <4>1
    <3>. QED  BY <1>3, <1>6, <3>1
  <2>. QED  BY <2>1, <2>2
<1>8. p + Len(s) <= Len(t) /\ p + Len(s) = e
  BY <1>6
<1>9. SubSeq(t, p + 1, p + Len(s)) = s
  <2>1. \A i \in 1 .. Len(s) : t[p + i] = s[i]
    BY <1>6, <1>7
  <2>. QED  BY <1>8, <2>1, PartEqual
<1>. QED  BY <1>2, <1>3, <1>4, <1>8, <1>9

\* A loop that runs backwards has a state before every round.
IsBackwards(S, c, lo, hi, F, f) ==
  /\ f \in [lo .. hi + 1 -> S]
  /\ f[hi + 1] = c
  /\ \A k \in lo .. hi : f[k] = F[<<k, f[k + 1]>>]

\* Such a loop has states.
LEMMA Backwards ==
  ASSUME NEW S, NEW c \in S, NEW lo \in Nat, NEW hi \in Nat, lo <= hi + 1, NEW F \in [(lo .. hi) \X S -> S]
  PROVE  \E f : IsBackwards(S, c, lo, hi, F, f)
<1>1. PICK n \in Nat : n = hi + 1 - lo
  OBVIOUS
<1>. DEFINE G == [x \in (1 .. n) \X S |-> F[<<hi + 1 - x[1], x[2]>>]]
<1>2. G \in RoundRules(S, n)
  <2>1. ASSUME NEW i \in 1 .. n, NEW s \in S PROVE F[<<hi + 1 - i, s>>] \in S
    <3>1. <<hi + 1 - i, s>> \in (lo .. hi) \X S
      BY <1>1
    <3>. QED  BY <3>1
  <2>. QED  BY <2>1 DEF RoundRules
<1>3. PICK g : IsRun(S, c, n, G, g)
  <2>. HIDE DEF G
  <2>. QED  BY <1>2, Rounds
<1>4. g \in [0 .. n -> S] /\ g[0] = c /\ \A i \in 1 .. n : g[i] = F[<<hi + 1 - i, g[i - 1]>>]
  <2>1. ASSUME NEW i \in 1 .. n PROVE g[i] = F[<<hi + 1 - i, g[i - 1]>>]
    <3>1. g \in [0 .. n -> S] /\ g[i] = G[<<i, g[i - 1]>>] /\ i - 1 \in 0 .. n
      <4>. HIDE DEF G
      <4>. QED  BY <1>3 DEF IsRun
    <3>2. <<i, g[i - 1]>> \in (1 .. n) \X S
      BY <3>1
    <3>. QED  BY <3>1, <3>2
  <2>. HIDE DEF G
  <2>. QED  BY <1>3, <2>1 DEF IsRun
<1>. DEFINE f == [k \in lo .. hi + 1 |-> g[hi + 1 - k]]
<1>5. f \in [lo .. hi + 1 -> S] /\ f[hi + 1] = c
  <2>1. \A k \in lo .. hi + 1 : hi + 1 - k \in 0 .. n
    BY <1>1
  <2>2. hi + 1 \in lo .. hi + 1 /\ hi + 1 - (hi + 1) = 0
    OBVIOUS
  <2>3. f[hi + 1] = g[0]
    BY <2>2
  <2>. QED  BY <1>4, <2>1, <2>3
<1>6. ASSUME NEW k \in lo .. hi PROVE f[k] = F[<<k, f[k + 1]>>]
  <2>1. PICK i \in 1 .. n : i = hi + 1 - k /\ hi + 1 - i = k /\ i - 1 = hi + 1 - (k + 1)
    <3>1. hi + 1 - k \in 1 .. n /\ hi + 1 - (hi + 1 - k) = k /\ hi + 1 - k - 1 = hi + 1 - (k + 1)
      BY <1>1
    <3>. QED  BY <3>1
  <2>2. f[k] = g[i] /\ f[k + 1] = g[i - 1]
    <3>1. k \in lo .. hi + 1 /\ k + 1 \in lo .. hi + 1
      OBVIOUS
    <3>. QED  BY <2>1, <3>1
  <2>. HIDE DEF f
  <2>. QED  BY <1>4, <2>1, <2>2
<1>7. IsBackwards(S, c, lo, hi, F, f)
  <2>. HIDE DEF f
  <2>. QED  BY <1>5, <1>6 DEF IsBackwards
<1>. QED  BY <1>7

\* A set that holds hi + 1 and with every number the one before it, down to lo,
\* holds all of them.
LEMMA CountedDown ==
  ASSUME NEW lo \in Nat, NEW hi \in Nat, lo <= hi + 1, NEW T, hi + 1 \in T,
         \A k \in lo .. hi : k + 1 \in T => k \in T
  PROVE  lo .. hi + 1 \subseteq T
<1>1. PICK n \in Nat : n = hi + 1 - lo
  OBVIOUS
<1>. DEFINE U == {i \in 0 .. n : hi + 1 - i \in T}
<1>2. 0 \in U
  BY <1>1
<1>3. \A i \in 1 .. n : i - 1 \in U => i \in U
  <2>1. ASSUME NEW i \in 1 .. n, i - 1 \in U PROVE i \in U
    <3>1. hi + 1 - i \in lo .. hi /\ (hi + 1 - i) + 1 = hi + 1 - (i - 1)
      BY <1>1
    <3>. QED  BY <2>1, <3>1
  <2>. QED  BY <2>1
<1>4. 0 .. n \subseteq U
  <2>. HIDE DEF U
  <2>. QED  BY <1>2, <1>3, CountedUp
<1>5. ASSUME NEW k \in lo .. hi + 1 PROVE k \in T
  <2>1. hi + 1 - k \in 0 .. n /\ hi + 1 - (hi + 1 - k) = k
    BY <1>1
  <2>2. hi + 1 - k \in U
    BY <1>4, <2>1
  <2>. QED  BY <2>1, <2>2
<1>. QED  BY <1>5

\* A sequence of one element.
LEMMA SingleIs ==
  ASSUME NEW S, NEW x \in S
  PROVE  <<x>> \in Seq(S) /\ Len(<<x>>) = 1 /\ <<x>>[1] = x
OBVIOUS

\* A sequence of no elements is the empty one.
LEMMA EmptyIs ==
  ASSUME NEW t, t = [k \in 1 .. 0 |-> t[k]]
  PROVE  t = <<>>
<1>1. \A k \in 1 .. 0 : t[k] \in Nat
  OBVIOUS
<1>2. t \in Seq(Nat) /\ Len(t) = 0
  BY <1>1
<1>. QED  BY <1>2, EmptySeq
=============================================================================
