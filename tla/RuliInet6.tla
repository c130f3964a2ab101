------------------------------- MODULE RuliInet6 -------------------------------
(***************************************************************************)
(* ruli_inet6_aton(): the text of an IPv6 address, read from both ends up   *)
(* to the "::" (ruli_addr.c).                                               *)
(*                                                                         *)
(* A text is a sequence of ":", "g" (a group of hexadecimal digits that     *)
(* fits in 16 bits), "big" (one that does not) and "x" (anything strtol()   *)
(* makes 0 of; signs and blanks, which it skips, are left out).  The value  *)
(* of a group is the place it has in the text, that of a word left out 0.   *)
(***************************************************************************)
EXTENDS Integers, Sequences, FiniteSets

CONSTANT Words   \* RULI_WORD16_LEN

ASSUME WordsAssumption == Words \in Nat \ {0}

Mark == {":", "g", "big", "x"}

TextAt(text, i) == IF i \in DOMAIN text THEN text[i] ELSE "end"
Colons(text, from, to) == {i \in from .. to : i \in DOMAIN text /\ text[i] = ":"}

Failed == [ok |-> FALSE, words |-> <<>>, wildcard |-> 0]
AtEnd == [ok |-> TRUE, words |-> <<>>, wildcard |-> 0]

\* search_forward(): the places of the groups, and of the second colon of "::".
Forward(text) ==
  LET read[i \in 1 .. Len(text) + 2, got \in 0 .. Words] ==
        \* the groups from place i on, of which there were got before
        LET sep == TextAt(text, i) = ":"
            j == IF sep THEN i + 1 ELSE i
            later == Colons(text, j, Len(text))
            next == CHOOSE c \in later : \A d \in later : c <= d
            rest == IF later = {} THEN AtEnd ELSE read[next, got + 1]
        IN IF i > Len(text) THEN AtEnd
           ELSE IF sep /\ TextAt(text, j) = ":" THEN [AtEnd EXCEPT !.wildcard = j]
           ELSE IF (sep /\ got = 0) \/ got >= Words \/ TextAt(text, j) # "g" THEN Failed
           ELSE [rest EXCEPT !.words = <<j>> \o @]
  IN read[1, 0]

\* search_backward(): a group that is too large is refused before the "::" is
\* looked for, one that is none is 0 behind it.
Backward(text) ==
  LET read[past \in 1 .. Len(text) + 1, left \in 0 .. Words] ==
        LET before == Colons(text, 1, past - 1)
            i == CHOOSE c \in before : \A d \in before : d <= c
            w == IF TextAt(text, i + 1) = "g" THEN i + 1 ELSE 0
            rest == read[i, left - 1]
        IN IF past = 1 \/ before = {} \/ left = 0 \/ TextAt(text, i + 1) = "big" THEN Failed
           ELSE IF TextAt(text, i - 1) = ":" THEN [ok |-> TRUE, words |-> <<w>>, wildcard |-> i]
           ELSE IF w = 0 THEN Failed
           ELSE [rest EXCEPT !.words = Append(@, w)]
  IN read[Len(text) + 1, Words]

\* The words read backward are put from the front.
MutantPlaced(fwd, bwd) ==
  [k \in 1 .. Words |->
     IF k <= Len(fwd.words) THEN fwd.words[k]
     ELSE IF k - Len(fwd.words) <= Len(bwd.words) THEN bwd.words[k - Len(fwd.words)] ELSE 0]

\* The words read backward are written over those read forward.
Placed(fwd, bwd) ==
  LET behind == Words - Len(bwd.words) IN
  [k \in 1 .. Words |->
     IF k > behind THEN bwd.words[k - behind]
     ELSE IF k <= Len(fwd.words) THEN fwd.words[k] ELSE 0]

SameGap(fwd, bwd) == fwd.wildcard = 0 \/ fwd.wildcard = bwd.wildcard

\* ruli_inet6_aton(): the words, or <<>>.
Inet6Aton(text) ==
  LET fwd == Forward(text)
      bwd == Backward(text)
  IN IF ~fwd.ok THEN <<>>
     ELSE IF Len(fwd.words) = Words THEN fwd.words
     ELSE IF ~bwd.ok \/ ~SameGap(fwd, bwd) THEN <<>>
     ELSE Placed(fwd, bwd)

\* ruli_inet6_snprint(): every word, with a colon between two.
Inet6Printed == [i \in 1 .. 2 * Words - 1 |-> IF i % 2 = 1 THEN "g" ELSE ":"]

-----------------------------------------------------------------------------
(* The notation itself.                                                    *)

\* Groups with a colon between two.
Groups(text) ==
  \/ text = <<>>
  \/ /\ Len(text) % 2 = 1
     /\ \A i \in DOMAIN text : text[i] = IF i % 2 = 1 THEN "g" ELSE ":"
GroupCount(text) == (Len(text) + 1) \div 2

\* The places p at which "::" stands for at least one word of zeros.
Gaps(text) ==
  {p \in 1 .. Len(text) - 1 :
     /\ text[p] = ":" /\ text[p + 1] = ":"
     /\ Groups(SubSeq(text, 1, p - 1)) /\ Groups(SubSeq(text, p + 2, Len(text)))}

Reads(text, words) ==
  \/ Groups(text) /\ words = [k \in 1 .. Words |-> 2 * k - 1]
  \/ \E p \in Gaps(text) :
       LET before == GroupCount(SubSeq(text, 1, p - 1))
           behind == GroupCount(SubSeq(text, p + 2, Len(text)))
       IN words = [k \in 1 .. Words |->
                     IF k <= before THEN 2 * k - 1
                     ELSE IF k <= Words - behind THEN 0
                     ELSE Len(text) - 2 * (Words - k)]

GroupsIn(text) == Cardinality({i \in DOMAIN text : text[i] = "g"})

Proper(text) ==
  \/ Groups(text) /\ GroupCount(text) = Words
  \/ Gaps(text) # {} /\ GroupsIn(text) < Words
=============================================================================
