-------------------------------- MODULE RuliAddr --------------------------------
(***************************************************************************)
(* The order of the addresses of an entry: the comparison of ruli_addr.c    *)
(* after RFC 3484, with the policy table and the scopes it rests on.        *)
(*                                                                         *)
(* An address is its family and its octets; a destination is an address and *)
(* the source the system would use for it, or NoSource.                     *)
(***************************************************************************)
EXTENDS Integers, Sequences

NoSource == <<>>

V4(octets) == [family |-> 4, octets |-> octets]
V6(octets) == [family |-> 6, octets |-> octets]

Zeros(n) == [i \in 1 .. n |-> 0]

LinkLocal == 2
SiteLocal == 5
Global == 14
UnspecScope == 16

\* ruli_addr_get_scope()
Scope(a) ==
  LET o == a.octets IN
  IF a.family = 4
  THEN IF (o[1] = 169 /\ o[2] = 254) \/ o[1] = 127 THEN LinkLocal
       ELSE IF o[1] = 10 \/ (o[1] = 192 /\ o[2] = 168) \/ (o[1] = 172 /\ o[2] \in 16 .. 31) THEN SiteLocal
       ELSE IF o = Zeros(4) THEN UnspecScope ELSE Global
  ELSE IF o[1] = 255 THEN o[2] % 16
       ELSE IF o[1] = 254 /\ o[2] \div 64 = 2 THEN LinkLocal
       ELSE IF o = Append(Zeros(15), 1) THEN LinkLocal
       ELSE IF o[1] = 254 /\ o[2] \div 64 = 3 THEN SiteLocal
       ELSE IF o = Zeros(16) THEN UnspecScope ELSE Global

\* The IPv6 form under which the table knows an address.
Mapped(a) ==
  IF a.family = 6 THEN a.octets
  ELSE IF a.octets = Zeros(4) THEN Zeros(16)
  ELSE IF a.octets = <<127, 0, 0, 1>> THEN Append(Zeros(15), 1)
  ELSE Zeros(10) \o <<255, 255>> \o a.octets

Policy(prefix, bits, label, precedence) ==
  [prefix |-> prefix, bits |-> bits, label |-> label, precedence |-> precedence]

\* default_label and default_precedence, in which the first match counts.
Policies ==
  << Policy(Append(Zeros(15), 1), 128, 0, 50),
     Policy(<<32, 2>> \o Zeros(14), 16, 2, 30),
     Policy(Zeros(16), 96, 3, 20),
     Policy(Zeros(10) \o <<255, 255>> \o Zeros(4), 96, 4, 10),
     Policy(Zeros(16), 0, 1, 40) >>

\* addr_in_net()
InNet(p, octets) ==
  LET whole == p.bits \div 8
      left == p.bits % 8
      low == 2 ^ (8 - left)
  IN /\ \A i \in 1 .. whole : p.prefix[i] = octets[i]
     /\ left = 0 \/ p.prefix[whole + 1] = (octets[whole + 1] \div low) * low

\* match_prefix()
PolicyOf(a) ==
  LET matching == {i \in DOMAIN Policies : InNet(Policies[i], Mapped(a))}
  IN  Policies[CHOOSE i \in matching : \A j \in matching : i <= j]

\* The bits two octets have in common, from the left.
CommonInOctet(x, y) ==
  CHOOSE k \in 0 .. 8 :
    /\ x \div 2 ^ (8 - k) = y \div 2 ^ (8 - k)
    /\ k = 8 \/ x \div 2 ^ (7 - k) # y \div 2 ^ (7 - k)

\* ruli_addr_get_common_prefix_bitlen()
CommonBits(s, t, size) ==
  LET apart == {i \in 1 .. size : s[i] # t[i]} IN
  IF apart = {} THEN 8 * size
  ELSE LET i == CHOOSE i \in apart : \A j \in apart : i <= j
       IN  8 * (i - 1) + CommonInOctet(s[i], t[i])

-----------------------------------------------------------------------------
(* The comparison: -1 if the first destination is to come first.           *)

HasSource(d) == d.src # NoSource

Sooner(p, q) == IF p /\ ~q THEN -1 ELSE IF q /\ ~p THEN 1 ELSE 0
Lower(m, n) == IF m < n THEN -1 ELSE IF m > n THEN 1 ELSE 0

SameScope(d) == Scope(d.addr) = Scope(d.src)
SameLabel(d) == PolicyOf(d.addr).label = PolicyOf(d.src).label
Shared(d) == CommonBits(d.addr.octets, d.src.octets, Len(d.addr.octets))

\* The longest common prefix is looked at before what the policies say.
MutantRules(d, e) ==
  LET both == HasSource(d) /\ HasSource(e) IN
  << Sooner(HasSource(d), HasSource(e)),
     IF both /\ d.addr.family = e.addr.family THEN Lower(Shared(e), Shared(d)) ELSE 0,
     Lower(PolicyOf(e.addr).precedence, PolicyOf(d.addr).precedence),
     Lower(Scope(d.addr), Scope(e.addr)) >>

\* Rules 1, 2, 5, 6, 8 and 9 of rfc3484_cmp().
Rules(d, e) ==
  LET both == HasSource(d) /\ HasSource(e) IN
  << Sooner(HasSource(d), HasSource(e)),
     IF both THEN Sooner(SameScope(d), SameScope(e)) ELSE 0,
     IF both THEN Sooner(SameLabel(d), SameLabel(e)) ELSE 0,
     Lower(PolicyOf(e.addr).precedence, PolicyOf(d.addr).precedence),
     Lower(Scope(d.addr), Scope(e.addr)),
     IF both /\ d.addr.family = e.addr.family THEN Lower(Shared(e), Shared(d)) ELSE 0 >>

FirstVerdict(verdicts) ==
  LET decided == {i \in DOMAIN verdicts : verdicts[i] # 0} IN
  IF decided = {} THEN 0 ELSE verdicts[CHOOSE i \in decided : \A j \in decided : i <= j]

\* addr_cmp_preference() up to its last step, the comparison of the places the
\* two have in the array; rfc3484 and nosort6 are options.
Cmp(d, e, rfc3484, nosort6) ==
  FirstVerdict((IF rfc3484 THEN Rules(d, e) ELSE <<>>) \o
               (IF nosort6 THEN <<>> ELSE <<Sooner(d.addr.family = 6, e.addr.family = 6)>>))
=============================================================================
