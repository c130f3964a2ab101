----------------------------- MODULE MCRuliUdp -----------------------------
(* Finite instances of RuliUdp.                                            *)
EXTENDS RuliUdp, TLC

OneFamily == [s \in ServerIndex |-> "inet"]
TwoFamilies == [s \in ServerIndex |-> IF s % 2 = 0 THEN "inet" ELSE "inet6"]

Permuted == Permutations(Queries)
=============================================================================
