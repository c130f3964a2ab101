----------------------------- MODULE MCRuliTcp -----------------------------
(* Finite instances of RuliTcp.                                            *)
EXTENDS RuliTcp, TLC

Permuted == Permutations(Queries)
=============================================================================
