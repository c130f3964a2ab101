----------------------------- MODULE MCRuliHost -----------------------------
(* Finite instances of RuliHost for TLC. *)
EXTENDS RuliHost

BothFamilies == {"A", "AAAA"}

=============================================================================
