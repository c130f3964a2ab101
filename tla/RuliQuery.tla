------------------------------ MODULE RuliQuery ------------------------------
(***************************************************************************)
(* What the resolver promises the application of each query it accepted    *)
(* (ruli_res.h, ruli_res_query_submit() and ruli_res_query_delete()): the  *)
(* callback runs once, unless the query is deleted first, and never for a  *)
(* query the application does not hold.                                    *)
(***************************************************************************)
EXTENDS Naturals

CONSTANT Queries

VARIABLES
  phase,   \* "free", "pending" (submitted, not called back), "answered"
  calls    \* callbacks since the query was last free

vars == <<phase, calls>>

TypeOK ==
  /\ phase \in [Queries -> {"free", "pending", "answered"}]
  /\ calls \in [Queries -> Nat]

Init ==
  /\ phase = [q \in Queries |-> "free"]
  /\ calls = [q \in Queries |-> 0]

Submit(q) ==
  /\ phase[q] = "free"
  /\ phase' = [phase EXCEPT ![q] = "pending"]
  /\ UNCHANGED calls

Answer(q) ==
  /\ phase[q] = "pending"
  /\ phase' = [phase EXCEPT ![q] = "answered"]
  /\ calls' = [calls EXCEPT ![q] = @ + 1]

Delete(q) ==
  /\ phase[q] # "free"
  /\ phase' = [phase EXCEPT ![q] = "free"]
  /\ calls' = [calls EXCEPT ![q] = 0]

Next == \E q \in Queries : Submit(q) \/ Answer(q) \/ Delete(q)

Spec == Init /\ [][Next]_vars /\ \A q \in Queries : WF_vars(Answer(q))
=============================================================================
