----------------------------- MODULE RuliRotation -----------------------------
(***************************************************************************)
(* The rotation of one query over the name servers (ruli_res.c): from its   *)
(* first server round the list, as many times again as it has retries left. *)
(* A record has the fields first (first_server), curr (curr_server) and     *)
(* retries (remaining_retries) of a query.                                 *)
(***************************************************************************)
EXTENDS Integers

CONSTANT Servers        \* number of name servers in ns_list

ServerIndex == 0 .. Servers - 1

NextOf(r) == (r.curr + 1) % Servers

MaySwitch(r) == NextOf(r) = r.first => r.retries >= 1

At(r, server, retries) == [r EXCEPT !.curr = server, !.retries = retries]

Switched(r) ==
  At(r, NextOf(r),
     IF NextOf(r) = r.first /\ r.retries >= 1 THEN r.retries - 1 ELSE r.retries)

\* How many more times the query may switch; with first, it fixes curr and
\* retries.
SwitchesLeft(r) == r.retries * Servers + Servers - 1 - ((r.curr - r.first) % Servers)

\* The records r can become by switching any number of times.
Later(r) ==
  { l \in {At(r, c, n) : c \in ServerIndex, n \in 0 .. r.retries} :
      SwitchesLeft(l) <= SwitchesLeft(r) }

Exhausted(r) == At(r, r.first, 0)
===============================================================================
