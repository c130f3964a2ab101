------------------------------ MODULE RuliTiAnswer ------------------------------
(***************************************************************************)
(* How the TI API reads the answer to a host query (ti_api.c): the code it  *)
(* reports, and the addresses it takes from the records.                    *)
(*                                                                         *)
(* A record is [type, class, good, text, owner, value]: good says whether   *)
(* its data can be parsed, text whether the name it holds is one that can   *)
(* be decoded and is not empty.  value is the address or the name; without  *)
(* text it is what the buffer then holds, whatever that is.  An owner that  *)
(* cannot be read fails an assertion, and is left out.                      *)
(***************************************************************************)
EXTENDS Integers, Sequences

CONSTANT NoName   \* cname_exists is not set

\* An alias is followed whoever owns it.
MutantOwns(record, domain, wanted) == record.owner \in {domain, wanted} \/ record.type = "CNAME"

\* A record counts if it belongs to the domain, or to the last alias.
Owns(record, domain, wanted) == record.owner \in {domain, wanted}

Read(record) ==
  record.class = "IN" /\ record.type \in {"A", "AAAA", "CNAME"} /\ record.good

Alias(record) == Read(record) /\ record.type = "CNAME"

\* The name wanted once k records of the answer have been looked at.  Decoding
\* writes over the last one, but the first must succeed.
WantedAfter(answer, domain) ==
  LET wanted[k \in 0 .. Len(answer)] ==
        IF k = 0 THEN NoName
        ELSE IF /\ Alias(answer[k]) /\ Owns(answer[k], domain, wanted[k - 1])
                /\ answer[k].text \/ wanted[k - 1] # NoName
          THEN answer[k].value
        ELSE wanted[k - 1]
  IN wanted

TakesFrom(record, domain, wanted) == Read(record) /\ ~Alias(record) /\ Owns(record, domain, wanted)

\* The loop of ti_dns_parse_hostname_answer(): the places of the addresses taken.
Taken(answer, domain) ==
  LET taken[k \in 0 .. Len(answer)] ==
        IF k = 0 THEN <<>>
        ELSE IF TakesFrom(answer[k], domain, WantedAfter(answer, domain)[k - 1])
          THEN Append(taken[k - 1], k)
        ELSE taken[k - 1]
  IN taken[Len(answer)]

\* The code reported, for an answer that could be parsed or not; there is memory
\* for room addresses.
HostCode(answerCode, parsed, answer, domain, room) ==
  CASE answerCode = "TIMEOUT" -> "TI_DNS_TIMEOUT"
    [] answerCode \notin {"TIMEOUT", "OK"} -> "TI_DNS_QUERY_FAILURE"
    [] answerCode = "OK" /\ ~parsed -> "TI_DNS_ANSWER_UNPARSEABLE"
    [] answerCode = "OK" /\ parsed ->
         LET taken == Taken(answer, domain) IN
         IF Len(taken) > room THEN "TI_DNS_ERROR"
         ELSE IF taken = <<>> THEN "TI_DNS_MISSING_ADDRESS" ELSE "TI_DNS_SUCCESS"

-----------------------------------------------------------------------------
(* What the names of an answer lead to.                                    *)

\* The names the domain is an alias of, by the aliases of the answer and by what
\* those that cannot be decoded leave in the buffer.
Aliases(answer, domain) ==
  LET to[n \in 0 .. Len(answer)] ==
        IF n = 0 THEN {domain}
        ELSE to[n - 1] \cup {answer[k].value : k \in {i \in DOMAIN answer :
                 Alias(answer[i]) /\ answer[i].owner \in to[n - 1]}}
  IN to[Len(answer)]

\* The aliases can be decoded and come first, each owned by the name the one
\* before it gave.
InChainOrder(answer, domain) ==
  \A k \in {i \in DOMAIN answer : Read(answer[i])} :
    LET before == {i \in 1 .. k - 1 : Alias(answer[i])}
        name == IF before = {} THEN domain
                ELSE answer[CHOOSE i \in before : \A j \in before : j <= i].value
    IN answer[k].owner = name /\ (Alias(answer[k]) => answer[k].text)
=============================================================================
