------------------------------ MODULE RuliHost ------------------------------
(***************************************************************************)
(* A host query (ruli_host.c): one query of the resolver, asked for AAAA   *)
(* records and then again for A records unless the options exclude a       *)
(* family, whose answers are searched for addresses of the domain along a  *)
(* chain of CNAME records.                                                 *)
(*                                                                         *)
(* One action is one run of on_host_answer() or one API call, to its end.  *)
(* The resolver underneath is the promise of RuliQuery: it answers a       *)
(* pending query once, with anything.  An address is known by the name it  *)
(* belongs to and its type.                                                *)
(***************************************************************************)
EXTENDS Integers, Sequences, SequencesExt

CONSTANTS
  Names,          \* domain names
  Domain,         \* host_domain
  Wanted,         \* types the options allow (SRV_NOINET, SRV_NOINET6)
  MaxCnameDepth,  \* host_max_cname_depth
  MaxRecords      \* bound: records in an answer

AddressTypes == {"A", "AAAA"}

ASSUME ConstantsAssumption ==
  /\ Domain \in Names
  /\ Wanted \subseteq AddressTypes /\ Wanted # {}
  /\ MaxCnameDepth \in Nat
  /\ MaxRecords \in Nat

Address == [owner : Names, type : AddressTypes]
Record == Address \cup [owner : Names, type : {"CNAME"}, target : Names]
Answers == UNION {[1 .. n -> Record] : n \in 0 .. MaxRecords}

VARIABLES
  app,      \* the host query is "free", "held", or "lost": its submit failed
  under,    \* the resolver query: "detached", "listed" (nothing will come),
            \* or "pending"
  qtype,    \* q_type
  rcode,    \* answer_header.rcode
  answer,   \* the answer section kept in answer_buf
  addrs,    \* answer_addr_list
  code,     \* answer_code of the host query
  calls,    \* callbacks since the submit
  asked     \* types asked for since the submit

vars == <<app, under, qtype, rcode, answer, addrs, code, calls, asked>>

Codes == {"OK", "ALARM", "QUERY", "PARSE", "EMPTY", "RCODE", "CNAME", "OTHER"}

TypeOK ==
  /\ app \in {"free", "held", "lost"}
  /\ under \in {"detached", "listed", "pending"}
  /\ qtype \in Wanted
  /\ rcode \in {"VOID", "NOERROR", "ERROR"}
  /\ answer \in Seq(Record)
  /\ addrs \in Seq(Address)
  /\ code \in Codes \cup {"VOID"}
  /\ calls \in Nat
  /\ asked \subseteq Wanted

\* _ruli_reset_qtype()
FirstType == IF "AAAA" \in Wanted THEN "AAAA" ELSE "A"

MutantNeedsUntriedFamily == qtype = "AAAA" /\ "AAAA" \notin Wanted

\* _ruli_need_query_in_a()
NeedsInA == qtype = "AAAA" /\ "A" \in Wanted

Init ==
  /\ app = "free" /\ under = "detached"
  /\ qtype = FirstType /\ rcode = "VOID"
  /\ answer = <<>> /\ addrs = <<>>
  /\ code = "VOID" /\ calls = 0 /\ asked = {}

-----------------------------------------------------------------------------
(* The two ends of a run of on_host_answer().                              *)

\* query_done(): the callback.
QueryDone(c) ==
  /\ under' = "listed"
  /\ code' = c
  /\ calls' = calls + 1
  /\ UNCHANGED <<app, qtype, asked>>

\* query_resubmit(), for A records: the resolver query is deleted, which
\* frees the answer, and submitted again, which may fail.
ResubmitOk ==
  /\ under' = "pending"
  /\ UNCHANGED <<code, calls>>

MutantGivesUpSilently ==
  /\ under' = "listed"
  /\ UNCHANGED <<code, calls>>

ResubmitFails ==
  /\ under' = "listed"
  /\ code' = "QUERY"
  /\ calls' = calls + 1

Resubmit ==
  /\ qtype' = "A"
  /\ answer' = <<>>
  /\ asked' = asked \cup {"A"}
  /\ ResubmitOk \/ ResubmitFails
  /\ UNCHANGED app

\* Unless the A records are still to be asked for, the query is done.
ResubmitElseDone(c, an) ==
  \/ NeedsInA /\ Resubmit
  \/ ~NeedsInA /\ QueryDone(c) /\ answer' = an

-----------------------------------------------------------------------------
(* The search of an answer.                                                *)

\* The addresses of a name, pushed in the order of the answer.
AddressesOf(an, owner) ==
  LET pushed[n \in 0 .. Len(an)] ==
        IF n = 0 THEN <<>>
        ELSE IF an[n].type \in Wanted /\ an[n].owner = owner
          THEN Append(pushed[n - 1], an[n])
        ELSE pushed[n - 1]
  IN  pushed[Len(an)]

MutantLastCname(an, owner) ==
  SelectLastInSeq(an, LAMBDA r : r.type = "CNAME" /\ r.owner = owner)

FirstCname(an, owner) ==
  SelectInSeq(an, LAMBDA r : r.type = "CNAME" /\ r.owner = owner)

\* The loop ends at a name that has addresses or no CNAME.
EndsAt(an, owner) == AddressesOf(an, owner) # <<>> \/ FirstCname(an, owner) = 0

\* The name it looks at after n CNAMEs, or where it ended before.
NameAfter(an) ==
  LET name[n \in 0 .. MaxCnameDepth] ==
        IF n = 0 THEN Domain
        ELSE IF EndsAt(an, name[n - 1]) THEN name[n - 1]
        ELSE an[FirstCname(an, name[n - 1])].target
  IN  name

\* How the search ends, and at which name.
Chase(an) ==
  LET last == NameAfter(an)[MaxCnameDepth]
      end  == IF AddressesOf(an, last) # <<>> THEN "found"
              ELSE IF FirstCname(an, last) = 0 THEN "none"
              ELSE "deep"
  IN  [end |-> end, owner |-> last]

-----------------------------------------------------------------------------
(* Actions                                                                 *)

\* A structure that is submitted has no list of addresses yet.
Submit ==
  /\ app = "free"
  /\ \/ app' = "held" /\ under' = "pending"
     \/ app' = "lost" /\ under' = "listed"   \* freed by the caller, listed
     \/ UNCHANGED <<app, under>>             \* no memory for the list
  /\ qtype' = FirstType
  /\ asked' = {FirstType}
  /\ addrs' = <<>> /\ answer' = <<>>
  /\ code' = "VOID" /\ calls' = 0
  /\ UNCHANGED rcode

Delete ==
  /\ app = "held"
  /\ app' = "free" /\ under' = "detached"
  /\ addrs' = <<>> /\ answer' = <<>>
  /\ UNCHANGED <<qtype, rcode, code, calls, asked>>

\* ruli_host_query_detach(), by a caller that takes the addresses over.
Detach ==
  /\ app = "held" /\ code = "OK"
  /\ addrs' = <<>>
  /\ UNCHANGED <<app, under, qtype, rcode, answer, code, calls, asked>>

\* on_host_answer() when the resolver gave up, with or without a timeout; it
\* may have kept the head of an answer whose body never came.
OnFailure ==
  /\ under = "pending"
  /\ QueryDone("ALARM") \/ QueryDone("QUERY")
  /\ rcode' \in {rcode, "NOERROR", "ERROR"}
  /\ UNCHANGED <<answer, addrs>>

MutantEmptyOnBadRcode ==
  /\ under = "pending"
  /\ rcode' = "ERROR"
  /\ ResubmitElseDone("EMPTY", answer)
  /\ UNCHANGED addrs

OnBadRcode ==
  /\ under = "pending"
  /\ rcode' = "ERROR"
  /\ ResubmitElseDone("RCODE", answer)
  /\ UNCHANGED addrs

\* The message, or the CNAME that is next, cannot be parsed, or there is no
\* memory to parse it.
OnUnparsable ==
  /\ under = "pending"
  /\ rcode' = "NOERROR"
  /\ QueryDone("PARSE") \/ QueryDone("OTHER")
  /\ UNCHANGED <<answer, addrs>>

MutantStartsOver(an, new) ==
  /\ addrs' = new
  /\ ResubmitElseDone("OK", an)

\* Addresses were found; memory may end after some of them.
OnAddresses(an, new) ==
  /\ addrs' = addrs \o new
  /\ ResubmitElseDone("OK", an)

OnNoMemory(an, new) ==
  /\ \E k \in 1 .. Len(new) : addrs' = addrs \o SubSeq(new, 1, k - 1)
  /\ QueryDone("OTHER")
  /\ answer' = an

OnTooDeep(an) ==
  /\ QueryDone("CNAME")
  /\ answer' = an
  /\ UNCHANGED addrs

OnNoAddress(an) ==
  /\ ResubmitElseDone(IF addrs # <<>> THEN "OK" ELSE "EMPTY", an)
  /\ UNCHANGED addrs

OnRecords ==
  /\ under = "pending"
  /\ rcode' = "NOERROR"
  /\ \E an \in Answers :
       LET chase == Chase(an)
           new   == AddressesOf(an, chase.owner)
       IN  \/ chase.end = "found" /\ (OnAddresses(an, new) \/ OnNoMemory(an, new))
           \/ chase.end = "deep" /\ OnTooDeep(an)
           \/ chase.end = "none" /\ OnNoAddress(an)

OnHostAnswer == OnFailure \/ OnBadRcode \/ OnUnparsable \/ OnRecords

Next == Submit \/ Delete \/ Detach \/ OnHostAnswer

Spec == Init /\ [][Next]_vars

\* The resolver calls every pending query back (KeepsPromise of RuliUdp).
FairSpec == Spec /\ WF_vars(OnHostAnswer)

-----------------------------------------------------------------------------
(* Properties                                                              *)

\* The host query keeps the promise of a query itself: its callback runs once
\* per submission, unless it is deleted first, although on_host_answer() may
\* run once or twice and ends in eight places.
HostPhase ==
  CASE app # "held" -> "free"
    [] app = "held" /\ code = "VOID" -> "pending"
    [] OTHER -> "answered"

Promise ==
  INSTANCE RuliQuery WITH
    Queries <- {Domain},
    phase <- [q \in {Domain} |-> HostPhase],
    calls <- [q \in {Domain} |-> IF app = "held" THEN calls ELSE 0]

CallsBackOnce == Promise!Init /\ [][Promise!Next]_(Promise!vars)

\* And it does run in the end, even if CNAME records run in a circle.
KeepsPromise == Promise!Spec

\* While a host query is held without a result its resolver query is pending,
\* and only then: no path of on_host_answer() forgets to resubmit or to finish,
\* and none resubmits after it finished.
PendingUntilDone == under = "pending" <=> app = "held" /\ code = "VOID"

\* The result says what the last answer was: callers read the rcode by it and
\* assert it (ruli_srv.c 197-198, 209, 382-383, 393).
CodeMatchesRcode ==
  app = "held" =>
    /\ code \in {"OK", "EMPTY"} => rcode = "NOERROR"
    /\ code = "RCODE" => rcode = "ERROR"

\* A query that ends without an error has asked for every type it may ask
\* for.
AsksEveryType ==
  app = "held" /\ code \in {"OK", "EMPTY", "RCODE"} => asked = Wanted

\* No address is dropped on the way to the callback: what an earlier answer
\* brought is still there, before what the last one brought.
KeepsAddresses ==
  [][under = "pending" /\ app' = "held" => IsPrefix(addrs, addrs')]_vars

\* There is a chain of n CNAMEs in the answer, each the first of its owner,
\* from the domain to a name, and no name before it on the chain has addresses.
Leads(an, n, name) ==
  \E chain \in [0 .. n -> Names] :
    /\ chain[0] = Domain /\ chain[n] = name
    /\ \A i \in 0 .. n - 1 :
         /\ AddressesOf(an, chain[i]) = <<>>
         /\ \E k \in DOMAIN an :
              /\ an[k] = [owner |-> chain[i], type |-> "CNAME", target |-> chain[i + 1]]
              /\ \A j \in 1 .. k - 1 :
                   ~(an[j].type = "CNAME" /\ an[j].owner = chain[i])

HasAddress(an, name) == \E r \in ToSet(an) : r.owner = name /\ r.type \in Wanted
HasCname(an, name) == \E r \in ToSet(an) : r.owner = name /\ r.type = "CNAME"

\* The search ends at the name a chain of at most MaxCnameDepth CNAMEs leads
\* to: with its addresses if it has any, with none if the chain stops there,
\* and with CODE_CNAME only if the chain goes on after MaxCnameDepth, in a
\* circle or not.
ChaseIsRight ==
  LET chase == Chase(answer)
      name  == chase.owner
  IN  CASE chase.end = "found" ->
             /\ \E n \in 0 .. MaxCnameDepth : Leads(answer, n, name)
             /\ HasAddress(answer, name)
        [] chase.end = "none" ->
             /\ \E n \in 0 .. MaxCnameDepth : Leads(answer, n, name)
             /\ ~HasAddress(answer, name) /\ ~HasCname(answer, name)
        [] chase.end = "deep" ->
             /\ Leads(answer, MaxCnameDepth, name)
             /\ ~HasAddress(answer, name) /\ HasCname(answer, name)
=============================================================================
