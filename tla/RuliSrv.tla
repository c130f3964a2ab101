------------------------------- MODULE RuliSrv -------------------------------
(***************************************************************************)
(* The life of a SRV query (ruli_srv.c) and of its two fallbacks, to the    *)
(* addresses of the domain and, for mail, to MX records (ruli_smtp.c).      *)
(*                                                                         *)
(* One resolver query asks for the SRV records; then host queries, one at a *)
(* time, walk the targets that came without an address.  The fallbacks      *)
(* replace the first part.  The structure of such an auxiliary query is     *)
(* owned by its callback alone: deleting the SRV query does not reach it.   *)
(*                                                                         *)
(* One action is one run of a callback or one API call, to its end.  The    *)
(* queries below keep the promise of RuliQuery.  Steps 1 to 4 of the answer *)
(* are those of RuliSrvOrder: here they fail or end in any list of targets. *)
(***************************************************************************)
EXTENDS Integers, Sequences, FiniteSets, Functions

CONSTANTS
  Targets,     \* names SRV and MX records may point to
  Domain,      \* srv_domain
  MaxEntries,  \* bound: records of an answer
  MaxFound     \* bound: addresses a host query finds

ASSUME ConstantsAssumption ==
  /\ IsFiniteSet(Targets)
  /\ MaxEntries \in Nat
  /\ MaxFound \in Nat \ {0}

\* RULI_RES_OPT_SRV_*, and whether the MX fallback is passed to the submit.
Options == [nowalk : BOOLEAN, nofall : BOOLEAN, uriPort : BOOLEAN, smtp : BOOLEAN]

\* An address on the heap: whose it is, and which entry and answer (0 is the
\* additional section) it was found for.
Address == [owner : Targets \cup {Domain}, at : 1 .. MaxEntries + 1, k : 0 .. MaxFound]

\* An entry made of a MX record has weight -1, one made for the domain itself
\* has no priority either.
Entry ==
  [target : Targets \cup {Domain}, priority : -1 .. 1, weight : {-1, 0}, addrs : SUBSET Address]

VARIABLES
  app,        \* "free" or "held": the SRV query
  opts,       \* srv_options and fallback
  query,      \* query: "none" (not submitted), "pending", or "listed"
  aux,        \* the auxiliary query: "none", "walk", "fall", "mx"
  asked,      \* its domain
  entries,    \* answer_srv_list
  walkIndex,  \* under.walk_index, from 1; 0 for -1
  lastRcode,  \* last_rcode
  code,       \* answer_code
  calls,      \* callbacks since the submit
  heap,       \* addresses that are allocated
  refused,    \* the resolver lists an auxiliary query that was freed
  misused     \* a freed or uninitialised structure was used: all bets are off

vars == <<app, opts, query, aux, asked, entries, walkIndex, lastRcode, code,
          calls, heap, refused, misused>>

WalkCode == {"WALK_QUERY", "WALK_ALARM", "WALK_EMPTY", "WALK_RCODE", "WALK_OTHER"}
FallCode == {"FALL_QUERY", "FALL_PARSE", "FALL_ALARM", "FALL_EMPTY", "FALL_RCODE", "FALL_OTHER"}
SrvCode == {"OK", "UNAVAILABLE", "ALARM", "QUERY_FAILED", "PARSE_FAILED", "MALLOC", "LIST"}

Init ==
  /\ app = "free"
  /\ opts = [nowalk |-> FALSE, nofall |-> FALSE, uriPort |-> FALSE, smtp |-> FALSE]
  /\ query = "none" /\ aux = "none" /\ asked = Domain
  /\ entries = <<>> /\ walkIndex = 0
  /\ lastRcode = "VOID" /\ code = "VOID" /\ calls = 0
  /\ heap = {} /\ refused = FALSE /\ misused = FALSE

AddressesOf(list) == UNION {list[i].addrs : i \in DOMAIN list}

-----------------------------------------------------------------------------
(* The ends of a run: a result, or an auxiliary query that is pending.     *)

\* _ruli_srv_query_done(): the callback.
CallBack(c) ==
  /\ code' = c /\ calls' = calls + 1
  /\ aux' = "none"
  /\ UNCHANGED asked

Done(c) == CallBack(c) /\ UNCHANGED refused

\* An auxiliary query that cannot be submitted ends nothing.
MutantForgets(kind, name, noMemory, notTaken) ==
  /\ aux' \in {kind, "none"}
  /\ asked' = name
  /\ UNCHANGED <<code, calls, refused>>

\* An auxiliary query: there may be no memory for it, or its submit may fail.
\* Then it is freed, and stays in the list of the resolver (finding 5).
Ask(kind, name, noMemory, notTaken) ==
  \/ aux' = kind /\ asked' = name /\ UNCHANGED <<code, calls, refused>>
  \/ Done(noMemory)
  \/ CallBack(notTaken) /\ refused' = TRUE

Missing(list, i) == {j \in i .. Len(list) : list[j].addrs = {}}

\* An entry is taken for complete because one before it is.
MutantWalk(list, i) ==
  IF opts.nowalk \/ Missing(list, i) = {} \/ i > 1
  THEN Done("OK") /\ walkIndex' = i
  ELSE LET j == CHOOSE j \in Missing(list, i) : \A k \in Missing(list, i) : j <= k
       IN  walkIndex' = j /\ Ask("walk", list[j].target, "WALK_OTHER", "WALK_QUERY")

\* _ruli_srv_answer_walk(), for the entries from i on.
AnswerWalk(list, i) ==
  IF opts.nowalk \/ Missing(list, i) = {}
  THEN Done("OK") /\ walkIndex' = IF opts.nowalk THEN i ELSE Len(list) + 1
  ELSE LET j == CHOOSE j \in Missing(list, i) : \A k \in Missing(list, i) : j <= k
       IN  walkIndex' = j /\ Ask("walk", list[j].target, "WALK_OTHER", "WALK_QUERY")

\* The query is answered and the fallback asked for all the same.
MutantFallback(o) ==
  \/ Done("OK")
  \/ aux' = "fall" /\ asked' = Domain /\ code' = "OK" /\ UNCHANGED <<calls, refused>>

\* _ruli_srv_answer_fallback_addr()
AnswerFallbackAddr(o) ==
  IF o.nofall THEN Done("OK") ELSE Ask("fall", Domain, "FALL_OTHER", "FALL_OTHER")

\* srv_answer_fallback_smtp(), which does not look at NOFALL.
Fallback(o) ==
  IF o.smtp THEN Ask("mx", Domain, "FALL_OTHER", "FALL_OTHER") ELSE AnswerFallbackAddr(o)

-----------------------------------------------------------------------------
(* API calls.                                                              *)

\* ruli_srv_query_submit() and the submits of ruli_smtp.c and ruli_http.c; a
\* SRV query that is not taken is deleted, and leaves nothing behind.  With a port in the URI the
\* fallback comes first, its callback may run within the submit, and if that
\* asks the event loop to stop the submit is taken for failed.
Submit ==
  /\ ~misused /\ ~refused /\ app = "free" /\ aux = "none"
  /\ opts' \in Options
  /\ entries' = <<>> /\ walkIndex' = 0 /\ lastRcode' = "VOID"
  /\ IF opts'.uriPort
     THEN /\ query' = "none"
          /\ \/ opts'.nofall /\ code' = "OK" /\ calls' = 1 /\ aux' = "none" /\ UNCHANGED refused
             \/ ~opts'.nofall /\ code' = "VOID" /\ calls' = 0 /\ aux' = "fall" /\ UNCHANGED refused
             \/ ~opts'.nofall /\ code' = "FALL_OTHER" /\ calls' = 1 /\ aux' = "none" /\ refused' \in BOOLEAN
          /\ app' \in {"held"} \cup (IF aux' = "none" THEN {"free"} ELSE {})
     ELSE /\ query' = "pending" /\ app' = "held"
          /\ code' = "VOID" /\ calls' = 0 /\ aux' = "none" /\ UNCHANGED refused
  /\ asked' = Domain
  /\ UNCHANGED <<heap, misused>>

\* A query submitted later makes the resolver look at the one that was freed.
FindsFreed ==
  /\ ~misused /\ refused /\ app = "free"
  /\ misused' = TRUE
  /\ UNCHANGED <<app, opts, query, aux, asked, entries, walkIndex, lastRcode,
                 code, calls, heap, refused>>

\* ruli_srv_query_delete(); of a query that was never submitted the resolver
\* reads the status and the answer buffer all the same.  A query that was freed
\* comes last in the list, takes the place of the deleted one, and is told so.
Delete ==
  /\ ~misused /\ app = "held"
  /\ app' = "free"
  /\ heap' = heap \ AddressesOf(entries)
  /\ entries' = <<>>
  /\ IF query = "none" THEN misused' \in BOOLEAN ELSE misused' = refused
  /\ query' = "none"
  /\ UNCHANGED <<opts, aux, asked, walkIndex, lastRcode, code, calls, refused>>

-----------------------------------------------------------------------------
(* The SRV answer.                                                         *)

Records == UNION {[1 .. n -> [target : Targets, priority : 0 .. 1]] : n \in 0 .. MaxEntries}

\* The entries of an answer whose additional section knows some names.
WithSection(records, known, w) ==
  [i \in DOMAIN records |->
     [target |-> records[i].target, priority |-> records[i].priority, weight |-> w,
      addrs |-> IF records[i].target \in known
                THEN {[owner |-> records[i].target, at |-> i, k |-> 0]} ELSE {}]]

SetEntries(list) == entries' = list /\ heap' = heap \cup AddressesOf(list)

\* on_srv_answer(): the query failed, or the answer has no records, or steps 1
\* to 4 fail, or step 5 does after some entries, or the walk begins.
OnSrvAnswer ==
  /\ ~misused /\ query = "pending"
  /\ query' = "listed"
  /\ \/ /\ \/ \E c \in SrvCode \ {"OK"} : Done(c)
           \/ Fallback(opts)
        /\ UNCHANGED <<entries, heap, walkIndex>>
     \/ \E records \in Records, known \in SUBSET Targets :
          LET list == WithSection(records, known, 0) IN
          \/ \E n \in 1 .. Len(list), c \in {"MALLOC", "LIST"} :
               /\ \/ SetEntries(SubSeq(list, 1, n - 1))
                  \/ \E got \in {{}, list[n].addrs} :
                       SetEntries([SubSeq(list, 1, n) EXCEPT ![n].addrs = got])
               /\ Done(c)
               /\ UNCHANGED walkIndex
          \/ SetEntries(list) /\ AnswerWalk(list, 1)
  /\ UNCHANGED <<app, opts, lastRcode, misused>>

-----------------------------------------------------------------------------
(* The auxiliary queries.                                                  *)

Answers(kind) == ~misused /\ aux = kind /\ app = "held"

\* The callback of an auxiliary query whose SRV query was deleted.
OnAnswerToDeleted ==
  /\ ~misused /\ aux # "none" /\ app = "free"
  /\ misused' = TRUE
  /\ UNCHANGED <<app, opts, query, aux, asked, entries, walkIndex, lastRcode,
                 code, calls, heap, refused>>

\* The host query failed; its rcode is right by CodeMatchesRcode of RuliHost.
HostFails(alarm, empty, rcode, other) ==
  /\ \/ Done(alarm) /\ lastRcode' = "VOID"
     \/ Done(empty) /\ lastRcode' = "VOID"
     \/ Done(rcode) /\ lastRcode' = "ERROR"
     \/ Done(other) /\ lastRcode' = "VOID"
  /\ UNCHANGED <<entries, heap, walkIndex>>

Found(n, i) == {[owner |-> asked, at |-> i, k |-> k] : k \in 1 .. n}

\* The host query is deleted with its list of addresses.
MutantMoved(new) == heap

\* ruli_host_query_detach() and ruli_host_query_delete()
Moved(new) == heap \cup new

\* on_walk_answer(); when the entry's list cannot grow it is emptied.
OnWalkAnswer ==
  /\ Answers("walk")
  /\ \/ HostFails("WALK_ALARM", "WALK_EMPTY", "WALK_RCODE", "WALK_QUERY")
     \/ /\ lastRcode' = "NOERROR"
        /\ \/ \E n \in 1 .. MaxFound :
                LET new  == Found(n, walkIndex)
                    list == [entries EXCEPT ![walkIndex].addrs = @ \cup new]
                IN  entries' = list /\ heap' = Moved(new) /\ AnswerWalk(list, walkIndex + 1)
           \/ /\ Done("FALL_OTHER")
              /\ UNCHANGED <<entries, heap, walkIndex>>
  /\ UNCHANGED <<app, opts, query, misused>>

DomainEntry(addrs) == [target |-> Domain, priority |-> -1, weight |-> -1, addrs |-> addrs]

\* on_fallback_answer(); when the entry's list cannot grow it is emptied.
OnFallbackAnswer ==
  /\ Answers("fall")
  /\ \/ HostFails("FALL_ALARM", "FALL_EMPTY", "FALL_RCODE", "FALL_QUERY")
     \/ /\ lastRcode' = "NOERROR"
        /\ \/ \E n \in 1 .. MaxFound :
                LET new == Found(n, 1) IN
                entries' = Append(entries, DomainEntry(new)) /\ heap' = Moved(new) /\ Done("OK")
           \/ /\ Done("FALL_OTHER") /\ UNCHANGED heap
              /\ entries' \in {entries, Append(entries, DomainEntry({}))}
        /\ UNCHANGED walkIndex
  /\ UNCHANGED <<app, opts, query, misused>>

Ascending(list) == \A i, j \in DOMAIN list : i < j => list[i].priority <= list[j].priority

Orders == [n \in 0 .. MaxEntries |-> Bijection(1 .. n, 1 .. n)]

\* The entries stay in the order of the answer.
MutantSorted(list) == {list}

\* sort_srv_by_mx_priority(); qsort() keeps no order among equals.
Sorted(list) ==
  {s \in {[i \in DOMAIN list |-> list[p[i]]] : p \in Orders[Len(list)]} : Ascending(s)}

\* on_mx_answer(): the query failed, the rcode is bad, the message cannot be
\* parsed, entries are made of the first records only, or of all; without a
\* record it goes on to the address fallback.
OnMxAnswer ==
  /\ Answers("mx")
  /\ \/ /\ \/ \E c \in {"FALL_ALARM", "FALL_QUERY"} : Done(c) /\ lastRcode' = "VOID"
           \/ Done("FALL_RCODE") /\ lastRcode' = "ERROR"
           \/ \E c \in {"FALL_OTHER", "FALL_PARSE"} : Done(c) /\ lastRcode' = "NOERROR"
           \/ AnswerFallbackAddr(opts) /\ lastRcode' = "NOERROR"
        /\ UNCHANGED <<entries, heap, walkIndex>>
     \/ \E records \in Records \ {<<>>}, known \in SUBSET Targets :
          /\ lastRcode' = "NOERROR"
          /\ \/ \E n \in 1 .. Len(records), c \in {"FALL_OTHER", "FALL_PARSE"} :
                  /\ \E list \in Sorted(WithSection(SubSeq(records, 1, n), known, -1)) : SetEntries(list)
                  /\ Done(c)
                  /\ UNCHANGED walkIndex
             \/ \E list \in Sorted(WithSection(records, known, -1)) :
                  SetEntries(list) /\ AnswerWalk(list, 1)
  /\ UNCHANGED <<app, opts, query, misused>>

OnAuxAnswer == OnWalkAnswer \/ OnFallbackAnswer \/ OnMxAnswer \/ OnAnswerToDeleted

Next == Submit \/ FindsFreed \/ Delete \/ OnSrvAnswer \/ OnAuxAnswer

Spec == Init /\ [][Next]_vars

\* The queries below are answered (KeepsPromise of RuliUdp and of RuliHost).
FairSpec == Spec /\ WF_vars(OnSrvAnswer) /\ WF_vars(OnAuxAnswer)

-----------------------------------------------------------------------------
(* Properties.                                                             *)

\* The variables have their types (struct ruli_srv_t).
TypeOK ==
  /\ app \in {"free", "held"}
  /\ opts \in Options
  /\ query \in {"none", "pending", "listed"}
  /\ aux \in {"none", "walk", "fall", "mx"}
  /\ asked \in Targets \cup {Domain}
  /\ entries \in Seq(Entry)
  /\ walkIndex \in 0 .. MaxEntries + 1
  /\ lastRcode \in {"VOID", "NOERROR", "ERROR"}
  /\ code \in SrvCode \cup WalkCode \cup FallCode \cup {"VOID"}
  /\ calls \in Nat
  /\ heap \subseteq Address
  /\ refused \in BOOLEAN /\ misused \in BOOLEAN

\* A query that is held has one query under way until its one callback, and
\* none after it: no path of the six callbacks forgets to finish, finishes
\* twice, or leaves a query that would finish it again.
PendingUntilDone ==
  app = "held" /\ ~misused =>
    \/ code = "VOID" /\ calls = 0 /\ (query = "pending" <=> aux = "none")
    \/ code # "VOID" /\ calls = 1 /\ query # "pending" /\ aux = "none"

\* The list is empty and the walk has not begun when the answer of the SRV
\* query or of a fallback comes, as on_srv_answer(), on_fallback_answer(),
\* srv_answer_fallback_smtp() and on_mx_answer() assert.
NothingBeforeAnswer ==
  app = "held" /\ ~misused /\ (query = "pending" \/ aux \in {"fall", "mx"}) =>
    entries = <<>> /\ walkIndex = 0

\* Every address is in the list of exactly one entry, of its own target: moving
\* it from the host query to the entry neither leaks it nor leaves it to be freed
\* twice nor puts it elsewhere, however many walks it takes and in whatever order
\* the entries were put meanwhile.
AddressesOwned ==
  /\ ~misused => heap = AddressesOf(entries)
  /\ ~misused => \A i, j \in DOMAIN entries : i # j => entries[i].addrs \cap entries[j].addrs = {}
  /\ \A i \in DOMAIN entries : \A a \in entries[i].addrs : a.owner = entries[i].target

\* A query that ends well after the walk has an address for every target.
OkIsComplete ==
  app = "held" /\ code = "OK" /\ ~opts.nowalk =>
    \A i \in DOMAIN entries : entries[i].addrs # {}

\* Entries made of MX records are in the order of their preference, also when
\* only the first of them could be made, and the walk leaves them so.
MxInOrder ==
  \A i, j \in DOMAIN entries :
    i < j /\ entries[i].weight = -1 => entries[i].priority <= entries[j].priority

\* The SRV query keeps hold of its auxiliary query ("we don't need to keep more
\* than one query reference (walk_query)", _ruli_srv_answer_walk()).
AuxHasOwner == aux # "none" => app = "held"

\* Every query that is held is called back.
Answered == app = "held" ~> code # "VOID" \/ app = "free" \/ misused
=============================================================================
