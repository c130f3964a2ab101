------------------------------- MODULE RuliTi -------------------------------
(***************************************************************************)
(* The TI API (ti_api.c): one resolver handle at a time, the queries        *)
(* submitted with it by id, the scheduler that runs the event loop, and the *)
(* memory of all three.  The application calls the API when it likes, in a  *)
(* callback of its own too, and cleans a query up in its callback unless it *)
(* cancelled it there; it exits without queries of its own.                 *)
(*                                                                         *)
(* The heap knows nothing of who needs what: an object, a pair of what it   *)
(* is and whose, is in it from the malloc() to the free() that names it.    *)
(* A query is on the resolver's list under an entry, and so is the host     *)
(* query that a SRV query has under way for a target.                       *)
(***************************************************************************)
EXTENDS Naturals, FiniteSets

CONSTANTS
  Handles,   \* the handles the application makes, each once
  Queries,   \* the queries it submits, each once
  IdSpace,   \* ids there are: 2^16
  MaxIds     \* bound: ids a resolver gives

ASSUME ConstantsAssumption ==
  /\ IdSpace \in Nat \ {0} /\ MaxIds \in Nat
  /\ Handles \cap Queries = {} /\ "nobody" \notin Handles \cup Queries

VARIABLES
  ti,         \* the handle, or "nobody"
  gone,       \* what became of the others: "exited" or "failed"
  member,     \* ti_resolver_ctx_t: what each pointer points to
  kind,       \* each query: "host" or "srv" once it is submitted
  stage,      \* "unused", "waiting", "walking" (for the targets of a SRV
              \* answer), "calling", and how it ended
  from,       \* the handle it was submitted with
  listed,     \* query_list
  id,         \* the number each entry got, of which query_id has the rest
  next,       \* next_query_id before it wraps
  due,        \* entries whose query_done_now() is scheduled
  caller,     \* whose callback runs, or "nobody"
  scheduler,  \* ti_dns_start_query_scheduler() is running
  heap,       \* what is allocated
  broken      \* the undefined behaviour or the assertion that ended it all

queryVars == <<kind, stage, from, listed, id, next, due, caller>>
vars == <<ti, gone, member, queryVars, scheduler, heap, broken>>

Of(whose, things) == {<<thing, whose>> : thing \in things}

Own(q) == <<q, "own">>
Aux(q) == <<q, "aux">>
Entries == Queries \X {"own", "aux"}

Pointers == {"interface", "handler", "search_res", "ruli_res_ctx", "server_list", "source_sys"}
NoMembers == [m \in Pointers |-> "null"]

Init ==
  /\ ti = "nobody" /\ gone = [h \in Handles |-> "unused"] /\ member = NoMembers
  /\ kind = [q \in Queries |-> "none"] /\ stage = [q \in Queries |-> "unused"]
  /\ from = [q \in Queries |-> "nobody"]
  /\ listed = {} /\ id = [e \in Entries |-> 0] /\ next = 0
  /\ due = {} /\ caller = "nobody" /\ scheduler = FALSE
  /\ heap = {} /\ broken = "no"

\* free() of these, in an order in which none is used after it: freeing what is
\* not allocated is undefined.
Frees(objects, added) ==
  /\ heap' = (heap \ objects) \cup added
  /\ broken' = IF objects \subseteq heap THEN "no" ELSE "freed_twice"

-----------------------------------------------------------------------------
(* The handle.                                                             *)

\* The members after ti_dns_start(): handler is what malloc() left in it when
\* resolv.conf is used.
MembersFor(mode) ==
  LET common == [NoMembers EXCEPT !.interface = "interface", !.server_list = "server_list",
                                  !.source_sys = "source"]
  IN IF mode = "servers"
       THEN {[common EXCEPT !.handler = "handler", !.ruli_res_ctx = "res"]}
       ELSE {[common EXCEPT !.handler = junk, !.search_res = "search_res",
                            !.ruli_res_ctx = "search_res"] : junk \in {"null", "junk"}}

\* What ti_dns_init_resolver(), ti_dns_start() and ruli_res_new() allocate;
\* "servers" is the list's array and the addresses in it.
Made(mode) ==
  {"ctx", "interface", "server_list", "servers", "source", "res_interface", "res_inside"} \cup
  IF mode = "servers" THEN {"handler", "res"} ELSE {"search_res"}

InitResolver(h, mode) ==
  /\ broken = "no" /\ ti = "nobody" /\ gone[h] = "unused"
  /\ ti' = h
  /\ member' \in MembersFor(mode)
  /\ next' = 0
  /\ heap' = heap \cup Of(h, Made(mode))
  /\ UNCHANGED <<gone, kind, stage, from, listed, id, due, caller, scheduler, broken>>

\* What each failure of ti_dns_init_resolver() and ti_dns_start() leaves
\* allocated.
LeftBehind(mode) ==
  {{}, {"server_list", "servers"}, {"server_list", "servers", "source"}} \cup
  IF mode = "servers" THEN {{"servers"}}    \* an address that is none
  ELSE {{"server_list", "servers", "source", "res_interface"}}

\* Two failures delete a resolver context that was never made.
InitResolverFails(h, mode) ==
  /\ broken = "no" /\ ti = "nobody" /\ gone[h] = "unused"
  /\ gone' = [gone EXCEPT ![h] = "failed"]
  /\ \/ \E left \in LeftBehind(mode) : heap' = heap \cup Of(h, left) /\ UNCHANGED broken
     \/ mode = "servers" /\ broken' = "res_never_made" /\ UNCHANGED heap
  /\ UNCHANGED <<ti, member, queryVars, scheduler>>

\* The branch of the search resolver is forgotten.
MutantFreedAtExit(m) ==
  {"ctx", m.interface, m.source_sys, m.server_list, "servers"} \cup
  (IF m.handler # "null" THEN {m.handler, m.ruli_res_ctx, "res_inside", "res_interface"} ELSE {})

\* What ti_dns_exit_resolver() frees, by the members; the first branch clears
\* ruli_res_ctx, which the second one tests.
FreedAtExit(m) ==
  LET resolver == {"res_inside", "res_interface"}   \* ruli_res_delete()
  IN {"ctx", m.interface, m.source_sys, m.server_list, "servers"} \cup
     (IF m.search_res # "null" THEN {m.search_res} \cup resolver ELSE {}) \cup
     (IF m.handler # "null" THEN {m.handler} ELSE {}) \cup
     (IF m.handler # "null" /\ m.search_res = "null" THEN {m.ruli_res_ctx} \cup resolver ELSE {})

AtWork(q) == stage[q] \in {"waiting", "walking", "calling"}

\* ti_dns_exit_resolver(); ruli_res_delete() asserts that no query is listed,
\* and the event source that nothing is scheduled.
ExitResolver ==
  /\ broken = "no" /\ ti # "nobody" /\ ~scheduler
  /\ \A q \in Queries : ~AtWork(q)
  /\ IF listed # {} \/ due # {} \/ member.handler = "junk"
       THEN /\ broken' = IF listed # {} THEN "listed" ELSE IF due # {} THEN "scheduled" ELSE "handler"
            /\ UNCHANGED <<ti, gone, member, heap>>
       ELSE /\ ti' = "nobody" /\ gone' = [gone EXCEPT ![ti] = "exited"] /\ member' = NoMembers
            /\ Frees(Of(ti, FreedAtExit(member)), {})
  /\ UNCHANGED <<queryVars, scheduler>>

-----------------------------------------------------------------------------
(* The queries.                                                            *)

\* What a query holds: the query, its encoded name and its domain string; or
\* the search, what the SRV query inside it points to, and the text it was
\* made of.
Parts(k) == IF k = "host" THEN {"qry", "dname", "dom_str"} ELSE {"search", "inside", "qbuf"}

\* ruli_res_query_submit() gives the next id and lists the query.
Lists(e) == listed' = listed \cup {e} /\ id' = [id EXCEPT ![e] = next] /\ next' = next + 1

Submits(q, k, ends) ==
  /\ broken = "no" /\ ti # "nobody" /\ stage[q] = "unused" /\ next < MaxIds
  /\ kind' = [kind EXCEPT ![q] = k]
  /\ stage' = [stage EXCEPT ![q] = ends]
  /\ from' = [from EXCEPT ![q] = ti]
  /\ UNCHANGED <<ti, gone, member, due, caller, scheduler, broken>>

\* ti_dns_general_query_hostname() and ti_dns_general_query_srvrr()
Submit(q, k) ==
  /\ Submits(q, k, "waiting")
  /\ Lists(Own(q))
  /\ heap' = heap \cup Of(q, Parts(k))

\* A SRV query gives everything back, and its id if it came so far.  A host
\* query leaves its encoded name once there is one.
SubmitFails(q, k) ==
  /\ Submits(q, k, "failed")
  /\ \/ k = "host" /\ heap' = heap \cup Of(q, {"dname"}) /\ UNCHANGED next
     \/ UNCHANGED <<heap, next>>
     \/ k = "srv" /\ next' = next + 1 /\ UNCHANGED heap
  /\ UNCHANGED <<listed, id>>

\* A host query that the resolver refuses is freed in the resolver's list.
Refused(q) ==
  /\ Submits(q, "host", "refused")
  /\ Lists(Own(q))
  /\ heap' = heap \cup Of(q, {"dname"})

\* What an entry is, in the heap.
Body(e) == <<IF e[2] = "aux" THEN "walk" ELSE IF kind[e[1]] = "host" THEN "qry" ELSE "search", e[1]>>

\* Whoever goes over the list after that, for an answer, a cancel or a delete,
\* reads freed memory.
ReadsDeadEntry ==
  /\ broken = "no" /\ \E e \in listed : Body(e) \notin heap
  /\ broken' = "dead_entry"
  /\ UNCHANGED <<ti, gone, member, queryVars, scheduler, heap>>

\* The answer, if ruli_res_query_delete() finds one.
AnswerOf(q) == Of(q, {"answer"}) \cap heap

\* What ti_dns_cancel_hostname_query() and ti_dns_cancel_srvrr_query() free:
\* not the domain string; and only what is inside the search.
FreedAtCancel(q) ==
  AnswerOf(q) \cup Of(q, IF kind[q] = "host" THEN {"qry", "dname"} ELSE {"inside"})

QueryId(e) == id[e] % IdSpace

\* The application cancels what has the id that q got; an entry that is no
\* query of its kind is taken for one.  Nothing that is scheduled is taken
\* back, nor is what a walk has under way.
Cancel(q) ==
  /\ broken = "no" /\ ti # "nobody" /\ from[q] = ti /\ stage[q] \notin {"failed", "refused"}
  /\ \E e \in listed :
       LET p == e[1]
       IN /\ QueryId(e) = QueryId(Own(q)) /\ Body(e) \in heap
          /\ IF e = Own(p) /\ kind[p] = kind[q]
               THEN /\ listed' = listed \ {e}
                    /\ stage' = [stage EXCEPT ![p] = "cancelled"]
                    /\ Frees(FreedAtCancel(p), {})
               ELSE broken' = "wrong_query" /\ UNCHANGED <<listed, stage, heap>>
  /\ UNCHANGED <<ti, gone, member, kind, from, id, next, due, caller, scheduler>>

-----------------------------------------------------------------------------
(* The event loop.                                                         *)

StartScheduler ==
  /\ broken = "no" /\ ti # "nobody" /\ ~scheduler
  /\ scheduler' = TRUE
  /\ UNCHANGED <<ti, gone, member, queryVars, heap, broken>>

\* Nothing is registered: no query waits, and nothing is scheduled.
NothingToDo ==
  /\ due = {} /\ caller = "nobody"
  /\ \A q \in Queries : stage[q] # "waiting" /\ Aux(q) \notin listed

\* oop_sys_run() returns when nothing is registered.
SchedulerReturns ==
  /\ broken = "no" /\ scheduler /\ NothingToDo
  /\ scheduler' = FALSE
  /\ UNCHANGED <<ti, gone, member, queryVars, heap, broken>>

Loop == broken = "no" /\ scheduler /\ caller = "nobody"

\* The answer is there, or there is none, and query_done_now() is scheduled.
Answered(e) ==
  /\ Loop /\ e \in listed \ due
  /\ e[2] = "own" => stage[e[1]] = "waiting"
  /\ due' = due \cup {e}
  /\ \/ UNCHANGED heap
     \/ e[2] = "own" /\ heap' = heap \cup Of(e[1], {"answer"})
  /\ UNCHANGED <<ti, gone, member, kind, stage, from, listed, id, next, caller, scheduler, broken>>

\* The callback of q begins.
Call(q) == stage' = [stage EXCEPT ![q] = "calling"] /\ caller' = q

\* query_done_now() of a query of the application's: if it was cancelled in
\* between, its memory is free, or holds a SRV query that is deleted.
Done(q) ==
  /\ Loop /\ Own(q) \in due
  /\ due' = due \ {Own(q)}
  /\ \/ /\ stage[q] = "cancelled"
        /\ broken' = "dead_event"
        /\ UNCHANGED <<stage, listed, id, next, caller, heap>>
     \/ /\ stage[q] # "cancelled"
        /\ Call(q) /\ UNCHANGED <<listed, id, next, heap, broken>>
     \/ /\ stage[q] # "cancelled" /\ kind[q] = "srv" /\ next < MaxIds
        /\ stage' = [stage EXCEPT ![q] = "walking"]
        /\ Lists(Aux(q))
        /\ heap' = heap \cup Of(q, {"walk"})
        /\ UNCHANGED <<caller, broken>>
  /\ UNCHANGED <<ti, gone, member, kind, from, scheduler>>

\* query_done_now() of the host query of a walk: on_walk_answer() works on the
\* SRV query, disposes of the host query, and makes the next one or calls back.
WalkDone(q) ==
  /\ Loop /\ Aux(q) \in due
  /\ due' = due \ {Aux(q)}
  /\ \/ /\ stage[q] = "cancelled"
        /\ broken' = "dead_srv_query"
        /\ UNCHANGED <<stage, listed, id, next, caller, heap>>
     \/ /\ stage[q] # "cancelled"
        /\ Call(q)
        /\ listed' = listed \ {Aux(q)}
        /\ Frees(Of(q, {"walk"}), {})
        /\ UNCHANGED <<id, next>>
     \/ /\ stage[q] # "cancelled" /\ next < MaxIds
        /\ Frees(Of(q, {"walk"}), Of(q, {"walk"}))
        /\ Lists(Aux(q))
        /\ UNCHANGED <<stage, caller>>
  /\ UNCHANGED <<ti, gone, member, kind, from, scheduler>>

\* The encoded name is forgotten.
MutantFreedAtClean(q) ==
  AnswerOf(q) \cup Of(q, IF kind[q] = "host" THEN {"dom_str", "qry"} ELSE {"inside", "search", "qbuf"})

\* What ti_dns_clean_hostname_query() and ti_dns_clean_srvrr_query() free.
FreedAtClean(q) ==
  AnswerOf(q) \cup
  Of(q, IF kind[q] = "host" THEN {"dom_str", "dname", "qry"} ELSE {"inside", "search", "qbuf"})

\* A query whose answer came is thought to be off the list.
MutantUnlistedAtClean(q) == IF Of(q, {"answer"}) \subseteq heap THEN {} ELSE {Own(q)}

\* ruli_res_query_delete(), the first call of both.
UnlistedAtClean(q) == {Own(q)}

\* The end of a callback: the query is cleaned up, after its answer was parsed;
\* what the parser made of the answer to a host query is lost if that fails.
Cleans(q) ==
  /\ broken = "no" /\ caller = q /\ stage[q] = "calling"
  /\ caller' = "nobody"
  /\ stage' = [stage EXCEPT ![q] = "cleaned"]
  /\ listed' = listed \ UnlistedAtClean(q)
  /\ \E unread \in {{}, {"parse"}} :
       /\ unread # {} => kind[q] = "host" /\ Of(q, {"answer"}) \subseteq heap
       /\ Frees(FreedAtClean(q), Of(q, unread))
  /\ UNCHANGED <<ti, gone, member, kind, from, id, next, due, scheduler>>

\* A callback whose query was cancelled in it leaves it alone.
Returns(q) ==
  /\ broken = "no" /\ caller = q /\ stage[q] = "cancelled"
  /\ caller' = "nobody"
  /\ UNCHANGED <<ti, gone, member, kind, stage, from, listed, id, next, due, scheduler, heap, broken>>

Next ==
  \/ \E h \in Handles, mode \in {"servers", "resolv.conf"} :
       InitResolver(h, mode) \/ InitResolverFails(h, mode)
  \/ ExitResolver \/ StartScheduler \/ SchedulerReturns \/ ReadsDeadEntry
  \/ \E e \in Entries : Answered(e)
  \/ \E q \in Queries :
       \/ \E k \in {"host", "srv"} : Submit(q, k) \/ SubmitFails(q, k)
       \/ Refused(q) \/ Cancel(q) \/ Done(q) \/ WalkDone(q) \/ Cleans(q) \/ Returns(q)

Spec == Init /\ [][Next]_vars

-----------------------------------------------------------------------------
(* Properties.                                                             *)

Ends == {"cleaned", "cancelled", "failed", "refused"}
Things == Made("servers") \cup Made("resolv.conf") \cup Parts("host") \cup Parts("srv") \cup
          {"answer", "walk", "parse"}

\* The variables have their types.
TypeOK ==
  /\ ti \in Handles \cup {"nobody"} /\ gone \in [Handles -> {"unused", "exited", "failed"}]
  /\ member \in [Pointers -> Things \cup {"null", "junk"}]
  /\ kind \in [Queries -> {"none", "host", "srv"}]
  /\ stage \in [Queries -> {"unused", "waiting", "walking", "calling"} \cup Ends]
  /\ from \in [Queries -> Handles \cup {"nobody"}]
  /\ listed \subseteq Entries /\ due \subseteq Entries
  /\ id \in [Entries -> Nat] /\ next \in Nat
  /\ caller \in Queries \cup {"nobody"} /\ scheduler \in BOOLEAN
  /\ heap \subseteq Things \X (Handles \cup Queries)
  /\ broken \in {"no", "freed_twice", "res_never_made", "listed", "scheduled", "handler", "dead_entry",
                 "wrong_query", "dead_event", "dead_srv_query"}

\* What can still be reached is still allocated, and nothing is freed twice,
\* whatever the order of submits, answers, cancellations and restarts of the
\* handle, in callbacks and between them: the members of the handle, the
\* entries of the list, what is scheduled, and what a callback is handed.
\* The exceptions are the code's: a query that the resolver refused stays
\* listed, a cancelled one stays scheduled, and so does the walk of one; an id
\* finds a wrong query once all ids were used.
NoDangling ==
  /\ broken # "freed_twice"
  /\ broken = "wrong_query" => next > IdSpace
  /\ ti # "nobody" =>
       \A m \in Pointers : member[m] # "null" /\ ~(m = "handler" /\ member[m] = "junk") =>
         <<member[m], ti>> \in heap
  /\ \A e \in listed :
       /\ stage[e[1]] = "refused" \/ Body(e) \in heap
       /\ e[2] = "own" => stage[e[1]] = "refused" \/ Of(e[1], Parts(kind[e[1]])) \subseteq heap
       /\ e[2] = "aux" => stage[e[1]] \in {"walking", "cancelled"}
  /\ \A e \in due : e \in listed \/ stage[e[1]] = "cancelled"
  /\ \A q \in Queries : AtWork(q) => Own(q) \in listed

\* What is allocated can be reached, from the handle, the list or the callback
\* that runs, but for what the code is known to lose: in a handle that could
\* not be made, a query that failed or was cancelled, and an answer that could
\* not be read.  So a query that was called back and cleaned up leaves nothing,
\* nor does a handle that was exited ("Also frees any other buffers allocated
\* for processing").
NothingLost ==
  \A object \in heap :
    LET thing == object[1]
        owner == object[2]
        lost == CASE stage[owner] = "cancelled" ->
                       IF kind[owner] = "host" THEN {"dom_str"} ELSE {"search", "qbuf"}
                  [] stage[owner] \in {"failed", "refused"} -> {"dname"}
                  [] stage[owner] = "cleaned" -> {"parse"}
                  [] OTHER -> {}
    IN IF owner \in Handles
         THEN \/ owner = ti
              \/ gone[owner] = "failed" /\ thing \in {"server_list", "servers", "source", "res_interface"}
         ELSE \/ Own(owner) \in listed /\ thing \in Parts(kind[owner]) \cup {"answer"}
              \/ Aux(owner) \in listed /\ thing = "walk"
              \/ thing \in lost
=============================================================================
