------------------------------- MODULE RuliSync -------------------------------
(***************************************************************************)
(* The synchronous front ends: ruli_sync.c runs an event loop of its own    *)
(* around one search (ruli_search.c, ruli_http.c, ruli_smtp.c) and hands    *)
(* the answered query to its caller; ruli_getaddrinfo.c copies the answer   *)
(* into a list of struct addrinfo, or asks the system's getaddrinfo().      *)
(*                                                                         *)
(* RuliSrv is the query inside the loop.  The caller deletes what it gets,  *)
(* after the loop and its event source are gone.  Between synchronous calls *)
(* the application may use the query itself, with callbacks of its own.     *)
(***************************************************************************)
EXTENDS RuliSrv, SequencesExt

VARIABLES
  stage,    \* "idle", "looping" (in oop_sys_run()), "returned"
  caller,   \* "async" (an event loop of the application's), "sync" or "getaddrinfo"
  memory,   \* of the event source, the ruli_sync_t, the search resolver and
            \* the search: those that are allocated
  outcome,  \* of getaddrinfo: "none", "system", "list", "error"
  aiList    \* the list it returned, as the addresses that were copied

syncVars == <<stage, caller, memory, outcome, aiList>>

SyncInit ==
  /\ Init
  /\ stage = "idle" /\ caller = "async" /\ memory = {}
  /\ outcome = "none" /\ aiList = <<>>

\* No query is in use.
Quiet == stage = "idle" /\ app = "free" /\ aux = "none" /\ ~misused /\ ~refused

\* The application submits and deletes the query itself.
AsyncCalls ==
  /\ stage = "idle" /\ (Submit \/ FindsFreed \/ Delete)
  /\ caller' = "async" /\ outcome' = "none" /\ aiList' = <<>>
  /\ UNCHANGED <<stage, memory>>

\* An answer comes, to the loop of the application or to the one of the call.
AnswerComes == stage # "returned" /\ (OnSrvAnswer \/ OnAuxAnswer) /\ UNCHANGED syncVars

-----------------------------------------------------------------------------
(* ruli_sync_query(), ruli_sync_smtp_query() and ruli_sync_http_query().   *)

Made == <<"source", "syn", "search_res", "search">>

\* What is given back when the n-th of them cannot be made.
GivenBack(n) == {"source"} \cup (IF n > 2 THEN {"syn"} ELSE {}) \cup (IF n > 3 THEN {"search_res"} ELSE {})

\* ruli_search_srv_submit() and the event loop; the callback does nothing but
\* let the loop go on, so that a callback within the submit is no failure.
SyncQuery(by) ==
  /\ stage = "idle"
  /\ Submit /\ app' = "held"
  /\ by = "getaddrinfo" => ~opts'.smtp
  /\ stage' = "looping" /\ caller' = by
  /\ memory' = memory \cup Range(Made)
  /\ outcome' = "none" /\ aiList' = <<>>

\* Something cannot be made, or the search cannot be submitted.
SyncQueryFails(by) ==
  /\ Quiet
  /\ \E n \in DOMAIN Made : memory' = memory \cup (Range(SubSeq(Made, 1, n - 1)) \ GivenBack(n))
  /\ caller' = by /\ aiList' = <<>>
  /\ outcome' = IF by = "getaddrinfo" THEN "system" ELSE "none"
  /\ UNCHANGED <<vars, stage>>

\* No query waits for a socket or a time.
NothingRegistered == query # "pending" /\ aux = "none"

LoopReturns ==
  /\ stage = "looping" /\ ~misused /\ NothingRegistered
  /\ stage' = "returned" /\ memory' = memory \ {"source"}
  /\ UNCHANGED <<vars, caller, outcome, aiList>>

\* The search resolver is forgotten.
MutantSyncFreed == {"syn", "search"}

SyncFreed == {"syn", "search_res", "search"}

\* ruli_sync_delete(); the interface of a resolver made without one is read,
\* and freed, as it was found in memory.  A resolver that lists a query that was
\* freed does not get that far ("Please don't finish without releasing queries").
SyncDelete ==
  /\ stage = "returned"
  /\ app = "held" /\ ~misused
  /\ app' = "free" /\ query' = "none" /\ entries' = <<>>
  /\ heap' = heap \ AddressesOf(entries)
  /\ misused' \in (IF refused THEN {TRUE} ELSE BOOLEAN)
  /\ UNCHANGED <<opts, aux, asked, walkIndex, lastRcode, code, calls, refused>>
  /\ stage' = "idle" /\ memory' = memory \ SyncFreed
  /\ UNCHANGED caller

SyncCallerDeletes == caller = "sync" /\ SyncDelete /\ UNCHANGED <<outcome, aiList>>

-----------------------------------------------------------------------------
(* ruli_getaddrinfo().                                                     *)

\* Each node is put before the one that was made before it.
MutantCopied(undecodable, portKnown) ==
  Reverse(FlattenSeq([i \in DOMAIN entries |-> SetToSeq(entries[i].addrs)]))

\* The addresses of the entries whose name can be decoded and whose port is
\* known; an entry of the fallback takes it from the service's name.
Copied(undecodable, portKnown) ==
  LET Usable(e) == e.target \notin undecodable /\ (e.weight = -1 => portKnown)
  IN  FlattenSeq([i \in DOMAIN entries |->
        IF Usable(entries[i]) THEN SetToSeq(entries[i].addrs) ELSE <<>>])

Outcome(copied) == IF copied = <<>> THEN "system" ELSE "list"

\* A failed query, or one without a usable address, is left to the system.  When
\* there is no memory for a node, the nodes before it are lost.
Getaddrinfo ==
  /\ caller = "getaddrinfo" /\ SyncDelete
  /\ IF code # "OK" THEN outcome' = "system" /\ aiList' = <<>>
     ELSE \E undecodable \in SUBSET (Targets \cup {Domain}), portKnown \in BOOLEAN :
            LET copied == Copied(undecodable, portKnown) IN
            \/ aiList' = copied /\ outcome' = Outcome(copied)
            \/ copied # <<>> /\ outcome' = "error" /\ aiList' = <<>>

\* A host or a service that is a number, or hints that want neither a stream
\* nor datagrams, never reach the resolver.
GetaddrinfoOfSystem ==
  /\ Quiet
  /\ caller' = "getaddrinfo" /\ outcome' = "system" /\ aiList' = <<>>
  /\ UNCHANGED <<vars, stage, memory>>

SyncNext ==
  \/ \E by \in {"sync", "getaddrinfo"} : SyncQuery(by) \/ SyncQueryFails(by)
  \/ AsyncCalls \/ AnswerComes \/ LoopReturns \/ SyncCallerDeletes \/ Getaddrinfo \/ GetaddrinfoOfSystem

allVars == <<vars, syncVars>>

SyncSpec == SyncInit /\ [][SyncNext]_allVars

\* The queries are answered, and oop_sys_run() returns when nothing is left.
FairSyncSpec == SyncSpec /\ WF_allVars(AnswerComes) /\ WF_allVars(LoopReturns)

-----------------------------------------------------------------------------
(* Properties.                                                             *)

\* The variables have their types.
SyncTypeOK ==
  /\ stage \in {"idle", "looping", "returned"}
  /\ caller \in {"async", "sync", "getaddrinfo"}
  /\ memory \subseteq Range(Made)
  /\ outcome \in {"none", "system", "list", "error"}
  /\ outcome = "list" <=> aiList # <<>>

\* What a synchronous query returns has its answer: the loop does not end while
\* the walk or a fallback is still to come, and it was called back once, so that
\* ruli_sync_srv_code() and ruli_sync_srv_list() have something to tell.
ReturnsAnswered ==
  stage = "returned" /\ ~misused => calls = 1 /\ code # "VOID"

\* Between two calls nothing is kept, whichever of the steps failed; within one
\* the event source is gone when the query is handed over, and everything the
\* deletion needs is there.
MemoryMatchesStage ==
  ~misused =>
    /\ memory = (IF stage = "idle" THEN {} ELSE Range(Made) \ (IF stage = "returned" THEN {"source"} ELSE {}))
    /\ stage # "idle" => app = "held"
    /\ stage = "idle" /\ caller # "async" => app = "free" /\ heap = {} /\ aux = "none"

\* The list of getaddrinfo() keeps the order of the entries, which is that of
\* priority and chance (RuliSrvOrder); it has an entry's addresses all or none,
\* none of them twice, and no other.
CopiesInOrder ==
  [][stage = "returned" /\ outcome' = "list" =>
       /\ IsInjective(aiList')
       /\ \A i, j \in DOMAIN aiList' : i <= j => aiList'[i].at <= aiList'[j].at
       /\ \A e \in Range(entries) : e.addrs \subseteq Range(aiList') \/ e.addrs \cap Range(aiList') = {}
       /\ Range(aiList') \subseteq AddressesOf(entries)]_allVars

\* A query that is held is called back, and a synchronous query comes back.
Returns == Answered /\ (stage = "looping" ~> stage # "looping" \/ misused)
=============================================================================
