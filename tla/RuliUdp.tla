------------------------------- MODULE RuliUdp -------------------------------
(***************************************************************************)
(* The query state machine of RULI over UDP: a resolver context            *)
(* (ruli_res.c) with its query list, name server rotation and shared UDP   *)
(* sockets, and the event handlers of the query FSM (ruli_fsm.c), driven   *)
(* by a single-threaded event loop, a lossy, duplicating and delaying      *)
(* network, and an application that submits and deletes queries.           *)
(*                                                                         *)
(* One action is one run of an event handler or of one API call, to its    *)
(* end.  The user callback is the last thing a handler does, so what the   *)
(* application does inside it is an action of its own.  The TCP half of    *)
(* the FSM is seen here only by what it can do to a query: change its      *)
(* server, answer it or give it up.                                        *)
(*                                                                         *)
(* assert() is not a guard: where one fails the actions go on, and the      *)
(* properties say what is asserted.  An event that changes nothing          *)
(* (WOULD_BLOCK, a datagram on_udp_read() ignores) is a stuttering step.    *)
(***************************************************************************)
EXTENDS RuliRotation, Sequences, FiniteSets

CONSTANTS
  Queries,        \* the query structures the application owns
  FamilyOf,       \* address family of each server
  Retry,          \* res_retry
  Suffixes,       \* length of the search list the queries may use
  IdSpace,        \* number of distinct query ids (65536 in the code)
  MaxSubmits,     \* bound: calls of ruli_res_query_submit
  CancelIn,       \* phases in which the application may cancel a query
  ForgetsFailed   \* does the application forget a query whose submit failed?

Families == {"inet", "inet6"}

ASSUME ConstantsAssumption ==
  /\ IsFiniteSet(Queries)
  /\ Servers \in Nat \ {0}
  /\ FamilyOf \in [ServerIndex -> Families]
  /\ Retry \in Nat
  /\ Suffixes \in Nat
  /\ IdSpace \in Nat \ {0}
  /\ MaxSubmits \in Nat
  /\ CancelIn \subseteq {"udp", "tcp_send", "tcp_other", "finishing"}
  /\ ForgetsFailed \in BOOLEAN

VARIABLES
  up,           \* the resolver context exists
  queryList,    \* query_list
  nextServer,   \* next_server
  nextQueryId,  \* next_query_id
  qry,          \* the query structures
  sock,         \* families whose UDP socket is open (udp_sd, udp6_sd # -1)
  wr, rd,       \* per family: number of writers (readers), fd registered
  timers,       \* queries with on_udp_read_timeout scheduled
  doneNow,      \* queries with query_done_now scheduled
  wire,         \* requests sent; any may be answered, late or repeatedly
  serial,       \* submissions made so far
  app           \* what the application has seen of each query

vars == <<up, queryList, nextServer, nextQueryId, qry, sock, wr, rd, timers,
          doneNow, wire, serial, app>>

UdpStatus == {"UDP_WANT_SEND", "UDP_WANT_RECV"}
TcpStatus == {"TCP_WANT_SEND", "TCP_OTHER"}
GiveUpCode == {"TIMEOUT", "SEND", "CONNECT"}
AnswerCode == {"OK", "TRUNC", "CONCAT"}    \* codes with an answer_buf
Code == {"VOID", "FLAGS", "MALLOC", "LAUNCH"} \cup GiveUpCode \cup AnswerCode

Query ==
  [resolver : BOOLEAN, index : Nat, id : Nat, first : ServerIndex,
   curr : ServerIndex, retries : Nat, search : Nat,
   status : {"VOID"} \cup UdpStatus \cup TcpStatus, code : Code]

\* What the application sees of a query, and bookkeeping about it.
\* use: the application does not hold it, holds it after a failed submit, or
\* holds it submitted; told: callbacks while held; serial: its submission;
\* heard: the submission whose request was answered; turns: server turns
\* taken since the name being asked was last changed.
View == [use : {"free", "failed", "held"}, told : Nat, serial : Nat,
         heard : Nat, turns : Nat]

\* The waiters on a socket, and the descriptor registered for them: none, the
\* open socket's, or -1.
Waits == [n : Nat, fd : {"none", "open", "closed"}]

Request == [fam : Families, id : Nat, serial : Nat]

Init ==
  /\ up = TRUE
  /\ queryList = <<>>
  /\ nextServer = 0 /\ nextQueryId = 0
  /\ qry = [q \in Queries |->
              [resolver |-> FALSE, index |-> 0, id |-> 0, first |-> 0,
               curr |-> 0, retries |-> 0, search |-> 0,
               status |-> "VOID", code |-> "VOID"]]
  /\ sock = {}
  /\ wr = [f \in Families |-> [n |-> 0, fd |-> "none"]]
  /\ rd = [f \in Families |-> [n |-> 0, fd |-> "none"]]
  /\ timers = {} /\ doneNow = {} /\ wire = {}
  /\ serial = 0
  /\ app = [q \in Queries |->
              [use |-> "free", told |-> 0, serial |-> 0, heard |-> 0, turns |-> 0]]

-----------------------------------------------------------------------------
(* Sockets: only the first waiter registers the descriptor for monitoring, *)
(* only the last one cancels the registration.  Operators named Mutant...   *)
(* are no part of the specification: each is the definition after it with  *)
(* a bug a programmer could make, for testing that the properties notice.  *)

\* Only start_query() opens a socket, that of the query's first server: where
\* it is closed the descriptor is -1, and nothing ever comes of registering it.
Want(side, f, open) ==
  [side EXCEPT ![f] =
     [n |-> @.n + 1,
      fd |-> IF @.n # 0 THEN @.fd ELSE IF f \in open THEN "open" ELSE "closed"]]

Done(side, f) ==
  [side EXCEPT ![f] = [n |-> @.n - 1, fd |-> IF @.n = 1 THEN "none" ELSE @.fd]]

Fam(r) == FamilyOf[r.curr]

\* The result is stored, but query_done_now() is not scheduled.
MutantScheduleNothing(q, code, w) ==
  IF MaySwitch(qry[q])
  THEN LET r == Switched(qry[q]) IN
       /\ qry' = [qry EXCEPT ![q] = [r EXCEPT !.status = "UDP_WANT_SEND"]]
       /\ wr' = Want(w, Fam(r), sock)
       /\ app' = [app EXCEPT ![q].turns = @ + 1]
       /\ UNCHANGED doneNow
  ELSE /\ qry' = [qry EXCEPT ![q] = [Switched(@) EXCEPT !.status = "VOID", !.code = code]]
       /\ wr' = w
       /\ UNCHANGED <<doneNow, app>>

\* The socket to write to is that of the server switched from.
MutantOldFamily(q, code, w) ==
  IF MaySwitch(qry[q])
  THEN /\ qry' = [qry EXCEPT ![q] = [Switched(@) EXCEPT !.status = "UDP_WANT_SEND"]]
       /\ wr' = Want(w, Fam(qry[q]), sock)
       /\ app' = [app EXCEPT ![q].turns = @ + 1]
       /\ UNCHANGED doneNow
  ELSE /\ qry' = [qry EXCEPT ![q] = [Switched(@) EXCEPT !.status = "VOID", !.code = code]]
       /\ wr' = w
       /\ doneNow' = doneNow \cup {q}
       /\ UNCHANGED app

\* switch_else_schedule_finish(), and the new UDP send when it succeeds;
\* w is the writers' side after the handler's own query_done_*().
SwitchElseScheduleFinish(q, code, w) ==
  IF MaySwitch(qry[q])
  THEN LET r == Switched(qry[q]) IN
       /\ qry' = [qry EXCEPT ![q] = [r EXCEPT !.status = "UDP_WANT_SEND"]]
       /\ wr' = Want(w, Fam(r), sock)
       /\ app' = [app EXCEPT ![q].turns = @ + 1]
       /\ UNCHANGED doneNow
  ELSE /\ qry' = [qry EXCEPT ![q] = [Switched(@) EXCEPT !.status = "VOID", !.code = code]]
       /\ wr' = w
       /\ doneNow' = doneNow \cup {q}
       /\ UNCHANGED app

\* The user callback, the handler leaving record r.
Callback(q, r, a) ==
  /\ qry' = [qry EXCEPT ![q] = r]
  /\ app' = [a EXCEPT ![q].told = @ + 1]
  /\ UNCHANGED <<sock, wr>>

\* The descriptor is registered before the socket is opened.
MutantOpensLate(q, r, a) ==
  /\ qry' = [qry EXCEPT ![q] = [r EXCEPT !.status = "UDP_WANT_SEND"]]
  /\ sock' = sock \cup {Fam(r)}
  /\ wr' = Want(wr, Fam(r), sock)
  /\ app' = [a EXCEPT ![q].turns = 1]

\* start_query() succeeds: the socket is opened if need be.
StartQuery(q, r, a) ==
  /\ qry' = [qry EXCEPT ![q] = [r EXCEPT !.status = "UDP_WANT_SEND"]]
  /\ sock' = sock \cup {Fam(r)}
  /\ wr' = Want(wr, Fam(r), sock')
  /\ app' = [a EXCEPT ![q].turns = 1]

\* start_query() can only fail where there is a socket to open: the buffer is
\* large enough for every message ruli_msg_build() can be asked to build.
StartFails(r) == Fam(r) \notin sock

\* first_server is not moved to the server that answered.
MutantKeepsFirst(q, r, miss, a) ==
  IF r.code = "OK" /\ miss /\ r.search < Suffixes
  THEN LET next == [r EXCEPT !.search = @ + 1]
           again == [next EXCEPT !.code = "VOID", !.retries = Retry]
       IN \/ Callback(q, [next EXCEPT !.code = "CONCAT"], a)
          \/ StartQuery(q, again, a)
          \/ StartFails(r) /\ Callback(q, [again EXCEPT !.code = "LAUNCH"], a)
  ELSE Callback(q, r, a)

\* query_done(), the handler leaving record r.  miss: the rcode of the answer
\* is SERVFAIL or NXDOMAIN, which sends the query down the search list.
QueryDone(q, r, miss, a) ==
  IF r.code = "OK" /\ miss /\ r.search < Suffixes
  THEN LET next == [r EXCEPT !.search = @ + 1]
           again == [next EXCEPT !.code = "VOID", !.retries = Retry, !.first = r.curr]
       IN \/ Callback(q, [next EXCEPT !.code = "CONCAT"], a)
          \/ StartQuery(q, again, a)
          \/ StartFails(r) /\ Callback(q, [again EXCEPT !.code = "LAUNCH"], a)
  ELSE Callback(q, r, a)

\* Where the TCP half can take a query whose record is r: to TCP on this or a
\* later server, or to a finish scheduled with code.
TcpMove(q, r, code) ==
  \/ \E l \in Later(r), s \in TcpStatus :
       /\ qry' = [qry EXCEPT ![q] = [l EXCEPT !.status = s]]
       /\ app' = [app EXCEPT ![q].turns = @ + SwitchesLeft(r) - SwitchesLeft(l)]
       /\ UNCHANGED doneNow
  \/ /\ qry' = [qry EXCEPT ![q] = [Exhausted(r) EXCEPT !.status = "VOID", !.code = code]]
     /\ app' = [app EXCEPT ![q].turns = @ + SwitchesLeft(r)]
     /\ doneNow' = doneNow \cup {q}

-----------------------------------------------------------------------------
(* The application.                                                        *)

\* ruli_res_query_submit()
Submit(q) ==
  LET r == [resolver |-> TRUE, index |-> Len(queryList), id |-> nextQueryId,
            first |-> nextServer, curr |-> nextServer, retries |-> Retry,
            search |-> 0, status |-> "VOID", code |-> "VOID"]
      a == [app EXCEPT ![q] = [use |-> "held", told |-> 0, serial |-> serial + 1,
                               heard |-> 0, turns |-> 0]]
  IN /\ up /\ app[q].use = "free" /\ serial < MaxSubmits
     /\ queryList' = Append(queryList, q)
     /\ nextQueryId' = (nextQueryId + 1) % IdSpace
     /\ nextServer' = (nextServer + 1) % Servers
     /\ serial' = serial + 1
     /\ \/ StartQuery(q, r, a)
        \/ /\ StartFails(r)
           /\ qry' = [qry EXCEPT ![q] = r]
           /\ app' = [a EXCEPT ![q].use = IF ForgetsFailed THEN "free" ELSE "failed"]
           /\ UNCHANGED <<sock, wr>>
     /\ UNCHANGED <<up, rd, timers, doneNow, wire>>

Phase(q) ==
  CASE q \in doneNow -> "finishing"
    [] qry[q].status \in UdpStatus -> "udp"
    [] qry[q].status = "TCP_WANT_SEND" -> "tcp_send"
    [] qry[q].status = "TCP_OTHER" -> "tcp_other"
    [] OTHER -> "over"                  \* called back, or submit failed

\* The timeout of a reader is not cancelled.
MutantKeepsTimer(q) ==
  LET f == Fam(qry[q]) IN
  CASE qry[q].status = "UDP_WANT_SEND" ->
         wr' = Done(wr, f) /\ UNCHANGED <<rd, timers>>
    [] qry[q].status = "UDP_WANT_RECV" ->
         rd' = Done(rd, f) /\ UNCHANGED <<wr, timers>>
    [] OTHER -> UNCHANGED <<wr, rd, timers>>

\* _ruli_query_status_done(): a TCP_WANT_SEND query is treated as a reader of
\* the UDP socket.
StatusDone(q) ==
  LET f == Fam(qry[q]) IN
  CASE qry[q].status = "UDP_WANT_SEND" ->
         wr' = Done(wr, f) /\ UNCHANGED <<rd, timers>>
    [] qry[q].status \in {"UDP_WANT_RECV", "TCP_WANT_SEND"} ->
         rd' = Done(rd, f) /\ timers' = timers \ {q} /\ UNCHANGED wr
    [] OTHER -> UNCHANGED <<wr, rd, timers>>

\* The elements after the dropped one move down (ruli_list_shift_at()).
MutantShift(list, i) == SubSeq(list, 1, i - 1) \o SubSeq(list, i + 1, Len(list))

\* ruli_list_drop(): the last element takes the place of the dropped one.
Drop(list, i) ==
  SubSeq([list EXCEPT ![i] = list[Len(list)]], 1, Len(list) - 1)

\* ruli_res_query_delete()
Delete(q) ==
  LET i == qry[q].index
      list == Drop(queryList, i + 1)
      r == [qry[q] EXCEPT !.resolver = FALSE, !.status = "VOID",
                          !.code = IF @ \in AnswerCode THEN "VOID" ELSE @]
      moved == [p \in Queries |->
                  IF i < Len(list) /\ list[i + 1] = p
                  THEN [qry[p] EXCEPT !.index = i] ELSE qry[p]]
  IN /\ app[q].use # "free" /\ Phase(q) \in CancelIn \cup {"over"}
     /\ StatusDone(q)
     /\ queryList' = list
     /\ qry' = [moved EXCEPT ![q] = r]
     /\ app' = [app EXCEPT ![q].use = "free", ![q].told = 0]
     /\ UNCHANGED <<up, nextServer, nextQueryId, sock, doneNow, wire, serial>>

\* ruli_res_delete(), once the application holds no query.
ResDelete ==
  /\ up /\ \A q \in Queries : app[q].use = "free"
  /\ up' = FALSE
  /\ sock' = {}
  /\ UNCHANGED <<queryList, nextServer, nextQueryId, qry, wr, rd, timers,
                 doneNow, wire, serial, app>>

-----------------------------------------------------------------------------
(* The event handlers.                                                     *)

\* The query on_udp_write() picks: the first of query_list that wants to send.
FirstWriter(q) ==
  \E i \in DOMAIN queryList :
    /\ queryList[i] = q /\ qry[q].status = "UDP_WANT_SEND"
    /\ \A j \in 1 .. i - 1 : qry[queryList[j]].status # "UDP_WANT_SEND"

\* on_udp_write() on the socket of family f, which need not be the family of
\* the query it picks.
OnUdpWriteFail(f, q) ==
  /\ wr[f].fd = "open" /\ f \in sock /\ FirstWriter(q)
  /\ SwitchElseScheduleFinish(q, "SEND", Done(wr, Fam(qry[q])))
  /\ UNCHANGED <<up, queryList, nextServer, nextQueryId, sock, rd, timers,
                 wire, serial>>

\* The kernel sends through an IPv6 socket to an IPv4 address too.
OnUdpWriteOk(f, q) ==
  /\ wr[f].fd = "open" /\ f \in sock /\ FirstWriter(q)
  /\ f \in {Fam(qry[q]), "inet6"}
  /\ wr' = Done(wr, Fam(qry[q]))
  /\ rd' = Want(rd, Fam(qry[q]), sock)
  /\ timers' = timers \cup {q}
  /\ qry' = [qry EXCEPT ![q].status = "UDP_WANT_RECV"]
  /\ wire' = wire \cup {[fam |-> f, id |-> qry[q].id, serial |-> app[q].serial]}
  /\ UNCHANGED <<up, queryList, nextServer, nextQueryId, sock, doneNow,
                 serial, app>>

\* The first query that waits for an answer, whatever its id.
MutantFindWaiting(id, q) ==
  \E i \in DOMAIN queryList :
    /\ queryList[i] = q /\ qry[q].status = "UDP_WANT_RECV"
    /\ \A j \in 1 .. i - 1 : qry[queryList[j]].status # "UDP_WANT_RECV"

\* ruli_res_find_query_by_id(): the first of query_list with that id.
FindQueryById(id, q) ==
  \E i \in DOMAIN queryList :
    /\ queryList[i] = q /\ qry[q].id = id
    /\ \A j \in 1 .. i - 1 : qry[queryList[j]].id # id

\* on_udp_read() on the socket of family f gets an answer to request m.  What
\* it cannot read or match to a waiting query it ignores.
OnUdpRead(f, m, q) ==
  /\ rd[f].fd = "open" /\ f \in sock /\ m.fam = f
  /\ FindQueryById(m.id, q) /\ qry[q].status = "UDP_WANT_RECV"
  /\ rd' = Done(rd, Fam(qry[q]))
  /\ timers' = timers \ {q}
  /\ LET r == [qry[q] EXCEPT !.status = "VOID"] IN
     \/ /\ \/ \E code \in {"FLAGS", "MALLOC"} :
                QueryDone(q, [r EXCEPT !.code = code], FALSE, app)
           \/ \E miss \in BOOLEAN :
                QueryDone(q, [r EXCEPT !.code = "OK"], miss,
                          [app EXCEPT ![q].heard = m.serial])
        /\ UNCHANGED doneNow
     \/ TcpMove(q, r, "CONNECT") /\ UNCHANGED <<sock, wr>>
  /\ UNCHANGED <<up, queryList, nextServer, nextQueryId, wire, serial>>

\* on_udp_read_timeout()
OnUdpReadTimeout(q) ==
  /\ q \in timers
  /\ rd' = Done(rd, Fam(qry[q]))
  /\ timers' = timers \ {q}
  /\ SwitchElseScheduleFinish(q, "TIMEOUT", wr)
  /\ UNCHANGED <<up, queryList, nextServer, nextQueryId, sock, wire, serial>>

\* The event stays scheduled.
MutantRunsAgain(q) ==
  /\ q \in doneNow
  /\ QueryDone(q, qry[q], FALSE, app)
  /\ UNCHANGED <<up, queryList, nextServer, nextQueryId, rd, timers, doneNow, wire, serial>>

\* query_done_now().  It never finds an answer that could still send the
\* query down the search list, hence miss = FALSE.
QueryDoneNow(q) ==
  /\ q \in doneNow
  /\ doneNow' = doneNow \ {q}
  /\ QueryDone(q, qry[q], FALSE, app)
  /\ UNCHANGED <<up, queryList, nextServer, nextQueryId, rd, timers, wire, serial>>

\* The TCP half: a query in TCP mode goes on, on this or a later server, gives
\* up, or is answered.
TcpGoesOn(q) ==
  /\ qry[q].status \in TcpStatus
  /\ \E code \in {"CONNECT", "TIMEOUT"} : TcpMove(q, qry[q], code)
  /\ UNCHANGED <<up, queryList, nextServer, nextQueryId, sock, wr, rd, timers,
                 wire, serial>>

TcpAnswered(q) ==
  /\ qry[q].status \in TcpStatus
  /\ \E code \in {"OK", "TRUNC", "FLAGS", "MALLOC"}, miss \in BOOLEAN :
       QueryDone(q, [qry[q] EXCEPT !.status = "VOID", !.code = code], miss, app)
  /\ UNCHANGED <<up, queryList, nextServer, nextQueryId, rd, timers, doneNow,
                 wire, serial>>

-----------------------------------------------------------------------------
Application == (\E q \in Queries : Submit(q) \/ Delete(q)) \/ ResDelete

Writing == \E f \in Families, q \in Queries : OnUdpWriteFail(f, q) \/ OnUdpWriteOk(f, q)

Reading == \E f \in Families, m \in wire, q \in Queries : OnUdpRead(f, m, q)

Tcp(q) == TcpGoesOn(q) \/ TcpAnswered(q)

Next ==
  \/ Application
  \/ Writing
  \/ Reading
  \/ \E q \in Queries : OnUdpReadTimeout(q) \/ QueryDoneNow(q) \/ Tcp(q)

Spec == Init /\ [][Next]_vars

\* The event loop dispatches what is due, and a socket does not block for ever.
\* Nothing is said of the TCP half, which has waits without a timeout.
Fairness ==
  /\ \A f \in Families :
       WF_vars(\E q \in Queries : OnUdpWriteFail(f, q) \/ OnUdpWriteOk(f, q))
  /\ \A q \in Queries :
       WF_vars(OnUdpReadTimeout(q)) /\ WF_vars(QueryDoneNow(q))

FairSpec == Spec /\ Fairness

-----------------------------------------------------------------------------
(* Properties.                                                             *)

\* The variables have their types (the structures of ruli_res.h); a count
\* below zero would show a query_done_*() without its query_want_*().
TypeOK ==
  /\ up \in BOOLEAN
  /\ queryList \in Seq(Queries)
  /\ nextServer \in ServerIndex /\ nextQueryId \in Nat
  /\ qry \in [Queries -> Query]
  /\ sock \subseteq Families
  /\ wr \in [Families -> Waits]
  /\ rd \in [Families -> Waits]
  /\ timers \subseteq Queries /\ doneNow \subseteq Queries
  /\ wire \subseteq Request
  /\ serial \in Nat
  /\ app \in [Queries -> View]

Waiters(status, f) ==
  {q \in Queries : qry[q].status = status /\ Fam(qry[q]) = f}

\* udp_writers and udp_readers (and their udp6_ twins) count exactly the
\* queries that wait on that socket, and a descriptor is registered exactly
\* while one does: no query waits for an event nobody asked for, and no event
\* comes with nobody waiting (the assertions of on_udp_write()).
Tracks(side, status) ==
  \A f \in Families :
    /\ side[f].n = Cardinality(Waiters(status, f))
    /\ side[f].fd = "none" <=> Waiters(status, f) = {}

MonitorsMatchWaiters == Tracks(wr, "UDP_WANT_SEND") /\ Tracks(rd, "UDP_WANT_RECV")

\* A timeout is scheduled exactly for the queries that wait for a UDP answer,
\* and query_done() is scheduled only for queries that are submitted, idle and
\* carry their result (the assertions of query_done()).
TimersMatchWaits ==
  /\ timers = {q \in Queries : qry[q].status = "UDP_WANT_RECV"}
  /\ \A q \in doneNow :
       qry[q].status = "VOID" /\ qry[q].code \in GiveUpCode /\ app[q].use = "held"

Pending(q) == app[q].use = "held" /\ app[q].told = 0

InTcp(q) == qry[q].status \in TcpStatus

\* What the event loop has to do for a query: its socket is open and monitored
\* for writing, its timeout is scheduled, or its end is; over TCP, one of the
\* waits of RuliTcp.
Due(q) ==
  \/ qry[q].status = "UDP_WANT_SEND" /\ wr[Fam(qry[q])].fd = "open"
  \/ qry[q].status = "UDP_WANT_RECV" /\ q \in timers
  \/ InTcp(q)
  \/ q \in doneNow

\* A submitted query whose callback has not run is never forgotten: something
\* is still due to happen to it.  After the callback nothing is.
PendingIsScheduled == \A q \in Queries : Pending(q) <=> Due(q)

\* A query that wants to send will be picked by some on_udp_write() ("So any
\* UDP_WANT_SEND-query can be selected in on_udp_write time",
\* _ruli_query_want_write_udp()).
WritersMonitored ==
  \A q \in Queries :
    qry[q].status = "UDP_WANT_SEND" => wr[Fam(qry[q])].fd = "open"

\* With a fair event loop a submitted query is called back or deleted, whatever
\* the network does, unless it goes to TCP and is left there for ever.
Ends == \A q \in Queries : []<>~Pending(q) \/ <>[]InTcp(q)

\* query_list holds each query the application holds, once, at the place its
\* resolver_index says, whatever the order of the deletions.
ListIndexed ==
  /\ \A i \in DOMAIN queryList :
       qry[queryList[i]].resolver /\ qry[queryList[i]].index = i - 1
  /\ \A q \in Queries :
       app[q].use # "free" <=> \E i \in DOMAIN queryList : queryList[i] = q

\* The answer a query ends with answers a request of that very submission,
\* not one of an earlier query that was cancelled or called back.
AnswersItsOwnRequest ==
  \A q \in Queries :
    app[q].use = "held" /\ app[q].heard # 0 => app[q].heard = app[q].serial

\* A query that gives up has had all the turns it was promised: every server,
\* res_retry + 1 times, since the name it asks was last changed; and it never
\* takes more.
GivesUpAfterAllTurns ==
  \A q \in Queries :
    app[q].use = "held" =>
      /\ app[q].turns <= Servers * (Retry + 1)
      /\ qry[q].code \in GiveUpCode => app[q].turns = Servers * (Retry + 1)

\* Once the resolver is deleted nothing refers to it any more: no descriptor
\* monitored, no event scheduled, no query listed ("Please don't finish
\* without releasing queries", ruli_res_delete()).
QuietAfterDelete ==
  ~up => /\ timers = {} /\ doneNow = {} /\ queryList = <<>>
         /\ \A f \in Families : wr[f].fd = "none" /\ rd[f].fd = "none"

\* udp_readers and udp_writers never go below zero ("assert(res_ctx->
\* udp_readers >= 0)", query_want_read_udp(), and its twins).
CountsNotNegative == \A f \in Families : wr[f].n >= 0 /\ rd[f].n >= 0

\* A query that was deleted, "cancelled" for ti_dns_cancel_hostname_query(),
\* is not called back.
NoCallbackAfterDelete == \A q \in Queries : app[q].use = "free" => app[q].told = 0

\* An answer accepted by on_udp_read() comes in on the socket of the query's
\* current server ("Make sure the query was waiting on the proper socket").
ProperSocket ==
  \A f \in sock, m \in wire, q \in Queries :
    /\ rd[f].fd = "open" /\ m.fam = f /\ FindQueryById(m.id, q)
    /\ qry[q].status = "UDP_WANT_RECV"
    => Fam(qry[q]) = f

\* The resolver makes the calls RuliQuery promises: one callback per submitted
\* query, and none for a query that was deleted.  That the callback comes is
\* Ends.
Promise == INSTANCE RuliQuery WITH
  phase <- [q \in Queries |-> IF app[q].use # "held" THEN "free"
                              ELSE IF app[q].told = 0 THEN "pending" ELSE "answered"],
  calls <- [q \in Queries |-> app[q].told]

CallsBackOnce == Promise!Init /\ [][Promise!Next]_(Promise!vars)
=============================================================================
