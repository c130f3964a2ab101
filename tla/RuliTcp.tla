------------------------------- MODULE RuliTcp -------------------------------
(***************************************************************************)
(* The query state machine of RULI over TCP (ruli_fsm.c): queries whose UDP *)
(* answer was truncated share one connection per name server.  A server    *)
(* record (ruli_res.h) counts those who connect, write and read, and keeps  *)
(* the head of an answer received in part; a query keeps the body.          *)
(*                                                                         *)
(* One action is one run of an event handler or of an API call, to its end  *)
(* but for queries_connect_next(), whose loop over the queries of a failed  *)
(* connection is one action per round; nothing else runs meanwhile.         *)
(*                                                                         *)
(* The build keeps assertions, so an assertion that fails ends the program: *)
(* aborted names it, and nothing happens any more.                          *)
(*                                                                         *)
(* The name servers are correct: a server answers what arrives on a        *)
(* connection on that connection, once, in any order, whole, or not at all, *)
(* and may close it at any time.  A reply is four pieces, two of the head   *)
(* and two of the body, that arrive one by one or together.                 *)
(***************************************************************************)
EXTENDS RuliRotation, Sequences, FiniteSets, Functions

CONSTANTS
  Queries,        \* the query structures the application owns
  Retry,          \* res_retry
  Suffixes,       \* length of the search list
  MaxSubmits,     \* bound: submissions
  HeadLen,        \* pieces a head (RULI_LIMIT_TCP_HEADER bytes) may arrive in
  BodyLen         \* pieces a body may arrive in

ASSUME ConstantsAssumption ==
  /\ IsFiniteSet(Queries)
  /\ Servers \in Nat \ {0}
  /\ Retry \in Nat
  /\ Suffixes \in Nat
  /\ MaxSubmits \in Nat
  /\ HeadLen \in Nat \ {0} /\ BodyLen \in Nat \ {0}

VARIABLES
  queryList,    \* query_list
  qry,          \* the query structures
  sd,           \* tcp_sd of each server, 0 for -1
  count,        \* tcp_connecters, tcp_writers, tcp_readers of each server
  head,         \* tcp_head_buf: the pieces received, tcp_head_len of them
  mon,          \* per descriptor: the sinks registered for OOP_WRITE, OOP_READ
  doneNow,      \* queries with query_done_now scheduled
  affected,     \* queries queries_connect_next() still has to handle
  conn,         \* each connection, as the kernel sees it
  asked,        \* per connection: requests the server has not answered
  stream,       \* per connection: pieces that are waiting to be read
  told,         \* queries whose callback has run
  serial,       \* submissions made so far, the source of query ids
  shared,       \* two queries have been in TCP mode at the same time
  pipelined,    \* a request was sent before the last on that connection was
                \* answered to the end, or on another server's connection
  aborted       \* the assertion that failed, or "no"

vars == <<queryList, qry, sd, count, head, mon, doneNow, affected, conn, asked,
          stream, told, serial, shared, pipelined, aborted>>

Sides == {"connect", "write", "read"}
TcpStatus == {"CONNECT", "SEND", "HEAD", "BODY"}
Waiting == [status \in TcpStatus |-> IF status = "CONNECT" THEN "connect"
                                     ELSE IF status = "SEND" THEN "write" ELSE "read"]
Events == {"w", "r"}
Descriptors == 1 .. Servers

Piece == [id : 1 .. MaxSubmits, part : 1 .. HeadLen + BodyLen]

Reply(id) == [p \in 1 .. HeadLen + BodyLen |-> [id |-> id, part |-> p]]
HeadOf(id) == SubSeq(Reply(id), 1, HeadLen)
BodyOf(id) == SubSeq(Reply(id), HeadLen + 1, HeadLen + BodyLen)

Query ==
  [id : 0 .. MaxSubmits, first : ServerIndex, curr : ServerIndex, retries : 0 .. Retry,
   search : 0 .. Suffixes, status : {"VOID", "UDP"} \cup TcpStatus,
   code : {"VOID", "OK", "TRUNC", "FLAGS", "MALLOC", "CONNECT", "TIMEOUT"},
   buf : BOOLEAN, body : Seq(Piece)]

Init ==
  /\ queryList = <<>>
  /\ qry = [q \in Queries |->
              [id |-> 0, first |-> 0, curr |-> 0, retries |-> 0, search |-> 0, status |-> "VOID",
               code |-> "VOID", buf |-> FALSE, body |-> <<>>]]
  /\ sd = [s \in ServerIndex |-> 0]
  /\ count = [s \in ServerIndex |-> [side \in Sides |-> 0]]
  /\ head = [s \in ServerIndex |-> <<>>]
  /\ mon = [d \in Descriptors |-> [event \in Events |-> "none"]]
  /\ doneNow = {} /\ affected = {}
  /\ conn = [s \in ServerIndex |-> "none"]
  /\ asked = [s \in ServerIndex |-> {}]
  /\ stream = [s \in ServerIndex |-> <<>>]
  /\ told = {} /\ serial = 0
  /\ shared = FALSE /\ pipelined = FALSE
  /\ aborted = "no"

-----------------------------------------------------------------------------
(* Waiting for a descriptor: io is a record of sd, count and mon, as the   *)
(* handler has them so far.                                                *)

Io == [sd |-> sd, count |-> count, mon |-> mon]
SetIo(io) == sd' = io.sd /\ count' = io.count /\ mon' = io.mon

Event(side) == IF side = "read" THEN "r" ELSE "w"

\* on_fd() and cancel_fd(); there is one sink per descriptor and event.
Register(io, s, side, sink) ==
  IF io.sd[s] = 0 THEN io
  ELSE [io EXCEPT !.mon[io.sd[s]][Event(side)] = sink]

\* The first to wait does not register the descriptor.
MutantWant(io, s, side) == [io EXCEPT !.count[s][side] = @ + 1]

Want(io, s, side) ==
  LET counted == [io EXCEPT !.count[s][side] = @ + 1]
  IN  IF io.count[s][side] = 0 THEN Register(counted, s, side, side) ELSE counted

\* The first to be done cancels the registration for all.
MutantDone(io, s, side) ==
  Register([io EXCEPT !.count[s][side] = @ - 1], s, side, "none")

Done(io, s, side) ==
  LET counted == [io EXCEPT !.count[s][side] = @ - 1]
  IN  IF counted.count[s][side] = 0 THEN Register(counted, s, side, "none") ELSE counted

\* The program ends at an assertion.
Abort(assertion) ==
  /\ aborted' = assertion
  /\ UNCHANGED <<queryList, qry, sd, count, head, mon, doneNow, affected, conn,
                 asked, stream, told, serial, shared, pipelined>>

Running == aborted = "no" /\ affected = {}

-----------------------------------------------------------------------------
(* Finding a server that can be connected to.                              *)

\* Sockets for the servers of new, on unused descriptors.
Numberings(io, new) == Injection(new, Descriptors \ Range(io.sd))

WithSockets(io, number) ==
  [io EXCEPT !.sd = [s \in ServerIndex |-> IF s \in DOMAIN number THEN number[s] ELSE @[s]]]

\* queries_tcp_connect2write(), of the n queries that wait for server t.
Connecters(t) == {p \in Queries : qry[p].status = "CONNECT" /\ qry[p].curr = t}

\* They are writers from now on, and connecters still.
MutantWriteAlso(io, t, n) == IF n = 0 THEN io ELSE Want(io, t, "write")

WriteInstead(io, t, n) ==
  LET after[k \in 0 .. n] ==
        IF k = 0 THEN io ELSE Want(Done(after[k - 1], t, "connect"), t, "write")
  IN  after[n]

\* The end of a handler that leaves record r of query q waiting.
Waits(q, r, status, io) ==
  /\ qry' = [qry EXCEPT ![q] = [r EXCEPT !.status = status]]
  /\ SetIo(io)
  /\ UNCHANGED <<doneNow, aborted>>

\* query_done_now() is not scheduled.
MutantSchedulesNothing(q, r, code, io) ==
  /\ qry' = [qry EXCEPT ![q] = [r EXCEPT !.status = "VOID", !.code = code]]
  /\ SetIo(io)
  /\ UNCHANGED <<doneNow, aborted>>

\* schedule_immediate_query_done(); a body received in part is in its way.
Finish(q, r, code, io) ==
  /\ qry' = [qry EXCEPT ![q] = [r EXCEPT !.status = "VOID", !.code = code]]
  /\ SetIo(io)
  /\ doneNow' = doneNow \cup {q}
  /\ aborted' = IF r.buf THEN "answer_buf at finish" ELSE aborted

\* connect() succeeds at once: so does everyone's who waits for server t.  The
\* assertion is about everyone who waits for any server.
ConnectedAtOnce(q, r, t, io) ==
  LET others == Connecters(t) \ {q} IN
  /\ qry' = [p \in Queries |-> IF p = q THEN [r EXCEPT !.status = "SEND"]
                               ELSE IF p \in others THEN [qry[p] EXCEPT !.status = "SEND"]
                               ELSE qry[p]]
  /\ SetIo(WriteInstead(Want(io, t, "write"), t, Cardinality(others)))
  /\ aborted' = IF \E p \in Queries \ {q} : qry[p].status = "CONNECT" /\ io.sd[qry[p].curr] = 0
                THEN "tcp_sd of a connecter" ELSE aborted
  /\ UNCHANGED doneNow

SetConn(failed, t, state) ==
  conn' = [s \in ServerIndex |->
             IF s = t THEN state ELSE IF s \in failed THEN "failed" ELSE conn[s]]

\* query_want_connect_tcp(), for a query with record r: it goes round the
\* servers to the first it need not or can connect to.  A socket whose
\* connect() failed stays in its server's record.
WantConnectTcp(q, r, io) ==
  \E l \in Later(r) :
    LET t     == l.curr
        tried == {m.curr : m \in {n \in Later(r) : SwitchesLeft(n) > SwitchesLeft(l)}}
        last  == SwitchesLeft(l) = 0
    IN  /\ \A s \in tried : io.sd[s] = 0
        /\ \E failed \in SUBSET tried :
             \/ /\ io.sd[t] # 0 \/ t \in failed
                /\ \E number \in Numberings(io, failed) :
                     Waits(q, l, "SEND", Want(WithSockets(io, number), t, "write"))
                /\ conn' = [s \in ServerIndex |-> IF s \in failed THEN "failed" ELSE conn[s]]
             \/ /\ io.sd[t] = 0 /\ t \notin failed
                /\ \E number \in Numberings(io, failed \cup {t}) :
                     LET new == WithSockets(io, number) IN
                     \/ Waits(q, l, "CONNECT", Want(new, t, "connect")) /\ SetConn(failed, t, "connecting")
                     \/ ConnectedAtOnce(q, l, t, new) /\ SetConn(failed, t, "up")
                     \/ last /\ Finish(q, Switched(l), "CONNECT", new) /\ SetConn(failed, t, "failed")
             \/ /\ io.sd[t] = 0 /\ t \notin failed /\ last
                /\ \E number \in Numberings(io, failed) :
                     Finish(q, Switched(l), "CONNECT", WithSockets(io, number))
                /\ SetConn(failed, t, conn[t])

\* The query is given up at the first failure.
MutantGivesUp(q, r, code, io) == Finish(q, r, code, io) /\ UNCHANGED conn

\* switch_else_schedule_finish(), and the new connection when it succeeds.
SwitchElseScheduleFinish(q, r, code, io) ==
  IF MaySwitch(r)
  THEN WantConnectTcp(q, Switched(r), io)
  ELSE Finish(q, Switched(r), code, io) /\ UNCHANGED conn

\* query_done(): the callback, or the search list and back to UDP.
QueryDone(q, r, io) ==
  /\ SetIo(io)
  /\ \/ /\ qry' = [qry EXCEPT ![q] = [r EXCEPT !.status = "VOID"]]
        /\ told' = told \cup {q}
     \/ /\ r.code = "OK" /\ r.search < Suffixes
        /\ qry' = [qry EXCEPT ![q] = [r EXCEPT !.status = "UDP", !.code = "VOID", !.buf = FALSE,
                                              !.body = <<>>, !.retries = Retry, !.first = r.curr,
                                              !.search = @ + 1]]
        /\ UNCHANGED told
  /\ UNCHANGED <<doneNow, aborted, conn>>

Listed(q) == \E i \in DOMAIN queryList : queryList[i] = q

\* Those who wait for the handshake are left where they are.
MutantUsers(s) ==
  {q \in Queries : Listed(q) /\ qry[q].status \in TcpStatus \ {"CONNECT"} /\ qry[q].curr = s}

Users(s) ==
  {q \in Queries : Listed(q) /\ qry[q].status \in TcpStatus /\ qry[q].curr = s}

\* queries_connect_next() up to its loop: the socket of server s is closed.  What
\* was received of a head stays in its record.
ConnectNext(s, received) ==
  \/ Users(s) = {} /\ Abort("affected_list")
  \/ /\ Users(s) # {}
     /\ affected' = Users(s)
     /\ sd' = [sd EXCEPT ![s] = 0]
     /\ conn' = [conn EXCEPT ![s] = "none"]
     /\ asked' = [asked EXCEPT ![s] = {}]
     /\ stream' = [stream EXCEPT ![s] = <<>>]
     /\ head' = [head EXCEPT ![s] = received]
     /\ UNCHANGED <<queryList, qry, count, mon, doneNow, told, serial, shared,
                    pipelined, aborted>>

Leave(q) == [qry[q] EXCEPT !.status = "VOID"]

-----------------------------------------------------------------------------
(* The application and the UDP half.                                       *)

Submit(q) ==
  /\ Running /\ ~Listed(q) /\ serial < MaxSubmits
  /\ queryList' = Append(queryList, q)
  /\ serial' = serial + 1
  /\ LET s == serial % Servers IN      \* next_server
       qry' = [qry EXCEPT ![q] =
                 [id |-> serial + 1, first |-> s, curr |-> s, retries |-> Retry,
                  search |-> 0, status |-> "UDP", code |-> "VOID", buf |-> FALSE, body |-> <<>>]]
  /\ UNCHANGED <<sd, count, head, mon, doneNow, affected, conn, asked, stream,
                 told, shared, pipelined, aborted>>

\* on_udp_read() of a truncated answer, start_tcp_query().
Truncated(q) ==
  /\ Running /\ qry[q].status = "UDP"
  /\ \E l \in Later(Leave(q)) : WantConnectTcp(q, l, Io)
  /\ shared' = (shared \/ \E p \in Queries \ {q} : qry[p].status \in TcpStatus)
  /\ UNCHANGED <<queryList, head, affected, asked, stream, told, serial, pipelined>>

\* ruli_list_drop(): the last element takes the place of the dropped one.
Drop(list, i) ==
  SubSeq([list EXCEPT ![i] = list[Len(list)]], 1, Len(list) - 1)

\* ruli_res_query_delete() with _ruli_query_status_done(), of a query that has
\* nothing scheduled.  One that wants to send is taken for a UDP reader.
Delete(q) ==
  /\ Running /\ Listed(q) /\ q \notin doneNow
  /\ IF qry[q].status = "SEND" THEN Abort("status of a UDP reader")
     ELSE /\ SetIo(IF qry[q].status \in TcpStatus
                   THEN Done(Io, qry[q].curr, Waiting[qry[q].status]) ELSE Io)
          /\ \E i \in DOMAIN queryList : queryList[i] = q /\ queryList' = Drop(queryList, i)
          /\ qry' = [qry EXCEPT ![q] = [@ EXCEPT !.id = 0, !.status = "VOID", !.code = "VOID",
                                                 !.buf = FALSE, !.body = <<>>]]
          /\ told' = told \ {q}
          /\ UNCHANGED <<head, doneNow, affected, conn, asked, stream, serial,
                         shared, pipelined, aborted>>

-----------------------------------------------------------------------------
(* The name servers and the kernel.                                        *)

Resolves(s) ==
  /\ aborted = "no" /\ conn[s] = "connecting"
  /\ \E state \in {"up", "failed"} : conn' = [conn EXCEPT ![s] = state]
  /\ UNCHANGED <<queryList, qry, sd, count, head, mon, doneNow, affected, asked,
                 stream, told, serial, shared, pipelined, aborted>>

Replies(s) ==
  /\ aborted = "no" /\ conn[s] = "up"
  /\ \E id \in asked[s] :
       /\ asked' = [asked EXCEPT ![s] = @ \ {id}]
       /\ stream' = [stream EXCEPT ![s] = @ \o Reply(id)]
  /\ UNCHANGED <<queryList, qry, sd, count, head, mon, doneNow, affected, conn,
                 told, serial, shared, pipelined, aborted>>

Closes(s) ==
  /\ aborted = "no" /\ conn[s] = "up"
  /\ conn' = [conn EXCEPT ![s] = "down"]
  /\ asked' = [asked EXCEPT ![s] = {}]
  /\ UNCHANGED <<queryList, qry, sd, count, head, mon, doneNow, affected, stream,
                 told, serial, shared, pipelined, aborted>>

-----------------------------------------------------------------------------
(* The event handlers.                                                     *)

Sink(s, event, sink) == sd[s] # 0 /\ mon[sd[s]][event] = sink

First(list, q, Is(_)) ==
  \E i \in DOMAIN list :
    list[i] = q /\ Is(q) /\ \A j \in 1 .. i - 1 : ~Is(list[j])

\* on_tcp_connect(), when the socket has connected and when it has not.
OnTcpConnected(s) ==
  /\ Running /\ Sink(s, "w", "connect") /\ conn[s] \in {"up", "down"}
  /\ IF queryList = <<>> THEN Abort("query_list")
     ELSE /\ qry' = [q \in Queries |-> IF q \in Connecters(s)
                                       THEN [qry[q] EXCEPT !.status = "SEND"] ELSE qry[q]]
          /\ SetIo(WriteInstead(Io, s, Cardinality(Connecters(s))))
          /\ UNCHANGED <<queryList, head, doneNow, affected, conn, asked, stream,
                         told, serial, shared, pipelined, aborted>>

OnTcpConnectFailed(s) ==
  /\ Running /\ Sink(s, "w", "connect") /\ conn[s] \in {"failed", "down"}
  /\ ConnectNext(s, head[s])

\* One round of the loop of queries_connect_next().
ConnectNextRound(q) ==
  /\ aborted = "no" /\ q \in affected
  /\ First(queryList, q, LAMBDA p : p \in affected)
  /\ SwitchElseScheduleFinish(q, Leave(q), "CONNECT", Done(Io, qry[q].curr, Waiting[qry[q].status]))
  /\ affected' = affected \ {q}
  /\ UNCHANGED <<queryList, head, asked, stream, told, serial, shared, pipelined>>

WantsToSend(q) == qry[q].status = "SEND"

\* on_tcp_write() on the socket of server s, for whichever query is first; the
\* query then waits on its own server's.
OnTcpWrite(s) ==
  /\ Running /\ Sink(s, "w", "write") /\ conn[s] # "connecting"
  /\ \/ (\A q \in Queries : ~WantsToSend(q)) /\ Abort("query that wants to send")
     \/ \E q \in Queries :
          /\ First(queryList, q, WantsToSend)
          /\ conn[s] \in {"up", "down"}
          /\ LET t == qry[q].curr IN
             /\ SetIo(Want(Done(Io, t, "write"), t, "read"))
             /\ head' = [head EXCEPT ![t] = <<>>]
             /\ pipelined' = (pipelined \/ t # s \/ asked[s] # {} \/ stream[s] # <<>>)
          /\ qry' = [qry EXCEPT ![q].status = "HEAD"]
          /\ asked' = IF conn[s] = "up" THEN [asked EXCEPT ![s] = @ \cup {qry[q].id}] ELSE asked
          /\ UNCHANGED <<queryList, doneNow, affected, conn, stream, told, serial,
                         shared, aborted>>
     \/ (\E q \in Queries : WantsToSend(q)) /\ conn[s] \in {"failed", "down"} /\ ConnectNext(s, head[s])

\* The socket the query waits on is not compared.
MutantReadsBody(q, s) == qry[q].status = "BODY"

ReadsBody(q, s) == qry[q].status = "BODY" /\ qry[q].curr = s

Readable(s) ==
  Running /\ Sink(s, "r", "read") /\ (stream[s] # <<>> \/ conn[s] \in {"failed", "down"})

\* Nothing is left to read: recv() fails, or returns 0 if the peer closed.
RecvFails(s) == conn[s] \in {"failed", "down"} /\ stream[s] = <<>>

Received(s, n) == SubSeq(stream[s], 1, n)
Rest(s, n) == SubSeq(stream[s], n + 1, Len(stream[s]))

\* on_tcp_read() with nobody in the list.
ReadForNobody(s) == Readable(s) /\ queryList = <<>> /\ Abort("list_size at read")

\* recv_tcp_body()
RecvTcpBody(s, q) ==
  /\ Readable(s)
  /\ First(queryList, q, LAMBDA p : ReadsBody(p, s))
  /\ \/ RecvFails(s) /\ ConnectNext(s, head[s])
     \/ RecvFails(s) /\ conn[s] = "down" /\ Abort("result of ruli_sock_recv")
     \/ \E n \in 1 .. BodyLen - Len(qry[q].body) :
          /\ n <= Len(stream[s])
          /\ stream' = [stream EXCEPT ![s] = Rest(s, n)]
          /\ LET r == [qry[q] EXCEPT !.body = @ \o Received(s, n)] IN
             IF Len(r.body) < BodyLen
             THEN /\ qry' = [qry EXCEPT ![q] = r]
                  /\ UNCHANGED <<sd, count, mon, doneNow, aborted, conn, told>>
             ELSE \E code \in {"OK", "TRUNC"} :
                    QueryDone(q, [r EXCEPT !.code = code], Done(Io, s, "read"))
          /\ UNCHANGED <<queryList, head, affected, asked, serial, shared, pipelined>>

\* What recv_tcp_head() does with a whole head for query q: the flags are
\* wrong, memory is short, or the body is to come.
TakeHead(q) ==
  LET t  == qry[q].curr
      io == Done(Io, t, "read")
      Stop(assertion) == /\ aborted' = assertion
                         /\ UNCHANGED <<qry, sd, count, mon, doneNow, conn, told>>
  IN  \/ qry[q].status # "HEAD" /\ Stop("status of a head reader")
      \/ qry[q].status = "HEAD" /\ QueryDone(q, [qry[q] EXCEPT !.code = "FLAGS"], io)
      \/ qry[q].status = "HEAD" /\ qry[q].buf /\ Stop("answer_buf at head")
      \/ /\ qry[q].status = "HEAD" /\ ~qry[q].buf
         /\ \/ QueryDone(q, [qry[q] EXCEPT !.code = "MALLOC"], io)
            \/ /\ qry' = [qry EXCEPT ![q] = [@ EXCEPT !.status = "BODY", !.buf = TRUE]]
               /\ SetIo(Want(io, t, "read"))
               /\ aborted' = IF Len(head'[t]) # HeadLen THEN "tcp_head_len at body" ELSE aborted
               /\ UNCHANGED <<doneNow, conn, told>>

\* The ids a head may show: pieces that are not those of one head show
\* anything, 0 standing for a length no message has.
Shown(pieces) ==
  LET whole == {id \in 1 .. MaxSubmits : pieces = HeadOf(id)}
  IN  IF whole # {} THEN whole ELSE 0 .. MaxSubmits

NewAnswer(s) == queryList # <<>> /\ \A q \in Queries : ~ReadsBody(q, s)

\* recv_tcp_head()
RecvTcpHead(s) ==
  /\ Readable(s)
  /\ NewAnswer(s)
  /\ \/ Len(head[s]) = HeadLen /\ Abort("tcp_head_len at head")
     \/ Len(head[s]) < HeadLen /\ RecvFails(s) /\ ConnectNext(s, head[s])
     \/ \E n \in 1 .. HeadLen - Len(head[s]) :
          /\ n <= Len(stream[s])
          /\ LET pieces == head[s] \o Received(s, n) IN
             \/ /\ Len(pieces) < HeadLen
                /\ head' = [head EXCEPT ![s] = pieces]
                /\ stream' = [stream EXCEPT ![s] = Rest(s, n)]
                /\ UNCHANGED <<queryList, qry, sd, count, mon, doneNow, affected, conn,
                               asked, told, serial, shared, pipelined, aborted>>
             \/ /\ Len(pieces) = HeadLen
                /\ \E id \in Shown(pieces) :
                     \/ (\A q \in Queries : Listed(q) => qry[q].id # id) /\ ConnectNext(s, pieces)
                     \/ /\ head' = [head EXCEPT ![s] = pieces]
                        /\ stream' = [stream EXCEPT ![s] = Rest(s, n)]
                        /\ \E q \in Queries : First(queryList, q, LAMBDA p : qry[p].id = id) /\ TakeHead(q)
                        /\ UNCHANGED <<queryList, affected, asked, serial, shared, pipelined>>

\* on_tcp_read_head_timeout() and on_tcp_read_body_timeout()
OnTcpReadTimeout(q) ==
  /\ Running /\ qry[q].status \in {"HEAD", "BODY"}
  /\ SwitchElseScheduleFinish(q, Leave(q), "TIMEOUT", Done(Io, qry[q].curr, "read"))
  /\ UNCHANGED <<queryList, head, affected, asked, stream, told, serial, shared, pipelined>>

QueryDoneNow(q) ==
  /\ Running /\ q \in doneNow
  /\ doneNow' = doneNow \ {q}
  /\ told' = told \cup {q}
  /\ UNCHANGED <<queryList, qry, sd, count, head, mon, affected, conn, asked,
                 stream, serial, shared, pipelined, aborted>>

Next ==
  \/ \E q \in Queries :
       \/ Submit(q) \/ Truncated(q) \/ Delete(q)
       \/ ConnectNextRound(q) \/ OnTcpReadTimeout(q) \/ QueryDoneNow(q)
  \/ \E s \in ServerIndex :
       \/ Resolves(s) \/ Replies(s) \/ Closes(s)
       \/ OnTcpConnected(s) \/ OnTcpConnectFailed(s) \/ OnTcpWrite(s)
       \/ ReadForNobody(s) \/ RecvTcpHead(s) \/ \E q \in Queries : RecvTcpBody(s, q)

Spec == Init /\ [][Next]_vars

\* The event loop dispatches what is due, and the kernel settles a handshake.
Fairness ==
  /\ \A s \in ServerIndex :
       /\ WF_vars(Resolves(s))
       /\ WF_vars(OnTcpConnected(s) \/ OnTcpConnectFailed(s))
       /\ WF_vars(OnTcpWrite(s))
  /\ \A q \in Queries :
       WF_vars(ConnectNextRound(q)) /\ WF_vars(OnTcpReadTimeout(q)) /\ WF_vars(QueryDoneNow(q))

FairSpec == Spec /\ Fairness

-----------------------------------------------------------------------------
(* Properties.                                                             *)

Assertions ==
  {"no", "answer_buf at finish", "tcp_sd of a connecter", "affected_list",
   "status of a UDP reader", "query_list", "query that wants to send",
   "list_size at read", "result of ruli_sock_recv", "status of a head reader", "answer_buf at head",
   "tcp_head_len at head", "tcp_head_len at body"}

\* The variables have their types (ruli_server_t and ruli_res_query_t of
\* ruli_res.h); a count below zero would show a query_done_*() without its
\* query_want_*().
TypeOK ==
  /\ queryList \in Seq(Queries)
  /\ qry \in [Queries -> Query]
  /\ sd \in [ServerIndex -> Descriptors \cup {0}]
  /\ count \in [ServerIndex -> [Sides -> Nat]]
  /\ head \in [ServerIndex -> Seq(Piece)]
  /\ mon \in [Descriptors -> [Events -> Sides \cup {"none"}]]
  /\ doneNow \subseteq Queries /\ affected \subseteq Queries /\ told \subseteq Queries
  /\ conn \in [ServerIndex -> {"none", "connecting", "up", "failed", "down"}]
  /\ asked \in [ServerIndex -> SUBSET (1 .. MaxSubmits)]
  /\ stream \in [ServerIndex -> Seq(Piece)]
  /\ serial \in Nat /\ shared \in BOOLEAN /\ pipelined \in BOOLEAN
  /\ aborted \in Assertions

Waiters(s, side) ==
  {q \in Queries : qry[q].status \in TcpStatus /\ Waiting[qry[q].status] = side /\ qry[q].curr = s}

\* tcp_connecters, tcp_writers and tcp_readers of a server count exactly the
\* queries that wait for it, through every failure of a shared connection.
CountsMatchWaiters ==
  aborted = "no" =>
    \A s \in ServerIndex, side \in Sides : count[s][side] = Cardinality(Waiters(s, side))

\* A query in TCP mode waits on an open socket, or queries_connect_next() is
\* about to move it: nobody is left behind when a shared socket is closed.
WaitsOnOpenSocket ==
  aborted = "no" =>
    \A q \in Queries :
      qry[q].status \in TcpStatus => sd[qry[q].curr] # 0 \/ q \in affected

\* Only one query reads a body from a socket at a time ("Only one TCP query can
\* exist in the READ_BODY state for a given socket", on_tcp_read()).  True of two
\* queries, but not of three (finding 11).
OneBodyReader ==
  aborted = "no" =>
    \A p, q \in Queries :
      qry[p].status = "BODY" /\ qry[q].status = "BODY" /\ qry[p].curr = qry[q].curr => p = q

\* A submitted query is never forgotten: until its callback it is in the UDP
\* half, waits on a TCP connection or has query_done_now() scheduled.
PendingIsScheduled ==
  aborted = "no" =>
    \A q \in Queries :
      Listed(q) /\ q \notin told <=> qry[q].status # "VOID" \/ q \in doneNow

\* Whoever waits for a descriptor has it monitored with the right sink: readers
\* always, although stale registrations and other readers' clean-ups touch the
\* same descriptor; connecters and writers, which share an event, as long as no
\* two queries have been in TCP mode at once (finding 8).
WaitersMonitored ==
  aborted = "no" /\ affected = {} =>
    \A q \in Queries :
      LET s == qry[q].curr IN
      /\ qry[q].status \in {"HEAD", "BODY"} => Sink(s, "r", "read")
      /\ ~shared => /\ qry[q].status = "CONNECT" => Sink(s, "w", "connect")
                    /\ qry[q].status = "SEND" => Sink(s, "w", "write")

\* An answer is the whole body of the reply to that very submission, as long as
\* every request went out on its own server's connection and found no earlier
\* answer owed there: the pieces are counted right through heads and bodies
\* received in part, reconnections and switches.
WholeAnswers ==
  aborted = "no" /\ ~pipelined =>
    \A q \in Queries : qry[q].code \in {"OK", "TRUNC"} => qry[q].body = BodyOf(qry[q].id)

\* A query in TCP mode does what RuliUdp lets it do: it goes on in TCP mode on
\* this or a later server, gives up with all its turns taken, is called back
\* with an answer, or goes back to UDP to restart along the search list.
MovesAsAssumed ==
  [][aborted' = "no" =>
       \A q \in Queries :
         LET r == qry[q]
             l == qry'[q]
         IN  r.status \in TcpStatus /\ l # r /\ Listed(q)' =>
               \/ l.status \in TcpStatus /\ l.first = r.first /\ SwitchesLeft(l) <= SwitchesLeft(r)
               \/ /\ l.status = "VOID" /\ l.code \in {"CONNECT", "TIMEOUT"} /\ q \in doneNow'
                  /\ l.first = r.first /\ l.curr = r.first /\ l.retries = 0
               \/ l.status = "VOID" /\ l.code \in {"OK", "TRUNC", "FLAGS", "MALLOC"} /\ q \in told'
               \/ l.status = "UDP" /\ l.code = "VOID" /\ l.first = r.curr /\ l.retries = Retry]_vars

\* A query that waits for a connection has the handshake monitored ("Only one
\* query registers the sd for event monitoring.  Many queries may later be
\* waiting for connection", query_want_connect_tcp()).
ConnectersMonitored ==
  aborted = "no" /\ affected = {} =>
    \A q \in Queries : qry[q].status = "CONNECT" => Sink(qry[q].curr, "w", "connect")

\* A head is received only while one is awaited ("We must be waiting some part
\* of the header", recv_tcp_head()).
HeadAwaited == aborted # "tcp_head_len at head"

\* TCP mode ends: a query that enters it, alone, leaves it or the program ends,
\* although connecting and waiting to send have no timeout of their own.
Ends ==
  \A q \in Queries :
    qry[q].status \in TcpStatus ~> qry[q].status \notin TcpStatus \/ aborted # "no" \/ shared
=============================================================================
