# A verification of RULI

RULI is a stub DNS resolver library written in C around an event loop
(liboop): an application submits queries with callbacks and the library drives
sockets and timers from event handlers.  This directory holds TLA+ modules
translated from the library (`src/src/*.c`), configurations that model-check
them with TLC, and theorems that TLAPS checks.

## The system

| Component | Files | State | Operations |
|---|---|---|---|
| resolver context | `ruli_res.c` | query list, server rotation, id counter, UDP sockets with counts of waiters, search list | create, delete; submit and delete a query; switch server; restart along the search list |
| query FSM, UDP | `ruli_fsm.c` 106-487, 812-1088 | status, server, retries, answer and code of a query | `on_udp_write`, `on_udp_read`, `on_udp_read_timeout`, `query_done_now`, `_ruli_query_status_done` |
| query FSM, TCP | `ruli_fsm.c` 216-269, 489-803, 1106-1665 | per server: descriptor, connecters, writers, readers, partly received head; per query: partly received body | `on_tcp_connect`, `on_tcp_write`, `on_tcp_read`, head and body timeouts, `queries_connect_next` |
| host query | `ruli_host.c` | one resolver query, its name, type, address list | submit, answer (resubmit as A after AAAA, follow CNAME), delete |
| SRV query | `ruli_srv.c`, `ruli_http.c`, `ruli_smtp.c` | record lists by stage, walk and fallback host queries | submit, `on_srv_answer` (sort, weighted selection, additional addresses), walk, A/AAAA and MX fallback, delete |
| front ends | `ruli_search.c`, `ruli_sync.c`, `ruli_getaddrinfo.c` | one search each, an event loop of their own | submit, run the loop, read the answer, delete |
| TI API | `ti_api.c` | a handle: event source, resolver, search list; queries by id | init, start, submit, cancel, run the scheduler, clean, exit |
| messages | `ruli_msg.c`, `ruli_parse.c`, `ruli_txt.c` | none (pure) | build, parse, encode, decode, expand, compare, concatenate names |
| addresses | `ruli_addr.c` | none (pure) | RFC 3484 scope, label, precedence, ordering; reading IPv6 texts |
| lists | `ruli_list.c` | array, size, capacity | push, insert, shift, drop, prune |
| configuration | `ruli_conf.c` | none | the lists of `resolv.conf` |
| sockets, random numbers, memory | `ruli_sock.c`, `ruli_rand.c`, `ruli_isaac.c`, `ruli_mem.c` | - | I/O and utilities |
| bindings, samples, tools | `guile`, `java`, `lua`, `perl`, `php`, `sample`, `ti_sample`, `tools` | - | callers of the API |

The library is single-threaded: a handler or an API call runs to its end.  What
is concurrent is everything between handlers: many queries share a socket and
one registration with the event loop, answers may be late, repeated, lost or
for a server already left, timeouts race answers, results wait on the event
loop (`query_done_now`) while the application may cancel, sockets may fail at
any point, and the application acts from inside callbacks.

What has to be right, per component:

- *query FSM*: the counts of waiters match the waiting queries and a
  descriptor is monitored while somebody waits on it; a timeout exists exactly
  while an answer is awaited; a submitted query always has something due until
  its one callback, and nothing afterwards; an answer ends the query it was
  asked for; a query gives up only after all its turns; a shared connection
  that fails leaves nobody behind; a deleted resolver or query is not referred
  to again.
- *host query*: each host is asked for the types that are allowed and reported
  once, with the addresses of every answer.
- *SRV query*: every record is used once, in order of priority and weighted at
  random inside it; walk and fallbacks end in exactly one callback; every
  address is owned once, and by its own target.
- *front ends, TI API*: a loop returns with the answer and not before; nothing
  is kept between two calls, whichever step failed.
- *lists*: a list is the sequence it stands for; the index a query carries is
  its place, whatever is dropped.
- *messages, addresses, configuration*: the functions that read one format
  agree with each other and with the format; the comparison is an order.

## Modules

| Module | What it is |
|---|---|
| `RuliQuery` | the promise to the application of one query: called back once unless deleted first, never when not held |
| `RuliRotation` | the rotation of a query over the servers, with retries; shared by the next two |
| `RuliUdp`, `MCRuliUdp` | resolver context and query FSM over UDP; TCP reduced to what it can do to a query |
| `RuliTcp`, `MCRuliTcp` | query FSM over TCP; UDP reduced to one status |
| `RuliHost`, `MCRuliHost` | a host query on top of the promise of a resolver query |
| `RuliSrvOrder` | the ordering of the SRV records of an answer |
| `RuliSrv` | the life of a SRV query: answer, walk, address and MX fallback, deletion |
| `RuliSync` | the synchronous front ends and `ruli_getaddrinfo()` around a query of `RuliSrv` |
| `RuliTi`, `RuliTiAnswer` | the TI API: handle, queries, scheduler and memory; how it reads a host answer |
| `RuliList`, `RuliSequence` | the list, and the sequence it implements |
| `RuliName`, `RuliMessage` | names and messages, on octets |
| `RuliAddr`, `RuliInet6` | the order of addresses; the reading of IPv6 texts |
| `RuliConf` | the lists read from `resolv.conf` |
| `MCRuliData` | the last eight, from `RuliTiAnswer` on, on bounded inputs |
| `RuliUdp_proofs`, `RuliTcp_proofs`, `RuliHost_proofs`, `RuliSrvOrder_proofs`, `RuliTi_proofs` | the theorems about the module of that name |
| `RuliSync_proofs` | those about `RuliSrv` and `RuliSync` |
| `RuliData_proofs` | those about `RuliList`, `RuliAddr`, `RuliTiAnswer`, `RuliName` and `RuliConf` |
| `RuliLoops` | lemmas on loops and sequences the proofs share; no part of the model |

How they rest on each other:

- `RuliUdp` makes the calls `RuliQuery` promises (`CallsBackOnce`), and they come
  unless TCP keeps the query for ever (`Ends`).  What it assumes of TCP
  mode is the operator `TcpMove`; `RuliTcp` states the same as an action
  property (`MovesAsAssumed`), which is proved.
- `RuliHost` assumes `RuliQuery` of its resolver query (one answer, at some
  time, with anything) and implements it for its own caller (`CallsBackOnce`).
- `RuliSrv` assumes it of its SRV query and of its host queries, and that the
  result of a host query fits its rcode (`CodeMatchesRcode` of `RuliHost`).
  Steps 1 to 4 of the answer end in any list of targets, which
  `RuliSrvOrder` orders.
- `RuliSync` extends `RuliSrv`: its actions are those of `RuliSrv` with the
  event loop and the memory of the front ends around them.
- `RuliTi` assumes of the resolver what the others show of it: that a query is
  called back through an event of its own, which a cancellation does not take back
  (finding 2), and that neither a refused query nor the walk of a cancelled one
  leaves the list (findings 5 and 10).

### RuliUdp

One action is one run of a handler or an API call, to its end.

| Variable | Code |
|---|---|
| `queryList`, `nextServer`, `nextQueryId` | `query_list`, `next_server`, `next_query_id` of `ruli_res_t` |
| `sock` | which of `udp_sd`, `udp6_sd` is open |
| `wr[f]`, `rd[f]` | `udp_writers`, `udp6_writers` (`..._readers`), and what is registered for writing (reading): nothing, the descriptor of the open socket, or -1 ("closed"), which no event ever comes of |
| `qry[q]` | `resolver_index`, `query_id`, `first_server`, `curr_server`, `remaining_retries`, `search_index` + 1, `status`, `answer_code`, `resolver` (attached or not) |
| `timers`, `doneNow` | `on_time()` events: `on_udp_read_timeout`, `query_done_now` |
| `wire` | every request sent so far; any of them may be answered at any time, any number of times, or never |
| `app`, `serial`, `up` | what the application holds, the callbacks it saw, and bookkeeping (which submission, turns taken, whose request was answered) |

| Action | Code |
|---|---|
| `Submit`, `Delete`, `ResDelete` | `ruli_res_query_submit()`, `ruli_res_query_delete()`, `ruli_res_delete()` |
| `OnUdpWriteOk`, `OnUdpWriteFail` | `on_udp_write()` by the result of `sendto()` |
| `OnUdpRead` | `on_udp_read()` for a datagram it accepts: flags wrong, truncated (to TCP), no memory, or an answer |
| `OnUdpReadTimeout`, `QueryDoneNow` | the two timed events |
| `TcpGoesOn`, `TcpAnswered` | what the TCP handlers can do to one query |

Shared operators have the names of the functions: `SwitchElseScheduleFinish`
with the new UDP send that follows it, `QueryDone` with `_ruli_fsm_query_done()`
and the search list, `StatusDone`, `FindQueryById`, `Drop`.  Address contents,
names, message bytes and times are abstracted: an answer is good, bad
(`FLAGS`), truncated, or misses the name (SERVFAIL or NXDOMAIN).  An event that
changes nothing (WOULD_BLOCK, an ignored datagram) is a stuttering step.

An assertion is not a guard: where one fails the build would stop (no Makefile
defines `NDEBUG`) and the model goes on, so that it has all the behaviours of the
program and more.  What is asserted is among the properties, and where it fails
among the findings.

TCP is an over-approximation: a query in TCP mode may at any time move to this
or any later server of its rotation, be given up with all turns taken, or be
answered.  One handler that moves several TCP queries at once
(`queries_connect_next()`) is several steps here.

The bounds are `Queries`, `Servers`, `Retry`, `Suffixes`, `IdSpace` (65536 in
the code) and `MaxSubmits`.  Two more constants say how the application
behaves: `CancelIn`, the phases in which it cancels queries that have not been
called back ("udp", "tcp_send", "tcp_other", "finishing"), and `ForgetsFailed`,
whether it frees a query whose submit failed without deleting it.

### RuliTcp

One action is one run of a handler or an API call, to its end, except for
`queries_connect_next()`: the first step of its loop is part of the handler that
calls it (`ConnectNext`), and each round over a query of the failed connection
is a `ConnectNextRound`.  While `affected` is not empty nothing else of the
program runs, so that the split shows nothing the code does not do.

| Variable | Code |
|---|---|
| `queryList`, `qry[q]` | `query_list` and the queries, with `buf` and `body` for `answer_buf` and its part received so far |
| `sd[s]`, `count[s]`, `head[s]` | `tcp_sd` (0 for -1), `tcp_connecters`, `tcp_writers`, `tcp_readers`, and the pieces in `tcp_head_buf` |
| `mon[d]` | the sinks registered for the descriptor `d`, which outlive a `close()` that forgets to cancel them and are inherited by who gets the number next |
| `doneNow`, `affected`, `told` | `query_done_now()` scheduled; the list of `queries_connect_next()`; the callbacks made |
| `conn[s]`, `asked[s]`, `stream[s]` | the connection as the kernel sees it, the requests the server has not answered, and what waits to be read |
| `shared`, `pipelined` | bookkeeping: two queries have been in TCP mode at once; a request went out while another was asked for or its answer not yet read |
| `aborted` | the assertion that failed |

| Action | Code |
|---|---|
| `Submit`, `Delete`, `Truncated` | the API; `start_tcp_query()` for a truncated UDP answer |
| `OnTcpConnected`, `OnTcpConnectFailed`, `OnTcpWrite` | `on_tcp_connect()`, `on_tcp_write()` |
| `RecvTcpHead`, `RecvTcpBody` | the two halves of `on_tcp_read()`, for any number of pieces received; a head that is whole when the connection is given up stays counted |
| `ReadForNobody` | `on_tcp_read()` when no query is listed, which it asserts cannot be |
| `OnTcpReadTimeout`, `QueryDoneNow` | the timed events |
| `Resolves`, `Replies`, `Closes` | the kernel and the server |

`Want`, `Done`, `WantConnectTcp`, `WriteInstead`, `SwitchElseScheduleFinish`,
`QueryDone`, `Users` and `TakeHead` are the functions the handlers share; they
pass on a record `io` of the descriptors, counts and sinks as the handler has
them so far.  A reply is `HeadLen` and `BodyLen` pieces that name their request,
so that a head put together of two replies is seen to be one and shows anything
(`Shown`).  A server is correct: it answers a request on its connection, once
and whole, or closes it; it may answer in any order.  What a head that no
correct server sends would do is outside of the model.

Over TCP assertions fail in single steps of a correct server (finding 9), and to
go on would mean states that make no sense: here a failed assertion ends the
program.  `aborted` names it, nothing happens any more, and the properties claim
nothing from then on.

### RuliHost

One action is one run of `on_host_answer()`, by the way it ends, or one API
call.

| Variable | Code |
|---|---|
| `app` | whether the caller holds the `ruli_host_t`; "lost" after a submit that failed, which leaves the resolver query listed (finding 5) |
| `under` | the resolver query: not attached, listed with nothing due, or pending |
| `qtype`, `rcode`, `answer` | `q_type`, `answer_header.rcode`, and the answer section of `host_query` |
| `addrs`, `code` | `answer_addr_list`, `answer_code` |
| `calls`, `asked` | bookkeeping: callbacks and types asked for since the submit |

| Action | Code |
|---|---|
| `Submit`, `Delete`, `Detach` | the API calls |
| `OnFailure`, `OnBadRcode`, `OnUnparsable` | `on_host_answer()` 150-201 |
| `OnRecords` | the search of the answer: `OnAddresses`, `OnNoMemory`, `OnTooDeep`, `OnNoAddress` by how it ends |

`QueryDone` and `Resubmit` are the two ends of a run; the second may fail and
then calls back too.  The loop over names is the recursive function `Chase`.
An address is its owner and type; an answer is any sequence of at most
`MaxRecords` addresses and CNAMEs.  Records of other classes and types are
left out, since every loop skips them.  `Wanted` is the pair of family
options.

The result tells what the *last* answer was: if the AAAA query brings addresses
and the A query a bad rcode, the result is `RCODE` although the list holds
addresses, and callers that test the result do not look at them.
`CodeMatchesRcode` and `KeepsAddresses` state the two halves of this.

`PendingUntilDone` (the resolver query is pending exactly while the host query
has no result) is proved and not repeated in a run, and so is `CallsBackOnce`,
the safety half of `KeepsPromise`.

### RuliSrvOrder

One action is one round of the loops of `on_srv_answer()` steps 3 and 4
(`ruli_srv.c` 728-898): `InsertByPriority` puts a record into `pri`,
`SelectByWeight` moves one from `pri` to `wei`; the failures of the lists and
the assertions that end the program (`SelectAborts`: on the number drawn, and on
the loop that runs off the list) are actions of their own.

| Variable | Code |
|---|---|
| `rr` | `rr_srv_list`, priority and weight of each record |
| `next` | `j` of step 3 |
| `pri`, `wei` | `pri_srv_list`, `wei_srv_list`, as places in `rr` |
| `code` | how far the handler is, or how it failed |

`Places` says where step 3 may insert and `Inserted` takes the first place;
`Reached` says where the running sum of step 4 has reached the number drawn and
the place nearest to the end is taken.  `Scaled` is the arithmetic of
`ruli_rand_next()`, `(float)(1.0 + max - min) * u / 0xffffffff`: each operand
is converted to single precision, and 0xffffffff becomes 2^32.  `RoundFloat`
rounds to `FloatBits` significant bits, to even in between.  The code has 32
and 24 bits; the instances have `RandBits` = 5 and `FloatBits` = 4, which keeps
a raw value wider than a significand, the only fact the rounding depends on.

### RuliSrv

One action is one run of a callback or one API call, to its end.

| Variable | Code |
|---|---|
| `app`, `opts` | the `ruli_srv_t` is held; `srv_options`, and the fallback given to the submit |
| `query` | the SRV query of the resolver: not submitted (a port in the URI), pending, or answered and still listed |
| `aux`, `asked` | the auxiliary query that is pending (walk, address fallback, MX) and its name |
| `entries`, `walkIndex` | `answer_srv_list`, each entry with its target, priority, weight and addresses; `walk_index` |
| `code`, `lastRcode`, `calls` | `answer_code`, `last_rcode`; bookkeeping: callbacks since the submit |
| `heap` | the addresses that are allocated, each told by whose it is and where it was found |
| `refused` | the resolver lists an auxiliary query whose submit failed and which was freed (finding 5) |
| `misused` | a freed or uninitialised structure was used (findings 5 and 10): nothing is claimed from then on |

| Action | Code |
|---|---|
| `Submit`, `Delete` | `ruli_srv_query_submit()` and its twins of `ruli_smtp.c` and `ruli_http.c`; `ruli_srv_query_delete()` |
| `OnSrvAnswer` | `on_srv_answer()`: steps 1 to 4 by their outcome, the additional section (step 5), the first step of the walk |
| `OnWalkAnswer`, `OnFallbackAnswer`, `OnMxAnswer` | `on_walk_answer()`, `on_fallback_answer()`, `on_mx_answer()` |
| `OnAnswerToDeleted` | any of the three after `Delete` |
| `FindsFreed` | the resolver goes over its list and reads the query that was refused |

`AnswerWalk`, `AnswerFallbackAddr`, `Fallback` and `Done` are the functions the
callbacks end in; `Ask` makes and submits an auxiliary query, which may fail in two ways: there is
no memory for it, or the resolver refuses it.  A refused one is freed by
`ruli_srv.c` 343 and 491 and `ruli_smtp.c` 428 but listed since `ruli_res.c` 515:
the callback comes as it should, and whatever goes over the list afterwards, the
deletion of the SRV query included, is misuse.  The SRV query's own submit, when
it is refused, is deleted properly.  Every step that allocates may fail.  Priorities are 0 and 1, which is what an
order of two entries can tell apart; classes, ports and names as text are left
out.

### RuliSync

`RuliSync` extends `RuliSrv`: the query is the one inside the event loop of a
synchronous call, or one the application drives itself.  `stage` says where the
call is (in `oop_sys_run()`, returned, or none), `caller` who made it, `memory`
which of the event source, the `ruli_sync_t`, the search resolver and the search
are allocated, `outcome` and `aiList` what `ruli_getaddrinfo()` returned.

A synchronous call brings a resolver of its own: what it refuses is deleted
with it, and an assertion fails there (`SyncDelete` ends in `misused`).  A
synchronous call next to an asynchronous query that was refused is left out.

`SyncQuery`, `Made` and `GivenBack` stand for `ruli_sync_query()`,
`ruli_sync_smtp_query()` and `ruli_sync_http_query()` at once, which differ in
what they submit; `SyncQueryFails` gives back what was made before the failure,
as each `if` of the code does.  `LoopReturns` is possible when nothing is
registered, which is what liboop does; that it is not possible too early is a
property (`Returns`, and the theorem `ReturnsWithAnswer`) and not a guard.
`Copied` is the loop of `ruli_getaddrinfo()` over the entries; the names that
cannot be decoded and whether the service has a known port are inputs.

### RuliTi

| Variable | Code |
|---|---|
| `ti`, `gone` | the handle there is; what became of the others |
| `member` | the pointers of `ti_resolver_ctx_t`, by what they point to, and for `handler` whatever was in memory |
| `kind`, `stage`, `from` | each query: host or SRV; waiting, in its walk, in its callback, or how it ended; its handle |
| `listed`, `id`, `next` | `query_list` of the resolver, with the entry of a query and that of the walk it has under way; `query_id`, `next_query_id` |
| `due`, `caller` | the `query_done_now()` scheduled, which outlives a cancellation; whose callback runs |
| `scheduler` | `ti_dns_start_query_scheduler()` runs |
| `heap` | what is allocated |
| `broken` | the undefined behaviour or the failed assertion that ended the program |

The heap is kept apart from the books.  An allocation puts a pair of a thing and
its owner into it, and a `free()` takes out what the code names: `FreedAtExit`
goes by the members as `ti_dns_exit_resolver()` does, `FreedAtCancel` and
`FreedAtClean` list the calls of the two functions.  To free what is not there is
`broken = "freed_twice"`.  Nothing says that what was allocated is what is freed
or what is needed: that is what the two properties are about.  `NoDangling` says
that what can be reached is allocated: by the members of the handle, the list,
the events and the running callback.  `NothingLost` says that what is
allocated can be reached, and names, by the way a handle or a query ended, the few
things the code is known to leave.

The application may call anything at any time, in callbacks as well: it cancels
by an id it was given, which finds whatever query has that id now (`QueryId`,
modulo `IdSpace`).  As `ti_api_demo.c` does, it cleans a query up in its callback,
unless it cancelled it there, and exits without queries of its own.  Even so the exit
finds the walk of a cancelled query, or a query that was refused, still listed, and
the assertion of `ruli_res_delete()` fails (`broken = "listed"`).  What ends the
program ends the model, and both properties say which ends there can be.  An empty
interface text is not modelled.

`RuliTiAnswer` has the code and the addresses that
`ti_dns_parse_hostname_answer()` makes of an answer, as the recursive functions
its loops are.  An alias whose name cannot be decoded leaves in the buffer what
had been written of it, which is then the name wanted if an alias was followed
before; `room` is how many addresses there is memory for, beyond which it returns
`TI_DNS_ERROR`.  An owner that cannot be read fails an assertion (`ti_api.c` 552) and
is left out.

### RuliList and the modules on data

`RuliList` is the array of `ruli_list.c` with its doubling; a place that was
given up keeps what it held.  `RuliSequence` is what the header promises, and
`Listed` maps one to the other (`IsASequence`).

The other modules have no state.  Their operators are the functions of the
code, over octets (`RuliName`, `RuliMessage`), an address and the source the
system would use for it (`RuliAddr`), or the classes of characters and words the
code tells apart (`RuliInet6`, `RuliConf`).  A loop is a recursive function.  A
function that fails returns `Bad`, one that fails an assertion "abort".

Names go through buffers of three sizes: an encoded name has 255 octets
(`NameLimit`), a text is decoded into 254 (`TextBuffer`) and the owner of a record
extracted into 256 (`OwnerBuffer`).  `dname_decode()` reads lengths through a
`const char *`: where a char has a sign the lengths from 128 on (`CharSign`) are
negative, always fit, and are copied as huge sizes (`Wild`).  The readers
accept any length below 192 while the encoder refuses those above 63.  The
properties say so: they hold of all names up to these three differences, and
each difference is in the sample.

`MCRuliData` picks one input at a time and
states what the functions compute:

- `AddressesAreRead`: an IPv6 address is read for what it means, and a text that
  is none is not read, but for a "::" where there are groups enough without it
  (below).  A group that does not fit in 16 bits ("big") is refused in front of
  a "::" and behind it; a word that is no number reads as 0 right behind it;
- `NamesAgree`: the four readers of names agree on which names there are and
  where they end, up to the sizes of their buffers; what they read is encoded as the
  name it was, if its labels can be written; concatenation joins the texts; and
  the decoder runs wild only on a length that is negative as a char, and the encoder
  goes beyond the limit by no more than two octets;
- `MessagesParse`: the query that was built is parsed back, a message is taken for
  whole exactly if it is and then cut into the records it was made of, and the name
  in a CNAME, MX or SRV record is read alike;
- `AddressesAreOrdered`: the comparison is antisymmetric under every option, and
  transitive with RFC 3484 and IPv6 first; the policy found for an address is the
  one with the longest prefix that matches;
- `AddressesOfTheDomain`: the addresses of a host answer are those of the domain
  and of the aliases that come before them;
- `ListsInOrder`: a list of `resolv.conf` has the words of every line of its
  directive up to the first that is refused, in the order of the file, when the
  lines fit in the buffer.

Operators whose names start with `Mutant` are not part of the specification.
Each is the definition that follows it with a plausible bug in it, kept to test
that the properties would notice.

## Runs

All runs have `CHECK_DEADLOCK FALSE`: when the resolver is deleted, the
application has nothing more to submit, the handler or the program has ended, or
the sample has been looked at, the system stops.

| Run | Instance | Shows |
|---|---|---|
| `udp_core` | 3 queries, 3 submissions, an IPv4 and an IPv6 server, 4 ids, no retry, symmetry | `MonitorsMatchWaiters`, `TimersMatchWaits`, `ListIndexed`, `AnswersItsOwnRequest` |
| `udp_live` | 2 queries, 2 submissions, 2 servers of a family, 1 retry, 1 suffix, `FairSpec` | `PendingIsScheduled`, `GivesUpAfterAllTurns`, `CallsBackOnce` (refinement of the steps of `RuliQuery`), `Ends` |
| `tcp_core` | 2 queries, 2 submissions, 2 servers, heads of 2 pieces and bodies of 1, symmetry; 1.5 million states | `CountsMatchWaiters`, `WaitsOnOpenSocket`, `PendingIsScheduled`, `WaitersMonitored`, `WholeAnswers`, `MovesAsAssumed` |
| `tcp_live` | 1 query, 2 submissions, 2 servers, `FairSpec` | `Ends` |
| `host_query` | 3 names, both families, 1 CNAME deep, every answer of 2 records, `FairSpec` | `CodeMatchesRcode`, `AsksEveryType`, `KeepsAddresses`, `ChaseIsRight` (the search against a definition by chains), `KeepsPromise` (refinement of `RuliQuery`) |
| `srv_order` | 3 records, priorities and weights 0..2, all raw random values | `NothingLost`, `WeightGivesChance`, `ChoiceInBlock`, `RightWhenDescending` |
| `srv_query` | `RuliSync`: 2 targets and the domain, answers of 2 records, 2 addresses a host, all options, `FairSyncSpec` | `PendingUntilDone`, `AddressesOwned`, `OkIsComplete`, `MxInOrder`, `MemoryMatchesStage`, `CopiesInOrder`, `Returns` |
| `ti_api` | 2 queries of either kind, 2 handles made either way, ids modulo 3, 5 of them; 650 thousand states | `NoDangling`, `NothingLost` |
| `data` | lists up to 4 places, texts of 9 marks, pieces of 6 octets out of 6, with names of 5, labels of 1 that can be written and lengths of 3 that are negative, whole messages, 39 destinations by scope, label and family, with and without a source, answers of 4 records, files of 2 lines | `IsASequence` and the six properties above |
| `cancel_finishing`, `srv_unsorted`, `tcp_lost_connecter` | the smallest instance that shows it | findings 2, 6 and 8 |

The `TypeOK` of every module is proved for all constants and not repeated in
a run, and neither are some invariants the theorems rest on.

Why the bounds are enough:

- `udp_core`: three queries are needed for a drop that moves a query other than
  the last two of the list, two for every sharing of a socket; two servers for a
  rotation, a late answer of the server left and, being of two families, a
  switch of socket.  The third submission reuses a structure while an answer to
  its earlier life is on the wire.  `udp_live` has the smallest retry and suffix
  for which both counters and their reset are exercised, and servers of one
  family: with two, finding 4 refutes `PendingIsScheduled` and `Ends`.
- `tcp_core`: two queries share a connection and two servers are switched
  between; two pieces of a head are the fewest it can be received in part with,
  and a second query can come in between.  A body of one piece is received whole
  or not at all; that a body received in part is handled wrong is finding 9.
- `host_query`: three names and two records give a chain that ends at addresses,
  one that ends at none, one that is too deep, circles, and two CNAMEs of one
  owner of which the first counts.
- `srv_order`: three records give a block of two before, after or around a
  record of another priority, and three weights a record with none, a light one
  and a heavy one in a block.
- `srv_query`: two entries are a walk that skips the first, the second, both or
  none, a MX order that is changed or not, and a failure after the first; two
  targets are entries of one target or of two.
- `ti_api`: two queries are one that is cancelled or called back while another
  is in use, or while it is found by the id of the first; a second handle is made
  after the first was exited, or could not be made, with what that left.  Ids wrap
  within the five that are given, which two queries and their walks can use up.
- `data`: a list doubles twice (1, 2, 4) before it is full.  With `Words` = 4 a
  text of 9 marks has one more than the longest address; the limits of a
  name are scaled so that names of 6 octets exceed each of them, and a pointer can
  point at a pointer.  The octets are a zero; the lengths 1, which can be written, 2,
  which is read but not written, and 3, which is negative as a char; a dot; and the
  mark of a pointer.

Fairness:

- `udp_live`: the event loop dispatches what is due, so each timed event and
  the writability of each monitored socket are weakly fair.  That nothing is
  assumed of answers is the point: a query must end by its timeouts.  Nor is
  anything assumed of TCP mode, in which finding 8 and the waits without a timeout
  can keep a query for ever: `Ends` says that nothing else can.
- `tcp_live`: the same of the event loop, and the kernel settles a handshake and
  lets a socket become writable.  `ruli_fsm.c` 25-31 says that these two waits
  have no timeout, so that without the kernel's help nothing ends them.  Nothing
  is assumed of the server.
- `host_query`, `srv_query`: a pending query is answered.  `udp_live` and
  `host_query` show it of the layer below, for queries that TCP does not keep and
  servers of one family; elsewhere it is a hypothesis of these runs.
  `oop_sys_run()` returns when nothing is registered.

## Findings

Three are shown by runs that expect a violation.  The others were met with the
same modules; the name in brackets is the property that TLC refutes when it is
put into a configuration, or none where the model takes the outcome as it is.

1. [`CountsNotNegative`, `CancelIn = {"tcp_send"}`]
   `_ruli_query_status_done()` (`ruli_fsm.c` 1681-1683) treats a query that wants
   to send over TCP as a UDP reader; `udp_readers` goes below zero.
2. Run `cancel_finishing`: deleting a query does not cancel its scheduled
   `query_done_now()`; the callback comes after the deletion.
3. [`ProperSocket`] With servers of both families an answer of the server left
   is accepted while the query waits on the other socket (`ruli_fsm.c` 1017; the
   assertion at 1027-1041 says this cannot be).
4. [`WritersMonitored`, servers of both families] `start_query()` opens the UDP socket
   of the query's first server only (`ruli_res.c` 418).  After a switch to the other
   family descriptor -1 is registered, nothing comes of it, no timeout runs, and the
   query is never called back.
5. [`QuietAfterDelete`, `ForgetsFailed = TRUE`] A submit that fails leaves the
   query listed, and the TI API frees it (`ti_api.c` 340-348), as `ruli_srv.c` and
   `ruli_smtp.c` do with their auxiliary queries (`Refused` of `RuliTi`, `refused` of
   `RuliSrv`).
6. Run `srv_unsorted`: the sort by priority (`ruli_srv.c` 783-791) marks an
   inserted record as handled in one variable and tests another, so the record
   is inserted and pushed at the tail: the result has duplicates and is not in
   order.
7. [`NumberInRange`] `ruli_rand_next()` returns `max` + 1 for the raw values that
   single precision rounds up to 2^32, and its own assertion (`ruli_rand.c` 57)
   ends the program.
8. Run `tcp_lost_connecter`: a query that joins a connection whose handshake is
   under way replaces the sink of the handshake with its own (`ruli_fsm.c` 665),
   and whoever waits for the handshake waits for ever.
9. [`HeadAwaited` and its like, `aborted = "no"`] Assertions of the TCP half that
   fail: a query that wants to send and is deleted is taken for a UDP reader
   (finding 1); `recv_tcp_head()` takes the query with the answer's id for one
   that waits for a head (1466-1488); a body received in part when the timeout
   comes is still there when the query finishes; `recv_tcp_body()` knows no
   closed connection (1575).
10. [`AuxHasOwner`] Deleting a SRV query does not reach its auxiliary query, whose
    callback then works on a freed structure (`ruli_srv.c` 1219); deleting one
    that was never submitted, because its URI had a port, reads members nobody
    has set.
11. [`OneBodyReader`, three queries, `HeadLen` = `BodyLen` = 1] With three queries two of
    them can read a body from one socket, which `on_tcp_read()` excludes in a
    comment and relies on.
12. [`EncodedFits`] `ruli_dname_encode()` compares the length of the text with the
    limit of the encoded name (`ruli_txt.c` 95), so that texts of 254 and 255
    characters are encoded in 256 and 257 octets, where a comment gives 255.
13. [`ReadersAgree` without `Short`] `dname_decode()` reads a length as a `char`
    (`ruli_txt.c` 184): where a char has a sign, those of 128 to 191, which the
    other readers accept, pass the test of the buffer's size as negative numbers and
    are copied as huge ones.

Met while reading, and in the modules only as an outcome:

- `ti_api.c`: cancelling a host query keeps its domain string and cancelling a
  SRV query all but the inside of its search (`FreedAtCancel`); a cancellation by an
  id that was used again finds the wrong query; `handler` is read and
  maybe freed uninitialised at 1299; two failures of the start delete a resolver
  that was never made (`InitResolverFails`); the answer is not given back when an
  address cannot be saved (641); nothing is locked.
- `ruli_txt.c` 481 and `ruli_parse.c` 500 and 509 assert on what came from the wire:
  `SameName` and `AddrRr` return "abort".
- `ruli_getaddrinfo.c` 175-179: the nodes made before memory ran out are lost.
- `ruli_search.c`: `res_interface` of a search resolver made without one is
  freed as it was found in memory (`SyncDelete` may set `misused`).
- `ruli_addr.c` 967: ties are broken by the places of the elements while
  `qsort()` moves them; `ruli_addr.c` 308: a "::" is accepted although no word is
  left for it.
- `ruli_parse.c` 130: a message that ends with the name of a record fails an
  assertion.  `ruli_conf.c` 76: a longer line is read in parts, each taken for a
  line.

The passing runs and the theorems about `RuliUdp` exclude 1 and 2 through
`CancelIn`, 5 through `ForgetsFailed`, and 4, where it matters
(`PendingIsScheduled`, `Ends`), through servers of one family; with two families
`MonitorsMatchWaiters` says that the counts are right and that something is
registered exactly while a query waits, if only -1.  3 does not disturb what is
stated of mixed instances.  6 is not excluded: `NothingLost`,
`ChoiceInBlock` and `WeightGivesChance` hold in spite of it, and
`RightWhenDescending` says in which answers it has no effect.  Nor is 7: the program ends there, and the others go on.
8 is excluded
for connecters and writers through `shared`, 9 through `aborted`, 10 and what
5 does to a SRV query through `misused`, all of them in `RuliTi` through `broken`; what is claimed is claimed
up to there.  12 and 13 are the premises `Writable` and `Short` and the sizes of buffers in
`NamesAgree`.

Ids are 16 bits wide and wrap without regard to the queries still listed
(`ruli_res.c` 525), and answers are matched by the id alone.  The runs have more
ids than submissions and do not meet two queries with one id.  All theorems but
one hold for any `IdSpace`, so the bookkeeping stays right even then; the one is
`OwnAnswers`, which is false of ids used twice.

## Proofs

### RuliUdp_proofs

Proved for every value of the constants that satisfies `ConstantsAssumption` and
an application that cancels in no phase of findings 1 and 2 (`SafeCancel`):

| Theorem | Always |
|---|---|
| `TypeCorrect`, `Monitors`, `Timers` | `TypeOK`, `MonitorsMatchWaiters`, `TimersMatchWaits` |
| `NeverForgotten` | `PendingIsScheduled`, if all servers are of one family (`OneFamily`, finding 4) |
| `AllTurnsTaken` | `GivesUpAfterAllTurns` |
| `OwnAnswers` | `AnswersItsOwnRequest`, if `MaxSubmits <= IdSpace` |
| `Indexed`, `Quiet` | `ListIndexed`, `QuietAfterDelete`, if no query is forgotten whose submission failed (`~ForgetsFailed`, finding 5) |
| `NoLateCallback` | `NoCallbackAfterDelete` |
| `Implements` | `CallsBackOnce`: every step is a step of `RuliQuery` or leaves its state alone |

None of the first three is inductive alone.  A counter is decremented by the
handler of a waiting query, so it stays a natural number only because it counts
the waiters; that `OnUdpReadTimeout` finds a waiter needs `TimersMatchWaits`;
that `Submit` meets an idle structure and `QueryDoneNow` one that was not called
back needs that a query is pending exactly while it waits somewhere or its end is
scheduled.  The conjunction is inductive, and
`IInv` says it per socket side (`Follows(side, WaitersOf(...))`) and per query
(`InOrder(q)`), so that a step answers only for the query it moves.  The
argument: lemmas about counting (`AddWaiter`, `DropWaiter`: `Want` and `Done`
add and remove one element of the set of waiters), lemmas about what each shared
operator does (`SwitchElse`, `CallbackTells`, `StartWrites`, `QueryDoneStep`,
`TcpMoveStep`), `StepAt` (a step that moves one query and leaves it in order
preserves `IInv`), one lemma per action, and the temporal step.

The others add one invariant each to `IInv`:

- `Identified` (theorem `Ids`): the next id is the number of submissions modulo `IdSpace`, and
  every request on the wire and every query has the id of its submission.
  `on_udp_read()` goes by the id alone, so the answer is the query's own only
  while no id is used twice; hence the bound on `MaxSubmits`.
- `InTurn`: the turns a query has had and those left to it (`SwitchesLeft`) add up
  to `Retry + 1` at every server.  This covers the way back from TCP, where the
  rotation is started anew.
- `CalledWhileHeld`: only a query the application holds has been called back.
- `Ready`, for `NeverForgotten`: the socket of the one family is open while any query
  is pending, and -1 was never registered.
- `FreeWhenDown`: a deleted resolver leaves no query held.

### RuliTcp_proofs

Proved for any number of queries, servers, pieces, retries and suffixes:
`TypeCorrect`, `Counts`, `SocketsOpen`, `NeverForgotten`, `Monitored` (always
`TypeOK`, `CountsMatchWaiters`, `WaitsOnOpenSocket`, `PendingIsScheduled`,
`WaitersMonitored`), `Moves` (`Spec => MovesAsAssumed`), on which `RuliUdp`
rests, and `Whole` (always `WholeAnswers`).

A handler takes a query out of the counts, moves it and puts it back, so the
invariant holds of the intermediate values only with that query left out:
`Fits(io, l, W, affected, shared)` says that the counts, sinks and sockets of
`io` fit the queries `l` except for those in `W`, who are between two waits.  The
inductive invariant is `Fits` with nobody in between, with the schedule of every
query and the plain types; each function the handlers share has a lemma that
takes `Fits` before to `Fits` after, and each handler's lemma chains them.
`Moves` needs besides that the rotation has a measure: `SwitchesLeft` does not
grow while a query stays in TCP mode.

`WholeAnswers` says that an answer taken off a connection is one answer from its
first octet to its last, as long as no request went out while another was under
way.  Its invariant says where a connection is (`Orderly`): nothing is under way;
one request is asked for; the head of its answer is arriving, `k` octets read and
the rest in the stream; or its body is.  With it go that a query that waits for
a head or a body there has that request's id (`Only`), what a query has of a
body (`Held`), and that a closed connection has nothing left in it (`Closed`).

### RuliHost_proofs

Proved of every set of names, every length of answer and every depth, with one
family or both: `TypeCorrect`, `Pending`, `CodeAndRcode`, `EveryType`,
`ChaseRight` (always `TypeOK`, `PendingUntilDone`, `CodeMatchesRcode`,
`AsksEveryType`, `ChaseIsRight`), `AddressesKept` (`Spec => KeepsAddresses`), and
`Implements` (`Spec => CallsBackOnce`, the safety part of `KeepsPromise`).

The invariant adds what a pending query looks like (`Asking`: no callback yet,
and either the first type or all types asked for).  The lemma `AnswerStep`
reduces the ways a run of `on_host_answer()` may end to two, `AsksAgain` and
`Finishes(c)`.  `ChaseRight` is about data: that the loop over the records of an
answer, and the loop over names around it, compute what the definition by chains
says, for answers of any length.  Both loops are unfolded by induction with the
lemmas of `RuliLoops`.

### RuliSrvOrder_proofs

Proved of any number of records, priorities, weights and widths: `TypeCorrect`,
`Complete`, `Choice`, `RightOrder` (`TypeOK`, `NothingLost`, `ChoiceInBlock`,
`RightWhenDescending`).  What `Choice` rests on is that the weight of the block
is the running sum at the block's first place, so that a number not above it is
reached inside.  The invariant for `RightOrder` says that, of such an answer,
`pri` holds the first records in their order and `wei` the others from the last
one backwards.

### RuliSync_proofs

Proved of a SRV query, for any targets and any number of records and of
addresses: `TypeCorrect`, `Pending`, `EmptyBefore`, `AddressesHaveOwner`,
`Completes` and `MxOrder`.  Inductive is what holds while the walk stops at an
entry: the list is in order and owns its addresses (`ListOK`), every entry before
the index has some (`AtEntry`), and the query asks for that entry's target.  That
an address found cannot be there already follows from where it was found: no
entry before the index, nor after it, has addresses of that walk.

Of the front ends around it: `SyncTypeCorrect`, `ReturnsWithAnswer`,
`KeepsNothing`, `SyncKeepsSrv`, which carries what is proved of a SRV query over
to the composition, and `CopiesKeepOrder` (`SyncSpec => CopiesInOrder`).
`SyncIInv` adds the books of the front ends to the invariant of `RuliSrv`.
`CopyInv` adds that, of a query without the MX fallback, every address was found
for the place its entry has (`Placed`), for nothing sorts the entries once the
walk has begun; that the copy of the lists keeps that order is the lemma
`FlattenedInOrder`.

### RuliTi_proofs

Proved for any number of handles and queries: `TypeCorrect`, `NothingDangles` and
`LeavesNothing` (always `TypeOK`, `NoDangling`, `NothingLost`).  The invariant says of
every handle and query, by its stage, what of it is in the heap, from above and from
below, and which of its entries are listed and scheduled.  That a query's entry is listed
exactly while it is at work is what makes its callback find it; that the members are one
of the two ways to make a handle (`MembersFor`) is what makes the exit, which goes by the
members alone, free what was made; and that every entry the resolver or the application
has the number of has a number of its own below `next` is why an id finds the wrong
query only once all are used.  What a step frees belongs to one query or to the
handle, and the others are not touched since an object is a pair with its owner.

### RuliData_proofs

- `ListTypeCorrect` and `ListIsASequence`, the refinement of `RuliSequence`, of any
  items and capacities: every call on the array is the same call on the sequence,
  whether it doubled or not.  The invariant adds that the capacity is never zero,
  without which doubling would make no room.
- `AddressOrder`: the comparison of two destinations is antisymmetric under every
  option, and transitive with RFC 3484 and IPv6 first, of destinations of any
  octets (`AnyDestination`), where the run samples.  A destination has a key of
  seven numbers, the comparison is the lexicographic one of keys, and that is
  transitive.
- `FirstPolicyIsLongest`: the policy found for an address is the one with the
  longest prefix that matches, of any address.
- `AddressesOfDomain`: what `ti_dns_parse_hostname_answer()` takes out of an answer
  of any length are the addresses of the domain and of the aliases before them.
- `NamesOfAMessage`: wherever a name begins in a message of any length and of any
  octets, the functions that expand, extract, decode, encode, compare, join and skip it
  agree, under any limits and with either sign of a char.  What is said of the decoder
  is said of names without a length that is negative as a char (`Short`), and
  what is said of the encoder, and that texts that match are of one name, of names
  whose labels can be written (`Writable`): short enough and without a dot, for a
  dot inside a label makes the text have a label more.  The argument has three parts.
  `Written(L)` is the least set that holds the root with the empty text and, with
  every name and text, those with a label of `L` before them; a walk that succeeds
  finds a member (`ReadAsWritten`, by induction along the walk: a pointer leads to a
  stop with fewer pointers left, a label to one with less room).  Every member is
  decoded as its text and encoded from it, behind any front (`DecodedIs`,
  `EncodedIs`, by induction over `Written`).  And where skipping succeeds as well, it
  ends behind the name or behind a pointer to its rest (`SkippedIsRead`, where a walk
  with more room finds the same, `WalkFindsMore`).
- `ListOfAFile`: from a file of any number of lines, of any words, each of which
  fits in the buffer, the list has the words given and no others, as many as there
  are and in the order of the file.  What the lines from the n-th on give is a
  row of places in front of those of the next (`RowInFront`), and the place of a word
  in the list is the number of places given up to it.
- `DestinationsOrdered`, `AnswersRead` and `FilesLoaded` give of
  these what the run `data` checks (`AddressesAreOrdered`, `AddressesOfTheDomain`,
  `ListsInOrder`), for any bound on its answers.  `NamesOfAMessage` has the parts of
  `NamesAgree` but for `DecoderRunsWild` and
  `EncoderOverruns`, and of all octets instead of the run's six.

### RuliLoops

An induction theorem that takes an operator as a parameter cannot be used here,
so induction goes by the least number of a set (`LeastNumber`, from the
well-foundedness of `<` on the naturals): suppose the set of counterexamples is
not empty, and look at its least.  `CountedUp` is that as a rule on sets, and
`Rounds` says that the function a loop is written as satisfies its equation.
`Recursion` says the same of any recursive function whose value at a place depends
on those at places of a smaller size, `Onward` and `Backwards` of loops that run in
one direction, and `BySize` and `CountedDown` are the rules of induction that go
with them.  `Joined`, `FlattenRounds` and `FlattenedInOrder` are about
concatenation, `JoinedAt`, `Between` and `PartsJoined` about the parts of a
sequence, and `SetAsSequence` about the order a set is read in.  It is for these proofs that
loops are written as recursive functions over the places of a sequence.

### Only model-checked

- Liveness: `KeepsPromise` of `RuliHost` as far as something must
  happen, `Ends`, `Returns`.
- `WeightGivesChance`: that some number reaches each record of positive weight is a
  matter of scaling (a product, a quotient, a power of two) beyond the provers.
- `DecoderRunsWild` and `EncoderOverruns`: that the decoder fails or runs wild on a name
  with a length that is negative as a char, and runs wild on no other; how long the
  encoder's names can be.
- `AddressesAreRead` and `MessagesParse`, which relate several nested loops over
  octets or words to each other.  Induction as above would reach them; the proofs
  have not been done.

## Not modelled, and what is left

- Socket calls and the reading of files are I/O; their outcomes are
  nondeterministic choices or inputs.  The generator of `ruli_isaac.c` is a
  nondeterministic choice, `ruli_mem.c` wraps `malloc()`.
- Ports, hints, wording and logging; the accessors of the TI API; the text of an
  IPv4 address, which `inet_aton()` reads.
- Bindings, samples and tools call the API as the front ends do and keep no state
  the library depends on.
- Left for later: proofs of `MessagesParse` and `AddressesAreRead`; one
  module in which `RuliUdp` and `RuliTcp` share the resolver, now joined by
  `MovesAsAssumed` alone; the composition of `RuliTi` with `RuliSrv`.
