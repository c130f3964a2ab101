---------------------------- MODULE RuliTcp_proofs ----------------------------
(***************************************************************************)
(* Proofs about RuliTcp, for any number of queries, servers, retries and    *)
(* submissions and any way an answer may be cut into pieces.                *)
(***************************************************************************)
EXTENDS RuliTcp, FiniteSetTheorems, SequenceTheorems, WellFoundedInduction, TLAPS

-----------------------------------------------------------------------------
(* Turns of a query.                                                       *)

LEMMA ModRange ==
  ASSUME NEW i \in Int
  PROVE  i % Servers \in ServerIndex
BY ConstantsAssumption DEF ServerIndex

LEMMA TurnsType ==
  ASSUME NEW r \in Query
  PROVE  /\ r.curr \in ServerIndex /\ r.first \in ServerIndex /\ r.retries \in 0 .. Retry
         /\ r.curr \in Int /\ r.first \in Int /\ r.retries \in Nat
<1>1. r.curr \in ServerIndex /\ r.first \in ServerIndex /\ r.retries \in 0 .. Retry
  BY DEF Query
<1>. QED  BY <1>1, ConstantsAssumption DEF ServerIndex

LEMMA SwitchesLeftType ==
  ASSUME NEW r \in Query
  PROVE  SwitchesLeft(r) \in Nat
<1>1. (r.curr - r.first) % Servers \in ServerIndex
  BY TurnsType, ModRange
<1>2. r.retries * Servers \in Nat
  BY TurnsType, ConstantsAssumption
<1>. QED  BY <1>1, <1>2, ConstantsAssumption DEF SwitchesLeft, ServerIndex

\* Queries that differ in their turns at most.
SameBut(r, l) ==
  /\ l.id = r.id /\ l.first = r.first /\ l.search = r.search /\ l.status = r.status
  /\ l.code = r.code /\ l.buf = r.buf /\ l.body = r.body

LEMMA AtType ==
  ASSUME NEW r \in Query, NEW c \in ServerIndex, NEW n \in 0 .. r.retries
  PROVE  At(r, c, n) \in Query /\ SameBut(r, At(r, c, n)) /\ At(r, c, n).curr = c /\ At(r, c, n).retries = n
<1>1. n \in 0 .. Retry
  BY ConstantsAssumption DEF Query
<1>. QED  BY <1>1 DEF At, Query, SameBut

LEMMA SwitchedType ==
  ASSUME NEW r \in Query
  PROVE  Switched(r) \in Query /\ SameBut(r, Switched(r))
<1>1. NextOf(r) \in ServerIndex
  BY TurnsType, ModRange DEF NextOf
<1>. DEFINE n == IF NextOf(r) = r.first /\ r.retries >= 1 THEN r.retries - 1 ELSE r.retries
<1>2. n \in 0 .. r.retries
  BY TurnsType
<1>. HIDE DEF n
<1>3. At(r, NextOf(r), n) \in Query /\ SameBut(r, At(r, NextOf(r), n))
  BY <1>1, <1>2, AtType
<1>. QED  BY <1>3 DEF Switched, n

LEMMA LaterType ==
  ASSUME NEW r \in Query, NEW l \in Later(r)
  PROVE  l \in Query /\ SameBut(r, l) /\ SwitchesLeft(l) <= SwitchesLeft(r)
<1>1. PICK c \in ServerIndex, n \in 0 .. r.retries : l = At(r, c, n)
  BY DEF Later
<1>2. l \in Query /\ SameBut(r, l)
  BY <1>1, AtType
<1>3. SwitchesLeft(l) <= SwitchesLeft(r)
  BY DEF Later
<1>. QED  BY <1>2, <1>3

-----------------------------------------------------------------------------
(* What waiting does to the counts and the sinks.                          *)

IoType ==
  [sd : [ServerIndex -> Descriptors \cup {0}], count : [ServerIndex -> [Sides -> Nat]],
   mon : [Descriptors -> [Events -> Sides \cup {"none"}]]]

\* Only the sink of this descriptor's event may differ.
SameSinksBut(io, new, s, event) ==
  \A d \in Descriptors, e \in Events :
    d # io.sd[s] \/ e # event => new.mon[d][e] = io.mon[d][e]

Changed(io, new, s, side, n) ==
  /\ new \in IoType /\ new.sd = io.sd
  /\ new.count[s][side] = n
  /\ \A t \in ServerIndex, other \in Sides :
       t # s \/ other # side => new.count[t][other] = io.count[t][other]
  /\ SameSinksBut(io, new, s, Event(side))

LEMMA EventType ==
  ASSUME NEW side \in Sides
  PROVE  Event(side) \in Events
BY DEF Event, Events, Sides

LEMMA RegisterEffect ==
  ASSUME NEW io \in IoType, NEW s \in ServerIndex, NEW side \in Sides, NEW sink \in Sides \cup {"none"}
  PROVE  LET new == Register(io, s, side, sink) IN
         /\ Changed(io, new, s, side, io.count[s][side])
         /\ io.sd[s] # 0 => new.mon[io.sd[s]][Event(side)] = sink
<1>. DEFINE d == io.sd[s]  e == Event(side)  new == Register(io, s, side, sink)
<1>1. d \in Descriptors \cup {0} /\ e \in Events
  BY EventType DEF IoType
<1>2. CASE d = 0
  BY <1>2 DEF Register, Changed, SameSinksBut
<1>3. CASE d # 0
  <2>1. new = [io EXCEPT !.mon = [io.mon EXCEPT ![d] = [io.mon[d] EXCEPT ![e] = sink]]]
    BY <1>3 DEF Register
  <2>2. io.mon \in [Descriptors -> [Events -> Sides \cup {"none"}]] /\ d \in Descriptors
    BY <1>1, <1>3 DEF IoType
  <2>. DEFINE m == [io.mon EXCEPT ![d] = [io.mon[d] EXCEPT ![e] = sink]]
  <2>3. /\ m \in [Descriptors -> [Events -> Sides \cup {"none"}]] /\ m[d][e] = sink
        /\ \A c \in Descriptors, f \in Events : c # d \/ f # e => m[c][f] = io.mon[c][f]
    BY <1>1, <2>2
  <2>. HIDE DEF m, d, e
  <2>4. /\ new \in IoType /\ new.sd = io.sd /\ new.count = io.count /\ new.mon = m
    BY <2>1, <2>3 DEF IoType, m
  <2>. QED  BY <2>3, <2>4 DEF Changed, SameSinksBut, d, e
<1>. QED  BY <1>2, <1>3

Recounted(io, s, side, n) == [io EXCEPT !.count[s][side] = n]

LEMMA RecountedEffect ==
  ASSUME NEW io \in IoType, NEW s \in ServerIndex, NEW side \in Sides, NEW n \in Nat
  PROVE  Changed(io, Recounted(io, s, side, n), s, side, n) /\ Recounted(io, s, side, n).mon = io.mon
<1>1. Recounted(io, s, side, n) = [io EXCEPT !.count = [io.count EXCEPT ![s] = [io.count[s] EXCEPT ![side] = n]]]
  BY DEF Recounted
<1>. DEFINE c == [io.count EXCEPT ![s] = [io.count[s] EXCEPT ![side] = n]]
<1>2. io.count \in [ServerIndex -> [Sides -> Nat]]
  BY DEF IoType
<1>3. /\ c \in [ServerIndex -> [Sides -> Nat]] /\ c[s][side] = n
      /\ \A t \in ServerIndex, other \in Sides : t # s \/ other # side => c[t][other] = io.count[t][other]
  BY <1>2
<1>. HIDE DEF c
<1>4. /\ Recounted(io, s, side, n) \in IoType /\ Recounted(io, s, side, n).count = c
      /\ Recounted(io, s, side, n).sd = io.sd /\ Recounted(io, s, side, n).mon = io.mon
  BY <1>1, <1>3 DEF IoType, c
<1>. QED  BY <1>3, <1>4 DEF Changed, SameSinksBut

LEMMA ChangedTwice ==
  ASSUME NEW io \in IoType, NEW mid, NEW new, NEW s \in ServerIndex, NEW side \in Sides, NEW n \in Nat,
         Changed(io, mid, s, side, n), Changed(mid, new, s, side, n)
  PROVE  Changed(io, new, s, side, n)
BY DEF Changed, SameSinksBut

\* The first to wait registers its sink.
LEMMA WantEffect ==
  ASSUME NEW io \in IoType, NEW s \in ServerIndex, NEW side \in Sides
  PROVE  LET new == Want(io, s, side)  n == io.count[s][side] IN
         /\ Changed(io, new, s, side, n + 1)
         /\ n # 0 => new.mon = io.mon
         /\ n = 0 /\ io.sd[s] # 0 => new.mon[io.sd[s]][Event(side)] = side
<1>. DEFINE n == io.count[s][side]  c == Recounted(io, s, side, n + 1)  new == Want(io, s, side)
<1>1. n \in Nat
  BY DEF IoType
<1>. HIDE DEF n
<1>2. Changed(io, c, s, side, n + 1) /\ c.mon = io.mon
  BY <1>1, RecountedEffect
<1>3. new = IF n = 0 THEN Register(c, s, side, side) ELSE c
  BY DEF Want, Recounted, n
<1>. HIDE DEF c
<1>4. c \in IoType /\ c.sd = io.sd /\ c.count[s][side] = n + 1
  BY <1>2 DEF Changed
<1>5. /\ Changed(c, Register(c, s, side, side), s, side, n + 1)
      /\ io.sd[s] # 0 => Register(c, s, side, side).mon[io.sd[s]][Event(side)] = side
  BY <1>4, RegisterEffect
<1>6. Changed(io, Register(c, s, side, side), s, side, n + 1)
  BY <1>1, <1>2, <1>5, ChangedTwice
<1>. QED  BY <1>1, <1>2, <1>3, <1>5, <1>6 DEF n

\* The last to be done cancels the registration.
LEMMA DoneEffect ==
  ASSUME NEW io \in IoType, NEW s \in ServerIndex, NEW side \in Sides, io.count[s][side] # 0
  PROVE  LET new == Done(io, s, side)  n == io.count[s][side] IN
         /\ Changed(io, new, s, side, n - 1)
         /\ n # 1 => new.mon = io.mon
<1>. DEFINE n == io.count[s][side]  c == Recounted(io, s, side, n - 1)  new == Done(io, s, side)
<1>1. n \in Nat /\ n # 0
  BY DEF IoType
<1>. HIDE DEF n
<1>2. Changed(io, c, s, side, n - 1) /\ c.mon = io.mon
  BY <1>1, RecountedEffect
<1>3. c \in IoType /\ c.count[s][side] = n - 1
  BY <1>2 DEF Changed
<1>4. new = IF n - 1 = 0 THEN Register(c, s, side, "none") ELSE c
  BY <1>3 DEF Done, Recounted, n
<1>. HIDE DEF c
<1>5. Changed(c, Register(c, s, side, "none"), s, side, n - 1)
  BY <1>3, RegisterEffect
<1>6. Changed(io, Register(c, s, side, "none"), s, side, n - 1)
  BY <1>1, <1>2, <1>5, ChangedTwice
<1>. QED  BY <1>1, <1>2, <1>4, <1>6 DEF n

-----------------------------------------------------------------------------
(* queries_tcp_connect2write(), one query after the other.                 *)

LEMMA LeastOf ==
  ASSUME NEW S \in SUBSET Nat, S # {}
  PROVE  \E m \in S : \A k \in S : m <= k
<1>. DEFINE Less == {p \in Nat \X Nat : p[1] < p[2]}
<1>1. IsWellFoundedOn(Less, Nat)
  BY NatLessThanWellFounded DEF OpToRel
<1>. HIDE DEF Less
<1>2. PICK m \in S : \A k \in S : ~(<<k, m>> \in Less)
  BY <1>1, WFMin
<1>3. ASSUME NEW k \in S PROVE m <= k
  <2>1. k \in Nat /\ m \in Nat
    OBVIOUS
  <2>2. k < m => <<k, m>> \in Less
    BY <2>1 DEF Less
  <2>. QED  BY <1>2, <2>1, <2>2
<1>. QED  BY <1>3

OneWrites(io, t) == Want(Done(io, t, "connect"), t, "write")

\* g[k] is what k connecters have made of io.
Runs(io, t, n, g) == g = [k \in 0 .. n |-> IF k = 0 THEN io ELSE OneWrites(g[k - 1], t)]

LEMMA RunExists ==
  ASSUME NEW io, NEW t, NEW n \in Nat
  PROVE  \E g : Runs(io, t, n, g)
<1>. DEFINE Bad == {k \in Nat : ~ \E g : Runs(io, t, k, g)}
<1>1. SUFFICES ASSUME Bad # {} PROVE FALSE
  OBVIOUS
<1>2. PICK m \in Bad : \A k \in Bad : m <= k
  BY <1>1, LeastOf
<1>3. m \in Nat /\ ~ \E g : Runs(io, t, m, g)
  OBVIOUS
<1>4. CASE m = 0
  <2>. DEFINE g == [k \in 0 .. 0 |-> io]
  <2>1. Runs(io, t, 0, g)
    BY DEF Runs
  <2>. QED  BY <2>1, <1>3, <1>4
<1>5. CASE m # 0
  <2>1. m - 1 \in Nat /\ m - 1 \notin Bad
    BY <1>2, <1>3, <1>5
  <2>2. PICK h : Runs(io, t, m - 1, h)
    BY <2>1
  <2>. DEFINE g == [k \in 0 .. m |-> IF k = 0 THEN io ELSE OneWrites(h[k - 1], t)]
  <2>3. \A k \in 0 .. m - 1 : g[k] = h[k]
    BY <1>3, <2>1, <2>2 DEF Runs
  <2>4. \A k \in 0 .. m : k # 0 => k - 1 \in 0 .. m - 1
    BY <1>3
  <2>5. Runs(io, t, m, g)
    BY <2>3, <2>4 DEF Runs
  <2>. QED  BY <2>5, <1>3
<1>. QED  BY <1>4, <1>5

LEMMA WriteInsteadRuns ==
  ASSUME NEW io, NEW t, NEW n \in Nat
  PROVE  \E g : Runs(io, t, n, g) /\ WriteInstead(io, t, n) = g[n]
<1>. DEFINE g == CHOOSE f : f = [k \in 0 .. n |-> IF k = 0 THEN io ELSE OneWrites(f[k - 1], t)]
<1>1. WriteInstead(io, t, n) = g[n]
  BY DEF WriteInstead, OneWrites
<1>2. \E f : f = [k \in 0 .. n |-> IF k = 0 THEN io ELSE OneWrites(f[k - 1], t)]
  <2>1. PICK h : Runs(io, t, n, h)
    BY RunExists
  <2>2. h = [k \in 0 .. n |-> IF k = 0 THEN io ELSE OneWrites(h[k - 1], t)]
    BY <2>1 DEF Runs
  <2>. HIDE DEF g
  <2>. QED  BY <2>2
<1>3. g = [k \in 0 .. n |-> IF k = 0 THEN io ELSE OneWrites(g[k - 1], t)]
  BY <1>2
<1>. QED  BY <1>1, <1>3 DEF Runs

\* k connecters of server t have become writers.
Turned(io, new, t, k) ==
  /\ new \in IoType /\ new.sd = io.sd
  /\ new.count[t]["connect"] = io.count[t]["connect"] - k
  /\ new.count[t]["write"] = io.count[t]["write"] + k
  /\ new.count[t]["read"] = io.count[t]["read"]
  /\ \A s \in ServerIndex, side \in Sides : s # t => new.count[s][side] = io.count[s][side]
  /\ SameSinksBut(io, new, t, "w")

LEMMA OneTurns ==
  ASSUME NEW io \in IoType, NEW t \in ServerIndex, NEW k \in Nat, k < io.count[t]["connect"],
         NEW new, Turned(io, new, t, k)
  PROVE  /\ Turned(io, OneWrites(new, t), t, k + 1)
         /\ k = 0 /\ io.count[t]["connect"] = 1 /\ io.count[t]["write"] = 0 /\ io.sd[t] # 0 =>
              OneWrites(new, t).mon[io.sd[t]]["w"] = "write"
<1>. DEFINE mid == Done(new, t, "connect")  end == Want(mid, t, "write")
<1>1. "connect" \in Sides /\ "write" \in Sides /\ "read" \in Sides
  BY DEF Sides
<1>2. Event("connect") = "w" /\ Event("write") = "w"
  BY DEF Event
<1>3. io.count[t]["connect"] \in Nat /\ io.count[t]["write"] \in Nat
  BY <1>1 DEF IoType
<1>4. new \in IoType /\ new.count[t]["connect"] # 0
  BY <1>3 DEF Turned
<1>5. Changed(new, mid, t, "connect", new.count[t]["connect"] - 1)
  BY <1>1, <1>4, DoneEffect
<1>. HIDE DEF mid
<1>6. mid \in IoType /\ mid.sd = new.sd
  BY <1>5 DEF Changed
<1>7. /\ Changed(mid, end, t, "write", mid.count[t]["write"] + 1)
      /\ mid.count[t]["write"] = 0 /\ mid.sd[t] # 0 => end.mon[mid.sd[t]]["w"] = "write"
  BY <1>1, <1>2, <1>6, WantEffect
<1>. HIDE DEF end
<1>8. OneWrites(new, t) = end
  BY DEF OneWrites, mid, end
<1>9. Turned(io, end, t, k + 1)
  <2>1. end \in IoType /\ end.sd = io.sd
    BY <1>5, <1>7 DEF Changed, Turned
  <2>2. /\ mid.count[t]["connect"] = io.count[t]["connect"] - k - 1
        /\ mid.count[t]["write"] = io.count[t]["write"] + k
        /\ mid.count[t]["read"] = io.count[t]["read"]
    BY <1>1, <1>3, <1>5 DEF Changed, Turned
  <2>3. /\ end.count[t]["connect"] = mid.count[t]["connect"]
        /\ end.count[t]["write"] = mid.count[t]["write"] + 1
        /\ end.count[t]["read"] = mid.count[t]["read"]
    BY <1>1, <1>7 DEF Changed
  <2>4. \A s \in ServerIndex, side \in Sides : s # t => end.count[s][side] = io.count[s][side]
    BY <1>5, <1>7 DEF Changed, Turned
  <2>5. SameSinksBut(io, end, t, "w")
    BY <1>2, <1>5, <1>7 DEF Changed, Turned, SameSinksBut
  <2>6. /\ end.count[t]["connect"] = io.count[t]["connect"] - (k + 1)
        /\ end.count[t]["write"] = io.count[t]["write"] + (k + 1)
    BY <1>3, <2>2, <2>3
  <2>. QED  BY <2>1, <2>2, <2>3, <2>4, <2>5, <2>6 DEF Turned
<1>10. ASSUME k = 0, io.count[t]["write"] = 0, io.sd[t] # 0
       PROVE  end.mon[io.sd[t]]["w"] = "write"
  <2>1. mid.count[t]["write"] = 0
    BY <1>1, <1>5, <1>10 DEF Changed, Turned
  <2>. QED  BY <1>7, <1>10, <2>1, <1>6 DEF Turned
<1>. QED  BY <1>8, <1>9, <1>10

LEMMA WriteInsteadEffect ==
  ASSUME NEW io \in IoType, NEW t \in ServerIndex, NEW n \in Nat, n <= io.count[t]["connect"]
  PROVE  LET new == WriteInstead(io, t, n) IN
         /\ Turned(io, new, t, n)
         /\ n = 0 => new = io
         /\ n = 1 /\ io.count[t]["connect"] = 1 /\ io.count[t]["write"] = 0 /\ io.sd[t] # 0 =>
              new.mon[io.sd[t]]["w"] = "write"
<1>1. PICK g : Runs(io, t, n, g) /\ WriteInstead(io, t, n) = g[n]
  BY WriteInsteadRuns
<1>2. io.count[t]["connect"] \in Nat /\ io.count[t]["write"] \in Nat
  BY DEF IoType, Sides
<1>3. g[0] = io /\ \A k \in 0 .. n : k # 0 => g[k] = OneWrites(g[k - 1], t)
  BY <1>1 DEF Runs
<1>4. Turned(io, io, t, 0)
  BY <1>2 DEF Turned, SameSinksBut
<1>. DEFINE Bad == {k \in 0 .. n : ~Turned(io, g[k], t, k)}
<1>5. Bad = {}
  <2>1. SUFFICES ASSUME Bad # {} PROVE FALSE
    OBVIOUS
  <2>0. Bad \in SUBSET Nat
    OBVIOUS
  <2>2. PICK m \in Bad : \A k \in Bad : m <= k
    BY <2>0, <2>1, LeastOf
  <2>3. m \in 0 .. n /\ ~Turned(io, g[m], t, m)
    OBVIOUS
  <2>4. m # 0
    BY <1>3, <1>4, <2>3
  <2>5. m - 1 \in 0 .. n /\ m - 1 \in Nat /\ m - 1 < io.count[t]["connect"] /\ (m - 1) + 1 = m
    BY <1>2, <2>3, <2>4
  <2>6. Turned(io, g[m - 1], t, m - 1)
    BY <2>2, <2>3, <2>5
  <2>7. Turned(io, OneWrites(g[m - 1], t), t, m)
    BY <2>5, <2>6, OneTurns
  <2>. QED  BY <1>3, <2>3, <2>4, <2>7
<1>6. Turned(io, g[n], t, n)
  BY <1>5
<1>7. ASSUME n = 1, io.count[t]["connect"] = 1, io.count[t]["write"] = 0, io.sd[t] # 0
      PROVE  g[n].mon[io.sd[t]]["w"] = "write"
  <2>1. g[1] = OneWrites(io, t)
    BY <1>3, <1>7
  <2>. QED  BY <1>4, <1>7, <2>1, OneTurns
<1>. QED  BY <1>1, <1>3, <1>6, <1>7

-----------------------------------------------------------------------------
(* The counts, the sinks and the sockets fit the queries.                  *)

InTcp(f, q) == f[q].status \in TcpStatus

Of(f, s, side) == {q \in Queries : InTcp(f, q) /\ Waiting[f[q].status] = side /\ f[q].curr = s}

\* Queries X have been taken out.
Counted(io, f, X) ==
  \A s \in ServerIndex, side \in Sides : io.count[s][side] = Cardinality(Of(f, s, side) \ X)

Distinct(io) ==
  \A s, t \in ServerIndex : io.sd[s] = io.sd[t] /\ io.sd[s] # 0 => s = t

Open(io, f, Y) == \A q \in Queries \ Y : InTcp(f, q) => io.sd[f[q].curr] # 0

Watch(io, f, q, event, sink) == io.mon[io.sd[f[q].curr]][event] = sink

ReadersWatch(io, f, Y) ==
  \A q \in Queries \ Y : f[q].status \in {"HEAD", "BODY"} => Watch(io, f, q, "r", "read")

WritersWatch(io, f, Y, sh) ==
  ~sh => \A q \in Queries \ Y :
           /\ f[q].status = "CONNECT" => Watch(io, f, q, "w", "connect")
           /\ f[q].status = "SEND" => Watch(io, f, q, "w", "write")

\* sh is to be shared: no two queries have been in TCP mode at once.
Alone(f, X, sh) ==
  ~sh => \A p, q \in Queries : (p \in X \/ InTcp(f, p)) /\ (q \in X \/ InTcp(f, q)) => p = q

\* Queries Y have not been given a new server yet.
Fits(io, f, X, Y, sh) ==
  /\ io \in IoType /\ f \in [Queries -> Query]
  /\ Counted(io, f, X) /\ Distinct(io) /\ Open(io, f, Y)
  /\ ReadersWatch(io, f, Y) /\ WritersWatch(io, f, Y, sh) /\ Alone(f, X, sh)

LEMMA WaitingType ==
  ASSUME NEW status \in TcpStatus
  PROVE  /\ Waiting[status] \in Sides
         /\ Waiting[status] = "read" <=> status \in {"HEAD", "BODY"}
         /\ Waiting[status] = "write" <=> status = "SEND"
         /\ Waiting[status] = "connect" <=> status = "CONNECT"
BY DEF Waiting, TcpStatus, Sides

LEMMA OfFinite ==
  ASSUME NEW f, NEW s, NEW side, NEW X
  PROVE  IsFiniteSet(Of(f, s, side) \ X) /\ Cardinality(Of(f, s, side) \ X) \in Nat
<1>1. Of(f, s, side) \ X \in SUBSET Queries
  BY DEF Of
<1>. QED  BY <1>1, FS_Subset, FS_CardinalityType, ConstantsAssumption

\* A waiter is taken out.
LEMMA TakesOut ==
  ASSUME NEW io, NEW f, NEW Y, NEW sh, Fits(io, f, {}, Y, sh),
         NEW q \in Queries, InTcp(f, q)
  PROVE  Fits(Done(io, f[q].curr, Waiting[f[q].status]), f, {q}, Y \cup {q}, sh)
<1>. DEFINE s == f[q].curr  side == Waiting[f[q].status]  new == Done(io, s, side)
<1>1. f[q] \in Query /\ s \in ServerIndex
  BY TurnsType DEF Fits
<1>2. side \in Sides
  BY WaitingType DEF InTcp
<1>3. q \in Of(f, s, side) \ {} /\ IsFiniteSet(Of(f, s, side) \ {})
  <2>1. q \in Of(f, s, side)
    BY DEF Of
  <2>. HIDE DEF s, side
  <2>. QED  BY <2>1, OfFinite
<1>4. \A t \in ServerIndex, other \in Sides :
        /\ Of(f, t, other) \ {q} = (Of(f, t, other) \ {}) \ {q}
        /\ t # s \/ other # side => Of(f, t, other) \ {q} = Of(f, t, other) \ {}
  BY DEF Of
<1>5. /\ io.count[s][side] = Cardinality(Of(f, s, side) \ {})
      /\ io.count[s][side] \in Nat /\ io.count[s][side] # 0
      /\ Cardinality(Of(f, s, side) \ {q}) = io.count[s][side] - 1
  <2>1. io.count[s][side] = Cardinality(Of(f, s, side) \ {})
    BY <1>1, <1>2 DEF Fits, Counted
  <2>2. Cardinality(Of(f, s, side) \ {}) # 0
    BY <1>3, FS_EmptySet
  <2>3. Cardinality((Of(f, s, side) \ {}) \ {q}) = Cardinality(Of(f, s, side) \ {}) - 1
    BY <1>3, FS_RemoveElement
  <2>4. Cardinality(Of(f, s, side) \ {q}) = Cardinality(Of(f, s, side) \ {}) - 1
    BY <2>3, <1>1, <1>2, <1>4
  <2>. HIDE DEF s, side
  <2>5. Cardinality(Of(f, s, side) \ {}) \in Nat
    BY OfFinite
  <2>. QED  BY <2>1, <2>2, <2>4, <2>5
<1>. HIDE DEF s, side
<1>6. /\ Changed(io, new, s, side, io.count[s][side] - 1)
      /\ io.count[s][side] # 1 => new.mon = io.mon
  BY <1>1, <1>2, <1>5, DoneEffect DEF Fits
<1>. HIDE DEF new
<1>7. new \in IoType /\ new.sd = io.sd
  BY <1>6 DEF Changed
<1>8. Counted(new, f, {q})
  <2>. SUFFICES ASSUME NEW t \in ServerIndex, NEW other \in Sides
                PROVE  new.count[t][other] = Cardinality(Of(f, t, other) \ {q})
    BY DEF Counted
  <2>1. CASE t = s /\ other = side
    BY <2>1, <1>5, <1>6 DEF Changed
  <2>2. CASE t # s \/ other # side
    BY <2>2, <1>4, <1>6 DEF Changed, Fits, Counted
  <2>. QED  BY <2>1, <2>2
<1>9. Distinct(new) /\ Open(new, f, Y \cup {q}) /\ Alone(f, {q}, sh)
  BY <1>7 DEF Fits, Distinct, Open, Alone
<1>10. ReadersWatch(new, f, Y \cup {q})
  <2>. SUFFICES ASSUME NEW p \in Queries \ (Y \cup {q}), f[p].status \in {"HEAD", "BODY"}
                PROVE  Watch(new, f, p, "r", "read")
    BY DEF ReadersWatch
  <2>1. /\ Watch(io, f, p, "r", "read") /\ InTcp(f, p) /\ io.sd[f[p].curr] # 0
        /\ f[p].curr \in ServerIndex
    BY TurnsType DEF Fits, ReadersWatch, Open, InTcp, TcpStatus
  <2>2. CASE f[p].curr = s /\ side = "read"
    <3>1. p \in Of(f, s, side) \ {q}
      BY <2>1, <2>2, WaitingType DEF Of, InTcp
    <3>2. Cardinality(Of(f, s, side) \ {q}) # 0
      BY <3>1, OfFinite, FS_EmptySet
    <3>3. io.count[s][side] # 1
      BY <1>5, <3>2
    <3>. QED  BY <3>3, <2>1, <1>6, <1>7 DEF Watch
  <2>3. CASE f[p].curr # s
    <3>1. io.sd[f[p].curr] # io.sd[s] /\ io.sd[f[p].curr] \in Descriptors
      BY <2>1, <2>3, <1>1 DEF Fits, Distinct, IoType
    <3>. QED  BY <3>1, <2>1, <1>6, <1>7 DEF Watch, Changed, SameSinksBut, Events
  <2>4. CASE side # "read"
    <3>1. Event(side) # "r" /\ io.sd[f[p].curr] \in Descriptors
      BY <2>4, <2>1 DEF Event, Fits, IoType
    <3>. QED  BY <3>1, <2>1, <1>6, <1>7 DEF Watch, Changed, SameSinksBut, Events
  <2>. QED  BY <2>2, <2>3, <2>4
<1>11. WritersWatch(new, f, Y \cup {q}, sh)
  BY DEF WritersWatch, Fits, Alone, InTcp, TcpStatus
<1>. QED  BY <1>7, <1>8, <1>9, <1>10, <1>11 DEF Fits, new, s, side

\* So is a query that does not wait.
LEMMA TakesOutIdle ==
  ASSUME NEW io, NEW f, NEW Y, NEW sh, Fits(io, f, {}, Y, sh),
         NEW q \in Queries, ~InTcp(f, q), NEW now \in BOOLEAN,
         now <=> sh \/ \E p \in Queries \ {q} : InTcp(f, p)
  PROVE  Fits(io, f, {q}, Y \cup {q}, now)
<1>1. \A s \in ServerIndex, side \in Sides : Of(f, s, side) \ {q} = Of(f, s, side) \ {}
  BY DEF Of
<1>2. Counted(io, f, {q})
  BY <1>1 DEF Fits, Counted
<1>3. Open(io, f, Y \cup {q}) /\ ReadersWatch(io, f, Y \cup {q}) /\ WritersWatch(io, f, Y \cup {q}, now)
  BY DEF Fits, Open, ReadersWatch, WritersWatch
<1>4. Alone(f, {q}, now)
  BY DEF Alone
<1>. QED  BY <1>2, <1>3, <1>4 DEF Fits

\* It stays out of TCP mode.
LEMMA StaysOut ==
  ASSUME NEW io, NEW f, NEW q \in Queries, NEW Y, NEW sh, Fits(io, f, {q}, Y, sh),
         NEW r \in Query, r.status \notin TcpStatus
  PROVE  Fits(io, [f EXCEPT ![q] = r], {}, Y \ {q}, sh)
<1>. DEFINE g == [f EXCEPT ![q] = r]
<1>1. g \in [Queries -> Query] /\ g[q] = r /\ \A p \in Queries \ {q} : g[p] = f[p]
  BY DEF Fits
<1>. HIDE DEF g
<1>2. \A s \in ServerIndex, side \in Sides : Of(g, s, side) \ {} = Of(f, s, side) \ {q}
  BY <1>1 DEF Of, InTcp
<1>3. Counted(io, g, {})
  BY <1>2 DEF Fits, Counted
<1>4. r.status \notin {"HEAD", "BODY"} /\ r.status # "CONNECT" /\ r.status # "SEND"
  BY DEF TcpStatus
<1>5. \A p \in Queries : InTcp(g, p) => p # q /\ InTcp(f, p)
  BY <1>1 DEF InTcp
<1>6. Open(io, g, Y \ {q}) /\ Alone(g, {}, sh)
  BY <1>1, <1>5 DEF Fits, Open, Alone
<1>7. ReadersWatch(io, g, Y \ {q}) /\ WritersWatch(io, g, Y \ {q}, sh)
  BY <1>1, <1>4 DEF Fits, ReadersWatch, WritersWatch, Watch
<1>. QED  BY <1>1, <1>3, <1>6, <1>7 DEF Fits, g

\* It waits for another server, or for something else.
LEMMA PutsIn ==
  ASSUME NEW io, NEW f, NEW q \in Queries, NEW Y, NEW sh, Fits(io, f, {q}, Y, sh),
         NEW r \in Query, NEW status \in TcpStatus, io.sd[r.curr] # 0,
         status \in {"HEAD", "BODY"} => Y \subseteq {q}
  PROVE  Fits(Want(io, r.curr, Waiting[status]), [f EXCEPT ![q] = [r EXCEPT !.status = status]], {}, Y \ {q}, sh)
<1>. DEFINE s == r.curr  side == Waiting[status]  new == Want(io, s, side)
            g == [f EXCEPT ![q] = [r EXCEPT !.status = status]]
<1>1. s \in ServerIndex /\ side \in Sides
  BY TurnsType, WaitingType
<1>2. /\ g \in [Queries -> Query] /\ g[q].status = status /\ g[q].curr = s
      /\ \A p \in Queries \ {q} : g[p] = f[p]
  <2>1. [r EXCEPT !.status = status] \in Query /\ [r EXCEPT !.status = status].curr = s
    BY DEF Query
  <2>. QED  BY <2>1 DEF Fits, Query
<1>. HIDE DEF g
<1>3. \A t \in ServerIndex, other \in Sides :
        Of(g, t, other) \ {} = IF t = s /\ other = side THEN (Of(f, t, other) \ {q}) \cup {q}
                               ELSE Of(f, t, other) \ {q}
  <2>1. ASSUME NEW t \in ServerIndex, NEW other \in Sides, NEW p \in Queries
        PROVE  p \in Of(g, t, other) <=>
                 IF p = q THEN t = s /\ other = side ELSE p \in Of(f, t, other)
    <3>1. CASE p = q
      BY <3>1, <1>2 DEF Of, InTcp
    <3>2. CASE p # q
      BY <3>2, <1>2 DEF Of, InTcp
    <3>. QED  BY <3>1, <3>2
  <2>2. \A t, other : Of(g, t, other) \subseteq Queries /\ Of(f, t, other) \subseteq Queries
    BY DEF Of
  <2>. HIDE DEF s, side
  <2>. QED  BY <2>1, <2>2
<1>. HIDE DEF s, side
<1>4. /\ Changed(io, new, s, side, io.count[s][side] + 1)
      /\ io.count[s][side] # 0 => new.mon = io.mon
      /\ io.count[s][side] = 0 /\ io.sd[s] # 0 => new.mon[io.sd[s]][Event(side)] = side
  BY <1>1, WantEffect DEF Fits
<1>. HIDE DEF new
<1>5. new \in IoType /\ new.sd = io.sd /\ io.sd[s] # 0
  BY <1>4 DEF Changed, s
<1>6. Counted(new, g, {})
  <2>. SUFFICES ASSUME NEW t \in ServerIndex, NEW other \in Sides
                PROVE  new.count[t][other] = Cardinality(Of(g, t, other) \ {})
    BY DEF Counted
  <2>1. io.count[t][other] = Cardinality(Of(f, t, other) \ {q})
    BY DEF Fits, Counted
  <2>2. CASE t = s /\ other = side
    <3>1. IsFiniteSet(Of(f, s, side) \ {q}) /\ q \notin Of(f, s, side) \ {q}
      BY OfFinite
    <3>2. Cardinality((Of(f, s, side) \ {q}) \cup {q}) = Cardinality(Of(f, s, side) \ {q}) + 1
      BY <3>1, FS_AddElement
    <3>. QED  BY <2>1, <2>2, <3>2, <1>1, <1>3, <1>4 DEF Changed
  <2>3. CASE t # s \/ other # side
    BY <2>1, <2>3, <1>3, <1>4 DEF Changed
  <2>. QED  BY <2>2, <2>3
<1>7. \A p \in Queries \ {q} : InTcp(g, p) <=> InTcp(f, p)
  BY <1>2 DEF InTcp
<1>8. Distinct(new) /\ Open(new, g, Y \ {q}) /\ Alone(g, {}, sh)
  BY <1>2, <1>5, <1>7 DEF Fits, Distinct, Open, Alone
<1>9. io.sd[s] \in Descriptors
  BY <1>1, <1>5 DEF Fits, IoType
\* Who watched another socket or event still does.
<1>10. ASSUME NEW t \in ServerIndex, io.sd[t] # 0, NEW e \in Events, t # s \/ e # Event(side)
       PROVE  new.mon[new.sd[t]][e] = io.mon[io.sd[t]][e]
  <2>1. io.sd[t] \in Descriptors
    BY <1>10 DEF Fits, IoType
  <2>2. t # s => io.sd[t] # io.sd[s]
    BY <1>1, <1>10 DEF Fits, Distinct
  <2>. QED  BY <2>1, <2>2, <1>4, <1>5, <1>10 DEF Changed, SameSinksBut
<1>11. ReadersWatch(new, g, Y \ {q})
  <2>. SUFFICES ASSUME NEW p \in Queries \ (Y \ {q}), g[p].status \in {"HEAD", "BODY"}
                PROVE  new.mon[new.sd[g[p].curr]]["r"] = "read"
    BY DEF ReadersWatch, Watch
  <2>1. p # q => /\ g[p] = f[p] /\ f[p].curr \in ServerIndex /\ io.sd[f[p].curr] # 0
                 /\ io.mon[io.sd[f[p].curr]]["r"] = "read"
    BY <1>2, TurnsType DEF Fits, ReadersWatch, Watch, Open, InTcp, TcpStatus
  <2>2. CASE g[p].curr # s \/ side # "read"
    <3>1. p # q
      BY <1>2, <2>2, WaitingType DEF side
    <3>2. g[p].curr # s \/ "r" # Event(side)
      BY <2>2 DEF Event
    <3>. QED  BY <2>1, <3>1, <3>2, <1>10 DEF Events
  <2>3. CASE g[p].curr = s /\ side = "read"
    <3>1. Event(side) = "r"
      BY <2>3 DEF Event
    <3>2. CASE io.count[s][side] = 0
      BY <3>1, <3>2, <2>3, <1>4, <1>5
    <3>3. CASE io.count[s][side] # 0
      <4>1. Cardinality(Of(f, s, side) \ {q}) # 0
        BY <3>3, <1>1 DEF Fits, Counted
      <4>2. PICK o \in Of(f, s, side) \ {q} : TRUE
        BY <4>1, FS_EmptySet
      <4>3. Y \subseteq {q}
        BY <2>3, WaitingType DEF side
      <4>4. o \in Queries \ Y /\ f[o].status \in {"HEAD", "BODY"} /\ f[o].curr = s
        BY <4>2, <4>3, <2>3, WaitingType DEF Of, InTcp
      <4>5. io.mon[io.sd[s]]["r"] = "read"
        BY <4>4 DEF Fits, ReadersWatch, Watch
      <4>. QED  BY <4>5, <3>3, <2>3, <1>4, <1>5
    <3>. QED  BY <3>2, <3>3
  <2>. QED  BY <2>2, <2>3
<1>12. WritersWatch(new, g, Y \ {q}, sh)
  <2>. SUFFICES ASSUME ~sh, NEW p \in Queries, g[p].status \in {"CONNECT", "SEND"}
                PROVE  new.mon[new.sd[g[p].curr]]["w"] = Waiting[g[p].status]
    BY WaitingType DEF WritersWatch, Watch, TcpStatus
  <2>1. p = q
    BY <1>7 DEF Fits, Alone, InTcp, TcpStatus
  <2>2. Of(f, s, side) \ {q} = {}
    BY DEF Of, Fits, Alone
  <2>3. io.count[s][side] = 0
    BY <2>2, <1>1, FS_EmptySet DEF Fits, Counted
  <2>4. Event(side) = "w"
    BY <2>1, <1>2, WaitingType DEF side, Event
  <2>. QED  BY <2>1, <2>3, <2>4, <1>2, <1>4, <1>5 DEF side
<1>. QED  BY <1>2, <1>5, <1>6, <1>8, <1>11, <1>12 DEF Fits, new, s, side, g

\* Servers get sockets that nobody has.
LEMMA GetsSockets ==
  ASSUME NEW io, NEW f, NEW X, NEW Y, NEW sh, Fits(io, f, X, Y, sh),
         NEW new \in SUBSET ServerIndex, \A s \in new : io.sd[s] = 0,
         NEW number \in Numberings(io, new)
  PROVE  /\ Fits(WithSockets(io, number), f, X, Y, sh)
         /\ \A s \in new : WithSockets(io, number).sd[s] # 0
         /\ \A s \in ServerIndex \ new : WithSockets(io, number).sd[s] = io.sd[s]
<1>. DEFINE after == WithSockets(io, number)
<1>1. /\ number \in [new -> Descriptors \ Range(io.sd)]
      /\ \A s, t \in new : number[s] = number[t] => s = t
  BY DEF Numberings, Injection, IsInjective
<1>2. DOMAIN number = new
  BY <1>1
<1>3. io.sd \in [ServerIndex -> Descriptors \cup {0}] /\ io \in IoType
  BY DEF Fits, IoType
<1>. DEFINE d == [s \in ServerIndex |-> IF s \in new THEN number[s] ELSE io.sd[s]]
<1>4. after = [io EXCEPT !.sd = d]
  BY <1>2 DEF WithSockets
<1>5. d \in [ServerIndex -> Descriptors \cup {0}]
  BY <1>1, <1>3
<1>6. \A s \in ServerIndex : d[s] = IF s \in new THEN number[s] ELSE io.sd[s]
  OBVIOUS
<1>. HIDE DEF d
<1>7. after \in IoType /\ after.sd = d /\ after.count = io.count /\ after.mon = io.mon
  BY <1>3, <1>4, <1>5 DEF IoType
<1>. HIDE DEF after
<1>8. \A s \in new : d[s] \in Descriptors /\ d[s] # 0 /\ \A t \in ServerIndex : io.sd[t] # d[s]
  <2>. TAKE s \in new
  <2>1. number[s] \in Descriptors /\ number[s] \notin Range(io.sd) /\ d[s] = number[s]
    BY <1>1, <1>6
  <2>2. \A t \in ServerIndex : io.sd[t] \in Range(io.sd)
    BY <1>3 DEF Range
  <2>. QED  BY <2>1, <2>2 DEF Descriptors
<1>9. Distinct(after)
  <2>. SUFFICES ASSUME NEW s \in ServerIndex, NEW t \in ServerIndex, d[s] = d[t], d[s] # 0
                PROVE  s = t
    BY <1>7 DEF Distinct
  <2>. QED  BY <1>1, <1>6, <1>8 DEF Fits, Distinct
<1>10. \A q \in Queries : f[q].curr \in ServerIndex
  BY TurnsType DEF Fits
\* Whoever waits, waits on a socket that was open before.
<1>11. \A q \in Queries \ Y : InTcp(f, q) => d[f[q].curr] = io.sd[f[q].curr] /\ d[f[q].curr] # 0
  BY <1>6, <1>10 DEF Fits, Open
<1>12. Counted(after, f, X) /\ Open(after, f, Y)
  BY <1>7, <1>11 DEF Fits, Counted, Open
<1>13. ReadersWatch(after, f, Y) /\ WritersWatch(after, f, Y, sh)
  BY <1>7, <1>11 DEF Fits, ReadersWatch, WritersWatch, Watch, InTcp, TcpStatus
<1>. QED  BY <1>6, <1>7, <1>8, <1>9, <1>12, <1>13 DEF Fits, after

\* The connecters of a server that is connected become its writers.
LEMMA AllWrite ==
  ASSUME NEW io, NEW f, NEW Y, NEW sh, Fits(io, f, {}, Y, sh),
         NEW t \in ServerIndex, io.sd[t] # 0, NEW C, C = Of(f, t, "connect"), NEW g,
         g = [p \in Queries |-> IF p \in C THEN [f[p] EXCEPT !.status = "SEND"] ELSE f[p]]
  PROVE  /\ Fits(WriteInstead(io, t, Cardinality(C)), g, {}, Y, sh)
         /\ WriteInstead(io, t, Cardinality(C)).sd = io.sd
<1>. DEFINE n == Cardinality(C)  new == WriteInstead(io, t, n)
<1>1. "connect" \in Sides /\ "write" \in Sides /\ "read" \in Sides
  BY DEF Sides
<1>2. /\ g \in [Queries -> Query] /\ C \subseteq Queries
      /\ \A p \in Queries : g[p].curr = f[p].curr /\ g[p].status = IF p \in C THEN "SEND" ELSE f[p].status
  <2>1. \A p \in Queries : f[p] \in Query
    BY DEF Fits
  <2>2. \A p \in Queries : /\ [f[p] EXCEPT !.status = "SEND"] \in Query
                           /\ [f[p] EXCEPT !.status = "SEND"].curr = f[p].curr
                           /\ [f[p] EXCEPT !.status = "SEND"].status = "SEND"
    BY <2>1 DEF Query, TcpStatus
  <2>. QED  BY <2>1, <2>2 DEF Of
<1>3. \A p \in C : p \in Queries /\ f[p].status = "CONNECT" /\ f[p].curr = t
  BY WaitingType DEF Of, InTcp
<1>4. /\ Of(g, t, "connect") = {}
      /\ Of(g, t, "write") = Of(f, t, "write") \cup C /\ Of(f, t, "write") \cap C = {}
      /\ \A s \in ServerIndex, side \in Sides :
           s # t \/ side = "read" => Of(g, s, side) = Of(f, s, side)
  <2>1. \A p \in Queries : InTcp(g, p) <=> InTcp(f, p)
    BY <1>2, <1>3 DEF InTcp, TcpStatus
  <2>2. /\ \A p \in Queries \ C : Waiting[g[p].status] = Waiting[f[p].status]
        /\ \A p \in C : Waiting[g[p].status] = "write" /\ Waiting[f[p].status] = "connect"
    BY <1>2, <1>3, WaitingType DEF TcpStatus
  <2>3. \A p \in Queries : p \in C <=> InTcp(f, p) /\ Waiting[f[p].status] = "connect" /\ f[p].curr = t
    BY DEF Of
  <2>4. ASSUME NEW s \in ServerIndex, NEW side \in Sides, NEW p \in Queries
        PROVE  /\ p \in Of(g, s, side) <=>
                    IF p \in C THEN s = t /\ side = "write" ELSE p \in Of(f, s, side)
               /\ p \in C => (p \in Of(f, s, side) <=> s = t /\ side = "connect")
    BY <1>2, <1>3, <2>1, <2>2 DEF Of
  <2>5. \A s, side : Of(g, s, side) \subseteq Queries /\ Of(f, s, side) \subseteq Queries
    BY DEF Of
  <2>6. Of(g, t, "connect") = {}
    BY <1>1, <2>3, <2>4, <2>5
  <2>7. Of(g, t, "write") = Of(f, t, "write") \cup C /\ Of(f, t, "write") \cap C = {}
    BY <1>1, <1>2, <2>4, <2>5
  <2>8. ASSUME NEW s \in ServerIndex, NEW side \in Sides, s # t \/ side = "read"
        PROVE  Of(g, s, side) = Of(f, s, side)
    <3>1. \A p \in Queries : p \in Of(g, s, side) <=> p \in Of(f, s, side)
      BY <2>4, <2>8
    <3>2. Of(g, s, side) \subseteq Queries /\ Of(f, s, side) \subseteq Queries
      BY <2>5
    <3>. HIDE DEF n
    <3>. QED  BY <3>1, <3>2
  <2>. QED  BY <2>6, <2>7, <2>8
<1>5. /\ \A s, side : IsFiniteSet(Of(f, s, side)) /\ Cardinality(Of(f, s, side)) \in Nat
      /\ IsFiniteSet(C) /\ n \in Nat
      /\ \A s, side : Of(f, s, side) \ {} = Of(f, s, side) /\ Of(g, s, side) \ {} = Of(g, s, side)
  <2>1. \A s, side : Of(f, s, side) \ {} = Of(f, s, side) /\ Of(g, s, side) \ {} = Of(g, s, side)
    OBVIOUS
  <2>2. \A s, side : IsFiniteSet(Of(f, s, side) \ {}) /\ Cardinality(Of(f, s, side) \ {}) \in Nat
    BY OfFinite
  <2>3. \A s, side : IsFiniteSet(Of(f, s, side)) /\ Cardinality(Of(f, s, side)) \in Nat
    <3>. TAKE s, side
    <3>1. Of(f, s, side) \ {} = Of(f, s, side)
      OBVIOUS
    <3>. QED  BY <3>1, <2>2, Zenon
  <2>. QED  BY <2>1, <2>3
<1>6. \A s \in ServerIndex, side \in Sides : io.count[s][side] = Cardinality(Of(f, s, side))
  BY <1>5 DEF Fits, Counted
<1>7. io.count[t]["connect"] = n
  BY <1>1, <1>6
<1>. HIDE DEF n
<1>8. /\ Turned(io, new, t, n)
      /\ n = 0 => new = io
      /\ n = 1 /\ io.count[t]["connect"] = 1 /\ io.count[t]["write"] = 0 /\ io.sd[t] # 0 =>
           new.mon[io.sd[t]]["w"] = "write"
  BY <1>5, <1>7, WriteInsteadEffect DEF Fits
<1>. HIDE DEF new
<1>9. new \in IoType /\ new.sd = io.sd
  BY <1>8 DEF Turned
<1>10. Counted(new, g, {})
  <2>. SUFFICES ASSUME NEW s \in ServerIndex, NEW side \in Sides
                PROVE  new.count[s][side] = Cardinality(Of(g, s, side))
    <3>1. SUFFICES ASSUME NEW s \in ServerIndex, NEW side \in Sides
                   PROVE  new.count[s][side] = Cardinality(Of(g, s, side) \ {})
      BY DEF Counted
    <3>2. Of(g, s, side) \ {} = Of(g, s, side)
      OBVIOUS
    <3>. QED  BY <3>2, Zenon
  <2>1. CASE s # t \/ side = "read"
    BY <2>1, <1>4, <1>6, <1>8 DEF Turned
  <2>2. CASE s = t /\ side = "connect"
    <3>1. new.count[s][side] = n - n
      BY <2>2, <1>7, <1>8 DEF Turned
    <3>2. n - n = 0 /\ Cardinality({}) = 0
      BY <1>5, FS_EmptySet
    <3>. QED  BY <3>1, <3>2, <2>2, <1>4
  <2>3. CASE s = t /\ side = "write"
    <3>1. Cardinality(Of(f, t, "write") \cup C) = Cardinality(Of(f, t, "write")) + n
      <4>1. Cardinality(Of(f, t, "write") \cup C) =
              Cardinality(Of(f, t, "write")) + Cardinality(C) - Cardinality(Of(f, t, "write") \cap C)
        BY <1>5, FS_Union
      <4>2. Cardinality(Of(f, t, "write") \cap C) = 0
        BY <1>4, FS_EmptySet
      <4>. QED  BY <4>1, <4>2, <1>5 DEF n
    <3>2. new.count[s][side] = Cardinality(Of(f, t, "write")) + n
      BY <2>3, <1>1, <1>6, <1>8 DEF Turned
    <3>. QED  BY <3>1, <3>2, <2>3, <1>4
  <2>. QED  BY <2>1, <2>2, <2>3 DEF Sides
<1>11. \A p \in Queries : InTcp(g, p) <=> InTcp(f, p)
  BY <1>2, <1>3 DEF InTcp, TcpStatus
<1>12. Distinct(new) /\ Open(new, g, Y) /\ Alone(g, {}, sh)
  BY <1>2, <1>9, <1>11 DEF Fits, Distinct, Open, Alone
<1>13. ReadersWatch(new, g, Y)
  <2>. SUFFICES ASSUME NEW p \in Queries \ Y, g[p].status \in {"HEAD", "BODY"}
                PROVE  new.mon[new.sd[g[p].curr]]["r"] = "read"
    BY DEF ReadersWatch, Watch
  <2>1. p \notin C /\ f[p].status \in {"HEAD", "BODY"}
    BY <1>2
  <2>2. /\ io.mon[io.sd[f[p].curr]]["r"] = "read" /\ io.sd[f[p].curr] # 0 /\ f[p].curr \in ServerIndex
    BY <2>1, TurnsType DEF Fits, ReadersWatch, Watch, Open, InTcp, TcpStatus
  <2>3. io.sd[f[p].curr] \in Descriptors
    BY <2>2 DEF Fits, IoType
  <2>. QED  BY <2>2, <2>3, <1>2, <1>8, <1>9 DEF Turned, SameSinksBut, Events
<1>14. WritersWatch(new, g, Y, sh)
  <2>. SUFFICES ASSUME ~sh, NEW p \in Queries \ Y, g[p].status \in {"CONNECT", "SEND"}
                PROVE  new.mon[new.sd[g[p].curr]]["w"] = Waiting[g[p].status]
    BY WaitingType DEF WritersWatch, Watch, TcpStatus
  <2>1. InTcp(f, p) /\ \A o \in Queries : InTcp(f, o) => o = p
    BY <1>11 DEF Fits, Alone, InTcp, TcpStatus
  <2>2. CASE p \in C
    <3>1. C = {p} /\ Of(f, t, "write") = {}
      BY <2>1, <2>2, <1>4 DEF Of
    <3>2. n = 1 /\ io.count[t]["write"] = 0
      <4>1. Cardinality(C) = 1
        BY <3>1, FS_Singleton
      <4>2. Cardinality(Of(f, t, "write")) = 0
        BY <3>1, FS_EmptySet
      <4>. QED  BY <4>1, <4>2, <1>1, <1>6 DEF n
    <3>3. new.mon[io.sd[t]]["w"] = "write"
      BY <3>2, <1>7, <1>8
    <3>4. g[p].status = "SEND" /\ g[p].curr = t
      BY <2>2, <1>2, <1>3
    <3>. QED  BY <3>3, <3>4, <1>9, WaitingType DEF TcpStatus
  <2>3. CASE p \notin C
    <3>1. C = {}
      BY <2>1, <2>3 DEF Of
    <3>2. new = io
      BY <3>1, <1>8, FS_EmptySet DEF n
    <3>3. g[p].status = f[p].status /\ g[p].curr = f[p].curr
      BY <2>3, <1>2
    <3>. QED  BY <3>2, <3>3, WaitingType DEF Fits, WritersWatch, Watch, TcpStatus
  <2>. QED  BY <2>2, <2>3
<1>. QED  BY <1>2, <1>9, <1>10, <1>12, <1>13, <1>14 DEF Fits, new, n

-----------------------------------------------------------------------------
(* The operators the handlers share.                                       *)

ConnType == [ServerIndex -> {"none", "connecting", "up", "failed", "down"}]

\* The other queries stay in TCP mode, or in whatever they are.
KeepsOthers(q) ==
  \A p \in Queries \ {q} :
    \/ qry'[p] = qry[p]
    \/ /\ InTcp(qry, p) /\ InTcp(qry', p) /\ qry'[p].id = qry[p].id
       /\ qry'[p].first = qry[p].first /\ SwitchesLeft(qry'[p]) = SwitchesLeft(qry[p])

\* No more of them than that some connect.
OthersConnect(q) ==
  \A p \in Queries \ {q} :
    \/ qry'[p] = qry[p]
    \/ qry[p].status = "CONNECT" /\ qry'[p] = [qry[p] EXCEPT !.status = "SEND"]

\* Open sockets stay open, and the kernel's view of them the same.
SocketsKept == \A s \in ServerIndex : sd[s] # 0 => sd'[s] # 0
ConnKept == conn' \in ConnType /\ \A s \in ServerIndex : sd[s] # 0 => conn'[s] = conn[s]

\* What query q has received stays with it; it does not read on.
BodyKept(q, r) ==
  /\ qry'[q].buf = r.buf /\ qry'[q].body = r.body
  /\ qry'[q].code \in {r.code, "CONNECT", "TIMEOUT"}
  /\ qry'[q].status \in {"VOID", "CONNECT", "SEND"}

\* What a handler makes of the turns of query q.
Turns(q, l) ==
  \/ /\ InTcp(qry', q) /\ doneNow' = doneNow
     /\ qry'[q].first = l.first /\ SwitchesLeft(qry'[q]) <= SwitchesLeft(l)
  \/ /\ qry'[q].status = "VOID" /\ doneNow' = doneNow \cup {q}
     /\ qry'[q].code \in {"CONNECT", "TIMEOUT"}
     /\ qry'[q].first = l.first /\ qry'[q].curr = l.first /\ qry'[q].retries = 0

Result(q, r, Y, sh) ==
  /\ Fits(Io', qry', {}, Y \ {q}, sh)
  /\ KeepsOthers(q) /\ Turns(q, r) /\ qry'[q].id = r.id
  /\ OthersConnect(q) /\ BodyKept(q, r)
  /\ SocketsKept /\ ConnKept /\ aborted' \in Assertions

\* Query q has been taken out, and r is its record.
Taken(io, q, r, Y, sh) ==
  /\ Fits(io, qry, {q}, Y, sh) /\ q \in Queries
  /\ r \in Query /\ r.status = "VOID"
  /\ \A s \in ServerIndex : sd[s] # 0 => io.sd[s] # 0
  /\ conn \in ConnType /\ aborted \in Assertions

LEMMA SetIoMeans ==
  ASSUME NEW io \in IoType, SetIo(io)
  PROVE  Io' = io /\ sd' = io.sd
BY DEF SetIo, Io, IoType

LEMMA StatusType ==
  ASSUME NEW r \in Query, NEW status \in {"VOID", "UDP"} \cup TcpStatus
  PROVE  LET l == [r EXCEPT !.status = status] IN
         /\ l \in Query /\ l.status = status /\ l.id = r.id /\ l.first = r.first /\ l.curr = r.curr
         /\ l.retries = r.retries /\ l.code = r.code /\ l.buf = r.buf /\ l.body = r.body
         /\ SwitchesLeft(l) = SwitchesLeft(r)
BY DEF Query, SwitchesLeft

\* The query with a result, which waits for nothing.
Ended(r, code) == [r EXCEPT !.status = "VOID", !.code = code]

LEMMA CodeType ==
  ASSUME NEW r \in Query, NEW code \in {"VOID", "OK", "TRUNC", "FLAGS", "MALLOC", "CONNECT", "TIMEOUT"}
  PROVE  LET l == Ended(r, code) IN
         /\ l \in Query /\ l.status = "VOID" /\ l.code = code /\ l.id = r.id /\ l.first = r.first
         /\ l.curr = r.curr /\ l.retries = r.retries /\ l.buf = r.buf /\ l.body = r.body
BY DEF Query, Ended

LEMMA ModSmall ==
  ASSUME NEW i \in 0 .. Servers - 1
  PROVE  i % Servers = i /\ (i - Servers) % Servers = i
BY ConstantsAssumption

\* The place of the current server in the rotation.
LEMMA Place ==
  ASSUME NEW c \in ServerIndex, NEW f \in ServerIndex
  PROVE  (c - f) % Servers = IF c >= f THEN c - f ELSE c - f + Servers
<1>1. Servers \in Nat /\ Servers > 0
  BY ConstantsAssumption
<1>2. CASE c >= f
  BY <1>1, <1>2, ModSmall DEF ServerIndex
<1>3. CASE c < f
  <2>1. c - f + Servers \in 0 .. Servers - 1 /\ (c - f + Servers) - Servers = c - f
    BY <1>1, <1>3 DEF ServerIndex
  <2>. QED  BY <2>1, <1>3, ModSmall DEF ServerIndex
<1>. QED  BY <1>1, <1>2, <1>3 DEF ServerIndex

LEMMA NextPlace ==
  ASSUME NEW c \in ServerIndex
  PROVE  (c + 1) % Servers = IF c = Servers - 1 THEN 0 ELSE c + 1
<1>1. Servers \in Nat /\ Servers > 0
  BY ConstantsAssumption
<1>2. CASE c = Servers - 1
  <2>1. Servers % Servers = 0
    BY <1>1
  <2>. QED  BY <2>1, <1>1, <1>2
<1>3. CASE c # Servers - 1
  BY <1>1, <1>3, ModSmall DEF ServerIndex
<1>. QED  BY <1>2, <1>3

\* A switch takes a turn.
LEMMA SwitchTakesTurn ==
  ASSUME NEW r \in Query, MaySwitch(r)
  PROVE  SwitchesLeft(Switched(r)) <= SwitchesLeft(r)
<1>. DEFINE c == r.curr  f == r.first  n == NextOf(r)
<1>1. c \in ServerIndex /\ f \in ServerIndex /\ r.retries \in Nat /\ Servers \in Nat /\ Servers > 0
  BY TurnsType, ConstantsAssumption
<1>2. n = IF c = Servers - 1 THEN 0 ELSE c + 1
  BY <1>1, NextPlace DEF NextOf
<1>3. n \in ServerIndex
  BY <1>1, <1>2 DEF ServerIndex
<1>. DEFINE k == IF n = f /\ r.retries >= 1 THEN r.retries - 1 ELSE r.retries
<1>4. k \in 0 .. r.retries
  BY <1>1
<1>5. /\ Switched(r).curr = n /\ Switched(r).first = f /\ Switched(r).retries = k
  BY <1>3, <1>4, AtType DEF Switched, SameBut
<1>6. /\ (c - f) % Servers = IF c >= f THEN c - f ELSE c - f + Servers
      /\ (n - f) % Servers = IF n >= f THEN n - f ELSE n - f + Servers
  BY <1>1, <1>3, Place
<1>7. /\ SwitchesLeft(r) = r.retries * Servers + Servers - 1 - ((c - f) % Servers)
      /\ SwitchesLeft(Switched(r)) = k * Servers + Servers - 1 - ((n - f) % Servers)
  BY <1>5 DEF SwitchesLeft
<1>8. CASE n = f
  <2>1. k = r.retries - 1 /\ r.retries >= 1
    BY <1>1, <1>8 DEF MaySwitch
  <2>2. k * Servers = r.retries * Servers - Servers /\ r.retries * Servers \in Int
    BY <2>1, <1>1
  <2>. HIDE DEF k, c, f, n
  <2>3. (n - f) % Servers \in Int /\ (c - f) % Servers \in 0 .. Servers - 1 /\ (n - f) % Servers = 0
    BY <1>1, <1>3, <1>6, <1>8 DEF ServerIndex
  <2>. QED  BY <2>2, <2>3, <1>1, <1>7
<1>9. CASE n # f
  <2>1. k = r.retries /\ k * Servers \in Int
    BY <1>1, <1>9
  <2>. HIDE DEF k, c, f, n
  <2>2. (n - f) % Servers = ((c - f) % Servers) + 1 /\ (c - f) % Servers \in Int
    BY <1>1, <1>2, <1>3, <1>6, <1>9 DEF ServerIndex
  <2>. QED  BY <2>1, <2>2, <1>1, <1>7
<1>. QED  BY <1>8, <1>9

\* Who has no turn left is back at its first server, with no retry left.
LEMMA LastTurn ==
  ASSUME NEW r \in Query, SwitchesLeft(r) = 0 \/ ~MaySwitch(r)
  PROVE  Switched(r).curr = r.first /\ Switched(r).retries = 0
<1>. DEFINE c == r.curr  f == r.first  n == NextOf(r)
<1>1. c \in ServerIndex /\ f \in ServerIndex /\ r.retries \in Nat /\ Servers \in Nat /\ Servers > 0
  BY TurnsType, ConstantsAssumption
<1>2. n = IF c = Servers - 1 THEN 0 ELSE c + 1
  BY <1>1, NextPlace DEF NextOf
<1>3. n = f /\ r.retries = 0
  <2>1. CASE SwitchesLeft(r) = 0
    <3>. DEFINE m == (c - f) % Servers  p == r.retries * Servers
    <3>1. p + Servers - 1 - m = 0 /\ p \in Nat
      BY <2>1, <1>1 DEF SwitchesLeft
    <3>2. m = IF c >= f THEN c - f ELSE c - f + Servers
      BY <1>1, Place
    <3>3. r.retries >= 1 => p >= Servers
      BY <1>1
    <3>. HIDE DEF m, p, c, f, n
    <3>4. m \in 0 .. Servers - 1
      BY <1>1, <3>2 DEF ServerIndex
    <3>5. p = 0 /\ m = Servers - 1
      BY <1>1, <3>1, <3>4
    <3>6. r.retries = 0
      BY <1>1, <3>3, <3>5
    <3>. QED  BY <1>1, <1>2, <3>2, <3>5, <3>6 DEF ServerIndex
  <2>2. CASE ~MaySwitch(r)
    BY <2>2, <1>1 DEF MaySwitch
  <2>. QED  BY <2>1, <2>2
<1>4. Switched(r) = At(r, f, 0)
  BY <1>3 DEF Switched
<1>. QED  BY <1>1, <1>4, AtType

LEMMA FinishResult ==
  ASSUME NEW io, NEW q, NEW r, NEW Y, NEW sh, Taken(io, q, r, Y, sh),
         NEW l \in Query, SameBut(r, l), SwitchesLeft(l) = 0 \/ ~MaySwitch(l),
         NEW code \in {"CONNECT", "TIMEOUT"}, Finish(q, Switched(l), code, io), ConnKept
  PROVE  Result(q, r, Y, sh)
<1>. DEFINE w == Switched(l)  n == Ended(w, code)
<1>1. /\ n \in Query /\ n.status = "VOID" /\ n.code = code /\ n.id = r.id /\ n.first = r.first
      /\ n.curr = r.first /\ n.retries = 0 /\ n.buf = r.buf /\ n.body = r.body
  <2>1. /\ w \in Query /\ w.id = r.id /\ w.first = r.first /\ w.curr = r.first /\ w.retries = 0
        /\ w.buf = r.buf /\ w.body = r.body
    BY SwitchedType, LastTurn DEF SameBut
  <2>2. code \in {"VOID", "OK", "TRUNC", "FLAGS", "MALLOC", "CONNECT", "TIMEOUT"}
    OBVIOUS
  <2>. HIDE DEF w
  <2>3. /\ n \in Query /\ n.status = "VOID" /\ n.code = code /\ n.id = w.id /\ n.first = w.first
        /\ n.curr = w.curr /\ n.retries = w.retries /\ n.buf = w.buf /\ n.body = w.body
    BY <2>1, <2>2, CodeType
  <2>. QED  BY <2>1, <2>3
<1>. HIDE DEF n
<1>2. qry' = [qry EXCEPT ![q] = n] /\ SetIo(io) /\ doneNow' = doneNow \cup {q} /\ aborted' \in Assertions
  BY DEF Finish, n, Ended, Taken, Assertions
<1>3. q \in Queries /\ Fits(io, qry, {q}, Y, sh) /\ qry \in [Queries -> Query] /\ io \in IoType
  BY DEF Taken, Fits
<1>4. n.status \notin TcpStatus
  BY <1>1 DEF TcpStatus
<1>5. Fits(io, qry', {}, Y \ {q}, sh)
  BY <1>1, <1>2, <1>3, <1>4, StaysOut
<1>6. Io' = io /\ SocketsKept
  BY <1>2, <1>3, SetIoMeans DEF SocketsKept, Taken
<1>7. KeepsOthers(q) /\ OthersConnect(q) /\ qry'[q] = n
  BY <1>2, <1>3 DEF KeepsOthers, OthersConnect
<1>8. BodyKept(q, r)
  BY <1>1, <1>7 DEF BodyKept
<1>. QED  BY <1>1, <1>2, <1>5, <1>6, <1>7, <1>8 DEF Result, Turns

LEMMA WaitsResult ==
  ASSUME NEW io, NEW q, NEW r, NEW Y, NEW sh, Taken(io, q, r, Y, sh),
         NEW l \in Query, SameBut(r, l), SwitchesLeft(l) <= SwitchesLeft(r),
         NEW status \in {"CONNECT", "SEND"}, io.sd[l.curr] # 0,
         Waits(q, l, status, Want(io, l.curr, Waiting[status])), ConnKept
  PROVE  Result(q, r, Y, sh)
<1>1. status \in TcpStatus /\ status \notin {"HEAD", "BODY"}
  BY DEF TcpStatus
<1>. DEFINE n == [l EXCEPT !.status = status]  new == Want(io, l.curr, Waiting[status])
<1>2. /\ n \in Query /\ n.status = status /\ n.id = r.id /\ n.first = r.first
      /\ SwitchesLeft(n) <= SwitchesLeft(r) /\ n.code = r.code /\ n.buf = r.buf /\ n.body = r.body
  BY <1>1, StatusType DEF SameBut
<1>3. qry' = [qry EXCEPT ![q] = n] /\ SetIo(new) /\ doneNow' = doneNow /\ aborted' = aborted
  BY DEF Waits
<1>4. q \in Queries /\ Fits(io, qry, {q}, Y, sh) /\ qry \in [Queries -> Query] /\ aborted \in Assertions
  BY DEF Taken, Fits
<1>5. Fits(new, qry', {}, Y \ {q}, sh)
  BY <1>1, <1>3, <1>4, PutsIn
<1>6. new.sd = io.sd
  <2>1. io \in IoType /\ l.curr \in ServerIndex /\ Waiting[status] \in Sides
    BY <1>1, <1>4, WaitingType, TurnsType DEF Fits
  <2>. QED  BY <2>1, WantEffect DEF Changed
<1>. HIDE DEF n, new
<1>7. Io' = new /\ SocketsKept
  BY <1>3, <1>5, <1>6, SetIoMeans DEF Fits, SocketsKept, Taken
<1>8. KeepsOthers(q) /\ OthersConnect(q) /\ qry'[q] = n
  BY <1>3, <1>4 DEF KeepsOthers, OthersConnect
<1>9. InTcp(qry', q) /\ BodyKept(q, r)
  BY <1>1, <1>2, <1>8 DEF InTcp, BodyKept
<1>. QED  BY <1>2, <1>3, <1>4, <1>5, <1>7, <1>8, <1>9 DEF Result, Turns

LEMMA ConnectedResult ==
  ASSUME NEW io, NEW q, NEW r, NEW Y, NEW sh, Taken(io, q, r, Y, sh),
         NEW l \in Query, SameBut(r, l), SwitchesLeft(l) <= SwitchesLeft(r),
         io.sd[l.curr] # 0, ConnectedAtOnce(q, l, l.curr, io), ConnKept
  PROVE  Result(q, r, Y, sh)
<1>. DEFINE t == l.curr  n == [l EXCEPT !.status = "SEND"]  f == [qry EXCEPT ![q] = n]
            C == Connecters(t) \ {q}  mid == Want(io, t, "write")
            new == WriteInstead(mid, t, Cardinality(C))
<1>1. /\ n \in Query /\ n.status = "SEND" /\ n.id = r.id /\ n.first = r.first
      /\ SwitchesLeft(n) <= SwitchesLeft(r) /\ "SEND" \in TcpStatus /\ Waiting["SEND"] = "write"
      /\ t \in ServerIndex /\ n.code = r.code /\ n.buf = r.buf /\ n.body = r.body
  <2>1. /\ l.id = r.id /\ l.first = r.first /\ l.code = r.code /\ l.buf = r.buf /\ l.body = r.body
        /\ t \in ServerIndex /\ "SEND" \in TcpStatus /\ Waiting["SEND"] = "write"
    BY WaitingType, TurnsType DEF TcpStatus, SameBut
  <2>2. /\ n \in Query /\ n.status = "SEND" /\ n.id = l.id /\ n.first = l.first
        /\ SwitchesLeft(n) = SwitchesLeft(l) /\ n.code = l.code /\ n.buf = l.buf /\ n.body = l.body
    BY <2>1, StatusType
  <2>. HIDE DEF n, t
  <2>. QED  BY <2>1, <2>2
<1>2. q \in Queries /\ Fits(io, qry, {q}, Y, sh) /\ qry \in [Queries -> Query] /\ io \in IoType
  BY DEF Taken, Fits
<1>3. Fits(mid, f, {}, Y \ {q}, sh)
  BY <1>1, <1>2, PutsIn
<1>. HIDE DEF n
<1>4. f[q] = n /\ \A p \in Queries \ {q} : f[p] = qry[p]
  BY <1>2
<1>5. C = Of(f, t, "connect")
  <2>1. ASSUME NEW p \in Queries \ {q}
        PROVE  p \in Connecters(t) <=> p \in Of(f, t, "connect")
    BY <2>1, <1>4, WaitingType DEF Connecters, Of, InTcp, TcpStatus
  <2>2. q \notin Of(f, t, "connect")
    BY <1>1, <1>4 DEF Of
  <2>3. Connecters(t) \subseteq Queries /\ Of(f, t, "connect") \subseteq Queries
    BY DEF Connecters, Of
  <2>. HIDE DEF f
  <2>. QED  BY <2>1, <2>2, <2>3
<1>6. mid.sd = io.sd
  <2>1. "write" \in Sides
    BY DEF Sides
  <2>. QED  BY <2>1, <1>1, <1>2, WantEffect DEF Changed
<1>7. /\ qry' = [p \in Queries |-> IF p = q THEN n ELSE IF p \in C THEN [qry[p] EXCEPT !.status = "SEND"]
                                   ELSE qry[p]]
      /\ SetIo(new) /\ doneNow' = doneNow /\ aborted' \in Assertions
  BY DEF ConnectedAtOnce, n, Taken, Assertions
<1>. HIDE DEF C
<1>8. qry' = [p \in Queries |-> IF p \in C THEN [f[p] EXCEPT !.status = "SEND"] ELSE f[p]]
  <2>1. q \notin C
    BY DEF C
  <2>2. \A p \in Queries : (IF p \in C THEN [f[p] EXCEPT !.status = "SEND"] ELSE f[p]) =
                           (IF p = q THEN n ELSE IF p \in C THEN [qry[p] EXCEPT !.status = "SEND"] ELSE qry[p])
    BY <1>4, <2>1
  <2>. HIDE DEF f
  <2>. QED  BY <1>7, <2>2
<1>. HIDE DEF f, mid
<1>9. Fits(new, qry', {}, Y \ {q}, sh) /\ new.sd = io.sd
  BY <1>1, <1>3, <1>5, <1>6, <1>8, AllWrite DEF mid
<1>. HIDE DEF new
<1>10. Io' = new /\ SocketsKept
  BY <1>7, <1>9, SetIoMeans DEF Fits, SocketsKept, Taken
<1>11. KeepsOthers(q) /\ qry'[q] = n
  <2>1. qry'[q] = n
    BY <1>2, <1>7
  <2>2. ASSUME NEW p \in Queries \ {q}, p \in C
        PROVE  InTcp(qry, p) /\ InTcp(qry', p) /\ qry'[p].id = qry[p].id /\ qry'[p].first = qry[p].first
               /\ SwitchesLeft(qry'[p]) = SwitchesLeft(qry[p])
    <3>1. qry'[p] = [qry[p] EXCEPT !.status = "SEND"] /\ qry[p] \in Query
      BY <2>2, <1>2, <1>7
    <3>2. qry[p].status = "CONNECT"
      BY <2>2 DEF C, Connecters
    <3>3. "SEND" \in TcpStatus /\ "CONNECT" \in TcpStatus
      BY DEF TcpStatus
    <3>4. /\ [qry[p] EXCEPT !.status = "SEND"].status = "SEND"
          /\ [qry[p] EXCEPT !.status = "SEND"].id = qry[p].id
          /\ [qry[p] EXCEPT !.status = "SEND"].first = qry[p].first
          /\ SwitchesLeft([qry[p] EXCEPT !.status = "SEND"]) = SwitchesLeft(qry[p])
      BY <3>1, <3>3, StatusType
    <3>. QED  BY <3>1, <3>2, <3>3, <3>4 DEF InTcp
  <2>3. \A p \in Queries \ {q} : p \notin C => qry'[p] = qry[p]
    BY <1>7
  <2>. QED  BY <2>1, <2>2, <2>3 DEF KeepsOthers
<1>12. InTcp(qry', q) /\ BodyKept(q, r)
  BY <1>1, <1>11 DEF InTcp, BodyKept
<1>13. OthersConnect(q)
  BY <1>7 DEF OthersConnect, C, Connecters
<1>. QED  BY <1>1, <1>7, <1>9, <1>10, <1>11, <1>12, <1>13 DEF Result, Turns

LEMMA SetConnType ==
  ASSUME conn \in ConnType, NEW failed, NEW t \in ServerIndex,
         \A s \in ServerIndex : sd[s] # 0 => s \notin failed /\ s # t,
         NEW state \in {"none", "connecting", "up", "failed", "down"}, SetConn(failed, t, state)
  PROVE  ConnKept
BY DEF SetConn, ConnType, ConnKept

\* Whatever it finds on its way round the servers.
LEMMA WantConnectResult ==
  ASSUME NEW io, NEW q, NEW r, NEW Y, NEW sh, Taken(io, q, r, Y, sh),
         NEW r1 \in Query, SameBut(r, r1), SwitchesLeft(r1) <= SwitchesLeft(r),
         WantConnectTcp(q, r1, io)
  PROVE  Result(q, r, Y, sh)
<1>1. PICK l \in Later(r1) :
        LET t     == l.curr
            tried == {m.curr : m \in {n \in Later(r1) : SwitchesLeft(n) > SwitchesLeft(l)}}
            last  == SwitchesLeft(l) = 0
        IN  /\ \A s \in tried : io.sd[s] = 0
            /\ \E failed \in SUBSET tried :
                 \/ /\ io.sd[t] # 0 \/ t \in failed
                    /\ \E number \in Numberings(io, failed) :
                         Waits(q, l, "SEND", Want(WithSockets(io, number), t, "write"))
                    /\ conn' = [s \in ServerIndex |-> IF s \in failed THEN "failed" ELSE conn[s]]
                 \/ /\ io.sd[t] = 0 /\ t \notin failed
                    /\ \E number \in Numberings(io, failed \cup {t}) :
                         LET new == WithSockets(io, number) IN
                         \/ Waits(q, l, "CONNECT", Want(new, t, "connect")) /\ SetConn(failed, t, "connecting")
                         \/ ConnectedAtOnce(q, l, t, new) /\ SetConn(failed, t, "up")
                         \/ last /\ Finish(q, Switched(l), "CONNECT", new) /\ SetConn(failed, t, "failed")
                 \/ /\ io.sd[t] = 0 /\ t \notin failed /\ last
                    /\ \E number \in Numberings(io, failed) :
                         Finish(q, Switched(l), "CONNECT", WithSockets(io, number))
                    /\ SetConn(failed, t, conn[t])
  BY DEF WantConnectTcp
<1>. DEFINE t     == l.curr
            tried == {m.curr : m \in {n \in Later(r1) : SwitchesLeft(n) > SwitchesLeft(l)}}
            last  == SwitchesLeft(l) = 0
<1>2. l \in Query /\ SameBut(r, l) /\ SwitchesLeft(l) <= SwitchesLeft(r) /\ t \in ServerIndex
  <2>1. l \in Query /\ SameBut(r1, l) /\ SwitchesLeft(l) <= SwitchesLeft(r1)
    BY LaterType
  <2>2. SwitchesLeft(l) \in Nat /\ SwitchesLeft(r1) \in Nat /\ SwitchesLeft(r) \in Nat
    BY <2>1, SwitchesLeftType DEF Taken
  <2>. QED  BY <2>1, <2>2, TurnsType DEF SameBut
<1>3. tried \subseteq ServerIndex
  <2>1. \A m \in Later(r1) : m.curr \in ServerIndex
    BY LaterType, TurnsType
  <2>. QED  BY <2>1
<1>4. PICK failed \in SUBSET tried :
        \/ /\ io.sd[t] # 0 \/ t \in failed
           /\ \E number \in Numberings(io, failed) :
                Waits(q, l, "SEND", Want(WithSockets(io, number), t, "write"))
           /\ conn' = [s \in ServerIndex |-> IF s \in failed THEN "failed" ELSE conn[s]]
        \/ /\ io.sd[t] = 0 /\ t \notin failed
           /\ \E number \in Numberings(io, failed \cup {t}) :
                LET new == WithSockets(io, number) IN
                \/ Waits(q, l, "CONNECT", Want(new, t, "connect")) /\ SetConn(failed, t, "connecting")
                \/ ConnectedAtOnce(q, l, t, new) /\ SetConn(failed, t, "up")
                \/ last /\ Finish(q, Switched(l), "CONNECT", new) /\ SetConn(failed, t, "failed")
        \/ /\ io.sd[t] = 0 /\ t \notin failed /\ last
           /\ \E number \in Numberings(io, failed) :
                Finish(q, Switched(l), "CONNECT", WithSockets(io, number))
           /\ SetConn(failed, t, conn[t])
  BY <1>1
<1>5. failed \subseteq ServerIndex /\ \A s \in failed : io.sd[s] = 0
  BY <1>1, <1>3
<1>. HIDE DEF t, tried, last
<1>6. /\ conn \in ConnType /\ Fits(io, qry, {q}, Y, sh)
      /\ \A s \in ServerIndex : sd[s] # 0 => s \notin failed /\ io.sd[s] # 0
  BY <1>5 DEF Taken
\* The sockets of new servers do not matter to those who wait.
<1>7. ASSUME NEW news \in SUBSET ServerIndex, \A s \in news : io.sd[s] = 0,
             NEW number \in Numberings(io, news)
      PROVE  /\ Taken(WithSockets(io, number), q, r, Y, sh)
             /\ t \in news \/ io.sd[t] # 0 => WithSockets(io, number).sd[t] # 0
  <2>1. /\ Fits(WithSockets(io, number), qry, {q}, Y, sh)
        /\ \A s \in news : WithSockets(io, number).sd[s] # 0
        /\ \A s \in ServerIndex \ news : WithSockets(io, number).sd[s] = io.sd[s]
    BY <1>6, <1>7, GetsSockets
  <2>. QED  BY <2>1, <1>2 DEF Taken
<1>8. CASE /\ io.sd[t] # 0 \/ t \in failed
           /\ \E number \in Numberings(io, failed) :
                Waits(q, l, "SEND", Want(WithSockets(io, number), t, "write"))
           /\ conn' = [s \in ServerIndex |-> IF s \in failed THEN "failed" ELSE conn[s]]
  <2>1. PICK number \in Numberings(io, failed) : Waits(q, l, "SEND", Want(WithSockets(io, number), t, "write"))
    BY <1>8
  <2>2. ConnKept
    BY <1>6, <1>8 DEF ConnType, ConnKept
  <2>3. Waiting["SEND"] = "write"
    BY WaitingType DEF TcpStatus
  <2>4. Taken(WithSockets(io, number), q, r, Y, sh) /\ WithSockets(io, number).sd[t] # 0
    BY <1>5, <1>7, <1>8
  <2>. QED  BY <2>1, <2>2, <2>3, <2>4, <1>2, WaitsResult DEF t
<1>9. CASE /\ io.sd[t] = 0 /\ t \notin failed
           /\ \E number \in Numberings(io, failed \cup {t}) :
                LET new == WithSockets(io, number) IN
                \/ Waits(q, l, "CONNECT", Want(new, t, "connect")) /\ SetConn(failed, t, "connecting")
                \/ ConnectedAtOnce(q, l, t, new) /\ SetConn(failed, t, "up")
                \/ last /\ Finish(q, Switched(l), "CONNECT", new) /\ SetConn(failed, t, "failed")
  <2>1. PICK number \in Numberings(io, failed \cup {t}) :
          LET new == WithSockets(io, number) IN
          \/ Waits(q, l, "CONNECT", Want(new, t, "connect")) /\ SetConn(failed, t, "connecting")
          \/ ConnectedAtOnce(q, l, t, new) /\ SetConn(failed, t, "up")
          \/ last /\ Finish(q, Switched(l), "CONNECT", new) /\ SetConn(failed, t, "failed")
    BY <1>9
  <2>. DEFINE new == WithSockets(io, number)
  <2>2. failed \cup {t} \in SUBSET ServerIndex /\ \A s \in failed \cup {t} : io.sd[s] = 0
    BY <1>2, <1>5, <1>9
  <2>3. Taken(new, q, r, Y, sh) /\ new.sd[t] # 0
    BY <1>7, <2>2
  <2>4. ConnKept
    <3>1. \A s \in ServerIndex : sd[s] # 0 => s \notin failed /\ s # t
      BY <1>6, <1>9
    <3>. QED  BY <2>1, <3>1, <1>2, <1>6, SetConnType
  <2>. HIDE DEF new
  <2>5. CASE Waits(q, l, "CONNECT", Want(new, t, "connect"))
    <3>1. Waiting["CONNECT"] = "connect"
      BY WaitingType DEF TcpStatus
    <3>. QED  BY <2>3, <2>4, <2>5, <3>1, <1>2, WaitsResult DEF t
  <2>6. CASE ConnectedAtOnce(q, l, t, new)
    BY <2>3, <2>4, <2>6, <1>2, ConnectedResult DEF t
  <2>7. CASE last /\ Finish(q, Switched(l), "CONNECT", new)
    BY <2>3, <2>4, <2>7, <1>2, FinishResult DEF last
  <2>. QED  BY <2>1, <2>5, <2>6, <2>7 DEF new
<1>10. CASE /\ io.sd[t] = 0 /\ t \notin failed /\ last
            /\ \E number \in Numberings(io, failed) :
                 Finish(q, Switched(l), "CONNECT", WithSockets(io, number))
            /\ SetConn(failed, t, conn[t])
  <2>1. PICK number \in Numberings(io, failed) : Finish(q, Switched(l), "CONNECT", WithSockets(io, number))
    BY <1>10
  <2>2. ConnKept
    <3>1. conn[t] \in {"none", "connecting", "up", "failed", "down"}
      BY <1>2, <1>6 DEF ConnType
    <3>2. \A s \in ServerIndex : sd[s] # 0 => s \notin failed /\ s # t
      BY <1>6, <1>10
    <3>. QED  BY <3>1, <3>2, <1>2, <1>6, <1>10, SetConnType
  <2>3. Taken(WithSockets(io, number), q, r, Y, sh)
    BY <1>5, <1>7
  <2>. QED  BY <2>1, <2>2, <2>3, <1>2, <1>10, FinishResult DEF last
<1>. QED  BY <1>4, <1>8, <1>9, <1>10

LEMMA SwitchElseResult ==
  ASSUME NEW io, NEW q, NEW r, NEW Y, NEW sh, Taken(io, q, r, Y, sh),
         NEW code \in {"CONNECT", "TIMEOUT"}, SwitchElseScheduleFinish(q, r, code, io)
  PROVE  Result(q, r, Y, sh)
<1>1. r \in Query
  BY DEF Taken
<1>2. Switched(r) \in Query /\ SameBut(r, Switched(r)) /\ SameBut(r, r)
  BY <1>1, SwitchedType DEF SameBut
<1>3. CASE MaySwitch(r)
  <2>1. SwitchesLeft(Switched(r)) <= SwitchesLeft(r)
    BY <1>1, <1>3, SwitchTakesTurn
  <2>2. WantConnectTcp(q, Switched(r), io)
    BY <1>3 DEF SwitchElseScheduleFinish
  <2>. QED  BY <1>2, <2>1, <2>2, WantConnectResult
<1>4. CASE ~MaySwitch(r)
  <2>1. Finish(q, Switched(r), code, io) /\ ConnKept
    BY <1>4 DEF SwitchElseScheduleFinish, Taken, ConnKept
  <2>. QED  BY <1>1, <1>2, <1>4, <2>1, FinishResult
<1>. QED  BY <1>3, <1>4

-----------------------------------------------------------------------------
(* The inductive invariant.                                                *)

OneEntryEach ==
  /\ queryList \in Seq(Queries)
  /\ \A i, j \in DOMAIN queryList : queryList[i] = queryList[j] => i = j

\* A listed query is pending, about to be called back, or has been.
Stage(q) ==
  /\ Listed(q) <=> qry[q].status # "VOID" \/ q \in doneNow \/ q \in told
  /\ qry[q].status # "VOID" => q \notin doneNow /\ q \notin told
  /\ q \in doneNow => q \notin told
  /\ Listed(q) => qry[q].id \in 1 .. MaxSubmits

Scheduled ==
  /\ OneEntryEach
  /\ doneNow \subseteq Queries /\ told \subseteq Queries
  /\ affected \subseteq Queries /\ \A q \in affected : InTcp(qry, q)
  /\ \A q \in Queries : Stage(q)

Plain ==
  /\ head \in [ServerIndex -> Seq(Piece)] /\ stream \in [ServerIndex -> Seq(Piece)]
  /\ asked \in [ServerIndex -> SUBSET (1 .. MaxSubmits)]
  /\ conn \in ConnType /\ serial \in Nat
  /\ shared \in BOOLEAN /\ pipelined \in BOOLEAN /\ aborted \in Assertions

IInv == Fits(Io, qry, {}, affected, shared) /\ Scheduled /\ Plain

\* What a step does to query q (MovesAsAssumed).
Assumed(q) ==
  LET r == qry[q]
      l == qry'[q]
  IN  r.status \in TcpStatus /\ l # r /\ Listed(q)' =>
        \/ l.status \in TcpStatus /\ l.first = r.first /\ SwitchesLeft(l) <= SwitchesLeft(r)
        \/ /\ l.status = "VOID" /\ l.code \in {"CONNECT", "TIMEOUT"} /\ q \in doneNow'
           /\ l.first = r.first /\ l.curr = r.first /\ l.retries = 0
        \/ l.status = "VOID" /\ l.code \in {"OK", "TRUNC", "FLAGS", "MALLOC"} /\ q \in told'
        \/ l.status = "UDP" /\ l.code = "VOID" /\ l.first = r.curr /\ l.retries = Retry

Keeps == IInv' /\ \A q \in Queries : Assumed(q)

LEMMA TypeFollows ==
  ASSUME IInv
  PROVE  TypeOK
<1>1. Io \in IoType /\ qry \in [Queries -> Query]
  BY DEF IInv, Fits
<1>2. /\ sd \in [ServerIndex -> Descriptors \cup {0}]
      /\ count \in [ServerIndex -> [Sides -> Nat]]
      /\ mon \in [Descriptors -> [Events -> Sides \cup {"none"}]]
  BY <1>1 DEF IoType, Io
<1>3. shared \in BOOLEAN /\ pipelined \in BOOLEAN
  BY Zenon DEF IInv, Plain
<1>4. /\ head \in [ServerIndex -> Seq(Piece)] /\ stream \in [ServerIndex -> Seq(Piece)]
      /\ asked \in [ServerIndex -> SUBSET (1 .. MaxSubmits)]
      /\ conn \in ConnType /\ serial \in Nat /\ aborted \in Assertions
  BY DEF IInv, Plain
<1>5. /\ queryList \in Seq(Queries) /\ doneNow \subseteq Queries /\ told \subseteq Queries
      /\ affected \subseteq Queries
  BY DEF IInv, Scheduled, OneEntryEach
<1>. QED  BY <1>1, <1>2, <1>3, <1>4, <1>5, Zenon DEF TypeOK, ConnType

\* Who is left alone stays at its stage.
LEMMA StageKept ==
  ASSUME NEW q \in Queries, Stage(q), Listed(q)' <=> Listed(q),
         qry'[q].status = "VOID" <=> qry[q].status = "VOID", qry'[q].id = qry[q].id,
         q \in doneNow' <=> q \in doneNow, q \in told' <=> q \in told
  PROVE  Stage(q)'
BY DEF Stage

\* A handler for query q.
LEMMA HandlerSchedules ==
  ASSUME Scheduled, NEW q \in Queries, qry[q].status # "VOID",
         KeepsOthers(q), qry'[q].id = qry[q].id, queryList' = queryList,
         affected' \subseteq affected, q \in affected' => InTcp(qry', q),
         \/ qry'[q].status # "VOID" /\ doneNow' = doneNow /\ told' = told
         \/ qry'[q].status = "VOID" /\ doneNow' = doneNow \cup {q} /\ told' = told
         \/ qry'[q].status = "VOID" /\ doneNow' = doneNow /\ told' = told \cup {q}
  PROVE  Scheduled'
<1>1. \A p \in Queries : Listed(p)' <=> Listed(p)
  BY DEF Listed
<1>2. ASSUME NEW p \in Queries \ {q} PROVE Stage(p)' /\ (InTcp(qry, p) => InTcp(qry', p))
  <2>1. /\ qry'[p].status = "VOID" <=> qry[p].status = "VOID"
        /\ qry'[p].id = qry[p].id /\ (InTcp(qry, p) => InTcp(qry', p))
    BY DEF KeepsOthers, InTcp, TcpStatus
  <2>2. (p \in doneNow' <=> p \in doneNow) /\ (p \in told' <=> p \in told)
    OBVIOUS
  <2>. QED  BY <2>1, <2>2, <1>1, StageKept DEF Scheduled
<1>3. Stage(q)'
  BY <1>1 DEF Scheduled, Stage
<1>4. OneEntryEach' /\ doneNow' \subseteq Queries /\ told' \subseteq Queries /\ affected' \subseteq Queries
  BY DEF Scheduled, OneEntryEach
<1>5. \A p \in affected' : InTcp(qry', p)
  BY <1>2 DEF Scheduled
<1>. QED  BY <1>2, <1>3, <1>4, <1>5 DEF Scheduled, InTcp

LEMMA OthersAssumed ==
  ASSUME IInv, NEW q \in Queries, KeepsOthers(q)
  PROVE  \A p \in Queries \ {q} : Assumed(p)
<1>. SUFFICES ASSUME NEW p \in Queries \ {q}, qry'[p] # qry[p]
              PROVE  /\ qry'[p].status \in TcpStatus /\ qry'[p].first = qry[p].first
                     /\ SwitchesLeft(qry'[p]) <= SwitchesLeft(qry[p])
  BY DEF Assumed
<1>1. SwitchesLeft(qry[p]) \in Nat
  BY SwitchesLeftType DEF IInv, Fits
<1>. QED  BY <1>1 DEF KeepsOthers, InTcp

\* A handler that ends in a new server or in a scheduled finish keeps all.
LEMMA ResultKeeps ==
  ASSUME IInv, NEW q \in Queries, qry[q].status # "VOID",
         NEW Y, Result(q, Leave(q), Y, shared'), affected' = Y \ {q}, Y \subseteq affected \cup {q},
         UNCHANGED <<queryList, head, asked, stream, told, serial, pipelined>>,
         shared' \in BOOLEAN
  PROVE  Keeps
<1>1. qry[q] \in Query
  BY DEF IInv, Fits
<1>2. /\ Leave(q).id = qry[q].id /\ Leave(q).first = qry[q].first
      /\ SwitchesLeft(Leave(q)) = SwitchesLeft(qry[q])
  BY <1>1, StatusType DEF Leave
<1>3. Fits(Io', qry', {}, affected', shared')
  BY DEF Result
<1>4. Scheduled'
  <2>1. affected' \subseteq affected /\ q \notin affected' /\ queryList' = queryList /\ told' = told
    OBVIOUS
  <2>2. KeepsOthers(q) /\ qry'[q].id = qry[q].id
    BY <1>2 DEF Result
  <2>3. \/ qry'[q].status # "VOID" /\ doneNow' = doneNow
        \/ qry'[q].status = "VOID" /\ doneNow' = doneNow \cup {q}
    BY DEF Result, Turns, InTcp, TcpStatus
  <2>. QED  BY <2>1, <2>2, <2>3, HandlerSchedules DEF IInv
<1>5. Plain'
  <2>1. pipelined' \in BOOLEAN
    BY Zenon DEF IInv, Plain
  <2>2. /\ head' \in [ServerIndex -> Seq(Piece)] /\ stream' \in [ServerIndex -> Seq(Piece)]
        /\ asked' \in [ServerIndex -> SUBSET (1 .. MaxSubmits)]
        /\ conn' \in ConnType /\ serial' \in Nat /\ aborted' \in Assertions
    BY DEF IInv, Plain, Result, ConnKept
  <2>. QED  BY <2>1, <2>2, Zenon DEF Plain, ConnType
<1>6. IInv'
  BY <1>3, <1>4, <1>5, Zenon DEF IInv
<1>7. Assumed(q)
  BY <1>2 DEF Result, Turns, Assumed, InTcp
<1>8. \A p \in Queries \ {q} : Assumed(p)
  BY OthersAssumed DEF Result
<1>. QED  BY <1>6, <1>7, <1>8 DEF Keeps

-----------------------------------------------------------------------------
(* One lemma per action.                                                   *)

\* A step that leaves the queries and what they wait for alone.
LEMMA FrameKeeps ==
  ASSUME IInv, UNCHANGED <<queryList, qry, sd, count, mon, affected, doneNow, told, shared>>, Plain'
  PROVE  Keeps
<1>1. Fits(Io', qry', {}, affected', shared')
  <2>1. Io' = Io
    BY DEF Io
  <2>. QED  BY <2>1 DEF IInv
<1>2. Scheduled'
  BY DEF IInv, Scheduled, OneEntryEach, Stage, Listed, InTcp
<1>3. \A q \in Queries : Assumed(q)
  BY DEF Assumed
<1>. QED  BY <1>1, <1>2, <1>3, Zenon DEF Keeps, IInv

LEMMA AbortKeeps ==
  ASSUME IInv, NEW assertion \in Assertions, Abort(assertion)
  PROVE  Keeps
<1>1. Plain'
  BY Zenon DEF IInv, Plain, Abort
<1>2. UNCHANGED <<queryList, qry, sd, count, mon, affected, doneNow, told, shared>>
  BY DEF Abort
<1>. QED  BY <1>1, <1>2, FrameKeeps

LEMMA ReplyType ==
  ASSUME NEW id \in 1 .. MaxSubmits
  PROVE  Reply(id) \in Seq(Piece)
<1>1. HeadLen + BodyLen \in Nat
  BY ConstantsAssumption
<1>2. \A p \in 1 .. HeadLen + BodyLen : [id |-> id, part |-> p] \in Piece
  BY DEF Piece
<1>. QED  BY <1>1, <1>2 DEF Reply

LEMMA ResolvesKeeps ==
  ASSUME IInv, NEW s \in ServerIndex, Resolves(s)
  PROVE  Keeps
<1>1. conn' \in ConnType
  BY DEF IInv, Plain, Resolves, ConnType
<1>2. Plain'
  BY <1>1, Zenon DEF IInv, Plain, Resolves
<1>. QED  BY <1>2, FrameKeeps DEF Resolves

LEMMA RepliesKeeps ==
  ASSUME IInv, NEW s \in ServerIndex, Replies(s)
  PROVE  Keeps
<1>1. PICK id \in asked[s] :
        /\ asked' = [asked EXCEPT ![s] = @ \ {id}]
        /\ stream' = [stream EXCEPT ![s] = @ \o Reply(id)]
  BY DEF Replies
<1>2. asked[s] \subseteq 1 .. MaxSubmits /\ stream[s] \in Seq(Piece)
  BY DEF IInv, Plain
<1>3. stream[s] \o Reply(id) \in Seq(Piece)
  BY <1>2, ReplyType
<1>4. stream' \in [ServerIndex -> Seq(Piece)] /\ asked' \in [ServerIndex -> SUBSET (1 .. MaxSubmits)]
  BY <1>1, <1>2, <1>3 DEF IInv, Plain
<1>5. Plain'
  BY <1>4, Zenon DEF IInv, Plain, Replies
<1>. QED  BY <1>5, FrameKeeps DEF Replies

LEMMA ClosesKeeps ==
  ASSUME IInv, NEW s \in ServerIndex, Closes(s)
  PROVE  Keeps
<1>1. conn' \in ConnType /\ asked' \in [ServerIndex -> SUBSET (1 .. MaxSubmits)]
  BY DEF IInv, Plain, Closes, ConnType
<1>2. Plain'
  BY <1>1, Zenon DEF IInv, Plain, Closes
<1>. QED  BY <1>2, FrameKeeps DEF Closes

LEMMA HeadType ==
  ASSUME IInv, NEW s \in ServerIndex
  PROVE  head[s] \in Seq(Piece)
BY DEF IInv, Plain

\* The socket of a server is closed, and everyone who used it is to be moved.
LEMMA ConnectNextKeeps ==
  ASSUME IInv, affected = {}, NEW s \in ServerIndex, NEW received \in Seq(Piece), ConnectNext(s, received)
  PROVE  Keeps
<1>1. CASE Abort("affected_list")
  BY <1>1, AbortKeeps DEF Assertions
<1>2. CASE /\ affected' = Users(s)
           /\ sd' = [sd EXCEPT ![s] = 0]
           /\ conn' = [conn EXCEPT ![s] = "none"]
           /\ asked' = [asked EXCEPT ![s] = {}]
           /\ stream' = [stream EXCEPT ![s] = <<>>]
           /\ head' = [head EXCEPT ![s] = received]
           /\ UNCHANGED <<queryList, qry, count, mon, doneNow, told, serial, shared,
                          pipelined, aborted>>
  <2>1. /\ Io \in IoType /\ qry \in [Queries -> Query] /\ \A q \in Queries : qry[q].curr \in ServerIndex
        /\ Io.sd = sd /\ Io.count = count /\ Io.mon = mon
    BY TurnsType DEF IInv, Fits, Io
  <2>. DEFINE new == Io'
  <2>2. new.sd = sd' /\ new.count = count /\ new.mon = mon
    BY <1>2 DEF Io
  <2>3. new \in IoType
    BY <1>2, <2>1 DEF Io, IoType, Descriptors
  <2>. HIDE DEF new
  <2>4. sd \in [ServerIndex -> Descriptors \cup {0}]
    BY <2>1 DEF IoType
  <2>5. \A t \in ServerIndex : sd'[t] = IF t = s THEN 0 ELSE sd[t]
    BY <1>2, <2>4
  <2>6. ASSUME NEW q \in Queries \ affected', InTcp(qry, q)
        PROVE  qry[q].curr # s
    <3>1. Listed(q)
      BY <2>6 DEF IInv, Scheduled, Stage, InTcp, TcpStatus
    <3>. QED  BY <3>1, <2>6, <1>2 DEF Users, InTcp
  <2>7. Counted(new, qry, {}) /\ Distinct(new) /\ Alone(qry, {}, shared)
    BY <2>1, <2>2, <2>5 DEF IInv, Fits, Counted, Distinct
  <2>8. \A q \in Queries \ affected' : InTcp(qry, q) => new.sd[qry[q].curr] = Io.sd[qry[q].curr] /\ q \notin affected
    BY <2>1, <2>2, <2>5, <2>6
  <2>9. Open(new, qry, affected')
    BY <2>8 DEF IInv, Fits, Open
  <2>10. ReadersWatch(new, qry, affected') /\ WritersWatch(new, qry, affected', shared)
    BY <2>1, <2>2, <2>8 DEF IInv, Fits, ReadersWatch, WritersWatch, Watch, InTcp, TcpStatus
  <2>11. Fits(new, qry', {}, affected', shared')
    BY <1>2, <2>1, <2>3, <2>7, <2>9, <2>10 DEF Fits
  <2>12. Scheduled'
    <3>1. affected' \subseteq Queries /\ \A q \in affected' : InTcp(qry, q)
      BY <1>2 DEF Users, InTcp
    <3>2. \A q \in Queries : Stage(q)'
      BY <1>2 DEF IInv, Scheduled, Stage, Listed
    <3>. QED  BY <1>2, <3>1, <3>2 DEF IInv, Scheduled, OneEntryEach, InTcp
  <2>13. /\ conn' \in ConnType /\ asked' \in [ServerIndex -> SUBSET (1 .. MaxSubmits)]
         /\ stream' \in [ServerIndex -> Seq(Piece)] /\ head' \in [ServerIndex -> Seq(Piece)]
    BY <1>2 DEF IInv, Plain, ConnType
  <2>14. Plain'
    BY <1>2, <2>13, Zenon DEF IInv, Plain
  <2>15. \A q \in Queries : Assumed(q)
    BY <1>2 DEF Assumed
  <2>. QED  BY <2>11, <2>12, <2>14, <2>15, Zenon DEF Keeps, IInv, new
<1>. QED  BY <1>1, <1>2 DEF ConnectNext

\* The record of a query outside TCP mode, before and after, does not matter.
LEMMA StaysIdle ==
  ASSUME NEW io, NEW f, NEW q \in Queries, NEW Y, NEW sh, Fits(io, f, {}, Y, sh), ~InTcp(f, q),
         NEW r \in Query, r.status \notin TcpStatus
  PROVE  Fits(io, [f EXCEPT ![q] = r], {}, Y, sh)
<1>. DEFINE g == [f EXCEPT ![q] = r]
<1>1. g \in [Queries -> Query] /\ g[q] = r /\ \A p \in Queries \ {q} : g[p] = f[p]
  BY DEF Fits
<1>. HIDE DEF g
<1>2. \A s \in ServerIndex, side \in Sides : Of(g, s, side) = Of(f, s, side)
  BY <1>1 DEF Of, InTcp
<1>3. Counted(io, g, {})
  BY <1>2 DEF Fits, Counted
<1>4. r.status \notin {"HEAD", "BODY"} /\ r.status # "CONNECT" /\ r.status # "SEND"
  BY DEF TcpStatus
<1>5. \A p \in Queries : InTcp(g, p) => p # q /\ InTcp(f, p)
  BY <1>1 DEF InTcp
<1>6. Open(io, g, Y) /\ Alone(g, {}, sh)
  BY <1>1, <1>5 DEF Fits, Open, Alone
<1>7. ReadersWatch(io, g, Y) /\ WritersWatch(io, g, Y, sh)
  BY <1>1, <1>4 DEF Fits, ReadersWatch, WritersWatch, Watch
<1>. QED  BY <1>1, <1>3, <1>6, <1>7 DEF Fits, g

LEMMA QueryDoneNowKeeps ==
  ASSUME IInv, NEW q \in Queries, QueryDoneNow(q)
  PROVE  Keeps
<1>1. /\ UNCHANGED <<queryList, qry, sd, count, mon, affected, shared>>
      /\ doneNow' = doneNow \ {q} /\ told' = told \cup {q} /\ q \in doneNow
  BY DEF QueryDoneNow
<1>2. Fits(Io', qry', {}, affected', shared')
  <2>1. Io' = Io
    BY <1>1 DEF Io
  <2>. QED  BY <1>1, <2>1 DEF IInv
<1>3. \A p \in Queries : Stage(p)'
  BY <1>1 DEF IInv, Scheduled, Stage, Listed
<1>4. Scheduled'
  BY <1>1, <1>3 DEF IInv, Scheduled, OneEntryEach, InTcp
<1>5. Plain'
  BY Zenon DEF IInv, Plain, QueryDoneNow
<1>6. \A p \in Queries : Assumed(p)
  BY <1>1 DEF Assumed
<1>. QED  BY <1>2, <1>4, <1>5, <1>6, Zenon DEF Keeps, IInv

LEMMA SubmitKeeps ==
  ASSUME IInv, NEW q \in Queries, Submit(q)
  PROVE  Keeps
<1>. DEFINE s == serial % Servers
            r == [id |-> serial + 1, first |-> s, curr |-> s, retries |-> Retry,
                  search |-> 0, status |-> "UDP", code |-> "VOID", buf |-> FALSE, body |-> <<>>]
<1>1. /\ qry' = [qry EXCEPT ![q] = r] /\ queryList' = Append(queryList, q) /\ serial' = serial + 1
      /\ ~Listed(q) /\ serial < MaxSubmits
      /\ UNCHANGED <<sd, count, head, mon, doneNow, affected, conn, asked, stream,
                     told, shared, pipelined, aborted>>
  BY DEF Submit
<1>2. serial \in Nat /\ s \in ServerIndex /\ serial + 1 \in 1 .. MaxSubmits
  <2>1. serial \in Nat
    BY DEF IInv, Plain
  <2>2. s \in ServerIndex
    BY <2>1, ModRange
  <2>3. serial + 1 \in 1 .. MaxSubmits
    <3>. HIDE DEF s, r
    <3>. QED  BY <2>1, <1>1, ConstantsAssumption
  <2>. QED  BY <2>1, <2>2, <2>3
<1>3. r \in Query /\ r.status = "UDP" /\ r.id = serial + 1
  BY <1>2, ConstantsAssumption DEF Query
<1>. HIDE DEF r
<1>4. Fits(Io, qry, {}, affected, shared) /\ qry \in [Queries -> Query]
  BY DEF IInv, Fits
<1>5. qry[q].status = "VOID" /\ q \notin doneNow /\ q \notin told
  BY <1>1 DEF IInv, Scheduled, Stage
<1>6. Fits(Io', qry', {}, affected', shared')
  <2>1. Io' = Io /\ ~InTcp(qry, q) /\ r.status \notin TcpStatus
    BY <1>1, <1>3, <1>5 DEF Io, InTcp, TcpStatus
  <2>. QED  BY <1>1, <1>3, <1>4, <2>1, StaysIdle
<1>7. /\ qry'[q] = r /\ \A p \in Queries \ {q} : qry'[p] = qry[p]
  BY <1>1, <1>4
<1>8. OneEntryEach' /\ \A p \in Queries : Listed(p)' <=> Listed(p) \/ p = q
  <2>1. /\ queryList \in Seq(Queries)
        /\ \A i, j \in DOMAIN queryList : queryList[i] = queryList[j] => i = j
        /\ \A i \in DOMAIN queryList : queryList[i] # q
    BY <1>1 DEF IInv, Scheduled, OneEntryEach, Listed
  <2>2. /\ queryList' \in Seq(Queries) /\ Len(queryList) \in Nat /\ DOMAIN queryList = 1 .. Len(queryList)
        /\ DOMAIN queryList' = 1 .. Len(queryList) + 1 /\ queryList'[Len(queryList) + 1] = q
        /\ \A i \in 1 .. Len(queryList) : queryList'[i] = queryList[i]
    BY <1>1, <2>1
  <2>3. ASSUME NEW i \in DOMAIN queryList', NEW j \in DOMAIN queryList', queryList'[i] = queryList'[j]
        PROVE  i = j
    BY <2>1, <2>2, <2>3
  <2>4. ASSUME NEW p \in Queries PROVE Listed(p)' <=> Listed(p) \/ p = q
    BY <2>2 DEF Listed
  <2>. QED  BY <2>2, <2>3, <2>4 DEF OneEntryEach
<1>9. \A p \in Queries : Stage(p)'
  <2>1. ASSUME NEW p \in Queries \ {q} PROVE Stage(p)'
    BY <1>1, <1>7, <1>8, StageKept DEF IInv, Scheduled
  <2>2. Stage(q)'
    BY <1>1, <1>2, <1>3, <1>5, <1>7, <1>8 DEF Stage
  <2>. QED  BY <2>1, <2>2
<1>10. Scheduled'
  <2>1. \A p \in affected' : InTcp(qry', p)
    BY <1>1, <1>5, <1>7 DEF IInv, Scheduled, InTcp, TcpStatus
  <2>. QED  BY <1>1, <1>8, <1>9, <2>1 DEF IInv, Scheduled, InTcp
<1>11. Plain'
  <2>1. serial' \in Nat
    BY <1>1, <1>2
  <2>. QED  BY <1>1, <2>1, Zenon DEF IInv, Plain
<1>12. \A p \in Queries : Assumed(p)
  BY <1>5, <1>7 DEF Assumed, TcpStatus
<1>. QED  BY <1>6, <1>10, <1>11, <1>12, Zenon DEF Keeps, IInv

LEMMA LeaveType ==
  ASSUME IInv, NEW q \in Queries
  PROVE  qry[q] \in Query /\ Leave(q) \in Query /\ Leave(q).status = "VOID"
<1>1. qry[q] \in Query
  BY DEF IInv, Fits
<1>. QED  BY <1>1, StatusType DEF Leave

LEMMA TruncatedResult ==
  ASSUME IInv, NEW q \in Queries, Truncated(q)
  PROVE  Result(q, Leave(q), {q}, shared') /\ shared' \in BOOLEAN
<1>1. PICK l \in Later(Leave(q)) : WantConnectTcp(q, l, Io)
  BY DEF Truncated
<1>2. /\ affected = {} /\ affected' = {} /\ qry[q].status = "UDP"
      /\ shared' = (shared \/ \E p \in Queries \ {q} : qry[p].status \in TcpStatus)
      /\ UNCHANGED <<queryList, head, asked, stream, told, serial, pipelined>>
  BY DEF Truncated, Running
<1>3. shared' \in BOOLEAN
  BY <1>2, Zenon DEF IInv, Plain
<1>4. ~InTcp(qry, q)
  BY <1>2 DEF InTcp, TcpStatus
<1>5. Fits(Io, qry, {q}, {} \cup {q}, shared')
  <2>1. shared' <=> shared \/ \E p \in Queries \ {q} : InTcp(qry, p)
    BY <1>2, Zenon DEF InTcp
  <2>2. Fits(Io, qry, {}, {}, shared)
    BY <1>2 DEF IInv
  <2>. HIDE DEF Truncated
  <2>. QED  BY <1>3, <1>4, <2>1, <2>2, TakesOutIdle
<1>6. Taken(Io, q, Leave(q), {q}, shared')
  <2>1. {} \cup {q} = {q}
    OBVIOUS
  <2>. QED  BY <1>5, <2>1, LeaveType DEF Taken, IInv, Plain, Io
<1>7. l \in Query /\ SameBut(Leave(q), l) /\ SwitchesLeft(l) <= SwitchesLeft(Leave(q))
  BY LeaveType, LaterType
<1>. QED  BY <1>1, <1>3, <1>6, <1>7, WantConnectResult

LEMMA TruncatedKeeps ==
  ASSUME IInv, NEW q \in Queries, Truncated(q)
  PROVE  Keeps
<1>1. /\ affected = {} /\ affected' = {} /\ qry[q].status # "VOID"
      /\ UNCHANGED <<queryList, head, asked, stream, told, serial, pipelined>>
  BY DEF Truncated, Running
<1>2. Result(q, Leave(q), {q}, shared') /\ shared' \in BOOLEAN
  BY TruncatedResult
<1>3. affected' = {q} \ {q} /\ {q} \subseteq affected \cup {q}
  BY <1>1
<1>. QED  BY <1>1, <1>2, <1>3, ResultKeeps

\* A query in TCP mode is taken out of it.
LEMMA LeavesTcp ==
  ASSUME IInv, NEW q \in Queries, InTcp(qry, q), NEW side, side = Waiting[qry[q].status]
  PROVE  /\ Fits(Done(Io, qry[q].curr, side), qry, {q}, affected \cup {q}, shared)
         /\ Taken(Done(Io, qry[q].curr, side), q, Leave(q), affected \cup {q}, shared)
         /\ Done(Io, qry[q].curr, side).sd = sd
<1>1. Fits(Done(Io, qry[q].curr, side), qry, {q}, affected \cup {q}, shared)
  BY TakesOut DEF IInv
<1>2. Done(Io, qry[q].curr, side).sd = sd
  <2>1. /\ qry[q].curr \in ServerIndex /\ Io \in IoType /\ side \in Sides
        /\ Io.count[qry[q].curr][side] = Cardinality(Of(qry, qry[q].curr, side) \ {})
    BY TurnsType, WaitingType DEF IInv, Fits, Counted, InTcp
  <2>2. q \in Of(qry, qry[q].curr, side) \ {}
    BY DEF Of
  <2>3. Io.count[qry[q].curr][side] # 0
    BY <2>1, <2>2, OfFinite, FS_EmptySet
  <2>. QED  BY <2>1, <2>3, DoneEffect DEF Changed, Io
<1>. QED  BY <1>1, <1>2, LeaveType DEF Taken, IInv, Plain

LEMMA SharedIsBoolean ==
  ASSUME IInv, UNCHANGED shared
  PROVE  shared' \in BOOLEAN
BY Zenon DEF IInv, Plain

LEMMA ConnectNextRoundResult ==
  ASSUME IInv, NEW q \in Queries, ConnectNextRound(q)
  PROVE  InTcp(qry, q) /\ qry[q].status # "VOID" /\ Result(q, Leave(q), affected \cup {q}, shared')
<1>1. /\ q \in affected /\ affected' = affected \ {q} /\ shared' = shared
      /\ UNCHANGED <<queryList, head, asked, stream, told, serial, pipelined>>
      /\ SwitchElseScheduleFinish(q, Leave(q), "CONNECT", Done(Io, qry[q].curr, Waiting[qry[q].status]))
  BY DEF ConnectNextRound
<1>2. InTcp(qry, q) /\ qry[q].status # "VOID"
  BY <1>1 DEF IInv, Scheduled, InTcp, TcpStatus
<1>3. Taken(Done(Io, qry[q].curr, Waiting[qry[q].status]), q, Leave(q), affected \cup {q}, shared')
  BY <1>1, <1>2, LeavesTcp
<1>. QED  BY <1>1, <1>2, <1>3, SwitchElseResult

LEMMA ConnectNextRoundKeeps ==
  ASSUME IInv, NEW q \in Queries, ConnectNextRound(q)
  PROVE  Keeps
<1>1. /\ affected' = affected \ {q} /\ shared' = shared
      /\ UNCHANGED <<queryList, head, asked, stream, told, serial, pipelined>>
  BY DEF ConnectNextRound
<1>2. affected' = (affected \cup {q}) \ {q}
  BY <1>1
<1>. QED  BY <1>1, <1>2, ConnectNextRoundResult, ResultKeeps, SharedIsBoolean

LEMMA OnTcpReadTimeoutResult ==
  ASSUME IInv, NEW q \in Queries, OnTcpReadTimeout(q)
  PROVE  Result(q, Leave(q), affected \cup {q}, shared')
<1>1. /\ qry[q].status \in {"HEAD", "BODY"} /\ affected = {} /\ affected' = affected /\ shared' = shared
      /\ UNCHANGED <<queryList, head, asked, stream, told, serial, pipelined>>
      /\ SwitchElseScheduleFinish(q, Leave(q), "TIMEOUT", Done(Io, qry[q].curr, "read"))
  BY DEF OnTcpReadTimeout, Running
<1>2. InTcp(qry, q) /\ qry[q].status # "VOID" /\ "read" = Waiting[qry[q].status]
  BY <1>1, WaitingType DEF InTcp, TcpStatus
<1>3. Taken(Done(Io, qry[q].curr, "read"), q, Leave(q), affected \cup {q}, shared')
  BY <1>1, <1>2, LeavesTcp
<1>. QED  BY <1>1, <1>3, SwitchElseResult

LEMMA OnTcpReadTimeoutKeeps ==
  ASSUME IInv, NEW q \in Queries, OnTcpReadTimeout(q)
  PROVE  Keeps
<1>1. /\ qry[q].status # "VOID" /\ affected = {} /\ affected' = affected /\ shared' = shared
      /\ UNCHANGED <<queryList, head, asked, stream, told, serial, pipelined>>
  BY DEF OnTcpReadTimeout, Running
<1>2. affected' = (affected \cup {q}) \ {q}
  BY <1>1
<1>. QED  BY <1>1, <1>2, OnTcpReadTimeoutResult, ResultKeeps, SharedIsBoolean

LEMMA OnTcpConnectedKeeps ==
  ASSUME IInv, NEW s \in ServerIndex, OnTcpConnected(s)
  PROVE  Keeps
<1>1. CASE Abort("query_list")
  BY <1>1, AbortKeeps DEF Assertions
<1>2. CASE /\ qry' = [q \in Queries |-> IF q \in Connecters(s)
                                        THEN [qry[q] EXCEPT !.status = "SEND"] ELSE qry[q]]
           /\ SetIo(WriteInstead(Io, s, Cardinality(Connecters(s))))
           /\ UNCHANGED <<queryList, head, doneNow, affected, conn, asked, stream,
                          told, serial, shared, pipelined, aborted>>
  <2>. DEFINE C == Connecters(s)  new == WriteInstead(Io, s, Cardinality(C))
  <2>1. Io.sd[s] # 0
    BY DEF OnTcpConnected, Sink, Io
  <2>2. C = Of(qry, s, "connect")
    <3>1. \A q \in Queries : q \in C <=> q \in Of(qry, s, "connect")
      BY WaitingType DEF Connecters, Of, InTcp, TcpStatus
    <3>2. C \subseteq Queries /\ Of(qry, s, "connect") \subseteq Queries
      BY DEF Connecters, Of
    <3>. QED  BY <3>1, <3>2
  <2>3. \A q \in C : q \in Queries /\ qry[q].status = "CONNECT"
    BY DEF Connecters
  <2>. HIDE DEF C
  <2>4. Fits(Io, qry, {}, affected, shared) /\ qry \in [Queries -> Query]
    BY DEF IInv, Fits
  <2>5. qry' = [q \in Queries |-> IF q \in C THEN [qry[q] EXCEPT !.status = "SEND"] ELSE qry[q]]
    BY <1>2 DEF C
  <2>6. Fits(new, qry', {}, affected, shared)
    BY <2>1, <2>2, <2>4, <2>5, AllWrite
  <2>7. SetIo(new)
    BY <1>2 DEF C
  <2>. HIDE DEF new
  <2>8. Fits(Io', qry', {}, affected', shared')
    BY <1>2, <2>6, <2>7, SetIoMeans DEF Fits
  <2>9. ASSUME NEW q \in Queries
        PROVE  \/ qry'[q] = qry[q]
               \/ /\ InTcp(qry, q) /\ InTcp(qry', q) /\ qry'[q].id = qry[q].id
                  /\ qry'[q].first = qry[q].first /\ SwitchesLeft(qry'[q]) = SwitchesLeft(qry[q])
    <3>1. CASE q \in C
      <4>1. qry'[q] = [qry[q] EXCEPT !.status = "SEND"] /\ qry[q] \in Query /\ qry[q].status = "CONNECT"
        BY <2>3, <2>4, <2>5, <3>1
      <4>2. "SEND" \in TcpStatus /\ "CONNECT" \in TcpStatus
        BY DEF TcpStatus
      <4>3. /\ [qry[q] EXCEPT !.status = "SEND"].status = "SEND"
            /\ [qry[q] EXCEPT !.status = "SEND"].id = qry[q].id
            /\ [qry[q] EXCEPT !.status = "SEND"].first = qry[q].first
            /\ SwitchesLeft([qry[q] EXCEPT !.status = "SEND"]) = SwitchesLeft(qry[q])
        BY <4>1, <4>2, StatusType
      <4>. QED  BY <4>1, <4>2, <4>3 DEF InTcp
    <3>2. CASE q \notin C
      BY <3>2, <2>5
    <3>. QED  BY <3>1, <3>2
  <2>10. \A q \in Queries : Stage(q)'
    <3>. TAKE q \in Queries
    <3>1. /\ qry'[q].status = "VOID" <=> qry[q].status = "VOID"
          /\ qry'[q].id = qry[q].id
      BY <2>9 DEF InTcp, TcpStatus
    <3>2. Listed(q)' <=> Listed(q)
      BY <1>2 DEF Listed
    <3>. QED  BY <1>2, <3>1, <3>2, StageKept DEF IInv, Scheduled
  <2>11. Scheduled'
    <3>1. \A q \in affected' : InTcp(qry', q)
      BY <1>2, <2>9 DEF IInv, Scheduled, InTcp
    <3>. QED  BY <1>2, <2>10, <3>1 DEF IInv, Scheduled, OneEntryEach, InTcp
  <2>12. Plain'
    BY <1>2, Zenon DEF IInv, Plain
  <2>13. ASSUME NEW q \in Queries PROVE Assumed(q)
    <3>1. SwitchesLeft(qry[q]) \in Nat
      BY <2>4, SwitchesLeftType
    <3>. QED  BY <2>9, <3>1 DEF Assumed, InTcp
  <2>. QED  BY <2>8, <2>11, <2>12, <2>13, Zenon DEF Keeps, IInv
<1>. QED  BY <1>1, <1>2 DEF OnTcpConnected

\* The record a search of the next suffix starts from.
LEMMA RestartFields ==
  ASSUME NEW A, NEW B, NEW C, NEW D, NEW S, NEW K, NEW U, NEW X,
         NEW r \in [id : A, first : B, curr : B, retries : C, search : D, status : S, code : K,
                   buf : U, body : X],
         NEW retries \in C, "UDP" \in S, "VOID" \in K, FALSE \in U, <<>> \in X, NEW search \in D
  PROVE  LET l == [r EXCEPT !.status = "UDP", !.code = "VOID", !.buf = FALSE, !.body = <<>>,
                            !.retries = retries, !.first = r.curr, !.search = search] IN
         /\ l \in [id : A, first : B, curr : B, retries : C, search : D, status : S, code : K,
                  buf : U, body : X]
         /\ l.status = "UDP" /\ l.id = r.id /\ l.code = "VOID" /\ l.first = r.curr
         /\ l.retries = retries /\ l.buf = FALSE /\ l.body = <<>>
OBVIOUS

LEMMA RestartType ==
  ASSUME NEW r \in Query, NEW search \in 0 .. Suffixes
  PROVE  LET l == [r EXCEPT !.status = "UDP", !.code = "VOID", !.buf = FALSE, !.body = <<>>,
                            !.retries = Retry, !.first = r.curr, !.search = search] IN
         /\ l \in Query /\ l.status = "UDP" /\ l.id = r.id /\ l.code = "VOID" /\ l.first = r.curr
         /\ l.retries = Retry /\ l.buf = FALSE /\ l.body = <<>>
<1>1. /\ "UDP" \in {"VOID", "UDP"} \cup TcpStatus
      /\ "VOID" \in {"VOID", "OK", "TRUNC", "FLAGS", "MALLOC", "CONNECT", "TIMEOUT"}
      /\ <<>> \in Seq(Piece) /\ FALSE \in BOOLEAN
  OBVIOUS
<1>2. Retry \in 0 .. Retry
  BY ConstantsAssumption
<1>. QED  BY <1>1, <1>2, RestartFields DEF Query

\* query_done() of a query that reads.
LEMMA QueryDoneKeeps ==
  ASSUME IInv, NEW q \in Queries, InTcp(qry, q), Waiting[qry[q].status] = "read",
         NEW r \in Query, r.id = qry[q].id, r.curr = qry[q].curr,
         r.code \in {"OK", "TRUNC", "FLAGS", "MALLOC"},
         QueryDone(q, r, Done(Io, qry[q].curr, "read")), affected = {},
         UNCHANGED <<queryList, affected, asked, serial, shared, pipelined>>,
         head' \in [ServerIndex -> Seq(Piece)], stream' \in [ServerIndex -> Seq(Piece)]
  PROVE  Keeps
<1>. DEFINE io == Done(Io, qry[q].curr, "read")
            idle == [r EXCEPT !.status = "VOID"]
            again == [r EXCEPT !.status = "UDP", !.code = "VOID", !.buf = FALSE, !.body = <<>>,
                               !.retries = Retry, !.first = r.curr, !.search = @ + 1]
<1>1. Fits(io, qry, {q}, affected \cup {q}, shared)
  BY LeavesTcp
<1>. HIDE DEF io
<1>2. /\ SetIo(io) /\ doneNow' = doneNow /\ aborted' = aborted /\ conn' = conn
      /\ \/ qry' = [qry EXCEPT ![q] = idle] /\ told' = told \cup {q}
         \/ r.search < Suffixes /\ qry' = [qry EXCEPT ![q] = again] /\ told' = told
  BY DEF QueryDone, io
<1>3. /\ idle \in Query /\ idle.status = "VOID" /\ idle.id = r.id /\ idle.code = r.code
  BY StatusType
<1>4. ASSUME r.search < Suffixes
      PROVE  /\ again \in Query /\ again.status = "UDP" /\ again.id = r.id /\ again.code = "VOID"
             /\ again.first = r.curr /\ again.retries = Retry
  <2>1. r.search + 1 \in 0 .. Suffixes
    BY <1>4, ConstantsAssumption DEF Query
  <2>. QED  BY <2>1, RestartType
<1>. HIDE DEF idle, again
<1>5. PICK n \in {idle, again} :
        /\ qry' = [qry EXCEPT ![q] = n] /\ n \in Query /\ n.id = r.id
        /\ \/ n.status = "VOID" /\ n.code = r.code /\ told' = told \cup {q}
           \/ /\ n.status = "UDP" /\ n.code = "VOID" /\ n.first = r.curr /\ n.retries = Retry
              /\ told' = told
  BY <1>2, <1>3, <1>4
<1>6. qry'[q] = n /\ KeepsOthers(q) /\ n.status \notin TcpStatus
  BY <1>5 DEF IInv, Fits, KeepsOthers, TcpStatus
<1>7. Fits(io, qry', {}, (affected \cup {q}) \ {q}, shared)
  BY <1>1, <1>5, <1>6, StaysOut
<1>8. Fits(Io', qry', {}, affected', shared')
  <2>1. Io' = io
    BY <1>2, <1>7, SetIoMeans DEF Fits
  <2>2. (affected \cup {q}) \ {q} = affected'
    OBVIOUS
  <2>. QED  BY <1>7, <2>1, <2>2
<1>9. Scheduled'
  <2>1. /\ qry[q].status # "VOID" /\ qry'[q].id = qry[q].id
        /\ \/ qry'[q].status # "VOID" /\ told' = told
           \/ qry'[q].status = "VOID" /\ told' = told \cup {q}
    BY <1>5, <1>6 DEF InTcp, TcpStatus
  <2>. QED  BY <2>1, <1>2, <1>6, HandlerSchedules DEF IInv
<1>10. Plain'
  BY <1>2, Zenon DEF IInv, Plain
<1>11. Assumed(q)
  BY <1>5, <1>6 DEF Assumed
<1>12. \A p \in Queries \ {q} : Assumed(p)
  BY <1>6, OthersAssumed
<1>. QED  BY <1>8, <1>9, <1>10, <1>11, <1>12, Zenon DEF Keeps, IInv

\* A query goes on in TCP mode, waiting for server s; its record keeps its turns.
LEMMA GoesOnKeeps ==
  ASSUME IInv, NEW q \in Queries, InTcp(qry, q), NEW n \in Query, qry' = [qry EXCEPT ![q] = n],
         n.status \in TcpStatus, n.id = qry[q].id, n.first = qry[q].first,
         n.curr = qry[q].curr, n.retries = qry[q].retries,
         Fits(Io', qry', {}, affected', shared'), Plain',
         UNCHANGED <<queryList, affected, doneNow, told>>
  PROVE  Keeps
<1>1. qry[q] \in Query /\ qry'[q] = n /\ KeepsOthers(q)
  BY DEF IInv, Fits, KeepsOthers
<1>2. SwitchesLeft(n) = SwitchesLeft(qry[q]) /\ SwitchesLeft(qry[q]) \in Nat
  BY <1>1, SwitchesLeftType DEF SwitchesLeft
<1>3. Scheduled'
  BY <1>1, HandlerSchedules DEF IInv, InTcp, TcpStatus
<1>4. Assumed(q)
  BY <1>1, <1>2 DEF Assumed
<1>5. \A p \in Queries \ {q} : Assumed(p)
  BY <1>1, OthersAssumed
<1>. QED  BY <1>3, <1>4, <1>5, Zenon DEF Keeps, IInv

LEMMA OnTcpWriteKeeps ==
  ASSUME IInv, NEW s \in ServerIndex, OnTcpWrite(s)
  PROVE  Keeps
<1>1. affected = {}
  BY DEF OnTcpWrite, Running
<1>2. CASE Abort("query that wants to send")
  BY <1>2, AbortKeeps DEF Assertions
<1>3. CASE ConnectNext(s, head[s])
  BY <1>1, <1>3, HeadType, ConnectNextKeeps
<1>4. ASSUME NEW q \in Queries, First(queryList, q, WantsToSend), conn[s] \in {"up", "down"},
             LET t == qry[q].curr IN
               /\ SetIo(Want(Done(Io, t, "write"), t, "read"))
               /\ head' = [head EXCEPT ![t] = <<>>]
               /\ pipelined' = (pipelined \/ t # s \/ asked[s] # {} \/ stream[s] # <<>>),
             qry' = [qry EXCEPT ![q].status = "HEAD"],
             asked' = IF conn[s] = "up" THEN [asked EXCEPT ![s] = @ \cup {qry[q].id}] ELSE asked,
             UNCHANGED <<queryList, doneNow, affected, conn, stream, told, serial,
                         shared, aborted>>
      PROVE  Keeps
  <2>. DEFINE t == qry[q].curr  n == [qry[q] EXCEPT !.status = "HEAD"]
              mid == Done(Io, t, "write")  new == Want(mid, t, "read")
  <2>1. qry[q].status = "SEND"
    BY <1>4 DEF First, WantsToSend
  <2>2. /\ InTcp(qry, q) /\ Waiting[qry[q].status] = "write" /\ Waiting["HEAD"] = "read"
        /\ "HEAD" \in TcpStatus
    BY <2>1, WaitingType DEF InTcp, TcpStatus
  <2>3. qry[q] \in Query /\ qry \in [Queries -> Query] /\ t \in ServerIndex
    BY TurnsType DEF IInv, Fits
  <2>4. Fits(mid, qry, {q}, {q}, shared) /\ mid.sd[t] # 0
    <3>1. Fits(mid, qry, {q}, affected \cup {q}, shared)
      BY <2>2, LeavesTcp
    <3>2. Io.sd[t] # 0
      BY <1>1, <2>2 DEF IInv, Fits, Open
    <3>3. Io.count[t]["write"] # 0
      <4>1. "write" \in Sides /\ q \in Of(qry, t, "write") \ {}
        BY <2>2 DEF Sides, Of
      <4>2. Cardinality(Of(qry, t, "write") \ {}) # 0
        BY <4>1, OfFinite, FS_EmptySet
      <4>. QED  BY <4>1, <4>2, <2>3 DEF IInv, Fits, Counted
    <3>4. mid.sd = Io.sd
      <4>1. "write" \in Sides /\ Io \in IoType
        BY DEF Sides, IInv, Fits
      <4>. QED  BY <4>1, <3>3, <2>3, DoneEffect DEF Changed
    <3>5. affected \cup {q} = {q}
      BY <1>1
    <3>. QED  BY <3>1, <3>2, <3>4, <3>5
  <2>5. SetIo(new) /\ qry' = [qry EXCEPT ![q] = n]
    BY <1>4
  <2>. HIDE DEF mid
  <2>6. Fits(new, [qry EXCEPT ![q] = n], {}, {q} \ {q}, shared)
    BY <2>2, <2>3, <2>4, PutsIn
  <2>7. /\ n \in Query /\ n.status = "HEAD" /\ n.id = qry[q].id /\ n.first = qry[q].first
        /\ n.curr = t /\ n.retries = qry[q].retries
    BY <2>2, <2>3, StatusType
  <2>. HIDE DEF new, n, t
  <2>8. Fits(Io', qry', {}, affected', shared')
    <3>1. {q} \ {q} = affected'
      BY <1>1, <1>4
    <3>2. Io' = new
      BY <2>5, <2>6, SetIoMeans DEF Fits
    <3>. QED  BY <1>4, <2>5, <2>6, <3>1, <3>2
  <2>9. Plain'
    <3>1. pipelined' \in BOOLEAN
      BY <1>4, Zenon
    <3>2. qry[q].id \in 1 .. MaxSubmits
      BY <2>1 DEF IInv, Scheduled, Stage
    <3>3. asked' \in [ServerIndex -> SUBSET (1 .. MaxSubmits)]
      BY <1>4, <3>2 DEF IInv, Plain
    <3>4. head' \in [ServerIndex -> Seq(Piece)]
      <4>1. head' = [head EXCEPT ![t] = <<>>]
        BY <1>4 DEF t
      <4>2. head \in [ServerIndex -> Seq(Piece)] /\ <<>> \in Seq(Piece)
        BY DEF IInv, Plain
      <4>. QED  BY <4>1, <4>2
    <3>. QED  BY <1>4, <3>1, <3>3, <3>4, Zenon DEF IInv, Plain
  <2>. QED  BY <1>4, <2>2, <2>5, <2>7, <2>8, <2>9, GoesOnKeeps DEF t
<1>. QED  BY <1>2, <1>3, <1>4 DEF OnTcpWrite

\* ruli_list_drop() leaves one entry of each of the others.
LEMMA DropEffect ==
  ASSUME OneEntryEach, NEW i \in DOMAIN queryList, queryList' = Drop(queryList, i)
  PROVE  OneEntryEach' /\ \A p : Listed(p)' <=> Listed(p) /\ p # queryList[i]
<1>. DEFINE n == Len(queryList)  list == [queryList EXCEPT ![i] = queryList[n]]
<1>1. /\ queryList \in Seq(Queries) /\ n \in Nat /\ DOMAIN queryList = 1 .. n
      /\ i \in 1 .. n /\ n \in 1 .. n
  BY DEF OneEntryEach
<1>2. /\ list \in Seq(Queries) /\ Len(list) = n
      /\ \A j \in 1 .. n : list[j] = IF j = i THEN queryList[n] ELSE queryList[j]
  BY <1>1
<1>3. queryList' = SubSeq(list, 1, n - 1)
  BY DEF Drop
<1>. HIDE DEF list
<1>4. /\ queryList' \in Seq(Queries) /\ Len(queryList') = n - 1
      /\ \A j \in 1 .. n - 1 : queryList'[j] = list[j]
  BY <1>1, <1>2, <1>3
<1>5. DOMAIN queryList' = 1 .. n - 1
  BY <1>1, <1>4
<1>. HIDE DEF n
<1>6. \A j, k \in 1 .. n : queryList[j] = queryList[k] => j = k
  BY <1>1 DEF OneEntryEach
<1>7. OneEntryEach'
  <2>1. \A j, k \in 1 .. n - 1 : queryList'[j] = queryList'[k] => j = k
    <3>. TAKE j, k \in 1 .. n - 1
    <3>1. j \in 1 .. n /\ k \in 1 .. n /\ j # n /\ k # n
      BY <1>1
    <3>. QED  BY <1>1, <1>2, <1>4, <1>6, <3>1
  <2>. QED  BY <1>4, <1>5, <2>1 DEF OneEntryEach
<1>8. ASSUME NEW p PROVE Listed(p)' <=> Listed(p) /\ p # queryList[i]
  <2>1. ASSUME NEW j \in 1 .. n - 1, queryList'[j] = p
        PROVE  \E k \in 1 .. n : queryList[k] = p /\ k # i
    <3>1. j \in 1 .. n /\ j # n
      BY <1>1
    <3>. QED  BY <1>1, <1>2, <1>4, <2>1, <3>1
  <2>2. ASSUME NEW k \in 1 .. n, queryList[k] = p, k # i
        PROVE  \E j \in 1 .. n - 1 : queryList'[j] = p
    <3>1. CASE k = n
      <4>1. i \in 1 .. n - 1
        BY <1>1, <2>2, <3>1
      <4>. QED  BY <1>1, <1>2, <1>4, <2>2, <3>1, <4>1
    <3>2. CASE k # n
      <4>1. k \in 1 .. n - 1
        BY <1>1, <3>2
      <4>. QED  BY <1>1, <1>2, <1>4, <2>2, <4>1
    <3>. QED  BY <3>1, <3>2
  <2>3. Listed(p)' <=> \E j \in 1 .. n - 1 : queryList'[j] = p
    BY <1>5 DEF Listed
  <2>4. Listed(p) <=> \E k \in 1 .. n : queryList[k] = p
    BY <1>1 DEF Listed
  <2>5. (\E k \in 1 .. n : queryList[k] = p /\ k # i) <=> Listed(p) /\ p # queryList[i]
    BY <1>1, <1>6, <2>4
  <2>. QED  BY <2>1, <2>2, <2>3, <2>5
<1>. QED  BY <1>7, <1>8

\* The record of a deleted query.
LEMMA BlankFields ==
  ASSUME NEW A, NEW B, NEW C, NEW D, NEW S, NEW K, NEW U, NEW X,
         NEW r \in [id : A, first : B, curr : B, retries : C, search : D, status : S, code : K,
                   buf : U, body : X],
         0 \in A, "VOID" \in S, "VOID" \in K, FALSE \in U, <<>> \in X
  PROVE  LET l == [r EXCEPT !.id = 0, !.status = "VOID", !.code = "VOID", !.buf = FALSE,
                            !.body = <<>>] IN
         /\ l \in [id : A, first : B, curr : B, retries : C, search : D, status : S, code : K,
                  buf : U, body : X]
         /\ l.status = "VOID"
OBVIOUS

LEMMA BlankType ==
  ASSUME NEW r \in Query
  PROVE  LET l == [r EXCEPT !.id = 0, !.status = "VOID", !.code = "VOID", !.buf = FALSE,
                            !.body = <<>>] IN
         l \in Query /\ l.status = "VOID"
<1>1. /\ "VOID" \in {"VOID", "UDP"} \cup TcpStatus
      /\ "VOID" \in {"VOID", "OK", "TRUNC", "FLAGS", "MALLOC", "CONNECT", "TIMEOUT"}
      /\ <<>> \in Seq(Piece) /\ FALSE \in BOOLEAN
  OBVIOUS
<1>2. 0 \in 0 .. MaxSubmits
  BY ConstantsAssumption
<1>. QED  BY <1>1, <1>2, BlankFields DEF Query

LEMMA DeleteKeeps ==
  ASSUME IInv, NEW q \in Queries, Delete(q)
  PROVE  Keeps
<1>. DEFINE io == IF qry[q].status \in TcpStatus
                  THEN Done(Io, qry[q].curr, Waiting[qry[q].status]) ELSE Io
            blank == [qry[q] EXCEPT !.id = 0, !.status = "VOID", !.code = "VOID", !.buf = FALSE,
                                    !.body = <<>>]
<1>1. Running /\ q \notin doneNow /\ affected = {}
  BY DEF Delete, Running
<1>2. CASE qry[q].status = "SEND"
  <2>1. Abort("status of a UDP reader")
    BY <1>2 DEF Delete
  <2>. QED  BY <2>1, AbortKeeps DEF Assertions
<1>3. CASE qry[q].status # "SEND"
  <2>1. /\ SetIo(io) /\ qry' = [qry EXCEPT ![q] = blank] /\ told' = told \ {q}
        /\ UNCHANGED <<head, doneNow, affected, conn, asked, stream, serial,
                       shared, pipelined, aborted>>
    BY <1>3 DEF Delete
  <2>2. PICK i \in DOMAIN queryList : queryList[i] = q /\ queryList' = Drop(queryList, i)
    BY <1>3 DEF Delete
  <2>3. qry[q] \in Query /\ blank \in Query /\ blank.status = "VOID"
    BY BlankType DEF IInv, Fits
  <2>. HIDE DEF blank
  <2>4. qry'[q] = blank /\ \A p \in Queries \ {q} : qry'[p] = qry[p]
    BY <2>1 DEF IInv, Fits
  <2>5. Fits(io, qry', {}, {}, shared)
    <3>1. CASE InTcp(qry, q)
      <4>1. Fits(io, qry, {q}, {q}, shared)
        <5>1. Fits(io, qry, {q}, affected \cup {q}, shared)
          BY <3>1, LeavesTcp DEF InTcp
        <5>. QED  BY <1>1, <5>1
      <4>. HIDE DEF io
      <4>2. blank.status \notin TcpStatus
        BY <2>3 DEF TcpStatus
      <4>3. Fits(io, [qry EXCEPT ![q] = blank], {}, {q} \ {q}, shared)
        BY <2>3, <4>1, <4>2, StaysOut
      <4>. QED  BY <2>1, <4>3
    <3>2. CASE ~InTcp(qry, q)
      <4>1. io = Io
        BY <3>2 DEF InTcp
      <4>2. blank.status \notin TcpStatus /\ Fits(Io, qry, {}, {}, shared)
        BY <1>1, <2>3 DEF TcpStatus, IInv
      <4>. QED  BY <2>1, <2>3, <3>2, <4>1, <4>2, StaysIdle
    <3>. QED  BY <3>1, <3>2
  <2>. HIDE DEF io
  <2>6. Fits(Io', qry', {}, affected', shared')
    <3>1. Io' = io
      BY <2>1, <2>5, SetIoMeans DEF Fits
    <3>. QED  BY <1>1, <2>1, <2>5, <3>1
  <2>7. OneEntryEach' /\ \A p : Listed(p)' <=> Listed(p) /\ p # q
    BY <2>2, DropEffect DEF IInv, Scheduled
  <2>8. Scheduled'
    <3>1. Stage(q)'
      BY <1>1, <2>1, <2>3, <2>4, <2>7 DEF Stage
    <3>2. ASSUME NEW p \in Queries \ {q} PROVE Stage(p)'
      <4>1. qry'[p] = qry[p] /\ Stage(p) /\ (p \in told' <=> p \in told) /\ (Listed(p)' <=> Listed(p))
        BY <2>1, <2>4, <2>7 DEF IInv, Scheduled
      <4>. QED  BY <2>1, <4>1, StageKept
    <3>3. /\ doneNow' \subseteq Queries /\ told' \subseteq Queries /\ affected' = {}
      BY <1>1, <2>1 DEF IInv, Scheduled
    <3>. QED  BY <2>7, <3>1, <3>2, <3>3 DEF Scheduled
  <2>9. Plain'
    BY <2>1, Zenon DEF IInv, Plain
  <2>10. \A p \in Queries : Assumed(p)
    BY <2>4, <2>7 DEF Assumed
  <2>. QED  BY <2>6, <2>8, <2>9, <2>10, Zenon DEF Keeps, IInv
<1>. QED  BY <1>2, <1>3

LEMMA StreamType ==
  ASSUME IInv, NEW s \in ServerIndex, NEW n \in Nat, n <= Len(stream[s])
  PROVE  Received(s, n) \in Seq(Piece) /\ Rest(s, n) \in Seq(Piece)
<1>1. stream[s] \in Seq(Piece)
  BY DEF IInv, Plain
<1>. QED  BY <1>1 DEF Received, Rest

\* The body of query q changes, nothing of what it waits for.
LEMMA FitsOn ==
  ASSUME NEW io, NEW f, NEW q \in Queries, NEW Y, NEW sh, Fits(io, f, {}, Y, sh),
         NEW r \in Query, r.status = f[q].status, r.curr = f[q].curr
  PROVE  Fits(io, [f EXCEPT ![q] = r], {}, Y, sh)
<1>. DEFINE g == [f EXCEPT ![q] = r]
<1>1. g \in [Queries -> Query] /\ g[q] = r /\ \A p \in Queries \ {q} : g[p] = f[p]
  BY DEF Fits
<1>. HIDE DEF g
<1>2. \A p \in Queries : g[p].status = f[p].status /\ g[p].curr = f[p].curr
  BY <1>1
<1>3. \A s \in ServerIndex, side \in Sides : Of(g, s, side) = Of(f, s, side)
  BY <1>2 DEF Of, InTcp
<1>4. Counted(io, g, {})
  BY <1>3 DEF Fits, Counted
<1>5. Open(io, g, Y)
  BY <1>2 DEF Fits, Open, InTcp
<1>6. ReadersWatch(io, g, Y) /\ WritersWatch(io, g, Y, sh)
  BY <1>2 DEF Fits, ReadersWatch, WritersWatch, Watch
<1>7. Alone(g, {}, sh)
  BY <1>2 DEF Fits, Alone, InTcp
<1>. QED  BY <1>1, <1>4, <1>5, <1>6, <1>7 DEF Fits, g

LEMMA BodyType ==
  ASSUME NEW r \in Query, NEW pieces \in Seq(Piece)
  PROVE  LET l == [r EXCEPT !.body = @ \o pieces] IN
         /\ l \in Query /\ l.status = r.status /\ l.id = r.id /\ l.first = r.first
         /\ l.curr = r.curr /\ l.retries = r.retries
<1>1. r.body \in Seq(Piece)
  BY DEF Query
<1>2. r.body \o pieces \in Seq(Piece)
  BY <1>1
<1>. QED  BY <1>2 DEF Query

LEMMA AnsweredType ==
  ASSUME NEW r \in Query, NEW code \in {"OK", "TRUNC", "FLAGS", "MALLOC"}
  PROVE  LET l == [r EXCEPT !.code = code] IN
         l \in Query /\ l.code = code /\ l.id = r.id /\ l.curr = r.curr
BY SMTT(30) DEF Query

LEMMA RecvTcpBodyKeeps ==
  ASSUME IInv, NEW s \in ServerIndex, NEW q \in Queries, RecvTcpBody(s, q)
  PROVE  Keeps
<1>1. affected = {} /\ qry[q].status = "BODY" /\ qry[q].curr = s
  BY DEF RecvTcpBody, Readable, Running, First, ReadsBody
<1>2. /\ InTcp(qry, q) /\ Waiting[qry[q].status] = "read" /\ "BODY" \in TcpStatus
  BY <1>1, WaitingType DEF InTcp, TcpStatus
<1>3. CASE ConnectNext(s, head[s])
  BY <1>1, <1>3, HeadType, ConnectNextKeeps
<1>4. CASE Abort("result of ruli_sock_recv")
  BY <1>4, AbortKeeps DEF Assertions
<1>5. ASSUME NEW n \in 1 .. BodyLen - Len(qry[q].body), n <= Len(stream[s]),
             stream' = [stream EXCEPT ![s] = Rest(s, n)],
             LET r == [qry[q] EXCEPT !.body = @ \o Received(s, n)] IN
             IF Len(r.body) < BodyLen
             THEN /\ qry' = [qry EXCEPT ![q] = r]
                  /\ UNCHANGED <<sd, count, mon, doneNow, aborted, conn, told>>
             ELSE \E code \in {"OK", "TRUNC"} :
                    QueryDone(q, [r EXCEPT !.code = code], Done(Io, s, "read")),
             UNCHANGED <<queryList, head, affected, asked, serial, shared, pipelined>>
      PROVE  Keeps
  <2>. DEFINE r == [qry[q] EXCEPT !.body = @ \o Received(s, n)]
  <2>1. qry[q] \in Query /\ n \in Nat
    BY DEF IInv, Fits
  <2>2. Received(s, n) \in Seq(Piece) /\ Rest(s, n) \in Seq(Piece)
    BY <1>5, <2>1, StreamType
  <2>3. /\ r \in Query /\ r.status = "BODY" /\ r.id = qry[q].id /\ r.first = qry[q].first
        /\ r.curr = qry[q].curr /\ r.retries = qry[q].retries
    BY <1>1, <2>1, <2>2, BodyType
  <2>4. stream' \in [ServerIndex -> Seq(Piece)] /\ head' \in [ServerIndex -> Seq(Piece)]
    BY <1>5, <2>2 DEF IInv, Plain
  <2>5. CASE /\ qry' = [qry EXCEPT ![q] = r]
             /\ UNCHANGED <<sd, count, mon, doneNow, aborted, conn, told>>
    <3>. HIDE DEF r
    <3>1. Fits(Io, [qry EXCEPT ![q] = r], {}, affected, shared)
      BY <1>1, <2>3, FitsOn DEF IInv
    <3>2. Io' = Io
      BY <2>5 DEF Io
    <3>3. Fits(Io', qry', {}, affected', shared')
      BY <1>5, <2>5, <3>1, <3>2
    <3>4. Plain'
      BY <1>5, <2>4, <2>5, Zenon DEF IInv, Plain
    <3>. QED  BY <1>2, <1>5, <2>3, <2>5, <3>3, <3>4, GoesOnKeeps
  <2>6. ASSUME NEW code \in {"OK", "TRUNC"},
               QueryDone(q, [r EXCEPT !.code = code], Done(Io, s, "read"))
        PROVE  Keeps
    <3>. DEFINE l == [r EXCEPT !.code = code]
    <3>. HIDE DEF r
    <3>1. l \in Query /\ l.code = code /\ l.id = qry[q].id /\ l.curr = qry[q].curr
      <4>1. code \in {"OK", "TRUNC", "FLAGS", "MALLOC"}
        OBVIOUS
      <4>2. l \in Query /\ l.code = code /\ l.id = r.id /\ l.curr = r.curr
        BY <2>3, <4>1, AnsweredType
      <4>. QED  BY <2>3, <4>2
    <3>2. QueryDone(q, l, Done(Io, qry[q].curr, "read"))
      BY <1>1, <2>6
    <3>. HIDE DEF l
    <3>. QED  BY <1>1, <1>2, <1>5, <2>4, <3>1, <3>2, QueryDoneKeeps
  <2>7. \/ qry' = [qry EXCEPT ![q] = r] /\ UNCHANGED <<sd, count, mon, doneNow, aborted, conn, told>>
        \/ \E code \in {"OK", "TRUNC"} :
             QueryDone(q, [r EXCEPT !.code = code], Done(Io, s, "read"))
    BY <1>5, Zenon
  <2>. QED  BY <2>5, <2>6, <2>7
<1>. QED  BY <1>3, <1>4, <1>5 DEF RecvTcpBody

LEMMA BodyReaderFields ==
  ASSUME NEW A, NEW B, NEW C, NEW D, NEW S, NEW K, NEW U, NEW X,
         NEW r \in [id : A, first : B, curr : B, retries : C, search : D, status : S, code : K,
                   buf : U, body : X],
         "BODY" \in S, TRUE \in U
  PROVE  /\ [r EXCEPT !.buf = TRUE] \in [id : A, first : B, curr : B, retries : C, search : D,
                                        status : S, code : K, buf : U, body : X]
         /\ [r EXCEPT !.buf = TRUE].id = r.id /\ [r EXCEPT !.buf = TRUE].first = r.first
         /\ [r EXCEPT !.buf = TRUE].curr = r.curr /\ [r EXCEPT !.buf = TRUE].retries = r.retries
         /\ [r EXCEPT !.status = "BODY", !.buf = TRUE]
              = [[r EXCEPT !.buf = TRUE] EXCEPT !.status = "BODY"]
OBVIOUS

LEMMA BodyReaderType ==
  ASSUME NEW r \in Query
  PROVE  /\ [r EXCEPT !.buf = TRUE] \in Query
         /\ [r EXCEPT !.buf = TRUE].id = r.id /\ [r EXCEPT !.buf = TRUE].first = r.first
         /\ [r EXCEPT !.buf = TRUE].curr = r.curr /\ [r EXCEPT !.buf = TRUE].retries = r.retries
         /\ [r EXCEPT !.status = "BODY", !.buf = TRUE]
              = [[r EXCEPT !.buf = TRUE] EXCEPT !.status = "BODY"]
<1>1. "BODY" \in {"VOID", "UDP"} \cup TcpStatus /\ TRUE \in BOOLEAN
  BY DEF TcpStatus
<1>. QED  BY <1>1, BodyReaderFields DEF Query

\* A reader that is done leaves its server's socket as it is.
LEMMA DoneReading ==
  ASSUME IInv, affected = {}, NEW q \in Queries, InTcp(qry, q), Waiting[qry[q].status] = "read"
  PROVE  LET io == Done(Io, qry[q].curr, "read") IN
         Fits(io, qry, {q}, {q}, shared) /\ io.sd[qry[q].curr] # 0
<1>. DEFINE t == qry[q].curr  io == Done(Io, t, "read")
<1>1. Fits(io, qry, {q}, {q}, shared)
  <2>1. Fits(io, qry, {q}, affected \cup {q}, shared) /\ affected \cup {q} = {q}
    BY LeavesTcp
  <2>. QED  BY <2>1
<1>2. Io.sd[t] # 0
  BY DEF IInv, Fits, Open
<1>3. t \in ServerIndex /\ Io \in IoType /\ "read" \in Sides
  BY TurnsType DEF IInv, Fits, Sides
<1>4. Io.count[t]["read"] # 0
  <2>1. q \in Of(qry, t, "read") \ {}
    BY DEF Of
  <2>2. Cardinality(Of(qry, t, "read") \ {}) # 0
    BY <2>1, OfFinite, FS_EmptySet
  <2>. QED  BY <1>3, <2>2 DEF IInv, Fits, Counted
<1>5. io.sd = Io.sd
  BY <1>3, <1>4, DoneEffect DEF Changed
<1>. QED  BY <1>1, <1>2, <1>5

LEMMA TakeHeadKeeps ==
  ASSUME IInv, affected = {}, NEW q \in Queries, TakeHead(q),
         UNCHANGED <<queryList, affected, asked, serial, shared, pipelined>>,
         head' \in [ServerIndex -> Seq(Piece)], stream' \in [ServerIndex -> Seq(Piece)]
  PROVE  Keeps
<1>. DEFINE t == qry[q].curr  io == Done(Io, t, "read")
<1>1. ASSUME NEW assertion \in Assertions, aborted' = assertion,
             UNCHANGED <<qry, sd, count, mon, doneNow, conn, told>>
      PROVE  Keeps
  <2>1. Plain'
    BY <1>1, Zenon DEF IInv, Plain
  <2>. QED  BY <1>1, <2>1, FrameKeeps
<1>2. CASE qry[q].status # "HEAD"
  <2>1. /\ aborted' = "status of a head reader" /\ UNCHANGED <<qry, sd, count, mon, doneNow, conn, told>>
    BY <1>2, Zenon DEF TakeHead
  <2>2. "status of a head reader" \in Assertions
    BY DEF Assertions
  <2>. QED  BY <1>1, <2>1, <2>2
<1>3. CASE qry[q].status = "HEAD"
  <2>1. /\ InTcp(qry, q) /\ Waiting[qry[q].status] = "read" /\ Waiting["BODY"] = "read"
        /\ "BODY" \in TcpStatus
    BY <1>3, WaitingType DEF InTcp, TcpStatus
  <2>2. qry[q] \in Query /\ qry \in [Queries -> Query]
    BY DEF IInv, Fits
  <2>3. ASSUME NEW code \in {"FLAGS", "MALLOC"}, QueryDone(q, [qry[q] EXCEPT !.code = code], io)
        PROVE  Keeps
    <3>. DEFINE r == [qry[q] EXCEPT !.code = code]
    <3>1. code \in {"OK", "TRUNC", "FLAGS", "MALLOC"}
      OBVIOUS
    <3>2. r \in Query /\ r.code = code /\ r.id = qry[q].id /\ r.curr = qry[q].curr
      BY <2>2, <3>1, AnsweredType
    <3>3. QueryDone(q, r, Done(Io, qry[q].curr, "read"))
      BY <2>3
    <3>. HIDE DEF r
    <3>. QED  BY <2>1, <3>1, <3>2, <3>3, QueryDoneKeeps
  <2>4. CASE /\ aborted' = "answer_buf at head"
             /\ UNCHANGED <<qry, sd, count, mon, doneNow, conn, told>>
    <3>1. "answer_buf at head" \in Assertions
      BY DEF Assertions
    <3>. QED  BY <1>1, <2>4, <3>1
  <2>5. CASE /\ qry' = [qry EXCEPT ![q] = [@ EXCEPT !.status = "BODY", !.buf = TRUE]]
             /\ SetIo(Want(io, t, "read"))
             /\ aborted' = IF Len(head'[t]) # HeadLen THEN "tcp_head_len at body" ELSE aborted
             /\ UNCHANGED <<doneNow, conn, told>>
    <3>. DEFINE r == [qry[q] EXCEPT !.buf = TRUE]  n == [r EXCEPT !.status = "BODY"]
                new == Want(io, t, "read")
    <3>1. Fits(io, qry, {q}, {q}, shared) /\ io.sd[t] # 0
      BY <2>1, DoneReading
    <3>2. /\ r \in Query /\ r.id = qry[q].id /\ r.first = qry[q].first
          /\ r.curr = t /\ r.retries = qry[q].retries
      BY <2>2, BodyReaderType
    <3>3. qry' = [qry EXCEPT ![q] = n]
      BY <2>2, <2>5, BodyReaderType
    <3>. HIDE DEF io, r, t
    <3>4. Fits(Want(io, r.curr, Waiting["BODY"]), [qry EXCEPT ![q] = n], {}, {q} \ {q}, shared)
      <4>1. io.sd[r.curr] # 0
        BY <3>1, <3>2
      <4>. QED  BY <2>1, <3>1, <3>2, <4>1, PutsIn
    <3>5. /\ n \in Query /\ n.status = "BODY" /\ n.id = qry[q].id /\ n.first = qry[q].first
          /\ n.curr = qry[q].curr /\ n.retries = qry[q].retries
      BY <2>1, <3>2, StatusType DEF t
    <3>. HIDE DEF n
    <3>6. Fits(Io', qry', {}, affected', shared')
      <4>1. Want(io, r.curr, Waiting["BODY"]) = new /\ {q} \ {q} = affected'
        BY <2>1, <3>2
      <4>2. Fits(new, [qry EXCEPT ![q] = n], {}, affected', shared)
        BY <3>4, <4>1
      <4>3. Io' = new
        BY <2>5, <4>2, SetIoMeans DEF Fits
      <4>. QED  BY <3>3, <4>2, <4>3
    <3>7. Plain'
      <4>1. aborted' \in Assertions
        BY <2>5 DEF IInv, Plain, Assertions
      <4>. QED  BY <2>5, <4>1, Zenon DEF IInv, Plain
    <3>8. n.status \in TcpStatus /\ UNCHANGED <<queryList, affected, doneNow, told>>
      BY <2>1, <2>5, <3>5
    <3>. HIDE DEF new
    <3>. QED  BY <2>1, <3>3, <3>5, <3>6, <3>7, <3>8, GoesOnKeeps
  <2>6. \/ QueryDone(q, [qry[q] EXCEPT !.code = "FLAGS"], io)
        \/ QueryDone(q, [qry[q] EXCEPT !.code = "MALLOC"], io)
        \/ /\ aborted' = "answer_buf at head"
           /\ UNCHANGED <<qry, sd, count, mon, doneNow, conn, told>>
        \/ /\ qry' = [qry EXCEPT ![q] = [@ EXCEPT !.status = "BODY", !.buf = TRUE]]
           /\ SetIo(Want(io, t, "read"))
           /\ aborted' = IF Len(head'[t]) # HeadLen THEN "tcp_head_len at body" ELSE aborted
           /\ UNCHANGED <<doneNow, conn, told>>
    BY <1>3, Zenon DEF TakeHead
  <2>7. "FLAGS" \in {"FLAGS", "MALLOC"} /\ "MALLOC" \in {"FLAGS", "MALLOC"}
    OBVIOUS
  <2>. QED  BY <2>3, <2>4, <2>5, <2>6, <2>7, Zenon
<1>. QED  BY <1>2, <1>3

LEMMA RecvTcpHeadKeeps ==
  ASSUME IInv, NEW s \in ServerIndex, RecvTcpHead(s)
  PROVE  Keeps
<1>1. affected = {}
  BY DEF RecvTcpHead, Readable, Running
<1>2. CASE Abort("tcp_head_len at head")
  BY <1>2, AbortKeeps DEF Assertions
<1>3. CASE ConnectNext(s, head[s])
  BY <1>1, <1>3, HeadType, ConnectNextKeeps
<1>4. ASSUME NEW n \in 1 .. HeadLen - Len(head[s]), n <= Len(stream[s])
      PROVE  LET pieces == head[s] \o Received(s, n) IN
             /\ [head EXCEPT ![s] = pieces] \in [ServerIndex -> Seq(Piece)]
             /\ [stream EXCEPT ![s] = Rest(s, n)] \in [ServerIndex -> Seq(Piece)]
  <2>1. Received(s, n) \in Seq(Piece) /\ Rest(s, n) \in Seq(Piece)
    BY <1>4, StreamType
  <2>2. head[s] \in Seq(Piece)
    BY DEF IInv, Plain
  <2>3. head[s] \o Received(s, n) \in Seq(Piece)
    BY <2>1, <2>2
  <2>. QED  BY <2>1, <2>3 DEF IInv, Plain
<1>5. ASSUME NEW n \in 1 .. HeadLen - Len(head[s]), n <= Len(stream[s]),
             head' = [head EXCEPT ![s] = head[s] \o Received(s, n)],
             stream' = [stream EXCEPT ![s] = Rest(s, n)],
             UNCHANGED <<queryList, qry, sd, count, mon, doneNow, affected, conn,
                         asked, told, serial, shared, pipelined, aborted>>
      PROVE  Keeps
  <2>1. head' \in [ServerIndex -> Seq(Piece)] /\ stream' \in [ServerIndex -> Seq(Piece)]
    BY <1>4, <1>5
  <2>2. Plain'
    BY <1>5, <2>1, Zenon DEF IInv, Plain
  <2>. QED  BY <1>5, <2>2, FrameKeeps
<1>6. ASSUME NEW n \in 1 .. HeadLen - Len(head[s]), n <= Len(stream[s]),
             head' = [head EXCEPT ![s] = head[s] \o Received(s, n)],
             stream' = [stream EXCEPT ![s] = Rest(s, n)],
             NEW q \in Queries, TakeHead(q),
             UNCHANGED <<queryList, affected, asked, serial, shared, pipelined>>
      PROVE  Keeps
  <2>1. head' \in [ServerIndex -> Seq(Piece)] /\ stream' \in [ServerIndex -> Seq(Piece)]
    BY <1>4, <1>6
  <2>. QED  BY <1>1, <1>6, <2>1, TakeHeadKeeps
<1>7. ASSUME NEW n \in 1 .. HeadLen - Len(head[s]), n <= Len(stream[s]),
             ConnectNext(s, head[s] \o Received(s, n))
      PROVE  Keeps
  <2>1. head[s] \o Received(s, n) \in Seq(Piece)
    <3>1. Received(s, n) \in Seq(Piece)
      BY <1>7, StreamType
    <3>. QED  BY <3>1, HeadType
  <2>. QED  BY <1>1, <1>7, <2>1, ConnectNextKeeps
<1>. QED  BY <1>2, <1>3, <1>5, <1>6, <1>7 DEF RecvTcpHead

-----------------------------------------------------------------------------
(* The invariant and what follows from it.                                 *)

LEMMA InitIInv ==
  ASSUME Init
  PROVE  IInv
<1>1. 0 \in ServerIndex /\ 0 \in 0 .. MaxSubmits /\ 0 \in 0 .. Retry /\ 0 \in 0 .. Suffixes
  BY ConstantsAssumption DEF ServerIndex
<1>2. qry \in [Queries -> Query] /\ \A q \in Queries : qry[q].status = "VOID" /\ qry[q].id = 0
  <2>. DEFINE r == [id |-> 0, first |-> 0, curr |-> 0, retries |-> 0, search |-> 0, status |-> "VOID",
                    code |-> "VOID", buf |-> FALSE, body |-> <<>>]
  <2>1. r \in Query /\ r.status = "VOID" /\ r.id = 0
    BY <1>1 DEF Query
  <2>2. qry = [q \in Queries |-> r]
    BY DEF Init
  <2>. HIDE DEF r
  <2>. QED  BY <2>1, <2>2
<1>3. Io \in IoType
  <2>1. sd \in [ServerIndex -> Descriptors \cup {0}]
    BY DEF Init
  <2>2. count \in [ServerIndex -> [Sides -> Nat]]
    BY DEF Init
  <2>3. mon \in [Descriptors -> [Events -> Sides \cup {"none"}]]
    BY DEF Init
  <2>. QED  BY <2>1, <2>2, <2>3 DEF Io, IoType
<1>4. \A q \in Queries : ~InTcp(qry, q) /\ qry[q].status \notin {"CONNECT", "SEND", "HEAD", "BODY"}
  BY <1>2 DEF InTcp, TcpStatus
<1>5. Counted(Io, qry, {})
  <2>1. \A s \in ServerIndex, side \in Sides : Of(qry, s, side) \ {} = {}
    BY <1>4 DEF Of
  <2>2. \A s \in ServerIndex, side \in Sides : Io.count[s][side] = 0
    BY DEF Io, Init
  <2>. QED  BY <2>1, <2>2, FS_EmptySet DEF Counted
<1>6. Distinct(Io)
  BY DEF Distinct, Io, Init
<1>7. Open(Io, qry, affected) /\ ReadersWatch(Io, qry, affected) /\ WritersWatch(Io, qry, affected, shared)
  BY <1>4 DEF Open, ReadersWatch, WritersWatch
<1>8. Alone(qry, {}, shared)
  BY <1>4 DEF Alone
<1>9. Fits(Io, qry, {}, affected, shared)
  BY <1>2, <1>3, <1>5, <1>6, <1>7, <1>8 DEF Fits
<1>10. Scheduled
  <2>1. queryList = <<>> /\ doneNow = {} /\ affected = {} /\ told = {}
    BY DEF Init
  <2>2. OneEntryEach /\ \A q : ~Listed(q)
    BY <2>1 DEF OneEntryEach, Listed
  <2>3. \A q \in Queries : Stage(q)
    BY <1>2, <2>1, <2>2 DEF Stage
  <2>. QED  BY <2>1, <2>2, <2>3 DEF Scheduled
<1>11. Plain
  <2>1. /\ head \in [ServerIndex -> Seq(Piece)] /\ stream \in [ServerIndex -> Seq(Piece)]
        /\ asked \in [ServerIndex -> SUBSET (1 .. MaxSubmits)]
        /\ conn \in ConnType /\ serial \in Nat /\ aborted \in Assertions
    BY DEF Init, ConnType, Assertions
  <2>2. shared \in BOOLEAN /\ pipelined \in BOOLEAN
    BY Zenon DEF Init
  <2>. QED  BY <2>1, <2>2, Zenon DEF Plain
<1>. QED  BY <1>9, <1>10, <1>11 DEF IInv

LEMMA StutterKeeps ==
  ASSUME IInv, UNCHANGED vars
  PROVE  Keeps
<1>1. Plain'
  BY Zenon DEF IInv, Plain, vars
<1>2. UNCHANGED <<queryList, qry, sd, count, mon, affected, doneNow, told, shared>>
  BY DEF vars
<1>. QED  BY <1>1, <1>2, FrameKeeps

LEMMA NextKeeps ==
  ASSUME IInv, [Next]_vars
  PROVE  Keeps
<1>1. ASSUME NEW q \in Queries, Submit(q) PROVE Keeps
  BY <1>1, SubmitKeeps
<1>2. ASSUME NEW q \in Queries, Truncated(q) PROVE Keeps
  BY <1>2, TruncatedKeeps
<1>3. ASSUME NEW q \in Queries, Delete(q) PROVE Keeps
  BY <1>3, DeleteKeeps
<1>4. ASSUME NEW q \in Queries, ConnectNextRound(q) PROVE Keeps
  BY <1>4, ConnectNextRoundKeeps
<1>5. ASSUME NEW q \in Queries, OnTcpReadTimeout(q) PROVE Keeps
  BY <1>5, OnTcpReadTimeoutKeeps
<1>6. ASSUME NEW q \in Queries, QueryDoneNow(q) PROVE Keeps
  BY <1>6, QueryDoneNowKeeps
<1>7. ASSUME NEW s \in ServerIndex, Resolves(s) PROVE Keeps
  BY <1>7, ResolvesKeeps
<1>8. ASSUME NEW s \in ServerIndex, Replies(s) PROVE Keeps
  BY <1>8, RepliesKeeps
<1>9. ASSUME NEW s \in ServerIndex, Closes(s) PROVE Keeps
  BY <1>9, ClosesKeeps
<1>10. ASSUME NEW s \in ServerIndex, OnTcpConnected(s) PROVE Keeps
  BY <1>10, OnTcpConnectedKeeps
<1>11. ASSUME NEW s \in ServerIndex, OnTcpConnectFailed(s) PROVE Keeps
  <2>1. affected = {} /\ ConnectNext(s, head[s])
    BY <1>11 DEF OnTcpConnectFailed, Running
  <2>. QED  BY <2>1, HeadType, ConnectNextKeeps
<1>12. ASSUME NEW s \in ServerIndex, OnTcpWrite(s) PROVE Keeps
  BY <1>12, OnTcpWriteKeeps
<1>13. ASSUME NEW s \in ServerIndex, RecvTcpHead(s) PROVE Keeps
  BY <1>13, RecvTcpHeadKeeps
<1>14. ASSUME NEW s \in ServerIndex, NEW q \in Queries, RecvTcpBody(s, q) PROVE Keeps
  BY <1>14, RecvTcpBodyKeeps
<1>15. ASSUME NEW s \in ServerIndex, ReadForNobody(s) PROVE Keeps
  BY <1>15, AbortKeeps DEF ReadForNobody, Assertions
<1>16. CASE UNCHANGED vars
  BY <1>16, StutterKeeps
<1>. QED
  BY <1>1, <1>2, <1>3, <1>4, <1>5, <1>6, <1>7, <1>8, <1>9, <1>10, <1>11, <1>12, <1>13, <1>14,
     <1>15, <1>16, Zenon DEF Next

\* The invariant holds in every state.
THEOREM Invariance == Spec => []IInv
<1>1. Init => IInv
  BY InitIInv
<1>2. IInv /\ [Next]_vars => IInv'
  <2>. SUFFICES ASSUME IInv, [Next]_vars PROVE IInv'
    OBVIOUS
  <2>. QED  BY NextKeeps, Zenon DEF Keeps
<1>. QED  BY <1>1, <1>2, PTL DEF Spec

\* The variables keep their types; no count goes below zero.
THEOREM TypeCorrect == Spec => []TypeOK
<1>1. IInv => TypeOK
  BY TypeFollows
<1>. QED  BY <1>1, Invariance, PTL

\* The counts of a server are the numbers of those who wait for it.
THEOREM Counts == Spec => []CountsMatchWaiters
<1>1. IInv => CountsMatchWaiters
  <2>. SUFFICES ASSUME IInv, NEW s \in ServerIndex, NEW side \in Sides
                PROVE  count[s][side] = Cardinality(Waiters(s, side))
    BY DEF CountsMatchWaiters
  <2>1. Waiters(s, side) = Of(qry, s, side) \ {}
    BY DEF Waiters, Of, InTcp
  <2>2. Io.count[s][side] = Cardinality(Of(qry, s, side) \ {})
    BY DEF IInv, Fits, Counted
  <2>3. Io.count = count
    BY DEF Io
  <2>. QED  BY <2>1, <2>2, <2>3
<1>. QED  BY <1>1, Invariance, PTL

\* Nobody is left behind on a socket that has been closed.
THEOREM SocketsOpen == Spec => []WaitsOnOpenSocket
<1>1. IInv => WaitsOnOpenSocket
  BY DEF IInv, Fits, Open, InTcp, Io, WaitsOnOpenSocket
<1>. QED  BY <1>1, Invariance, PTL

\* No submitted query is forgotten.
THEOREM NeverForgotten == Spec => []PendingIsScheduled
<1>1. IInv => PendingIsScheduled
  BY DEF IInv, Scheduled, Stage, PendingIsScheduled
<1>. QED  BY <1>1, Invariance, PTL

\* Whoever waits for a descriptor has it monitored.
THEOREM Monitored == Spec => []WaitersMonitored
<1>1. IInv => WaitersMonitored
  <2>. SUFFICES ASSUME IInv, affected = {}, NEW q \in Queries
                PROVE  LET s == qry[q].curr IN
                       /\ qry[q].status \in {"HEAD", "BODY"} => Sink(s, "r", "read")
                       /\ ~shared => /\ qry[q].status = "CONNECT" => Sink(s, "w", "connect")
                                     /\ qry[q].status = "SEND" => Sink(s, "w", "write")
    BY DEF WaitersMonitored
  <2>1. /\ Open(Io, qry, affected) /\ ReadersWatch(Io, qry, affected)
        /\ WritersWatch(Io, qry, affected, shared)
    BY DEF IInv, Fits
  <2>2. qry[q].status \in {"CONNECT", "SEND", "HEAD", "BODY"} => sd[qry[q].curr] # 0
    BY <2>1 DEF Open, InTcp, TcpStatus, Io
  <2>. QED  BY <2>1, <2>2 DEF ReadersWatch, WritersWatch, Watch, Sink, Io
<1>. QED  BY <1>1, Invariance, PTL

\* A query in TCP mode makes no move but those RuliUdp lets it make.
THEOREM Moves == Spec => MovesAsAssumed
<1>1. IInv /\ [Next]_vars
      => [aborted' = "no" =>
            \A q \in Queries :
              LET r == qry[q]
                  l == qry'[q]
              IN  r.status \in TcpStatus /\ l # r /\ Listed(q)' =>
                    \/ l.status \in TcpStatus /\ l.first = r.first /\ SwitchesLeft(l) <= SwitchesLeft(r)
                    \/ /\ l.status = "VOID" /\ l.code \in {"CONNECT", "TIMEOUT"} /\ q \in doneNow'
                       /\ l.first = r.first /\ l.curr = r.first /\ l.retries = 0
                    \/ l.status = "VOID" /\ l.code \in {"OK", "TRUNC", "FLAGS", "MALLOC"} /\ q \in told'
                    \/ l.status = "UDP" /\ l.code = "VOID" /\ l.first = r.curr /\ l.retries = Retry]_vars
  <2>. SUFFICES ASSUME IInv, [Next]_vars PROVE \A q \in Queries : Assumed(q)
    BY DEF Assumed
  <2>. QED  BY NextKeeps, Zenon DEF Keeps
<1>. QED  BY <1>1, Invariance, PTL DEF Spec, MovesAsAssumed

-----------------------------------------------------------------------------
(* The answers over a connection.                                          *)
(*                                                                         *)
(* As long as every request finds its own server's connection clear, a      *)
(* connection is idle, or a request is on its way, or the head of the one   *)
(* answer is arriving, or its body; and those who read from it wait for     *)
(* that answer and no other.                                               *)

Total == HeadLen + BodyLen

\* The pieces of a reply from the one after i to j.
Part(id, i, j) == SubSeq(Reply(id), i + 1, j)

Reads(q, s, status) == q \notin affected /\ qry[q].status = status /\ qry[q].curr = s
Nobody(s, status) == \A q \in Queries : ~Reads(q, s, status)
Only(s, id) == \A q \in Queries : Reads(q, s, "HEAD") => qry[q].id = id

\* Who reads the head of an answer there reads in vain.
Idle(s) ==
  /\ asked[s] = {} /\ stream[s] = <<>>
  /\ Nobody(s, "BODY")
  /\ Nobody(s, "HEAD") \/ (conn[s] \in {"failed", "down"} /\ Len(head[s]) < HeadLen)

Requested(s, id) ==
  /\ asked[s] = {id} /\ stream[s] = <<>> /\ head[s] = <<>>
  /\ Nobody(s, "BODY") /\ Only(s, id)

HeadArrives(s, id, k) ==
  /\ asked[s] = {} /\ head[s] = Part(id, 0, k) /\ stream[s] = Part(id, k, Total)
  /\ Nobody(s, "BODY") /\ Only(s, id)

BodyArrives(s, id, k) ==
  /\ asked[s] = {} /\ Len(head[s]) = HeadLen /\ stream[s] = Part(id, k, Total)
  /\ Nobody(s, "HEAD")
  /\ \A q \in Queries :
       Reads(q, s, "BODY") => qry[q].id = id /\ qry[q].body = Part(id, HeadLen, k)

Orderly(s) ==
  \/ Idle(s)
  \/ \E id \in 1 .. MaxSubmits :
       \/ Requested(s, id)
       \/ \E k \in 0 .. HeadLen - 1 : HeadArrives(s, id, k)
       \/ \E k \in HeadLen .. Total - 1 : BodyArrives(s, id, k)

Closed(s) == sd[s] = 0 => asked[s] = {} /\ stream[s] = <<>>

\* The ids and bodies queries hold; a body received in part has its buffer.
Held(q) ==
  LET r == qry[q] IN
  /\ r.id \in 0 .. serial
  /\ r.status # "VOID" /\ ~r.buf => r.body = <<>>
  /\ r.status = "BODY" => r.buf
  /\ r.code \in {"OK", "TRUNC"} => r.status = "VOID" /\ r.body = BodyOf(r.id)

OwnIds == \A p, q \in Queries : qry[p].id = qry[q].id => p = q \/ qry[p].id = 0

Clear ==
  /\ \A s \in ServerIndex : Orderly(s) /\ Closed(s)
  /\ \A q \in Queries : Held(q)
  /\ OwnIds

InOrder == aborted = "no" /\ ~pipelined => Clear

LEMMA Lengths ==
  /\ HeadLen \in Nat /\ HeadLen >= 1 /\ BodyLen \in Nat /\ BodyLen >= 1
  /\ Total \in Nat /\ Total = HeadLen + BodyLen
BY ConstantsAssumption DEF Total

\* Parts of a reply, taken apart and put together.
LEMMA PartType ==
  ASSUME NEW id \in 1 .. MaxSubmits, NEW i \in 0 .. Total, NEW j \in i .. Total
  PROVE  /\ Part(id, i, j) \in Seq(Piece) /\ Len(Part(id, i, j)) = j - i
         /\ \A k \in 1 .. j - i : Part(id, i, j)[k] = [id |-> id, part |-> i + k]
<1>1. Reply(id) \in Seq(Piece) /\ Len(Reply(id)) = Total
  BY ReplyType, Lengths DEF Reply, Total
<1>2. \A k \in 1 .. Total : Reply(id)[k] = [id |-> id, part |-> k]
  BY DEF Reply, Total
<1>3. Part(id, i, j) \in Seq(Piece) /\ Len(Part(id, i, j)) = j - i
  BY <1>1, Lengths DEF Part
<1>4. ASSUME NEW k \in 1 .. j - i PROVE Part(id, i, j)[k] = [id |-> id, part |-> i + k]
  <2>1. Part(id, i, j)[k] = Reply(id)[i + k]
    BY <1>1, Lengths DEF Part
  <2>2. i + k \in 1 .. Total
    BY Lengths
  <2>. QED  BY <1>2, <2>1, <2>2
<1>. QED  BY <1>3, <1>4

LEMMA SameSequence ==
  ASSUME NEW S, NEW a \in Seq(S), NEW b \in Seq(S), Len(a) = Len(b),
         \A k \in 1 .. Len(a) : a[k] = b[k]
  PROVE  a = b
OBVIOUS

LEMMA PartSplits ==
  ASSUME NEW id \in 1 .. MaxSubmits, NEW i \in 0 .. Total, NEW n \in 0 .. Total - i
  PROVE  /\ SubSeq(Part(id, i, Total), 1, n) = Part(id, i, i + n)
         /\ SubSeq(Part(id, i, Total), n + 1, Len(Part(id, i, Total))) = Part(id, i + n, Total)
<1>. DEFINE rest == Part(id, i, Total)
<1>1. i + n \in i .. Total /\ i + n \in 0 .. Total /\ Total \in i .. Total /\ Total \in (i + n) .. Total
  BY Lengths
<1>2. /\ rest \in Seq(Piece) /\ Len(rest) = Total - i
      /\ \A k \in 1 .. Total - i : rest[k] = [id |-> id, part |-> i + k]
  BY <1>1, PartType
<1>3. /\ Part(id, i, i + n) \in Seq(Piece) /\ Len(Part(id, i, i + n)) = n
      /\ \A k \in 1 .. n : Part(id, i, i + n)[k] = [id |-> id, part |-> i + k]
  <2>1. (i + n) - i = n
    BY Lengths
  <2>. QED  BY <1>1, <2>1, PartType
<1>4. /\ Part(id, i + n, Total) \in Seq(Piece) /\ Len(Part(id, i + n, Total)) = Total - (i + n)
      /\ \A k \in 1 .. Total - (i + n) : Part(id, i + n, Total)[k] = [id |-> id, part |-> (i + n) + k]
  BY <1>1, PartType
<1>. HIDE DEF rest
<1>5. SubSeq(rest, 1, n) = Part(id, i, i + n)
  <2>1. SubSeq(rest, 1, n) \in Seq(Piece) /\ Len(SubSeq(rest, 1, n)) = n
    BY <1>2, Lengths
  <2>2. \A k \in 1 .. n : SubSeq(rest, 1, n)[k] = rest[k] /\ k \in 1 .. Total - i
    BY <1>2, Lengths
  <2>3. \A k \in 1 .. n : SubSeq(rest, 1, n)[k] = Part(id, i, i + n)[k]
    BY <1>2, <1>3, <2>2
  <2>. QED  BY <1>3, <2>1, <2>3, SameSequence
<1>6. SubSeq(rest, n + 1, Len(rest)) = Part(id, i + n, Total)
  <2>. DEFINE tail == SubSeq(rest, n + 1, Len(rest))
  <2>1. tail \in Seq(Piece) /\ Len(tail) = Total - (i + n)
    BY <1>2, Lengths
  <2>2. ASSUME NEW k \in 1 .. Total - (i + n)
        PROVE  tail[k] = [id |-> id, part |-> (i + n) + k]
    <3>1. tail[k] = rest[n + k]
      BY <1>2, Lengths
    <3>2. n + k \in 1 .. Total - i /\ i + (n + k) = (i + n) + k
      BY Lengths
    <3>. QED  BY <1>2, <3>1, <3>2
  <2>3. \A k \in 1 .. Len(tail) : tail[k] = Part(id, i + n, Total)[k]
    BY <1>4, <2>1, <2>2
  <2>. HIDE DEF tail
  <2>. QED  BY <1>4, <2>1, <2>3, SameSequence DEF tail
<1>. QED  BY <1>5, <1>6 DEF rest

LEMMA PartsJoin ==
  ASSUME NEW id \in 1 .. MaxSubmits, NEW i \in 0 .. Total, NEW j \in i .. Total, NEW k \in j .. Total
  PROVE  Part(id, i, j) \o Part(id, j, k) = Part(id, i, k)
<1>1. j \in 0 .. Total /\ k \in i .. Total /\ (j - i) + (k - j) = k - i
  BY Lengths
<1>. DEFINE a == Part(id, i, j)  b == Part(id, j, k)  c == Part(id, i, k)
<1>2. /\ a \in Seq(Piece) /\ Len(a) = j - i
      /\ \A m \in 1 .. j - i : a[m] = [id |-> id, part |-> i + m]
  BY PartType
<1>3. /\ b \in Seq(Piece) /\ Len(b) = k - j
      /\ \A m \in 1 .. k - j : b[m] = [id |-> id, part |-> j + m]
  BY <1>1, PartType
<1>4. /\ c \in Seq(Piece) /\ Len(c) = k - i
      /\ \A m \in 1 .. k - i : c[m] = [id |-> id, part |-> i + m]
  BY <1>1, PartType
<1>. HIDE DEF a, b, c
<1>5. a \o b \in Seq(Piece) /\ Len(a \o b) = k - i
  BY <1>1, <1>2, <1>3
<1>6. ASSUME NEW m \in 1 .. k - i PROVE (a \o b)[m] = c[m]
  <2>1. CASE m <= j - i
    <3>1. (a \o b)[m] = a[m] /\ m \in 1 .. j - i
      BY <1>2, <1>3, <2>1, Lengths
    <3>. QED  BY <3>1, <1>2, <1>4
  <2>2. CASE m > j - i
    <3>1. (a \o b)[m] = b[m - (j - i)] /\ m - (j - i) \in 1 .. k - j /\ j + (m - (j - i)) = i + m
      BY <1>2, <1>3, <2>2, Lengths
    <3>2. b[m - (j - i)] = [id |-> id, part |-> i + m]
      BY <3>1, <1>3
    <3>3. c[m] = [id |-> id, part |-> i + m]
      BY <1>4, <1>6
    <3>. QED  BY <3>1, <3>2, <3>3, Zenon
  <2>3. m <= j - i \/ m > j - i
    OBVIOUS
  <2>. QED  BY <2>1, <2>2, <2>3, Zenon
<1>. QED  BY <1>4, <1>5, <1>6, SameSequence DEF a, b, c

LEMMA Parts ==
  ASSUME NEW id \in 1 .. MaxSubmits
  PROVE  /\ Part(id, 0, 0) = <<>> /\ Part(id, HeadLen, HeadLen) = <<>>
         /\ Part(id, Total, Total) = <<>> /\ Part(id, 0, Total) = Reply(id)
         /\ HeadOf(id) = Part(id, 0, HeadLen) /\ BodyOf(id) = Part(id, HeadLen, Total)
<1>1. Reply(id) \in Seq(Piece) /\ Len(Reply(id)) = Total
  BY ReplyType, Lengths DEF Reply, Total
<1>2. /\ 0 \in 0 .. Total /\ HeadLen \in 0 .. Total /\ Total \in 0 .. Total
      /\ HeadLen \in HeadLen .. Total /\ Total \in Total .. Total
  BY Lengths
<1>3. /\ Part(id, 0, 0) \in Seq(Piece) /\ Len(Part(id, 0, 0)) = 0
      /\ Part(id, HeadLen, HeadLen) \in Seq(Piece) /\ Len(Part(id, HeadLen, HeadLen)) = 0
      /\ Part(id, Total, Total) \in Seq(Piece) /\ Len(Part(id, Total, Total)) = 0
  <2>1. 0 - 0 = 0 /\ HeadLen - HeadLen = 0 /\ Total - Total = 0
    BY Lengths
  <2>2. Part(id, 0, 0) \in Seq(Piece) /\ Len(Part(id, 0, 0)) = 0 - 0
    BY <1>2, PartType
  <2>3. Part(id, HeadLen, HeadLen) \in Seq(Piece) /\ Len(Part(id, HeadLen, HeadLen)) = HeadLen - HeadLen
    BY <1>2, PartType
  <2>4. Part(id, Total, Total) \in Seq(Piece) /\ Len(Part(id, Total, Total)) = Total - Total
    BY <1>2, PartType
  <2>. QED  BY <2>1, <2>2, <2>3, <2>4
<1>4. Part(id, 0, Total) = Reply(id)
  BY <1>1, Lengths DEF Part
<1>5. HeadOf(id) = Part(id, 0, HeadLen)
  BY Lengths DEF HeadOf, Part
<1>6. BodyOf(id) = Part(id, HeadLen, Total)
  BY Lengths DEF BodyOf, Part
<1>. QED  BY <1>3, <1>4, <1>5, <1>6

\* A head tells whose it is.
LEMMA HeadShows ==
  ASSUME NEW id \in 1 .. MaxSubmits
  PROVE  Shown(Part(id, 0, HeadLen)) = {id}
<1>1. ASSUME NEW other \in 1 .. MaxSubmits, HeadOf(other) = HeadOf(id) PROVE other = id
  <2>1. HeadLen \in 0 .. Total /\ 0 \in 0 .. Total /\ 1 \in 1 .. HeadLen - 0
    BY Lengths
  <2>2. ASSUME NEW x \in 1 .. MaxSubmits PROVE HeadOf(x)[1].id = x
    <3>1. HeadLen \in 0 .. Total /\ 1 \in 1 .. HeadLen - 0
      BY Lengths
    <3>2. Part(x, 0, HeadLen)[1] = [id |-> x, part |-> 0 + 1]
      BY <2>1, <3>1, PartType
    <3>3. HeadOf(x) = Part(x, 0, HeadLen)
      BY Parts
    <3>. QED  BY <3>2, <3>3
  <2>. QED  BY <1>1, <2>2
<1>2. {x \in 1 .. MaxSubmits : Part(id, 0, HeadLen) = HeadOf(x)} = {id}
  BY <1>1, Parts
<1>. QED  BY <1>2 DEF Shown

\* Some who read from server s may have left.
Fewer(s) ==
  \A q \in Queries, status \in {"HEAD", "BODY"} :
    Reads(q, s, status)' =>
      Reads(q, s, status) /\ qry'[q].id = qry[q].id /\ qry'[q].body = qry[q].body

LEMMA FewerReaders ==
  ASSUME NEW s \in ServerIndex, Orderly(s), Fewer(s),
         asked'[s] = asked[s], stream'[s] = stream[s], head'[s] = head[s],
         Nobody(s, "HEAD") \/ (conn[s] \in {"failed", "down"} => conn'[s] \in {"failed", "down"})
  PROVE  Orderly(s)'
<1>1. /\ Nobody(s, "HEAD") => Nobody(s, "HEAD")'
      /\ Nobody(s, "BODY") => Nobody(s, "BODY")'
      /\ \A id : Only(s, id) => Only(s, id)'
  BY DEF Fewer, Nobody, Only
<1>2. CASE Idle(s)
  <2>1. Idle(s)'
    BY <1>1, <1>2 DEF Idle
  <2>. QED  BY <2>1 DEF Orderly
<1>3. ASSUME NEW id \in 1 .. MaxSubmits, Requested(s, id)
      PROVE  Orderly(s)'
  <2>1. Requested(s, id)'
    BY <1>1, <1>3 DEF Requested
  <2>. QED  BY <2>1 DEF Orderly
<1>4. ASSUME NEW id \in 1 .. MaxSubmits, NEW k \in 0 .. HeadLen - 1, HeadArrives(s, id, k)
      PROVE  Orderly(s)'
  <2>1. HeadArrives(s, id, k)'
    BY <1>1, <1>4 DEF HeadArrives, Part, Reply
  <2>. QED  BY <2>1 DEF Orderly
<1>5. ASSUME NEW id \in 1 .. MaxSubmits, NEW k \in HeadLen .. Total - 1, BodyArrives(s, id, k)
      PROVE  Orderly(s)'
  <2>1. BodyArrives(s, id, k)'
    BY <1>1, <1>5 DEF BodyArrives, Part, Reply, Fewer
  <2>. QED  BY <2>1 DEF Orderly
<1>. QED  BY <1>2, <1>3, <1>4, <1>5 DEF Orderly

\* The records of those who do nothing but connect.
LEMMA HeldStays ==
  ASSUME NEW p \in Queries, Held(p), qry[p] \in Query, serial \in Nat, serial' \in Nat,
         serial <= serial',
         \/ qry'[p] = qry[p]
         \/ qry[p].status = "CONNECT" /\ qry'[p] = [qry[p] EXCEPT !.status = "SEND"]
  PROVE  Held(p)' /\ qry'[p].id = qry[p].id /\ qry'[p].body = qry[p].body
<1>1. /\ qry'[p].id = qry[p].id /\ qry'[p].body = qry[p].body /\ qry'[p].buf = qry[p].buf
      /\ qry'[p].code = qry[p].code
      /\ \/ qry'[p].status = qry[p].status
         \/ qry'[p].status = "SEND" /\ qry[p].status = "CONNECT"
  BY DEF Query
<1>2. qry[p].id \in 0 .. serial'
  BY DEF Held
<1>. QED  BY <1>1, <1>2 DEF Held, BodyOf, Reply

LEMMA IdsStay ==
  ASSUME OwnIds, \A p \in Queries : qry'[p].id = qry[p].id
  PROVE  OwnIds'
BY DEF OwnIds

\* Nobody waits on a closed socket but those about to be moved.
LEMMA NobodyAtClosed ==
  ASSUME IInv, NEW s \in ServerIndex, sd[s] = 0
  PROVE  Nobody(s, "HEAD") /\ Nobody(s, "BODY")
BY DEF IInv, Fits, Open, Io, InTcp, TcpStatus, Nobody, Reads

\* A query that goes on with another server, or gives up.
LEMMA ResultClear ==
  ASSUME IInv, Clear, NEW q \in Queries, NEW Y, Result(q, Leave(q), Y, shared'),
         qry[q].status # "VOID", affected \subseteq affected' \cup {q},
         UNCHANGED <<head, asked, stream, serial>>
  PROVE  Clear'
<1>1. qry[q] \in Query /\ \A p \in Queries : qry[p] \in Query
  BY DEF IInv, Fits
<1>2. /\ Leave(q).id = qry[q].id /\ Leave(q).buf = qry[q].buf /\ Leave(q).body = qry[q].body
      /\ Leave(q).code = qry[q].code
  BY <1>1, StatusType DEF Leave
<1>3. /\ OthersConnect(q) /\ SocketsKept /\ ConnKept
      /\ qry'[q].id = qry[q].id /\ qry'[q].buf = qry[q].buf /\ qry'[q].body = qry[q].body
      /\ qry'[q].code \in {qry[q].code, "CONNECT", "TIMEOUT"}
      /\ qry'[q].status \in {"VOID", "CONNECT", "SEND"}
  BY <1>2 DEF Result, BodyKept
<1>4. ASSUME NEW s \in ServerIndex
      PROVE  Orderly(s)' /\ Closed(s)'
  <2>1. Fewer(s)
    <3>. SUFFICES ASSUME NEW p \in Queries, NEW status \in {"HEAD", "BODY"}, Reads(p, s, status)'
                  PROVE  Reads(p, s, status) /\ qry'[p] = qry[p]
      BY DEF Fewer
    <3>1. p \notin affected' /\ qry'[p].status = status /\ qry'[p].curr = s
      BY DEF Reads
    <3>2. p # q
      BY <1>3, <3>1
    <3>3. [qry[p] EXCEPT !.status = "SEND"].status = "SEND"
      BY <1>1 DEF Query
    <3>4. qry'[p] = qry[p]
      BY <1>3, <3>1, <3>2, <3>3 DEF OthersConnect
    <3>. QED  BY <3>1, <3>2, <3>4 DEF Reads
  <2>2. Nobody(s, "HEAD") \/ conn'[s] = conn[s]
    BY <1>3, NobodyAtClosed DEF ConnKept
  <2>3. Orderly(s) /\ Closed(s)
    BY DEF Clear
  <2>4. Closed(s)'
    BY <1>3, <2>3 DEF Closed, SocketsKept
  <2>. QED  BY <2>1, <2>2, <2>3, <2>4, FewerReaders
<1>5. ASSUME NEW p \in Queries \ {q}
      PROVE  Held(p)' /\ qry'[p].id = qry[p].id
  <2>1. serial \in Nat /\ serial' = serial
    BY DEF IInv, Plain
  <2>2. \/ qry'[p] = qry[p]
        \/ qry[p].status = "CONNECT" /\ qry'[p] = [qry[p] EXCEPT !.status = "SEND"]
    BY <1>3 DEF OthersConnect
  <2>3. Held(p) /\ qry[p] \in Query /\ serial <= serial'
    BY <1>1, <2>1 DEF Clear
  <2>. QED  BY <2>1, <2>2, <2>3, HeldStays
<1>6. Held(q)'
  BY <1>3 DEF Clear, Held
<1>7. OwnIds'
  BY <1>3, <1>5, IdsStay DEF Clear
<1>. QED  BY <1>4, <1>5, <1>6, <1>7 DEF Clear

\* The action may fail an assertion, or fill the connection with two answers.
StaysClear == aborted' = "no" /\ ~pipelined' => Clear'

LEMMA TruncatedClear ==
  ASSUME IInv, Clear, NEW q \in Queries, Truncated(q)
  PROVE  Clear'
<1>1. affected = {} /\ qry[q].status # "VOID" /\ UNCHANGED <<head, asked, stream, serial>>
  BY DEF Truncated, Running
<1>2. Result(q, Leave(q), {q}, shared')
  BY TruncatedResult
<1>. QED  BY <1>1, <1>2, ResultClear

LEMMA ConnectNextRoundClear ==
  ASSUME IInv, Clear, NEW q \in Queries, ConnectNextRound(q)
  PROVE  Clear'
<1>1. /\ affected' = affected \ {q} /\ UNCHANGED <<head, asked, stream, serial>>
  BY DEF ConnectNextRound
<1>2. InTcp(qry, q) /\ qry[q].status # "VOID" /\ Result(q, Leave(q), affected \cup {q}, shared')
  BY ConnectNextRoundResult
<1>. QED  BY <1>1, <1>2, ResultClear

LEMMA OnTcpReadTimeoutClear ==
  ASSUME IInv, Clear, NEW q \in Queries, OnTcpReadTimeout(q)
  PROVE  Clear'
<1>1. affected' = affected /\ UNCHANGED <<head, asked, stream, serial>> /\ qry[q].status # "VOID"
  BY DEF OnTcpReadTimeout
<1>2. Result(q, Leave(q), affected \cup {q}, shared')
  BY OnTcpReadTimeoutResult
<1>. QED  BY <1>1, <1>2, ResultClear

\* A step in which nobody and nothing moves but connections, which do not come
\* back up.
LEMMA FrameClear ==
  ASSUME IInv, Clear, UNCHANGED <<qry, sd, head, asked, stream, serial, affected>>,
         \A s \in ServerIndex : conn[s] \in {"failed", "down"} => conn'[s] \in {"failed", "down"}
  PROVE  Clear'
<1>1. ASSUME NEW s \in ServerIndex PROVE Orderly(s)' /\ Closed(s)'
  <2>1. Fewer(s)
    BY DEF Fewer, Reads
  <2>2. Orderly(s) /\ Closed(s)
    BY DEF Clear
  <2>. QED  BY <2>1, <2>2, FewerReaders DEF Closed
<1>2. \A p \in Queries : Held(p)'
  BY DEF Clear, Held, BodyOf, Reply
<1>3. OwnIds'
  BY IdsStay DEF Clear
<1>. QED  BY <1>1, <1>2, <1>3 DEF Clear

LEMMA ResolvesClear ==
  ASSUME IInv, Clear, NEW s \in ServerIndex, Resolves(s)
  PROVE  Clear'
<1>1. /\ UNCHANGED <<qry, sd, head, asked, stream, serial, affected>>
      /\ conn[s] = "connecting" /\ \A t \in ServerIndex \ {s} : conn'[t] = conn[t]
  BY DEF Resolves, IInv, Plain, ConnType
<1>2. \A t \in ServerIndex : conn[t] \in {"failed", "down"} => conn'[t] \in {"failed", "down"}
  BY <1>1
<1>. QED  BY <1>1, <1>2, FrameClear

LEMMA QueryDoneNowClear ==
  ASSUME IInv, Clear, NEW q \in Queries, QueryDoneNow(q)
  PROVE  Clear'
<1>1. UNCHANGED <<qry, sd, head, asked, stream, serial, affected, conn>>
  BY DEF QueryDoneNow
<1>. QED  BY <1>1, FrameClear

\* A step at server s that leaves the queries and the other servers alone.
LEMMA AtOneServer ==
  ASSUME IInv, Clear, NEW s \in ServerIndex, UNCHANGED <<qry, serial, affected>>,
         \A t \in ServerIndex \ {s} :
           /\ sd'[t] = sd[t] /\ head'[t] = head[t] /\ asked'[t] = asked[t]
           /\ stream'[t] = stream[t] /\ conn'[t] = conn[t],
         Orderly(s)', Closed(s)'
  PROVE  Clear'
<1>1. ASSUME NEW t \in ServerIndex \ {s} PROVE Orderly(t)' /\ Closed(t)'
  <2>1. Fewer(t)
    BY DEF Fewer, Reads
  <2>2. Orderly(t) /\ Closed(t)
    BY DEF Clear
  <2>3. Closed(t)'
    BY <2>2 DEF Closed
  <2>. QED  BY <2>1, <2>2, <2>3, FewerReaders
<1>2. \A p \in Queries : Held(p)'
  BY DEF Clear, Held, BodyOf, Reply
<1>3. OwnIds'
  BY IdsStay DEF Clear
<1>. QED  BY <1>1, <1>2, <1>3 DEF Clear

\* What is on a connection tells how far the answer has come.
LEMMA WhereItIs ==
  ASSUME IInv, NEW s \in ServerIndex, Orderly(s)
  PROVE  /\ asked[s] # {} => \E id \in 1 .. MaxSubmits : Requested(s, id)
         /\ asked[s] = {} /\ stream[s] = <<>> => Idle(s)
         /\ stream[s] # <<>> => \E id \in 1 .. MaxSubmits :
              \/ \E k \in 0 .. HeadLen - 1 : HeadArrives(s, id, k)
              \/ \E k \in HeadLen .. Total - 1 : BodyArrives(s, id, k)
<1>1. ASSUME NEW id \in 1 .. MaxSubmits, NEW k \in 0 .. Total - 1 PROVE Part(id, k, Total) # <<>>
  <2>1. k \in 0 .. Total /\ Total \in k .. Total /\ Total - k # 0
    BY Lengths
  <2>2. Len(Part(id, k, Total)) = Total - k
    BY <2>1, PartType
  <2>. QED  BY <2>1, <2>2
<1>2. \A k : k \in 0 .. HeadLen - 1 \/ k \in HeadLen .. Total - 1 => k \in 0 .. Total - 1
  BY Lengths
<1>. QED  BY <1>1, <1>2 DEF Orderly, Idle, Requested, HeadArrives, BodyArrives

LEMMA RepliesClear ==
  ASSUME IInv, Clear, NEW s \in ServerIndex, Replies(s)
  PROVE  Clear'
<1>1. PICK id \in asked[s] :
        /\ asked' = [asked EXCEPT ![s] = @ \ {id}]
        /\ stream' = [stream EXCEPT ![s] = @ \o Reply(id)]
  BY DEF Replies
<1>2. UNCHANGED <<qry, serial, affected, sd, head, conn>>
  BY DEF Replies
<1>3. Orderly(s) /\ Closed(s)
  BY DEF Clear
<1>4. id \in 1 .. MaxSubmits /\ Requested(s, id)
  <2>1. PICK other \in 1 .. MaxSubmits : Requested(s, other)
    BY <1>3, WhereItIs
  <2>2. other = id
    BY <2>1 DEF Requested
  <2>. QED  BY <2>1, <2>2
<1>5. asked \in [ServerIndex -> SUBSET (1 .. MaxSubmits)] /\ stream \in [ServerIndex -> Seq(Piece)]
  BY DEF IInv, Plain
<1>6. asked'[s] = {} /\ stream'[s] = Part(id, 0, Total) /\ head'[s] = Part(id, 0, 0)
  <2>1. asked'[s] = {} /\ stream'[s] = <<>> \o Reply(id) /\ head'[s] = <<>>
    BY <1>1, <1>2, <1>4, <1>5 DEF Requested
  <2>2. <<>> \o Reply(id) = Reply(id)
    BY <1>4, ReplyType
  <2>. QED  BY <2>1, <2>2, <1>4, Parts
<1>7. Orderly(s)'
  <2>1. HeadArrives(s, id, 0)'
    BY <1>2, <1>4, <1>6 DEF HeadArrives, Requested, Nobody, Only, Reads, Part, Reply
  <2>2. 0 \in 0 .. HeadLen - 1
    BY Lengths
  <2>. QED  BY <2>1, <2>2, <1>4 DEF Orderly
<1>8. Closed(s)'
  BY <1>2, <1>3, <1>4 DEF Closed, Requested
<1>9. \A t \in ServerIndex \ {s} : asked'[t] = asked[t] /\ stream'[t] = stream[t]
  BY <1>1, <1>5
<1>. QED  BY <1>2, <1>7, <1>8, <1>9, AtOneServer

LEMMA ClosesClear ==
  ASSUME IInv, Clear, NEW s \in ServerIndex, Closes(s)
  PROVE  Clear'
<1>1. /\ conn' = [conn EXCEPT ![s] = "down"] /\ asked' = [asked EXCEPT ![s] = {}]
      /\ UNCHANGED <<qry, serial, affected, sd, head, stream>>
  BY DEF Closes
<1>2. /\ conn'[s] = "down" /\ asked'[s] = {}
      /\ \A t \in ServerIndex \ {s} : conn'[t] = conn[t] /\ asked'[t] = asked[t]
  BY <1>1 DEF IInv, Plain, ConnType
<1>3. Orderly(s) /\ Closed(s)
  BY DEF Clear
<1>4. Orderly(s)'
  <2>1. CASE asked[s] = {}
    <3>1. Fewer(s)
      BY <1>1 DEF Fewer, Reads
    <3>. QED  BY <2>1, <3>1, <1>1, <1>2, <1>3, FewerReaders
  <2>2. CASE asked[s] # {}
    <3>1. PICK id \in 1 .. MaxSubmits : Requested(s, id)
      BY <2>2, <1>3, WhereItIs
    <3>2. Idle(s)'
      BY <3>1, <1>1, <1>2, Lengths DEF Requested, Idle, Nobody, Reads
    <3>. QED  BY <3>2 DEF Orderly
  <2>. QED  BY <2>1, <2>2
<1>5. Closed(s)'
  BY <1>1, <1>2, <1>3 DEF Closed
<1>. QED  BY <1>1, <1>2, <1>4, <1>5, AtOneServer

LEMMA ConnectNextClear ==
  ASSUME IInv, Clear, affected = {}, NEW s \in ServerIndex, NEW received, ConnectNext(s, received),
         aborted' = "no"
  PROVE  Clear'
<1>1. /\ affected' = Users(s)
      /\ sd' = [sd EXCEPT ![s] = 0]
      /\ conn' = [conn EXCEPT ![s] = "none"]
      /\ asked' = [asked EXCEPT ![s] = {}]
      /\ stream' = [stream EXCEPT ![s] = <<>>]
      /\ head' = [head EXCEPT ![s] = received]
      /\ UNCHANGED <<qry, serial>>
  BY DEF ConnectNext, Abort
<1>2. /\ asked'[s] = {} /\ stream'[s] = <<>>
      /\ \A t \in ServerIndex \ {s} :
           /\ sd'[t] = sd[t] /\ head'[t] = head[t] /\ asked'[t] = asked[t]
           /\ stream'[t] = stream[t] /\ conn'[t] = conn[t]
  BY <1>1 DEF IInv, Plain, ConnType, Fits, IoType, Io
<1>3. Nobody(s, "HEAD")' /\ Nobody(s, "BODY")'
  <2>. SUFFICES ASSUME NEW q \in Queries, qry[q].status \in {"HEAD", "BODY"}, qry[q].curr = s
                PROVE  q \in Users(s)
    BY <1>1 DEF Nobody, Reads
  <2>. QED  BY DEF Users, IInv, Scheduled, Stage, TcpStatus
<1>4. Idle(s)'
  BY <1>2, <1>3 DEF Idle
<1>5. ASSUME NEW t \in ServerIndex \ {s} PROVE Orderly(t)' /\ Closed(t)'
  <2>1. Fewer(t)
    BY <1>1 DEF Fewer, Reads
  <2>2. Orderly(t) /\ Closed(t)
    BY DEF Clear
  <2>3. Closed(t)'
    BY <1>2, <2>2 DEF Closed
  <2>. QED  BY <1>2, <2>1, <2>2, <2>3, FewerReaders
<1>6. \A p \in Queries : Held(p)'
  BY <1>1 DEF Clear, Held, BodyOf, Reply
<1>7. OwnIds'
  BY <1>1, IdsStay DEF Clear
<1>. QED  BY <1>2, <1>4, <1>5, <1>6, <1>7 DEF Clear, Orderly, Closed

LEMMA OnTcpConnectedClear ==
  ASSUME IInv, Clear, NEW s \in ServerIndex, OnTcpConnected(s), aborted' = "no"
  PROVE  Clear'
<1>. DEFINE io == WriteInstead(Io, s, Cardinality(Connecters(s)))
<1>1. /\ qry' = [q \in Queries |-> IF q \in Connecters(s)
                                   THEN [qry[q] EXCEPT !.status = "SEND"] ELSE qry[q]]
      /\ SetIo(io)
      /\ UNCHANGED <<head, affected, conn, asked, stream, serial>>
  BY DEF OnTcpConnected, Abort
<1>2. sd' = sd
  <2>1. Cardinality(Connecters(s)) \in Nat /\ Cardinality(Connecters(s)) <= Io.count[s]["connect"]
    <3>1. Connecters(s) = Of(qry, s, "connect") \ {}
      BY WaitingType DEF Connecters, Of, InTcp, TcpStatus
    <3>2. Io.count[s]["connect"] = Cardinality(Connecters(s)) /\ Io.count[s]["connect"] \in Nat
      BY <3>1 DEF IInv, Fits, Counted, Sides, IoType
    <3>. QED  BY <3>2
  <2>2. io.sd = Io.sd
    <3>1. Io \in IoType
      BY DEF IInv, Fits
    <3>. QED  BY <2>1, <3>1, WriteInsteadEffect DEF Turned
  <2>. QED  BY <1>1, <2>2 DEF SetIo, Io
<1>. HIDE DEF io
<1>3. ASSUME NEW p \in Queries
      PROVE  \/ qry'[p] = qry[p]
             \/ qry[p].status = "CONNECT" /\ qry'[p] = [qry[p] EXCEPT !.status = "SEND"]
  BY <1>1 DEF Connecters
<1>4. ASSUME NEW p \in Queries
      PROVE  /\ Held(p)' /\ qry'[p].id = qry[p].id
             /\ qry'[p] = qry[p] \/ qry'[p].status = "SEND"
  <2>1. serial \in Nat /\ serial' \in Nat /\ serial <= serial'
    BY <1>1 DEF IInv, Plain
  <2>2. Held(p) /\ qry[p] \in Query
    BY DEF Clear, IInv, Fits
  <2>3. [qry[p] EXCEPT !.status = "SEND"].status = "SEND"
    BY <2>2 DEF Query
  <2>. QED  BY <1>3, <2>1, <2>2, <2>3, HeldStays
<1>5. ASSUME NEW t \in ServerIndex PROVE Orderly(t)' /\ Closed(t)'
  <2>1. Fewer(t)
    BY <1>1, <1>4 DEF Fewer, Reads
  <2>2. Orderly(t) /\ Closed(t)
    BY DEF Clear
  <2>3. Closed(t)'
    BY <1>1, <1>2, <2>2 DEF Closed
  <2>. QED  BY <1>1, <2>1, <2>2, <2>3, FewerReaders
<1>6. OwnIds'
  BY <1>4, IdsStay DEF Clear
<1>. QED  BY <1>4, <1>5, <1>6 DEF Clear

\* One query changes, and it does not read afterwards.
LEMMA OneLeaves ==
  ASSUME IInv, Clear, NEW q \in Queries, NEW n, qry' = [qry EXCEPT ![q] = n],
         n.status \notin {"HEAD", "BODY"}, NEW s \in ServerIndex,
         UNCHANGED <<affected, sd, conn>>,
         asked'[s] = asked[s], stream'[s] = stream[s], head'[s] = head[s]
  PROVE  Orderly(s)' /\ Closed(s)'
<1>1. qry'[q] = n /\ \A p \in Queries \ {q} : qry'[p] = qry[p]
  BY DEF IInv, Fits
<1>2. Fewer(s)
  BY <1>1 DEF Fewer, Reads
<1>3. Orderly(s) /\ Closed(s)
  BY DEF Clear
<1>4. Closed(s)'
  BY <1>3 DEF Closed
<1>. QED  BY <1>2, <1>3, <1>4, FewerReaders

\* One query changes, and the others hold what they hold.
LEMMA OneHeld ==
  ASSUME IInv, Clear, NEW q \in Queries, NEW n, qry' = [qry EXCEPT ![q] = n],
         serial' \in Nat, serial <= serial', Held(q)',
         n.id = 0 \/ \A p \in Queries \ {q} : qry[p].id # n.id
  PROVE  OwnIds' /\ \A p \in Queries : Held(p)'
<1>1. qry'[q] = n /\ \A p \in Queries \ {q} : qry'[p] = qry[p]
  BY DEF IInv, Fits
<1>2. OwnIds'
  BY <1>1 DEF Clear, OwnIds
<1>3. ASSUME NEW p \in Queries \ {q} PROVE Held(p)'
  <2>1. Held(p) /\ qry[p] \in Query /\ serial \in Nat
    BY DEF Clear, IInv, Fits, Plain
  <2>. QED  BY <1>1, <2>1, HeldStays
<1>. QED  BY <1>2, <1>3

LEMMA SubmitClear ==
  ASSUME IInv, Clear, NEW q \in Queries, Submit(q)
  PROVE  Clear'
<1>. DEFINE t == serial % Servers
            n == [id |-> serial + 1, first |-> t, curr |-> t, retries |-> Retry,
                  search |-> 0, status |-> "UDP", code |-> "VOID", buf |-> FALSE, body |-> <<>>]
<1>1. /\ qry' = [qry EXCEPT ![q] = n] /\ serial' = serial + 1
      /\ UNCHANGED <<sd, head, affected, conn, asked, stream>>
  BY DEF Submit
<1>2. n.id = serial + 1 /\ n.status = "UDP" /\ n.code = "VOID" /\ n.body = <<>>
  OBVIOUS
<1>. HIDE DEF n
<1>3. serial \in Nat /\ qry'[q] = n
  BY <1>1 DEF IInv, Plain, Fits
<1>4. Held(q)'
  BY <1>1, <1>2, <1>3 DEF Held
<1>5. \A p \in Queries \ {q} : qry[p].id # n.id
  BY <1>2, <1>3 DEF Clear, Held
<1>6. OwnIds' /\ \A p \in Queries : Held(p)'
  <2>1. serial' \in Nat /\ serial <= serial'
    BY <1>1, <1>3
  <2>. QED  BY <1>1, <1>4, <1>5, <2>1, OneHeld
<1>7. \A s \in ServerIndex : Orderly(s)' /\ Closed(s)'
  BY <1>1, <1>2, OneLeaves
<1>. QED  BY <1>6, <1>7 DEF Clear

LEMMA BlankedFields ==
  ASSUME NEW A, NEW B, NEW C, NEW D, NEW S, NEW K, NEW U, NEW X,
         NEW r \in [id : A, first : B, curr : B, retries : C, search : D, status : S, code : K,
                   buf : U, body : X]
  PROVE  LET l == [r EXCEPT !.id = 0, !.status = "VOID", !.code = "VOID", !.buf = FALSE,
                            !.body = <<>>] IN
         l.id = 0 /\ l.status = "VOID" /\ l.code = "VOID"
OBVIOUS

LEMMA DeleteClear ==
  ASSUME IInv, Clear, NEW q \in Queries, Delete(q), aborted' = "no"
  PROVE  Clear'
<1>. DEFINE n == [qry[q] EXCEPT !.id = 0, !.status = "VOID", !.code = "VOID", !.buf = FALSE,
                                !.body = <<>>]
            io == IF qry[q].status \in TcpStatus
                  THEN Done(Io, qry[q].curr, Waiting[qry[q].status]) ELSE Io
<1>1. /\ qry' = [qry EXCEPT ![q] = n] /\ SetIo(io)
      /\ UNCHANGED <<head, affected, conn, asked, stream, serial>>
  BY DEF Delete, Abort
<1>2. qry[q] \in Query /\ serial \in Nat
  BY DEF IInv, Fits, Plain
<1>3. n.id = 0 /\ n.status = "VOID" /\ n.code = "VOID"
  BY <1>2, BlankedFields DEF Query
<1>4. sd' = sd
  <2>1. CASE InTcp(qry, q)
    <3>1. io.sd = sd
      BY <2>1, LeavesTcp DEF InTcp
    <3>. QED  BY <1>1, <3>1 DEF SetIo
  <2>2. CASE ~InTcp(qry, q)
    BY <1>1, <2>2 DEF InTcp, SetIo, Io
  <2>. QED  BY <2>1, <2>2
<1>. HIDE DEF n, io
<1>5. qry'[q] = n
  BY <1>1 DEF IInv, Fits
<1>6. Held(q)'
  BY <1>1, <1>2, <1>3, <1>5 DEF Held
<1>7. OwnIds' /\ \A p \in Queries : Held(p)'
  <2>1. serial' \in Nat /\ serial <= serial'
    BY <1>1, <1>2
  <2>. QED  BY <1>1, <1>3, <1>6, <2>1, OneHeld
<1>8. \A s \in ServerIndex : Orderly(s)' /\ Closed(s)'
  BY <1>1, <1>3, <1>4, OneLeaves
<1>. QED  BY <1>7, <1>8 DEF Clear

LEMMA OnTcpWriteClear ==
  ASSUME IInv, Clear, NEW s \in ServerIndex, OnTcpWrite(s), aborted' = "no", ~pipelined'
  PROVE  Clear'
<1>1. affected = {}
  BY DEF OnTcpWrite, Running
<1>2. CASE ConnectNext(s, head[s])
  BY <1>1, <1>2, ConnectNextClear
<1>3. ASSUME NEW q \in Queries, First(queryList, q, WantsToSend), conn[s] \in {"up", "down"},
             LET t == qry[q].curr IN
               /\ SetIo(Want(Done(Io, t, "write"), t, "read"))
               /\ head' = [head EXCEPT ![t] = <<>>]
               /\ pipelined' = (pipelined \/ t # s \/ asked[s] # {} \/ stream[s] # <<>>),
             qry' = [qry EXCEPT ![q].status = "HEAD"],
             asked' = IF conn[s] = "up" THEN [asked EXCEPT ![s] = @ \cup {qry[q].id}] ELSE asked,
             UNCHANGED <<queryList, doneNow, affected, conn, stream, told, serial,
                         shared, aborted>>
      PROVE  Clear'
  <2>. DEFINE n == [qry[q] EXCEPT !.status = "HEAD"]
              mid == Done(Io, s, "write")  new == Want(mid, s, "read")
  <2>1. /\ qry[q].curr = s /\ asked[s] = {} /\ stream[s] = <<>> /\ qry[q].status = "SEND"
        /\ head' = [head EXCEPT ![s] = <<>>] /\ SetIo(new) /\ qry' = [qry EXCEPT ![q] = n]
    BY <1>3 DEF First, WantsToSend
  <2>2. /\ qry[q] \in Query /\ n \in Query /\ n.status = "HEAD" /\ n.id = qry[q].id
        /\ n.curr = s /\ n.code = qry[q].code /\ n.buf = qry[q].buf /\ n.body = qry[q].body
    <3>1. qry[q] \in Query /\ "HEAD" \in TcpStatus
      BY DEF IInv, Fits, TcpStatus
    <3>. QED  BY <2>1, <3>1, StatusType
  <2>3. InTcp(qry, q) /\ Waiting[qry[q].status] = "write" /\ qry[q].id \in 1 .. MaxSubmits
    BY <2>1, WaitingType DEF InTcp, TcpStatus, IInv, Scheduled, Stage
  <2>4. sd' = sd
    <3>1. mid.sd = sd /\ mid \in IoType
      BY <2>1, <2>3, LeavesTcp DEF Fits
    <3>2. new.sd = mid.sd
      BY <3>1, WantEffect DEF Changed, Sides
    <3>. QED  BY <2>1, <3>1, <3>2 DEF SetIo
  <2>. HIDE DEF n, mid, new
  <2>5. qry'[q] = n /\ \A p \in Queries \ {q} : qry'[p] = qry[p]
    BY <2>1 DEF IInv, Fits
  <2>6. Idle(s)
    <3>1. Orderly(s)
      BY DEF Clear
    <3>. QED  BY <2>1, <3>1, WhereItIs
  <2>7. \A p \in Queries \ {q}, t \in ServerIndex, status \in {"HEAD", "BODY"} :
          Reads(p, t, status)' => Reads(p, t, status)
    BY <1>3, <2>5 DEF Reads
  <2>8. Nobody(s, "BODY")' /\ stream'[s] = <<>> /\ head'[s] = <<>>
    <3>1. Nobody(s, "BODY")'
      BY <2>2, <2>5, <2>6, <2>7 DEF Idle, Nobody, Reads
    <3>2. stream'[s] = <<>> /\ head'[s] = <<>>
      BY <1>3, <2>1 DEF IInv, Plain
    <3>. QED  BY <3>1, <3>2
  <2>9. Orderly(s)'
    <3>1. CASE conn[s] = "up"
      <4>. PICK id \in 1 .. MaxSubmits : id = qry[q].id
        BY <2>3
      <4>1. asked'[s] = {id} /\ qry'[q].id = id
        BY <1>3, <2>1, <2>2, <2>5, <3>1 DEF IInv, Plain
      <4>2. \A p \in Queries : ~Reads(p, s, "HEAD")
        BY <2>6, <3>1 DEF Idle, Nobody
      <4>3. Only(s, id)'
        <5>. SUFFICES ASSUME NEW p \in Queries, Reads(p, s, "HEAD")' PROVE qry'[p].id = id
          BY DEF Only
        <5>1. p = q
          BY <2>7, <4>2
        <5>. QED  BY <4>1, <5>1
      <4>4. Requested(s, id)'
        BY <2>8, <4>1, <4>3 DEF Requested
      <4>. QED  BY <4>4 DEF Orderly
    <3>2. CASE conn[s] # "up"
      <4>1. asked'[s] = {} /\ conn'[s] = "down" /\ Len(head'[s]) < HeadLen
        BY <1>3, <2>1, <2>8, <3>2, Lengths
      <4>2. Idle(s)'
        BY <2>8, <4>1 DEF Idle
      <4>. QED  BY <4>2 DEF Orderly
    <3>. QED  BY <3>1, <3>2
  <2>10. Closed(s)'
    <3>1. Io.sd[s] # 0
      BY <1>1, <2>1, <2>3 DEF IInv, Fits, Open
    <3>. QED  BY <2>4, <3>1 DEF Closed, Io
  <2>11. ASSUME NEW t \in ServerIndex \ {s} PROVE Orderly(t)' /\ Closed(t)'
    <3>1. head'[t] = head[t] /\ asked'[t] = asked[t]
      BY <1>3, <2>1 DEF IInv, Plain
    <3>2. ~Reads(q, t, "HEAD")' /\ ~Reads(q, t, "BODY")'
      BY <2>2, <2>5 DEF Reads
    <3>3. Fewer(t)
      BY <2>5, <2>7, <3>2 DEF Fewer
    <3>4. Orderly(t) /\ Closed(t)
      BY DEF Clear
    <3>5. Closed(t)'
      BY <1>3, <2>4, <3>1, <3>4 DEF Closed
    <3>. QED  BY <1>3, <3>1, <3>3, <3>4, <3>5, FewerReaders
  <2>12. OwnIds' /\ \A p \in Queries : Held(p)'
    <3>1. Held(q) /\ serial' = serial /\ serial \in Nat
      BY <1>3 DEF Clear, IInv, Plain
    <3>2. Held(q)'
      BY <2>1, <2>2, <2>5, <3>1 DEF Held, BodyOf, Reply
    <3>3. \A p \in Queries \ {q} : qry[p].id # n.id
      BY <2>2, <2>3 DEF Clear, OwnIds
    <3>4. serial' \in Nat /\ serial <= serial'
      BY <3>1
    <3>. QED  BY <2>1, <3>2, <3>3, <3>4, OneHeld
  <2>. QED  BY <2>9, <2>10, <2>11, <2>12 DEF Clear
<1>. QED  BY <1>2, <1>3 DEF OnTcpWrite, Abort

\* query_done() of a reader with record r.
LEMMA QueryDoneEffect ==
  ASSUME IInv, NEW q \in Queries, InTcp(qry, q), Waiting[qry[q].status] = "read",
         NEW r \in Query, QueryDone(q, r, Done(Io, qry[q].curr, "read"))
  PROVE  /\ conn' = conn /\ sd' = sd
         /\ qry' = [qry EXCEPT ![q] = qry'[q]] /\ qry'[q].id = r.id
         /\ \/ /\ qry'[q].status = "VOID" /\ qry'[q].code = r.code /\ qry'[q].body = r.body
            \/ /\ qry'[q].status = "UDP" /\ qry'[q].code = "VOID" /\ qry'[q].body = <<>>
<1>. DEFINE idle == [r EXCEPT !.status = "VOID"]
            again == [r EXCEPT !.status = "UDP", !.code = "VOID", !.buf = FALSE, !.body = <<>>,
                               !.retries = Retry, !.first = r.curr, !.search = @ + 1]
<1>1. /\ SetIo(Done(Io, qry[q].curr, "read")) /\ conn' = conn
      /\ \/ qry' = [qry EXCEPT ![q] = idle]
         \/ r.search < Suffixes /\ qry' = [qry EXCEPT ![q] = again]
  BY DEF QueryDone
<1>2. idle.status = "VOID" /\ idle.code = r.code /\ idle.body = r.body /\ idle.id = r.id
  BY StatusType
<1>3. ASSUME r.search < Suffixes
      PROVE  again.status = "UDP" /\ again.code = "VOID" /\ again.body = <<>> /\ again.id = r.id
  <2>1. r.search + 1 \in 0 .. Suffixes
    BY <1>3, ConstantsAssumption DEF Query
  <2>. QED  BY <2>1, RestartType
<1>. HIDE DEF idle, again
<1>4. sd' = sd
  <2>1. Done(Io, qry[q].curr, "read").sd = sd
    BY LeavesTcp
  <2>. QED  BY <1>1, <2>1 DEF SetIo
<1>5. qry \in [Queries -> Query]
  BY DEF IInv, Fits
<1>. QED  BY <1>1, <1>2, <1>3, <1>4, <1>5

\* A reader's id tells it from all others.
LEMMA OneReader ==
  ASSUME IInv, Clear, NEW q \in Queries, InTcp(qry, q)
  PROVE  /\ qry[q].id \in 1 .. MaxSubmits
         /\ \A p \in Queries \ {q} : qry[p].id # qry[q].id
<1>1. qry[q].id \in 1 .. MaxSubmits
  BY DEF IInv, Scheduled, Stage, InTcp, TcpStatus
<1>. QED  BY <1>1 DEF Clear, OwnIds

\* Who reads a body is where its answer arrives.
LEMMA BodyReader ==
  ASSUME IInv, Clear, affected = {}, NEW q \in Queries, NEW s \in ServerIndex, ReadsBody(q, s)
  PROVE  /\ qry[q].id \in 1 .. MaxSubmits
         /\ \E k \in HeadLen .. Total - 1 :
              BodyArrives(s, qry[q].id, k) /\ qry[q].body = Part(qry[q].id, HeadLen, k)
<1>1. Reads(q, s, "BODY") /\ InTcp(qry, q)
  BY DEF ReadsBody, Reads, InTcp, TcpStatus
<1>2. Orderly(s)
  BY DEF Clear
<1>3. PICK id \in 1 .. MaxSubmits : \E k \in HeadLen .. Total - 1 : BodyArrives(s, id, k)
  BY <1>1, <1>2 DEF Orderly, Idle, Requested, HeadArrives, Nobody
<1>4. PICK k \in HeadLen .. Total - 1 : BodyArrives(s, id, k)
  BY <1>3
<1>5. qry[q].id = id /\ qry[q].body = Part(id, HeadLen, k)
  BY <1>1, <1>4 DEF BodyArrives
<1>. QED  BY <1>4, <1>5

\* The answer a query reads the body of goes on to the end.
LEMMA RecvTcpBodyClear ==
  ASSUME IInv, Clear, NEW s \in ServerIndex, NEW q \in Queries, RecvTcpBody(s, q), aborted' = "no"
  PROVE  Clear'
<1>1. affected = {} /\ ReadsBody(q, s)
  BY DEF RecvTcpBody, Readable, Running, First
<1>2. CASE ConnectNext(s, head[s])
  BY <1>1, <1>2, ConnectNextClear
<1>3. ASSUME NEW n \in 1 .. BodyLen - Len(qry[q].body), n <= Len(stream[s]),
             stream' = [stream EXCEPT ![s] = Rest(s, n)],
             LET r == [qry[q] EXCEPT !.body = @ \o Received(s, n)] IN
             IF Len(r.body) < BodyLen
             THEN /\ qry' = [qry EXCEPT ![q] = r]
                  /\ UNCHANGED <<sd, count, mon, doneNow, aborted, conn, told>>
             ELSE \E code \in {"OK", "TRUNC"} :
                    QueryDone(q, [r EXCEPT !.code = code], Done(Io, s, "read")),
             UNCHANGED <<queryList, head, affected, asked, serial, shared, pipelined>>
      PROVE  Clear'
  <2>. DEFINE r == [qry[q] EXCEPT !.body = @ \o Received(s, n)]
  <2>1. /\ qry[q].status = "BODY" /\ qry[q].curr = s /\ qry[q] \in Query /\ InTcp(qry, q)
        /\ Waiting[qry[q].status] = "read"
    BY <1>1, WaitingType DEF ReadsBody, InTcp, TcpStatus, IInv, Fits
  <2>2. PICK id \in 1 .. MaxSubmits, k \in HeadLen .. Total - 1 :
          qry[q].id = id /\ BodyArrives(s, id, k) /\ qry[q].body = Part(id, HeadLen, k)
    BY <1>1, BodyReader
  <2>3. /\ k \in 0 .. Total /\ HeadLen \in 0 .. Total /\ k \in HeadLen .. Total
        /\ Len(qry[q].body) = k - HeadLen
    <3>1. /\ k \in 0 .. Total /\ HeadLen \in 0 .. Total /\ k \in HeadLen .. Total
      BY Lengths
    <3>2. Len(Part(id, HeadLen, k)) = k - HeadLen
      BY <3>1, PartType
    <3>. QED  BY <2>2, <3>1, <3>2
  <2>4. n \in 0 .. Total - k /\ n \in 1 .. Total - k /\ k + n \in k .. Total /\ k + n \in HeadLen .. Total
    BY <2>3, Lengths
  <2>5. Received(s, n) = Part(id, k, k + n) /\ Rest(s, n) = Part(id, k + n, Total)
    <3>1. stream[s] = Part(id, k, Total)
      BY <2>2 DEF BodyArrives
    <3>2. /\ SubSeq(Part(id, k, Total), 1, n) = Part(id, k, k + n)
          /\ SubSeq(Part(id, k, Total), n + 1, Len(Part(id, k, Total))) = Part(id, k + n, Total)
      BY <2>3, <2>4, PartSplits
    <3>. QED  BY <3>1, <3>2, Zenon DEF Received, Rest
  <2>6. stream'[s] = Part(id, k + n, Total) /\ head'[s] = head[s] /\ asked'[s] = {}
    BY <1>3, <2>2, <2>5 DEF IInv, Plain, BodyArrives
  <2>7. /\ r \in Query /\ r.status = "BODY" /\ r.id = id /\ r.curr = s
        /\ r.code = qry[q].code /\ r.buf = qry[q].buf /\ r.body = Part(id, HeadLen, k + n)
    <3>1. Part(id, HeadLen, k) \o Part(id, k, k + n) = Part(id, HeadLen, k + n)
      BY <2>3, <2>4, PartsJoin
    <3>2. r.body = Part(id, HeadLen, k + n)
      BY <2>1, <2>2, <2>5, <3>1 DEF Query
    <3>3. Part(id, k, k + n) \in Seq(Piece)
      BY <2>3, <2>4, PartType
    <3>4. r \in Query /\ r.status = qry[q].status /\ r.id = qry[q].id /\ r.curr = qry[q].curr
      BY <2>1, <2>5, <3>3, BodyType
    <3>5. r.code = qry[q].code /\ r.buf = qry[q].buf
      BY <2>1 DEF Query
    <3>. QED  BY <2>1, <2>2, <3>2, <3>4, <3>5
  <2>8. Len(r.body) = (k + n) - HeadLen
    <3>1. Len(Part(id, HeadLen, k + n)) = (k + n) - HeadLen
      BY <2>3, <2>4, PartType
    <3>. QED  BY <2>7, <3>1
  <2>9. \A p \in Queries \ {q} : ~Reads(p, s, "BODY") /\ ~Reads(p, s, "HEAD")
    <3>. SUFFICES ASSUME NEW p \in Queries \ {q}, Reads(p, s, "BODY") PROVE FALSE
      BY <2>2 DEF BodyArrives, Nobody
    <3>1. qry[p].id = qry[q].id
      BY <2>2 DEF BodyArrives
    <3>. QED  BY <3>1, <2>1, OneReader
  <2>10. ASSUME NEW t \in ServerIndex \ {s}, UNCHANGED <<sd, conn>>,
                \A p \in Queries \ {q} : qry'[p] = qry[p], ~Reads(q, t, "HEAD")', ~Reads(q, t, "BODY")'
         PROVE  Orderly(t)' /\ Closed(t)'
    <3>1. stream'[t] = stream[t] /\ head'[t] = head[t] /\ asked'[t] = asked[t]
      BY <1>3 DEF IInv, Plain
    <3>2. Fewer(t)
      BY <1>3, <2>10 DEF Fewer, Reads
    <3>3. Orderly(t) /\ Closed(t)
      BY DEF Clear
    <3>. QED  BY <2>10, <3>1, <3>2, <3>3, FewerReaders DEF Closed
  <2>11. sd[s] # 0
    BY <1>1, <2>1 DEF IInv, Fits, Open, Io
  <2>. HIDE DEF r
  <2>12. CASE /\ Len(r.body) < BodyLen /\ qry' = [qry EXCEPT ![q] = r]
              /\ UNCHANGED <<sd, count, mon, doneNow, aborted, conn, told>>
    <3>1. qry'[q] = r /\ \A p \in Queries \ {q} : qry'[p] = qry[p]
      BY <2>12 DEF IInv, Fits
    <3>2. k + n \in HeadLen .. Total - 1
      BY <2>4, <2>8, <2>12, Lengths
    <3>3. BodyArrives(s, id, k + n)'
      <4>1. ASSUME NEW p \in Queries PROVE ~Reads(p, s, "HEAD")'
        BY <1>3, <2>7, <2>9, <3>1 DEF Reads
      <4>2. ASSUME NEW p \in Queries, Reads(p, s, "BODY")'
            PROVE  qry'[p].id = id /\ qry'[p].body = Part(id, HeadLen, k + n)
        <5>1. p = q
          BY <1>3, <2>9, <3>1, <4>2 DEF Reads
        <5>. QED  BY <2>7, <3>1, <5>1
      <4>3. Len(head'[s]) = HeadLen
        BY <2>2, <2>6 DEF BodyArrives
      <4>. QED  BY <2>6, <4>1, <4>2, <4>3 DEF BodyArrives, Nobody, Part, Reply
    <3>4. \A t \in ServerIndex : Orderly(t)' /\ Closed(t)'
      <4>1. Orderly(s)' /\ Closed(s)'
        BY <2>11, <2>12, <3>2, <3>3 DEF Orderly, Closed
      <4>2. ASSUME NEW t \in ServerIndex \ {s} PROVE ~Reads(q, t, "HEAD")' /\ ~Reads(q, t, "BODY")'
        BY <2>7, <3>1 DEF Reads
      <4>. QED  BY <2>10, <2>12, <3>1, <4>1, <4>2
    <3>5. Held(q)'
      <4>1. Held(q)
        BY DEF Clear
      <4>. QED  BY <1>3, <2>1, <2>2, <2>7, <3>1, <4>1 DEF Held
    <3>6. OwnIds' /\ \A p \in Queries : Held(p)'
      <4>1. serial' \in Nat /\ serial <= serial' /\ \A p \in Queries \ {q} : qry[p].id # r.id
        BY <1>3, <2>1, <2>2, <2>7, OneReader DEF IInv, Plain
      <4>. QED  BY <2>12, <3>5, <4>1, OneHeld
    <3>. QED  BY <3>4, <3>6 DEF Clear
  <2>13. ASSUME ~(Len(r.body) < BodyLen), NEW code \in {"OK", "TRUNC"},
                QueryDone(q, [r EXCEPT !.code = code], Done(Io, s, "read"))
         PROVE  Clear'
    <3>. DEFINE l == [r EXCEPT !.code = code]
    <3>1. l \in Query /\ l.code = code /\ l.id = id /\ l.body = r.body
      <4>1. l \in Query /\ l.code = code /\ l.id = r.id
        <5>1. code \in {"OK", "TRUNC", "FLAGS", "MALLOC"}
          OBVIOUS
        <5>. QED  BY <2>7, <5>1, AnsweredType
      <4>2. l.body = r.body
        BY <2>7 DEF Query
      <4>. QED  BY <2>7, <4>1, <4>2
    <3>2. k + n = Total
      BY <2>4, <2>8, <2>13, Lengths
    <3>3. l.body = BodyOf(id)
      BY <2>7, <3>1, <3>2, Parts
    <3>. HIDE DEF l
    <3>4. /\ conn' = conn /\ sd' = sd
          /\ qry' = [qry EXCEPT ![q] = qry'[q]] /\ qry'[q].id = id
          /\ \/ qry'[q].status = "VOID" /\ qry'[q].code = code /\ qry'[q].body = BodyOf(id)
             \/ qry'[q].status = "UDP" /\ qry'[q].code = "VOID" /\ qry'[q].body = <<>>
      <4>1. QueryDone(q, l, Done(Io, qry[q].curr, "read"))
        BY <2>1, <2>13 DEF l
      <4>. QED  BY <2>1, <3>1, <3>3, <4>1, QueryDoneEffect
    <3>5. \A p \in Queries \ {q} : qry'[p] = qry[p]
      BY <3>4 DEF IInv, Fits
    <3>6. Orderly(s)' /\ Closed(s)'
      <4>1. \A p \in Queries : ~Reads(p, s, "HEAD")' /\ ~Reads(p, s, "BODY")'
        BY <1>3, <2>9, <3>4, <3>5 DEF Reads
      <4>2. stream'[s] = <<>>
        BY <2>6, <3>2, Parts
      <4>3. Idle(s)'
        BY <2>6, <4>1, <4>2 DEF Idle, Nobody
      <4>. QED  BY <2>6, <4>2, <4>3 DEF Orderly, Closed
    <3>7. ASSUME NEW t \in ServerIndex \ {s} PROVE Orderly(t)' /\ Closed(t)'
      <4>1. ~Reads(q, t, "HEAD")' /\ ~Reads(q, t, "BODY")'
        BY <3>4 DEF Reads
      <4>. QED  BY <2>10, <3>4, <3>5, <4>1
    <3>8. Held(q)'
      <4>1. Held(q)
        BY DEF Clear
      <4>2. BodyOf(qry[q].id)' = BodyOf(id)
        BY <3>4 DEF BodyOf, Reply
      <4>. QED  BY <1>3, <2>2, <3>4, <4>1, <4>2 DEF Held
    <3>9. OwnIds' /\ \A p \in Queries : Held(p)'
      <4>1. serial' \in Nat /\ serial <= serial' /\ \A p \in Queries \ {q} : qry[p].id # id
        BY <1>3, <2>1, <2>2, OneReader DEF IInv, Plain
      <4>. QED  BY <3>4, <3>8, <4>1, OneHeld
    <3>. QED  BY <3>6, <3>7, <3>9 DEF Clear
  <2>. QED  BY <1>3, <2>12, <2>13 DEF r
<1>. QED  BY <1>2, <1>3 DEF RecvTcpBody, Abort

\* A head that is awaited is not whole.
LEMMA HeadReader ==
  ASSUME Clear, NEW q \in Queries, NEW t \in ServerIndex, Reads(q, t, "HEAD")
  PROVE  Len(head[t]) < HeadLen
<1>1. Orderly(t)
  BY DEF Clear
<1>2. ASSUME NEW id \in 1 .. MaxSubmits, NEW k \in 0 .. HeadLen - 1, HeadArrives(t, id, k)
      PROVE  Len(head[t]) < HeadLen
  <2>1. 0 \in 0 .. Total /\ k \in 0 .. Total
    BY Lengths
  <2>2. Len(Part(id, 0, k)) = k - 0
    BY <2>1, PartType
  <2>. QED  BY <1>2, <2>2, Lengths DEF HeadArrives
<1>3. ASSUME NEW id \in 1 .. MaxSubmits, Requested(t, id)
      PROVE  Len(head[t]) < HeadLen
  BY <1>3, Lengths DEF Requested
<1>4. CASE Idle(t)
  BY <1>4 DEF Idle, Nobody
<1>5. ASSUME NEW id \in 1 .. MaxSubmits, NEW k \in HeadLen .. Total - 1, BodyArrives(t, id, k)
      PROVE  FALSE
  BY <1>5 DEF BodyArrives, Nobody
<1>. QED  BY <1>1, <1>2, <1>3, <1>4, <1>5 DEF Orderly

LEMMA BodyReaderRecord ==
  ASSUME NEW r \in Query
  PROVE  LET n == [r EXCEPT !.status = "BODY", !.buf = TRUE] IN
         /\ n.id = r.id /\ n.status = "BODY" /\ n.curr = r.curr /\ n.code = r.code
         /\ n.buf = TRUE /\ n.body = r.body
BY DEF Query

\* What becomes of the query whose head has arrived.
LEMMA TakeHeadEffect ==
  ASSUME IInv, Clear, affected = {}, affected' = {}, NEW q \in Queries, NEW s \in ServerIndex,
         TakeHead(q), \A t \in ServerIndex \ {s} : head'[t] = head[t],
         serial' = serial, aborted = "no", aborted' = "no"
  PROVE  /\ Reads(q, qry[q].curr, "HEAD") /\ conn' = conn /\ sd' = sd
         /\ \A p \in Queries \ {q} : qry'[p] = qry[p]
         /\ OwnIds' /\ \A p \in Queries : Held(p)'
         /\ \/ qry'[q].status \in {"VOID", "UDP"}
            \/ /\ qry[q].curr = s /\ qry'[q].status = "BODY" /\ qry'[q].curr = s
               /\ qry'[q].id = qry[q].id /\ qry'[q].body = <<>>
<1>. DEFINE t == qry[q].curr  io == Done(Io, t, "read")
            n == [qry[q] EXCEPT !.status = "BODY", !.buf = TRUE]
<1>1. /\ qry[q].status = "HEAD"
      /\ \/ QueryDone(q, [qry[q] EXCEPT !.code = "FLAGS"], io)
         \/ QueryDone(q, [qry[q] EXCEPT !.code = "MALLOC"], io)
         \/ /\ ~qry[q].buf /\ qry' = [qry EXCEPT ![q] = n]
            /\ SetIo(Want(io, t, "read")) /\ Len(head'[t]) = HeadLen
            /\ conn' = conn
  <2>1. /\ "status of a head reader" # "no" /\ "answer_buf at head" # "no"
        /\ "tcp_head_len at body" # "no"
    OBVIOUS
  <2>. QED  BY <2>1 DEF TakeHead
<1>2. /\ qry[q] \in Query /\ InTcp(qry, q) /\ Waiting[qry[q].status] = "read"
      /\ t \in ServerIndex /\ Reads(q, t, "HEAD")
  BY <1>1, WaitingType, TurnsType DEF InTcp, TcpStatus, IInv, Fits, Reads
<1>3. /\ qry[q].id \in 1 .. MaxSubmits /\ \A p \in Queries \ {q} : qry[p].id # qry[q].id
      /\ serial' \in Nat /\ serial <= serial' /\ Held(q)
  BY <1>2, OneReader DEF IInv, Plain, Clear
<1>4. ASSUME NEW code \in {"FLAGS", "MALLOC"}, QueryDone(q, [qry[q] EXCEPT !.code = code], io)
      PROVE  /\ conn' = conn /\ sd' = sd /\ qry' = [qry EXCEPT ![q] = qry'[q]]
             /\ qry'[q].id = qry[q].id /\ Held(q)' /\ qry'[q].status \in {"VOID", "UDP"}
  <2>. DEFINE r == [qry[q] EXCEPT !.code = code]
  <2>1. r \in Query /\ r.code = code /\ r.id = qry[q].id
    <3>1. code \in {"OK", "TRUNC", "FLAGS", "MALLOC"}
      OBVIOUS
    <3>. QED  BY <1>2, <3>1, AnsweredType
  <2>2. QueryDone(q, r, Done(Io, qry[q].curr, "read"))
    BY <1>4
  <2>. HIDE DEF r
  <2>3. /\ conn' = conn /\ sd' = sd /\ qry' = [qry EXCEPT ![q] = qry'[q]] /\ qry'[q].id = qry[q].id
        /\ \/ qry'[q].status = "VOID" /\ qry'[q].code = code
           \/ qry'[q].status = "UDP" /\ qry'[q].code = "VOID" /\ qry'[q].body = <<>>
    BY <1>2, <2>1, <2>2, QueryDoneEffect
  <2>4. Held(q)'
    BY <1>3, <2>3 DEF Held
  <2>. QED  BY <2>3, <2>4
<1>5. ASSUME ~qry[q].buf, qry' = [qry EXCEPT ![q] = n], SetIo(Want(io, t, "read")),
             Len(head'[t]) = HeadLen
      PROVE  /\ sd' = sd /\ qry' = [qry EXCEPT ![q] = qry'[q]] /\ qry'[q].id = qry[q].id
             /\ Held(q)' /\ t = s /\ qry'[q].status = "BODY" /\ qry'[q].curr = s
             /\ qry'[q].body = <<>>
  <2>1. /\ n.id = qry[q].id /\ n.status = "BODY" /\ n.curr = t /\ n.code = qry[q].code
        /\ n.buf = TRUE /\ n.body = qry[q].body
    BY <1>2, BodyReaderRecord
  <2>2. io \in IoType /\ io.sd = sd
    BY <1>2, LeavesTcp DEF Fits
  <2>3. sd' = sd
    <3>1. Want(io, t, "read").sd = io.sd
      BY <1>2, <2>2, WantEffect DEF Changed, Sides
    <3>. QED  BY <1>5, <2>2, <3>1 DEF SetIo
  <2>4. t = s
    <3>1. Len(head[t]) < HeadLen
      BY <1>2, HeadReader
    <3>. QED  BY <1>2, <1>5, <3>1, Lengths
  <2>. HIDE DEF n
  <2>5. qry'[q] = n
    BY <1>5 DEF IInv, Fits
  <2>6. n.body = <<>>
    BY <1>1, <1>3, <1>5, <2>1 DEF Held
  <2>7. Held(q)'
    BY <1>1, <1>3, <2>1, <2>5, <2>6 DEF Held
  <2>. QED  BY <1>5, <2>1, <2>3, <2>4, <2>5, <2>6, <2>7
<1>. HIDE DEF io, n
<1>6. /\ conn' = conn /\ sd' = sd /\ qry' = [qry EXCEPT ![q] = qry'[q]]
      /\ qry'[q].id = qry[q].id /\ Held(q)'
      /\ \/ qry'[q].status \in {"VOID", "UDP"}
         \/ t = s /\ qry'[q].status = "BODY" /\ qry'[q].curr = s /\ qry'[q].body = <<>>
  BY <1>1, <1>4, <1>5
<1>7. \A p \in Queries \ {q} : qry'[p] = qry[p]
  BY <1>6 DEF IInv, Fits
<1>8. OwnIds' /\ \A p \in Queries : Held(p)'
  BY <1>3, <1>6, OneHeld
<1>. QED  BY <1>2, <1>6, <1>7, <1>8

\* The head of an answer arrives, and its reader takes it.
LEMMA RecvTcpHeadClear ==
  ASSUME IInv, Clear, NEW s \in ServerIndex, RecvTcpHead(s), aborted' = "no"
  PROVE  Clear'
<1>1. affected = {} /\ aborted = "no" /\ \A q \in Queries : ~ReadsBody(q, s)
  BY DEF RecvTcpHead, Readable, Running, NewAnswer
<1>2. CASE ConnectNext(s, head[s])
  BY <1>1, <1>2, ConnectNextClear
<1>3. head \in [ServerIndex -> Seq(Piece)] /\ stream \in [ServerIndex -> Seq(Piece)]
  BY DEF IInv, Plain
<1>4. ASSUME NEW n \in 1 .. HeadLen - Len(head[s]), n <= Len(stream[s])
      PROVE  \E id \in 1 .. MaxSubmits, k \in 0 .. HeadLen - 1 :
               /\ HeadArrives(s, id, k) /\ Len(head[s]) = k /\ k + n \in 0 .. HeadLen
               /\ head[s] \o Received(s, n) = Part(id, 0, k + n)
               /\ Len(head[s] \o Received(s, n)) = k + n
               /\ Rest(s, n) = Part(id, k + n, Total)
  <2>1. stream[s] # <<>> /\ Len(head[s]) # HeadLen
    BY <1>3, <1>4, Lengths
  <2>2. Orderly(s)
    BY DEF Clear
  <2>3. PICK id \in 1 .. MaxSubmits, k \in 0 .. HeadLen - 1 : HeadArrives(s, id, k)
    BY <2>1, <2>2, WhereItIs DEF BodyArrives
  <2>4. 0 \in 0 .. Total /\ k \in 0 .. Total
    BY Lengths
  <2>5. Len(head[s]) = k
    <3>1. Len(Part(id, 0, k)) = k - 0
      BY <2>4, PartType
    <3>. QED  BY <2>3, <3>1 DEF HeadArrives
  <2>6. k + n \in 0 .. HeadLen /\ n \in 0 .. Total - k /\ k + n \in k .. Total /\ k + n \in 0 .. Total
    BY <1>4, <2>5, Lengths
  <2>7. Received(s, n) = Part(id, k, k + n) /\ Rest(s, n) = Part(id, k + n, Total)
    <3>1. stream[s] = Part(id, k, Total)
      BY <2>3 DEF HeadArrives
    <3>2. /\ SubSeq(Part(id, k, Total), 1, n) = Part(id, k, k + n)
          /\ SubSeq(Part(id, k, Total), n + 1, Len(Part(id, k, Total))) = Part(id, k + n, Total)
      BY <2>4, <2>6, PartSplits
    <3>. QED  BY <3>1, <3>2, Zenon DEF Received, Rest
  <2>8. head[s] \o Received(s, n) = Part(id, 0, k + n)
    <3>1. Part(id, 0, k) \o Part(id, k, k + n) = Part(id, 0, k + n)
      BY <2>4, <2>6, PartsJoin
    <3>. QED  BY <2>3, <2>7, <3>1 DEF HeadArrives
  <2>9. Len(head[s] \o Received(s, n)) = k + n
    <3>1. Len(Part(id, 0, k + n)) = (k + n) - 0
      BY <2>4, <2>6, PartType
    <3>. QED  BY <2>6, <2>8, <3>1
  <2>. QED  BY <2>3, <2>5, <2>6, <2>7, <2>8, <2>9
<1>5. ASSUME NEW n \in 1 .. HeadLen - Len(head[s]), n <= Len(stream[s]),
             Len(head[s] \o Received(s, n)) < HeadLen,
             head' = [head EXCEPT ![s] = head[s] \o Received(s, n)],
             stream' = [stream EXCEPT ![s] = Rest(s, n)],
             UNCHANGED <<queryList, qry, sd, count, mon, doneNow, affected, conn,
                         asked, told, serial, shared, pipelined, aborted>>
      PROVE  Clear'
  <2>1. PICK id \in 1 .. MaxSubmits, k \in 0 .. HeadLen - 1 :
          /\ HeadArrives(s, id, k) /\ k + n \in 0 .. HeadLen
          /\ head[s] \o Received(s, n) = Part(id, 0, k + n)
          /\ Len(head[s] \o Received(s, n)) = k + n
          /\ Rest(s, n) = Part(id, k + n, Total)
    BY <1>4, <1>5
  <2>2. /\ head'[s] = Part(id, 0, k + n) /\ stream'[s] = Part(id, k + n, Total)
        /\ \A t \in ServerIndex \ {s} : head'[t] = head[t] /\ stream'[t] = stream[t]
    BY <1>3, <1>5, <2>1
  <2>3. k + n \in 0 .. HeadLen - 1
    BY <1>5, <2>1, Lengths
  <2>4. HeadArrives(s, id, k + n)'
    BY <1>5, <2>1, <2>2 DEF HeadArrives, Nobody, Only, Reads, Part, Reply
  <2>5. Closed(s) /\ stream[s] # <<>>
    BY <1>3, <1>5 DEF Clear
  <2>6. Orderly(s)' /\ Closed(s)'
    BY <1>5, <2>3, <2>4, <2>5 DEF Orderly, Closed
  <2>. QED  BY <1>5, <2>2, <2>6, AtOneServer
<1>6. ASSUME NEW n \in 1 .. HeadLen - Len(head[s]), n <= Len(stream[s]),
             Len(head[s] \o Received(s, n)) = HeadLen,
             head' = [head EXCEPT ![s] = head[s] \o Received(s, n)],
             stream' = [stream EXCEPT ![s] = Rest(s, n)],
             NEW shown \in Shown(head[s] \o Received(s, n)),
             NEW q \in Queries, qry[q].id = shown, TakeHead(q),
             UNCHANGED <<queryList, affected, asked, serial, shared, pipelined>>
      PROVE  Clear'
  <2>1. PICK id \in 1 .. MaxSubmits, k \in 0 .. HeadLen - 1 :
          /\ HeadArrives(s, id, k) /\ k + n \in 0 .. HeadLen
          /\ head[s] \o Received(s, n) = Part(id, 0, k + n)
          /\ Len(head[s] \o Received(s, n)) = k + n
          /\ Rest(s, n) = Part(id, k + n, Total)
    BY <1>4, <1>6
  <2>2. k + n = HeadLen
    BY <1>6, <2>1
  <2>3. /\ head'[s] = Part(id, 0, HeadLen) /\ Len(head'[s]) = HeadLen
        /\ stream'[s] = Part(id, HeadLen, Total)
        /\ \A t \in ServerIndex \ {s} : head'[t] = head[t] /\ stream'[t] = stream[t]
    BY <1>3, <1>6, <2>1, <2>2
  <2>4. qry[q].id = id
    BY <1>6, <2>1, <2>2, HeadShows
  <2>5. affected' = {}
    BY <1>1, <1>6
  <2>6. /\ Reads(q, qry[q].curr, "HEAD") /\ conn' = conn /\ sd' = sd
        /\ \A p \in Queries \ {q} : qry'[p] = qry[p]
        /\ OwnIds' /\ \A p \in Queries : Held(p)'
        /\ \/ qry'[q].status \in {"VOID", "UDP"}
           \/ /\ qry[q].curr = s /\ qry'[q].status = "BODY" /\ qry'[q].curr = s
              /\ qry'[q].id = qry[q].id /\ qry'[q].body = <<>>
    BY <1>1, <1>6, <2>3, <2>5, TakeHeadEffect
  <2>7. InTcp(qry, q) /\ \A p \in Queries \ {q} : ~Reads(p, s, "HEAD") /\ ~Reads(p, s, "BODY")
    <3>1. InTcp(qry, q)
      BY <2>6 DEF Reads, InTcp, TcpStatus
    <3>2. \A p \in Queries \ {q} : qry[p].id # id
      BY <2>4, <3>1, OneReader
    <3>. QED  BY <2>1, <3>1, <3>2 DEF HeadArrives, Nobody, Only
  <2>8. \A p \in Queries \ {q} : ~Reads(p, s, "HEAD")' /\ ~Reads(p, s, "BODY")'
    BY <1>6, <2>6, <2>7 DEF Reads
  <2>9. BodyArrives(s, id, HeadLen)'
    <3>1. asked'[s] = {}
      BY <1>6, <2>1 DEF HeadArrives
    <3>2. ~Reads(q, s, "HEAD")'
      BY <2>6 DEF Reads
    <3>3. Reads(q, s, "BODY")' => qry'[q].id = id /\ qry'[q].body = Part(id, HeadLen, HeadLen)
      BY <2>4, <2>6, Parts DEF Reads
    <3>4. \A p \in Queries : Reads(p, s, "BODY")' =>
            qry'[p].id = id /\ qry'[p].body = Part(id, HeadLen, HeadLen)
      BY <2>8, <3>3
    <3>. QED  BY <2>3, <2>8, <3>1, <3>2, <3>4 DEF BodyArrives, Nobody, Part, Reply
  <2>10. Orderly(s)' /\ Closed(s)'
    <3>1. HeadLen \in HeadLen .. Total - 1
      BY Lengths
    <3>2. Closed(s) /\ stream[s] # <<>>
      BY <1>3, <1>6 DEF Clear
    <3>. QED  BY <2>6, <2>9, <3>1, <3>2 DEF Orderly, Closed
  <2>11. ASSUME NEW t \in ServerIndex \ {s} PROVE Orderly(t)' /\ Closed(t)'
    <3>1. Fewer(t)
      <4>1. ~Reads(q, t, "HEAD")' /\ ~Reads(q, t, "BODY")'
        BY <2>6 DEF Reads
      <4>. QED  BY <1>6, <2>6, <4>1 DEF Fewer, Reads
    <3>2. Orderly(t) /\ Closed(t)
      BY DEF Clear
    <3>3. Closed(t)'
      BY <1>6, <2>3, <2>6, <3>2 DEF Closed
    <3>. QED  BY <1>6, <2>3, <2>6, <3>1, <3>2, <3>3, FewerReaders
  <2>. QED  BY <2>6, <2>10, <2>11 DEF Clear
<1>7. ASSUME NEW n \in 1 .. HeadLen - Len(head[s]), ConnectNext(s, head[s] \o Received(s, n))
      PROVE  Clear'
  BY <1>1, <1>7, ConnectNextClear
<1>. QED  BY <1>1, <1>2, <1>5, <1>6, <1>7 DEF RecvTcpHead, Abort, First

LEMMA InitClear ==
  ASSUME Init
  PROVE  Clear
<1>1. \A q \in Queries : qry[q].status = "VOID" /\ qry[q].id = 0 /\ qry[q].code = "VOID"
  BY DEF Init
<1>2. serial = 0
  BY DEF Init
<1>3. \A s \in ServerIndex : Idle(s) /\ Closed(s)
  BY <1>1 DEF Init, Idle, Closed, Nobody, Reads
<1>4. \A q \in Queries : Held(q)
  BY <1>1, <1>2 DEF Held
<1>5. OwnIds
  BY <1>1 DEF OwnIds
<1>. QED  BY <1>3, <1>4, <1>5 DEF Clear, Orderly

\* No step fills a connection with two answers unless pipelined says so.
LEMMA NextInOrder ==
  ASSUME IInv, InOrder, [Next]_vars
  PROVE  InOrder'
<1>1. CASE UNCHANGED vars
  <2>1. ASSUME Clear PROVE Clear'
    BY <1>1, <2>1, FrameClear DEF vars
  <2>. QED  BY <1>1, <2>1 DEF InOrder, vars
<1>2. CASE Next
  <2>. SUFFICES ASSUME aborted' = "no", ~pipelined' PROVE Clear'
    BY DEF InOrder
  <2>1. ASSUME NEW s \in ServerIndex, OnTcpWrite(s) PROVE ~pipelined
    BY <2>1 DEF OnTcpWrite, ConnectNext, Abort
  <2>2. aborted = "no"
    BY <1>2 DEF Next, Submit, Truncated, Delete, ConnectNextRound, OnTcpReadTimeout, QueryDoneNow,
                Resolves, Replies, Closes, OnTcpConnected, OnTcpConnectFailed, OnTcpWrite,
                ReadForNobody, RecvTcpHead, RecvTcpBody, Readable, Running
  <2>3. ASSUME ~pipelined PROVE Clear
    BY <2>2, <2>3 DEF InOrder
  <2>4. ASSUME NEW q \in Queries, Submit(q) PROVE Clear'
    BY <2>3, <2>4, SubmitClear DEF Submit
  <2>5. ASSUME NEW q \in Queries, Truncated(q) PROVE Clear'
    BY <2>3, <2>5, TruncatedClear DEF Truncated
  <2>6. ASSUME NEW q \in Queries, Delete(q) PROVE Clear'
    BY <2>3, <2>6, DeleteClear DEF Delete, Abort
  <2>7. ASSUME NEW q \in Queries, ConnectNextRound(q) PROVE Clear'
    BY <2>3, <2>7, ConnectNextRoundClear DEF ConnectNextRound
  <2>8. ASSUME NEW q \in Queries, OnTcpReadTimeout(q) PROVE Clear'
    BY <2>3, <2>8, OnTcpReadTimeoutClear DEF OnTcpReadTimeout
  <2>9. ASSUME NEW q \in Queries, QueryDoneNow(q) PROVE Clear'
    BY <2>3, <2>9, QueryDoneNowClear DEF QueryDoneNow
  <2>10. ASSUME NEW s \in ServerIndex, Resolves(s) PROVE Clear'
    BY <2>3, <2>10, ResolvesClear DEF Resolves
  <2>11. ASSUME NEW s \in ServerIndex, Replies(s) PROVE Clear'
    BY <2>3, <2>11, RepliesClear DEF Replies
  <2>12. ASSUME NEW s \in ServerIndex, Closes(s) PROVE Clear'
    BY <2>3, <2>12, ClosesClear DEF Closes
  <2>13. ASSUME NEW s \in ServerIndex, OnTcpConnected(s) PROVE Clear'
    BY <2>3, <2>13, OnTcpConnectedClear DEF OnTcpConnected, Abort
  <2>14. ASSUME NEW s \in ServerIndex, OnTcpConnectFailed(s) PROVE Clear'
    <3>1. affected = {} /\ ConnectNext(s, head[s]) /\ pipelined' = pipelined
      BY <2>14 DEF OnTcpConnectFailed, Running, ConnectNext, Abort
    <3>. QED  BY <2>3, <3>1, ConnectNextClear
  <2>15. ASSUME NEW s \in ServerIndex, OnTcpWrite(s) PROVE Clear'
    BY <2>1, <2>3, <2>15, OnTcpWriteClear
  <2>16. ASSUME NEW s \in ServerIndex, RecvTcpHead(s) PROVE Clear'
    <3>1. pipelined' = pipelined
      BY <2>16 DEF RecvTcpHead, ConnectNext, Abort
    <3>. QED  BY <2>3, <2>16, <3>1, RecvTcpHeadClear
  <2>17. ASSUME NEW s \in ServerIndex, NEW q \in Queries, RecvTcpBody(s, q) PROVE Clear'
    <3>1. pipelined' = pipelined
      BY <2>17 DEF RecvTcpBody, ConnectNext, Abort
    <3>. QED  BY <2>3, <2>17, <3>1, RecvTcpBodyClear
  <2>18. ASSUME NEW s \in ServerIndex PROVE ~ReadForNobody(s)
    BY DEF ReadForNobody, Abort
  <2>. QED
    BY <1>2, <2>4, <2>5, <2>6, <2>7, <2>8, <2>9, <2>10, <2>11, <2>12, <2>13, <2>14, <2>15, <2>16,
       <2>17, <2>18, Zenon DEF Next
<1>. QED  BY <1>1, <1>2

\* A query that has an answer has the whole body of the reply to its own
\* request, as long as no request found an answer still owed.
THEOREM Whole == Spec => []WholeAnswers
<1>1. Init => InOrder
  BY InitClear DEF InOrder
<1>2. IInv /\ InOrder /\ [Next]_vars => InOrder'
  BY NextInOrder
<1>3. InOrder => WholeAnswers
  BY DEF InOrder, Clear, Held, WholeAnswers
<1>. QED  BY <1>1, <1>2, <1>3, Invariance, PTL DEF Spec

=============================================================================
