--------------------------- MODULE RuliUdp_proofs ---------------------------
(***************************************************************************)
(* Proofs about RuliUdp for every number of queries, servers, retries and  *)
(* search suffixes and every mix of address families, provided the         *)
(* application cancels no query that wants to send over TCP or whose       *)
(* finish is scheduled (both go wrong in the code: see the run             *)
(* cancel_finishing and Delete of RuliTcp).                                *)
(***************************************************************************)
EXTENDS RuliUdp, FiniteSetTheorems, TLAPS

Side == [Families -> Waits]

\* The waiters per family in the query table t, and those other than q.
WaitersOf(t, s) ==
  [f \in Families |-> {p \in Queries : t[p].status = s /\ Fam(t[p]) = f}]

Rest(t, q, s) ==
  [f \in Families |-> {p \in Queries \ {q} : t[p].status = s /\ Fam(t[p]) = f}]

\* side counts the sets W and has a descriptor registered for those not empty.
Follows(side, W) ==
  /\ side \in Side
  /\ \A f \in Families : side[f].n = Cardinality(W[f]) /\ (side[f].fd = "none" <=> W[f] = {})

\* t differs from the query table only in q, as far as waiting is concerned.
OnlyMoves(t, q) ==
  \A p \in Queries \ {q} : t[p].status = qry[p].status /\ t[p].curr = qry[p].curr

-----------------------------------------------------------------------------
(* Server rotation.                                                        *)

LEMMA FamType ==
  ASSUME NEW r \in Query
  PROVE  Fam(r) \in Families
BY ConstantsAssumption DEF Fam, Query

LEMMA ModRange ==
  ASSUME NEW i \in Int
  PROVE  i % Servers \in ServerIndex
BY ConstantsAssumption DEF ServerIndex

LEMMA SwitchesLeftType ==
  ASSUME NEW r \in Query
  PROVE  SwitchesLeft(r) \in Nat
<1>1. (r.curr - r.first) % Servers \in ServerIndex
  BY ModRange DEF Query, ServerIndex
<1>2. r.retries * Servers \in Nat
  BY ConstantsAssumption DEF Query
<1>. QED  BY <1>1, <1>2, ConstantsAssumption DEF SwitchesLeft, ServerIndex

LEMMA AtType ==
  ASSUME NEW r \in Query, NEW c \in ServerIndex, NEW n \in Nat
  PROVE  /\ At(r, c, n) \in Query
         /\ At(r, c, n).status = r.status /\ At(r, c, n).code = r.code
BY DEF At, Query

LEMMA SwitchedType ==
  ASSUME NEW r \in Query
  PROVE  Switched(r) \in Query
<1>1. NextOf(r) \in ServerIndex
  BY ModRange DEF NextOf, Query, ServerIndex
<1>. DEFINE n == IF NextOf(r) = r.first /\ r.retries >= 1 THEN r.retries - 1 ELSE r.retries
<1>2. n \in Nat
  BY DEF Query
<1>. HIDE DEF n
<1>3. At(r, NextOf(r), n) \in Query
  BY <1>1, <1>2, AtType
<1>. QED  BY <1>3 DEF Switched, n

LEMMA LaterType ==
  ASSUME NEW r \in Query, NEW l \in Later(r)
  PROVE  /\ l \in Query
         /\ SwitchesLeft(r) - SwitchesLeft(l) \in Nat
<1>1. PICK c \in ServerIndex, n \in 0 .. r.retries : l = At(r, c, n)
  BY DEF Later
<1>2. n \in Nat
  BY DEF Query
<1>3. l \in Query
  BY <1>1, <1>2, AtType
<1>4. SwitchesLeft(l) <= SwitchesLeft(r)
  BY DEF Later
<1>. QED  BY <1>3, <1>4, SwitchesLeftType

-----------------------------------------------------------------------------
(* Counting the waiters of a socket.                                       *)

LEMMA RestFinite ==
  ASSUME NEW t, NEW q, NEW s, NEW f \in Families
  PROVE  IsFiniteSet(Rest(t, q, s)[f]) /\ q \notin Rest(t, q, s)[f]
<1>1. Rest(t, q, s)[f] \subseteq Queries
  BY DEF Rest
<1>. QED  BY <1>1, FS_Subset, ConstantsAssumption DEF Rest

LEMMA AddWaiter ==
  ASSUME NEW side, NEW t, NEW q, NEW s, NEW g \in Families, NEW open,
         Follows(side, Rest(t, q, s))
  PROVE  Follows(Want(side, g, open), [Rest(t, q, s) EXCEPT ![g] = @ \cup {q}])
<1>. DEFINE W == Rest(t, q, s)
<1>. DEFINE V == [W EXCEPT ![g] = @ \cup {q}]
<1>1. W \in [Families -> SUBSET Queries] /\ DOMAIN W = Families
  BY DEF Rest
<1>2. V[g] = W[g] \cup {q} /\ \A f \in Families \ {g} : V[f] = W[f]
  BY <1>1
<1>3. Cardinality(W[g] \cup {q}) = Cardinality(W[g]) + 1
  BY RestFinite, FS_AddElement
<1>4. Want(side, g, open) \in Side
  BY DEF Follows, Side, Waits, Want
<1>5. /\ Want(side, g, open)[g].n = side[g].n + 1
      /\ (side[g].n = 0 => Want(side, g, open)[g].fd # "none")
      /\ (side[g].n # 0 => Want(side, g, open)[g].fd = side[g].fd)
      /\ \A f \in Families \ {g} : Want(side, g, open)[f] = side[f]
  BY DEF Follows, Side, Waits, Want
<1>6. side[g].n = 0 <=> W[g] = {}
  BY RestFinite, FS_EmptySet DEF Follows
<1>7. Want(side, g, open)[g].fd # "none"
  BY <1>5, <1>6 DEF Follows
<1>. HIDE DEF W, V
<1>8. ASSUME NEW f \in Families
      PROVE  Want(side, g, open)[f].n = Cardinality(V[f]) /\ (Want(side, g, open)[f].fd = "none" <=> V[f] = {})
  <2>1. CASE f = g
    BY <2>1, <1>2, <1>3, <1>5, <1>7 DEF Follows, W
  <2>2. CASE f # g
    BY <2>2, <1>2, <1>5 DEF Follows, W
  <2>. QED  BY <2>1, <2>2
<1>. QED  BY <1>4, <1>8 DEF Follows, V, W

LEMMA DropWaiter ==
  ASSUME NEW side, NEW t, NEW q \in Queries, NEW s, NEW g \in Families,
         t[q].status = s, Fam(t[q]) = g, Follows(side, WaitersOf(t, s))
  PROVE  Follows(Done(side, g), Rest(t, q, s))
<1>. DEFINE W == WaitersOf(t, s)
<1>. DEFINE R == Rest(t, q, s)
<1>1. /\ q \in W[g] /\ R[g] = W[g] \ {q}
      /\ \A f \in Families \ {g} : R[f] = W[f]
  BY DEF WaitersOf, Rest
<1>2. IsFiniteSet(W[g])
  <2>1. W[g] \subseteq Queries
    BY DEF WaitersOf
  <2>. QED  BY <2>1, FS_Subset, ConstantsAssumption
<1>3. Cardinality(R[g]) = Cardinality(W[g]) - 1 /\ Cardinality(W[g]) \in Nat
  BY <1>1, <1>2, FS_RemoveElement, FS_CardinalityType
<1>4. Cardinality(R[g]) \in Nat /\ (Cardinality(R[g]) = 0 <=> R[g] = {})
  BY RestFinite, FS_CardinalityType, FS_EmptySet
<1>5. side \in Side /\ side[g].n = Cardinality(W[g]) /\ side[g].fd # "none"
  BY <1>1 DEF Follows
<1>6. /\ Done(side, g)[g].n = side[g].n - 1
      /\ Done(side, g)[g].fd = (IF side[g].n = 1 THEN "none" ELSE side[g].fd)
      /\ \A f \in Families \ {g} : Done(side, g)[f] = side[f]
      /\ DOMAIN Done(side, g) = Families
  BY <1>5 DEF Side, Waits, Done
<1>. HIDE DEF W, R
<1>7. Done(side, g) \in Side
  BY <1>3, <1>4, <1>5 DEF Side, Waits, Done
<1>8. ASSUME NEW f \in Families
      PROVE  Done(side, g)[f].n = Cardinality(R[f]) /\ (Done(side, g)[f].fd = "none" <=> R[f] = {})
  <2>1. CASE f = g
    <3>1. Done(side, g)[g].n = Cardinality(R[g])
      BY <1>3, <1>5, <1>6
    <3>2. side[g].n # 1 <=> R[g] # {}
      BY <1>3, <1>4, <1>5
    <3>. QED  BY <2>1, <3>1, <3>2, <1>5, <1>6
  <2>2. CASE f # g
    BY <2>2, <1>1, <1>6 DEF Follows, W
  <2>. QED  BY <2>1, <2>2
<1>. QED  BY <1>7, <1>8 DEF Follows, R

LEMMA NoWaiter ==
  ASSUME NEW t, NEW q \in Queries, NEW s, t[q].status # s
  PROVE  WaitersOf(t, s) = Rest(t, q, s)
BY DEF WaitersOf, Rest

LEMMA RestKept ==
  ASSUME NEW t, NEW q \in Queries, NEW s, OnlyMoves(t, q)
  PROVE  Rest(t, q, s) = Rest(qry, q, s)
BY DEF OnlyMoves, Rest, Fam

LEMMA NewWaiter ==
  ASSUME NEW side, NEW t, NEW q \in Queries, NEW s, NEW open, OnlyMoves(t, q),
         t[q].status = s, Fam(t[q]) \in Families,
         Follows(side, Rest(qry, q, s))
  PROVE  Follows(Want(side, Fam(t[q]), open), WaitersOf(t, s))
<1>1. WaitersOf(t, s) = [Rest(t, q, s) EXCEPT ![Fam(t[q])] = @ \cup {q}]
  BY DEF WaitersOf, Rest
<1>2. Rest(t, q, s) = Rest(qry, q, s)
  BY RestKept
<1>3. Follows(Want(side, Fam(t[q]), open), [Rest(t, q, s) EXCEPT ![Fam(t[q])] = @ \cup {q}])
  BY <1>2, AddWaiter
<1>. QED  BY <1>1, <1>3

-----------------------------------------------------------------------------
(* The operators the handlers share.                                       *)

\* A step moves no query but q and leaves the writers in order.
MovesOnly(q) ==
  /\ qry' \in [Queries -> Query]
  /\ OnlyMoves(qry', q) /\ \A p \in Queries \ {q} : qry'[p].code = qry[p].code
  /\ Follows(wr', WaitersOf(qry', "UDP_WANT_SEND"))

\* The application is not called back.
SameView ==
  /\ app' \in [Queries -> View]
  /\ \A p \in Queries : app'[p].told = app[p].told /\ app'[p].use = app[p].use

\* The application is called back for q.
Tells(q) ==
  /\ app' \in [Queries -> View]
  /\ app'[q].told = app[q].told + 1
  /\ \A p \in Queries \ {q} : app'[p] = app[p]
  /\ app'[q].use = app[q].use

LEMMA StatusType ==
  ASSUME NEW r \in Query, NEW s \in {"VOID"} \cup UdpStatus \cup TcpStatus
  PROVE  /\ [r EXCEPT !.status = s] \in Query
         /\ [r EXCEPT !.status = s].status = s
         /\ [r EXCEPT !.status = s].code = r.code
         /\ Fam([r EXCEPT !.status = s]) = Fam(r)
BY DEF Query, Fam

LEMMA CodeType ==
  ASSUME NEW r \in Query, NEW c \in Code
  PROVE  /\ [r EXCEPT !.code = c] \in Query
         /\ [r EXCEPT !.code = c].code = c
         /\ [r EXCEPT !.code = c].status = r.status
BY DEF Query

LEMMA TurnsType ==
  ASSUME NEW v \in View, NEW n \in Nat
  PROVE  /\ [v EXCEPT !.turns = n] \in View
         /\ [v EXCEPT !.turns = n].told = v.told
         /\ [v EXCEPT !.turns = n].use = v.use
BY DEF View

LEMMA TurnsView ==
  ASSUME app \in [Queries -> View], NEW q \in Queries, NEW n \in Nat,
         app' = [app EXCEPT ![q].turns = n]
  PROVE  SameView
<1>1. app' = [app EXCEPT ![q] = [app[q] EXCEPT !.turns = n]]
  OBVIOUS
<1>. QED  BY <1>1, TurnsType DEF SameView

LEMMA BecomesWriter ==
  ASSUME qry \in [Queries -> Query], NEW q \in Queries, NEW r \in Query, NEW w, NEW open,
         Follows(w, Rest(qry, q, "UDP_WANT_SEND")),
         qry' = [qry EXCEPT ![q] = [r EXCEPT !.status = "UDP_WANT_SEND"]],
         wr' = Want(w, Fam(r), open)
  PROVE  MovesOnly(q) /\ qry'[q].status = "UDP_WANT_SEND"
<1>. DEFINE v == [r EXCEPT !.status = "UDP_WANT_SEND"]
<1>1. v \in Query /\ v.status = "UDP_WANT_SEND" /\ Fam(v) = Fam(r) /\ Fam(r) \in Families
  BY StatusType, FamType DEF UdpStatus
<1>. HIDE DEF v
<1>2. qry' = [qry EXCEPT ![q] = v]
  BY DEF v
<1>3. /\ qry' \in [Queries -> Query] /\ qry'[q] = v
      /\ \A p \in Queries \ {q} : qry'[p] = qry[p]
  BY <1>1, <1>2
<1>4. OnlyMoves(qry', q)
  BY <1>3 DEF OnlyMoves
<1>5. Follows(Want(w, Fam(qry'[q]), open), WaitersOf(qry', "UDP_WANT_SEND"))
  BY <1>1, <1>3, <1>4, NewWaiter
<1>. QED  BY <1>1, <1>3, <1>4, <1>5 DEF MovesOnly

LEMMA BecomesOther ==
  ASSUME qry \in [Queries -> Query], NEW q \in Queries, NEW r \in Query, NEW w,
         r.status # "UDP_WANT_SEND",
         Follows(w, Rest(qry, q, "UDP_WANT_SEND")),
         qry' = [qry EXCEPT ![q] = r],
         wr' = w
  PROVE  MovesOnly(q) /\ qry'[q] = r
<1>1. /\ qry' \in [Queries -> Query] /\ qry'[q] = r
      /\ \A p \in Queries \ {q} : qry'[p] = qry[p]
  OBVIOUS
<1>2. OnlyMoves(qry', q)
  BY <1>1 DEF OnlyMoves
<1>3. Rest(qry', q, "UDP_WANT_SEND") = Rest(qry, q, "UDP_WANT_SEND")
  BY <1>2, RestKept
<1>4. WaitersOf(qry', "UDP_WANT_SEND") = Rest(qry', q, "UDP_WANT_SEND")
  BY <1>1, NoWaiter
<1>. QED  BY <1>1, <1>2, <1>3, <1>4 DEF MovesOnly

LEMMA SwitchElse ==
  ASSUME TypeOK, NEW q \in Queries, NEW code \in GiveUpCode, NEW w,
         Follows(w, Rest(qry, q, "UDP_WANT_SEND")),
         SwitchElseScheduleFinish(q, code, w)
  PROVE  /\ MovesOnly(q) /\ SameView
         /\ \/ qry'[q].status = "UDP_WANT_SEND" /\ doneNow' = doneNow
            \/ /\ qry'[q].status = "VOID" /\ qry'[q].code = code
               /\ doneNow' = doneNow \cup {q}
<1>. DEFINE r == Switched(qry[q])
<1>1. r \in Query /\ qry \in [Queries -> Query] /\ app \in [Queries -> View]
  BY SwitchedType DEF TypeOK
<1>. HIDE DEF r
<1>2. CASE MaySwitch(qry[q])
  <2>1. /\ qry' = [qry EXCEPT ![q] = [r EXCEPT !.status = "UDP_WANT_SEND"]]
        /\ wr' = Want(w, Fam(r), sock) /\ doneNow' = doneNow
        /\ app' = [app EXCEPT ![q].turns = app[q].turns + 1]
    BY <1>2 DEF SwitchElseScheduleFinish, r
  <2>2. app[q].turns + 1 \in Nat
    BY <1>1 DEF View
  <2>. QED  BY <1>1, <2>1, <2>2, BecomesWriter, TurnsView
<1>3. CASE ~MaySwitch(qry[q])
  <2>. DEFINE u == [r EXCEPT !.status = "VOID"]
  <2>. DEFINE v == [u EXCEPT !.code = code]
  <2>1. /\ qry' = [qry EXCEPT ![q] = v] /\ wr' = w
        /\ doneNow' = doneNow \cup {q} /\ app' = app
    BY <1>3 DEF SwitchElseScheduleFinish, r
  <2>2. u \in Query /\ u.status = "VOID"
    BY <1>1, StatusType
  <2>. HIDE DEF u
  <2>3. code \in Code
    BY DEF Code
  <2>4. v \in Query /\ v.status = "VOID" /\ v.code = code
    BY <2>2, <2>3, CodeType
  <2>. HIDE DEF v
  <2>5. MovesOnly(q) /\ qry'[q] = v
    BY <1>1, <2>1, <2>4, BecomesOther
  <2>. QED  BY <1>1, <2>1, <2>4, <2>5 DEF SameView
<1>. QED  BY <1>2, <1>3

LEMMA CallbackTells ==
  ASSUME TypeOK, NEW q \in Queries, NEW r \in Query, NEW a \in [Queries -> View],
         \A p \in Queries \ {q} : a[p] = app[p],
         a[q].told = app[q].told, a[q].use = app[q].use,
         r.status = "VOID",
         Follows(wr, Rest(qry, q, "UDP_WANT_SEND")),
         Callback(q, r, a)
  PROVE  MovesOnly(q) /\ qry'[q] = r /\ Tells(q) /\ sock' = sock
<1>1. qry' = [qry EXCEPT ![q] = r] /\ wr' = wr /\ sock' = sock
      /\ app' = [a EXCEPT ![q] = [a[q] EXCEPT !.told = a[q].told + 1]]
  BY DEF Callback
<1>2. MovesOnly(q) /\ qry'[q] = r
  BY <1>1, BecomesOther DEF TypeOK
<1>3. [a[q] EXCEPT !.told = a[q].told + 1] \in View
      /\ [a[q] EXCEPT !.told = a[q].told + 1].told = a[q].told + 1
      /\ [a[q] EXCEPT !.told = a[q].told + 1].use = a[q].use
  BY DEF View
<1>4. Tells(q)
  BY <1>1, <1>3 DEF Tells
<1>. QED  BY <1>1, <1>2, <1>4

LEMMA StartWrites ==
  ASSUME TypeOK, NEW q \in Queries, NEW r \in Query, NEW a \in [Queries -> View],
         Follows(wr, Rest(qry, q, "UDP_WANT_SEND")),
         StartQuery(q, r, a)
  PROVE  /\ MovesOnly(q) /\ qry'[q].status = "UDP_WANT_SEND"
         /\ sock' \subseteq Families
         /\ app' \in [Queries -> View]
         /\ \A p \in Queries : app'[p].told = a[p].told /\ app'[p].use = a[p].use
<1>1. MovesOnly(q) /\ qry'[q].status = "UDP_WANT_SEND"
  BY BecomesWriter DEF StartQuery, TypeOK
<1>2. sock' \subseteq Families
  BY FamType DEF StartQuery, TypeOK
<1>3. app' = [a EXCEPT ![q] = [a[q] EXCEPT !.turns = 1]]
  BY DEF StartQuery
<1>. QED  BY <1>1, <1>2, <1>3, TurnsType

LEMMA MissType ==
  ASSUME NEW r \in Query, r.status = "VOID"
  PROVE  /\ [r EXCEPT !.search = @ + 1] \in Query
         /\ [r EXCEPT !.search = @ + 1].status = "VOID"
BY DEF Query

LEMMA AgainType ==
  ASSUME NEW r \in Query, NEW s \in ServerIndex, r.status = "VOID"
  PROVE  /\ [r EXCEPT !.code = "VOID", !.retries = Retry, !.first = s] \in Query
         /\ [r EXCEPT !.code = "VOID", !.retries = Retry, !.first = s].status = "VOID"
BY ConstantsAssumption DEF Query, Code

LEMMA QueryDoneStep ==
  ASSUME TypeOK, NEW q \in Queries, NEW r \in Query, NEW miss,
         NEW a \in [Queries -> View],
         \A p \in Queries \ {q} : a[p] = app[p],
         a[q].told = app[q].told, a[q].use = app[q].use,
         r.status = "VOID",
         Follows(wr, Rest(qry, q, "UDP_WANT_SEND")),
         QueryDone(q, r, miss, a)
  PROVE  /\ MovesOnly(q) /\ sock' \subseteq Families
         /\ \/ Tells(q) /\ qry'[q].status = "VOID"
            \/ SameView /\ qry'[q].status = "UDP_WANT_SEND"
<1>. DEFINE next == [r EXCEPT !.search = @ + 1]
<1>. DEFINE over == [next EXCEPT !.code = "CONCAT"]
<1>. DEFINE again == [next EXCEPT !.code = "VOID", !.retries = Retry, !.first = r.curr]
<1>. DEFINE failed == [again EXCEPT !.code = "LAUNCH"]
<1>1. \/ Callback(q, r, a)
      \/ Callback(q, over, a)
      \/ StartQuery(q, again, a)
      \/ Callback(q, failed, a)
  BY DEF QueryDone
<1>2. next \in Query /\ next.status = "VOID"
  BY MissType
<1>3. r.curr \in ServerIndex
  BY DEF Query
<1>. HIDE DEF next
<1>4. again \in Query /\ again.status = "VOID"
  BY <1>2, <1>3, AgainType
<1>. HIDE DEF again
<1>5. {"CONCAT", "LAUNCH"} \subseteq Code
  BY DEF Code, AnswerCode
<1>6. over \in Query /\ over.status = "VOID"
  BY <1>2, <1>5, CodeType
<1>7. failed \in Query /\ failed.status = "VOID"
  BY <1>4, <1>5, CodeType
<1>. HIDE DEF over, failed
<1>8. sock \subseteq Families
  BY DEF TypeOK
<1>9. ASSUME NEW v \in Query, v.status = "VOID", Callback(q, v, a)
      PROVE  MovesOnly(q) /\ sock' \subseteq Families /\ Tells(q) /\ qry'[q].status = "VOID"
  BY <1>8, <1>9, CallbackTells
<1>10. CASE StartQuery(q, again, a)
  BY <1>4, <1>10, StartWrites DEF SameView
<1>. QED  BY <1>1, <1>6, <1>7, <1>9, <1>10

\* What TcpMove() does, the writers being left alone.
LEMMA TcpMoveStep ==
  ASSUME TypeOK, NEW q \in Queries, NEW r \in Query, NEW code \in GiveUpCode,
         Follows(wr, Rest(qry, q, "UDP_WANT_SEND")), wr' = wr,
         TcpMove(q, r, code)
  PROVE  /\ MovesOnly(q) /\ SameView
         /\ \/ qry'[q].status \in TcpStatus /\ doneNow' = doneNow
            \/ /\ qry'[q].status = "VOID" /\ qry'[q].code = code
               /\ doneNow' = doneNow \cup {q}
<1>1. qry \in [Queries -> Query] /\ app \in [Queries -> View]
  BY DEF TypeOK
<1>2. app[q].turns \in Nat
  BY <1>1 DEF View
<1>3. ASSUME NEW l \in Later(r), NEW s \in TcpStatus,
             qry' = [qry EXCEPT ![q] = [l EXCEPT !.status = s]],
             app' = [app EXCEPT ![q].turns = app[q].turns + SwitchesLeft(r) - SwitchesLeft(l)],
             doneNow' = doneNow
      PROVE  MovesOnly(q) /\ SameView /\ qry'[q].status \in TcpStatus /\ doneNow' = doneNow
  <2>. DEFINE v == [l EXCEPT !.status = s]
  <2>1. l \in Query /\ SwitchesLeft(r) - SwitchesLeft(l) \in Nat /\ SwitchesLeft(r) \in Nat
        /\ SwitchesLeft(l) \in Nat
    BY LaterType, SwitchesLeftType
  <2>2. v \in Query /\ v.status = s /\ s # "UDP_WANT_SEND"
    BY <2>1, StatusType DEF TcpStatus
  <2>. HIDE DEF v
  <2>3. MovesOnly(q) /\ qry'[q] = v
    BY <1>1, <1>3, <2>2, BecomesOther DEF v
  <2>4. app[q].turns + SwitchesLeft(r) - SwitchesLeft(l) \in Nat
    BY <1>2, <2>1
  <2>5. SameView
    BY <1>1, <1>3, <2>4, TurnsView
  <2>. QED  BY <1>3, <2>2, <2>3, <2>5
<1>4. ASSUME qry' = [qry EXCEPT ![q] = [Exhausted(r) EXCEPT !.status = "VOID", !.code = code]],
             app' = [app EXCEPT ![q].turns = app[q].turns + SwitchesLeft(r)],
             doneNow' = doneNow \cup {q}
      PROVE  /\ MovesOnly(q) /\ SameView
             /\ qry'[q].status = "VOID" /\ qry'[q].code = code
  <2>. DEFINE e == Exhausted(r)
  <2>. DEFINE u == [e EXCEPT !.status = "VOID"]
  <2>. DEFINE v == [u EXCEPT !.code = code]
  <2>1. e \in Query
    BY AtType DEF Exhausted, Query
  <2>. HIDE DEF e
  <2>2. u \in Query /\ u.status = "VOID"
    BY <2>1, StatusType
  <2>. HIDE DEF u
  <2>3. v \in Query /\ v.status = "VOID" /\ v.code = code
    BY <2>2, CodeType DEF Code
  <2>. HIDE DEF v
  <2>4. qry' = [qry EXCEPT ![q] = v]
    BY <1>4 DEF v, u, e
  <2>5. MovesOnly(q) /\ qry'[q] = v
    BY <1>1, <2>3, <2>4, BecomesOther
  <2>6. app[q].turns + SwitchesLeft(r) \in Nat
    BY <1>2, SwitchesLeftType
  <2>7. SameView
    BY <1>1, <1>4, <2>6, TurnsView
  <2>. QED  BY <2>3, <2>5, <2>7
<1>. QED  BY <1>3, <1>4 DEF TcpMove
-----------------------------------------------------------------------------
(* The inductive invariant: two of the properties, said per socket side and *)
(* per query so that a step has to answer for one query only, and that a    *)
(* query is pending exactly while it waits somewhere or is to finish.       *)

InOrder(q) ==
  /\ q \in timers <=> qry[q].status = "UDP_WANT_RECV"
  /\ q \in doneNow =>
       qry[q].status = "VOID" /\ qry[q].code \in GiveUpCode /\ app[q].use = "held"
  /\ (app[q].use = "held" /\ app[q].told = 0) <=> (qry[q].status # "VOID" \/ q \in doneNow)

IInv ==
  /\ TypeOK
  /\ Follows(wr, WaitersOf(qry, "UDP_WANT_SEND"))
  /\ Follows(rd, WaitersOf(qry, "UDP_WANT_RECV"))
  /\ \A q \in Queries : InOrder(q)

\* The properties the runs check follow from the inductive invariant.
LEMMA IInvMeans ==
  ASSUME IInv
  PROVE  TypeOK /\ MonitorsMatchWaiters /\ TimersMatchWaits
<1>1. \A s : \A f \in Families : WaitersOf(qry, s)[f] = Waiters(s, f)
  BY DEF WaitersOf, Waiters
<1>2. MonitorsMatchWaiters
  BY <1>1 DEF IInv, Follows, MonitorsMatchWaiters, Tracks
<1>3. TimersMatchWaits
  BY DEF IInv, InOrder, TimersMatchWaits, TypeOK
<1>. QED  BY <1>2, <1>3 DEF IInv

\* A step that moves q alone and leaves q in order preserves the invariant.
LEMMA StepAt ==
  ASSUME IInv, NEW q \in Queries,
         up' \in BOOLEAN, queryList' \in Seq(Queries),
         nextServer' \in ServerIndex, nextQueryId' \in Nat,
         sock' \subseteq Families, wire' \subseteq Request, serial' \in Nat,
         timers' \subseteq Queries, doneNow' \subseteq Queries,
         app' \in [Queries -> View],
         MovesOnly(q), Follows(rd', WaitersOf(qry', "UDP_WANT_RECV")),
         \A p \in Queries \ {q} :
           /\ p \in timers' <=> p \in timers
           /\ p \in doneNow' <=> p \in doneNow
           /\ app'[p].told = app[p].told /\ app'[p].use = app[p].use,
         InOrder(q)'
  PROVE  IInv'
<1>1. TypeOK'
  BY DEF TypeOK, MovesOnly, Follows, Side
<1>2. ASSUME NEW p \in Queries
      PROVE  InOrder(p)'
  <2>1. CASE p = q
    BY <2>1
  <2>2. CASE p # q
    BY <2>2 DEF IInv, InOrder, MovesOnly, OnlyMoves
  <2>. QED  BY <2>1, <2>2
<1>. QED  BY <1>1, <1>2 DEF IInv, MovesOnly

\* The readers' side, when q is no reader before or after the step, and when
\* it stops being one.
LEMMA ReadersKept ==
  ASSUME IInv, NEW q \in Queries, MovesOnly(q), rd' = rd,
         qry[q].status # "UDP_WANT_RECV", qry'[q].status # "UDP_WANT_RECV"
  PROVE  Follows(rd', WaitersOf(qry', "UDP_WANT_RECV"))
<1>1. WaitersOf(qry, "UDP_WANT_RECV") = Rest(qry, q, "UDP_WANT_RECV")
  BY NoWaiter
<1>2. WaitersOf(qry', "UDP_WANT_RECV") = Rest(qry', q, "UDP_WANT_RECV")
  BY NoWaiter
<1>3. Rest(qry', q, "UDP_WANT_RECV") = Rest(qry, q, "UDP_WANT_RECV")
  BY RestKept DEF MovesOnly
<1>. QED  BY <1>1, <1>2, <1>3 DEF IInv

LEMMA ReaderLeaves ==
  ASSUME IInv, NEW q \in Queries, MovesOnly(q), rd' = Done(rd, Fam(qry[q])),
         qry[q].status = "UDP_WANT_RECV", qry'[q].status # "UDP_WANT_RECV"
  PROVE  Follows(rd', WaitersOf(qry', "UDP_WANT_RECV"))
<1>1. Fam(qry[q]) \in Families
  BY FamType DEF IInv, TypeOK
<1>2. Follows(rd', Rest(qry, q, "UDP_WANT_RECV"))
  BY <1>1, DropWaiter DEF IInv
<1>3. WaitersOf(qry', "UDP_WANT_RECV") = Rest(qry', q, "UDP_WANT_RECV")
  BY NoWaiter
<1>4. Rest(qry', q, "UDP_WANT_RECV") = Rest(qry, q, "UDP_WANT_RECV")
  BY RestKept DEF MovesOnly
<1>. QED  BY <1>2, <1>3, <1>4

\* The writers other than q, when q is no writer and when it stops being one.
LEMMA OtherWriters ==
  ASSUME IInv, NEW q \in Queries, qry[q].status # "UDP_WANT_SEND"
  PROVE  Follows(wr, Rest(qry, q, "UDP_WANT_SEND"))
BY NoWaiter DEF IInv

LEMMA WriterLeaves ==
  ASSUME IInv, NEW q \in Queries, qry[q].status = "UDP_WANT_SEND"
  PROVE  Follows(Done(wr, Fam(qry[q])), Rest(qry, q, "UDP_WANT_SEND"))
<1>1. Fam(qry[q]) \in Families
  BY FamType DEF IInv, TypeOK
<1>. QED  BY <1>1, DropWaiter DEF IInv

-----------------------------------------------------------------------------
(* One lemma per action.                                                   *)

LEMMA InitIInv == Init => IInv
<1>. SUFFICES ASSUME Init PROVE IInv
  OBVIOUS
<1>1. 0 \in ServerIndex
  BY ConstantsAssumption DEF ServerIndex
<1>2. qry \in [Queries -> Query] /\ \A q \in Queries : qry[q].status = "VOID"
  BY <1>1 DEF Init, Query, Code
<1>3. app \in [Queries -> View] /\ \A q \in Queries : app[q].use = "free"
  BY DEF Init, View
<1>4. wr \in Side /\ rd \in Side
  BY DEF Init, Side, Waits
<1>5. TypeOK
  BY <1>1, <1>2, <1>3, <1>4 DEF Init, TypeOK, Side
<1>6. ASSUME NEW s \in UdpStatus, NEW f \in Families
      PROVE  WaitersOf(qry, s)[f] = {}
  BY <1>2 DEF WaitersOf, UdpStatus
<1>7. Cardinality({}) = 0
  BY FS_EmptySet
<1>8. ASSUME NEW s \in UdpStatus
      PROVE  Follows(wr, WaitersOf(qry, s)) /\ Follows(rd, WaitersOf(qry, s))
  BY <1>4, <1>6, <1>7 DEF Follows, Init
<1>9. \A q \in Queries : InOrder(q)
  BY <1>2, <1>3 DEF Init, InOrder
<1>. QED  BY <1>5, <1>8, <1>9 DEF IInv, UdpStatus

LEMMA SubmitKeeps ==
  ASSUME IInv, NEW q \in Queries, Submit(q)
  PROVE  IInv'
<1>. DEFINE r == [resolver |-> TRUE, index |-> Len(queryList), id |-> nextQueryId,
                  first |-> nextServer, curr |-> nextServer, retries |-> Retry,
                  search |-> 0, status |-> "VOID", code |-> "VOID"]
<1>. DEFINE v == [use |-> "held", told |-> 0, serial |-> serial + 1,
                  heard |-> 0, turns |-> 0]
<1>. DEFINE a == [app EXCEPT ![q] = v]
<1>. DEFINE u == IF ForgetsFailed THEN "free" ELSE "failed"
<1>1. TypeOK
  BY DEF IInv
<1>2. qry[q].status = "VOID" /\ q \notin timers /\ q \notin doneNow
  BY DEF IInv, InOrder, Submit
<1>3. r \in Query /\ r.status = "VOID"
  BY <1>1, ConstantsAssumption DEF Query, TypeOK, Code
<1>4. v \in View /\ v.use = "held" /\ v.told = 0
  BY <1>1 DEF View, TypeOK
<1>5. [v EXCEPT !.use = u] \in View /\ [v EXCEPT !.use = u].use # "held"
  BY <1>4 DEF View
<1>6. /\ queryList' = Append(queryList, q)
      /\ nextQueryId' = (nextQueryId + 1) % IdSpace
      /\ nextServer' = (nextServer + 1) % Servers
      /\ serial' = serial + 1
      /\ \/ StartQuery(q, r, a)
         \/ /\ qry' = [qry EXCEPT ![q] = r]
            /\ app' = [a EXCEPT ![q].use = u]
            /\ UNCHANGED <<sock, wr>>
      /\ UNCHANGED <<up, rd, timers, doneNow, wire>>
  BY DEF Submit
<1>. HIDE DEF r, v, u
<1>7. a \in [Queries -> View] /\ a[q] = v /\ \A p \in Queries \ {q} : a[p] = app[p]
  BY <1>1, <1>4 DEF TypeOK
<1>. HIDE DEF a
<1>8. queryList' \in Seq(Queries) /\ serial' \in Nat
  BY <1>1, <1>6 DEF TypeOK
<1>9. nextServer' \in ServerIndex
  BY <1>1, <1>6, ModRange DEF TypeOK, ServerIndex
<1>10. nextQueryId' \in Nat
  BY <1>1, <1>6, ConstantsAssumption DEF TypeOK
<1>11. Follows(wr, Rest(qry, q, "UDP_WANT_SEND"))
  BY <1>2, OtherWriters
<1>12. CASE StartQuery(q, r, a)
  <2>1. /\ MovesOnly(q) /\ qry'[q].status = "UDP_WANT_SEND" /\ sock' \subseteq Families
        /\ app' \in [Queries -> View]
        /\ \A p \in Queries : app'[p].told = a[p].told /\ app'[p].use = a[p].use
    BY <1>1, <1>3, <1>7, <1>11, <1>12, StartWrites
  <2>2. InOrder(q)'
    BY <1>2, <1>4, <1>6, <1>7, <2>1 DEF InOrder
  <2>3. Follows(rd', WaitersOf(qry', "UDP_WANT_RECV"))
    BY <1>2, <1>6, <2>1, ReadersKept
  <2>. QED  BY <1>1, <1>6, <1>7, <1>8, <1>9, <1>10, <2>1, <2>2, <2>3, StepAt DEF TypeOK
<1>13. CASE /\ qry' = [qry EXCEPT ![q] = r]
            /\ app' = [a EXCEPT ![q].use = u]
            /\ UNCHANGED <<sock, wr>>
  <2>1. MovesOnly(q) /\ qry'[q] = r
    BY <1>1, <1>3, <1>11, <1>13, BecomesOther DEF TypeOK
  <2>2. app' = [a EXCEPT ![q] = [v EXCEPT !.use = u]]
    BY <1>7, <1>13
  <2>3. /\ app' \in [Queries -> View] /\ app'[q].use # "held"
        /\ \A p \in Queries \ {q} : app'[p] = app[p]
    BY <1>5, <1>7, <2>2
  <2>4. InOrder(q)'
    BY <1>2, <1>3, <1>6, <2>1, <2>3 DEF InOrder
  <2>5. Follows(rd', WaitersOf(qry', "UDP_WANT_RECV"))
    BY <1>2, <1>3, <1>6, <2>1, ReadersKept
  <2>. QED  BY <1>1, <1>6, <1>8, <1>9, <1>10, <1>13, <2>1, <2>3, <2>4, <2>5, StepAt DEF TypeOK
<1>. QED  BY <1>6, <1>12, <1>13

LEMMA DropType ==
  ASSUME NEW list \in Seq(Queries), NEW i \in Nat \ {0}
  PROVE  Drop(list, i) \in Seq(Queries)
<1>. DEFINE m == [list EXCEPT ![i] = list[Len(list)]]
<1>1. m \in Seq(Queries) /\ Len(m) = Len(list)
  <2>1. CASE i \in 1 .. Len(list)
    <3>1. list[Len(list)] \in Queries
      BY <2>1
    <3>. QED  BY <2>1, <3>1
  <2>2. CASE i \notin 1 .. Len(list)
    <3>1. m = list
      BY <2>2
    <3>. QED  BY <3>1
  <2>. QED  BY <2>1, <2>2
<1>. HIDE DEF m
<1>2. SubSeq(m, 1, Len(list) - 1) \in Seq(Queries)
  BY <1>1
<1>. QED  BY <1>2 DEF Drop, m

\* The application cancels no query in the two phases the code mishandles.
SafeCancel == CancelIn \cap {"tcp_send", "finishing"} = {}

LEMMA DeleteKeeps ==
  ASSUME IInv, SafeCancel, NEW q \in Queries, Delete(q)
  PROVE  IInv'
<1>. DEFINE i == qry[q].index
<1>. DEFINE list == Drop(queryList, i + 1)
<1>. DEFINE code == IF qry[q].code \in AnswerCode THEN "VOID" ELSE qry[q].code
<1>. DEFINE r == [qry[q] EXCEPT !.resolver = FALSE, !.status = "VOID", !.code = code]
<1>. DEFINE moved == [p \in Queries |->
                       IF i < Len(list) /\ list[i + 1] = p
                       THEN [qry[p] EXCEPT !.index = i] ELSE qry[p]]
<1>1. TypeOK /\ qry \in [Queries -> Query] /\ app \in [Queries -> View] /\ InOrder(q)
  BY DEF IInv, TypeOK
<1>2. i \in Nat /\ code \in Code
  BY <1>1 DEF Query, Code
<1>3. list \in Seq(Queries)
  BY <1>1, <1>2, DropType DEF TypeOK
<1>4. q \notin doneNow /\ qry[q].status # "TCP_WANT_SEND"
  BY <1>1 DEF Delete, Phase, SafeCancel, InOrder, UdpStatus
<1>5. r \in Query /\ r.status = "VOID"
  BY <1>1, <1>2 DEF Query
<1>6. /\ moved \in [Queries -> Query]
      /\ \A p \in Queries : /\ moved[p].status = qry[p].status
                            /\ moved[p].curr = qry[p].curr /\ moved[p].code = qry[p].code
  <2>1. ASSUME NEW p \in Queries
        PROVE  /\ [qry[p] EXCEPT !.index = i] \in Query
               /\ [qry[p] EXCEPT !.index = i].status = qry[p].status
               /\ [qry[p] EXCEPT !.index = i].curr = qry[p].curr
               /\ [qry[p] EXCEPT !.index = i].code = qry[p].code
    BY <1>1, <1>2 DEF Query
  <2>. HIDE DEF i, list
  <2>. QED  BY <1>1, <2>1
<1>7. /\ queryList' = list
      /\ qry' = [moved EXCEPT ![q] = r]
      /\ app' = [app EXCEPT ![q].use = "free", ![q].told = 0]
      /\ UNCHANGED <<up, nextServer, nextQueryId, sock, doneNow, wire, serial>>
      /\ StatusDone(q)
  BY DEF Delete
<1>. HIDE DEF i, list, code, r, moved
<1>8. /\ app' \in [Queries -> View] /\ app'[q].use = "free"
      /\ \A p \in Queries \ {q} : app'[p] = app[p]
  <2>. DEFINE v == [app[q] EXCEPT !.use = "free"]
  <2>. DEFINE w == [v EXCEPT !.told = 0]
  <2>1. v \in View /\ v.use = "free"
    BY <1>1 DEF View
  <2>. HIDE DEF v
  <2>2. w \in View /\ w.use = "free"
    BY <2>1 DEF View
  <2>3. app' = [app EXCEPT ![q] = w]
    BY <1>1, <1>7 DEF v
  <2>. HIDE DEF w
  <2>. QED  BY <1>1, <2>2, <2>3
<1>9. /\ qry' \in [Queries -> Query] /\ qry'[q] = r
      /\ OnlyMoves(qry', q) /\ \A p \in Queries \ {q} : qry'[p].code = qry[p].code
  BY <1>5, <1>6, <1>7 DEF OnlyMoves
<1>10. \A s : Rest(qry', q, s) = Rest(qry, q, s)
  BY <1>9, RestKept
<1>11. \A s \in UdpStatus : WaitersOf(qry', s) = Rest(qry, q, s)
  BY <1>5, <1>9, <1>10, NoWaiter DEF UdpStatus
<1>12. /\ Follows(wr', Rest(qry, q, "UDP_WANT_SEND"))
       /\ Follows(rd', Rest(qry, q, "UDP_WANT_RECV"))
       /\ timers' = timers \ {q}
  <2>1. CASE qry[q].status = "UDP_WANT_SEND"
    <3>1. wr' = Done(wr, Fam(qry[q])) /\ rd' = rd /\ timers' = timers /\ q \notin timers
      BY <1>1, <1>7, <2>1 DEF StatusDone, InOrder
    <3>. QED  BY <2>1, <3>1, WriterLeaves, NoWaiter DEF IInv
  <2>2. CASE qry[q].status = "UDP_WANT_RECV"
    <3>1. wr' = wr /\ rd' = Done(rd, Fam(qry[q])) /\ timers' = timers \ {q}
      BY <1>7, <2>2 DEF StatusDone
    <3>2. Fam(qry[q]) \in Families
      BY <1>1, FamType
    <3>. QED  BY <2>2, <3>1, <3>2, OtherWriters, DropWaiter DEF IInv
  <2>3. CASE qry[q].status \notin UdpStatus
    <3>1. wr' = wr /\ rd' = rd /\ timers' = timers /\ q \notin timers
      BY <1>1, <1>4, <1>7, <2>3 DEF StatusDone, InOrder, UdpStatus
    <3>. QED  BY <2>3, <3>1, NoWaiter DEF IInv, UdpStatus
  <2>. QED  BY <2>1, <2>2, <2>3 DEF UdpStatus
<1>13. MovesOnly(q) /\ Follows(rd', WaitersOf(qry', "UDP_WANT_RECV"))
  BY <1>9, <1>11, <1>12 DEF MovesOnly, UdpStatus
<1>14. InOrder(q)'
  BY <1>4, <1>5, <1>7, <1>8, <1>9, <1>12 DEF InOrder
<1>. QED  BY <1>1, <1>3, <1>7, <1>8, <1>12, <1>13, <1>14, StepAt DEF TypeOK

LEMMA ResDeleteKeeps ==
  ASSUME IInv, ResDelete
  PROVE  IInv'
<1>1. /\ up' \in BOOLEAN /\ sock' \subseteq Families
      /\ UNCHANGED <<queryList, nextServer, nextQueryId, qry, wr, rd, timers,
                     doneNow, wire, serial, app>>
  BY DEF ResDelete
<1>2. TypeOK'
  BY <1>1 DEF IInv, TypeOK
<1>3. \A s : WaitersOf(qry', s) = WaitersOf(qry, s)
  BY <1>1
<1>4. \A q \in Queries : InOrder(q)'
  BY <1>1 DEF IInv, InOrder
<1>. QED  BY <1>1, <1>2, <1>3, <1>4 DEF IInv

\* The query that wants to send is one of query_list.
LEMMA WriterType ==
  ASSUME IInv, NEW q \in Queries, FirstWriter(q)
  PROVE  /\ TypeOK /\ qry[q] \in Query /\ Fam(qry[q]) \in Families
         /\ qry[q].status = "UDP_WANT_SEND"
         /\ q \notin timers /\ q \notin doneNow
         /\ app[q].use = "held" /\ app[q].told = 0
BY FamType DEF FirstWriter, IInv, InOrder, TypeOK

LEMMA OnUdpWriteFailKeeps ==
  ASSUME IInv, NEW f \in Families, NEW q \in Queries, OnUdpWriteFail(f, q)
  PROVE  IInv'
<1>1. /\ FirstWriter(q)
      /\ SwitchElseScheduleFinish(q, "SEND", Done(wr, Fam(qry[q])))
      /\ UNCHANGED <<up, queryList, nextServer, nextQueryId, sock, rd, timers,
                     wire, serial>>
  BY DEF OnUdpWriteFail
<1>2. Follows(Done(wr, Fam(qry[q])), Rest(qry, q, "UDP_WANT_SEND"))
  BY <1>1, WriterType, WriterLeaves
<1>3. "SEND" \in GiveUpCode
  BY DEF GiveUpCode
<1>4. /\ MovesOnly(q) /\ SameView
      /\ \/ qry'[q].status = "UDP_WANT_SEND" /\ doneNow' = doneNow
         \/ /\ qry'[q].status = "VOID" /\ qry'[q].code = "SEND"
            /\ doneNow' = doneNow \cup {q}
  BY <1>1, <1>2, <1>3, WriterType, SwitchElse
<1>5. Follows(rd', WaitersOf(qry', "UDP_WANT_RECV"))
  BY <1>1, <1>4, WriterType, ReadersKept
<1>6. InOrder(q)'
  BY <1>1, <1>3, <1>4, WriterType DEF InOrder, SameView
<1>7. doneNow' \subseteq Queries
  BY <1>1, <1>4, WriterType DEF TypeOK
<1>. QED  BY <1>1, <1>4, <1>5, <1>6, <1>7, WriterType, StepAt DEF TypeOK, SameView

LEMMA OnUdpWriteOkKeeps ==
  ASSUME IInv, NEW f \in Families, NEW q \in Queries, OnUdpWriteOk(f, q)
  PROVE  IInv'
<1>. DEFINE r == [qry[q] EXCEPT !.status = "UDP_WANT_RECV"]
<1>1. /\ FirstWriter(q)
      /\ wr' = Done(wr, Fam(qry[q])) /\ rd' = Want(rd, Fam(qry[q]), sock)
      /\ timers' = timers \cup {q}
      /\ qry' = [qry EXCEPT ![q] = r]
      /\ wire' = wire \cup {[fam |-> f, id |-> qry[q].id, serial |-> app[q].serial]}
      /\ UNCHANGED <<up, queryList, nextServer, nextQueryId, sock, doneNow,
                     serial, app>>
  BY DEF OnUdpWriteOk
<1>2. TypeOK /\ qry[q] \in Query /\ app[q] \in View
  BY <1>1, WriterType DEF TypeOK
<1>3. r \in Query /\ r.status = "UDP_WANT_RECV" /\ Fam(r) = Fam(qry[q])
  BY <1>1, <1>2, StatusType DEF UdpStatus
<1>4. wire' \subseteq Request
  BY <1>1, <1>2 DEF TypeOK, Request, Query, View
<1>. HIDE DEF r
<1>5. Follows(Done(wr, Fam(qry[q])), Rest(qry, q, "UDP_WANT_SEND"))
  BY <1>1, WriterType, WriterLeaves
<1>6. MovesOnly(q) /\ qry'[q] = r
  BY <1>1, <1>2, <1>3, <1>5, BecomesOther DEF TypeOK
<1>7. Follows(rd, Rest(qry, q, "UDP_WANT_RECV"))
  BY <1>1, WriterType, NoWaiter DEF IInv
<1>8. Follows(rd', WaitersOf(qry', "UDP_WANT_RECV"))
  BY <1>1, <1>3, <1>6, <1>7, WriterType, NewWaiter DEF MovesOnly
<1>9. InOrder(q)'
  BY <1>1, <1>3, <1>6, WriterType DEF InOrder
<1>. QED  BY <1>1, <1>2, <1>4, <1>6, <1>8, <1>9, StepAt DEF TypeOK

LEMMA OnUdpReadTimeoutKeeps ==
  ASSUME IInv, NEW q \in Queries, OnUdpReadTimeout(q)
  PROVE  IInv'
<1>1. /\ q \in timers
      /\ rd' = Done(rd, Fam(qry[q])) /\ timers' = timers \ {q}
      /\ SwitchElseScheduleFinish(q, "TIMEOUT", wr)
      /\ UNCHANGED <<up, queryList, nextServer, nextQueryId, sock, wire, serial>>
  BY DEF OnUdpReadTimeout
<1>2. /\ TypeOK /\ qry[q].status = "UDP_WANT_RECV" /\ q \notin doneNow
      /\ app[q].use = "held" /\ app[q].told = 0
  BY <1>1 DEF IInv, InOrder
<1>3. "TIMEOUT" \in GiveUpCode
  BY DEF GiveUpCode
<1>4. /\ MovesOnly(q) /\ SameView
      /\ \/ qry'[q].status = "UDP_WANT_SEND" /\ doneNow' = doneNow
         \/ /\ qry'[q].status = "VOID" /\ qry'[q].code = "TIMEOUT"
            /\ doneNow' = doneNow \cup {q}
  BY <1>1, <1>2, <1>3, OtherWriters, SwitchElse
<1>5. Follows(rd', WaitersOf(qry', "UDP_WANT_RECV"))
  BY <1>1, <1>2, <1>4, ReaderLeaves
<1>6. InOrder(q)'
  BY <1>1, <1>2, <1>3, <1>4 DEF InOrder, SameView
<1>7. doneNow' \subseteq Queries /\ timers' \subseteq Queries
  BY <1>1, <1>2, <1>4 DEF TypeOK
<1>. QED  BY <1>1, <1>2, <1>4, <1>5, <1>6, <1>7, StepAt DEF TypeOK, SameView

LEMMA OnUdpReadKeeps ==
  ASSUME IInv, NEW f \in Families, NEW m \in wire, NEW q \in Queries,
         OnUdpRead(f, m, q)
  PROVE  IInv'
<1>. DEFINE r == [qry[q] EXCEPT !.status = "VOID"]
<1>1. /\ qry[q].status = "UDP_WANT_RECV"
      /\ rd' = Done(rd, Fam(qry[q])) /\ timers' = timers \ {q}
      /\ UNCHANGED <<up, queryList, nextServer, nextQueryId, wire, serial>>
      /\ \/ /\ \/ \E code \in {"FLAGS", "MALLOC"} :
                     QueryDone(q, [r EXCEPT !.code = code], FALSE, app)
               \/ \E miss \in BOOLEAN :
                     QueryDone(q, [r EXCEPT !.code = "OK"], miss,
                               [app EXCEPT ![q].heard = m.serial])
            /\ doneNow' = doneNow
         \/ TcpMove(q, r, "CONNECT") /\ UNCHANGED <<sock, wr>>
  BY DEF OnUdpRead
<1>2. /\ TypeOK /\ qry[q] \in Query /\ app \in [Queries -> View] /\ q \notin doneNow
      /\ app[q].use = "held" /\ app[q].told = 0 /\ m.serial \in Nat
  BY <1>1 DEF IInv, InOrder, TypeOK, Request
<1>3. r \in Query /\ r.status = "VOID"
  BY <1>2, StatusType
<1>. HIDE DEF r
<1>4. Follows(wr, Rest(qry, q, "UDP_WANT_SEND"))
  BY <1>1, OtherWriters
<1>5. ASSUME NEW code \in Code
      PROVE  [r EXCEPT !.code = code] \in Query /\ [r EXCEPT !.code = code].status = "VOID"
  BY <1>3, CodeType
<1>6. timers' \subseteq Queries
  BY <1>1, <1>2 DEF TypeOK
<1>7. ASSUME MovesOnly(q), sock' \subseteq Families, doneNow' = doneNow,
             \/ Tells(q) /\ qry'[q].status = "VOID"
             \/ SameView /\ qry'[q].status = "UDP_WANT_SEND"
      PROVE  IInv'
  <2>1. InOrder(q)'
    BY <1>1, <1>2, <1>7 DEF InOrder, Tells, SameView
  <2>2. Follows(rd', WaitersOf(qry', "UDP_WANT_RECV"))
    BY <1>1, <1>7, ReaderLeaves
  <2>. QED  BY <1>1, <1>2, <1>6, <1>7, <2>1, <2>2, StepAt DEF TypeOK, Tells, SameView
<1>8. CASE doneNow' = doneNow /\ \E code \in {"FLAGS", "MALLOC"} :
             QueryDone(q, [r EXCEPT !.code = code], FALSE, app)
  <2>1. PICK code \in {"FLAGS", "MALLOC"} : QueryDone(q, [r EXCEPT !.code = code], FALSE, app)
    BY <1>8
  <2>2. code \in Code
    BY DEF Code
  <2>. QED  BY <1>2, <1>4, <1>5, <1>7, <1>8, <2>1, <2>2, QueryDoneStep
<1>9. CASE doneNow' = doneNow /\ \E miss \in BOOLEAN :
             QueryDone(q, [r EXCEPT !.code = "OK"], miss, [app EXCEPT ![q].heard = m.serial])
  <2>. DEFINE a == [app EXCEPT ![q].heard = m.serial]
  <2>1. /\ a \in [Queries -> View] /\ \A p \in Queries \ {q} : a[p] = app[p]
        /\ a[q].told = app[q].told /\ a[q].use = app[q].use
    <3>1. [app[q] EXCEPT !.heard = m.serial] \in View
          /\ [app[q] EXCEPT !.heard = m.serial].told = app[q].told
          /\ [app[q] EXCEPT !.heard = m.serial].use = app[q].use
      BY <1>2 DEF View
    <3>2. a = [app EXCEPT ![q] = [app[q] EXCEPT !.heard = m.serial]]
      OBVIOUS
    <3>. HIDE DEF a
    <3>. QED  BY <1>2, <3>1, <3>2
  <2>. HIDE DEF a
  <2>2. PICK miss \in BOOLEAN : QueryDone(q, [r EXCEPT !.code = "OK"], miss, a)
    BY <1>9 DEF a
  <2>3. "OK" \in Code
    BY DEF Code, AnswerCode
  <2>. QED  BY <1>2, <1>4, <1>5, <1>7, <1>9, <2>1, <2>2, <2>3, QueryDoneStep
<1>10. CASE TcpMove(q, r, "CONNECT") /\ UNCHANGED <<sock, wr>>
  <2>1. "CONNECT" \in GiveUpCode
    BY DEF GiveUpCode
  <2>2. /\ MovesOnly(q) /\ SameView
        /\ \/ qry'[q].status \in TcpStatus /\ doneNow' = doneNow
           \/ /\ qry'[q].status = "VOID" /\ qry'[q].code = "CONNECT"
              /\ doneNow' = doneNow \cup {q}
    BY <1>2, <1>3, <1>4, <1>10, <2>1, TcpMoveStep
  <2>3. InOrder(q)'
    BY <1>1, <1>2, <2>1, <2>2 DEF InOrder, SameView, TcpStatus
  <2>4. Follows(rd', WaitersOf(qry', "UDP_WANT_RECV"))
    BY <1>1, <2>2, ReaderLeaves DEF TcpStatus
  <2>5. doneNow' \subseteq Queries
    BY <1>2, <2>2 DEF TypeOK
  <2>. QED  BY <1>1, <1>2, <1>6, <1>10, <2>2, <2>3, <2>4, <2>5, StepAt DEF TypeOK, SameView
<1>. QED  BY <1>1, <1>8, <1>9, <1>10

LEMMA QueryDoneNowKeeps ==
  ASSUME IInv, NEW q \in Queries, QueryDoneNow(q)
  PROVE  IInv'
<1>1. /\ q \in doneNow /\ doneNow' = doneNow \ {q}
      /\ QueryDone(q, qry[q], FALSE, app)
      /\ UNCHANGED <<up, queryList, nextServer, nextQueryId, rd, timers, wire, serial>>
  BY DEF QueryDoneNow
<1>2. /\ TypeOK /\ qry[q] \in Query /\ app \in [Queries -> View]
      /\ qry[q].status = "VOID" /\ qry[q].code \in GiveUpCode
      /\ q \notin timers /\ app[q].use = "held" /\ app[q].told = 0
  BY <1>1 DEF IInv, InOrder, TypeOK
<1>3. Callback(q, qry[q], app)
  BY <1>1, <1>2 DEF QueryDone, GiveUpCode
<1>4. Follows(wr, Rest(qry, q, "UDP_WANT_SEND"))
  BY <1>2, OtherWriters
<1>5. MovesOnly(q) /\ qry'[q] = qry[q] /\ Tells(q) /\ sock' = sock
  BY <1>2, <1>3, <1>4, CallbackTells
<1>6. InOrder(q)'
  BY <1>1, <1>2, <1>5 DEF InOrder, Tells
<1>7. Follows(rd', WaitersOf(qry', "UDP_WANT_RECV"))
  BY <1>1, <1>2, <1>5, ReadersKept
<1>8. doneNow' \subseteq Queries
  BY <1>1, <1>2 DEF TypeOK
<1>. QED  BY <1>1, <1>2, <1>5, <1>6, <1>7, <1>8, StepAt DEF TypeOK, Tells

\* A query in TCP mode is known to nobody on the UDP side.
LEMMA TcpType ==
  ASSUME IInv, NEW q \in Queries, qry[q].status \in TcpStatus
  PROVE  /\ TypeOK /\ qry[q] \in Query /\ app \in [Queries -> View]
         /\ qry[q].status \notin UdpStatus /\ qry[q].status # "VOID"
         /\ q \notin timers /\ q \notin doneNow
         /\ app[q].use = "held" /\ app[q].told = 0
         /\ Follows(wr, Rest(qry, q, "UDP_WANT_SEND"))
<1>1. qry[q].status \notin UdpStatus /\ qry[q].status # "VOID"
  BY DEF TcpStatus, UdpStatus
<1>2. Follows(wr, Rest(qry, q, "UDP_WANT_SEND"))
  BY <1>1, OtherWriters DEF UdpStatus
<1>. QED  BY <1>1, <1>2 DEF IInv, InOrder, TypeOK, UdpStatus

LEMMA TcpGoesOnKeeps ==
  ASSUME IInv, NEW q \in Queries, TcpGoesOn(q)
  PROVE  IInv'
<1>1. PICK code \in {"CONNECT", "TIMEOUT"} : TcpMove(q, qry[q], code)
  BY DEF TcpGoesOn
<1>2. /\ qry[q].status \in TcpStatus /\ code \in GiveUpCode
      /\ UNCHANGED <<up, queryList, nextServer, nextQueryId, sock, wr, rd, timers,
                     wire, serial>>
  BY DEF TcpGoesOn, GiveUpCode
<1>3. /\ MovesOnly(q) /\ SameView
      /\ \/ qry'[q].status \in TcpStatus /\ doneNow' = doneNow
         \/ /\ qry'[q].status = "VOID" /\ qry'[q].code = code
            /\ doneNow' = doneNow \cup {q}
  BY <1>1, <1>2, TcpType, TcpMoveStep
<1>4. InOrder(q)'
  BY <1>2, <1>3, TcpType DEF InOrder, SameView, TcpStatus
<1>5. Follows(rd', WaitersOf(qry', "UDP_WANT_RECV"))
  BY <1>2, <1>3, TcpType, ReadersKept DEF TcpStatus, UdpStatus
<1>6. doneNow' \subseteq Queries
  BY <1>2, <1>3, TcpType DEF TypeOK
<1>. QED  BY <1>2, <1>3, <1>4, <1>5, <1>6, TcpType, StepAt DEF TypeOK, SameView

LEMMA TcpAnsweredKeeps ==
  ASSUME IInv, NEW q \in Queries, TcpAnswered(q)
  PROVE  IInv'
<1>1. PICK code \in {"OK", "TRUNC", "FLAGS", "MALLOC"}, miss \in BOOLEAN :
        QueryDone(q, [qry[q] EXCEPT !.status = "VOID", !.code = code], miss, app)
  BY DEF TcpAnswered
<1>2. /\ qry[q].status \in TcpStatus /\ code \in Code
      /\ UNCHANGED <<up, queryList, nextServer, nextQueryId, rd, timers, doneNow,
                     wire, serial>>
  BY DEF TcpAnswered, Code, AnswerCode
<1>. DEFINE u == [qry[q] EXCEPT !.status = "VOID"]
<1>. DEFINE r == [u EXCEPT !.code = code]
<1>3. u \in Query /\ u.status = "VOID"
  BY <1>2, TcpType, StatusType
<1>4. QueryDone(q, r, miss, app)
  BY <1>1
<1>. HIDE DEF u
<1>5. r \in Query /\ r.status = "VOID"
  BY <1>2, <1>3, CodeType
<1>. HIDE DEF r
<1>6. /\ MovesOnly(q) /\ sock' \subseteq Families
      /\ \/ Tells(q) /\ qry'[q].status = "VOID"
         \/ SameView /\ qry'[q].status = "UDP_WANT_SEND"
  BY <1>2, <1>4, <1>5, TcpType, QueryDoneStep
<1>7. InOrder(q)'
  BY <1>2, <1>6, TcpType DEF InOrder, Tells, SameView
<1>8. Follows(rd', WaitersOf(qry', "UDP_WANT_RECV"))
  BY <1>2, <1>6, TcpType, ReadersKept DEF UdpStatus
<1>. QED  BY <1>2, <1>6, <1>7, <1>8, TcpType, StepAt DEF TypeOK, Tells, SameView

-----------------------------------------------------------------------------
(* The theorems.                                                           *)

\* Every step of the resolver preserves the inductive invariant.
LEMMA NextKeeps ==
  ASSUME SafeCancel, IInv, [Next]_vars
  PROVE  IInv'
<1>1. CASE Application
  BY <1>1, SubmitKeeps, DeleteKeeps, ResDeleteKeeps DEF Application
<1>2. CASE Writing
  BY <1>2, OnUdpWriteFailKeeps, OnUdpWriteOkKeeps DEF Writing
<1>3. CASE Reading
  BY <1>3, OnUdpReadKeeps DEF Reading
<1>4. CASE \E q \in Queries : OnUdpReadTimeout(q) \/ QueryDoneNow(q) \/ Tcp(q)
  BY <1>4, OnUdpReadTimeoutKeeps, QueryDoneNowKeeps, TcpGoesOnKeeps, TcpAnsweredKeeps DEF Tcp
<1>5. CASE UNCHANGED vars
  <2>1. TypeOK'
    BY <1>5 DEF IInv, TypeOK, vars
  <2>2. \A q \in Queries : InOrder(q)'
    BY <1>5 DEF IInv, InOrder, vars
  <2>3. \A s : WaitersOf(qry', s) = WaitersOf(qry, s)
    BY <1>5 DEF vars
  <2>. QED  BY <1>5, <2>1, <2>2, <2>3 DEF IInv, vars
<1>. QED  BY <1>1, <1>2, <1>3, <1>4, <1>5 DEF Next

\* The inductive invariant holds throughout every behaviour in which the
\* application cancels no query in the two phases the code mishandles.
THEOREM Invariance == ASSUME SafeCancel PROVE Spec => []IInv
<1>1. Init => IInv
  BY InitIInv
<1>2. IInv /\ [Next]_vars => IInv'
  BY NextKeeps
<1>. QED  BY <1>1, <1>2, PTL DEF Spec

\* The variables keep their types; in particular no counter of on_udp_write()
\* or on_udp_read() goes below zero.
THEOREM TypeCorrect == ASSUME SafeCancel PROVE Spec => []TypeOK
<1>1. IInv => TypeOK
  BY IInvMeans
<1>. QED  BY <1>1, Invariance, PTL

\* udp_writers, udp_readers and the monitored descriptors always match the
\* queries that wait on the sockets.
THEOREM Monitors == ASSUME SafeCancel PROVE Spec => []MonitorsMatchWaiters
<1>1. IInv => MonitorsMatchWaiters
  BY IInvMeans
<1>. QED  BY <1>1, Invariance, PTL

\* A timeout is scheduled exactly for the queries waiting for a UDP answer,
\* and query_done() only for held, idle queries that carry their result.
THEOREM Timers == ASSUME SafeCancel PROVE Spec => []TimersMatchWaits
<1>1. IInv => TimersMatchWaits
  BY IInvMeans
<1>. QED  BY <1>1, Invariance, PTL

-----------------------------------------------------------------------------
(* The query list.  What the shared operators leave alone: the place of a   *)
(* query in query_list and its id, and, up to the callback and the turns,   *)
(* what the application sees of it.                                         *)

SamePlace(r, s) == r.resolver = s.resolver /\ r.index = s.index /\ r.id = s.id

SamePlaces == \A p \in Queries : SamePlace(qry'[p], qry[p])

Sees(a) ==
  \A p \in Queries :
    app'[p].use = a[p].use /\ app'[p].serial = a[p].serial /\ app'[p].heard = a[p].heard

LEMMA EndedPlace ==
  ASSUME NEW r \in Query, NEW s, NEW c
  PROVE  /\ SamePlace([r EXCEPT !.status = s], r)
         /\ SamePlace([r EXCEPT !.code = c], r)
BY DEF SamePlace, Query

LEMMA AtPlace ==
  ASSUME NEW r \in Query, NEW c, NEW n
  PROVE  SamePlace(At(r, c, n), r)
BY DEF SamePlace, At, Query

LEMMA MovedPlace ==
  ASSUME qry \in [Queries -> Query], NEW q \in Queries, NEW r,
         SamePlace(r, qry[q]), qry' = [qry EXCEPT ![q] = r]
  PROVE  SamePlaces
BY DEF SamePlaces, SamePlace

LEMMA TurnsSeen ==
  ASSUME NEW a \in [Queries -> View], NEW q \in Queries, NEW n,
         app' = [a EXCEPT ![q].turns = n] \/ app' = [a EXCEPT ![q].told = n]
  PROVE  Sees(a)
<1>. DEFINE v == [a[q] EXCEPT !.turns = n]
<1>. DEFINE w == [a[q] EXCEPT !.told = n]
<1>1. app' = [a EXCEPT ![q] = v] \/ app' = [a EXCEPT ![q] = w]
  OBVIOUS
<1>2. /\ v.use = a[q].use /\ v.serial = a[q].serial /\ v.heard = a[q].heard
      /\ w.use = a[q].use /\ w.serial = a[q].serial /\ w.heard = a[q].heard
  BY DEF View
<1>. HIDE DEF v, w
<1>. QED  BY <1>1, <1>2 DEF Sees

LEMMA SwitchElsePlaces ==
  ASSUME TypeOK, NEW q \in Queries, NEW code, NEW w,
         SwitchElseScheduleFinish(q, code, w)
  PROVE  SamePlaces /\ Sees(app)
<1>. DEFINE r == Switched(qry[q])
<1>. DEFINE u == [r EXCEPT !.status = "VOID"]
<1>1. /\ qry[q] \in Query /\ r \in Query /\ qry \in [Queries -> Query]
      /\ app \in [Queries -> View]
  BY SwitchedType DEF TypeOK
<1>2. SamePlace(r, qry[q])
  BY <1>1, AtPlace DEF Switched
<1>3. /\ \/ qry' = [qry EXCEPT ![q] = [r EXCEPT !.status = "UDP_WANT_SEND"]]
         \/ qry' = [qry EXCEPT ![q] = [u EXCEPT !.code = code]]
      /\ app' = app \/ app' = [app EXCEPT ![q].turns = app[q].turns + 1]
  BY DEF SwitchElseScheduleFinish
<1>. HIDE DEF r
<1>4. u \in Query /\ SamePlace(u, r) /\ SamePlace([r EXCEPT !.status = "UDP_WANT_SEND"], r)
  BY <1>1, StatusType, EndedPlace
<1>. HIDE DEF u
<1>5. SamePlace([u EXCEPT !.code = code], u)
  BY <1>4, EndedPlace
<1>6. /\ SamePlace([r EXCEPT !.status = "UDP_WANT_SEND"], qry[q])
      /\ SamePlace([u EXCEPT !.code = code], qry[q])
  BY <1>2, <1>4, <1>5 DEF SamePlace
<1>7. SamePlaces
  BY <1>1, <1>3, <1>6, MovedPlace
<1>8. Sees(app)
  <2>1. CASE app' = app
    BY <2>1 DEF Sees
  <2>2. CASE app' = [app EXCEPT ![q].turns = app[q].turns + 1]
    BY <2>2, <1>1, TurnsSeen
  <2>. QED  BY <2>1, <2>2, <1>3
<1>. QED  BY <1>7, <1>8

LEMMA QueryDonePlaces ==
  ASSUME TypeOK, NEW q \in Queries, NEW r \in Query, NEW miss, NEW a \in [Queries -> View],
         r.status = "VOID", SamePlace(r, qry[q]),
         QueryDone(q, r, miss, a)
  PROVE  SamePlaces /\ Sees(a)
<1>. DEFINE next == [r EXCEPT !.search = @ + 1]
<1>. DEFINE over == [next EXCEPT !.code = "CONCAT"]
<1>. DEFINE again == [next EXCEPT !.code = "VOID", !.retries = Retry, !.first = r.curr]
<1>. DEFINE failed == [again EXCEPT !.code = "LAUNCH"]
<1>1. \/ Callback(q, r, a)
      \/ Callback(q, over, a)
      \/ StartQuery(q, again, a)
      \/ Callback(q, failed, a)
  BY DEF QueryDone
<1>2. next \in Query /\ next.status = "VOID" /\ r.curr \in ServerIndex
  BY MissType DEF Query
<1>3. SamePlace(next, r)
  BY DEF SamePlace, Query
<1>. HIDE DEF next
<1>4. SamePlace(again, next) /\ again \in Query /\ again.status = "VOID"
  <2>1. SamePlace(again, next)
    BY <1>2 DEF SamePlace, Query
  <2>2. again \in Query /\ again.status = "VOID"
    BY <1>2, AgainType
  <2>. QED  BY <2>1, <2>2
<1>. HIDE DEF again
<1>5. SamePlace(over, next) /\ SamePlace(failed, again)
      /\ SamePlace([again EXCEPT !.status = "UDP_WANT_SEND"], again)
  BY <1>2, <1>4, EndedPlace
<1>. HIDE DEF over, failed
<1>6. /\ SamePlace(over, qry[q]) /\ SamePlace(failed, qry[q])
      /\ SamePlace([again EXCEPT !.status = "UDP_WANT_SEND"], qry[q])
  BY <1>3, <1>4, <1>5 DEF SamePlace
<1>7. ASSUME NEW v, SamePlace(v, qry[q]), Callback(q, v, a)
      PROVE  SamePlaces /\ Sees(a)
  <2>1. qry' = [qry EXCEPT ![q] = v] /\ app' = [a EXCEPT ![q].told = a[q].told + 1]
    BY <1>7 DEF Callback
  <2>. QED  BY <1>7, <2>1, MovedPlace, TurnsSeen DEF TypeOK
<1>8. CASE StartQuery(q, again, a)
  <2>1. /\ qry' = [qry EXCEPT ![q] = [again EXCEPT !.status = "UDP_WANT_SEND"]]
        /\ app' = [a EXCEPT ![q].turns = 1]
    BY <1>8 DEF StartQuery
  <2>. QED  BY <1>6, <2>1, MovedPlace, TurnsSeen DEF TypeOK
<1>. QED  BY <1>1, <1>6, <1>7, <1>8

LEMMA TcpMovePlaces ==
  ASSUME TypeOK, NEW q \in Queries, NEW r \in Query, NEW code, SamePlace(r, qry[q]),
         TcpMove(q, r, code)
  PROVE  SamePlaces /\ Sees(app)
<1>1. qry \in [Queries -> Query] /\ app \in [Queries -> View]
  BY DEF TypeOK
<1>2. CASE \E l \in Later(r), s \in TcpStatus :
             /\ qry' = [qry EXCEPT ![q] = [l EXCEPT !.status = s]]
             /\ app' = [app EXCEPT ![q].turns = @ + SwitchesLeft(r) - SwitchesLeft(l)]
             /\ UNCHANGED doneNow
  <2>1. PICK l \in Later(r), s \in TcpStatus :
          /\ qry' = [qry EXCEPT ![q] = [l EXCEPT !.status = s]]
          /\ app' = [app EXCEPT ![q].turns = app[q].turns + SwitchesLeft(r) - SwitchesLeft(l)]
    BY <1>2
  <2>2. l \in Query /\ SamePlace(l, r)
    <3>1. \E c, n : l = At(r, c, n)
      BY DEF Later
    <3>. QED  BY <3>1, LaterType, AtPlace
  <2>3. SamePlace([l EXCEPT !.status = s], l)
    BY <2>2, EndedPlace
  <2>4. SamePlace([l EXCEPT !.status = s], qry[q])
    BY <2>2, <2>3 DEF SamePlace
  <2>. QED  BY <1>1, <2>1, <2>4, MovedPlace, TurnsSeen
<1>3. CASE /\ qry' = [qry EXCEPT ![q] = [Exhausted(r) EXCEPT !.status = "VOID", !.code = code]]
           /\ app' = [app EXCEPT ![q].turns = @ + SwitchesLeft(r)]
           /\ doneNow' = doneNow \cup {q}
  <2>. DEFINE e == Exhausted(r)
  <2>. DEFINE u == [e EXCEPT !.status = "VOID"]
  <2>. DEFINE v == [u EXCEPT !.code = code]
  <2>1. /\ qry' = [qry EXCEPT ![q] = v]
        /\ app' = [app EXCEPT ![q].turns = app[q].turns + SwitchesLeft(r)]
    BY <1>3
  <2>2. e \in Query /\ SamePlace(e, r)
    BY AtType, AtPlace DEF Exhausted, Query
  <2>. HIDE DEF e
  <2>3. u \in Query /\ SamePlace(u, e)
    BY <2>2, StatusType, EndedPlace
  <2>. HIDE DEF u
  <2>4. SamePlace(v, u)
    BY <2>3, EndedPlace
  <2>. HIDE DEF v
  <2>5. SamePlace(v, qry[q])
    BY <2>2, <2>3, <2>4 DEF SamePlace
  <2>. QED  BY <1>1, <2>1, <2>5, MovedPlace, TurnsSeen
<1>. QED  BY <1>2, <1>3 DEF TcpMove

\* Dropping the element at k leaves the others, the last one at k.
LEMMA DropAt ==
  ASSUME NEW list \in Seq(Queries), NEW k \in 1 .. Len(list)
  PROVE  /\ Len(Drop(list, k)) = Len(list) - 1
         /\ \A j \in 1 .. Len(list) - 1 :
              Drop(list, k)[j] = IF j = k THEN list[Len(list)] ELSE list[j]
<1>. DEFINE m == [list EXCEPT ![k] = list[Len(list)]]
<1>1. /\ m \in Seq(Queries) /\ Len(m) = Len(list)
      /\ \A j \in 1 .. Len(list) : m[j] = IF j = k THEN list[Len(list)] ELSE list[j]
  OBVIOUS
<1>. HIDE DEF m
<1>2. Len(list) - 1 \in Nat
  OBVIOUS
<1>. QED  BY <1>1, <1>2 DEF Drop, m

\* A submitted query gets the place its index says, at the end of the list.
LEMMA SubmitIndexes ==
  ASSUME IInv, ~ForgetsFailed, ListIndexed, NEW q \in Queries, Submit(q)
  PROVE  ListIndexed'
<1>. DEFINE r == [resolver |-> TRUE, index |-> Len(queryList), id |-> nextQueryId,
                  first |-> nextServer, curr |-> nextServer, retries |-> Retry,
                  search |-> 0, status |-> "VOID", code |-> "VOID"]
<1>. DEFINE v == [use |-> "held", told |-> 0, serial |-> serial + 1,
                  heard |-> 0, turns |-> 0]
<1>. DEFINE a == [app EXCEPT ![q] = v]
<1>1. /\ queryList \in Seq(Queries) /\ qry \in [Queries -> Query]
      /\ app \in [Queries -> View] /\ app[q].use = "free"
      /\ queryList' = Append(queryList, q)
  BY DEF IInv, TypeOK, Submit
<1>2. v \in View
  BY DEF View, IInv, TypeOK
<1>3. /\ \/ qry' = [qry EXCEPT ![q] = r]
         \/ qry' = [qry EXCEPT ![q] = [r EXCEPT !.status = "UDP_WANT_SEND"]]
      /\ \/ app' = [a EXCEPT ![q].turns = 1]
         \/ app' = [a EXCEPT ![q].use = "failed"]
  BY DEF Submit, StartQuery
<1>4. /\ r.resolver /\ r.index = Len(queryList)
      /\ [r EXCEPT !.status = "UDP_WANT_SEND"].resolver
      /\ [r EXCEPT !.status = "UDP_WANT_SEND"].index = Len(queryList)
      /\ [v EXCEPT !.turns = 1].use # "free" /\ [v EXCEPT !.use = "failed"].use # "free"
  OBVIOUS
<1>. HIDE DEF r, v
<1>5. a \in [Queries -> View] /\ a[q] = v
      /\ \A p \in Queries \ {q} : a[p] = app[p]
  BY <1>1, <1>2
<1>. HIDE DEF a
<1>6. /\ app' = [a EXCEPT ![q] = [v EXCEPT !.turns = 1]]
         \/ app' = [a EXCEPT ![q] = [v EXCEPT !.use = "failed"]]
  BY <1>3, <1>5
<1>7. /\ app'[q].use # "free" /\ qry'[q].resolver /\ qry'[q].index = Len(queryList)
      /\ \A p \in Queries \ {q} : app'[p] = app[p] /\ qry'[p] = qry[p]
  <2>1. app'[q].use # "free" /\ \A p \in Queries \ {q} : app'[p] = app[p]
    BY <1>4, <1>5, <1>6
  <2>2. qry'[q].resolver /\ qry'[q].index = Len(queryList)
        /\ \A p \in Queries \ {q} : qry'[p] = qry[p]
    BY <1>1, <1>3, <1>4
  <2>. QED  BY <2>1, <2>2
<1>8. /\ Len(queryList') = Len(queryList) + 1 /\ queryList'[Len(queryList) + 1] = q
      /\ \A i \in 1 .. Len(queryList) : queryList'[i] = queryList[i] /\ queryList[i] \in Queries
      /\ DOMAIN queryList' = 1 .. Len(queryList) + 1
      /\ DOMAIN queryList = 1 .. Len(queryList) /\ Len(queryList) \in Nat
  BY <1>1
<1>9. \A i \in 1 .. Len(queryList) : queryList[i] # q
  BY <1>1, <1>8 DEF ListIndexed
<1>10. ASSUME NEW i \in DOMAIN queryList'
      PROVE  qry'[queryList'[i]].resolver /\ qry'[queryList'[i]].index = i - 1
  <2>1. CASE i = Len(queryList) + 1
    BY <2>1, <1>7, <1>8
  <2>2. CASE i \in 1 .. Len(queryList)
    BY <2>2, <1>7, <1>8, <1>9 DEF ListIndexed
  <2>. QED  BY <2>1, <2>2, <1>8
<1>11. ASSUME NEW p \in Queries
       PROVE  app'[p].use # "free" <=> \E i \in DOMAIN queryList' : queryList'[i] = p
  <2>1. CASE p = q
    BY <2>1, <1>7, <1>8
  <2>2. CASE p # q
    <3>1. app'[p].use # "free" <=> \E i \in 1 .. Len(queryList) : queryList[i] = p
      <4>1. app[p].use # "free" <=> \E i \in 1 .. Len(queryList) : queryList[i] = p
        BY <1>8 DEF ListIndexed
      <4>. QED  BY <2>2, <4>1, <1>7
    <3>. QED  BY <2>2, <3>1, <1>8
  <2>. QED  BY <2>1, <2>2
<1>. QED  BY <1>10, <1>11 DEF ListIndexed

\* What a deletion does to the places: the last query of the list moves to
\* that of the deleted one.
LEMMA DeleteIndexes ==
  ASSUME IInv, ListIndexed, NEW q \in Queries, Delete(q)
  PROVE  ListIndexed'
<1>. DEFINE i == qry[q].index
<1>. DEFINE n == Len(queryList)
<1>. DEFINE list == Drop(queryList, i + 1)
<1>. DEFINE code == IF qry[q].code \in AnswerCode THEN "VOID" ELSE qry[q].code
<1>. DEFINE r == [qry[q] EXCEPT !.resolver = FALSE, !.status = "VOID", !.code = code]
<1>. DEFINE moved == [p \in Queries |->
                       IF i < Len(list) /\ list[i + 1] = p
                       THEN [qry[p] EXCEPT !.index = i] ELSE qry[p]]
<1>1. /\ queryList \in Seq(Queries) /\ qry \in [Queries -> Query]
      /\ app \in [Queries -> View] /\ app[q].use # "free"
      /\ queryList' = list /\ qry' = [moved EXCEPT ![q] = r]
      /\ app' = [app EXCEPT ![q].use = "free", ![q].told = 0]
  BY DEF IInv, TypeOK, Delete
<1>2. i + 1 \in 1 .. n /\ queryList[i + 1] = q /\ i \in Nat /\ n \in Nat
      /\ DOMAIN queryList = 1 .. n
  <2>1. PICK k \in DOMAIN queryList : queryList[k] = q
    BY <1>1 DEF ListIndexed
  <2>2. qry[q].index = k - 1
    BY <2>1 DEF ListIndexed
  <2>. QED  BY <1>1, <2>1, <2>2
<1>3. /\ Len(list) = n - 1 /\ list \in Seq(Queries) /\ DOMAIN list = 1 .. n - 1
      /\ \A j \in 1 .. n - 1 : list[j] = IF j = i + 1 THEN queryList[n] ELSE queryList[j]
  <2>1. list \in Seq(Queries)
    BY <1>1, <1>2, DropType
  <2>2. /\ Len(list) = n - 1
        /\ \A j \in 1 .. n - 1 : list[j] = IF j = i + 1 THEN queryList[n] ELSE queryList[j]
    BY <1>1, <1>2, DropAt
  <2>. HIDE DEF list
  <2>. QED  BY <2>1, <2>2
<1>4. \A j \in 1 .. n : /\ queryList[j] \in Queries
                         /\ qry[queryList[j]].resolver /\ qry[queryList[j]].index = j - 1
  BY <1>1, <1>2 DEF ListIndexed
<1>5. ASSUME NEW p \in Queries
      PROVE  /\ [qry[p] EXCEPT !.index = i].index = i
             /\ [qry[p] EXCEPT !.index = i].resolver = qry[p].resolver
  BY <1>1 DEF Query
<1>6. ASSUME NEW p \in Queries \ {q}
      PROVE  /\ qry'[p].resolver = qry[p].resolver
             /\ qry'[p].index = IF i < n - 1 /\ queryList[n] = p THEN i ELSE qry[p].index
  <2>1. qry'[p] = moved[p]
    BY <1>1
  <2>2. i < n - 1 => list[i + 1] = queryList[n]
    BY <1>2, <1>3
  <2>. QED  BY <2>1, <2>2, <1>3, <1>5
<1>7. app'[q].use = "free" /\ \A p \in Queries \ {q} : app'[p] = app[p]
  <2>. DEFINE v == [app[q] EXCEPT !.use = "free"]
  <2>. DEFINE w == [v EXCEPT !.told = 0]
  <2>1. w.use = "free"
    BY <1>1 DEF View
  <2>2. app' = [app EXCEPT ![q] = w]
    BY <1>1
  <2>. HIDE DEF w
  <2>. QED  BY <1>1, <2>1, <2>2
<1>. HIDE DEF i, n, list, code, r, moved
<1>8. ASSUME NEW j \in 1 .. n - 1
      PROVE  /\ queryList'[j] \in Queries \ {q}
             /\ qry'[queryList'[j]].resolver /\ qry'[queryList'[j]].index = j - 1
  <2>1. queryList'[j] = IF j = i + 1 THEN queryList[n] ELSE queryList[j]
    BY <1>1, <1>3
  <2>2. CASE j = i + 1
    <3>1. queryList'[j] = queryList[n] /\ queryList[n] \in Queries /\ i < n - 1
          /\ qry[queryList[n]].index = n - 1 /\ qry[queryList[n]].resolver
      BY <2>1, <2>2, <1>2, <1>4
    <3>2. queryList[n] # q
      BY <3>1, <1>2 DEF i
    <3>. QED  BY <3>1, <3>2, <2>2, <1>2, <1>6
  <2>3. CASE j # i + 1
    <3>1. queryList'[j] = queryList[j] /\ queryList[j] \in Queries
          /\ qry[queryList[j]].index = j - 1 /\ qry[queryList[j]].resolver
      BY <2>1, <2>3, <1>2, <1>4
    <3>2. queryList[j] # q
      BY <3>1, <2>3, <1>2 DEF i
    <3>3. queryList[n] # queryList[j]
      BY <3>1, <1>2, <1>4
    <3>. QED  BY <3>1, <3>2, <3>3, <1>6
  <2>. QED  BY <2>2, <2>3
<1>9. ASSUME NEW p \in Queries
      PROVE  app'[p].use # "free" <=> \E j \in 1 .. n - 1 : queryList'[j] = p
  <2>1. CASE p = q
    BY <2>1, <1>7, <1>8
  <2>2. CASE p # q
    <3>1. app'[p].use # "free" <=> \E j \in 1 .. n : queryList[j] = p
      BY <2>2, <1>2, <1>7 DEF ListIndexed
    <3>2. ASSUME NEW j \in 1 .. n, queryList[j] = p
          PROVE  \E k \in 1 .. n - 1 : queryList'[k] = p
      <4>1. j # i + 1
        BY <2>2, <3>2, <1>2
      <4>2. CASE j = n
        <5>1. i + 1 \in 1 .. n - 1 /\ queryList'[i + 1] = p
          BY <4>1, <4>2, <3>2, <1>1, <1>2, <1>3
        <5>. QED  BY <5>1
      <4>3. CASE j # n
        <5>1. j \in 1 .. n - 1 /\ queryList'[j] = p
          BY <4>1, <4>3, <3>2, <1>1, <1>2, <1>3
        <5>. QED  BY <5>1
      <4>. QED  BY <4>2, <4>3
    <3>3. ASSUME NEW k \in 1 .. n - 1, queryList'[k] = p
          PROVE  \E j \in 1 .. n : queryList[j] = p
      <4>1. n \in 1 .. n /\ k \in 1 .. n
        BY <1>2
      <4>. QED  BY <4>1, <3>3, <1>1, <1>3
    <3>. QED  BY <3>1, <3>2, <3>3
  <2>. QED  BY <2>1, <2>2
<1>10. DOMAIN queryList' = 1 .. n - 1
  BY <1>1, <1>3
<1>. QED  BY <1>8, <1>9, <1>10 DEF ListIndexed

\* A datagram that on_udp_read() takes is for the query with the id it bears.
Hears(q, m) == qry[q].status = "UDP_WANT_RECV" /\ qry[q].id = m.id

\* Every step but a submission and a deletion leaves the places and ids alone;
\* it may send one request, or hear an answer to one.
LEMMA StepPlaces ==
  ASSUME IInv, [Next]_vars, \A q \in Queries : ~Submit(q) /\ ~Delete(q)
  PROVE  /\ SamePlaces /\ UNCHANGED <<queryList, nextQueryId, serial>>
         /\ \/ Sees(app) /\ wire' = wire
            \/ Sees(app) /\ \E f \in Families, q \in Queries : OnUdpWriteOk(f, q)
            \/ /\ wire' = wire
               /\ \E m \in wire, q \in Queries :
                    Hears(q, m) /\ Sees([app EXCEPT ![q].heard = m.serial])
<1>1. /\ TypeOK /\ qry \in [Queries -> Query] /\ app \in [Queries -> View]
      /\ wire \subseteq Request
  BY DEF IInv, TypeOK
<1>2. ASSUME UNCHANGED <<qry, app>>
      PROVE  SamePlaces /\ Sees(app)
  BY <1>2 DEF SamePlaces, SamePlace, Sees
<1>3. ASSUME NEW q \in Queries, NEW s \in {"VOID"} \cup UdpStatus
      PROVE  /\ [qry[q] EXCEPT !.status = s] \in Query
             /\ [qry[q] EXCEPT !.status = s].status = s
             /\ SamePlace([qry[q] EXCEPT !.status = s], qry[q])
             /\ SamePlace(qry[q], qry[q])
  BY <1>1, StatusType, EndedPlace DEF SamePlace
<1>4. ASSUME NEW q \in Queries, NEW code \in Code
      PROVE  LET r == [qry[q] EXCEPT !.status = "VOID", !.code = code]
             IN  r \in Query /\ r.status = "VOID" /\ SamePlace(r, qry[q])
  <2>. DEFINE u == [qry[q] EXCEPT !.status = "VOID"]
  <2>1. u \in Query /\ u.status = "VOID" /\ SamePlace(u, qry[q])
    BY <1>3
  <2>. HIDE DEF u
  <2>2. /\ [u EXCEPT !.code = code] \in Query /\ [u EXCEPT !.code = code].status = "VOID"
        /\ SamePlace([u EXCEPT !.code = code], u)
    BY <2>1, CodeType, EndedPlace
  <2>3. SamePlace([u EXCEPT !.code = code], qry[q])
    BY <2>1, <2>2 DEF SamePlace
  <2>. QED  BY <2>2, <2>3 DEF u
<1>5. {"FLAGS", "MALLOC", "OK", "TRUNC"} \subseteq Code
  BY DEF Code, AnswerCode
<1>6. CASE ResDelete \/ UNCHANGED vars
  BY <1>2, <1>6 DEF ResDelete, vars
<1>7. ASSUME NEW f \in Families, NEW q \in Queries, OnUdpWriteFail(f, q)
      PROVE  SamePlaces /\ Sees(app) /\ UNCHANGED <<queryList, nextQueryId, serial, wire>>
  BY <1>1, <1>7, SwitchElsePlaces DEF OnUdpWriteFail
<1>8. ASSUME NEW f \in Families, NEW q \in Queries, OnUdpWriteOk(f, q)
      PROVE  SamePlaces /\ Sees(app) /\ UNCHANGED <<queryList, nextQueryId, serial>>
  <2>1. /\ qry' = [qry EXCEPT ![q] = [qry[q] EXCEPT !.status = "UDP_WANT_RECV"]] /\ app' = app
        /\ UNCHANGED <<queryList, nextQueryId, serial>>
    BY <1>8 DEF OnUdpWriteOk
  <2>2. SamePlaces
    BY <1>1, <1>3, <2>1, MovedPlace DEF UdpStatus
  <2>. QED  BY <2>1, <2>2 DEF Sees
<1>9. ASSUME NEW f \in Families, NEW m \in wire, NEW q \in Queries, OnUdpRead(f, m, q)
      PROVE  /\ SamePlaces /\ UNCHANGED <<queryList, nextQueryId, serial, wire>>
             /\ Hears(q, m)
             /\ Sees(app) \/ Sees([app EXCEPT ![q].heard = m.serial])
  <2>. DEFINE r == [qry[q] EXCEPT !.status = "VOID"]
  <2>. DEFINE a == [app EXCEPT ![q].heard = m.serial]
  <2>1. /\ UNCHANGED <<queryList, nextQueryId, serial, wire>> /\ Hears(q, m)
        /\ \/ \E code \in {"FLAGS", "MALLOC"} :
                QueryDone(q, [r EXCEPT !.code = code], FALSE, app)
           \/ \E miss \in BOOLEAN : QueryDone(q, [r EXCEPT !.code = "OK"], miss, a)
           \/ TcpMove(q, r, "CONNECT")
    BY <1>9 DEF OnUdpRead, Hears, FindQueryById
  <2>2. r \in Query /\ SamePlace(r, qry[q])
    BY <1>3
  <2>3. ASSUME NEW code \in {"FLAGS", "MALLOC", "OK"}
        PROVE  /\ [r EXCEPT !.code = code] \in Query /\ [r EXCEPT !.code = code].status = "VOID"
               /\ SamePlace([r EXCEPT !.code = code], qry[q])
    BY <1>4, <1>5
  <2>4. a \in [Queries -> View]
    <3>1. [app[q] EXCEPT !.heard = m.serial] \in View
      BY <1>1 DEF View, Request
    <3>2. a = [app EXCEPT ![q] = [app[q] EXCEPT !.heard = m.serial]]
      OBVIOUS
    <3>. HIDE DEF a
    <3>. QED  BY <1>1, <3>1, <3>2
  <2>. HIDE DEF r, a
  <2>5. SamePlaces /\ (Sees(app) \/ Sees(a))
    <3>1. CASE \E code \in {"FLAGS", "MALLOC"} :
                 QueryDone(q, [r EXCEPT !.code = code], FALSE, app)
      BY <1>1, <2>3, <3>1, QueryDonePlaces
    <3>2. CASE \E miss \in BOOLEAN : QueryDone(q, [r EXCEPT !.code = "OK"], miss, a)
      BY <1>1, <2>3, <2>4, <3>2, QueryDonePlaces
    <3>3. CASE TcpMove(q, r, "CONNECT")
      BY <1>1, <2>2, <3>3, TcpMovePlaces
    <3>. QED  BY <2>1, <3>1, <3>2, <3>3
  <2>. QED  BY <2>1, <2>5 DEF a
<1>10. ASSUME NEW q \in Queries, OnUdpReadTimeout(q)
       PROVE  SamePlaces /\ Sees(app) /\ UNCHANGED <<queryList, nextQueryId, serial, wire>>
  BY <1>1, <1>10, SwitchElsePlaces DEF OnUdpReadTimeout
<1>11. ASSUME NEW q \in Queries, QueryDoneNow(q)
       PROVE  SamePlaces /\ Sees(app) /\ UNCHANGED <<queryList, nextQueryId, serial, wire>>
  <2>1. qry[q] \in Query /\ qry[q].status = "VOID"
    BY <1>1, <1>11 DEF QueryDoneNow, IInv, InOrder
  <2>. QED  BY <1>1, <1>3, <1>11, <2>1, QueryDonePlaces DEF QueryDoneNow
<1>12. ASSUME NEW q \in Queries, TcpGoesOn(q)
       PROVE  SamePlaces /\ Sees(app) /\ UNCHANGED <<queryList, nextQueryId, serial, wire>>
  <2>1. qry[q] \in Query /\ \E code : TcpMove(q, qry[q], code)
    BY <1>1, <1>12 DEF TcpGoesOn
  <2>. QED  BY <1>1, <1>3, <1>12, <2>1, TcpMovePlaces DEF TcpGoesOn
<1>13. ASSUME NEW q \in Queries, TcpAnswered(q)
       PROVE  SamePlaces /\ Sees(app) /\ UNCHANGED <<queryList, nextQueryId, serial, wire>>
  <2>1. PICK code \in {"OK", "TRUNC", "FLAGS", "MALLOC"}, miss \in BOOLEAN :
          QueryDone(q, [qry[q] EXCEPT !.status = "VOID", !.code = code], miss, app)
    BY <1>13 DEF TcpAnswered
  <2>. DEFINE r == [qry[q] EXCEPT !.status = "VOID", !.code = code]
  <2>2. r \in Query /\ r.status = "VOID" /\ SamePlace(r, qry[q])
    BY <1>4, <1>5
  <2>. HIDE DEF r
  <2>3. SamePlaces /\ Sees(app)
    BY <1>1, <2>1, <2>2, QueryDonePlaces DEF r
  <2>. QED  BY <1>13, <2>3 DEF TcpAnswered
<1>14. CASE Writing
  BY <1>7, <1>8, <1>14 DEF Writing
<1>15. CASE Reading
  <2>1. PICK f \in Families, m \in wire, q \in Queries : OnUdpRead(f, m, q)
    BY <1>15 DEF Reading
  <2>. QED  BY <2>1, <1>9
<1>16. CASE \E q \in Queries : OnUdpReadTimeout(q) \/ QueryDoneNow(q) \/ Tcp(q)
  BY <1>10, <1>11, <1>12, <1>13, <1>16 DEF Tcp
<1>. QED  BY <1>6, <1>14, <1>15, <1>16 DEF Next, Application

\* query_list holds each query the application holds, once, at the place its
\* resolver_index says, if the application also deletes a query whose submit
\* failed.
THEOREM Indexed == ASSUME SafeCancel, ~ForgetsFailed PROVE Spec => []ListIndexed
<1>1. Init => ListIndexed
  BY DEF Init, ListIndexed
<1>2. IInv /\ ListIndexed /\ [Next]_vars => ListIndexed'
  <2>. SUFFICES ASSUME IInv, ListIndexed, [Next]_vars PROVE ListIndexed'
    OBVIOUS
  <2>1. CASE \E q \in Queries : Submit(q) \/ Delete(q)
    BY <2>1, SubmitIndexes, DeleteIndexes
  <2>2. CASE \A q \in Queries : ~Submit(q) /\ ~Delete(q)
    <3>1. /\ SamePlaces /\ queryList' = queryList
          /\ \A p \in Queries : app'[p].use = app[p].use
      <4>1. ASSUME NEW q \in Queries, NEW n, Sees([app EXCEPT ![q].heard = n])
            PROVE  \A p \in Queries : app'[p].use = app[p].use
        BY <4>1 DEF Sees, IInv, TypeOK, View
      <4>2. ASSUME Sees(app)
            PROVE  \A p \in Queries : app'[p].use = app[p].use
        BY <4>2 DEF Sees
      <4>. QED  BY <2>2, <4>1, <4>2, StepPlaces
    <3>2. \A i \in DOMAIN queryList : queryList[i] \in Queries
      BY DEF IInv, TypeOK
    <3>. QED  BY <3>1, <3>2 DEF ListIndexed, SamePlaces, SamePlace
  <2>. QED  BY <2>1, <2>2
<1>. QED  BY <1>1, <1>2, Invariance, PTL DEF Spec

-----------------------------------------------------------------------------
(* Query ids.  The n-th submission gets id (n - 1) % IdSpace; requests and   *)
(* answers carry the id of their submission, and on_udp_read() goes by it.   *)

IdOf(n) == (n - 1) % IdSpace

Identified ==
  /\ serial <= MaxSubmits /\ nextQueryId = serial % IdSpace
  /\ \A m \in wire : m.serial \in 1 .. serial /\ m.id = IdOf(m.serial)
  /\ \A q \in Queries :
       app[q].use # "free" =>
         /\ app[q].serial \in 1 .. serial /\ qry[q].id = IdOf(app[q].serial)
         /\ app[q].heard # 0 =>
              app[q].heard \in 1 .. serial /\ qry[q].id = IdOf(app[q].heard)

LEMMA ModIs ==
  ASSUME NEW k \in Nat \ {0}, NEW a \in Int, NEW r \in 0 .. k - 1, NEW n \in Int, n = k * a + r
  PROVE  n % k = r
OBVIOUS

LEMMA ModNext ==
  ASSUME NEW k \in Nat \ {0}, NEW n \in Nat
  PROVE  ((n % k) + 1) % k = (n + 1) % k
<1>. DEFINE r == n % k  a == n \div k
<1>1. n = k * a + r /\ r \in 0 .. k - 1 /\ a \in Int
  OBVIOUS
<1>. HIDE DEF r, a
<1>2. CASE r + 1 \in 0 .. k - 1
  <2>1. n + 1 = k * a + (r + 1)
    BY <1>1
  <2>2. (n + 1) % k = r + 1
    BY <1>1, <1>2, <2>1, ModIs
  <2>3. (r + 1) % k = r + 1
    BY <1>2
  <2>. QED  BY <2>2, <2>3 DEF r
<1>3. CASE r + 1 = k
  <2>1. k * (a + 1) = k * a + k
    BY <1>1
  <2>2. n + 1 = k * (a + 1) + 0
    BY <1>1, <1>3, <2>1
  <2>3. (n + 1) % k = 0
    BY <1>1, <2>2, ModIs
  <2>4. (r + 1) % k = 0
    BY <1>3
  <2>. QED  BY <2>3, <2>4 DEF r
<1>. QED  BY <1>1, <1>2, <1>3

LEMMA SubmitIdentifies ==
  ASSUME IInv, Identified, NEW q \in Queries, Submit(q)
  PROVE  Identified'
<1>. DEFINE r == [resolver |-> TRUE, index |-> Len(queryList), id |-> nextQueryId,
                  first |-> nextServer, curr |-> nextServer, retries |-> Retry,
                  search |-> 0, status |-> "VOID", code |-> "VOID"]
<1>. DEFINE v == [use |-> "held", told |-> 0, serial |-> serial + 1,
                  heard |-> 0, turns |-> 0]
<1>. DEFINE a == [app EXCEPT ![q] = v]
<1>. DEFINE u == IF ForgetsFailed THEN "free" ELSE "failed"
<1>1. /\ serial \in Nat /\ MaxSubmits \in Nat /\ IdSpace \in Nat \ {0}
      /\ serial < MaxSubmits /\ serial' = serial + 1 /\ wire' = wire
      /\ nextQueryId' = (nextQueryId + 1) % IdSpace
      /\ app \in [Queries -> View] /\ qry \in [Queries -> Query]
  BY ConstantsAssumption DEF IInv, TypeOK, Submit
<1>2. /\ \/ qry' = [qry EXCEPT ![q] = r]
         \/ qry' = [qry EXCEPT ![q] = [r EXCEPT !.status = "UDP_WANT_SEND"]]
      /\ \/ app' = [a EXCEPT ![q].turns = 1]
         \/ app' = [a EXCEPT ![q].use = u]
  BY DEF Submit, StartQuery
<1>3. /\ r.id = nextQueryId /\ [r EXCEPT !.status = "UDP_WANT_SEND"].id = nextQueryId
      /\ [v EXCEPT !.turns = 1].serial = serial + 1 /\ [v EXCEPT !.use = u].serial = serial + 1
      /\ [v EXCEPT !.turns = 1].heard = 0 /\ [v EXCEPT !.use = u].heard = 0
  OBVIOUS
<1>4. a \in [Queries -> View] /\ a[q] = v /\ \A p \in Queries \ {q} : a[p] = app[p]
  <2>1. v \in View
    BY <1>1 DEF View
  <2>. HIDE DEF v
  <2>. QED  BY <1>1, <2>1
<1>. HIDE DEF r, v, u
<1>5. \/ app' = [a EXCEPT ![q] = [v EXCEPT !.turns = 1]]
      \/ app' = [a EXCEPT ![q] = [v EXCEPT !.use = u]]
  BY <1>2, <1>4
<1>. HIDE DEF a
<1>6. /\ app'[q].serial = serial + 1 /\ app'[q].heard = 0
      /\ \A p \in Queries \ {q} : app'[p] = app[p]
  BY <1>3, <1>4, <1>5
<1>7. qry'[q].id = nextQueryId /\ \A p \in Queries \ {q} : qry'[p] = qry[p]
  BY <1>1, <1>2, <1>3
<1>8. nextQueryId' = serial' % IdSpace
  BY <1>1, ModNext DEF Identified
<1>9. nextQueryId = IdOf(serial + 1)
  BY <1>1 DEF Identified, IdOf
<1>10. ASSUME NEW p \in Queries, app'[p].use # "free"
       PROVE  /\ app'[p].serial \in 1 .. serial' /\ qry'[p].id = IdOf(app'[p].serial)
              /\ app'[p].heard # 0 =>
                   app'[p].heard \in 1 .. serial' /\ qry'[p].id = IdOf(app'[p].heard)
  <2>1. CASE p = q
    BY <2>1, <1>1, <1>6, <1>7, <1>9
  <2>2. CASE p # q
    BY <2>2, <1>1, <1>6, <1>7, <1>10 DEF Identified
  <2>. QED  BY <2>1, <2>2
<1>11. \A m \in wire' : m.serial \in 1 .. serial' /\ m.id = IdOf(m.serial)
  BY <1>1 DEF Identified
<1>12. serial' <= MaxSubmits
  BY <1>1
<1>. QED  BY <1>8, <1>10, <1>11, <1>12, Zenon DEF Identified

LEMMA DeleteIdentifies ==
  ASSUME IInv, Identified, NEW q \in Queries, Delete(q)
  PROVE  Identified'
<1>. DEFINE i == qry[q].index
<1>. DEFINE list == Drop(queryList, i + 1)
<1>. DEFINE code == IF qry[q].code \in AnswerCode THEN "VOID" ELSE qry[q].code
<1>. DEFINE r == [qry[q] EXCEPT !.resolver = FALSE, !.status = "VOID", !.code = code]
<1>. DEFINE moved == [p \in Queries |->
                       IF i < Len(list) /\ list[i + 1] = p
                       THEN [qry[p] EXCEPT !.index = i] ELSE qry[p]]
<1>1. /\ qry \in [Queries -> Query] /\ app \in [Queries -> View]
      /\ qry' = [moved EXCEPT ![q] = r]
      /\ app' = [app EXCEPT ![q].use = "free", ![q].told = 0]
      /\ UNCHANGED <<nextQueryId, wire, serial>>
  BY DEF IInv, TypeOK, Delete
<1>2. ASSUME NEW p \in Queries
      PROVE  [qry[p] EXCEPT !.index = i].id = qry[p].id
  BY <1>1 DEF Query
<1>. HIDE DEF i, list, r
<1>3. \A p \in Queries \ {q} : qry'[p].id = qry[p].id
  BY <1>1, <1>2
<1>4. app'[q].use = "free" /\ \A p \in Queries \ {q} : app'[p] = app[p]
  <2>. DEFINE v == [app[q] EXCEPT !.use = "free"]
  <2>. DEFINE w == [v EXCEPT !.told = 0]
  <2>1. w.use = "free"
    BY <1>1 DEF View
  <2>2. app' = [app EXCEPT ![q] = w]
    BY <1>1
  <2>. HIDE DEF w
  <2>. QED  BY <1>1, <2>1, <2>2
<1>. HIDE DEF moved
<1>5. ASSUME NEW p \in Queries, app'[p].use # "free"
      PROVE  app'[p] = app[p] /\ app[p].use # "free" /\ qry'[p].id = qry[p].id
  BY <1>3, <1>4, <1>5
<1>. QED  BY <1>1, <1>5 DEF Identified, IdOf

LEMMA StepIdentifies ==
  ASSUME IInv, Identified, [Next]_vars, \A q \in Queries : ~Submit(q) /\ ~Delete(q)
  PROVE  Identified'
<1>1. /\ \A p \in Queries : qry'[p].id = qry[p].id
      /\ nextQueryId' = nextQueryId /\ serial' = serial
  BY StepPlaces DEF SamePlaces, SamePlace
<1>2. ASSUME Sees(app)
      PROVE  \A p \in Queries : app'[p].use # "free" =>
               /\ app'[p].serial \in 1 .. serial' /\ qry'[p].id = IdOf(app'[p].serial)
               /\ app'[p].heard # 0 =>
                    app'[p].heard \in 1 .. serial' /\ qry'[p].id = IdOf(app'[p].heard)
  BY <1>1, <1>2 DEF Sees, Identified
<1>3. CASE Sees(app) /\ wire' = wire
  BY <1>1, <1>2, <1>3 DEF Identified, IdOf
<1>4. CASE Sees(app) /\ \E f \in Families, q \in Queries : OnUdpWriteOk(f, q)
  <2>1. PICK f \in Families, q \in Queries : OnUdpWriteOk(f, q)
    BY <1>4
  <2>2. /\ wire' = wire \cup {[fam |-> f, id |-> qry[q].id, serial |-> app[q].serial]}
        /\ app[q].use = "held"
    BY <2>1, WriterType DEF OnUdpWriteOk
  <2>3. app[q].serial \in 1 .. serial /\ qry[q].id = IdOf(app[q].serial)
    BY <2>2 DEF Identified
  <2>4. \A m \in wire' : m.serial \in 1 .. serial /\ m.id = IdOf(m.serial)
    BY <2>2, <2>3 DEF Identified
  <2>. QED  BY <1>1, <1>2, <1>4, <2>4 DEF Identified, IdOf
<1>5. CASE /\ wire' = wire
           /\ \E m \in wire, q \in Queries : Hears(q, m) /\ Sees([app EXCEPT ![q].heard = m.serial])
  <2>1. PICK m \in wire, q \in Queries : Hears(q, m) /\ Sees([app EXCEPT ![q].heard = m.serial])
    BY <1>5
  <2>2. m.serial \in 1 .. serial /\ qry[q].id = IdOf(m.serial)
    BY <2>1 DEF Identified, Hears
  <2>3. app \in [Queries -> View]
    BY DEF IInv, TypeOK
  <2>4. /\ app'[q].heard = m.serial /\ app'[q].use = app[q].use /\ app'[q].serial = app[q].serial
        /\ \A p \in Queries \ {q} : /\ app'[p].use = app[p].use
                                     /\ app'[p].serial = app[p].serial
                                     /\ app'[p].heard = app[p].heard
    <3>1. [app EXCEPT ![q].heard = m.serial] = [app EXCEPT ![q] = [app[q] EXCEPT !.heard = m.serial]]
      OBVIOUS
    <3>2. /\ [app[q] EXCEPT !.heard = m.serial].heard = m.serial
          /\ [app[q] EXCEPT !.heard = m.serial].use = app[q].use
          /\ [app[q] EXCEPT !.heard = m.serial].serial = app[q].serial
      BY <2>3 DEF View
    <3>. QED  BY <2>1, <2>3, <3>1, <3>2 DEF Sees
  <2>5. ASSUME NEW p \in Queries, app'[p].use # "free"
        PROVE  /\ app'[p].serial \in 1 .. serial' /\ qry'[p].id = IdOf(app'[p].serial)
               /\ app'[p].heard # 0 =>
                    app'[p].heard \in 1 .. serial' /\ qry'[p].id = IdOf(app'[p].heard)
    <3>1. app[p].use # "free"
      BY <2>4, <2>5
    <3>2. /\ app[p].serial \in 1 .. serial /\ qry[p].id = IdOf(app[p].serial)
          /\ app[p].heard # 0 => app[p].heard \in 1 .. serial /\ qry[p].id = IdOf(app[p].heard)
      BY <3>1 DEF Identified
    <3>3. CASE p = q
      BY <3>2, <3>3, <1>1, <2>2, <2>4
    <3>4. CASE p # q
      BY <3>2, <3>4, <1>1, <2>4
    <3>. QED  BY <3>3, <3>4
  <2>. QED  BY <1>1, <1>5, <2>5 DEF Identified, IdOf
<1>. QED  BY <1>3, <1>4, <1>5, StepPlaces

THEOREM Ids == ASSUME SafeCancel PROVE Spec => []Identified
<1>1. Init => Identified
  <2>1. 0 % IdSpace = 0 /\ 0 <= MaxSubmits
    BY ConstantsAssumption
  <2>. QED  BY <2>1 DEF Init, Identified
<1>2. IInv /\ Identified /\ [Next]_vars => Identified'
  BY SubmitIdentifies, DeleteIdentifies, StepIdentifies
<1>. QED  BY <1>1, <1>2, Invariance, PTL DEF Spec

\* Before the ids are used up, the answer a query ends with answers a request
\* of that very submission.
THEOREM OwnAnswers ==
  ASSUME SafeCancel, MaxSubmits <= IdSpace
  PROVE  Spec => []AnswersItsOwnRequest
<1>1. IInv /\ Identified => AnswersItsOwnRequest
  <2>. SUFFICES ASSUME IInv, Identified, NEW q \in Queries,
                       app[q].use = "held", app[q].heard # 0
                PROVE  app[q].heard = app[q].serial
    BY DEF AnswersItsOwnRequest
  <2>1. ASSUME NEW n \in 1 .. serial
        PROVE  IdOf(n) = n - 1
    <3>1. n - 1 \in 0 .. IdSpace - 1 /\ IdSpace \in Nat \ {0}
      BY ConstantsAssumption DEF Identified, IInv, TypeOK
    <3>. QED  BY <3>1 DEF IdOf
  <2>2. /\ app[q].serial \in 1 .. serial /\ qry[q].id = IdOf(app[q].serial)
        /\ app[q].heard \in 1 .. serial /\ qry[q].id = IdOf(app[q].heard)
    BY DEF Identified
  <2>3. app[q].serial - 1 = app[q].heard - 1
    BY <2>1, <2>2
  <2>. QED  BY <2>2, <2>3
<1>. QED  BY <1>1, Ids, Invariance, PTL

-----------------------------------------------------------------------------
(* Turns.  What a query has had of its rotation and what it has left of it   *)
(* add up to every server, Retry + 1 times, as long as it is not done.       *)

AllTurns == Servers * (Retry + 1)

Turn(r, v) ==
  /\ r.status # "VOID" => r.code = "VOID" /\ v.turns + SwitchesLeft(r) = AllTurns
  /\ v.use = "held" =>
       v.turns <= AllTurns /\ (r.code \in GiveUpCode => v.turns = AllTurns)

InTurn == \A q \in Queries : Turn(qry[q], app[q])

OnlyAt(q) == \A p \in Queries \ {q} : qry'[p] = qry[p] /\ app'[p] = app[p]

LEMMA AllTurnsType == AllTurns \in Nat /\ AllTurns = Retry * Servers + Servers
BY ConstantsAssumption DEF AllTurns

LEMMA ModSmall ==
  ASSUME NEW i \in 0 .. Servers - 1
  PROVE  i % Servers = i /\ (i - Servers) % Servers = i
BY ConstantsAssumption

\* The place of the current server in the rotation.
LEMMA Place ==
  ASSUME NEW c \in ServerIndex, NEW f \in ServerIndex
  PROVE  (c - f) % Servers = IF c >= f THEN c - f ELSE c - f + Servers
<1>1. Servers \in Nat /\ Servers > 0
  BY ConstantsAssumption
<1>2. CASE c >= f
  BY <1>1, <1>2, ModSmall DEF ServerIndex
<1>3. CASE c < f
  <2>1. c - f + Servers \in 0 .. Servers - 1 /\ (c - f + Servers) - Servers = c - f
    BY <1>1, <1>3 DEF ServerIndex
  <2>. QED  BY <2>1, <1>3, ModSmall DEF ServerIndex
<1>. QED  BY <1>1, <1>2, <1>3 DEF ServerIndex

LEMMA NextPlace ==
  ASSUME NEW c \in ServerIndex
  PROVE  (c + 1) % Servers = IF c = Servers - 1 THEN 0 ELSE c + 1
<1>1. Servers \in Nat /\ Servers > 0
  BY ConstantsAssumption
<1>2. CASE c = Servers - 1
  <2>1. Servers % Servers = 0
    BY <1>1
  <2>. QED  BY <2>1, <1>1, <1>2
<1>3. CASE c # Servers - 1
  BY <1>1, <1>3, ModSmall DEF ServerIndex
<1>. QED  BY <1>2, <1>3

LEMMA AtFields ==
  ASSUME NEW r \in Query, NEW c, NEW n
  PROVE  At(r, c, n).curr = c /\ At(r, c, n).first = r.first /\ At(r, c, n).retries = n
BY DEF At, Query

\* A switch takes one turn, and who may not switch has none left.
LEMMA SwitchTakesOne ==
  ASSUME NEW r \in Query
  PROVE  /\ MaySwitch(r) => SwitchesLeft(r) = SwitchesLeft(Switched(r)) + 1
         /\ ~MaySwitch(r) => SwitchesLeft(r) = 0
<1>. DEFINE c == r.curr  f == r.first  n == NextOf(r)
<1>. DEFINE k == IF n = f /\ r.retries >= 1 THEN r.retries - 1 ELSE r.retries
<1>1. /\ c \in ServerIndex /\ f \in ServerIndex /\ r.retries \in Nat
      /\ Servers \in Nat /\ Servers > 0
  BY ConstantsAssumption DEF Query
<1>2. n = IF c = Servers - 1 THEN 0 ELSE c + 1
  BY <1>1, NextPlace DEF NextOf
<1>3. n \in ServerIndex
  BY <1>1, <1>2 DEF ServerIndex
<1>4. Switched(r).curr = n /\ Switched(r).first = f /\ Switched(r).retries = k
  BY AtFields DEF Switched
<1>5. /\ (c - f) % Servers = IF c >= f THEN c - f ELSE c - f + Servers
      /\ (n - f) % Servers = IF n >= f THEN n - f ELSE n - f + Servers
  BY <1>1, <1>3, Place
<1>6. /\ SwitchesLeft(r) = r.retries * Servers + Servers - 1 - ((c - f) % Servers)
      /\ SwitchesLeft(Switched(r)) = k * Servers + Servers - 1 - ((n - f) % Servers)
  BY <1>4 DEF SwitchesLeft
<1>7. MaySwitch(r) <=> (n = f => r.retries >= 1)
  BY DEF MaySwitch
<1>8. CASE n # f
  <2>1. k = r.retries /\ k * Servers \in Int
    BY <1>1, <1>8
  <2>. HIDE DEF k, c, f, n
  <2>2. (n - f) % Servers = ((c - f) % Servers) + 1 /\ (c - f) % Servers \in Int
    BY <1>1, <1>2, <1>3, <1>5, <1>8 DEF ServerIndex
  <2>. QED  BY <2>1, <2>2, <1>1, <1>6, <1>7, <1>8
<1>9. CASE n = f
  <2>1. (c - f) % Servers = Servers - 1 /\ (n - f) % Servers = 0
    BY <1>1, <1>2, <1>3, <1>5, <1>9 DEF ServerIndex
  <2>2. CASE r.retries = 0
    <3>1. r.retries * Servers = 0 /\ ~MaySwitch(r)
      BY <2>2, <1>1, <1>7, <1>9
    <3>. HIDE DEF k, c, f, n
    <3>. QED  BY <3>1, <2>1, <1>1, <1>6
  <2>3. CASE r.retries >= 1
    <3>1. k * Servers = r.retries * Servers - Servers /\ r.retries * Servers \in Int
      BY <2>3, <1>1, <1>9
    <3>. HIDE DEF k, c, f, n
    <3>. QED  BY <3>1, <2>1, <2>3, <1>1, <1>6, <1>7
  <2>. QED  BY <2>2, <2>3, <1>1
<1>. QED  BY <1>8, <1>9

LEMMA SameSwitches ==
  ASSUME NEW r \in Query, NEW s, NEW c, NEW i
  PROVE  /\ SwitchesLeft([r EXCEPT !.status = s]) = SwitchesLeft(r)
         /\ SwitchesLeft([r EXCEPT !.code = c]) = SwitchesLeft(r)
         /\ SwitchesLeft([r EXCEPT !.index = i]) = SwitchesLeft(r)
BY DEF SwitchesLeft, Query

\* A query at the start of its rotation has all its turns but this one left.
LEMMA StartSwitches ==
  ASSUME NEW r \in Query, r.retries = Retry, r.curr = r.first
  PROVE  1 + SwitchesLeft(r) = AllTurns
<1>1. (r.curr - r.first) % Servers = 0
  <2>1. r.curr \in ServerIndex
    BY DEF Query
  <2>. QED  BY <2>1, Place DEF ServerIndex
<1>2. Retry * Servers \in Int /\ Servers \in Int
  BY ConstantsAssumption
<1>. QED  BY <1>1, <1>2, AllTurnsType DEF SwitchesLeft

LEMMA SwitchElseTurns ==
  ASSUME TypeOK, NEW q \in Queries, NEW code \in GiveUpCode, NEW w,
         qry[q].status # "VOID", Turn(qry[q], app[q]),
         SwitchElseScheduleFinish(q, code, w)
  PROVE  OnlyAt(q) /\ Turn(qry'[q], app'[q])
<1>. DEFINE r == Switched(qry[q])
<1>1. /\ qry[q] \in Query /\ r \in Query /\ qry \in [Queries -> Query]
      /\ app \in [Queries -> View] /\ app[q] \in View /\ app[q].turns \in Nat
      /\ SwitchesLeft(r) \in Nat /\ AllTurns \in Nat
  BY SwitchedType, SwitchesLeftType, AllTurnsType DEF TypeOK, View
<1>2. r.code = "VOID" /\ app[q].turns + SwitchesLeft(qry[q]) = AllTurns
  BY <1>1, AtType DEF Turn, Switched, At, Query
<1>3. CASE MaySwitch(qry[q])
  <2>. DEFINE v == [r EXCEPT !.status = "UDP_WANT_SEND"]
  <2>. DEFINE b == [app[q] EXCEPT !.turns = app[q].turns + 1]
  <2>1. qry' = [qry EXCEPT ![q] = v] /\ app' = [app EXCEPT ![q] = b]
    BY <1>3 DEF SwitchElseScheduleFinish
  <2>2. v.status = "UDP_WANT_SEND" /\ v.code = "VOID" /\ SwitchesLeft(v) = SwitchesLeft(r)
    BY <1>1, <1>2, StatusType, SameSwitches DEF UdpStatus
  <2>3. b.turns = app[q].turns + 1
    BY <1>1 DEF View
  <2>4. SwitchesLeft(qry[q]) = SwitchesLeft(r) + 1
    BY <1>1, <1>3, SwitchTakesOne
  <2>. HIDE DEF r, v, b
  <2>5. qry'[q] = v /\ app'[q] = b /\ OnlyAt(q)
    BY <1>1, <2>1 DEF OnlyAt
  <2>6. b.turns + SwitchesLeft(v) = AllTurns /\ b.turns <= AllTurns
    BY <1>1, <1>2, <2>2, <2>3, <2>4
  <2>. QED  BY <2>2, <2>5, <2>6 DEF Turn, GiveUpCode
<1>4. CASE ~MaySwitch(qry[q])
  <2>. DEFINE u == [r EXCEPT !.status = "VOID"]
  <2>. DEFINE v == [u EXCEPT !.code = code]
  <2>1. qry' = [qry EXCEPT ![q] = v] /\ app' = app
    BY <1>4 DEF SwitchElseScheduleFinish
  <2>2. u \in Query /\ u.status = "VOID"
    BY <1>1, StatusType
  <2>. HIDE DEF u
  <2>3. v.status = "VOID"
    BY <2>2, CodeType DEF Code
  <2>4. app[q].turns = AllTurns
    BY <1>1, <1>2, <1>4, SwitchTakesOne
  <2>. HIDE DEF v
  <2>5. qry'[q] = v /\ OnlyAt(q)
    BY <1>1, <2>1 DEF OnlyAt
  <2>. QED  BY <1>1, <2>1, <2>3, <2>4, <2>5 DEF Turn
<1>. QED  BY <1>3, <1>4

LEMMA QueryDoneTurns ==
  ASSUME TypeOK, NEW q \in Queries, NEW r \in Query, NEW miss, NEW a \in [Queries -> View],
         \A p \in Queries \ {q} : a[p] = app[p], r.status = "VOID",
         a[q].turns <= AllTurns, r.code \in GiveUpCode => a[q].turns = AllTurns,
         QueryDone(q, r, miss, a)
  PROVE  OnlyAt(q) /\ Turn(qry'[q], app'[q])
<1>. DEFINE next == [r EXCEPT !.search = @ + 1]
<1>. DEFINE over == [next EXCEPT !.code = "CONCAT"]
<1>. DEFINE again == [next EXCEPT !.code = "VOID", !.retries = Retry, !.first = r.curr]
<1>. DEFINE failed == [again EXCEPT !.code = "LAUNCH"]
<1>1. \/ Callback(q, r, a)
      \/ Callback(q, over, a)
      \/ StartQuery(q, again, a)
      \/ Callback(q, failed, a)
  BY DEF QueryDone
<1>2. next \in Query /\ next.status = "VOID" /\ r.curr \in ServerIndex /\ next.curr = r.curr
  BY MissType DEF Query
<1>. HIDE DEF next
<1>3. again \in Query /\ again.status = "VOID"
  BY <1>2, AgainType
<1>4. /\ again.code = "VOID" /\ again.retries = Retry /\ again.first = r.curr
      /\ again.curr = r.curr
  BY <1>2 DEF Query
<1>. HIDE DEF again
<1>5. {"CONCAT", "LAUNCH"} \subseteq Code /\ {"CONCAT", "LAUNCH"} \cap GiveUpCode = {}
  BY DEF Code, AnswerCode, GiveUpCode
<1>6. /\ over.status = "VOID" /\ over.code \notin GiveUpCode
      /\ failed.status = "VOID" /\ failed.code \notin GiveUpCode
  BY <1>2, <1>3, <1>5, CodeType
<1>. HIDE DEF over, failed
<1>7. qry \in [Queries -> Query] /\ a[q] \in View
  BY DEF TypeOK
<1>8. ASSUME NEW v, v.status = "VOID", v.code \in GiveUpCode => a[q].turns = AllTurns,
             Callback(q, v, a)
      PROVE  OnlyAt(q) /\ Turn(qry'[q], app'[q])
  <2>. DEFINE b == [a[q] EXCEPT !.told = a[q].told + 1]
  <2>1. qry' = [qry EXCEPT ![q] = v] /\ app' = [a EXCEPT ![q] = b]
    BY <1>8 DEF Callback
  <2>2. b.turns = a[q].turns
    BY <1>7 DEF View
  <2>. HIDE DEF b
  <2>3. qry'[q] = v /\ app'[q] = b /\ OnlyAt(q)
    BY <1>7, <2>1 DEF OnlyAt
  <2>. QED  BY <1>8, <2>2, <2>3 DEF Turn
<1>9. CASE StartQuery(q, again, a)
  <2>. DEFINE v == [again EXCEPT !.status = "UDP_WANT_SEND"]
  <2>. DEFINE b == [a[q] EXCEPT !.turns = 1]
  <2>1. qry' = [qry EXCEPT ![q] = v] /\ app' = [a EXCEPT ![q] = b]
    BY <1>9 DEF StartQuery
  <2>2. b.turns = 1
    BY <1>7 DEF View
  <2>3. v.code = "VOID" /\ 1 + SwitchesLeft(v) = AllTurns /\ SwitchesLeft(v) \in Nat
    <3>1. 1 + SwitchesLeft(again) = AllTurns /\ SwitchesLeft(again) \in Nat
      BY <1>3, <1>4, StartSwitches, SwitchesLeftType
    <3>2. SwitchesLeft(v) = SwitchesLeft(again)
      BY <1>3, SameSwitches
    <3>3. v.code = "VOID"
      BY <1>3, <1>4, StatusType DEF UdpStatus
    <3>. QED  BY <3>1, <3>2, <3>3
  <2>. HIDE DEF b, v
  <2>4. qry'[q] = v /\ app'[q] = b /\ OnlyAt(q)
    BY <1>7, <2>1 DEF OnlyAt
  <2>5. b.turns <= AllTurns /\ v.code \notin GiveUpCode
    BY <2>2, <2>3, AllTurnsType DEF GiveUpCode
  <2>. QED  BY <2>2, <2>3, <2>4, <2>5 DEF Turn
<1>. QED  BY <1>1, <1>6, <1>8, <1>9

LEMMA TcpMoveTurns ==
  ASSUME TypeOK, NEW q \in Queries, NEW r \in Query, NEW code \in GiveUpCode,
         r.code = "VOID", app[q].turns + SwitchesLeft(r) = AllTurns,
         TcpMove(q, r, code)
  PROVE  OnlyAt(q) /\ Turn(qry'[q], app'[q])
<1>1. /\ qry \in [Queries -> Query] /\ app \in [Queries -> View] /\ app[q] \in View
      /\ app[q].turns \in Nat /\ SwitchesLeft(r) \in Nat /\ AllTurns \in Nat
  BY SwitchesLeftType, AllTurnsType DEF TypeOK, View
<1>2. ASSUME NEW l \in Later(r), NEW s \in TcpStatus,
             qry' = [qry EXCEPT ![q] = [l EXCEPT !.status = s]],
             app' = [app EXCEPT ![q].turns = app[q].turns + SwitchesLeft(r) - SwitchesLeft(l)]
      PROVE  OnlyAt(q) /\ Turn(qry'[q], app'[q])
  <2>. DEFINE v == [l EXCEPT !.status = s]
  <2>. DEFINE b == [app[q] EXCEPT !.turns = app[q].turns + SwitchesLeft(r) - SwitchesLeft(l)]
  <2>1. l \in Query /\ l.code = "VOID" /\ SwitchesLeft(l) \in Nat
    <3>1. PICK c \in ServerIndex, n \in 0 .. r.retries : l = At(r, c, n)
      BY DEF Later
    <3>2. n \in Nat
      BY DEF Query
    <3>3. l \in Query /\ l.code = "VOID"
      BY <3>1, <3>2, AtType
    <3>. QED  BY <3>3, SwitchesLeftType
  <2>2. v.code = "VOID" /\ SwitchesLeft(v) = SwitchesLeft(l)
    BY <2>1, StatusType, SameSwitches
  <2>3. b.turns = app[q].turns + SwitchesLeft(r) - SwitchesLeft(l)
    BY <1>1 DEF View
  <2>4. app' = [app EXCEPT ![q] = b]
    BY <1>2
  <2>. HIDE DEF v, b
  <2>5. qry'[q] = v /\ app'[q] = b /\ OnlyAt(q)
    BY <1>1, <1>2, <2>4 DEF OnlyAt, v
  <2>6. b.turns + SwitchesLeft(v) = AllTurns /\ b.turns <= AllTurns
    BY <1>1, <2>1, <2>2, <2>3
  <2>. QED  BY <2>2, <2>5, <2>6 DEF Turn, GiveUpCode
<1>3. ASSUME qry' = [qry EXCEPT ![q] = [Exhausted(r) EXCEPT !.status = "VOID", !.code = code]],
             app' = [app EXCEPT ![q].turns = app[q].turns + SwitchesLeft(r)]
      PROVE  OnlyAt(q) /\ Turn(qry'[q], app'[q])
  <2>. DEFINE e == Exhausted(r)
  <2>. DEFINE v == [e EXCEPT !.status = "VOID", !.code = code]
  <2>. DEFINE b == [app[q] EXCEPT !.turns = app[q].turns + SwitchesLeft(r)]
  <2>1. e \in Query
    BY AtType DEF Exhausted, Query
  <2>. HIDE DEF e
  <2>2. v.status = "VOID"
    BY <2>1 DEF Query
  <2>3. b.turns = AllTurns
    BY <1>1 DEF View
  <2>4. qry' = [qry EXCEPT ![q] = v] /\ app' = [app EXCEPT ![q] = b]
    BY <1>3 DEF e
  <2>. HIDE DEF v, b
  <2>5. qry'[q] = v /\ app'[q] = b /\ OnlyAt(q)
    BY <1>1, <2>4 DEF OnlyAt
  <2>. QED  BY <1>1, <2>2, <2>3, <2>5 DEF Turn
<1>. QED  BY <1>2, <1>3 DEF TcpMove

LEMMA SubmitTurns ==
  ASSUME IInv, InTurn, NEW q \in Queries, Submit(q)
  PROVE  OnlyAt(q) /\ Turn(qry'[q], app'[q])
<1>. DEFINE r == [resolver |-> TRUE, index |-> Len(queryList), id |-> nextQueryId,
                  first |-> nextServer, curr |-> nextServer, retries |-> Retry,
                  search |-> 0, status |-> "VOID", code |-> "VOID"]
<1>. DEFINE v == [use |-> "held", told |-> 0, serial |-> serial + 1,
                  heard |-> 0, turns |-> 0]
<1>. DEFINE a == [app EXCEPT ![q] = v]
<1>. DEFINE u == IF ForgetsFailed THEN "free" ELSE "failed"
<1>. DEFINE w == [r EXCEPT !.status = "UDP_WANT_SEND"]
<1>. DEFINE b == [v EXCEPT !.turns = 1]
<1>. DEFINE c == [v EXCEPT !.use = u]
<1>1. TypeOK /\ qry \in [Queries -> Query] /\ app \in [Queries -> View]
  BY DEF IInv, TypeOK
<1>2. \/ qry' = [qry EXCEPT ![q] = w] /\ app' = [a EXCEPT ![q].turns = 1]
      \/ qry' = [qry EXCEPT ![q] = r] /\ app' = [a EXCEPT ![q].use = u]
  BY DEF Submit, StartQuery
<1>3. /\ w.code = "VOID" /\ r.status = "VOID" /\ b.turns = 1 /\ c.use # "held"
      /\ r.retries = Retry /\ r.curr = r.first
  OBVIOUS
<1>4. r \in Query /\ v \in View
  BY <1>1, ConstantsAssumption DEF Query, TypeOK, Code, View
<1>. HIDE DEF r, v, u
<1>5. a \in [Queries -> View] /\ a[q] = v /\ \A p \in Queries \ {q} : a[p] = app[p]
  BY <1>1, <1>4
<1>. HIDE DEF a
<1>6. \/ qry' = [qry EXCEPT ![q] = w] /\ app' = [a EXCEPT ![q] = b]
      \/ qry' = [qry EXCEPT ![q] = r] /\ app' = [a EXCEPT ![q] = c]
  BY <1>2, <1>5
<1>7. SwitchesLeft(w) = SwitchesLeft(r) /\ 1 + SwitchesLeft(r) = AllTurns
      /\ SwitchesLeft(r) \in Nat /\ AllTurns \in Nat
  BY <1>3, <1>4, SameSwitches, StartSwitches, SwitchesLeftType, AllTurnsType
<1>. HIDE DEF w, b, c
<1>8. OnlyAt(q)
  BY <1>1, <1>5, <1>6 DEF OnlyAt
<1>9. CASE qry' = [qry EXCEPT ![q] = w] /\ app' = [a EXCEPT ![q] = b]
  <2>1. qry'[q] = w /\ app'[q] = b
    BY <1>1, <1>5, <1>9
  <2>2. 1 <= AllTurns
    BY <1>7
  <2>. QED  BY <1>3, <1>7, <1>8, <2>1, <2>2 DEF Turn, GiveUpCode
<1>10. CASE qry' = [qry EXCEPT ![q] = r] /\ app' = [a EXCEPT ![q] = c]
  <2>1. qry'[q] = r /\ app'[q] = c
    BY <1>1, <1>5, <1>10
  <2>. QED  BY <1>3, <1>8, <2>1 DEF Turn
<1>. QED  BY <1>6, <1>9, <1>10

LEMMA DeleteTurns ==
  ASSUME IInv, InTurn, NEW q \in Queries, Delete(q)
  PROVE  InTurn'
<1>. DEFINE i == qry[q].index
<1>. DEFINE list == Drop(queryList, i + 1)
<1>. DEFINE code == IF qry[q].code \in AnswerCode THEN "VOID" ELSE qry[q].code
<1>. DEFINE r == [qry[q] EXCEPT !.resolver = FALSE, !.status = "VOID", !.code = code]
<1>. DEFINE moved == [p \in Queries |->
                       IF i < Len(list) /\ list[i + 1] = p
                       THEN [qry[p] EXCEPT !.index = i] ELSE qry[p]]
<1>1. /\ qry \in [Queries -> Query] /\ app \in [Queries -> View]
      /\ qry' = [moved EXCEPT ![q] = r]
      /\ app' = [app EXCEPT ![q].use = "free", ![q].told = 0]
  BY DEF IInv, TypeOK, Delete
<1>2. ASSUME NEW p \in Queries
      PROVE  /\ [qry[p] EXCEPT !.index = i].status = qry[p].status
             /\ [qry[p] EXCEPT !.index = i].code = qry[p].code
             /\ SwitchesLeft([qry[p] EXCEPT !.index = i]) = SwitchesLeft(qry[p])
  <2>1. qry[p] \in Query
    BY <1>1
  <2>2. /\ [qry[p] EXCEPT !.index = i].status = qry[p].status
        /\ [qry[p] EXCEPT !.index = i].code = qry[p].code
    BY <2>1 DEF Query
  <2>. HIDE DEF i
  <2>. QED  BY <2>1, <2>2, SameSwitches
<1>3. r.status = "VOID"
  BY <1>1 DEF Query
<1>4. app'[q].use = "free" /\ \A p \in Queries \ {q} : app'[p] = app[p]
  <2>. DEFINE v == [app[q] EXCEPT !.use = "free"]
  <2>. DEFINE w == [v EXCEPT !.told = 0]
  <2>1. w.use = "free"
    BY <1>1 DEF View
  <2>2. app' = [app EXCEPT ![q] = w]
    BY <1>1
  <2>. HIDE DEF w
  <2>. QED  BY <1>1, <2>1, <2>2
<1>. HIDE DEF i, list, code, r
<1>5. /\ qry'[q] = r
      /\ \A p \in Queries \ {q} : /\ qry'[p].status = qry[p].status /\ qry'[p].code = qry[p].code
                                   /\ SwitchesLeft(qry'[p]) = SwitchesLeft(qry[p])
  BY <1>1, <1>2
<1>. HIDE DEF moved
<1>6. ASSUME NEW p \in Queries
      PROVE  Turn(qry'[p], app'[p])
  <2>1. CASE p = q
    BY <2>1, <1>3, <1>4, <1>5 DEF Turn
  <2>2. CASE p # q
    <3>1. Turn(qry[p], app[p])
      BY DEF InTurn
    <3>. QED  BY <2>2, <3>1, <1>4, <1>5 DEF Turn
  <2>. QED  BY <2>1, <2>2
<1>. QED  BY <1>6 DEF InTurn

\* Every step but a submission or a deletion keeps the count of one query.
LEMMA StepTurns ==
  ASSUME IInv, InTurn, Writing \/ Reading \/
         \E q \in Queries : OnUdpReadTimeout(q) \/ QueryDoneNow(q) \/ Tcp(q)
  PROVE  \E q \in Queries : OnlyAt(q) /\ Turn(qry'[q], app'[q])
<1>1. TypeOK /\ qry \in [Queries -> Query] /\ app \in [Queries -> View] /\ wire \subseteq Request
  BY DEF IInv, TypeOK
<1>2. ASSUME NEW q \in Queries
      PROVE  /\ Turn(qry[q], app[q]) /\ qry[q] \in Query /\ app[q] \in View
             /\ app[q].turns \in Nat /\ SwitchesLeft(qry[q]) \in Nat /\ AllTurns \in Nat
  BY <1>1, SwitchesLeftType, AllTurnsType DEF InTurn, View
<1>3. ASSUME NEW q \in Queries, NEW code \in Code, qry[q].status # "VOID"
      PROVE  LET r == [qry[q] EXCEPT !.status = "VOID"]
             IN  /\ r \in Query /\ r.code = "VOID" /\ app[q].turns + SwitchesLeft(r) = AllTurns
                 /\ [r EXCEPT !.code = code] \in Query
                 /\ [r EXCEPT !.code = code].status = "VOID"
                 /\ [r EXCEPT !.code = code].code = code
                 /\ app[q].turns <= AllTurns
  <2>. DEFINE r == [qry[q] EXCEPT !.status = "VOID"]
  <2>1. r \in Query /\ r.status = "VOID" /\ r.code = qry[q].code
        /\ SwitchesLeft(r) = SwitchesLeft(qry[q])
    BY <1>2, StatusType, SameSwitches
  <2>2. qry[q].code = "VOID" /\ app[q].turns + SwitchesLeft(qry[q]) = AllTurns
    BY <1>2, <1>3 DEF Turn
  <2>. HIDE DEF r
  <2>3. /\ [r EXCEPT !.code = code] \in Query
        /\ [r EXCEPT !.code = code].status = "VOID" /\ [r EXCEPT !.code = code].code = code
    BY <2>1, CodeType
  <2>4. app[q].turns <= AllTurns
    BY <1>2, <2>2
  <2>. QED  BY <2>1, <2>2, <2>3, <2>4 DEF r
<1>4. /\ {"FLAGS", "MALLOC", "OK", "TRUNC"} \subseteq Code \ GiveUpCode
      /\ {"SEND", "TIMEOUT", "CONNECT"} \subseteq GiveUpCode
  BY DEF Code, AnswerCode, GiveUpCode
<1>5. ASSUME NEW f \in Families, NEW q \in Queries, OnUdpWriteFail(f, q)
      PROVE  OnlyAt(q) /\ Turn(qry'[q], app'[q])
  <2>1. qry[q].status # "VOID" /\ SwitchElseScheduleFinish(q, "SEND", Done(wr, Fam(qry[q])))
    BY <1>5, WriterType DEF OnUdpWriteFail
  <2>. QED  BY <1>1, <1>2, <1>4, <2>1, SwitchElseTurns
<1>6. ASSUME NEW f \in Families, NEW q \in Queries, OnUdpWriteOk(f, q)
      PROVE  OnlyAt(q) /\ Turn(qry'[q], app'[q])
  <2>. DEFINE v == [qry[q] EXCEPT !.status = "UDP_WANT_RECV"]
  <2>1. qry[q].status # "VOID" /\ qry' = [qry EXCEPT ![q] = v] /\ app' = app
    BY <1>6, WriterType DEF OnUdpWriteOk
  <2>2. v.code = qry[q].code /\ SwitchesLeft(v) = SwitchesLeft(qry[q])
    BY <1>2, StatusType, SameSwitches DEF UdpStatus
  <2>. HIDE DEF v
  <2>3. qry'[q] = v /\ OnlyAt(q)
    BY <1>1, <2>1 DEF OnlyAt
  <2>. QED  BY <1>2, <2>1, <2>2, <2>3 DEF Turn
<1>7. ASSUME NEW f \in Families, NEW m \in wire, NEW q \in Queries, OnUdpRead(f, m, q)
      PROVE  OnlyAt(q) /\ Turn(qry'[q], app'[q])
  <2>. DEFINE r == [qry[q] EXCEPT !.status = "VOID"]
  <2>. DEFINE a == [app EXCEPT ![q].heard = m.serial]
  <2>1. /\ qry[q].status # "VOID"
        /\ \/ \E code \in {"FLAGS", "MALLOC"} :
                QueryDone(q, [r EXCEPT !.code = code], FALSE, app)
           \/ \E miss \in BOOLEAN : QueryDone(q, [r EXCEPT !.code = "OK"], miss, a)
           \/ TcpMove(q, r, "CONNECT")
    BY <1>7 DEF OnUdpRead
  <2>2. /\ r \in Query /\ r.code = "VOID" /\ app[q].turns + SwitchesLeft(r) = AllTurns
        /\ app[q].turns <= AllTurns
    <3>1. "OK" \in Code
      BY <1>4
    <3>. QED  BY <2>1, <3>1, <1>3
  <2>3. ASSUME NEW code \in {"FLAGS", "MALLOC", "OK"}
        PROVE  /\ [r EXCEPT !.code = code] \in Query /\ [r EXCEPT !.code = code].status = "VOID"
               /\ [r EXCEPT !.code = code].code \notin GiveUpCode
    <3>1. code \in Code /\ code \notin GiveUpCode
      BY <1>4
    <3>. QED  BY <2>1, <3>1, <1>3
  <2>4. /\ a \in [Queries -> View] /\ a[q].turns = app[q].turns
        /\ \A p \in Queries \ {q} : a[p] = app[p]
    <3>1. /\ [app[q] EXCEPT !.heard = m.serial] \in View
          /\ [app[q] EXCEPT !.heard = m.serial].turns = app[q].turns
      BY <1>1, <1>2 DEF View, Request
    <3>2. a = [app EXCEPT ![q] = [app[q] EXCEPT !.heard = m.serial]]
      OBVIOUS
    <3>. HIDE DEF a
    <3>. QED  BY <1>1, <3>1, <3>2
  <2>. HIDE DEF r, a
  <2>5. CASE \E code \in {"FLAGS", "MALLOC"} :
               QueryDone(q, [r EXCEPT !.code = code], FALSE, app)
    BY <1>1, <2>2, <2>5, <2>3, QueryDoneTurns
  <2>6. CASE \E miss \in BOOLEAN : QueryDone(q, [r EXCEPT !.code = "OK"], miss, a)
    BY <1>1, <2>2, <2>4, <2>6, <2>3, QueryDoneTurns
  <2>7. CASE TcpMove(q, r, "CONNECT")
    BY <1>1, <1>4, <2>2, <2>7, TcpMoveTurns
  <2>. QED  BY <2>1, <2>5, <2>6, <2>7
<1>8. ASSUME NEW q \in Queries, OnUdpReadTimeout(q)
      PROVE  OnlyAt(q) /\ Turn(qry'[q], app'[q])
  <2>1. qry[q].status # "VOID" /\ SwitchElseScheduleFinish(q, "TIMEOUT", wr)
    BY <1>8 DEF OnUdpReadTimeout, IInv, InOrder
  <2>. QED  BY <1>1, <1>2, <1>4, <2>1, SwitchElseTurns
<1>9. ASSUME NEW q \in Queries, QueryDoneNow(q)
      PROVE  OnlyAt(q) /\ Turn(qry'[q], app'[q])
  <2>1. /\ qry[q].status = "VOID" /\ app[q].use = "held"
        /\ QueryDone(q, qry[q], FALSE, app)
    BY <1>9 DEF QueryDoneNow, IInv, InOrder
  <2>2. app[q].turns <= AllTurns /\ (qry[q].code \in GiveUpCode => app[q].turns = AllTurns)
    BY <1>2, <2>1 DEF Turn
  <2>. QED  BY <1>1, <1>2, <2>1, <2>2, QueryDoneTurns
<1>10. ASSUME NEW q \in Queries, TcpGoesOn(q)
       PROVE  OnlyAt(q) /\ Turn(qry'[q], app'[q])
  <2>1. PICK code \in GiveUpCode : TcpMove(q, qry[q], code)
    BY <1>4, <1>10 DEF TcpGoesOn
  <2>2. qry[q].code = "VOID" /\ app[q].turns + SwitchesLeft(qry[q]) = AllTurns
    BY <1>2, <1>10, TcpType DEF TcpGoesOn, Turn
  <2>. QED  BY <1>1, <1>2, <2>1, <2>2, TcpMoveTurns
<1>11. ASSUME NEW q \in Queries, TcpAnswered(q)
       PROVE  OnlyAt(q) /\ Turn(qry'[q], app'[q])
  <2>1. PICK code \in {"OK", "TRUNC", "FLAGS", "MALLOC"}, miss \in BOOLEAN :
          QueryDone(q, [qry[q] EXCEPT !.status = "VOID", !.code = code], miss, app)
    BY <1>11 DEF TcpAnswered
  <2>2. qry[q].status # "VOID" /\ code \in Code /\ code \notin GiveUpCode
    BY <1>4, <1>11, TcpType DEF TcpAnswered
  <2>. DEFINE r == [qry[q] EXCEPT !.status = "VOID", !.code = code]
  <2>3. r \in Query /\ r.status = "VOID" /\ r.code = code /\ app[q].turns <= AllTurns
    BY <1>3, <2>2
  <2>. HIDE DEF r
  <2>. QED  BY <1>1, <2>1, <2>2, <2>3, QueryDoneTurns DEF r
<1>12. CASE Writing
  BY <1>5, <1>6, <1>12 DEF Writing
<1>13. CASE Reading
  <2>1. PICK f \in Families, m \in wire, q \in Queries : OnUdpRead(f, m, q)
    BY <1>13 DEF Reading
  <2>. QED  BY <2>1, <1>7
<1>14. CASE \E q \in Queries : OnUdpReadTimeout(q) \/ QueryDoneNow(q) \/ Tcp(q)
  BY <1>8, <1>9, <1>10, <1>11, <1>14 DEF Tcp
<1>. QED  BY <1>12, <1>13, <1>14

\* A query takes no more turns than every server res_retry + 1 times, and one
\* that gives up has taken them all.
THEOREM AllTurnsTaken == ASSUME SafeCancel PROVE Spec => []GivesUpAfterAllTurns
<1>1. Init => InTurn
  BY DEF Init, InTurn, Turn
<1>2. IInv /\ InTurn /\ [Next]_vars => InTurn'
  <2>. SUFFICES ASSUME IInv, InTurn, [Next]_vars PROVE InTurn'
    OBVIOUS
  <2>1. ASSUME NEW q \in Queries, OnlyAt(q), Turn(qry'[q], app'[q])
        PROVE  InTurn'
    BY <2>1 DEF InTurn, OnlyAt
  <2>2. CASE \E q \in Queries : Submit(q)
    BY <2>1, <2>2, SubmitTurns
  <2>3. CASE \E q \in Queries : Delete(q)
    BY <2>3, DeleteTurns
  <2>4. CASE ResDelete \/ UNCHANGED vars
    BY <2>4 DEF ResDelete, vars, InTurn
  <2>5. CASE Writing \/ Reading \/
             \E q \in Queries : OnUdpReadTimeout(q) \/ QueryDoneNow(q) \/ Tcp(q)
    BY <2>1, <2>5, StepTurns
  <2>. QED  BY <2>2, <2>3, <2>4, <2>5 DEF Next, Application
<1>3. InTurn => GivesUpAfterAllTurns
  BY DEF InTurn, Turn, GivesUpAfterAllTurns, AllTurns
<1>. QED  BY <1>1, <1>2, <1>3, Invariance, PTL DEF Spec

-----------------------------------------------------------------------------
(* The resolver implements the safety part of the promise of RuliQuery.      *)

\* Only a query the application holds has been called back.
CalledWhileHeld == \A q \in Queries : app[q].use # "held" => app[q].told = 0

\* A step that calls nobody back, and one that calls back for a pending query.
CallsNobody == \A p \in Queries : app'[p].told = app[p].told /\ app'[p].use = app[p].use

CallsBack(q) == Tells(q) /\ app[q].use = "held" /\ app[q].told = 0

\* The handlers call back at most once, and only for a pending query.
LEMMA StepCalls ==
  ASSUME IInv, Writing \/ Reading \/
         \E q \in Queries : OnUdpReadTimeout(q) \/ QueryDoneNow(q) \/ Tcp(q)
  PROVE  CallsNobody \/ \E q \in Queries : CallsBack(q)
<1>1. TypeOK /\ qry \in [Queries -> Query] /\ app \in [Queries -> View] /\ wire \subseteq Request
  BY DEF IInv, TypeOK
<1>2. /\ {"FLAGS", "MALLOC", "OK", "TRUNC"} \subseteq Code
      /\ {"SEND", "TIMEOUT", "CONNECT"} \subseteq GiveUpCode
  BY DEF Code, AnswerCode, GiveUpCode
<1>3. ASSUME NEW q \in Queries, NEW code \in Code
      PROVE  LET r == [qry[q] EXCEPT !.status = "VOID"]
             IN  /\ r \in Query /\ [r EXCEPT !.code = code] \in Query
                 /\ [r EXCEPT !.code = code].status = "VOID"
  <2>. DEFINE r == [qry[q] EXCEPT !.status = "VOID"]
  <2>1. r \in Query /\ r.status = "VOID"
    BY <1>1, StatusType
  <2>. HIDE DEF r
  <2>. QED  BY <2>1, CodeType DEF r
<1>4. ASSUME NEW f \in Families, NEW q \in Queries, OnUdpWriteFail(f, q)
      PROVE  CallsNobody
  <2>1. Follows(Done(wr, Fam(qry[q])), Rest(qry, q, "UDP_WANT_SEND"))
    BY <1>4, WriterType, WriterLeaves DEF OnUdpWriteFail
  <2>. QED  BY <1>1, <1>2, <1>4, <2>1, SwitchElse DEF OnUdpWriteFail, SameView, CallsNobody
<1>5. ASSUME NEW q \in Queries, OnUdpReadTimeout(q)
      PROVE  CallsNobody
  <2>1. qry[q].status = "UDP_WANT_RECV" /\ SwitchElseScheduleFinish(q, "TIMEOUT", wr)
    BY <1>5 DEF OnUdpReadTimeout, IInv, InOrder
  <2>. QED  BY <1>1, <1>2, <2>1, OtherWriters, SwitchElse DEF SameView, CallsNobody
<1>6. ASSUME NEW f \in Families, NEW m \in wire, NEW q \in Queries, OnUdpRead(f, m, q)
      PROVE  CallsNobody \/ CallsBack(q)
  <2>. DEFINE r == [qry[q] EXCEPT !.status = "VOID"]
  <2>. DEFINE a == [app EXCEPT ![q].heard = m.serial]
  <2>1. /\ qry[q].status = "UDP_WANT_RECV"
        /\ \/ \E code \in {"FLAGS", "MALLOC"} :
                QueryDone(q, [r EXCEPT !.code = code], FALSE, app)
           \/ \E miss \in BOOLEAN : QueryDone(q, [r EXCEPT !.code = "OK"], miss, a)
           \/ TcpMove(q, r, "CONNECT") /\ wr' = wr
    BY <1>6 DEF OnUdpRead
  <2>2. /\ app[q].use = "held" /\ app[q].told = 0 /\ Follows(wr, Rest(qry, q, "UDP_WANT_SEND"))
    BY <2>1, OtherWriters DEF IInv, InOrder
  <2>3. ASSUME NEW code \in {"FLAGS", "MALLOC", "OK"}
        PROVE  [r EXCEPT !.code = code] \in Query /\ [r EXCEPT !.code = code].status = "VOID"
    BY <1>2, <1>3
  <2>4. r \in Query
    BY <1>1, StatusType
  <2>5. /\ a \in [Queries -> View] /\ a[q].told = app[q].told /\ a[q].use = app[q].use
        /\ \A p \in Queries \ {q} : a[p] = app[p]
    <3>1. /\ [app[q] EXCEPT !.heard = m.serial] \in View
          /\ [app[q] EXCEPT !.heard = m.serial].told = app[q].told
          /\ [app[q] EXCEPT !.heard = m.serial].use = app[q].use
      BY <1>1 DEF View, Request
    <3>2. a = [app EXCEPT ![q] = [app[q] EXCEPT !.heard = m.serial]]
      OBVIOUS
    <3>. HIDE DEF a
    <3>. QED  BY <1>1, <3>1, <3>2
  <2>. HIDE DEF r, a
  <2>6. CASE \E code \in {"FLAGS", "MALLOC"} : QueryDone(q, [r EXCEPT !.code = code], FALSE, app)
    BY <1>1, <2>2, <2>3, <2>6, QueryDoneStep DEF SameView, CallsNobody, CallsBack
  <2>7. CASE \E miss \in BOOLEAN : QueryDone(q, [r EXCEPT !.code = "OK"], miss, a)
    BY <1>1, <2>2, <2>3, <2>5, <2>7, QueryDoneStep DEF SameView, CallsNobody, CallsBack
  <2>8. CASE TcpMove(q, r, "CONNECT") /\ wr' = wr
    BY <1>1, <1>2, <2>2, <2>4, <2>8, TcpMoveStep DEF SameView, CallsNobody
  <2>. QED  BY <2>1, <2>6, <2>7, <2>8
<1>7. ASSUME NEW q \in Queries, QueryDoneNow(q)
      PROVE  CallsNobody \/ CallsBack(q)
  <2>1. /\ qry[q].status = "VOID" /\ app[q].use = "held" /\ app[q].told = 0
        /\ qry[q] \in Query /\ QueryDone(q, qry[q], FALSE, app)
    BY <1>1, <1>7 DEF QueryDoneNow, IInv, InOrder
  <2>. QED  BY <1>1, <2>1, OtherWriters, QueryDoneStep DEF SameView, CallsNobody, CallsBack
<1>8. ASSUME NEW q \in Queries, TcpGoesOn(q)
      PROVE  CallsNobody
  <2>1. PICK code \in GiveUpCode : TcpMove(q, qry[q], code) /\ wr' = wr
    BY <1>2, <1>8 DEF TcpGoesOn
  <2>. QED  BY <1>8, <2>1, TcpType, TcpMoveStep DEF TcpGoesOn, SameView, CallsNobody
<1>9. ASSUME NEW q \in Queries, TcpAnswered(q)
      PROVE  CallsNobody \/ CallsBack(q)
  <2>1. PICK code \in {"OK", "TRUNC", "FLAGS", "MALLOC"}, miss \in BOOLEAN :
          QueryDone(q, [qry[q] EXCEPT !.status = "VOID", !.code = code], miss, app)
    BY <1>9 DEF TcpAnswered
  <2>. DEFINE r == [qry[q] EXCEPT !.status = "VOID", !.code = code]
  <2>2. r \in Query /\ r.status = "VOID"
    <3>1. code \in Code
      BY <1>2
    <3>. QED  BY <3>1, <1>3
  <2>. HIDE DEF r
  <2>. QED  BY <1>9, <2>1, <2>2, TcpType, QueryDoneStep DEF TcpAnswered, SameView, CallsNobody,
                CallsBack, r
<1>10. ASSUME NEW f \in Families, NEW q \in Queries, OnUdpWriteOk(f, q)
       PROVE  CallsNobody
  BY <1>10 DEF OnUdpWriteOk, CallsNobody
<1>11. CASE Writing
  BY <1>4, <1>10, <1>11 DEF Writing
<1>12. CASE Reading
  <2>1. PICK f \in Families, m \in wire, q \in Queries : OnUdpRead(f, m, q)
    BY <1>12 DEF Reading
  <2>. QED  BY <2>1, <1>6
<1>13. CASE \E q \in Queries : OnUdpReadTimeout(q) \/ QueryDoneNow(q) \/ Tcp(q)
  BY <1>5, <1>7, <1>8, <1>9, <1>13 DEF Tcp
<1>. QED  BY <1>11, <1>12, <1>13

LEMMA SubmitCalls ==
  ASSUME IInv, CalledWhileHeld, NEW q \in Queries, Submit(q)
  PROVE  /\ app[q].use = "free" /\ app[q].told = 0 /\ app'[q].told = 0
         /\ \A p \in Queries \ {q} : app'[p] = app[p]
<1>. DEFINE v == [use |-> "held", told |-> 0, serial |-> serial + 1,
                  heard |-> 0, turns |-> 0]
<1>. DEFINE a == [app EXCEPT ![q] = v]
<1>. DEFINE u == IF ForgetsFailed THEN "free" ELSE "failed"
<1>1. app \in [Queries -> View] /\ app[q].use = "free"
  BY DEF IInv, TypeOK, Submit
<1>2. app' = [a EXCEPT ![q].turns = 1] \/ app' = [a EXCEPT ![q].use = u]
  BY DEF Submit, StartQuery
<1>3. [v EXCEPT !.turns = 1].told = 0 /\ [v EXCEPT !.use = u].told = 0
  OBVIOUS
<1>4. DOMAIN a = Queries /\ a[q] = v /\ \A p \in Queries \ {q} : a[p] = app[p]
  BY <1>1
<1>. HIDE DEF v, u
<1>5. a \in [Queries -> View \cup {v}]
  BY <1>1
<1>. HIDE DEF a
<1>6. \/ app' = [a EXCEPT ![q] = [v EXCEPT !.turns = 1]]
      \/ app' = [a EXCEPT ![q] = [v EXCEPT !.use = u]]
  BY <1>2, <1>4
<1>. QED  BY <1>1, <1>3, <1>4, <1>5, <1>6 DEF CalledWhileHeld

LEMMA DeleteCalls ==
  ASSUME IInv, NEW q \in Queries, Delete(q)
  PROVE  /\ app[q].use # "free" /\ app'[q].use = "free" /\ app'[q].told = 0
         /\ \A p \in Queries \ {q} : app'[p] = app[p]
<1>. DEFINE v == [app[q] EXCEPT !.use = "free"]
<1>. DEFINE w == [v EXCEPT !.told = 0]
<1>1. /\ app \in [Queries -> View] /\ app[q].use # "free"
      /\ app' = [app EXCEPT ![q].use = "free", ![q].told = 0]
  BY DEF IInv, TypeOK, Delete
<1>2. w.use = "free" /\ w.told = 0
  BY <1>1 DEF View
<1>3. app' = [app EXCEPT ![q] = w]
  BY <1>1
<1>. HIDE DEF w
<1>. QED  BY <1>1, <1>2, <1>3

LEMMA CalledKeeps ==
  ASSUME IInv, CalledWhileHeld, [Next]_vars
  PROVE  CalledWhileHeld'
<1>1. ASSUME NEW q \in Queries, Submit(q) \/ Delete(q)
      PROVE  CalledWhileHeld'
  BY <1>1, SubmitCalls, DeleteCalls DEF CalledWhileHeld
<1>2. CASE ResDelete \/ UNCHANGED vars
  BY <1>2 DEF ResDelete, vars, CalledWhileHeld
<1>3. CASE CallsNobody
  BY <1>3 DEF CallsNobody, CalledWhileHeld
<1>4. ASSUME NEW q \in Queries, CallsBack(q)
      PROVE  CalledWhileHeld'
  BY <1>4 DEF CallsBack, Tells, CalledWhileHeld
<1>. QED  BY <1>1, <1>2, <1>3, <1>4, StepCalls DEF Next, Application

\* Every step of the resolver is a step of the promise, or none of its steps.
LEMMA Keeps ==
  ASSUME IInv, CalledWhileHeld, [Next]_vars
  PROVE  [Promise!Next]_(Promise!vars)
<1>. DEFINE ph == [q \in Queries |-> IF app[q].use # "held" THEN "free"
                                     ELSE IF app[q].told = 0 THEN "pending" ELSE "answered"]
            cl == [q \in Queries |-> app[q].told]
<1>1. ASSUME CallsNobody
      PROVE  UNCHANGED Promise!vars
  BY <1>1 DEF CallsNobody, Promise!vars
<1>2. ASSUME NEW q \in Queries, Submit(q)
      PROVE  Promise!Submit(q) \/ UNCHANGED Promise!vars
  <2>1. /\ app[q].use = "free" /\ app[q].told = 0 /\ app'[q].told = 0
        /\ \A p \in Queries \ {q} : app'[p] = app[p]
    BY <1>2, SubmitCalls
  <2>2. cl' = cl
    BY <2>1
  <2>3. CASE app'[q].use = "held"
    <3>1. ph' = [ph EXCEPT ![q] = "pending"] /\ ph[q] = "free"
      BY <2>1, <2>3
    <3>. QED  BY <2>2, <3>1 DEF Promise!Submit
  <2>4. CASE app'[q].use # "held"
    <3>1. ph' = ph
      BY <2>1, <2>4
    <3>. QED  BY <2>2, <3>1 DEF Promise!vars
  <2>. QED  BY <2>3, <2>4
<1>3. ASSUME NEW q \in Queries, Delete(q)
      PROVE  Promise!Delete(q) \/ UNCHANGED Promise!vars
  <2>1. /\ app'[q].use = "free" /\ app'[q].told = 0
        /\ \A p \in Queries \ {q} : app'[p] = app[p]
    BY <1>3, DeleteCalls
  <2>2. CASE app[q].use = "held"
    <3>1. ph' = [ph EXCEPT ![q] = "free"] /\ cl' = [cl EXCEPT ![q] = 0] /\ ph[q] # "free"
      BY <2>1, <2>2
    <3>. QED  BY <3>1 DEF Promise!Delete
  <2>3. CASE app[q].use # "held"
    <3>1. ph' = ph /\ cl' = cl
      BY <2>1, <2>3 DEF CalledWhileHeld
    <3>. QED  BY <3>1 DEF Promise!vars
  <2>. QED  BY <2>2, <2>3
<1>4. ASSUME NEW q \in Queries, CallsBack(q)
      PROVE  Promise!Answer(q)
  <2>1. /\ app[q].use = "held" /\ app[q].told = 0 /\ app'[q].use = "held" /\ app'[q].told = 1
        /\ \A p \in Queries \ {q} : app'[p] = app[p]
    BY <1>4 DEF CallsBack, Tells
  <2>2. ph[q] = "pending" /\ ph' = [ph EXCEPT ![q] = "answered"]
    <3>1. ph[q] = "pending" /\ ph'[q] = "answered"
      BY <2>1
    <3>2. \A p \in Queries \ {q} : ph'[p] = ph[p]
      BY <2>1
    <3>3. /\ ph \in [Queries -> {"free", "pending", "answered"}]
          /\ ph' \in [Queries -> {"free", "pending", "answered"}]
      OBVIOUS
    <3>. HIDE DEF ph
    <3>. QED  BY <3>1, <3>2, <3>3
  <2>3. cl' = [cl EXCEPT ![q] = 1] /\ cl[q] = 0
    BY <2>1
  <2>4. cl' = [cl EXCEPT ![q] = cl[q] + 1]
    <3>1. cl[q] + 1 = 1
      BY <2>3
    <3>. HIDE DEF cl
    <3>. QED  BY <2>3, <3>1
  <2>. QED  BY <2>2, <2>4 DEF Promise!Answer
<1>5. CASE ResDelete \/ UNCHANGED vars
  BY <1>1, <1>5 DEF ResDelete, vars, CallsNobody
<1>. QED  BY <1>1, <1>2, <1>3, <1>4, <1>5, StepCalls DEF Next, Application, Promise!Next

\* The resolver calls back once for each query submitted, unless the query is
\* deleted first, and never for one that was.
THEOREM Implements == ASSUME SafeCancel PROVE Spec => CallsBackOnce
<1>1. Init => CalledWhileHeld /\ Promise!Init
  BY DEF Init, CalledWhileHeld, Promise!Init
<1>2. IInv /\ CalledWhileHeld /\ [Next]_vars => CalledWhileHeld'
  BY CalledKeeps
<1>3. IInv /\ CalledWhileHeld /\ [Next]_vars => [Promise!Next]_(Promise!vars)
  BY Keeps
<1>. QED  BY <1>1, <1>2, <1>3, Invariance, PTL DEF Spec, CallsBackOnce

\* No callback reaches a query that was deleted: what the run cancel_finishing
\* finds takes a cancellation in the phases SafeCancel excludes.
THEOREM NoLateCallback == ASSUME SafeCancel PROVE Spec => []NoCallbackAfterDelete
<1>1. Init => CalledWhileHeld
  BY DEF Init, CalledWhileHeld
<1>2. IInv /\ CalledWhileHeld /\ [Next]_vars => CalledWhileHeld'
  BY CalledKeeps
<1>3. CalledWhileHeld => NoCallbackAfterDelete
  BY DEF CalledWhileHeld, NoCallbackAfterDelete
<1>. QED  BY <1>1, <1>2, <1>3, Invariance, PTL DEF Spec

-----------------------------------------------------------------------------
(* Deleting the resolver.                                                   *)

FreeWhenDown == ~up => \A q \in Queries : app[q].use = "free"

LEMMA UsesKept ==
  ASSUME IInv, [Next]_vars, \A q \in Queries : ~Submit(q) /\ ~Delete(q)
  PROVE  /\ \A p \in Queries : app'[p].use = app[p].use
         /\ up' = up \/ ResDelete
<1>1. \A p \in Queries : app'[p].use = app[p].use
  <2>1. ASSUME NEW q \in Queries, NEW n, Sees([app EXCEPT ![q].heard = n])
        PROVE  \A p \in Queries : app'[p].use = app[p].use
    BY <2>1 DEF Sees, IInv, TypeOK, View
  <2>2. ASSUME Sees(app)
        PROVE  \A p \in Queries : app'[p].use = app[p].use
    BY <2>2 DEF Sees
  <2>. QED  BY <2>1, <2>2, StepPlaces
<1>2. ASSUME Writing \/ Reading
      PROVE  up' = up
  BY <1>2 DEF Writing, Reading, OnUdpWriteFail, OnUdpWriteOk, OnUdpRead
<1>3. ASSUME NEW q \in Queries, OnUdpReadTimeout(q) \/ QueryDoneNow(q) \/ Tcp(q)
      PROVE  up' = up
  BY <1>3 DEF OnUdpReadTimeout, QueryDoneNow, Tcp, TcpGoesOn, TcpAnswered
<1>. QED  BY <1>1, <1>2, <1>3 DEF Next, Application, vars

LEMMA FreeKeeps ==
  ASSUME IInv, FreeWhenDown, [Next]_vars
  PROVE  FreeWhenDown'
<1>1. ASSUME NEW q \in Queries, Submit(q)
      PROVE  FreeWhenDown'
  BY <1>1 DEF Submit, FreeWhenDown
<1>2. ASSUME NEW q \in Queries, Delete(q)
      PROVE  FreeWhenDown'
  <2>1. up' = up
    BY <1>2 DEF Delete
  <2>. QED  BY <1>2, <2>1, DeleteCalls DEF FreeWhenDown
<1>3. CASE \A q \in Queries : ~Submit(q) /\ ~Delete(q)
  BY <1>3, UsesKept DEF FreeWhenDown, ResDelete
<1>. QED  BY <1>1, <1>2, <1>3

\* Once the resolver is deleted no descriptor is monitored, no event scheduled
\* and no query listed.
THEOREM Quiet == ASSUME SafeCancel, ~ForgetsFailed PROVE Spec => []QuietAfterDelete
<1>1. Init => FreeWhenDown
  BY DEF Init, FreeWhenDown
<1>2. IInv /\ FreeWhenDown /\ [Next]_vars => FreeWhenDown'
  BY FreeKeeps
<1>3. IInv /\ FreeWhenDown /\ ListIndexed => QuietAfterDelete
  <2>. SUFFICES ASSUME IInv, FreeWhenDown, ListIndexed, ~up
                PROVE  /\ timers = {} /\ doneNow = {} /\ queryList = <<>>
                       /\ \A f \in Families : wr[f].fd = "none" /\ rd[f].fd = "none"
    BY DEF QuietAfterDelete
  <2>1. \A q \in Queries : /\ app[q].use = "free" /\ qry[q].status = "VOID"
                            /\ q \notin timers /\ q \notin doneNow
    BY DEF FreeWhenDown, IInv, InOrder
  <2>2. timers = {} /\ doneNow = {}
    BY <2>1 DEF IInv, TypeOK
  <2>3. queryList = <<>>
    <3>1. queryList \in Seq(Queries)
      BY DEF IInv, TypeOK
    <3>2. \A i \in DOMAIN queryList : FALSE
      BY <2>1, <3>1 DEF ListIndexed
    <3>3. Len(queryList) = 0
      <4>1. Len(queryList) \in Nat /\ (Len(queryList) # 0 => 1 \in DOMAIN queryList)
        BY <3>1
      <4>. QED  BY <3>2, <4>1
    <3>. QED  BY <3>1, <3>3
  <2>4. ASSUME NEW f \in Families
        PROVE  wr[f].fd = "none" /\ rd[f].fd = "none"
    <3>1. WaitersOf(qry, "UDP_WANT_SEND")[f] = {} /\ WaitersOf(qry, "UDP_WANT_RECV")[f] = {}
      BY <2>1 DEF WaitersOf
    <3>. QED  BY <3>1 DEF IInv, Follows
  <2>. QED  BY <2>2, <2>3, <2>4
<1>. QED  BY <1>1, <1>2, <1>3, Indexed, Invariance, PTL DEF Spec

-----------------------------------------------------------------------------
(* Nothing is forgotten.  With servers of both families a query may wait on  *)
(* a socket nobody has opened (the run udp_closed_socket); with one family   *)
(* the socket is open while any query is pending.                            *)

OneFamily == \A s, t \in ServerIndex : FamilyOf[s] = FamilyOf[t]

Home == FamilyOf[0]

NotClosed(side) == \A f \in Families : side[f].fd # "closed"

Ready == NotClosed(wr) /\ \A q \in Queries : Pending(q) => Home \in sock

LEMMA FamHome ==
  ASSUME OneFamily, NEW r \in Query
  PROVE  Fam(r) = Home
<1>1. 0 \in ServerIndex /\ r.curr \in ServerIndex
  BY ConstantsAssumption DEF ServerIndex, Query
<1>. QED  BY <1>1 DEF OneFamily, Fam, Home

LEMMA SideNotClosed ==
  ASSUME NEW side \in Side, NotClosed(side), NEW g \in Families
  PROVE  /\ NotClosed(Done(side, g))
         /\ \A open : g \in open => NotClosed(Want(side, g, open))
<1>1. ASSUME NEW open, g \in open, NEW f \in Families
      PROVE  Want(side, g, open)[f].fd # "closed"
  BY <1>1 DEF Want, NotClosed, Side, Waits
<1>2. ASSUME NEW f \in Families
      PROVE  Done(side, g)[f].fd # "closed"
  BY <1>2 DEF Done, NotClosed, Side, Waits
<1>. QED  BY <1>1, <1>2 DEF NotClosed

LEMMA SwitchNotClosed ==
  ASSUME OneFamily, TypeOK, Home \in sock, NEW q \in Queries, NEW code,
         NEW w \in Side, NotClosed(w), SwitchElseScheduleFinish(q, code, w)
  PROVE  NotClosed(wr')
<1>. DEFINE r == Switched(qry[q])
<1>1. r \in Query
  BY SwitchedType DEF TypeOK
<1>2. Fam(r) = Home /\ Home \in Families
  BY <1>1, FamHome, FamType
<1>. HIDE DEF r
<1>3. wr' = w \/ wr' = Want(w, Fam(r), sock)
  BY DEF SwitchElseScheduleFinish, r
<1>. QED  BY <1>2, <1>3, SideNotClosed

LEMMA StartNotClosed ==
  ASSUME OneFamily, TypeOK, NotClosed(wr), NEW q, NEW r \in Query, NEW a,
         StartQuery(q, r, a)
  PROVE  NotClosed(wr') /\ sock \subseteq sock' /\ Home \in sock'
<1>1. Fam(r) = Home /\ Home \in Families /\ wr \in Side
  BY FamHome, FamType DEF TypeOK, Side
<1>2. sock' = sock \cup {Fam(r)} /\ wr' = Want(wr, Fam(r), sock')
  BY DEF StartQuery
<1>. QED  BY <1>1, <1>2, SideNotClosed

LEMMA QueryDoneNotClosed ==
  ASSUME OneFamily, TypeOK, NotClosed(wr), NEW q \in Queries, NEW r \in Query, NEW miss,
         NEW a, QueryDone(q, r, miss, a), r.status = "VOID"
  PROVE  NotClosed(wr') /\ sock \subseteq sock'
<1>. DEFINE next == [r EXCEPT !.search = @ + 1]
<1>. DEFINE again == [next EXCEPT !.code = "VOID", !.retries = Retry, !.first = r.curr]
<1>1. UNCHANGED <<sock, wr>> \/ StartQuery(q, again, a)
  BY DEF QueryDone, Callback
<1>2. next \in Query /\ next.status = "VOID" /\ r.curr \in ServerIndex
  BY MissType DEF Query
<1>. HIDE DEF next
<1>3. again \in Query
  BY <1>2, AgainType
<1>. HIDE DEF again
<1>. QED  BY <1>1, <1>3, StartNotClosed DEF NotClosed

LEMMA HandlersReady ==
  ASSUME OneFamily, IInv, Ready, Writing \/ Reading \/
         \E q \in Queries : OnUdpReadTimeout(q) \/ QueryDoneNow(q) \/ Tcp(q)
  PROVE  NotClosed(wr') /\ sock \subseteq sock'
<1>1. TypeOK /\ NotClosed(wr) /\ wr \in Side /\ qry \in [Queries -> Query]
  BY DEF IInv, TypeOK, Ready, Side
<1>2. ASSUME NEW q \in Queries, app[q].use = "held", app[q].told = 0
      PROVE  Home \in sock /\ Fam(qry[q]) \in Families
  BY <1>1, <1>2, FamType DEF Ready, Pending
<1>3. ASSUME NEW f \in Families, NEW q \in Queries, OnUdpWriteFail(f, q) \/ OnUdpWriteOk(f, q)
      PROVE  NotClosed(wr') /\ sock \subseteq sock'
  <2>1. /\ Home \in sock /\ NotClosed(Done(wr, Fam(qry[q])))
        /\ Done(wr, Fam(qry[q])) \in Side
    <3>1. FirstWriter(q)
      BY <1>3 DEF OnUdpWriteFail, OnUdpWriteOk
    <3>2. Follows(Done(wr, Fam(qry[q])), Rest(qry, q, "UDP_WANT_SEND"))
      BY <3>1, WriterType, WriterLeaves
    <3>. QED  BY <1>1, <1>2, <3>1, <3>2, WriterType, SideNotClosed DEF Follows
  <2>. QED  BY <1>1, <1>3, <2>1, SwitchNotClosed DEF OnUdpWriteFail, OnUdpWriteOk
<1>4. ASSUME NEW q \in Queries, OnUdpReadTimeout(q)
      PROVE  NotClosed(wr') /\ sock \subseteq sock'
  <2>1. Home \in sock
    BY <1>2, <1>4 DEF OnUdpReadTimeout, IInv, InOrder
  <2>. QED  BY <1>1, <1>4, <2>1, SwitchNotClosed DEF OnUdpReadTimeout
<1>5. ASSUME NEW q \in Queries, NEW code \in Code
      PROVE  LET u == [qry[q] EXCEPT !.status = "VOID"]
             IN  [u EXCEPT !.code = code] \in Query /\ [u EXCEPT !.code = code].status = "VOID"
  <2>. DEFINE u == [qry[q] EXCEPT !.status = "VOID"]
  <2>1. u \in Query /\ u.status = "VOID"
    BY <1>1, StatusType
  <2>. HIDE DEF u
  <2>. QED  BY <2>1, CodeType DEF u
<1>6. ASSUME NEW f \in Families, NEW m \in wire, NEW q \in Queries, OnUdpRead(f, m, q)
      PROVE  NotClosed(wr') /\ sock \subseteq sock'
  <2>. DEFINE r == [qry[q] EXCEPT !.status = "VOID"]
  <2>1. \/ \E code \in Code : \E miss, a : QueryDone(q, [r EXCEPT !.code = code], miss, a)
        \/ UNCHANGED <<sock, wr>>
    <3>1. {"FLAGS", "MALLOC", "OK"} \subseteq Code
      BY DEF Code, AnswerCode
    <3>. QED  BY <1>6, <3>1 DEF OnUdpRead
  <2>2. ASSUME NEW code \in Code
        PROVE  [r EXCEPT !.code = code] \in Query /\ [r EXCEPT !.code = code].status = "VOID"
    BY <1>5
  <2>. HIDE DEF r
  <2>. QED  BY <1>1, <2>1, <2>2, QueryDoneNotClosed DEF NotClosed
<1>7. ASSUME NEW q \in Queries, QueryDoneNow(q)
      PROVE  NotClosed(wr') /\ sock \subseteq sock'
  BY <1>1, <1>7, QueryDoneNotClosed DEF QueryDoneNow, IInv, InOrder
<1>8. ASSUME NEW q \in Queries, Tcp(q)
      PROVE  NotClosed(wr') /\ sock \subseteq sock'
  <2>1. CASE TcpGoesOn(q)
    BY <1>1, <2>1 DEF TcpGoesOn, NotClosed
  <2>2. CASE TcpAnswered(q)
    <3>. DEFINE r == [qry[q] EXCEPT !.status = "VOID"]
    <3>1. PICK code \in {"OK", "TRUNC", "FLAGS", "MALLOC"}, miss \in BOOLEAN :
            QueryDone(q, [r EXCEPT !.code = code], miss, app)
      BY <2>2 DEF TcpAnswered
    <3>2. code \in Code
      BY DEF Code, AnswerCode
    <3>3. [r EXCEPT !.code = code] \in Query /\ [r EXCEPT !.code = code].status = "VOID"
      BY <3>2, <1>5
    <3>. HIDE DEF r
    <3>. QED  BY <1>1, <3>1, <3>3, QueryDoneNotClosed
  <2>. QED  BY <1>8, <2>1, <2>2 DEF Tcp
<1>. QED  BY <1>3, <1>4, <1>6, <1>7, <1>8 DEF Writing, Reading

LEMMA SubmitReady ==
  ASSUME OneFamily, IInv, CalledWhileHeld, Ready, NEW q \in Queries, Submit(q)
  PROVE  Ready'
<1>. DEFINE r == [resolver |-> TRUE, index |-> Len(queryList), id |-> nextQueryId,
                  first |-> nextServer, curr |-> nextServer, retries |-> Retry,
                  search |-> 0, status |-> "VOID", code |-> "VOID"]
<1>. DEFINE v == [use |-> "held", told |-> 0, serial |-> serial + 1,
                  heard |-> 0, turns |-> 0]
<1>. DEFINE a == [app EXCEPT ![q] = v]
<1>. DEFINE u == IF ForgetsFailed THEN "free" ELSE "failed"
<1>1. TypeOK /\ NotClosed(wr) /\ app \in [Queries -> View]
  BY DEF IInv, TypeOK, Ready
<1>2. r \in Query
  BY <1>1, ConstantsAssumption DEF Query, TypeOK, Code
<1>3. \/ StartQuery(q, r, a)
      \/ app' = [a EXCEPT ![q].use = u] /\ UNCHANGED <<sock, wr>>
  BY DEF Submit
<1>4. \A p \in Queries \ {q} : app'[p] = app[p]
  BY SubmitCalls
<1>5. CASE StartQuery(q, r, a)
  <2>. HIDE DEF r, a
  <2>1. NotClosed(wr') /\ Home \in sock'
    BY <1>1, <1>2, <1>5, StartNotClosed
  <2>. QED  BY <2>1 DEF Ready, Pending
<1>6. CASE app' = [a EXCEPT ![q].use = u] /\ UNCHANGED <<sock, wr>>
  <2>1. app'[q].use = u
    BY <1>1, <1>6
  <2>2. u # "held"
    OBVIOUS
  <2>. HIDE DEF u, a, r, v
  <2>. QED  BY <1>4, <1>6, <2>1, <2>2 DEF Ready, Pending, NotClosed
<1>. QED  BY <1>3, <1>5, <1>6

LEMMA ReadyKeeps ==
  ASSUME OneFamily, IInv, CalledWhileHeld, Ready, [Next]_vars
  PROVE  Ready'
<1>1. TypeOK /\ wr \in Side /\ qry \in [Queries -> Query]
  BY DEF IInv, TypeOK, Side
<1>2. ASSUME NEW q \in Queries, Delete(q)
      PROVE  Ready'
  <2>1. sock' = sock /\ (wr' = wr \/ wr' = Done(wr, Fam(qry[q])))
    BY <1>2 DEF Delete, StatusDone
  <2>2. Fam(qry[q]) \in Families
    BY <1>1, FamType
  <2>. QED  BY <1>1, <1>2, <2>1, <2>2, DeleteCalls, SideNotClosed DEF Ready, Pending, NotClosed
<1>3. CASE ResDelete
  BY <1>3 DEF ResDelete, Ready, Pending, NotClosed
<1>4. CASE UNCHANGED vars
  BY <1>4 DEF vars, Ready, Pending, NotClosed
<1>5. CASE Writing \/ Reading \/
           \E q \in Queries : OnUdpReadTimeout(q) \/ QueryDoneNow(q) \/ Tcp(q)
  <2>1. NotClosed(wr') /\ sock \subseteq sock'
    BY <1>5, HandlersReady
  <2>2. CASE CallsNobody
    BY <2>1, <2>2 DEF Ready, Pending, CallsNobody
  <2>3. ASSUME NEW q \in Queries, CallsBack(q)
        PROVE  Ready'
    BY <2>1, <2>3 DEF Ready, Pending, CallsBack, Tells
  <2>. QED  BY <1>5, <2>2, <2>3, StepCalls
<1>. QED  BY <1>2, <1>3, <1>4, <1>5, SubmitReady DEF Next, Application

\* A submitted query is never forgotten: until its callback the event loop has
\* something to do for it, and afterwards nothing is; if all servers are of one
\* family.
THEOREM NeverForgotten == ASSUME SafeCancel, OneFamily PROVE Spec => []PendingIsScheduled
<1>1. Init => CalledWhileHeld /\ Ready
  BY DEF Init, CalledWhileHeld, Ready, NotClosed, Pending
<1>2. IInv /\ CalledWhileHeld /\ [Next]_vars => CalledWhileHeld'
  BY CalledKeeps
<1>3. IInv /\ CalledWhileHeld /\ Ready /\ [Next]_vars => Ready'
  BY ReadyKeeps
<1>4. IInv /\ Ready => PendingIsScheduled
  <2>. SUFFICES ASSUME IInv, Ready, NEW q \in Queries
                PROVE  Pending(q) <=> Due(q)
    BY DEF PendingIsScheduled
  <2>1. Pending(q) <=> (qry[q].status # "VOID" \/ q \in doneNow)
    BY DEF Pending, IInv, InOrder
  <2>2. /\ qry[q].status \in {"VOID"} \cup UdpStatus \cup TcpStatus
        /\ Fam(qry[q]) \in Families /\ wr \in Side
    BY FamType DEF IInv, TypeOK, Query, Side
  <2>3. ASSUME qry[q].status = "UDP_WANT_SEND"
        PROVE  wr[Fam(qry[q])].fd = "open"
    <3>1. WaitersOf(qry, "UDP_WANT_SEND")[Fam(qry[q])] # {}
      BY <2>2, <2>3 DEF WaitersOf
    <3>2. wr[Fam(qry[q])].fd \notin {"none", "closed"}
      BY <2>2, <3>1 DEF IInv, Follows, Ready, NotClosed
    <3>. QED  BY <2>2, <3>2 DEF Side, Waits
  <2>4. qry[q].status = "UDP_WANT_RECV" => q \in timers
    BY DEF IInv, InOrder
  <2>. QED  BY <2>1, <2>2, <2>3, <2>4 DEF Due, InTcp, UdpStatus, TcpStatus
<1>. QED  BY <1>1, <1>2, <1>3, <1>4, Invariance, PTL DEF Spec
=============================================================================
