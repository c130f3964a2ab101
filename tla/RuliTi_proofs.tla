---------------------------- MODULE RuliTi_proofs ----------------------------
(***************************************************************************)
(* Proofs about RuliTi, for any number of handles and of queries, and any   *)
(* number of ids.                                                          *)
(***************************************************************************)
EXTENDS RuliTi, TLAPS

\* An object belongs to who it was made for.
LEMMA OfWhom ==
  ASSUME NEW w, NEW things, NEW t, NEW v
  PROVE  <<t, v>> \in Of(w, things) <=> v = w /\ t \in things
BY DEF Of

LEMMA AreThings ==
  /\ \A mode : Made(mode) \subseteq Things
  /\ \A k : Parts(k) \subseteq Things
  /\ {"answer", "walk", "parse", "dname", "dom_str", "qry", "search", "inside", "qbuf", "server_list",
      "servers", "source", "res_interface"} \subseteq Things
BY DEF Things, Made, Parts

\* What is added to the heap is of a kind, and somebody's.
LEMMA HeapGrows ==
  ASSUME NEW w \in Handles \cup Queries, NEW things \in SUBSET Things
  PROVE  Of(w, things) \subseteq Things \X (Handles \cup Queries)
BY DEF Of

LEMMA EntriesAre ==
  ASSUME NEW q \in Queries
  PROVE  /\ Own(q) \in Entries /\ Aux(q) \in Entries /\ Own(q) # Aux(q)
         /\ Own(q)[1] = q /\ Own(q)[2] = "own" /\ Aux(q)[1] = q /\ Aux(q)[2] = "aux"
         /\ \A p \in Queries : /\ Own(p) = Own(q) => p = q
                               /\ Aux(p) = Aux(q) => p = q
                               /\ Own(p) # Aux(q)
         /\ \A e \in Entries : e[1] = q => e = Own(q) \/ e = Aux(q)
BY DEF Own, Aux, Entries

LEMMA EntryIs ==
  ASSUME NEW e \in Entries
  PROVE  e[1] \in Queries /\ ((e = Own(e[1]) /\ e[2] = "own") \/ (e = Aux(e[1]) /\ e[2] = "aux"))
BY DEF Own, Aux, Entries

LEMMA MembersAre ==
  ASSUME NEW mode, NEW m \in MembersFor(mode)
  PROVE  /\ m \in [Pointers -> Things \cup {"null", "junk"}]
         /\ m["interface"] = "interface" /\ m["server_list"] = "server_list" /\ m["source_sys"] = "source"
         /\ mode = "servers" =>
              m["handler"] = "handler" /\ m["ruli_res_ctx"] = "res" /\ m["search_res"] = "null"
         /\ mode # "servers" =>
              /\ m["handler"] \in {"null", "junk"}
              /\ m["ruli_res_ctx"] = "search_res" /\ m["search_res"] = "search_res"
<1>. DEFINE common == [NoMembers EXCEPT !["interface"] = "interface", !["server_list"] = "server_list",
                                        !["source_sys"] = "source"]
<1>1. /\ common \in [Pointers -> {"null", "interface", "server_list", "source"}]
      /\ common["interface"] = "interface" /\ common["server_list"] = "server_list"
      /\ common["source_sys"] = "source" /\ common["search_res"] = "null"
  BY DEF NoMembers, Pointers
<1>2. {"interface", "server_list", "source", "handler", "res", "search_res"} \subseteq Things
  BY DEF Things, Made
<1>3. CASE mode = "servers"
  <2>1. m = [common EXCEPT !["handler"] = "handler", !["ruli_res_ctx"] = "res"]
    BY <1>3 DEF MembersFor
  <2>. QED  BY <1>1, <1>2, <1>3, <2>1 DEF Pointers
<1>4. CASE mode # "servers"
  <2>1. PICK junk \in {"null", "junk"} :
          m = [common EXCEPT !["handler"] = junk, !["search_res"] = "search_res", !["ruli_res_ctx"] = "search_res"]
    BY <1>4 DEF MembersFor
  <2>. QED  BY <1>1, <1>2, <1>4, <2>1 DEF Pointers
<1>. QED  BY <1>3, <1>4

\* The variables keep their types (struct ti_resolver_ctx_t, its queries and
\* the resolver's list of them).
THEOREM TypeCorrect == Spec => []TypeOK
<1>1. Init => TypeOK
  <2>. SUFFICES ASSUME Init PROVE TypeOK
    OBVIOUS
  <2>1. member \in [Pointers -> Things \cup {"null", "junk"}]
    BY DEF Init, NoMembers
  <2>. QED  BY <2>1 DEF Init, TypeOK
<1>2. ASSUME TypeOK, [Next]_vars PROVE TypeOK'
  <2>. USE <1>2 DEF TypeOK
  <2>1. CASE UNCHANGED vars
    BY <2>1 DEF vars, queryVars
  <2>2. ASSUME NEW h \in Handles, NEW mode \in {"servers", "resolv.conf"}, InitResolver(h, mode)
        PROVE  TypeOK'
    <3>1. member' \in [Pointers -> Things \cup {"null", "junk"}]
      BY <2>2, MembersAre DEF InitResolver
    <3>2. heap' \subseteq Things \X (Handles \cup Queries)
      BY <2>2, HeapGrows, AreThings DEF InitResolver
    <3>. QED  BY <2>2, <3>1, <3>2 DEF InitResolver
  <2>3. ASSUME NEW h \in Handles, NEW mode \in {"servers", "resolv.conf"}, InitResolverFails(h, mode)
        PROVE  TypeOK'
    <3>1. \A left \in LeftBehind(mode) : left \subseteq Things
      BY AreThings DEF LeftBehind
    <3>2. heap' \subseteq Things \X (Handles \cup Queries)
      BY <2>3, <3>1, HeapGrows DEF InitResolverFails
    <3>. QED  BY <2>3, <3>2 DEF InitResolverFails, queryVars
  <2>4. CASE ExitResolver
    <3>1. NoMembers \in [Pointers -> Things \cup {"null", "junk"}]
      BY DEF NoMembers
    <3>. QED  BY <2>4, <3>1 DEF ExitResolver, Frees, queryVars
  <2>5. CASE StartScheduler \/ SchedulerReturns \/ ReadsDeadEntry
    BY <2>5 DEF StartScheduler, SchedulerReturns, ReadsDeadEntry, queryVars
  <2>6. ASSUME NEW e \in Entries, Answered(e) PROVE TypeOK'
    <3>1. heap' \subseteq Things \X (Handles \cup Queries)
      BY <2>6, HeapGrows, AreThings, EntryIs DEF Answered
    <3>. QED  BY <2>6, <3>1 DEF Answered
  <2>7. ASSUME NEW q \in Queries, NEW k \in {"host", "srv"},
               Submit(q, k) \/ SubmitFails(q, k) \/ Refused(q)
        PROVE  TypeOK'
    <3>1. heap' \subseteq Things \X (Handles \cup Queries)
      BY <2>7, HeapGrows, AreThings DEF Submit, SubmitFails, Refused
    <3>2. listed' \subseteq Entries /\ id' \in [Entries -> Nat] /\ next' \in Nat
      BY <2>7, EntriesAre DEF Submit, SubmitFails, Refused, Lists
    <3>3. /\ kind' \in [Queries -> {"none", "host", "srv"}]
          /\ stage' \in [Queries -> {"unused", "waiting", "walking", "calling"} \cup Ends]
          /\ from' \in [Queries -> Handles \cup {"nobody"}]
          /\ UNCHANGED <<ti, gone, member, due, caller, scheduler, broken>>
      BY <2>7 DEF Submit, SubmitFails, Refused, Submits, Ends
    <3>. QED  BY <3>1, <3>2, <3>3
  <2>8. ASSUME NEW q \in Queries, Cancel(q) PROVE TypeOK'
    <3>1. PICK e \in listed :
            IF e = Own(e[1]) /\ kind[e[1]] = kind[q]
              THEN /\ listed' = listed \ {e}
                   /\ stage' = [stage EXCEPT ![e[1]] = "cancelled"]
                   /\ Frees(FreedAtCancel(e[1]), {})
              ELSE broken' = "wrong_query" /\ UNCHANGED <<listed, stage, heap>>
      BY <2>8 DEF Cancel
    <3>. QED  BY <2>8, <3>1 DEF Cancel, Frees, Ends
  <2>9. ASSUME NEW q \in Queries, Done(q) PROVE TypeOK'
    <3>1. heap' \subseteq Things \X (Handles \cup Queries)
      BY <2>9, HeapGrows, AreThings DEF Done
    <3>2. listed' \subseteq Entries /\ id' \in [Entries -> Nat] /\ next' \in Nat
      BY <2>9, EntriesAre DEF Done, Lists
    <3>. QED  BY <2>9, <3>1, <3>2 DEF Done, Call
  <2>10. ASSUME NEW q \in Queries, WalkDone(q) PROVE TypeOK'
    <3>1. heap' \subseteq Things \X (Handles \cup Queries)
      BY <2>10, HeapGrows, AreThings DEF WalkDone, Frees
    <3>2. listed' \subseteq Entries /\ id' \in [Entries -> Nat] /\ next' \in Nat
      BY <2>10, EntriesAre DEF WalkDone, Lists
    <3>3. broken' \in {"no", "freed_twice", "dead_srv_query"}
      BY <2>10 DEF WalkDone, Frees
    <3>. QED  BY <2>10, <3>1, <3>2, <3>3 DEF WalkDone, Call
  <2>11. ASSUME NEW q \in Queries, Cleans(q) PROVE TypeOK'
    <3>1. heap' \subseteq Things \X (Handles \cup Queries)
      BY <2>11, HeapGrows, AreThings DEF Cleans, Frees
    <3>2. broken' \in {"no", "freed_twice"}
      BY <2>11 DEF Cleans, Frees
    <3>. QED  BY <2>11, <3>1, <3>2 DEF Cleans, Ends
  <2>12. ASSUME NEW q \in Queries, Returns(q) PROVE TypeOK'
    BY <2>12 DEF Returns
  <2>. QED
    BY <2>1, <2>2, <2>3, <2>4, <2>5, <2>6, <2>7, <2>8, <2>9, <2>10, <2>11, <2>12 DEF Next
<1>. QED  BY <1>1, <1>2, PTL DEF Spec

-----------------------------------------------------------------------------
(* The inductive invariant: what is in the heap, exactly enough.  What a    *)
(* query may have left and what it must still have depend on its stage.     *)

Walk(q) == IF Aux(q) \in listed THEN {"walk"} ELSE {}

\* What a cancel leaves.
Kept(q) == IF kind[q] = "host" THEN {"dom_str"} ELSE {"search", "qbuf"}

May(q) ==
  ({"walk"} \cap Walk(q)) \cup
  (IF AtWork(q) THEN Parts(kind[q]) \cup {"answer"}
   ELSE IF stage[q] = "cancelled" THEN Kept(q)
   ELSE IF stage[q] \in {"failed", "refused"} THEN {"dname"}
   ELSE IF stage[q] = "cleaned" THEN {"parse"} ELSE {})

Must(q) == Walk(q) \cup (IF AtWork(q) THEN Parts(kind[q]) ELSE {})

QueryInv(q) ==
  /\ \A t \in Things : <<t, q>> \in heap => t \in May(q)
  /\ \A t \in Must(q) : <<t, q>> \in heap
  /\ Own(q) \in listed <=> AtWork(q) \/ (stage[q] = "refused" /\ from[q] = ti)
  /\ AtWork(q) => from[q] = ti /\ kind[q] \in {"host", "srv"}
  /\ stage[q] = "refused" => kind[q] = "host"
  /\ Own(q) \in due => stage[q] \in {"waiting", "cancelled"}
  /\ Aux(q) \in due => Aux(q) \in listed
  /\ Aux(q) \in listed => stage[q] \in {"walking", "cancelled"}
  /\ stage[q] = "walking" => kind[q] = "srv"
  /\ stage[q] = "unused" <=> from[q] = "nobody"

Mode == IF member["search_res"] = "null" THEN "servers" ELSE "resolv.conf"

HandleInv ==
  /\ ti \in Handles =>
       /\ gone[ti] = "unused"
       /\ member \in MembersFor(Mode)
       /\ \A t \in Made(Mode) : <<t, ti>> \in heap
  /\ \A h \in Handles, t \in Things : <<t, h>> \in heap =>
       \/ h = ti /\ t \in Made(Mode)
       \/ gone[h] = "failed" /\ t \in {"server_list", "servers", "source", "res_interface"}
  /\ \A q \in Queries : from[q] \in Handles /\ from[q] # ti => gone[from[q]] # "unused"
  /\ ti = "nobody" => listed = {} /\ due = {}

\* The entries whose number the resolver or the application knows.
Numbered ==
  listed \cup {Own(q) : q \in {p \in Queries : from[p] = ti /\ stage[p] \notin {"unused", "failed"}}}

IdInv ==
  /\ \A e \in Numbered : id[e] < next
  /\ \A e, f \in Numbered : id[e] = id[f] => e = f

Broken == broken # "freed_twice" /\ (broken = "wrong_query" => next > IdSpace)

IInv == Broken /\ HandleInv /\ (\A q \in Queries : QueryInv(q)) /\ (ti \in Handles => IdInv)

-----------------------------------------------------------------------------
(* What a step leaves alone stays right.                                   *)

LEMMA QueryKept ==
  ASSUME NEW q \in Queries, QueryInv(q), ti' = ti,
         stage'[q] = stage[q], kind'[q] = kind[q], from'[q] = from[q],
         Own(q) \in listed' <=> Own(q) \in listed, Aux(q) \in listed' <=> Aux(q) \in listed,
         Own(q) \in due' => Own(q) \in due, Aux(q) \in due' => Aux(q) \in due,
         \A t \in Things : <<t, q>> \in heap' <=> <<t, q>> \in heap
  PROVE  QueryInv(q)'
<1>1. AtWork(q)' = AtWork(q) /\ Walk(q)' = Walk(q) /\ Kept(q)' = Kept(q)
  BY DEF AtWork, Walk, Kept
<1>2. May(q)' = May(q) /\ Must(q)' = Must(q)
  BY <1>1 DEF May, Must
<1>3. Must(q) \subseteq Things
  BY AreThings DEF Must, Walk
<1>. QED  BY <1>1, <1>2, <1>3 DEF QueryInv

\* No query's object is a handle's.
LEMMA Apart == Handles \cap Queries = {} /\ "nobody" \notin Handles \cup Queries
BY ConstantsAssumption

LEMMA HandleKept ==
  ASSUME HandleInv, ti' = ti, gone' = gone, member' = member,
         \A h \in Handles, t \in Things : <<t, h>> \in heap' <=> <<t, h>> \in heap,
         \A q \in Queries : from'[q] \in {from[q], ti},
         ti = "nobody" => listed' = {} /\ due' = {}
  PROVE  HandleInv'
<1>1. Mode' = Mode /\ MembersFor(Mode)' = MembersFor(Mode) /\ Made(Mode)' = Made(Mode)
  BY DEF Mode, MembersFor, Made, NoMembers
<1>2. Made(Mode) \subseteq Things
  BY AreThings
<1>3. \A q \in Queries : from'[q] \in Handles /\ from'[q] # ti' => from'[q] = from[q]
  OBVIOUS
<1>. QED  BY <1>1, <1>2, <1>3 DEF HandleInv

LEMMA IdsKept ==
  ASSUME IdInv, TypeOK, Numbered \subseteq Entries, id' = id, next' \in {next, next + 1}, Numbered' \subseteq Numbered
  PROVE  IdInv'
BY DEF IdInv, TypeOK

LEMMA IdGiven ==
  ASSUME IdInv, TypeOK, Numbered \subseteq Entries, NEW e \in Entries,
         id' = [id EXCEPT ![e] = next], next' = next + 1, Numbered' \subseteq Numbered \cup {e}
  PROVE  IdInv'
<1>1. id'[e] = next /\ \A f \in Numbered \ {e} : id'[f] = id[f]
  BY DEF TypeOK
<1>2. \A f \in Numbered \ {e} : id'[f] < next
  BY <1>1 DEF IdInv
<1>3. \A f \in Numbered' : id'[f] < next'
  BY <1>1, <1>2 DEF TypeOK
<1>4. ASSUME NEW f \in Numbered', NEW g \in Numbered', id'[f] = id'[g] PROVE f = g
  BY <1>1, <1>2, <1>4 DEF IdInv, TypeOK
<1>. QED  BY <1>3, <1>4 DEF IdInv

LEMMA NumberedAre == ASSUME TypeOK PROVE Numbered \subseteq Entries
BY EntriesAre DEF Numbered, TypeOK

\* A step about query q: the other queries and the handle are as they were.
OnlyOf(q) ==
  /\ ti' = ti /\ gone' = gone /\ member' = member
  /\ \A p \in Queries \ {q} : stage'[p] = stage[p] /\ kind'[p] = kind[p] /\ from'[p] = from[p]
  /\ from'[q] \in {from[q], ti}
  /\ \A e \in Entries : e[1] # q => (e \in listed' <=> e \in listed) /\ (e \in due' => e \in due)
  /\ \A t \in Things, w \in Handles \cup Queries : w # q => (<<t, w>> \in heap' <=> <<t, w>> \in heap)

LEMMA OneQueryMoves ==
  ASSUME NEW q \in Queries, IInv, OnlyOf(q), ti \in Handles, Broken', QueryInv(q)', IdInv'
  PROVE  IInv'
<1>1. ASSUME NEW p \in Queries \ {q} PROVE QueryInv(p)'
  BY EntriesAre, QueryKept DEF OnlyOf, IInv
<1>2. HandleInv'
  BY HandleKept, Apart DEF OnlyOf, IInv
<1>. QED  BY <1>1, <1>2 DEF IInv

\* What is freed and added of q touches no other's memory.
LEMMA HeapOfOne ==
  ASSUME NEW q, NEW freed, NEW added, heap' = (heap \ Of(q, freed)) \cup Of(q, added)
  PROVE  \A t, w : <<t, w>> \in heap' <=>
           \/ <<t, w>> \in heap /\ ~(w = q /\ t \in freed)
           \/ w = q /\ t \in added
BY OfWhom

LEMMA HeapGrowsOfOne ==
  ASSUME NEW q, NEW added, heap' = heap \cup Of(q, added)
  PROVE  \A t, w : <<t, w>> \in heap' <=> <<t, w>> \in heap \/ (w = q /\ t \in added)
BY OfWhom

\* The numbers after a step of q that lists nothing new.
LEMMA NumberedKept ==
  ASSUME NEW q \in Queries, TypeOK, OnlyOf(q), listed' \subseteq listed,
         Own(q) \in Numbered' => Own(q) \in Numbered
  PROVE  Numbered' \subseteq Numbered
<1>1. ASSUME NEW e \in Numbered' PROVE e \in Numbered
  <2>1. CASE e \in listed'
    BY <2>1 DEF Numbered
  <2>2. CASE e = Own(q)
    BY <1>1, <2>2
  <2>3. ASSUME NEW p \in Queries \ {q}, e = Own(p), from'[p] = ti', stage'[p] \notin {"unused", "failed"}
        PROVE  e \in Numbered
    BY <2>3 DEF OnlyOf, Numbered
  <2>. QED  BY <1>1, <2>1, <2>2, <2>3 DEF Numbered
<1>. QED  BY <1>1

LEMMA NumberedGrows ==
  ASSUME NEW q \in Queries, NEW e \in Entries, TypeOK, OnlyOf(q), listed' = listed \cup {e},
         Own(q) \in Numbered' => Own(q) \in Numbered \cup {e}
  PROVE  Numbered' \subseteq Numbered \cup {e}
<1>1. ASSUME NEW f \in Numbered' PROVE f \in Numbered \cup {e}
  <2>1. CASE f \in listed'
    BY <2>1 DEF Numbered
  <2>2. CASE f = Own(q)
    BY <1>1, <2>2
  <2>3. ASSUME NEW p \in Queries \ {q}, f = Own(p), from'[p] = ti', stage'[p] \notin {"unused", "failed"}
        PROVE  f \in Numbered
    BY <2>3 DEF OnlyOf, Numbered
  <2>. QED  BY <1>1, <2>1, <2>2, <2>3 DEF Numbered
<1>. QED  BY <1>1

LEMMA PartsAre ==
  /\ Parts("host") = {"qry", "dname", "dom_str"} /\ Parts("srv") = {"search", "inside", "qbuf"}
  /\ \A k : "answer" \notin Parts(k) /\ "walk" \notin Parts(k) /\ "parse" \notin Parts(k)
BY DEF Parts

-----------------------------------------------------------------------------
(* The calls that submit.                                                  *)

LEMMA SubmitKeeps ==
  ASSUME NEW q \in Queries, NEW k \in {"host", "srv"}, TypeOK, TypeOK', IInv,
         Submit(q, k) \/ SubmitFails(q, k) \/ Refused(q)
  PROVE  IInv'
<1>. DEFINE e == Own(q)
<1>1. PICK kk \in {"host", "srv"}, ends \in {"waiting", "failed", "refused"} :
        /\ Submits(q, kk, ends)
        /\ ends = "refused" => kk = "host"
        /\ \/ ends = "waiting" /\ Lists(e) /\ heap' = heap \cup Of(q, Parts(kk))
           \/ ends = "failed" /\ UNCHANGED <<listed, id>> /\ next' \in {next, next + 1} /\ heap' = heap
           \/ ends = "failed" /\ UNCHANGED <<listed, id, next>> /\ heap' = heap \cup Of(q, {"dname"})
           \/ ends = "refused" /\ Lists(e) /\ heap' = heap \cup Of(q, {"dname"})
  BY DEF Submit, SubmitFails, Refused, TypeOK
<1>2. /\ stage[q] = "unused" /\ ti \in Handles /\ broken' = broken /\ due' = due
      /\ ti' = ti /\ gone' = gone /\ member' = member
      /\ kind' = [kind EXCEPT ![q] = kk] /\ stage' = [stage EXCEPT ![q] = ends]
      /\ from' = [from EXCEPT ![q] = ti]
  BY <1>1 DEF Submits, TypeOK
<1>3. kind'[q] = kk /\ stage'[q] = ends /\ from'[q] = ti
  BY <1>2 DEF TypeOK
<1>4. QueryInv(q) /\ ~AtWork(q)
  BY <1>2 DEF IInv, AtWork
<1>5. Own(q) \notin listed /\ Aux(q) \notin listed /\ Own(q) \notin due /\ Aux(q) \notin due
  BY <1>2, <1>4 DEF QueryInv
<1>6. \A t \in Things : <<t, q>> \notin heap
  BY <1>2, <1>4, <1>5 DEF QueryInv, May, Walk
<1>7. \A t, w : <<t, w>> \in heap' =>
        <<t, w>> \in heap \/ (w = q /\ t \in IF ends = "waiting" THEN Parts(kk) ELSE {"dname"})
  BY <1>1, HeapGrowsOfOne
<1>8. ends = "waiting" => \A t \in Parts(kk) : <<t, q>> \in heap'
  BY <1>1, HeapGrowsOfOne
<1>9. \A t, w : <<t, w>> \in heap => <<t, w>> \in heap'
  BY <1>1
<1>10. listed' = (IF ends = "failed" THEN listed ELSE listed \cup {e})
  BY <1>1 DEF Lists
<1>11. e \in Entries /\ Aux(q) \in Entries /\ e[1] = q /\ e # Aux(q)
  BY EntriesAre
<1>12. OnlyOf(q)
  BY <1>2, <1>7, <1>9, <1>10, <1>11 DEF OnlyOf, TypeOK
<1>13. QueryInv(q)'
  <2>1. Aux(q) \notin listed' /\ Own(q) \notin due' /\ Aux(q) \notin due'
    BY <1>2, <1>5, <1>10, <1>11
  <2>2. Own(q) \in listed' <=> ends # "failed"
    BY <1>5, <1>10
  <2>3. AtWork(q)' <=> ends = "waiting"
    BY <1>3 DEF AtWork
  <2>4. \A t \in Things : <<t, q>> \in heap' => t \in May(q)'
    BY <1>3, <1>6, <1>7, <2>3 DEF May
  <2>5. \A t \in Must(q)' : <<t, q>> \in heap'
    BY <1>3, <1>8, <2>1, <2>3 DEF Must, Walk
  <2>6. from'[q] # "nobody" /\ stage'[q] # "unused" /\ from'[q] = ti'
    BY <1>1, <1>2, <1>3, Apart
  <2>. QED  BY <1>1, <1>3, <2>1, <2>2, <2>3, <2>4, <2>5, <2>6 DEF QueryInv
<1>14. IdInv /\ Numbered \subseteq Entries
  BY <1>2, NumberedAre DEF IInv
<1>15. IdInv'
  <2>1. CASE ends = "failed"
    <3>1. Own(q) \notin Numbered'
      <4>1. ASSUME NEW p \in Queries, Own(p) = Own(q) PROVE p = q
        BY <4>1, EntriesAre
      <4>. QED  BY <1>3, <1>5, <1>10, <2>1, <4>1 DEF Numbered
    <3>2. Numbered' \subseteq Numbered
      BY <1>10, <1>12, <2>1, <3>1, NumberedKept
    <3>. QED  BY <1>1, <1>14, <2>1, <3>2, IdsKept
  <2>2. CASE ends # "failed"
    <3>1. Numbered' \subseteq Numbered \cup {e}
      BY <1>10, <1>11, <1>12, <2>2, NumberedGrows
    <3>2. id' = [id EXCEPT ![e] = next] /\ next' = next + 1
      BY <1>1, <2>2 DEF Lists
    <3>. QED  BY <1>11, <1>14, <3>1, <3>2, IdGiven
  <2>. QED  BY <2>1, <2>2
<1>16. Broken'
  BY <1>1, <1>2 DEF IInv, Broken, Submits
<1>. QED  BY <1>2, <1>12, <1>13, <1>15, <1>16, OneQueryMoves

-----------------------------------------------------------------------------
(* Cancelling.                                                             *)

\* Ids are told apart until all were used.
LEMMA IdsDiffer ==
  ASSUME NEW m \in Nat, NEW n \in Nat, m < IdSpace, n < IdSpace, m % IdSpace = n % IdSpace
  PROVE  m = n
BY ConstantsAssumption

\* The answer is freed if there is one.
LEMMA AnswerOfWhom ==
  ASSUME NEW q, NEW t, NEW w
  PROVE  <<t, w>> \in AnswerOf(q) <=> w = q /\ t = "answer" /\ <<t, w>> \in heap
BY OfWhom DEF AnswerOf

LEMMA AnswerAndMore ==
  ASSUME NEW q, NEW freed, \A t \in freed : <<t, q>> \in heap
  PROVE  AnswerOf(q) \cup Of(q, freed) \subseteq heap
BY DEF AnswerOf, Of

LEMMA CancelKeeps ==
  ASSUME NEW q \in Queries, TypeOK, TypeOK', IInv, Cancel(q)
  PROVE  IInv'
<1>1. PICK e \in listed :
        /\ QueryId(e) = QueryId(Own(q)) /\ Body(e) \in heap
        /\ IF e = Own(e[1]) /\ kind[e[1]] = kind[q]
             THEN /\ listed' = listed \ {e}
                  /\ stage' = [stage EXCEPT ![e[1]] = "cancelled"]
                  /\ Frees(FreedAtCancel(e[1]), {})
             ELSE broken' = "wrong_query" /\ UNCHANGED <<listed, stage, heap>>
  BY DEF Cancel
<1>2. /\ ti \in Handles /\ from[q] = ti /\ stage[q] \notin {"failed", "refused"} /\ broken = "no"
      /\ UNCHANGED <<ti, gone, member, kind, from, id, next, due, caller, scheduler>>
  BY DEF Cancel, TypeOK
<1>3. e \in Entries /\ e[1] \in Queries /\ (e = Own(e[1]) \/ e = Aux(e[1]))
  BY EntryIs DEF TypeOK
<1>4. IdInv /\ Numbered \subseteq Entries /\ QueryInv(e[1]) /\ QueryInv(q)
  BY <1>2, <1>3, NumberedAre DEF IInv
<1>5. CASE e = Own(e[1]) /\ kind[e[1]] = kind[q]
  <2>p. PICK p \in Queries : p = e[1]
    BY <1>3
  <2>f. PICK freed : freed = (IF kind[p] = "host" THEN {"qry", "dname"} ELSE {"inside"})
    OBVIOUS
  <2>. USE <2>p
  <2>1. /\ listed' = listed \ {e} /\ stage' = [stage EXCEPT ![p] = "cancelled"]
        /\ heap' = heap \ FreedAtCancel(p)
        /\ broken' = IF FreedAtCancel(p) \subseteq heap THEN "no" ELSE "freed_twice"
    BY <1>1, <1>5 DEF Frees
  <2>2. Body(e) = <<IF kind[p] = "host" THEN "qry" ELSE "search", p>>
    BY <1>3, <1>5, EntryIs, EntriesAre DEF Body
  <2>3. stage[p] # "refused"
    <3>. SUFFICES ASSUME stage[p] = "refused" PROVE FALSE
      OBVIOUS
    <3>1. <<"qry", p>> \in heap
      BY <1>1, <1>4, <2>2 DEF QueryInv
    <3>2. Aux(p) \notin listed
      BY <1>4 DEF QueryInv
    <3>3. May(p) = {"dname"}
      BY <3>2 DEF May, Walk, AtWork
    <3>. QED  BY <1>4, <3>1, <3>3, AreThings DEF QueryInv
  <2>4. AtWork(p) /\ kind[p] \in {"host", "srv"}
    BY <1>3, <1>4, <1>5, <2>3 DEF QueryInv
  <2>5. FreedAtCancel(p) = AnswerOf(p) \cup Of(p, freed)
    BY <2>f DEF FreedAtCancel
  <2>6. freed \subseteq Parts(kind[p]) /\ Parts(kind[p]) \subseteq Must(p)
    BY <2>4, <2>f, PartsAre DEF Must
  <2>7. \A t \in freed : <<t, p>> \in heap
    BY <1>4, <2>6 DEF QueryInv
  <2>8. FreedAtCancel(p) \subseteq heap
    BY <2>5, <2>7, AnswerAndMore
  <2>9. /\ p \in Queries /\ stage'[p] = "cancelled" /\ kind'[p] = kind[p] /\ from'[p] = from[p]
        /\ \A r \in Queries \ {p} : stage'[r] = stage[r]
    BY <1>2, <1>3, <2>1 DEF TypeOK
  <2>10. \A t, w : <<t, w>> \in heap' <=>
           <<t, w>> \in heap /\ ~(w = p /\ (t \in freed \/ t = "answer"))
    <3>1. ASSUME NEW t, NEW w
          PROVE  <<t, w>> \in heap' <=> <<t, w>> \in heap /\ ~(w = p /\ (t \in freed \/ t = "answer"))
      <4>1. <<t, w>> \in AnswerOf(p) <=> w = p /\ t = "answer" /\ <<t, w>> \in heap
        BY AnswerOfWhom
      <4>2. <<t, w>> \in Of(p, freed) <=> w = p /\ t \in freed
        BY OfWhom
      <4>. QED  BY <2>1, <2>5, <4>1, <4>2
    <3>. QED  BY <3>1
  <2>11. OnlyOf(p)
    BY <1>2, <1>3, <2>1, <2>9, <2>10 DEF OnlyOf
  <2>12. /\ Own(p) \notin listed' /\ (Aux(p) \in listed' <=> Aux(p) \in listed)
         /\ ~AtWork(p)'
    BY <1>3, <1>5, <2>1, <2>9, EntriesAre DEF AtWork
  <2>13. QueryInv(p)'
    <3>1. Walk(p)' = Walk(p)
      BY <2>12 DEF Walk
    <3>2. May(p) \subseteq Walk(p) \cup Parts(kind[p]) \cup {"answer"}
      BY <2>4 DEF May
    <3>3. May(p)' = Walk(p) \cup (IF kind[p] = "host" THEN {"dom_str"} ELSE {"search", "qbuf"})
      BY <2>9, <2>12, <3>1 DEF May, Kept, Walk
    <3>4. \A t \in Things : <<t, p>> \in heap' => t \in May(p)'
      BY <1>4, <2>4, <2>10, <2>f, <3>2, <3>3, PartsAre DEF QueryInv
    <3>5. \A t \in Must(p)' : <<t, p>> \in heap'
      <4>1. Must(p)' \subseteq Walk(p) /\ Walk(p) \subseteq Must(p)
        BY <2>12, <3>1 DEF Must
      <4>2. \A t \in Walk(p) : t \notin freed /\ t # "answer"
        BY <2>f DEF Walk
      <4>. QED  BY <1>4, <2>10, <4>1, <4>2 DEF QueryInv
    <3>6. from[p] # "nobody" /\ stage[p] # "refused"
      BY <1>2, <1>4, <2>3, <2>4, Apart DEF QueryInv
    <3>. QED  BY <1>2, <1>4, <2>9, <2>12, <3>4, <3>5, <3>6 DEF QueryInv
  <2>14. Numbered' \subseteq Numbered
    <3>1. Own(p) \in Numbered
      BY <1>5 DEF Numbered
    <3>. QED  BY <2>1, <2>9, <2>11, <3>1, NumberedKept
  <2>15. IdInv'
    BY <1>2, <1>4, <2>14, IdsKept
  <2>16. Broken'
    BY <1>2, <2>1, <2>8 DEF IInv, Broken
  <2>. QED  BY <1>2, <2>9, <2>11, <2>13, <2>15, <2>16, OneQueryMoves
<1>6. CASE ~(e = Own(e[1]) /\ kind[e[1]] = kind[q])
  <2>1. broken' = "wrong_query" /\ UNCHANGED <<listed, stage, heap>>
    BY <1>1, <1>6
  <2>2. next > IdSpace
    <3>. SUFFICES ASSUME ~(next > IdSpace) PROVE FALSE
      OBVIOUS
    <3>1. stage[q] # "unused"
      BY <1>2, <1>4, Apart DEF QueryInv
    <3>2. e \in Numbered /\ Own(q) \in Numbered
      BY <1>2, <3>1 DEF Numbered
    <3>3. id[e] \in Nat /\ id[Own(q)] \in Nat /\ id[e] < IdSpace /\ id[Own(q)] < IdSpace
      BY <1>3, <1>4, <3>2, EntriesAre, ConstantsAssumption DEF TypeOK, IdInv
    <3>4. id[e] = id[Own(q)]
      BY <1>1, <3>3, IdsDiffer DEF QueryId
    <3>5. e = Own(q)
      BY <1>4, <3>2, <3>4 DEF IdInv
    <3>. QED  BY <1>6, <3>5, EntriesAre
  <2>3. OnlyOf(q)
    BY <1>2, <2>1 DEF OnlyOf
  <2>4. QueryInv(q)'
    BY <1>2, <1>4, <2>1, QueryKept
  <2>5. Numbered' = Numbered
    BY <1>2, <2>1 DEF Numbered
  <2>6. IdInv'
    BY <1>2, <1>4, <2>5, IdsKept
  <2>7. Broken'
    BY <1>2, <2>1, <2>2 DEF Broken
  <2>. QED  BY <1>2, <2>3, <2>4, <2>6, <2>7, OneQueryMoves
<1>. QED  BY <1>5, <1>6

-----------------------------------------------------------------------------
(* The event loop.                                                         *)

LEMMA AnsweredKeeps ==
  ASSUME NEW e \in Entries, TypeOK, TypeOK', IInv, Answered(e)
  PROVE  IInv'
<1>1. PICK q \in Queries : q = e[1]
  BY EntryIs
<1>2. /\ e \in listed /\ e \notin due /\ due' = due \cup {e} /\ broken = "no" /\ broken' = broken
      /\ e[2] = "own" => stage[q] = "waiting"
      /\ UNCHANGED <<ti, gone, member, kind, stage, from, listed, id, next>>
      /\ heap' = heap \/ (e[2] = "own" /\ heap' = heap \cup Of(q, {"answer"}))
  BY <1>1 DEF Answered, Loop
<1>3. (e = Own(q) /\ e[2] = "own") \/ (e = Aux(q) /\ e[2] = "aux")
  BY <1>1, EntryIs
<1>4. ti \in Handles /\ QueryInv(q)
  BY <1>2, Apart DEF IInv, HandleInv, TypeOK
<1>5. \A t, w : <<t, w>> \in heap' =>
        <<t, w>> \in heap \/ (w = q /\ t = "answer" /\ stage[q] = "waiting")
  BY <1>2, HeapGrowsOfOne
<1>6. \A t, w : <<t, w>> \in heap => <<t, w>> \in heap'
  BY <1>2
<1>7. OnlyOf(q)
  BY <1>1, <1>2, <1>5, <1>6 DEF OnlyOf
<1>8. QueryInv(q)'
  <2>1. AtWork(q)' = AtWork(q) /\ Walk(q)' = Walk(q) /\ May(q)' = May(q) /\ Must(q)' = Must(q)
    BY <1>2 DEF AtWork, Walk, May, Must, Kept
  <2>2. stage[q] = "waiting" => "answer" \in May(q)
    BY DEF May, AtWork
  <2>3. /\ Own(q) \in due' => Own(q) \in due \/ stage[q] = "waiting"
        /\ Aux(q) \in due' => Aux(q) \in listed
    BY <1>2, <1>3, <1>4, EntriesAre DEF QueryInv
  <2>. QED  BY <1>2, <1>4, <1>5, <1>6, <2>1, <2>2, <2>3 DEF QueryInv
<1>9. Numbered' = Numbered /\ IdInv /\ Numbered \subseteq Entries
  BY <1>2, <1>4, NumberedAre DEF Numbered, IInv
<1>10. IdInv'
  BY <1>2, <1>9, IdsKept
<1>11. Broken'
  BY <1>2 DEF Broken
<1>. QED  BY <1>4, <1>7, <1>8, <1>10, <1>11, OneQueryMoves

\* While something is due or listed there is a handle.
LEMMA HandleIsThere ==
  ASSUME TypeOK, IInv, listed # {} \/ due # {}
  PROVE  ti \in Handles
BY DEF TypeOK, IInv, HandleInv

\* A step on a cancelled query's event ends it all, and changes nothing else.
LEMMA EventLost ==
  ASSUME NEW q \in Queries, TypeOK, IInv, ti \in Handles, due' \subseteq due, Broken',
         UNCHANGED <<ti, gone, member, kind, stage, from, listed, id, next, heap>>
  PROVE  IInv'
<1>1. OnlyOf(q)
  BY DEF OnlyOf
<1>2. QueryInv(q)'
  BY QueryKept DEF IInv
<1>3. Numbered' = Numbered /\ IdInv /\ Numbered \subseteq Entries
  BY NumberedAre DEF Numbered, IInv
<1>4. IdInv'
  BY <1>3, IdsKept
<1>. QED  BY <1>1, <1>2, <1>4, OneQueryMoves

LEMMA DoneKeeps ==
  ASSUME NEW q \in Queries, TypeOK, TypeOK', IInv, Done(q)
  PROVE  IInv'
<1>1. /\ Own(q) \in due /\ due' = due \ {Own(q)} /\ broken = "no"
      /\ UNCHANGED <<ti, gone, member, kind, from>>
  BY DEF Done, Loop
<1>2. ti \in Handles /\ QueryInv(q) /\ IdInv /\ Numbered \subseteq Entries
  BY <1>1, HandleIsThere, NumberedAre DEF IInv
<1>3. CASE stage[q] = "cancelled"
  <2>1. /\ broken' = "dead_event"
        /\ UNCHANGED <<stage, listed, id, next, heap>>
    BY <1>3 DEF Done
  <2>2. Broken'
    BY <2>1 DEF Broken
  <2>. QED  BY <1>1, <1>2, <2>1, <2>2, EventLost
<1>4. ASSUME stage[q] # "cancelled",
             Call(q) /\ UNCHANGED <<listed, id, next, heap, broken>>
      PROVE  IInv'
  <2>1. /\ stage'[q] = "calling" /\ kind'[q] = kind[q] /\ from'[q] = from[q]
        /\ \A p \in Queries \ {q} : stage'[p] = stage[p]
    BY <1>1, <1>4 DEF Call, TypeOK
  <2>2. stage[q] = "waiting"
    BY <1>1, <1>2, <1>4 DEF QueryInv
  <2>3. AtWork(q) /\ AtWork(q)' /\ Aux(q) \notin listed
    BY <1>2, <2>1, <2>2 DEF AtWork, QueryInv
  <2>4. May(q)' = May(q) /\ Must(q)' = Must(q)
    BY <1>1, <1>4, <2>3 DEF May, Must, Walk
  <2>5. OnlyOf(q)
    BY <1>1, <1>4, <2>1 DEF OnlyOf
  <2>6. QueryInv(q)'
    BY <1>1, <1>2, <1>4, <2>1, <2>2, <2>3, <2>4 DEF QueryInv
  <2>7. Numbered' \subseteq Numbered
    BY <1>2, <1>4, <2>2, <2>3, <2>5, NumberedKept DEF Numbered, QueryInv
  <2>8. IdInv'
    BY <1>2, <1>4, <2>7, IdsKept
  <2>9. Broken'
    BY <1>1, <1>4 DEF Broken
  <2>. QED  BY <1>2, <2>5, <2>6, <2>8, <2>9, OneQueryMoves
<1>5. ASSUME stage[q] # "cancelled", kind[q] = "srv",
             stage' = [stage EXCEPT ![q] = "walking"], Lists(Aux(q)),
             heap' = heap \cup Of(q, {"walk"}), broken' = broken
      PROVE  IInv'
  <2>1. /\ stage'[q] = "walking" /\ kind'[q] = kind[q] /\ from'[q] = from[q]
        /\ \A p \in Queries \ {q} : stage'[p] = stage[p]
        /\ listed' = listed \cup {Aux(q)} /\ id' = [id EXCEPT ![Aux(q)] = next] /\ next' = next + 1
    BY <1>1, <1>5 DEF Lists, TypeOK
  <2>2. stage[q] = "waiting"
    BY <1>1, <1>2, <1>5 DEF QueryInv
  <2>3. /\ AtWork(q) /\ AtWork(q)' /\ Aux(q) \notin listed /\ Aux(q) \in listed' /\ Own(q) \in listed
        /\ Own(q) \in listed' /\ Own(q) # Aux(q) /\ Own(q) \notin due'
    BY <1>1, <1>2, <2>1, <2>2, EntriesAre DEF AtWork, QueryInv
  <2>4. \A t, w : <<t, w>> \in heap' <=> <<t, w>> \in heap \/ (w = q /\ t = "walk")
    BY <1>5, OfWhom
  <2>5. May(q)' = May(q) \cup {"walk"} /\ Must(q)' = Must(q) \cup {"walk"}
    BY <1>1, <2>3 DEF May, Must, Walk
  <2>6. OnlyOf(q)
    BY <1>1, <2>1, <2>4, EntriesAre DEF OnlyOf
  <2>7. QueryInv(q)'
    BY <1>1, <1>2, <1>5, <2>1, <2>2, <2>3, <2>4, <2>5 DEF QueryInv
  <2>8. Numbered' \subseteq Numbered \cup {Aux(q)}
    BY <2>1, <2>3, <2>6, NumberedGrows, EntriesAre DEF Numbered
  <2>9. IdInv'
    BY <1>2, <2>1, <2>8, IdGiven, EntriesAre
  <2>10. Broken'
    BY <1>1, <1>5 DEF Broken
  <2>. QED  BY <1>2, <2>6, <2>7, <2>9, <2>10, OneQueryMoves
<1>. QED  BY <1>3, <1>4, <1>5 DEF Done

LEMMA WalkDoneKeeps ==
  ASSUME NEW q \in Queries, TypeOK, TypeOK', IInv, WalkDone(q)
  PROVE  IInv'
<1>1. /\ Aux(q) \in due /\ due' = due \ {Aux(q)} /\ broken = "no"
      /\ UNCHANGED <<ti, gone, member, kind, from>>
  BY DEF WalkDone, Loop
<1>2. ti \in Handles /\ QueryInv(q) /\ IdInv /\ Numbered \subseteq Entries
  BY <1>1, HandleIsThere, NumberedAre DEF IInv
<1>3. /\ Aux(q) \in listed /\ <<"walk", q>> \in heap
      /\ Of(q, {"walk"}) \subseteq heap
      /\ stage[q] \in {"walking", "cancelled"}
  <2>1. Aux(q) \in listed /\ stage[q] \in {"walking", "cancelled"}
    BY <1>1, <1>2 DEF QueryInv
  <2>2. "walk" \in Must(q)
    BY <2>1 DEF Must, Walk
  <2>. QED  BY <1>2, <2>1, <2>2 DEF QueryInv, Of
<1>4. CASE stage[q] = "cancelled"
  <2>1. /\ broken' = "dead_srv_query"
        /\ UNCHANGED <<stage, listed, id, next, heap>>
    BY <1>4 DEF WalkDone
  <2>2. Broken'
    BY <2>1 DEF Broken
  <2>. QED  BY <1>1, <1>2, <2>1, <2>2, EventLost
<1>5. ASSUME stage[q] # "cancelled", Call(q), listed' = listed \ {Aux(q)},
             Frees(Of(q, {"walk"}), {}), UNCHANGED <<id, next>>
      PROVE  IInv'
  <2>1. /\ stage'[q] = "calling" /\ kind'[q] = kind[q] /\ from'[q] = from[q]
        /\ \A p \in Queries \ {q} : stage'[p] = stage[p]
        /\ heap' = heap \ Of(q, {"walk"}) /\ broken' = "no"
    BY <1>1, <1>3, <1>5 DEF Call, Frees, TypeOK
  <2>2. AtWork(q) /\ AtWork(q)'
    BY <1>3, <1>5, <2>1 DEF AtWork
  <2>3. /\ Aux(q) \notin listed' /\ (Own(q) \in listed' <=> Own(q) \in listed) /\ Own(q) # Aux(q)
        /\ Aux(q) \notin due'
    BY <1>1, <1>5, EntriesAre
  <2>4. \A t, w : <<t, w>> \in heap' <=> <<t, w>> \in heap /\ ~(w = q /\ t = "walk")
    BY <2>1, OfWhom
  <2>5. /\ May(q) = Parts(kind[q]) \cup {"answer", "walk"} /\ May(q)' = Parts(kind[q]) \cup {"answer"}
        /\ Must(q) = Parts(kind[q]) \cup {"walk"} /\ Must(q)' = Parts(kind[q])
    BY <1>1, <1>3, <2>2, <2>3 DEF May, Must, Walk
  <2>6. OnlyOf(q)
    BY <1>1, <1>5, <2>1, <2>4, EntriesAre DEF OnlyOf
  <2>7. QueryInv(q)'
    <3>1. \A t \in Things : <<t, q>> \in heap' => t \in May(q)'
      BY <1>2, <2>4, <2>5 DEF QueryInv
    <3>2. \A t \in Must(q)' : <<t, q>> \in heap'
      BY <1>2, <2>4, <2>5, PartsAre DEF QueryInv
    <3>3. Own(q) \notin due'
      BY <1>1, <1>2, <1>3, <1>5 DEF QueryInv
    <3>. QED  BY <1>1, <1>2, <2>1, <2>2, <2>3, <3>1, <3>2, <3>3 DEF QueryInv
  <2>8. Numbered' \subseteq Numbered
    <3>1. Own(q) \in Numbered
      BY <1>2, <2>2 DEF Numbered, QueryInv
    <3>. QED  BY <1>5, <2>6, <3>1, NumberedKept
  <2>9. IdInv'
    BY <1>2, <1>5, <2>8, IdsKept
  <2>10. Broken'
    BY <2>1 DEF Broken
  <2>. QED  BY <1>2, <2>6, <2>7, <2>9, <2>10, OneQueryMoves
<1>6. ASSUME stage[q] # "cancelled", Frees(Of(q, {"walk"}), Of(q, {"walk"})), Lists(Aux(q)),
             stage' = stage
      PROVE  IInv'
  <2>1. /\ listed' = listed /\ id' = [id EXCEPT ![Aux(q)] = next] /\ next' = next + 1 /\ broken' = "no"
    BY <1>3, <1>6 DEF Lists, Frees
  <2>2. \A t, w : <<t, w>> \in heap' <=> <<t, w>> \in heap
    BY <1>3, <1>6 DEF Frees
  <2>3. OnlyOf(q)
    BY <1>1, <1>6, <2>1, <2>2 DEF OnlyOf
  <2>4. QueryInv(q)'
    BY <1>1, <1>2, <1>6, <2>1, <2>2, QueryKept
  <2>5. Numbered' = Numbered
    BY <1>1, <1>6, <2>1 DEF Numbered
  <2>6. IdInv'
    BY <1>2, <2>1, <2>5, IdGiven, EntriesAre
  <2>7. Broken'
    BY <2>1 DEF Broken
  <2>. QED  BY <1>2, <2>3, <2>4, <2>6, <2>7, OneQueryMoves
<1>. QED  BY <1>4, <1>5, <1>6 DEF WalkDone

LEMMA CleansKeeps ==
  ASSUME NEW q \in Queries, TypeOK, TypeOK', IInv, Cleans(q)
  PROVE  IInv'
<1>1. /\ broken = "no" /\ stage[q] = "calling" /\ stage' = [stage EXCEPT ![q] = "cleaned"]
      /\ listed' = listed \ {Own(q)}
      /\ UNCHANGED <<ti, gone, member, kind, from, id, next, due>>
  BY DEF Cleans, UnlistedAtClean
<1>2. PICK freed : freed = (IF kind[q] = "host" THEN {"dom_str", "dname", "qry"} ELSE {"inside", "search", "qbuf"})
  OBVIOUS
<1>3. PICK unread \in {{}, {"parse"}} :
        /\ heap' = (heap \ (AnswerOf(q) \cup Of(q, freed))) \cup Of(q, unread)
        /\ broken' = IF AnswerOf(q) \cup Of(q, freed) \subseteq heap THEN "no" ELSE "freed_twice"
  BY <1>2, Zenon DEF Cleans, FreedAtClean, Frees
<1>4. QueryInv(q) /\ AtWork(q)
  BY <1>1 DEF IInv, AtWork
<1>5. /\ from[q] = ti /\ kind[q] \in {"host", "srv"} /\ Own(q) \in listed /\ Aux(q) \notin listed
      /\ Own(q) \notin due /\ Aux(q) \notin due
  BY <1>1, <1>4 DEF QueryInv
<1>6. ti \in Handles /\ IdInv /\ Numbered \subseteq Entries
  BY <1>5, HandleIsThere, NumberedAre DEF IInv
<1>7. freed = Parts(kind[q]) /\ Must(q) = Parts(kind[q]) /\ May(q) = Parts(kind[q]) \cup {"answer"}
  BY <1>2, <1>4, <1>5, PartsAre DEF Must, May, Walk
<1>8. AnswerOf(q) \cup Of(q, freed) \subseteq heap
  BY <1>4, <1>7, AnswerAndMore DEF QueryInv
<1>9. ASSUME NEW t, NEW w
      PROVE  <<t, w>> \in heap' <=> \/ <<t, w>> \in heap /\ ~(w = q /\ (t \in freed \/ t = "answer"))
                                    \/ w = q /\ t \in unread
  <2>1. <<t, w>> \in AnswerOf(q) <=> w = q /\ t = "answer" /\ <<t, w>> \in heap
    BY AnswerOfWhom
  <2>2. <<t, w>> \in Of(q, freed) <=> w = q /\ t \in freed
    BY OfWhom
  <2>3. <<t, w>> \in Of(q, unread) <=> w = q /\ t \in unread
    BY OfWhom
  <2>. QED  BY <1>3, <2>1, <2>2, <2>3
<1>10. /\ stage'[q] = "cleaned" /\ kind'[q] = kind[q] /\ from'[q] = from[q]
       /\ \A p \in Queries \ {q} : stage'[p] = stage[p]
  BY <1>1 DEF TypeOK
<1>11. /\ ~AtWork(q)' /\ Own(q) \notin listed' /\ Aux(q) \notin listed'
       /\ Own(q) \notin due' /\ Aux(q) \notin due'
  BY <1>1, <1>5, <1>10 DEF AtWork
<1>12. OnlyOf(q)
  BY <1>1, <1>9, <1>10, EntriesAre DEF OnlyOf
<1>13. QueryInv(q)'
  <2>1. May(q)' = {"parse"} /\ Must(q)' = {}
    BY <1>10, <1>11 DEF May, Must, Walk
  <2>2. \A t \in Things : <<t, q>> \in heap' => t \in unread
    BY <1>4, <1>7, <1>9 DEF QueryInv
  <2>3. from[q] # "nobody"
    BY <1>5, <1>6, Apart
  <2>. QED  BY <1>10, <1>11, <2>1, <2>2, <2>3 DEF QueryInv
<1>14. Numbered' \subseteq Numbered
  BY <1>1, <1>5, <1>12, NumberedKept DEF Numbered
<1>15. IdInv'
  BY <1>1, <1>6, <1>14, IdsKept
<1>16. Broken'
  BY <1>3, <1>8 DEF Broken
<1>. QED  BY <1>6, <1>12, <1>13, <1>15, <1>16, OneQueryMoves

\* Steps that touch neither handle nor queries.
LEMMA OthersKeep ==
  ASSUME TypeOK, IInv, Broken',
         UNCHANGED <<ti, gone, member, kind, stage, from, listed, id, next, due, heap>>
  PROVE  IInv'
<1>1. \A q \in Queries : QueryInv(q)'
  BY QueryKept DEF IInv
<1>2. HandleInv'
  BY HandleKept DEF IInv, HandleInv
<1>3. Numbered' = Numbered
  BY DEF Numbered
<1>4. ti \in Handles => IdInv'
  BY <1>3, IdsKept, NumberedAre DEF IInv
<1>. QED  BY <1>1, <1>2, <1>4 DEF IInv

-----------------------------------------------------------------------------
(* The handle.                                                             *)

LEMMA InitResolverKeeps ==
  ASSUME NEW h \in Handles, NEW mode \in {"servers", "resolv.conf"}, TypeOK, TypeOK', IInv,
         InitResolver(h, mode)
  PROVE  IInv'
<1>1. /\ ti = "nobody" /\ gone[h] = "unused" /\ ti' = h /\ member' \in MembersFor(mode)
      /\ heap' = heap \cup Of(h, Made(mode)) /\ broken = "no"
      /\ UNCHANGED <<gone, kind, stage, from, listed, id, due, broken>>
  BY DEF InitResolver
<1>2. listed = {} /\ due = {} /\ HandleInv
  BY <1>1 DEF IInv, HandleInv
<1>3. \A q \in Queries : ~AtWork(q)
  BY <1>2 DEF IInv, QueryInv
<1>4. \A q \in Queries : from[q] # h
  BY <1>1, <1>2, Apart DEF HandleInv, TypeOK
<1>5. \A t, w : <<t, w>> \in heap' <=> <<t, w>> \in heap \/ (w = h /\ t \in Made(mode))
  BY <1>1, OfWhom
<1>6. ASSUME NEW q \in Queries PROVE QueryInv(q)'
  <2>1. QueryInv(q) /\ q # h
    BY Apart DEF IInv
  <2>2. AtWork(q)' = AtWork(q) /\ May(q)' = May(q) /\ Must(q)' = Must(q)
    BY <1>1 DEF AtWork, May, Must, Walk, Kept
  <2>3. \A t : <<t, q>> \in heap' <=> <<t, q>> \in heap
    BY <1>5, <2>1
  <2>. QED  BY <1>1, <1>2, <1>3, <1>4, <2>1, <2>2, <2>3 DEF QueryInv
<1>7. Mode' = mode
  BY <1>1, MembersAre DEF Mode
<1>8. MembersFor(Mode)' = MembersFor(mode) /\ Made(Mode)' = Made(mode)
  BY <1>7 DEF MembersFor, Made, NoMembers
<1>9. HandleInv'
  <2>1. \A t \in Made(mode) : <<t, h>> \in heap'
    BY <1>5
  <2>2. ASSUME NEW g \in Handles, NEW t \in Things, <<t, g>> \in heap'
        PROVE  \/ g = h /\ t \in Made(mode)
               \/ gone[g] = "failed" /\ t \in {"server_list", "servers", "source", "res_interface"}
    BY <1>1, <1>2, <1>5, <2>2, Apart DEF HandleInv
  <2>3. \A q \in Queries : from[q] \in Handles => gone[from[q]] # "unused"
    BY <1>1, <1>2, Apart DEF HandleInv
  <2>4. /\ gone'[ti'] = "unused" /\ member' \in MembersFor(Mode)' /\ ti' # "nobody"
        /\ \A t \in Made(Mode)' : <<t, ti'>> \in heap'
    BY <1>1, <1>8, <2>1, Apart
  <2>5. \A g \in Handles, t \in Things : <<t, g>> \in heap' =>
          \/ g = ti' /\ t \in Made(Mode)'
          \/ gone'[g] = "failed" /\ t \in {"server_list", "servers", "source", "res_interface"}
    BY <1>1, <1>8, <2>2
  <2>6. \A q \in Queries : from'[q] \in Handles /\ from'[q] # ti' => gone'[from'[q]] # "unused"
    BY <1>1, <2>3
  <2>. QED  BY <2>4, <2>5, <2>6 DEF HandleInv
<1>10. IdInv'
  BY <1>1, <1>2, <1>4 DEF IdInv, Numbered
<1>11. Broken'
  BY <1>1 DEF Broken
<1>. QED  BY <1>6, <1>9, <1>10, <1>11 DEF IInv

LEMMA InitResolverFailsKeeps ==
  ASSUME NEW h \in Handles, NEW mode \in {"servers", "resolv.conf"}, TypeOK, TypeOK', IInv,
         InitResolverFails(h, mode)
  PROVE  IInv'
<1>1. /\ ti = "nobody" /\ gone[h] = "unused" /\ gone' = [gone EXCEPT ![h] = "failed"]
      /\ UNCHANGED <<ti, member, kind, stage, from, listed, id, next, due>>
  BY DEF InitResolverFails, queryVars
<1>2. PICK left \in SUBSET {"server_list", "servers", "source", "res_interface"} :
        heap' = heap \cup Of(h, left)
  <2>1. \A left \in LeftBehind(mode) : left \subseteq {"server_list", "servers", "source", "res_interface"}
    BY DEF LeftBehind
  <2>2. heap \cup Of(h, {}) = heap
    BY DEF Of
  <2>. QED  BY <2>1, <2>2 DEF InitResolverFails
<1>3. \A t, w : <<t, w>> \in heap' <=> <<t, w>> \in heap \/ (w = h /\ t \in left)
  BY <1>2, OfWhom
<1>4. ASSUME NEW q \in Queries PROVE QueryInv(q)'
  BY <1>1, <1>3, Apart, QueryKept DEF IInv
<1>5. HandleInv /\ gone'[h] = "failed" /\ \A g \in Handles \ {h} : gone'[g] = gone[g]
  BY <1>1 DEF IInv, TypeOK
<1>6. HandleInv'
  <2>1. \A g \in Handles, t \in Things : <<t, g>> \in heap' =>
          gone'[g] = "failed" /\ t \in {"server_list", "servers", "source", "res_interface"}
    BY <1>1, <1>3, <1>5, Apart DEF HandleInv
  <2>2. \A q \in Queries : from[q] \in Handles => gone'[from[q]] # "unused"
    BY <1>1, <1>5, Apart DEF HandleInv
  <2>. QED  BY <1>1, <1>5, <2>1, <2>2, Apart DEF HandleInv
<1>7. Broken'
  BY DEF InitResolverFails, Broken
<1>. QED  BY <1>1, <1>4, <1>6, <1>7, Apart DEF IInv

\* What ti_dns_exit_resolver() frees is what was made, in either mode.
LEMMA ExitFreesAll ==
  ASSUME NEW mode \in {"servers", "resolv.conf"}, NEW m \in MembersFor(mode), m["handler"] # "junk"
  PROVE  FreedAtExit(m) = Made(mode)
<1>1. CASE mode = "servers"
  BY <1>1, MembersAre DEF FreedAtExit, Made
<1>2. CASE mode = "resolv.conf"
  <2>1. m["handler"] = "null" /\ m["search_res"] = "search_res"
    BY <1>2, MembersAre
  <2>. QED  BY <1>2, <2>1, MembersAre DEF FreedAtExit, Made
<1>. QED  BY <1>1, <1>2

LEMMA ExitKeeps ==
  ASSUME TypeOK, TypeOK', IInv, ExitResolver
  PROVE  IInv'
<1>1. /\ ti \in Handles /\ broken = "no" /\ \A q \in Queries : ~AtWork(q)
      /\ UNCHANGED <<kind, stage, from, listed, id, next, due>>
  BY DEF ExitResolver, queryVars, TypeOK
<1>2. CASE listed # {} \/ due # {} \/ member["handler"] = "junk"
  <2>1. UNCHANGED <<ti, gone, member, heap>> /\ broken' \in {"listed", "scheduled", "handler"}
    BY <1>2 DEF ExitResolver
  <2>2. Broken'
    BY <2>1 DEF Broken
  <2>. QED  BY <1>1, <2>1, <2>2, OthersKeep
<1>3. CASE ~(listed # {} \/ due # {} \/ member["handler"] = "junk")
  <2>1. /\ ti' = "nobody" /\ gone' = [gone EXCEPT ![ti] = "exited"] /\ member' = NoMembers
        /\ heap' = (heap \ Of(ti, FreedAtExit(member))) \cup {}
        /\ broken' = IF Of(ti, FreedAtExit(member)) \subseteq heap THEN "no" ELSE "freed_twice"
        /\ listed = {} /\ due = {}
    BY <1>3 DEF ExitResolver, Frees
  <2>2. HandleInv
    BY DEF IInv
  <2>3. member \in MembersFor(Mode) /\ Mode \in {"servers", "resolv.conf"}
    BY <1>1, <2>2 DEF HandleInv, Mode
  <2>4. FreedAtExit(member) = Made(Mode)
    BY <1>3, <2>3, ExitFreesAll
  <2>5. Of(ti, Made(Mode)) \subseteq heap
    BY <1>1, <2>2 DEF HandleInv, Of
  <2>6. \A t, w : <<t, w>> \in heap' <=> <<t, w>> \in heap /\ ~(w = ti /\ t \in Made(Mode))
    <3>1. heap' = heap \ Of(ti, Made(Mode))
      BY <2>1, <2>4
    <3>. QED  BY <3>1, OfWhom
  <2>7. gone'[ti] = "exited" /\ \A g \in Handles \ {ti} : gone'[g] = gone[g]
    BY <1>1, <2>1 DEF TypeOK
  <2>8. HandleInv'
    <3>1. \A g \in Handles, t \in Things : <<t, g>> \in heap' =>
            gone'[g] = "failed" /\ t \in {"server_list", "servers", "source", "res_interface"}
      BY <1>1, <2>2, <2>6, <2>7 DEF HandleInv
    <3>2. \A q \in Queries : from[q] \in Handles => gone'[from[q]] # "unused"
      BY <1>1, <2>2, <2>7 DEF HandleInv
    <3>. QED  BY <1>1, <2>1, <3>1, <3>2, Apart DEF HandleInv
  <2>9. ASSUME NEW q \in Queries PROVE QueryInv(q)'
    <3>1. QueryInv(q) /\ ~AtWork(q) /\ q # ti
      BY <1>1, Apart DEF IInv
    <3>2. AtWork(q)' = AtWork(q) /\ May(q)' = May(q) /\ Must(q)' = Must(q)
      BY <1>1 DEF AtWork, May, Must, Walk, Kept
    <3>3. \A t : <<t, q>> \in heap' <=> <<t, q>> \in heap
      BY <2>6, <3>1
    <3>4. ~(stage[q] = "refused" /\ from[q] = ti')
      BY <2>1, <3>1 DEF QueryInv
    <3>. QED  BY <1>1, <2>1, <3>1, <3>2, <3>3, <3>4 DEF QueryInv
  <2>10. Broken'
    BY <2>1, <2>4, <2>5 DEF Broken
  <2>. QED  BY <2>1, <2>8, <2>9, <2>10, Apart DEF IInv
<1>. QED  BY <1>2, <1>3

-----------------------------------------------------------------------------
(* All of them.                                                            *)

LEMMA InitIs == ASSUME Init PROVE IInv
<1>1. HandleInv
  BY Apart DEF Init, HandleInv
<1>2. ASSUME NEW q \in Queries PROVE QueryInv(q)
  BY Apart DEF Init, QueryInv, May, Must, Walk, AtWork
<1>3. ti \notin Handles /\ Broken
  BY Apart DEF Init, Broken
<1>. QED  BY <1>1, <1>2, <1>3 DEF IInv

LEMMA StepKeeps ==
  ASSUME TypeOK, TypeOK', IInv, [Next]_vars
  PROVE  IInv'
<1>1. CASE UNCHANGED vars
  <2>1. Broken'
    BY <1>1 DEF vars, queryVars, IInv, Broken
  <2>. QED  BY <1>1, <2>1, OthersKeep DEF vars, queryVars
<1>2. CASE StartScheduler \/ SchedulerReturns \/ ReadsDeadEntry
  <2>1. Broken'
    BY <1>2 DEF StartScheduler, SchedulerReturns, ReadsDeadEntry, queryVars, IInv, Broken
  <2>. QED  BY <1>2, <2>1, OthersKeep DEF StartScheduler, SchedulerReturns, ReadsDeadEntry, queryVars
<1>3. ASSUME NEW q \in Queries, Returns(q) PROVE IInv'
  <2>1. Broken'
    BY <1>3 DEF Returns, IInv, Broken
  <2>. QED  BY <1>3, <2>1, OthersKeep DEF Returns
<1>. QED
  BY <1>1, <1>2, <1>3, InitResolverKeeps, InitResolverFailsKeeps, ExitKeeps, AnsweredKeeps, SubmitKeeps,
     CancelKeeps, DoneKeeps, WalkDoneKeeps, CleansKeeps DEF Next

\* Every member that is not null names what was made, in either mode.
LEMMA MembersMade ==
  ASSUME NEW mode \in {"servers", "resolv.conf"}, NEW m \in MembersFor(mode), NEW p \in Pointers,
         m[p] # "null", ~(p = "handler" /\ m[p] = "junk")
  PROVE  m[p] \in Made(mode)
BY MembersAre DEF Pointers, Made

LEMMA NothingDanglesNow == ASSUME TypeOK, IInv PROVE NoDangling
<1>1. ASSUME ti # "nobody", NEW m \in Pointers, member[m] # "null",
             ~(m = "handler" /\ member[m] = "junk")
      PROVE  <<member[m], ti>> \in heap
  <2>1. ti \in Handles /\ HandleInv
    BY <1>1 DEF TypeOK, IInv
  <2>2. member \in MembersFor(Mode) /\ Mode \in {"servers", "resolv.conf"}
    BY <2>1 DEF HandleInv, Mode
  <2>3. member[m] \in Made(Mode)
    BY <1>1, <2>2, MembersMade
  <2>. QED  BY <2>1, <2>3 DEF HandleInv
<1>2. ASSUME NEW e \in listed
      PROVE  /\ stage[e[1]] = "refused" \/ Body(e) \in heap
             /\ e[2] = "own" => stage[e[1]] = "refused" \/ Of(e[1], Parts(kind[e[1]])) \subseteq heap
             /\ e[2] = "aux" => stage[e[1]] \in {"walking", "cancelled"}
  <2>1. PICK q \in Queries : q = e[1]
    BY EntryIs DEF TypeOK
  <2>2. QueryInv(q)
    BY DEF IInv
  <2>3. CASE e = Own(q) /\ e[2] = "own"
    <3>1. stage[q] = "refused" \/ AtWork(q)
      BY <2>2, <2>3 DEF QueryInv
    <3>2. ASSUME AtWork(q) PROVE Of(q, Parts(kind[q])) \subseteq heap /\ Body(e) \in heap
      <4>1. Parts(kind[q]) \subseteq Must(q) /\ kind[q] \in {"host", "srv"}
        BY <2>2, <3>2 DEF Must, QueryInv
      <4>2. Of(q, Parts(kind[q])) \subseteq heap
        BY <2>2, <4>1 DEF QueryInv, Of
      <4>3. Body(e) = <<IF kind[q] = "host" THEN "qry" ELSE "search", q>>
        BY <2>1, <2>3 DEF Body
      <4>. QED  BY <4>1, <4>2, <4>3, OfWhom, PartsAre
    <3>. QED  BY <2>1, <2>3, <3>1, <3>2
  <2>4. CASE e = Aux(q) /\ e[2] = "aux"
    <3>1. stage[q] \in {"walking", "cancelled"}
      BY <2>2, <2>4 DEF QueryInv
    <3>2. <<"walk", q>> \in heap
      BY <2>2, <2>4 DEF QueryInv, Must, Walk
    <3>. QED  BY <2>1, <2>4, <3>1, <3>2 DEF Body
  <2>. QED  BY <2>1, <2>3, <2>4, EntryIs DEF TypeOK
<1>3. ASSUME NEW e \in due PROVE e \in listed \/ stage[e[1]] = "cancelled"
  <2>1. PICK q \in Queries : q = e[1] /\ (e = Own(q) \/ e = Aux(q))
    BY EntryIs DEF TypeOK
  <2>2. QueryInv(q)
    BY DEF IInv
  <2>. QED  BY <2>1, <2>2 DEF QueryInv, AtWork
<1>4. \A q \in Queries : AtWork(q) => Own(q) \in listed
  BY DEF IInv, QueryInv
<1>. QED  BY <1>1, <1>2, <1>3, <1>4 DEF IInv, Broken, NoDangling

LEMMA NothingIsLostNow == ASSUME TypeOK, IInv PROVE NothingLost
<1>. SUFFICES ASSUME NEW thing \in Things, NEW owner \in Handles \cup Queries, <<thing, owner>> \in heap
     PROVE  LET lost == CASE stage[owner] = "cancelled" ->
                               IF kind[owner] = "host" THEN {"dom_str"} ELSE {"search", "qbuf"}
                          [] stage[owner] \in {"failed", "refused"} -> {"dname"}
                          [] stage[owner] = "cleaned" -> {"parse"}
                          [] OTHER -> {}
            IN IF owner \in Handles
                 THEN \/ owner = ti
                      \/ gone[owner] = "failed" /\ thing \in {"server_list", "servers", "source", "res_interface"}
                 ELSE \/ Own(owner) \in listed /\ thing \in Parts(kind[owner]) \cup {"answer"}
                      \/ Aux(owner) \in listed /\ thing = "walk"
                      \/ thing \in lost
  BY DEF NothingLost, TypeOK
<1>1. CASE owner \in Handles
  BY <1>1 DEF IInv, HandleInv
<1>2. CASE owner \in Queries
  <2>1. QueryInv(owner) /\ owner \notin Handles
    BY <1>2, Apart DEF IInv
  <2>2. thing \in May(owner)
    BY <2>1 DEF QueryInv
  <2>3. (thing = "walk" /\ Aux(owner) \in listed) \/ thing \notin Walk(owner)
    BY DEF Walk
  <2>4. CASE AtWork(owner)
    BY <2>1, <2>2, <2>3, <2>4 DEF May, QueryInv
  <2>5. CASE ~AtWork(owner)
    BY <2>1, <2>2, <2>3, <2>5 DEF May, Kept
  <2>. QED  BY <2>4, <2>5
<1>. QED  BY <1>1, <1>2

LEMMA Always == Spec => [](TypeOK /\ IInv)
<1>1. Init => IInv
  BY InitIs
<1>2. TypeOK /\ TypeOK' /\ IInv /\ [Next]_vars => IInv'
  BY StepKeeps
<1>. QED  BY <1>1, <1>2, TypeCorrect, PTL DEF Spec

\* Whatever the order of submits, answers, cancels, clean-ups and exits, what
\* the handle, query_list and the callbacks point to is allocated, and nothing
\* that ti_dns_exit_resolver(), ti_dns_cancel_*_query() and ti_dns_clean_*()
\* free is free already, but for the code's own exceptions that NoDangling
\* names.  An id finds the query it was given to until all ids were used.
THEOREM NothingDangles == Spec => []NoDangling
<1>1. TypeOK /\ IInv => NoDangling
  BY NothingDanglesNow
<1>. QED  BY <1>1, Always, PTL

\* What ti_api.c allocates for a handle and for a query is freed by its exit
\* and its clean-up, but for what failures of init and submit, cancels, and
\* answers that cannot be read are known to lose.
THEOREM LeavesNothing == Spec => []NothingLost
<1>1. TypeOK /\ IInv => NothingLost
  BY NothingIsLostNow
<1>. QED  BY <1>1, Always, PTL
=============================================================================
