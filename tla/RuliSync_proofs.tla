---------------------------- MODULE RuliSync_proofs ----------------------------
(***************************************************************************)
(* Proofs about RuliSrv, for any targets, any number of records and of     *)
(* addresses a host query finds; and about RuliSync: the invariant of      *)
(* RuliSrv holds around the synchronous front ends too, what they return   *)
(* has its answer, and getaddrinfo() copies it in its order.               *)
(***************************************************************************)
EXTENDS RuliSync, RuliLoops, SequenceTheorems, TLAPS

Names == Targets \cup {Domain}
Code == SrvCode \cup WalkCode \cup FallCode

-----------------------------------------------------------------------------
(* Lists of entries.                                                       *)

\* Every address is of its entry's target and in one entry only; an address a
\* host query found was found for the place its entry still has.
Owns(list) ==
  /\ \A i \in DOMAIN list : \A a \in list[i].addrs :
       a.owner = list[i].target /\ (a.k # 0 => a.at = i)
  /\ \A i, j \in DOMAIN list : i # j => list[i].addrs \cap list[j].addrs = {}

InOrder(list) ==
  \A i, j \in DOMAIN list :
    i < j /\ list[i].weight = -1 => list[i].priority <= list[j].priority

\* Every address was found for the place its entry has now.
Placed(list) == \A i \in DOMAIN list : \A a \in list[i].addrs : a.at = i

ListOK(list) == list \in Seq(Entry) /\ Owns(list) /\ InOrder(list)

\* A list that comes from an answer, not yet walked.
Fresh(list) ==
  /\ list \in Seq(Entry) /\ Len(list) <= MaxEntries
  /\ Owns(list)
  /\ \A i \in DOMAIN list : \A a \in list[i].addrs : a.k = 0

LEMMA FunctionIsSeq ==
  ASSUME NEW S, NEW n \in Nat, NEW f \in [1 .. n -> S]
  PROVE  f \in Seq(S) /\ Len(f) = n
OBVIOUS

LEMMA EntryParts ==
  ASSUME NEW list \in Seq(Entry), NEW i \in DOMAIN list
  PROVE  list[i] \in Entry /\ list[i].addrs \subseteq Address /\ list[i].target \in Names
<1>1. list[i] \in Entry
  OBVIOUS
<1>. QED  BY <1>1 DEF Entry, Names

\* The entries of an answer come with what its additional section knows.
LEMMA SectionFresh ==
  ASSUME NEW records \in Records, NEW known \in SUBSET Targets, NEW w \in {-1, 0}
  PROVE  /\ Fresh(WithSection(records, known, w))
         /\ Len(WithSection(records, known, w)) = Len(records)
         /\ \A i \in DOMAIN WithSection(records, known, w) :
              WithSection(records, known, w)[i].weight = w
         /\ Placed(WithSection(records, known, w))
<1>. DEFINE list == WithSection(records, known, w)
<1>1. PICK n \in 0 .. MaxEntries : records \in [1 .. n -> [target : Targets, priority : 0 .. 1]]
  BY DEF Records
<1>2. n \in Nat /\ n <= MaxEntries
  BY ConstantsAssumption
<1>3. Len(records) = n /\ DOMAIN records = 1 .. n
  BY <1>1, <1>2, FunctionIsSeq
<1>4. ASSUME NEW i \in 1 .. n
      PROVE  /\ list[i].target = records[i].target /\ list[i].weight = w
             /\ list[i].addrs \subseteq {[owner |-> records[i].target, at |-> i, k |-> 0]}
             /\ list[i] \in Entry
  <2>1. list[i] = [target |-> records[i].target, priority |-> records[i].priority, weight |-> w,
                   addrs |-> IF records[i].target \in known
                             THEN {[owner |-> records[i].target, at |-> i, k |-> 0]} ELSE {}]
    BY <1>3, <1>4 DEF WithSection
  <2>2. records[i].target \in Targets /\ records[i].priority \in 0 .. 1
    BY <1>1, <1>4
  <2>3. [owner |-> records[i].target, at |-> i, k |-> 0] \in Address
    BY <1>2, <1>4, <2>2, ConstantsAssumption DEF Address
  <2>. QED  BY <2>1, <2>2, <2>3 DEF Entry
<1>5. list \in [1 .. n -> Entry]
  BY <1>3, <1>4 DEF WithSection
<1>6. list \in Seq(Entry) /\ Len(list) = n /\ DOMAIN list = 1 .. n
  BY <1>2, <1>5, FunctionIsSeq
<1>7. \A i \in 1 .. n : \A a \in list[i].addrs : a.owner = list[i].target /\ a.k = 0 /\ a.at = i
  BY <1>4
<1>8. Owns(list)
  BY <1>6, <1>7 DEF Owns
<1>9. Placed(list)
  BY <1>6, <1>7 DEF Placed
<1>. QED  BY <1>2, <1>3, <1>4, <1>6, <1>7, <1>8, <1>9 DEF Fresh

\* So does the front of them, and the last of these may be left without.
LEMMA PrefixFresh ==
  ASSUME NEW list, Fresh(list), NEW n \in 0 .. Len(list)
  PROVE  /\ Fresh(SubSeq(list, 1, n))
         /\ Len(SubSeq(list, 1, n)) = n
         /\ \A i \in 1 .. n : SubSeq(list, 1, n)[i] = list[i]
<1>. DEFINE s == SubSeq(list, 1, n)
<1>1. list \in Seq(Entry) /\ Len(list) \in Nat /\ n \in Nat /\ n <= Len(list)
  BY DEF Fresh
<1>2. \A i \in 1 .. n : list[i] \in Entry
  BY <1>1
<1>3. s \in Seq(Entry) /\ Len(s) = n /\ \A i \in 1 .. n : s[i] = list[i]
  BY <1>1, <1>2, SubSeqProperties
<1>4. DOMAIN s = 1 .. n /\ DOMAIN list = 1 .. Len(list)
  BY <1>1, <1>3
<1>5. n <= MaxEntries
  BY <1>1, ConstantsAssumption DEF Fresh
<1>6. \A i \in 1 .. n : s[i] = list[i] /\ i \in DOMAIN list
  BY <1>1, <1>3, <1>4
<1>7. Owns(s)
  BY <1>4, <1>6 DEF Fresh, Owns
<1>8. \A i \in DOMAIN s : \A a \in s[i].addrs : a.k = 0
  BY <1>4, <1>6 DEF Fresh
<1>. QED  BY <1>3, <1>5, <1>7, <1>8 DEF Fresh

LeftWith(list, n, got) == [list EXCEPT ![n].addrs = got]

LEMMA LastFresh ==
  ASSUME NEW list, Fresh(list), NEW n \in 1 .. Len(list), NEW got \in {{}, list[n].addrs}
  PROVE  /\ Fresh(LeftWith(list, n, got))
         /\ \A i \in 1 .. Len(list) : LeftWith(list, n, got)[i].weight = list[i].weight
<1>. DEFINE s == LeftWith(list, n, got)
<1>1. list \in Seq(Entry) /\ Len(list) \in Nat /\ DOMAIN list = 1 .. Len(list)
  BY DEF Fresh
<1>2. \A i \in 1 .. Len(list) : list[i] \in Entry
  BY <1>1
<1>3. \A i \in 1 .. Len(list) :
        /\ s[i] = IF i = n THEN [list[i] EXCEPT !.addrs = got] ELSE list[i]
        /\ s[i] \in Entry /\ s[i].target = list[i].target /\ s[i].weight = list[i].weight
        /\ s[i].addrs \subseteq list[i].addrs
  BY <1>1, <1>2 DEF Entry, LeftWith
<1>4. s \in [1 .. Len(list) -> Entry]
  BY <1>1, <1>3 DEF LeftWith
<1>5. s \in Seq(Entry) /\ Len(s) = Len(list) /\ DOMAIN s = 1 .. Len(list)
  BY <1>1, <1>4, FunctionIsSeq
<1>6. \A i \in 1 .. Len(list) : \A a \in s[i].addrs :
        a \in list[i].addrs /\ a.k = 0 /\ a.owner = s[i].target
  <2>. HIDE DEF s
  <2>. TAKE i \in 1 .. Len(list)
  <2>1. s[i].addrs \subseteq list[i].addrs /\ s[i].target = list[i].target
    BY <1>3
  <2>2. \A a \in list[i].addrs : a.k = 0 /\ a.owner = list[i].target
    BY <1>1 DEF Fresh, Owns
  <2>. QED  BY <2>1, <2>2
<1>7. \A i, j \in 1 .. Len(list) : i # j => list[i].addrs \cap list[j].addrs = {}
  BY <1>1 DEF Fresh, Owns
<1>8. Owns(s)
  BY <1>5, <1>6, <1>7 DEF Owns
<1>9. \A i \in DOMAIN s : \A a \in s[i].addrs : a.k = 0
  BY <1>5, <1>6
<1>10. Len(s) <= MaxEntries
  BY <1>5 DEF Fresh
<1>. QED  BY <1>3, <1>5, <1>8, <1>9, <1>10 DEF Fresh

\* qsort() moves whole entries.
LEMMA SortedFresh ==
  ASSUME NEW list, Fresh(list), NEW s \in Sorted(list)
  PROVE  /\ Fresh(s) /\ Len(s) = Len(list) /\ InOrder(s)
<1>1. list \in Seq(Entry) /\ Len(list) \in Nat /\ DOMAIN list = 1 .. Len(list)
  BY DEF Fresh
<1>2. Len(list) \in 0 .. MaxEntries
  BY <1>1, ConstantsAssumption DEF Fresh
<1>3. PICK p \in Bijection(1 .. Len(list), 1 .. Len(list)) : s = [i \in DOMAIN list |-> list[p[i]]]
  BY <1>2 DEF Sorted, Orders
<1>4. Ascending(s)
  BY DEF Sorted
<1>5. /\ p \in [1 .. Len(list) -> 1 .. Len(list)]
      /\ \A i, j \in 1 .. Len(list) : i # j => p[i] # p[j]
  BY <1>3 DEF Bijection, Injection, IsInjective
<1>6. s \in [1 .. Len(list) -> Entry] /\ \A i \in 1 .. Len(list) : s[i] = list[p[i]]
  BY <1>1, <1>3, <1>5
<1>7. s \in Seq(Entry) /\ Len(s) = Len(list) /\ DOMAIN s = 1 .. Len(list)
  BY <1>1, <1>6, FunctionIsSeq
<1>8. \A i \in DOMAIN s : \A a \in s[i].addrs : a.k = 0 /\ a.owner = s[i].target
  BY <1>1, <1>5, <1>6, <1>7 DEF Fresh, Owns
<1>9. \A i, j \in DOMAIN s : i # j => s[i].addrs \cap s[j].addrs = {}
  BY <1>1, <1>5, <1>6, <1>7 DEF Fresh, Owns
<1>10. Fresh(s)
  BY <1>7, <1>8, <1>9 DEF Fresh, Owns
<1>11. InOrder(s)
  BY <1>4 DEF Ascending, InOrder
<1>. QED  BY <1>7, <1>10, <1>11

-----------------------------------------------------------------------------
(* Runs of the callbacks.                                                  *)

\* The walk, while it is under way, is at an entry that is asked for, and every
\* entry before it has an address.
AtEntry(list, i) ==
  /\ i \in DOMAIN list /\ Len(list) <= MaxEntries
  /\ \A j \in DOMAIN list : j < i => list[j].addrs # {}

Complete(list) == \A i \in DOMAIN list : list[i].addrs # {}

IInv ==
  /\ TypeOK
  /\ misused => app = "free"
  /\ query # "none" => app = "held"
  /\ app = "free" => entries = <<>>
  /\ PendingUntilDone
  /\ NothingBeforeAnswer
  /\ ListOK(entries) /\ heap = AddressesOf(entries)
  /\ app = "held" /\ aux = "walk" => AtEntry(entries, walkIndex) /\ asked = entries[walkIndex].target
  /\ app = "held" /\ aux \in {"fall", "mx"} => asked = Domain
  /\ OkIsComplete

\* What a run may come to: the callback, a fallback, or the walk.
Ends ==
  /\ code' \in Code /\ calls' = 1 /\ aux' = "none" /\ refused' \in BOOLEAN
  /\ asked' \in Names /\ walkIndex' \in 0 .. MaxEntries + 1
  /\ code' = "OK" /\ ~opts.nowalk => Complete(entries')

Falls ==
  /\ code' = "VOID" /\ calls' = 0 /\ aux' \in {"fall", "mx"} /\ refused' \in BOOLEAN
  /\ asked' = Domain /\ walkIndex' = 0 /\ entries' = <<>>

WalksOn ==
  /\ code' = "VOID" /\ calls' = 0 /\ aux' = "walk" /\ refused' \in BOOLEAN
  /\ walkIndex' \in 0 .. MaxEntries + 1
  /\ AtEntry(entries', walkIndex') /\ asked' = entries'[walkIndex'].target

\* The first entry without an address is found.
LEMMA FirstMissing ==
  ASSUME NEW list \in Seq(Entry), NEW i \in Nat, Missing(list, i) # {},
         NEW j, j = CHOOSE m \in Missing(list, i) : \A k \in Missing(list, i) : m <= k
  PROVE  /\ j \in i .. Len(list)
         /\ \A k \in i .. Len(list) : k < j => list[k].addrs # {}
<1>1. Missing(list, i) \in SUBSET Nat
  BY DEF Missing
<1>2. \E m \in Missing(list, i) : \A k \in Missing(list, i) : m <= k
  BY <1>1, LeastNumber
<1>3. j \in Missing(list, i) /\ \A k \in Missing(list, i) : j <= k
  BY <1>2, Zenon
<1>4. Len(list) \in Nat
  OBVIOUS
<1>5. ASSUME NEW k \in i .. Len(list), k < j PROVE list[k].addrs # {}
  <2>1. k \notin Missing(list, i)
    BY <1>1, <1>3, <1>4, <1>5
  <2>. QED  BY <2>1 DEF Missing
<1>. QED  BY <1>3, <1>4, <1>5 DEF Missing

\* Asking for an auxiliary query ends in the query or in the callback.
LEMMA AskStep ==
  ASSUME IInv, code = "VOID", calls = 0, NEW kind, NEW name, NEW noMemory, NEW notTaken,
         Ask(kind, name, noMemory, notTaken)
  PROVE  /\ \/ aux' = kind /\ asked' = name /\ code' = "VOID" /\ calls' = 0
            \/ code' \in {noMemory, notTaken} /\ calls' = 1 /\ aux' = "none" /\ asked' \in Names
         /\ refused' \in BOOLEAN
<1>1. refused' \in BOOLEAN
  BY Zenon DEF IInv, TypeOK, Ask, Done
<1>. QED  BY <1>1 DEF IInv, TypeOK, Ask, Done, CallBack, Names

\* _ruli_srv_answer_walk(): the walk goes on at an entry without an address,
\* or there is none left, or nobody wants it.
LEMMA WalkStep ==
  ASSUME IInv, code = "VOID", calls = 0, NEW i \in 1 .. MaxEntries + 1,
         entries' \in Seq(Entry), Len(entries') <= MaxEntries,
         \A j \in DOMAIN entries' : j < i => entries'[j].addrs # {},
         AnswerWalk(entries', i)
  PROVE  Ends \/ WalksOn
<1>. DEFINE list == entries'
<1>0. Len(list) \in Nat /\ DOMAIN list = 1 .. Len(list) /\ MaxEntries \in Nat /\ i \in Nat
  BY ConstantsAssumption
<1>1. CASE opts.nowalk \/ Missing(list, i) = {}
  <2>1. Done("OK") /\ walkIndex' = IF opts.nowalk THEN i ELSE Len(list) + 1
    BY <1>1 DEF AnswerWalk
  <2>2. ~opts.nowalk => Complete(list)
    BY <1>0, <1>1 DEF Missing, Complete
  <2>3. walkIndex' \in 0 .. MaxEntries + 1
    BY <1>0, <2>1
  <2>. QED  BY <2>1, <2>2, <2>3 DEF Ends, Done, CallBack, Code, SrvCode, IInv, TypeOK, Names
<1>2. CASE ~opts.nowalk /\ Missing(list, i) # {}
  <2>. DEFINE j == CHOOSE j \in Missing(list, i) : \A k \in Missing(list, i) : j <= k
  <2>1. walkIndex' = j /\ Ask("walk", list[j].target, "WALK_OTHER", "WALK_QUERY")
    BY <1>2 DEF AnswerWalk
  <2>2. j \in i .. Len(list) /\ \A k \in i .. Len(list) : k < j => list[k].addrs # {}
    BY <1>0, <1>2, FirstMissing
  <2>. HIDE DEF j
  <2>3. AtEntry(list, j) /\ j \in 0 .. MaxEntries + 1
    BY <1>0, <2>2 DEF AtEntry
  <2>0. refused' \in BOOLEAN
    BY <2>1, AskStep
  <2>4. CASE aux' = "walk" /\ asked' = list[j].target /\ code' = "VOID" /\ calls' = 0
    BY <2>0, <2>1, <2>3, <2>4 DEF WalksOn
  <2>5. CASE code' \in {"WALK_OTHER", "WALK_QUERY"} /\ calls' = 1 /\ aux' = "none" /\ asked' \in Names
    BY <2>0, <2>1, <2>3, <2>5 DEF Ends, Code, WalkCode
  <2>. QED  BY <2>1, <2>4, <2>5, AskStep
<1>. QED  BY <1>1, <1>2

\* A run of a callback, whatever it comes to, keeps the invariant.
LEMMA RunKeeps ==
  ASSUME IInv, app = "held", ~misused, Ends \/ Falls \/ WalksOn,
         query' = "listed" \/ (query' = query /\ query # "pending"),
         UNCHANGED <<app, opts, misused>>,
         lastRcode' \in {"VOID", "NOERROR", "ERROR"},
         ListOK(entries'), heap' = AddressesOf(entries')
  PROVE  IInv'
<1>1. TypeOK'
  <2>0. \A i \in DOMAIN entries' : entries'[i].addrs \subseteq Address /\ entries'[i].target \in Names
    BY EntryParts DEF ListOK
  <2>1. heap' \subseteq Address
    BY <2>0 DEF AddressesOf
  <2>2. asked' \in Names /\ walkIndex' \in 0 .. MaxEntries + 1 /\ aux' \in {"none", "walk", "fall", "mx"}
    <3>1. CASE WalksOn
      BY <2>0, <3>1 DEF WalksOn, AtEntry
    <3>. QED  BY <3>1, ConstantsAssumption DEF Ends, Falls, Names
  <2>3. code' \in Code \cup {"VOID"} /\ calls' \in Nat
    BY DEF Ends, Falls, WalksOn
  <2>4. refused' \in BOOLEAN /\ misused' \in BOOLEAN
    BY Zenon DEF Ends, Falls, WalksOn, IInv, TypeOK
  <2>5. app' \in {"free", "held"} /\ opts' \in Options /\ query' \in {"none", "pending", "listed"}
    BY DEF IInv, TypeOK
  <2>. QED  BY <2>1, <2>2, <2>3, <2>4, <2>5, Zenon DEF TypeOK, ListOK, Code, Names
<1>2. PendingUntilDone'
  BY DEF PendingUntilDone, Ends, Falls, WalksOn, Code, SrvCode, WalkCode, FallCode, IInv, TypeOK
<1>3. NothingBeforeAnswer'
  BY DEF NothingBeforeAnswer, Ends, Falls, WalksOn
<1>4. OkIsComplete'
  BY DEF OkIsComplete, Ends, Falls, WalksOn, Complete
<1>5. aux' = "walk" => AtEntry(entries', walkIndex') /\ asked' = entries'[walkIndex'].target
  BY DEF Ends, Falls, WalksOn
<1>6. aux' \in {"fall", "mx"} => asked' = Domain
  BY DEF Ends, Falls, WalksOn
<1>. QED  BY <1>1, <1>2, <1>3, <1>4, <1>5, <1>6 DEF IInv

-----------------------------------------------------------------------------
(* The callbacks.                                                          *)

LEMMA EmptyList == ListOK(<<>>) /\ AddressesOf(<<>>) = {} /\ Complete(<<>>)
BY DEF ListOK, Owns, InOrder, AddressesOf, Complete

\* What the query is like when an answer comes.
LEMMA OnCall ==
  ASSUME IInv, ~misused, query = "pending" \/ (aux # "none" /\ app = "held")
  PROVE  /\ app = "held" /\ code = "VOID" /\ calls = 0
         /\ query = "pending" <=> aux = "none"
         /\ query = "pending" \/ aux \in {"fall", "mx"} =>
              entries = <<>> /\ walkIndex = 0 /\ heap = {}
<1>1. app = "held" /\ PendingUntilDone /\ NothingBeforeAnswer /\ heap = AddressesOf(entries)
  BY DEF IInv
<1>2. code = "VOID" /\ calls = 0 /\ (query = "pending" <=> aux = "none")
  BY <1>1 DEF PendingUntilDone
<1>. QED  BY <1>1, <1>2, EmptyList DEF NothingBeforeAnswer

\* A fallback that begins, or the end of a query that is to have none.
LEMMA FallbackStep ==
  ASSUME IInv, code = "VOID", calls = 0, entries = <<>>, walkIndex = 0,
         UNCHANGED <<entries, walkIndex>>,
         NEW o \in Options, Fallback(o) \/ AnswerFallbackAddr(o)
  PROVE  Ends \/ Falls
<1>. USE ConstantsAssumption DEF IInv, TypeOK, Ends, Falls, Names, Code, SrvCode, FallCode
<1>1. Complete(entries')
  BY EmptyList
<1>2. ASSUME AnswerFallbackAddr(o) PROVE Ends \/ Falls
  <2>1. CASE o.nofall
    BY <1>1, <1>2, <2>1 DEF AnswerFallbackAddr, Done, CallBack
  <2>2. CASE ~o.nofall
    BY <1>2, <2>2, AskStep DEF AnswerFallbackAddr
  <2>. QED  BY <2>1, <2>2
<1>3. ASSUME Ask("mx", Domain, "FALL_OTHER", "FALL_OTHER") PROVE Ends \/ Falls
  BY <1>3, AskStep
<1>. QED  BY <1>2, <1>3 DEF Fallback

LEMMA SrvAnswerKeeps == ASSUME IInv, OnSrvAnswer PROVE IInv'
<1>0. /\ ~misused /\ query' = "listed" /\ UNCHANGED <<app, opts, lastRcode, misused>>
      /\ app = "held" /\ code = "VOID" /\ calls = 0
      /\ entries = <<>> /\ walkIndex = 0 /\ heap = {}
  BY OnCall DEF OnSrvAnswer
<1>1. lastRcode' \in {"VOID", "NOERROR", "ERROR"} /\ MaxEntries \in Nat /\ asked \in Names /\ opts \in Options
      /\ refused \in BOOLEAN
  BY <1>0, ConstantsAssumption DEF IInv, TypeOK, Names
<1>2. CASE /\ (\E c \in SrvCode \ {"OK"} : Done(c)) \/ Fallback(opts)
           /\ UNCHANGED <<entries, heap, walkIndex>>
  <2>1. Ends \/ Falls
    <3>1. CASE \E c \in SrvCode \ {"OK"} : Done(c)
      BY <1>0, <1>1, <1>2, <3>1 DEF Ends, Done, CallBack, Code
    <3>. QED  BY <1>0, <1>1, <1>2, <3>1, FallbackStep
  <2>. QED  BY <1>0, <1>1, <1>2, <2>1, RunKeeps, EmptyList
<1>3. ASSUME NEW records \in Records, NEW known \in SUBSET Targets,
             NEW list, list = WithSection(records, known, 0)
      PROVE  /\ Fresh(list) /\ InOrder(list) /\ Len(list) \in Nat
             /\ \A i \in DOMAIN list : list[i].weight = 0
  BY <1>3, SectionFresh DEF Fresh, InOrder
<1>4. ASSUME NEW list, Fresh(list), InOrder(list), SetEntries(list)
      PROVE  ListOK(entries') /\ heap' = AddressesOf(entries') /\ entries' = list
  BY <1>0, <1>4 DEF SetEntries, Fresh, ListOK
<1>5. ASSUME NEW records \in Records, NEW known \in SUBSET Targets,
             NEW list, list = WithSection(records, known, 0),
             NEW n \in 1 .. Len(list), NEW c \in {"MALLOC", "LIST"},
             \/ SetEntries(SubSeq(list, 1, n - 1))
             \/ \E got \in {{}, list[n].addrs} :
                  SetEntries([SubSeq(list, 1, n) EXCEPT ![n].addrs = got]),
             Done(c), UNCHANGED walkIndex
      PROVE  IInv'
  <2>1. Fresh(list) /\ Len(list) \in Nat /\ \A i \in DOMAIN list : list[i].weight = 0
    BY <1>3, <1>5
  <2>2. DOMAIN list = 1 .. Len(list)
    BY <2>1 DEF Fresh
  <2>3. ASSUME NEW m \in 0 .. Len(list), NEW s, s = SubSeq(list, 1, m)
        PROVE  Fresh(s) /\ InOrder(s) /\ Len(s) = m /\ \A i \in 1 .. m : s[i] = list[i]
    <3>1. Fresh(s) /\ Len(s) = m /\ \A i \in 1 .. m : s[i] = list[i]
      BY <2>1, <2>3, PrefixFresh
    <3>2. DOMAIN s = 1 .. m
      BY <3>1 DEF Fresh
    <3>3. \A i \in DOMAIN s : s[i].weight = 0
      BY <2>1, <2>2, <3>1, <3>2
    <3>. QED  BY <3>1, <3>3 DEF InOrder
  <2>4. ListOK(entries') /\ heap' = AddressesOf(entries')
    <3>1. CASE SetEntries(SubSeq(list, 1, n - 1))
      <4>1. n - 1 \in 0 .. Len(list)
        BY <2>1
      <4>2. Fresh(SubSeq(list, 1, n - 1)) /\ InOrder(SubSeq(list, 1, n - 1))
        BY <2>3, <4>1
      <4>. QED  BY <1>4, <3>1, <4>2
    <3>2. ASSUME NEW got \in {{}, list[n].addrs},
                 SetEntries([SubSeq(list, 1, n) EXCEPT ![n].addrs = got])
          PROVE  ListOK(entries') /\ heap' = AddressesOf(entries')
      <4>. DEFINE s == SubSeq(list, 1, n)
                  t == [s EXCEPT ![n].addrs = got]
      <4>1. Fresh(s) /\ Len(s) = n /\ \A i \in 1 .. n : s[i] = list[i]
        <5>1. n \in 0 .. Len(list)
          BY <2>1
        <5>. QED  BY <2>3, <5>1
      <4>2. Fresh(t) /\ \A i \in 1 .. n : t[i].weight = s[i].weight
        <5>1. n \in 1 .. Len(s) /\ got \in {{}, s[n].addrs}
          BY <4>1
        <5>. HIDE DEF s
        <5>2. t = LeftWith(s, n, got)
          BY DEF LeftWith
        <5>. HIDE DEF t
        <5>3. Fresh(t) /\ \A i \in 1 .. Len(s) : t[i].weight = s[i].weight
          BY <4>1, <5>1, <5>2, LastFresh
        <5>. QED  BY <4>1, <5>3
      <4>3. DOMAIN t = 1 .. n
        BY <2>1, <4>1 DEF Fresh
      <4>4. InOrder(t)
        BY <2>1, <2>2, <4>1, <4>2, <4>3 DEF InOrder
      <4>. QED  BY <1>4, <3>2, <4>2, <4>4
    <3>. QED  BY <1>5, <3>1, <3>2
  <2>5. Ends
    BY <1>0, <1>1, <1>5 DEF Ends, Done, CallBack, Code, SrvCode
  <2>. QED  BY <1>0, <1>1, <2>4, <2>5, RunKeeps
<1>6. ASSUME NEW records \in Records, NEW known \in SUBSET Targets,
             NEW list, list = WithSection(records, known, 0),
             SetEntries(list), AnswerWalk(list, 1)
      PROVE  IInv'
  <2>1. ListOK(entries') /\ heap' = AddressesOf(entries') /\ entries' = list /\ Fresh(list)
    BY <1>3, <1>4, <1>6
  <2>2. Ends \/ WalksOn
    <3>1. \A j \in DOMAIN entries' : ~(j < 1)
      BY <2>1 DEF Fresh
    <3>2. 1 \in 1 .. MaxEntries + 1 /\ AnswerWalk(entries', 1)
      BY <1>1, <1>6, <2>1
    <3>. QED  BY <1>0, <2>1, <3>1, <3>2, WalkStep DEF Fresh
  <2>. QED  BY <1>0, <1>1, <2>1, <2>2, RunKeeps
<1>. QED  BY <1>2, <1>5, <1>6 DEF OnSrvAnswer

\* The addresses a host query found go to the entry it was asked for.
With(list, i, new) == [list EXCEPT ![i].addrs = @ \cup new]

LEMMA Gained ==
  ASSUME NEW list, ListOK(list), NEW i \in DOMAIN list, i \in 1 .. MaxEntries + 1,
         NEW new \in SUBSET Address, new # {},
         \A a \in new : a.owner = list[i].target /\ a.at = i /\ a.k # 0
  PROVE  /\ ListOK(With(list, i, new))
         /\ Len(With(list, i, new)) = Len(list) /\ DOMAIN With(list, i, new) = DOMAIN list
         /\ \A j \in DOMAIN list \ {i} : With(list, i, new)[j] = list[j]
         /\ With(list, i, new)[i].addrs = list[i].addrs \cup new
         /\ AddressesOf(With(list, i, new)) = AddressesOf(list) \cup new
<1>. DEFINE s == With(list, i, new)
<1>1. list \in Seq(Entry) /\ Len(list) \in Nat /\ DOMAIN list = 1 .. Len(list)
  BY DEF ListOK
<1>2. \A j \in DOMAIN list : list[j] \in Entry /\ list[j].addrs \in SUBSET Address
  BY <1>1, EntryParts
<1>3. \A j \in DOMAIN list :
        s[j] = IF j = i THEN [list[j] EXCEPT !.addrs = list[j].addrs \cup new] ELSE list[j]
  BY <1>1, <1>2 DEF With
<1>4. \A j \in DOMAIN list :
        /\ s[j] \in Entry /\ s[j].target = list[j].target
        /\ s[j].priority = list[j].priority /\ s[j].weight = list[j].weight
        /\ s[j].addrs = IF j = i THEN list[j].addrs \cup new ELSE list[j].addrs
  <2>. TAKE j \in DOMAIN list
  <2>1. CASE j = i
    <3>1. s[j] = [list[j] EXCEPT !.addrs = list[j].addrs \cup new]
      BY <1>3, <2>1
    <3>2. list[j] \in Entry /\ list[j].addrs \cup new \in SUBSET Address
      BY <1>2
    <3>. HIDE DEF s
    <3>. QED  BY <2>1, <3>1, <3>2 DEF Entry
  <2>2. CASE j # i
    <3>1. s[j] = list[j]
      BY <1>3, <2>2
    <3>. HIDE DEF s
    <3>. QED  BY <1>2, <2>2, <3>1
  <2>. QED  BY <2>1, <2>2
<1>5. s \in [1 .. Len(list) -> Entry]
  BY <1>1, <1>4 DEF With
<1>. HIDE DEF s
<1>6. s \in Seq(Entry) /\ Len(s) = Len(list) /\ DOMAIN s = DOMAIN list
  BY <1>1, <1>5, FunctionIsSeq
<1>7. InOrder(s)
  BY <1>4, <1>6 DEF ListOK, InOrder
<1>8. Owns(s)
  <2>1. \A j \in DOMAIN list : \A a \in list[j].addrs :
          a.owner = list[j].target /\ (a.k # 0 => a.at = j)
    BY DEF ListOK, Owns
  <2>2. \A j, k \in DOMAIN list : j # k => list[j].addrs \cap list[k].addrs = {}
    BY DEF ListOK, Owns
  <2>3. \A j \in DOMAIN list \ {i} : list[j].addrs \cap new = {}
    BY <2>1
  <2>4. \A j, k \in DOMAIN list : j # k => s[j].addrs \cap s[k].addrs = {}
    <3>. TAKE j, k \in DOMAIN list
    <3>1. /\ s[j].addrs = IF j = i THEN list[j].addrs \cup new ELSE list[j].addrs
          /\ s[k].addrs = IF k = i THEN list[k].addrs \cup new ELSE list[k].addrs
      BY <1>4
    <3>2. j # k => list[j].addrs \cap list[k].addrs = {}
      BY <2>2
    <3>3. (j # i => list[j].addrs \cap new = {}) /\ (k # i => list[k].addrs \cap new = {})
      BY <2>3
    <3>. QED  BY <3>1, <3>2, <3>3
  <2>5. \A j \in DOMAIN list : \A a \in s[j].addrs :
          a.owner = s[j].target /\ (a.k # 0 => a.at = j)
    <3>. SUFFICES ASSUME NEW j \in DOMAIN list, NEW a \in s[j].addrs
                  PROVE  a.owner = s[j].target /\ (a.k # 0 => a.at = j)
      OBVIOUS
    <3>1. s[j].target = list[j].target
      BY <1>4
    <3>2. CASE a \in list[j].addrs
      BY <3>1, <3>2, <2>1
    <3>3. CASE j = i /\ a \in new
      BY <3>1, <3>3
    <3>. QED  BY <1>4, <3>2, <3>3
  <2>. QED  BY <1>6, <2>4, <2>5 DEF Owns
<1>9. AddressesOf(s) = AddressesOf(list) \cup new
  <2>1. \A j \in DOMAIN list :
          s[j].addrs = IF j = i THEN list[j].addrs \cup new ELSE list[j].addrs
    BY <1>4
  <2>2. ASSUME NEW a
        PROVE  a \in AddressesOf(s) <=> \E j \in DOMAIN list : a \in s[j].addrs
    BY <1>6 DEF AddressesOf
  <2>3. ASSUME NEW a
        PROVE  a \in AddressesOf(list) <=> \E j \in DOMAIN list : a \in list[j].addrs
    BY DEF AddressesOf
  <2>4. ASSUME NEW a
        PROVE  a \in AddressesOf(s) <=> a \in AddressesOf(list) \/ a \in new
    BY <2>1, <2>2, <2>3
  <2>. QED  BY <2>4
<1>. QED  BY <1>3, <1>4, <1>6, <1>7, <1>8, <1>9 DEF ListOK, s

\* What a host query finds is new.
LEMMA FoundIs ==
  ASSUME NEW n \in 1 .. MaxFound, NEW i \in 1 .. MaxEntries + 1, asked \in Names
  PROVE  /\ Found(n, i) \in SUBSET Address /\ Found(n, i) # {}
         /\ \A a \in Found(n, i) : a.owner = asked /\ a.at = i /\ a.k # 0
<1>1. \A k \in 1 .. n : [owner |-> asked, at |-> i, k |-> k] \in Address
  BY ConstantsAssumption DEF Address, Names
<1>2. [owner |-> asked, at |-> i, k |-> 1] \in Found(n, i)
  BY ConstantsAssumption DEF Found
<1>. QED  BY <1>1, <1>2, ConstantsAssumption DEF Found

\* A host query that fails ends the SRV query.
LEMMA HostFailsStep ==
  ASSUME IInv, code = "VOID", calls = 0,
         \/ HostFails("WALK_ALARM", "WALK_EMPTY", "WALK_RCODE", "WALK_QUERY")
         \/ HostFails("FALL_ALARM", "FALL_EMPTY", "FALL_RCODE", "FALL_QUERY")
  PROVE  /\ Ends /\ lastRcode' \in {"VOID", "NOERROR", "ERROR"}
         /\ UNCHANGED <<entries, heap, walkIndex>>
BY DEF IInv, TypeOK, HostFails, Done, CallBack, Ends, Names, Code, WalkCode, FallCode

LEMMA WalkAnswerKeeps == ASSUME IInv, OnWalkAnswer PROVE IInv'
<1>0. /\ ~misused /\ UNCHANGED <<app, opts, query, misused>>
      /\ app = "held" /\ aux = "walk" /\ code = "VOID" /\ calls = 0 /\ query # "pending"
  BY OnCall DEF OnWalkAnswer, Answers
<1>1. /\ AtEntry(entries, walkIndex) /\ asked = entries[walkIndex].target
      /\ asked \in Names /\ ListOK(entries) /\ heap = AddressesOf(entries)
      /\ walkIndex \in 0 .. MaxEntries + 1 /\ refused \in BOOLEAN
  BY <1>0 DEF IInv, TypeOK, Names
<1>2. /\ MaxEntries \in Nat /\ Len(entries) \in Nat /\ DOMAIN entries = 1 .. Len(entries)
      /\ walkIndex \in 1 .. Len(entries) /\ Len(entries) <= MaxEntries
  BY <1>1, ConstantsAssumption DEF AtEntry, ListOK
<1>3. CASE HostFails("WALK_ALARM", "WALK_EMPTY", "WALK_RCODE", "WALK_QUERY")
  BY <1>0, <1>1, <1>3, HostFailsStep, RunKeeps
<1>4. CASE Done("FALL_OTHER") /\ UNCHANGED <<entries, heap, walkIndex>> /\ lastRcode' = "NOERROR"
  <2>1. Ends
    BY <1>0, <1>1, <1>4 DEF Ends, Done, CallBack, Code, FallCode
  <2>. QED  BY <1>0, <1>1, <1>4, <2>1, RunKeeps
<1>5. ASSUME NEW n \in 1 .. MaxFound, lastRcode' = "NOERROR",
             entries' = With(entries, walkIndex, Found(n, walkIndex)),
             heap' = heap \cup Found(n, walkIndex),
             AnswerWalk(entries', walkIndex + 1)
      PROVE  IInv'
  <2>1. walkIndex \in 1 .. MaxEntries + 1 /\ walkIndex + 1 \in 1 .. MaxEntries + 1
    BY <1>2
  <2>2. /\ ListOK(entries') /\ Len(entries') = Len(entries) /\ DOMAIN entries' = DOMAIN entries
        /\ \A j \in DOMAIN entries \ {walkIndex} : entries'[j] = entries[j]
        /\ entries'[walkIndex].addrs # {}
        /\ heap' = AddressesOf(entries')
    BY <1>1, <1>2, <1>5, <2>1, FoundIs, Gained
  <2>3. \A j \in DOMAIN entries' : j < walkIndex + 1 => entries'[j].addrs # {}
    BY <1>1, <1>2, <2>2 DEF AtEntry
  <2>4. Ends \/ WalksOn
    BY <1>0, <1>2, <1>5, <2>1, <2>2, <2>3, WalkStep DEF ListOK
  <2>. QED  BY <1>0, <1>5, <2>2, <2>4, RunKeeps
<1>. QED  BY <1>3, <1>4, <1>5 DEF OnWalkAnswer, Moved, With

LEMMA OneEntry ==
  ASSUME NEW addrs \in SUBSET Address,
         \A a \in addrs : a.owner = Domain /\ a.at = 1
  PROVE  /\ ListOK(Append(<<>>, DomainEntry(addrs)))
         /\ AddressesOf(Append(<<>>, DomainEntry(addrs))) = addrs
         /\ addrs # {} => Complete(Append(<<>>, DomainEntry(addrs)))
<1>. DEFINE s == Append(<<>>, DomainEntry(addrs))
<1>1. DomainEntry(addrs) \in Entry /\ DomainEntry(addrs).target = Domain
      /\ DomainEntry(addrs).addrs = addrs
  BY DEF DomainEntry, Entry
<1>2. s \in Seq(Entry) /\ DOMAIN s = {1} /\ s[1] = DomainEntry(addrs)
  BY <1>1
<1>. HIDE DEF s
<1>3. Owns(s) /\ InOrder(s)
  BY <1>1, <1>2 DEF Owns, InOrder
<1>4. AddressesOf(s) = addrs /\ (addrs # {} => Complete(s))
  BY <1>1, <1>2 DEF AddressesOf, Complete
<1>. QED  BY <1>2, <1>3, <1>4 DEF ListOK, s

LEMMA FallbackAnswerKeeps == ASSUME IInv, OnFallbackAnswer PROVE IInv'
<1>0. /\ ~misused /\ UNCHANGED <<app, opts, query, misused>>
      /\ app = "held" /\ aux = "fall" /\ code = "VOID" /\ calls = 0 /\ query # "pending"
      /\ entries = <<>> /\ walkIndex = 0 /\ heap = {}
  BY OnCall DEF OnFallbackAnswer, Answers
<1>1. asked = Domain /\ asked \in Names /\ MaxEntries \in Nat /\ refused \in BOOLEAN
  BY <1>0, ConstantsAssumption DEF IInv, TypeOK, Names
<1>2. CASE HostFails("FALL_ALARM", "FALL_EMPTY", "FALL_RCODE", "FALL_QUERY")
  BY <1>0, <1>1, <1>2, HostFailsStep, RunKeeps, EmptyList
<1>3. ASSUME NEW n \in 1 .. MaxFound, lastRcode' = "NOERROR", UNCHANGED walkIndex,
             entries' = Append(entries, DomainEntry(Found(n, 1))),
             heap' = heap \cup Found(n, 1), Done("OK")
      PROVE  IInv'
  <2>1. 1 \in 1 .. MaxEntries + 1
    BY <1>1
  <2>2. ListOK(entries') /\ heap' = AddressesOf(entries') /\ Complete(entries')
    BY <1>0, <1>1, <1>3, <2>1, FoundIs, OneEntry
  <2>3. Ends
    BY <1>0, <1>1, <1>3, <2>2 DEF Ends, Done, CallBack, Code, SrvCode
  <2>. QED  BY <1>0, <1>3, <2>2, <2>3, RunKeeps
<1>4. CASE /\ Done("FALL_OTHER") /\ UNCHANGED <<heap, walkIndex>> /\ lastRcode' = "NOERROR"
           /\ entries' \in {entries, Append(entries, DomainEntry({}))}
  <2>1. ListOK(entries') /\ heap' = AddressesOf(entries')
    BY <1>0, <1>4, EmptyList, OneEntry
  <2>2. Ends
    BY <1>0, <1>1, <1>4 DEF Ends, Done, CallBack, Code, FallCode
  <2>. QED  BY <1>0, <1>4, <2>1, <2>2, RunKeeps
<1>. QED  BY <1>2, <1>3, <1>4 DEF OnFallbackAnswer, Moved

LEMMA MxAnswerKeeps == ASSUME IInv, OnMxAnswer PROVE IInv'
<1>0. /\ ~misused /\ UNCHANGED <<app, opts, query, misused>>
      /\ app = "held" /\ aux = "mx" /\ code = "VOID" /\ calls = 0 /\ query # "pending"
      /\ entries = <<>> /\ walkIndex = 0 /\ heap = {}
  BY OnCall DEF OnMxAnswer, Answers
<1>1. MaxEntries \in Nat /\ asked \in Names /\ opts \in Options /\ refused \in BOOLEAN
  BY <1>0, ConstantsAssumption DEF IInv, TypeOK, Names
<1>2. CASE /\ \/ \E c \in {"FALL_ALARM", "FALL_QUERY"} : Done(c) /\ lastRcode' = "VOID"
              \/ Done("FALL_RCODE") /\ lastRcode' = "ERROR"
              \/ \E c \in {"FALL_OTHER", "FALL_PARSE"} : Done(c) /\ lastRcode' = "NOERROR"
           /\ UNCHANGED <<entries, heap, walkIndex>>
  <2>1. Ends /\ lastRcode' \in {"VOID", "NOERROR", "ERROR"}
    BY <1>0, <1>1, <1>2 DEF Ends, Done, CallBack, Code, FallCode
  <2>. QED  BY <1>0, <1>2, <2>1, RunKeeps, EmptyList
<1>3. CASE AnswerFallbackAddr(opts) /\ lastRcode' = "NOERROR" /\ UNCHANGED <<entries, heap, walkIndex>>
  <2>1. Ends \/ Falls
    BY <1>0, <1>1, <1>3, FallbackStep
  <2>. QED  BY <1>0, <1>3, <2>1, RunKeeps, EmptyList
<1>4. ASSUME NEW list, Fresh(list), InOrder(list), SetEntries(list)
      PROVE  ListOK(entries') /\ heap' = AddressesOf(entries') /\ entries' = list
  BY <1>0, <1>4 DEF SetEntries, Fresh, ListOK
<1>5. ASSUME NEW records \in Records, NEW known \in SUBSET Targets,
             NEW n \in 1 .. Len(records), NEW c \in {"FALL_OTHER", "FALL_PARSE"},
             NEW list \in Sorted(WithSection(SubSeq(records, 1, n), known, -1)),
             SetEntries(list), Done(c), UNCHANGED walkIndex, lastRcode' = "NOERROR"
      PROVE  IInv'
  <2>1. SubSeq(records, 1, n) \in Records
    <3>1. PICK m \in 0 .. MaxEntries : records \in [1 .. m -> [target : Targets, priority : 0 .. 1]]
      BY DEF Records
    <3>2. m \in Nat /\ m <= MaxEntries
      BY <1>1
    <3>3. Len(records) = m
      BY <3>1, <3>2, FunctionIsSeq
    <3>4. SubSeq(records, 1, n) \in [1 .. n -> [target : Targets, priority : 0 .. 1]]
      <4>1. \A i \in 1 .. n : records[i] \in [target : Targets, priority : 0 .. 1]
        BY <3>1, <3>2, <3>3
      <4>2. /\ Len(SubSeq(records, 1, n)) = n
            /\ SubSeq(records, 1, n) \in Seq([target : Targets, priority : 0 .. 1])
        BY <3>2, <3>3, <4>1, SubSeqProperties
      <4>. QED  BY <4>2, LenProperties
    <3>5. n \in 0 .. MaxEntries
      BY <3>2, <3>3, <1>1
    <3>. QED  BY <3>4, <3>5 DEF Records
  <2>2. Fresh(list) /\ InOrder(list)
    BY <2>1, SectionFresh, SortedFresh
  <2>3. Ends
    BY <1>0, <1>1, <1>5 DEF Ends, Done, CallBack, Code, FallCode
  <2>. QED  BY <1>0, <1>4, <1>5, <2>2, <2>3, RunKeeps
<1>6. ASSUME NEW records \in Records, NEW known \in SUBSET Targets,
             NEW list \in Sorted(WithSection(records, known, -1)),
             SetEntries(list), AnswerWalk(list, 1), lastRcode' = "NOERROR"
      PROVE  IInv'
  <2>1. Fresh(list) /\ InOrder(list)
    BY SectionFresh, SortedFresh
  <2>2. ListOK(entries') /\ heap' = AddressesOf(entries') /\ entries' = list
    BY <1>4, <1>6, <2>1
  <2>3. Ends \/ WalksOn
    <3>1. \A j \in DOMAIN entries' : ~(j < 1)
      BY <2>1, <2>2 DEF Fresh
    <3>2. 1 \in 1 .. MaxEntries + 1 /\ AnswerWalk(entries', 1)
      BY <1>1, <1>6, <2>2
    <3>. QED  BY <1>0, <2>1, <2>2, <3>1, <3>2, WalkStep DEF Fresh
  <2>. QED  BY <1>0, <1>6, <2>2, <2>3, RunKeeps
<1>. QED  BY <1>2, <1>3, <1>5, <1>6 DEF OnMxAnswer

-----------------------------------------------------------------------------
(* The theorems.                                                           *)

LEMMA SubmitKeeps == ASSUME IInv, Submit PROVE IInv'
<1>1. TypeOK'
  BY ConstantsAssumption DEF IInv, TypeOK, Submit, Options, SrvCode, FallCode
<1>2. heap = {} /\ app = "free" /\ ~misused
  BY EmptyList DEF IInv, Submit
<1>3. PendingUntilDone' /\ NothingBeforeAnswer' /\ OkIsComplete'
  BY DEF PendingUntilDone, NothingBeforeAnswer, OkIsComplete, Submit
<1>. QED  BY <1>1, <1>2, <1>3, EmptyList DEF IInv, Submit

LEMMA DeleteKeeps == ASSUME IInv, Delete PROVE IInv'
<1>1. misused' \in BOOLEAN
  BY Zenon DEF Delete, IInv, TypeOK
<1>2. TypeOK'
  BY <1>1 DEF IInv, TypeOK, Delete
<1>3. PendingUntilDone' /\ NothingBeforeAnswer' /\ OkIsComplete'
  BY DEF PendingUntilDone, NothingBeforeAnswer, OkIsComplete, Delete
<1>4. heap' = {} /\ entries' = <<>>
  BY DEF IInv, Delete
<1>. QED  BY <1>2, <1>3, <1>4, EmptyList DEF IInv, Delete

LEMMA FindsFreedKeeps == ASSUME IInv, FindsFreed PROVE IInv'
BY DEF FindsFreed, IInv, TypeOK, PendingUntilDone, NothingBeforeAnswer, OkIsComplete

LEMMA InitKeeps == ASSUME Init PROVE IInv
<1>1. TypeOK
  <2>1. opts \in Options /\ entries \in Seq(Entry)
    BY DEF Init, Options
  <2>2. walkIndex \in 0 .. MaxEntries + 1 /\ heap \subseteq Address /\ calls \in Nat
    BY ConstantsAssumption DEF Init
  <2>3. misused \in BOOLEAN /\ asked \in Targets \cup {Domain}
    BY Zenon DEF Init
  <2>. QED  BY <2>1, <2>2, <2>3, Zenon DEF Init, TypeOK
<1>. QED  BY <1>1, EmptyList DEF Init, IInv, PendingUntilDone, NothingBeforeAnswer, OkIsComplete

LEMMA Inductive == Spec => []IInv
<1>1. Init => IInv
  BY InitKeeps
<1>2. ASSUME IInv, [Next]_vars PROVE IInv'
  <2>1. CASE UNCHANGED vars
    BY <1>2, <2>1
    DEF vars, IInv, TypeOK, PendingUntilDone, NothingBeforeAnswer, OkIsComplete
  <2>2. CASE OnAnswerToDeleted
    BY <1>2, <2>2
    DEF OnAnswerToDeleted, IInv, TypeOK, PendingUntilDone, NothingBeforeAnswer, OkIsComplete
  <2>. QED
    BY <1>2, <2>1, <2>2, SubmitKeeps, FindsFreedKeeps, DeleteKeeps, SrvAnswerKeeps, WalkAnswerKeeps,
       FallbackAnswerKeeps, MxAnswerKeeps
    DEF Next, OnAuxAnswer
<1>. QED  BY <1>1, <1>2, PTL DEF Spec

\* The variables keep their types; in particular the walk never leaves the list
\* and no entry is made without a target (struct ruli_srv_t).
THEOREM TypeCorrect == Spec => []TypeOK
BY Inductive, PTL DEF IInv

\* A SRV query that is held has one query under way until its one callback, and
\* none after it, on every path of ruli_srv.c, ruli_smtp.c and ruli_http.c.
THEOREM Pending == Spec => []PendingUntilDone
BY Inductive, PTL DEF IInv

\* The list is empty when the first answer or a fallback's comes, as the four
\* callbacks assert.
THEOREM EmptyBefore == Spec => []NothingBeforeAnswer
BY Inductive, PTL DEF IInv

\* Addresses move from host queries to the entries of their targets without a
\* loss or a second owner, however long the walk (ruli_host_query_detach()).
THEOREM AddressesHaveOwner == Spec => []AddressesOwned
<1>1. IInv => AddressesOwned
  BY DEF IInv, ListOK, Owns, AddressesOwned
<1>. QED  BY <1>1, Inductive, PTL

\* A query that ends well after the walk has an address for every target, for
\* answers of any length (_ruli_srv_answer_walk()).
THEOREM Completes == Spec => []OkIsComplete
BY Inductive, PTL DEF IInv

\* Entries made of MX records stay in the order of their preferences
\* (sort_srv_by_mx_priority(), on_walk_answer()).
THEOREM MxOrder == Spec => []MxInOrder
<1>1. IInv => MxInOrder
  BY DEF IInv, ListOK, InOrder, MxInOrder
<1>. QED  BY <1>1, Inductive, PTL

-----------------------------------------------------------------------------
(* The synchronous front ends.                                             *)

Parts == {"source", "syn", "search_res", "search"}

LEMMA MadeIs == Range(Made) = Parts /\ SyncFreed \subseteq Parts /\ Parts \ {"source"} = SyncFreed
BY DEF Range, Made, Parts, SyncFreed

\* What was made before the n-th step is given back when that one fails.
LEMMA GivesAllBack ==
  ASSUME NEW n \in DOMAIN Made
  PROVE  Range(SubSeq(Made, 1, n - 1)) \ GivenBack(n) = {}
<1>1. Made \in Seq({"source", "syn", "search_res", "search"})
  BY DEF Made
<1>2. Len(Made) = 4
  BY DEF Made
<1>3. DOMAIN Made = 1 .. 4
  BY <1>1, <1>2, LenProperties
<1>4. n \in 1 .. 4 /\ n - 1 \in 0 .. 3
  BY <1>3
<1>5. /\ DOMAIN SubSeq(Made, 1, n - 1) = 1 .. n - 1
      /\ \A i \in 1 .. n - 1 : SubSeq(Made, 1, n - 1)[i] = Made[i]
  BY <1>1, <1>2, <1>4, SubSeqProperties
<1>6. Made[1] = "source" /\ Made[2] = "syn" /\ Made[3] = "search_res"
  BY DEF Made
<1>7. \A i \in 1 .. n - 1 : Made[i] \in GivenBack(n)
  BY <1>4, <1>6 DEF GivenBack
<1>. QED  BY <1>5, <1>7 DEF Range

SyncIInv ==
  /\ IInv /\ SyncTypeOK /\ MemoryMatchesStage
  /\ stage = "returned" /\ ~misused => NothingRegistered

LEMMA SyncDeleteKeeps ==
  ASSUME SyncIInv, SyncDelete, outcome' \in {"system", "list", "error"} \/ outcome' = outcome,
         outcome' = "list" <=> aiList' # <<>>
  PROVE  SyncIInv'
<1>1. /\ stage = "returned" /\ stage' = "idle" /\ app = "held" /\ app' = "free"
      /\ query' = "none" /\ entries' = <<>> /\ heap' = heap \ AddressesOf(entries)
      /\ aux' = "none" /\ UNCHANGED <<opts, asked, walkIndex, lastRcode, code, calls, refused, caller>>
      /\ memory' = memory \ SyncFreed /\ ~misused
  BY DEF SyncDelete, SyncIInv, NothingRegistered
<1>2. misused' \in BOOLEAN
  BY Zenon DEF SyncDelete
<1>3. heap' = {}
  BY <1>1 DEF SyncIInv, IInv
<1>4. IInv'
  <2>1. TypeOK'
    BY <1>1, <1>2, <1>3 DEF SyncIInv, IInv, TypeOK
  <2>2. PendingUntilDone' /\ NothingBeforeAnswer' /\ OkIsComplete'
    BY <1>1 DEF PendingUntilDone, NothingBeforeAnswer, OkIsComplete
  <2>. QED  BY <1>1, <1>3, <2>1, <2>2, EmptyList DEF IInv
<1>5. memory' = {}
  BY <1>1, MadeIs DEF SyncIInv, MemoryMatchesStage
<1>6. SyncTypeOK'
  BY <1>1, <1>5 DEF SyncIInv, SyncTypeOK
<1>7. MemoryMatchesStage'
  BY <1>1, <1>3, <1>5 DEF MemoryMatchesStage
<1>. QED  BY <1>1, <1>4, <1>6, <1>7 DEF SyncIInv

LEMMA SyncNextKeeps ==
  ASSUME SyncIInv, [SyncNext]_allVars
  PROVE  SyncIInv'
<1>. USE DEF SyncIInv
<1>1. ASSUME NEW by \in {"sync", "getaddrinfo"}, SyncQuery(by) PROVE SyncIInv'
  <2>1. IInv' /\ app' = "held" /\ stage' = "looping"
    BY <1>1, SubmitKeeps DEF SyncQuery
  <2>2. memory' = Parts
    BY <1>1, MadeIs DEF SyncQuery, SyncTypeOK
  <2>3. SyncTypeOK'
    BY <1>1, <2>2, MadeIs DEF SyncQuery, SyncTypeOK
  <2>4. MemoryMatchesStage'
    BY <2>1, <2>2, MadeIs DEF MemoryMatchesStage
  <2>. QED  BY <2>1, <2>3, <2>4
<1>2. ASSUME NEW by \in {"sync", "getaddrinfo"}, SyncQueryFails(by) PROVE SyncIInv'
  <2>1. memory' = memory /\ UNCHANGED <<vars, stage>> /\ Quiet /\ caller' = by /\ aiList' = <<>>
    BY <1>2, GivesAllBack DEF SyncQueryFails
  <2>2. IInv'
    BY <2>1 DEF vars, IInv, TypeOK, PendingUntilDone, NothingBeforeAnswer, OkIsComplete
  <2>3. heap = {} /\ app = "free" /\ aux = "none" /\ stage = "idle"
    BY <2>1, EmptyList DEF Quiet, IInv
  <2>4. SyncTypeOK'
    BY <1>2, <2>1 DEF SyncTypeOK, SyncQueryFails
  <2>5. MemoryMatchesStage'
    BY <2>1, <2>3 DEF MemoryMatchesStage, vars
  <2>. QED  BY <2>1, <2>2, <2>3, <2>4, <2>5
<1>3. CASE AsyncCalls
  <2>1. IInv'
    BY <1>3, SubmitKeeps, FindsFreedKeeps, DeleteKeeps DEF AsyncCalls
  <2>2. /\ stage = "idle" /\ caller' = "async" /\ outcome' = "none" /\ aiList' = <<>>
        /\ UNCHANGED <<stage, memory>> /\ ~misused
    BY <1>3 DEF AsyncCalls, Submit, FindsFreed, Delete
  <2>3. SyncTypeOK' /\ MemoryMatchesStage'
    BY <2>2 DEF SyncTypeOK, MemoryMatchesStage
  <2>. QED  BY <2>1, <2>2, <2>3
<1>4. CASE AnswerComes
  <2>1. IInv'
    <3>1. CASE OnAnswerToDeleted
      BY <3>1 DEF OnAnswerToDeleted, IInv, TypeOK, PendingUntilDone, NothingBeforeAnswer, OkIsComplete
    <3>. QED
      BY <1>4, <3>1, SrvAnswerKeeps, WalkAnswerKeeps, FallbackAnswerKeeps, MxAnswerKeeps
      DEF AnswerComes, OnAuxAnswer
  <2>2. UNCHANGED syncVars /\ stage # "returned" /\ ~misused
    BY <1>4
    DEF AnswerComes, OnSrvAnswer, OnAuxAnswer, OnWalkAnswer, OnFallbackAnswer, OnMxAnswer, Answers,
        OnAnswerToDeleted
  <2>3. SyncTypeOK'
    BY <2>2 DEF SyncTypeOK, syncVars
  <2>4. MemoryMatchesStage'
    <3>1. CASE OnAnswerToDeleted
      BY <3>1 DEF OnAnswerToDeleted, MemoryMatchesStage
    <3>2. CASE OnSrvAnswer \/ OnWalkAnswer \/ OnFallbackAnswer \/ OnMxAnswer
      <4>1. app = "held" /\ app' = app
        BY <3>2, OnCall
        DEF OnSrvAnswer, OnWalkAnswer, OnFallbackAnswer, OnMxAnswer, Answers
      <4>. QED  BY <2>2, <4>1 DEF MemoryMatchesStage, syncVars
    <3>. QED  BY <1>4, <3>1, <3>2 DEF AnswerComes, OnAuxAnswer
  <2>. QED  BY <2>1, <2>2, <2>3, <2>4 DEF syncVars
<1>5. CASE LoopReturns
  <2>1. IInv' /\ ~misused
    BY <1>5 DEF LoopReturns, vars, IInv, TypeOK, PendingUntilDone, NothingBeforeAnswer, OkIsComplete
  <2>2. SyncTypeOK'
    BY <1>5 DEF LoopReturns, SyncTypeOK
  <2>3. MemoryMatchesStage' /\ NothingRegistered'
    BY <1>5, <2>1 DEF LoopReturns, MemoryMatchesStage, NothingRegistered, vars
  <2>. QED  BY <2>1, <2>2, <2>3
<1>6. CASE SyncCallerDeletes
  <2>. QED  BY <1>6, SyncDeleteKeeps DEF SyncCallerDeletes, SyncTypeOK
<1>7. CASE Getaddrinfo
  <2>1. SyncDelete
    BY <1>7 DEF Getaddrinfo
  <2>2. outcome' \in {"system", "list", "error"} /\ (outcome' = "list" <=> aiList' # <<>>)
    BY <1>7 DEF Getaddrinfo, Outcome
  <2>. QED  BY <2>1, <2>2, SyncDeleteKeeps
<1>8. CASE GetaddrinfoOfSystem
  <2>1. IInv' /\ Quiet
    BY <1>8 DEF GetaddrinfoOfSystem, vars, IInv, TypeOK, PendingUntilDone, NothingBeforeAnswer, OkIsComplete
  <2>2. heap = {} /\ app = "free" /\ aux = "none" /\ stage = "idle"
    BY <2>1, EmptyList DEF Quiet, IInv
  <2>3. SyncTypeOK' /\ MemoryMatchesStage'
    BY <1>8, <2>2 DEF GetaddrinfoOfSystem, SyncTypeOK, MemoryMatchesStage, vars
  <2>. QED  BY <1>8, <2>1, <2>2, <2>3 DEF GetaddrinfoOfSystem
<1>9. CASE UNCHANGED allVars
  <2>1. UNCHANGED vars /\ UNCHANGED syncVars
    BY <1>9 DEF allVars
  <2>2. IInv'
    BY <2>1 DEF vars, IInv, TypeOK, PendingUntilDone, NothingBeforeAnswer, OkIsComplete
  <2>3. SyncTypeOK' /\ MemoryMatchesStage' /\ (NothingRegistered' <=> NothingRegistered)
    BY <2>1 DEF vars, syncVars, SyncTypeOK, MemoryMatchesStage, NothingRegistered
  <2>. QED  BY <2>1, <2>2, <2>3 DEF vars, syncVars
<1>. QED
  BY <1>1, <1>2, <1>3, <1>4, <1>5, <1>6, <1>7, <1>8, <1>9 DEF SyncNext

LEMMA SyncStarts == ASSUME SyncInit PROVE SyncIInv
<1>1. IInv
  BY InitKeeps DEF SyncInit
<1>2. stage = "idle" /\ caller = "async" /\ memory = {} /\ outcome = "none" /\ aiList = <<>>
  BY DEF SyncInit
<1>. QED  BY <1>1, <1>2 DEF SyncIInv, SyncTypeOK, MemoryMatchesStage

LEMMA SyncInductive == SyncSpec => []SyncIInv
<1>1. SyncInit => SyncIInv
  BY SyncStarts
<1>2. SyncIInv /\ [SyncNext]_allVars => SyncIInv'
  BY SyncNextKeeps
<1>. QED  BY <1>1, <1>2, PTL DEF SyncSpec

\* The variables keep their types; getaddrinfo() says it has a list exactly when
\* it has one (ruli_getaddrinfo()).
THEOREM SyncTypeCorrect == SyncSpec => []SyncTypeOK
<1>1. SyncIInv => SyncTypeOK
  BY DEF SyncIInv
<1>. QED  BY <1>1, SyncInductive, PTL

\* A synchronous query returns with the answer, never before, for answers and
\* walks of any length (ruli_sync_query()).
THEOREM ReturnsWithAnswer == SyncSpec => []ReturnsAnswered
<1>1. SyncIInv => ReturnsAnswered
  BY DEF SyncIInv, IInv, MemoryMatchesStage, NothingRegistered, PendingUntilDone, ReturnsAnswered
<1>. QED  BY <1>1, SyncInductive, PTL

\* Nothing is kept between two synchronous calls, whichever step failed
\* (ruli_sync_query(), ruli_sync_delete()).
THEOREM KeepsNothing == SyncSpec => []MemoryMatchesStage
<1>1. SyncIInv => MemoryMatchesStage
  BY DEF SyncIInv
<1>. QED  BY <1>1, SyncInductive, PTL

\* What is shown above of a query alone holds around the synchronous
\* front ends as well: one callback, and the order of an answer's entries.
THEOREM SyncKeepsSrv ==
  SyncSpec => [](/\ PendingUntilDone /\ NothingBeforeAnswer /\ AddressesOwned
                 /\ OkIsComplete /\ MxInOrder)
<1>1. SyncIInv => /\ PendingUntilDone /\ NothingBeforeAnswer /\ AddressesOwned
                  /\ OkIsComplete /\ MxInOrder
  BY DEF SyncIInv, IInv, ListOK, Owns, InOrder, AddressesOwned, MxInOrder
<1>. QED  BY <1>1, SyncInductive, PTL

-----------------------------------------------------------------------------
(* getaddrinfo() copies the entries in their order.  That needs a fact about *)
(* the query that only holds without the MX fallback: an address has the     *)
(* place of its entry in its at, since nothing sorts the list after it was    *)
(* made.                                                                   *)

Ordered(o, list, kind) == ~o.smtp => kind # "mx" /\ Placed(list)

InPlace ==
  /\ Ordered(opts, entries, aux)
  /\ stage # "idle" => outcome = "none"
  /\ stage # "idle" /\ caller = "getaddrinfo" => ~opts.smtp

CopyInv == SyncIInv /\ InPlace

LEMMA NoMx ==
  ASSUME ~opts.smtp, Fallback(opts) \/ AnswerFallbackAddr(opts)
  PROVE  aux' # "mx"
BY DEF Fallback, AnswerFallbackAddr, Ask, Done, CallBack

LEMMA WalkNoMx == ASSUME NEW list, NEW i, AnswerWalk(list, i) PROVE aux' # "mx"
BY DEF AnswerWalk, Ask, Done, CallBack

LEMMA FailsNoMx ==
  ASSUME NEW a, NEW b, NEW c, NEW d, HostFails(a, b, c, d)
  PROVE  aux' # "mx" /\ UNCHANGED <<entries, heap, walkIndex>>
BY DEF HostFails, Done, CallBack

\* The front of a list, whose last entry may be left without its addresses,
\* keeps its addresses in their places.
LEMMA FrontPlaced ==
  ASSUME NEW list, Fresh(list), Placed(list), NEW n \in 0 .. Len(list)
  PROVE  /\ Placed(SubSeq(list, 1, n))
         /\ \A got : n > 0 /\ got \in {{}, list[n].addrs} =>
              Placed(LeftWith(SubSeq(list, 1, n), n, got))
<1>. DEFINE s == SubSeq(list, 1, n)
<1>1. Fresh(s) /\ Len(s) = n /\ \A i \in 1 .. n : s[i] = list[i]
  BY PrefixFresh
<1>2. list \in Seq(Entry) /\ s \in Seq(Entry) /\ Len(list) \in Nat
  BY <1>1 DEF Fresh
<1>. HIDE DEF s
<1>3. DOMAIN s = 1 .. n /\ DOMAIN list = 1 .. Len(list)
  BY <1>1, <1>2
<1>4. \A i \in 1 .. n : i \in DOMAIN list /\ s[i] = list[i] /\ s[i] \in Entry
  BY <1>1, <1>2, <1>3
<1>5. Placed(s)
  BY <1>3, <1>4 DEF Placed
<1>6. ASSUME NEW got, n > 0, got \in {{}, list[n].addrs}
      PROVE  Placed(LeftWith(s, n, got))
  <2>. DEFINE t == LeftWith(s, n, got)
  <2>1. DOMAIN t = 1 .. n
    BY <1>3 DEF LeftWith
  <2>2. n \in 1 .. n
    BY <1>6
  <2>3. \A i \in 1 .. n : t[i].addrs \subseteq list[i].addrs
    BY <1>3, <1>4, <1>6, <2>2 DEF LeftWith, Entry
  <2>. HIDE DEF t
  <2>4. Placed(t)
    BY <1>3, <1>4, <2>1, <2>3 DEF Placed
  <2>. QED  BY <2>4 DEF t
<1>. QED  BY <1>5, <1>6 DEF s

LEMMA SrvAnswerPlaced ==
  ASSUME IInv, OnSrvAnswer, ~opts.smtp, aux # "mx", Placed(entries)
  PROVE  aux' # "mx" /\ Placed(entries')
<1>1. entries = <<>>
  BY OnCall DEF OnSrvAnswer
<1>2. CASE /\ (\E c \in SrvCode \ {"OK"} : Done(c)) \/ Fallback(opts)
           /\ UNCHANGED <<entries, heap, walkIndex>>
  BY <1>2, NoMx DEF Done, CallBack
<1>3. ASSUME NEW records \in Records, NEW known \in SUBSET Targets,
             NEW list, list = WithSection(records, known, 0)
      PROVE  Fresh(list) /\ Len(list) \in Nat /\ Placed(list)
  <2>1. Fresh(list) /\ Placed(list)
    BY <1>3, SectionFresh
  <2>. QED  BY <2>1 DEF Fresh
<1>4. ASSUME NEW records \in Records, NEW known \in SUBSET Targets,
             NEW list, list = WithSection(records, known, 0),
             NEW n \in 1 .. Len(list), NEW c \in {"MALLOC", "LIST"},
             \/ SetEntries(SubSeq(list, 1, n - 1))
             \/ \E got \in {{}, list[n].addrs} :
                  SetEntries([SubSeq(list, 1, n) EXCEPT ![n].addrs = got]),
             Done(c)
      PROVE  aux' # "mx" /\ Placed(entries')
  <2>1. Fresh(list) /\ Len(list) \in Nat /\ Placed(list)
    BY <1>3, <1>4
  <2>2. n \in 0 .. Len(list) /\ n - 1 \in 0 .. Len(list) /\ n > 0
    BY <2>1
  <2>3. ASSUME SetEntries(SubSeq(list, 1, n - 1)) PROVE Placed(entries')
    <3>1. Placed(SubSeq(list, 1, n - 1))
      BY <2>1, <2>2, FrontPlaced
    <3>. QED  BY <2>3, <3>1 DEF SetEntries
  <2>4. ASSUME NEW got \in {{}, list[n].addrs},
               SetEntries([SubSeq(list, 1, n) EXCEPT ![n].addrs = got])
        PROVE  Placed(entries')
    <3>1. Placed(LeftWith(SubSeq(list, 1, n), n, got))
      BY <2>1, <2>2, FrontPlaced
    <3>. QED  BY <2>4, <3>1 DEF SetEntries, LeftWith
  <2>. QED  BY <1>4, <2>3, <2>4 DEF Done, CallBack
<1>5. ASSUME NEW records \in Records, NEW known \in SUBSET Targets,
             NEW list, list = WithSection(records, known, 0),
             SetEntries(list), AnswerWalk(list, 1)
      PROVE  aux' # "mx" /\ Placed(entries')
  BY <1>3, <1>5, WalkNoMx DEF SetEntries
<1>. QED  BY <1>2, <1>4, <1>5 DEF OnSrvAnswer

LEMMA WalkAnswerPlaced ==
  ASSUME IInv, OnWalkAnswer, Placed(entries)
  PROVE  aux' # "mx" /\ Placed(entries')
<1>0. ~misused /\ app = "held" /\ aux = "walk"
  BY DEF OnWalkAnswer, Answers
<1>1. /\ AtEntry(entries, walkIndex) /\ asked = entries[walkIndex].target
      /\ asked \in Names /\ ListOK(entries) /\ walkIndex \in 0 .. MaxEntries + 1
  BY <1>0 DEF IInv, TypeOK, Names
<1>2. /\ MaxEntries \in Nat /\ Len(entries) \in Nat /\ DOMAIN entries = 1 .. Len(entries)
      /\ walkIndex \in 1 .. Len(entries) /\ Len(entries) <= MaxEntries
  BY <1>1, ConstantsAssumption DEF AtEntry, ListOK
<1>3. CASE HostFails("WALK_ALARM", "WALK_EMPTY", "WALK_RCODE", "WALK_QUERY")
  BY <1>3, FailsNoMx
<1>4. CASE Done("FALL_OTHER") /\ UNCHANGED <<entries, heap, walkIndex>>
  BY <1>4 DEF Done, CallBack
<1>5. ASSUME NEW n \in 1 .. MaxFound,
             entries' = With(entries, walkIndex, Found(n, walkIndex)),
             AnswerWalk(entries', walkIndex + 1)
      PROVE  aux' # "mx" /\ Placed(entries')
  <2>1. walkIndex \in 1 .. MaxEntries + 1
    BY <1>2
  <2>. DEFINE new == Found(n, walkIndex)
  <2>2. /\ new \in SUBSET Address /\ new # {}
        /\ \A a \in new : a.owner = entries[walkIndex].target /\ a.at = walkIndex /\ a.k # 0
    BY <1>1, <2>1, FoundIs
  <2>. HIDE DEF new
  <2>3. /\ DOMAIN entries' = DOMAIN entries
        /\ \A j \in DOMAIN entries \ {walkIndex} : entries'[j] = entries[j]
        /\ entries'[walkIndex].addrs = entries[walkIndex].addrs \cup new
    BY <1>1, <1>2, <1>5, <2>1, <2>2, Gained DEF new
  <2>4. Placed(entries')
    BY <2>2, <2>3 DEF Placed
  <2>. QED  BY <1>5, <2>4, WalkNoMx
<1>. QED  BY <1>3, <1>4, <1>5 DEF OnWalkAnswer, With

LEMMA FallbackAnswerPlaced ==
  ASSUME IInv, OnFallbackAnswer, Placed(entries)
  PROVE  aux' # "mx" /\ Placed(entries')
<1>0. entries = <<>> /\ asked = Domain /\ asked \in Names
  BY OnCall DEF OnFallbackAnswer, Answers, IInv, Names
<1>1. CASE HostFails("FALL_ALARM", "FALL_EMPTY", "FALL_RCODE", "FALL_QUERY")
  BY <1>1, FailsNoMx
<1>2. ASSUME NEW addrs \in SUBSET Address, \A a \in addrs : a.at = 1
      PROVE  Placed(Append(<<>>, DomainEntry(addrs)))
  <2>1. DomainEntry(addrs) \in Entry /\ DomainEntry(addrs).addrs = addrs
    BY DEF DomainEntry, Entry
  <2>2. DOMAIN Append(<<>>, DomainEntry(addrs)) = {1} /\ Append(<<>>, DomainEntry(addrs))[1] = DomainEntry(addrs)
    BY <2>1
  <2>. QED  BY <1>2, <2>1, <2>2 DEF Placed
<1>3. ASSUME NEW n \in 1 .. MaxFound,
             entries' = Append(entries, DomainEntry(Found(n, 1))), Done("OK")
      PROVE  aux' # "mx" /\ Placed(entries')
  <2>1. 1 \in 1 .. MaxEntries + 1
    BY ConstantsAssumption
  <2>2. Found(n, 1) \in SUBSET Address /\ \A a \in Found(n, 1) : a.at = 1
    BY <1>0, <2>1, FoundIs
  <2>. QED  BY <1>0, <1>2, <1>3, <2>2 DEF Done, CallBack
<1>4. CASE /\ Done("FALL_OTHER")
           /\ entries' \in {entries, Append(entries, DomainEntry({}))}
  <2>1. Placed(Append(<<>>, DomainEntry({})))
    BY <1>2
  <2>. QED  BY <1>0, <1>4, <2>1 DEF Done, CallBack, Placed
<1>. QED  BY <1>1, <1>3, <1>4 DEF OnFallbackAnswer

LEMMA AnswerPlaced ==
  ASSUME IInv, OnSrvAnswer \/ OnAuxAnswer, Ordered(opts, entries, aux)
  PROVE  Ordered(opts, entries, aux)' /\ opts' = opts
<1>1. CASE OnSrvAnswer
  <2>1. opts' = opts
    BY <1>1 DEF OnSrvAnswer
  <2>. QED  BY <1>1, <2>1, SrvAnswerPlaced DEF Ordered
<1>2. CASE OnWalkAnswer
  <2>1. opts' = opts
    BY <1>2 DEF OnWalkAnswer
  <2>. QED  BY <1>2, <2>1, WalkAnswerPlaced DEF Ordered
<1>3. CASE OnFallbackAnswer
  <2>1. opts' = opts
    BY <1>3 DEF OnFallbackAnswer
  <2>. QED  BY <1>3, <2>1, FallbackAnswerPlaced DEF Ordered
<1>4. CASE OnMxAnswer
  <2>1. opts' = opts /\ aux = "mx"
    BY <1>4 DEF OnMxAnswer, Answers
  <2>. QED  BY <2>1 DEF Ordered
<1>5. CASE OnAnswerToDeleted
  BY <1>5 DEF OnAnswerToDeleted, Ordered
<1>. QED  BY <1>1, <1>2, <1>3, <1>4, <1>5 DEF OnAuxAnswer

LEMMA EmptyPlaced == Placed(<<>>)
BY DEF Placed

LEMMA CopyInvKeeps == ASSUME CopyInv, [SyncNext]_allVars PROVE CopyInv'
<1>. USE DEF CopyInv, InPlace
<1>1. SyncIInv'
  BY SyncNextKeeps
<1>2. InPlace'
  <2>1. ASSUME Submit PROVE Ordered(opts, entries, aux)'
    BY <2>1, EmptyPlaced DEF Submit, Ordered
  <2>2. ASSUME NEW by \in {"sync", "getaddrinfo"}, SyncQuery(by)
        PROVE  InPlace'
    BY <2>1, <2>2 DEF SyncQuery
  <2>3. ASSUME NEW by \in {"sync", "getaddrinfo"}, SyncQueryFails(by)
        PROVE  InPlace'
    BY <2>3 DEF SyncQueryFails, Quiet, vars
  <2>4. CASE AsyncCalls
    <3>1. CASE Delete
      BY <2>4, <3>1, EmptyPlaced DEF AsyncCalls, Delete, Ordered
    <3>2. CASE FindsFreed
      BY <2>4, <3>2 DEF AsyncCalls, FindsFreed
    <3>. QED  BY <2>4, <2>1, <3>1, <3>2 DEF AsyncCalls
  <2>5. CASE AnswerComes
    BY <2>5, AnswerPlaced DEF AnswerComes, SyncIInv, syncVars
  <2>6. CASE LoopReturns
    BY <2>6 DEF LoopReturns, vars
  <2>7. CASE SyncDelete
    BY <2>7, EmptyPlaced DEF SyncDelete, Ordered
  <2>8. CASE GetaddrinfoOfSystem
    BY <2>8 DEF GetaddrinfoOfSystem, Quiet, vars
  <2>9. CASE UNCHANGED allVars
    BY <2>9 DEF allVars, vars, syncVars
  <2>. QED
    BY <2>2, <2>3, <2>4, <2>5, <2>6, <2>7, <2>8, <2>9 DEF SyncNext, SyncCallerDeletes, Getaddrinfo
<1>. QED  BY <1>1, <1>2

\* There are finitely many addresses.
LEMMA AddressesFinite == IsFiniteSet(Address)
<1>. DEFINE Names2 == Targets \cup {Domain}
            A == Names2 \X (1 .. MaxEntries + 1)
            B == A \X (0 .. MaxFound)
            f == [t \in B |-> [owner |-> t[1][1], at |-> t[1][2], k |-> t[2]]]
<1>1. IsFiniteSet(Names2)
  BY ConstantsAssumption, FS_AddElement
<1>2. IsFiniteSet(1 .. MaxEntries + 1) /\ IsFiniteSet(0 .. MaxFound)
  BY ConstantsAssumption, FS_Interval
<1>3. IsFiniteSet(A)
  BY <1>1, <1>2, FS_Product
<1>4. IsFiniteSet(B)
  <2>. HIDE DEF A
  <2>. QED  BY <1>2, <1>3, FS_Product
<1>5. f \in Surjection(B, Address)
  <2>1. ASSUME NEW t \in B PROVE f[t] \in Address
    BY DEF Address
  <2>2. ASSUME NEW x \in Address PROVE \E t \in B : f[t] = x
    <3>1. x.owner \in Names2 /\ x.at \in 1 .. MaxEntries + 1 /\ x.k \in 0 .. MaxFound
          /\ x = [owner |-> x.owner, at |-> x.at, k |-> x.k]
      BY DEF Address
    <3>2. <<<<x.owner, x.at>>, x.k>> \in B
      BY <3>1
    <3>3. f[<<<<x.owner, x.at>>, x.k>>] = x
      BY <3>1, <3>2
    <3>. QED  BY <3>2, <3>3
  <2>3. f \in [B -> Address]
    BY <2>1
  <2>. HIDE DEF f
  <2>. QED  BY <2>2, <2>3 DEF Surjection
<1>. HIDE DEF B, f
<1>. QED  BY <1>4, <1>5, FS_Surjection

\* What getaddrinfo() copies from a list whose addresses are in their places.
LEMMA CopiedInOrder ==
  ASSUME entries \in Seq(Entry), Placed(entries), NEW undecodable, NEW portKnown
  PROVE  LET copied == Copied(undecodable, portKnown) IN
         /\ copied \in Seq(Address) /\ IsInjective(copied)
         /\ \A i, j \in DOMAIN copied : i <= j => copied[i].at <= copied[j].at
         /\ \A e \in Range(entries) : e.addrs \subseteq Range(copied) \/ e.addrs \cap Range(copied) = {}
         /\ Range(copied) \subseteq AddressesOf(entries)
<1>. DEFINE n == Len(entries)
            Usable(e) == e.target \notin undecodable /\ (e.weight = -1 => portKnown)
            seqs == [i \in DOMAIN entries |->
                       IF Usable(entries[i]) THEN SetToSeq(entries[i].addrs) ELSE <<>>]
            label == [a \in Address |-> a.at]
            copied == FlattenSeq(seqs)
<1>1. n \in Nat /\ DOMAIN entries = 1 .. n
  OBVIOUS
<1>2. ASSUME NEW i \in 1 .. n
      PROVE  /\ seqs[i] \in Seq(Address) /\ IsInjective(seqs[i])
             /\ Range(seqs[i]) = IF Usable(entries[i]) THEN entries[i].addrs ELSE {}
  <2>1. entries[i].addrs \subseteq Address
    BY <1>1, EntryParts
  <2>2. IsFiniteSet(entries[i].addrs)
    BY <2>1, AddressesFinite, FS_Subset
  <2>3. /\ SetToSeq(entries[i].addrs) \in Seq(entries[i].addrs)
        /\ IsInjective(SetToSeq(entries[i].addrs))
        /\ Range(SetToSeq(entries[i].addrs)) = entries[i].addrs
    BY <2>2, SetAsSequence
  <2>4. SetToSeq(entries[i].addrs) \in Seq(Address)
    BY <2>1, <2>3
  <2>5. <<>> \in Seq(Address) /\ IsInjective(<<>>) /\ Range(<<>>) = {}
    BY DEF IsInjective, Range
  <2>6. seqs[i] = IF Usable(entries[i]) THEN SetToSeq(entries[i].addrs) ELSE <<>>
    BY <1>1
  <2>. QED  BY <2>3, <2>4, <2>5, <2>6
<1>3. seqs \in [1 .. n -> Seq(Address)]
  BY <1>1, <1>2
<1>4. label \in [Address -> Int]
  BY ConstantsAssumption DEF Address
<1>5. ASSUME NEW i \in 1 .. n, NEW a \in Range(seqs[i]) PROVE a \in entries[i].addrs
  <2>. HIDE DEF seqs, Usable
  <2>. QED  BY <1>2, <1>5
<1>6. \A i \in 1 .. n : \A a \in entries[i].addrs : a \in Address /\ a.at = i
  BY <1>1, EntryParts DEF Placed
<1>7. \A i \in 1 .. n : IsInjective(seqs[i]) /\ \A a \in Range(seqs[i]) : label[a] = i
  BY <1>2, <1>5, <1>6
<1>8. copied = Copied(undecodable, portKnown)
  BY DEF Copied
<1>. HIDE DEF seqs, label
<1>9. /\ copied \in Seq(Address) /\ IsInjective(copied)
      /\ \A i, j \in DOMAIN copied : i <= j => label[copied[i]] <= label[copied[j]]
      /\ Range(copied) = UNION {Range(seqs[i]) : i \in 1 .. n}
  BY <1>1, <1>3, <1>4, <1>7, FlattenedInOrder
<1>. HIDE DEF copied
<1>10. \A i, j \in DOMAIN copied : i <= j => copied[i].at <= copied[j].at
  <2>1. \A i \in DOMAIN copied : copied[i] \in Address
    BY <1>9
  <2>. QED  BY <1>9, <2>1 DEF label
<1>11. ASSUME NEW e \in Range(entries)
       PROVE  e.addrs \subseteq Range(copied) \/ e.addrs \cap Range(copied) = {}
  <2>1. PICK i \in 1 .. n : e = entries[i]
    BY <1>1 DEF Range
  <2>2. CASE Usable(e)
    <3>1. e.addrs = Range(seqs[i])
      BY <1>2, <2>1, <2>2
    <3>. QED  BY <1>9, <2>1, <3>1
  <2>3. CASE ~Usable(e)
    <3>1. ASSUME NEW a \in e.addrs, a \in Range(copied) PROVE FALSE
      <4>1. PICK j \in 1 .. n : a \in Range(seqs[j])
        BY <1>9, <3>1
      <4>2. a.at = i /\ a.at = j
        BY <1>5, <1>6, <2>1, <3>1, <4>1
      <4>3. Range(seqs[i]) = {}
        BY <1>2, <2>1, <2>3
      <4>. QED  BY <4>1, <4>2, <4>3
    <3>. QED  BY <3>1
  <2>. QED  BY <2>2, <2>3
<1>12. Range(copied) \subseteq AddressesOf(entries)
  BY <1>1, <1>5, <1>9 DEF AddressesOf
<1>. HIDE DEF Usable
<1>. QED  BY <1>8, <1>9, <1>10, <1>11, <1>12

\* What CopiesInOrder says of a step.
CopyStep ==
  stage = "returned" /\ outcome' = "list" =>
    /\ IsInjective(aiList')
    /\ \A i, j \in DOMAIN aiList' : i <= j => aiList'[i].at <= aiList'[j].at
    /\ \A e \in Range(entries) : e.addrs \subseteq Range(aiList') \/ e.addrs \cap Range(aiList') = {}
    /\ Range(aiList') \subseteq AddressesOf(entries)

LEMMA EachCopyStep == ASSUME CopyInv, [SyncNext]_allVars PROVE CopyStep
<1>. SUFFICES ASSUME stage = "returned", outcome' = "list" PROVE CopyStep
  BY DEF CopyStep
<1>1. outcome = "none"
  BY DEF CopyInv, InPlace
<1>2. Getaddrinfo
  BY <1>1
  DEF SyncNext, SyncQuery, SyncQueryFails, Quiet, AsyncCalls, AnswerComes, LoopReturns,
      SyncCallerDeletes, GetaddrinfoOfSystem, allVars, syncVars
<1>3. entries \in Seq(Entry)
  BY DEF CopyInv, SyncIInv, IInv, TypeOK
<1>4. ~opts.smtp /\ Placed(entries)
  BY <1>2 DEF CopyInv, InPlace, Ordered, Getaddrinfo
<1>5. PICK undecodable, portKnown : aiList' = Copied(undecodable, portKnown)
  BY <1>2 DEF Getaddrinfo
<1>6. LET copied == Copied(undecodable, portKnown) IN
         /\ copied \in Seq(Address) /\ IsInjective(copied)
         /\ \A i, j \in DOMAIN copied : i <= j => copied[i].at <= copied[j].at
         /\ \A e \in Range(entries) : e.addrs \subseteq Range(copied) \/ e.addrs \cap Range(copied) = {}
         /\ Range(copied) \subseteq AddressesOf(entries)
  BY <1>3, <1>4, CopiedInOrder
<1>. QED  BY <1>5, <1>6 DEF CopyStep

\* The list of getaddrinfo() keeps the order of the entries, has an entry's
\* addresses all or none, and none twice, for answers of any length and host
\* queries that find any number of addresses (copy_addr_list(),
\* ruli_getaddrinfo()).
THEOREM CopiesKeepOrder == SyncSpec => CopiesInOrder
<1>1. SyncInit => CopyInv
  <2>. SUFFICES ASSUME SyncInit PROVE CopyInv
    OBVIOUS
  <2>1. SyncIInv
    BY SyncStarts
  <2>2. InPlace
    BY EmptyPlaced DEF SyncInit, Init, InPlace, Ordered
  <2>. QED  BY <2>1, <2>2 DEF CopyInv
<1>2. CopyInv /\ [SyncNext]_allVars => CopyInv'
  BY CopyInvKeeps
<1>3. CopyInv /\ [SyncNext]_allVars => CopyStep
  BY EachCopyStep
<1>. QED  BY <1>1, <1>2, <1>3, PTL DEF SyncSpec, CopiesInOrder, CopyStep
=============================================================================
