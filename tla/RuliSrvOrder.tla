---------------------------- MODULE RuliSrvOrder ----------------------------
(***************************************************************************)
(* How on_srv_answer() (ruli_srv.c) orders the SRV records of an answer:   *)
(* step 3 sorts them by priority into pri_srv_list, step 4 moves them one  *)
(* by one into wei_srv_list, drawing inside the block of records that      *)
(* share the priority of the last one with a probability that follows the  *)
(* weights.  A record is named by its place in rr_srv_list.                *)
(*                                                                         *)
(* One action is one round of a loop.  Random numbers come from            *)
(* ruli_rand_next() (ruli_rand.c), whose scaling in single precision is    *)
(* modelled for raw values of RandBits bits and a significand of FloatBits *)
(* bits; the generator itself may yield any raw value.                     *)
(***************************************************************************)
EXTENDS Integers, Sequences, SequencesExt

CONSTANTS
  MaxRecords,     \* bound: records in an answer
  Priorities,     \* values of the priority field
  Weights,        \* values of the weight field
  RandBits,       \* bits of a raw random value (32 in the code)
  FloatBits       \* bits of a float's significand (24 in the code)

ASSUME ConstantsAssumption ==
  /\ MaxRecords \in Nat
  /\ Priorities \subseteq Nat
  /\ Weights \subseteq Nat
  /\ FloatBits \in Nat \ {0}
  /\ RandBits \in Nat /\ RandBits > FloatBits

RawValues == 0 .. 2^RandBits - 1

VARIABLES
  rr,       \* rr_srv_list: the records of the answer, in its order
  next,     \* the record step 3 handles next
  pri,      \* pri_srv_list
  wei,      \* wei_srv_list
  code      \* how far the handler is: "VOID", "SORTED", "LIST" (out of memory),
            \* or the assertion that ended the program

vars == <<rr, next, pri, wei, code>>

Rdata == [priority : Priorities, weight : Weights]

Priority(j) == rr[j].priority
Weight(j) == rr[j].weight

TypeOK ==
  /\ rr \in Seq(Rdata) /\ Len(rr) \in 1 .. MaxRecords
  /\ next \in 1 .. Len(rr) + 1
  /\ pri \in Seq(1 .. Len(rr)) /\ wei \in Seq(1 .. Len(rr))
  /\ code \in {"VOID", "SORTED", "LIST", "RANGE", "OFF_THE_LIST"}

Init ==
  /\ \E n \in 1 .. MaxRecords : rr \in [1 .. n -> Rdata]
  /\ next = 1
  /\ pri = <<>> /\ wei = <<>>
  /\ code = "VOID"

-----------------------------------------------------------------------------
(* Step 3: by priority, the highest value first, as step 4 starts from the *)
(* end; a record without weight after the others of its priority.          *)

\* Mutant: the comparison of priorities turned round.
MutantLowestFirst(j) ==
  {i \in DOMAIN pri : /\ \E k \in 1 .. i : Priority(pri[k]) >= Priority(j)
                      /\ Weight(j) = 0 => Priority(pri[i]) # Priority(j)}

Places(j) ==
  {i \in DOMAIN pri : /\ \E k \in 1 .. i : Priority(pri[k]) <= Priority(j)
                      /\ Weight(j) = 0 => Priority(pri[i]) # Priority(j)}

\* Mutant: ruli_list_set() for ruli_list_insert_at().
MutantOverwrites(j) ==
  IF Places(j) = {} THEN pri ELSE ReplaceAt(pri, Min(Places(j)), j)

Inserted(j) ==
  IF Places(j) = {} THEN pri ELSE InsertAt(pri, Min(Places(j)), j)

\* The test before the push looks at ti_srv_rr and not at srv_rdata, which
\* was cleared to mark the record as handled: it is pushed in any case.
InsertByPriority ==
  /\ code = "VOID" /\ next <= Len(rr)
  /\ pri' = Append(Inserted(next), next)
  /\ next' = next + 1
  /\ UNCHANGED <<rr, wei, code>>

\* A list cannot grow, at the insertion or at the push.
InsertFails ==
  /\ code = "VOID" /\ next <= Len(rr)
  /\ pri' \in {pri, Inserted(next)}
  /\ code' = "LIST"
  /\ UNCHANGED <<rr, next, wei>>

-----------------------------------------------------------------------------
(* ruli_rand_next(): a raw value scaled to 0 .. max in single precision,   *)
(* rounding to the nearest float (to even in between).                     *)

Ulp(x) == Min({2^k : k \in {k \in 0 .. 2 * RandBits : x < 2^(k + FloatBits)}})

RoundFloat(x) ==
  LET ulp  == Ulp(x)
      quot == x \div ulp
      rest == 2 * (x % ulp)
  IN  ulp * (IF rest > ulp \/ (rest = ulp /\ quot % 2 = 1)
             THEN quot + 1 ELSE quot)

\* Mutants: the range is scaled without, or with two, of its ends.
MutantOpenRange(max, u) ==
  RoundFloat(RoundFloat(max) * RoundFloat(u)) \div RoundFloat(2^RandBits - 1)

Scaled(max, u) ==
  RoundFloat(RoundFloat(max + 1) * RoundFloat(u)) \div RoundFloat(2^RandBits - 1)

\* The results ruli_rand_next() may return for 0 and max.
RandNext(max) == {Scaled(max, u) : u \in RawValues}

\* Raw values that single precision does not round up to 2^RandBits.
BelowTop == {u \in RawValues : RoundFloat(u) < 2^RandBits}

-----------------------------------------------------------------------------
(* Step 4: the weighted choice among the last records of equal priority.   *)

Block ==
  {i \in DOMAIN pri :
     \A k \in i .. Len(pri) : Priority(pri[k]) = Priority(pri[Len(pri)])}

\* run_sum: the weights from the end of the list back to place i.
RunSum(i) == MapThenSumSet(LAMBDA k : Weight(pri[k]), i .. Len(pri))

\* Mutant: the sum goes on past the block.
MutantWholeList == RunSum(1)

BlockWeight == RunSum(Min(Block))

\* The places where the running sum has reached rnd; the first that is met,
\* from the end, is chosen, with no look at its priority.
Reached(rnd) == {i \in DOMAIN pri : RunSum(i) >= rnd}

Choosing == code = "VOID" /\ next > Len(rr) /\ pri # <<>>

\* ruli_rand_next() returns what passes its assertions.
Drawn == RandNext(BlockWeight) \cap 0 .. BlockWeight

SelectByWeight ==
  /\ Choosing
  /\ \E rnd \in Drawn :
       /\ Reached(rnd) # {}
       /\ wei' = Append(wei, pri[Max(Reached(rnd))])
       /\ pri' = RemoveAt(pri, Max(Reached(rnd)))
  /\ UNCHANGED <<rr, next, code>>

\* The record has left one list and cannot be pushed to the other.
SelectFails ==
  /\ Choosing
  /\ \E rnd \in Drawn :
       /\ Reached(rnd) # {}
       /\ pri' = RemoveAt(pri, Max(Reached(rnd)))
  /\ code' = "LIST"
  /\ UNCHANGED <<rr, next, wei>>

\* An assertion ends the program: that of ruli_rand_next() on its result, or
\* that of the loop, which no place stops before i = -1.
SelectAborts ==
  /\ Choosing
  /\ \E rnd \in RandNext(BlockWeight) :
       code' = IF rnd \notin Drawn THEN "RANGE"
               ELSE IF Reached(rnd) = {} THEN "OFF_THE_LIST" ELSE code
  /\ code' # code
  /\ UNCHANGED <<rr, next, pri, wei>>

SelectDone ==
  /\ code = "VOID" /\ next > Len(rr) /\ pri = <<>>
  /\ code' = "SORTED"
  /\ UNCHANGED <<rr, next, pri, wei>>

Next ==
  \/ InsertByPriority \/ InsertFails
  \/ SelectByWeight \/ SelectFails \/ SelectAborts
  \/ SelectDone

Spec == Init /\ [][Next]_vars

-----------------------------------------------------------------------------
(* Properties                                                              *)

\* No record handled so far is lost on its way from list to list, so each of
\* them is in the answer: the insertions, the removals from the middle of
\* pri_srv_list and the pushes fit together.
NothingLost ==
  code \in {"VOID", "SORTED"} =>
    1 .. next - 1 \subseteq ToSet(pri) \cup ToSet(wei)

\* ruli_rand_next() keeps to the range it was asked for, 0 to the weight of
\* the block, as its assertion says (ruli_rand.c 57).
NumberInRange == code # "RANGE"

\* The choice of step 4 stays inside the block of the current priority, and
\* does not run off the list: what assert(i >= 0) relies on (ruli_srv.c 876).
ChoiceInBlock ==
  [][/\ code' # "OFF_THE_LIST"
     /\ wei' # wei =>
          \E i \in Block : wei' = Append(wei, pri[i]) /\ pri' = RemoveAt(pri, i)]_vars

\* Unless the raw value is one that is rounded up to the top, the number keeps
\* to its range, and every record of the block that has a weight may be the one
\* chosen: the scaling of the random number and the comparison of the running
\* sum agree on both ends, for every range and whatever products are rounded to.
WeightGivesChance ==
  Choosing =>
    LET numbers == {Scaled(BlockWeight, u) : u \in BelowTop} IN
    /\ numbers \subseteq 0 .. BlockWeight
    /\ {i \in Block : Weight(pri[i]) > 0} \subseteq {Max(Reached(n)) : n \in numbers}

Descending == \A i, j \in DOMAIN rr : i < j => Priority(i) > Priority(j)

\* When the answer lists its records by strictly descending priority, nothing
\* is inserted and the result is right, whatever numbers are drawn: each record
\* once, by priority.
RightWhenDescending ==
  code = "SORTED" /\ Descending => wei = [i \in DOMAIN rr |-> Len(rr) + 1 - i]

\* The records are tried by priority, lowest value first (ruli_srv.c 728,
\* "Step 3/6: Sort SRV RRs by priority").
SortedByPriority ==
  code = "SORTED" =>
    \A i, j \in DOMAIN wei : i <= j => Priority(wei[i]) <= Priority(wei[j])
=============================================================================
