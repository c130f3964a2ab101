------------------------------- MODULE RuliMessage -------------------------------
(***************************************************************************)
(* Messages: a query is built (ruli_msg.c), an answer is cut into records   *)
(* (ruli_parse.c), and the data of a record is read.  What there is no      *)
(* memory for is a section that fails.                                      *)
(***************************************************************************)
EXTENDS RuliName

HeaderSize == 12

\* build_options(), with recursion desired.
QueryFlags == 2 ^ 8

\* ruli_msg_build()
Build(id, name, type, class) ==
  Unpack2(id) \o Unpack2(QueryFlags) \o Unpack2(1) \o Unpack2(0) \o Unpack2(0) \o Unpack2(0)
  \o name \o Unpack2(type) \o Unpack2(class)

\* ruli_msg_parse_header(), of a message that has one.
Header(msg) ==
  [id |-> Pack2(msg, 0, 0), flags |-> Pack2(msg, 2, 0), rcode |-> msg[4] % 16,
   counts |-> [s \in 1 .. 4 |-> Pack2(msg, 2 + 2 * s, 0)]]

Fails == -1
Aborts == -2

\* What follows the owner of a question or of a record.
Fixed(isQuestion) == IF isQuestion THEN 4 ELSE 10

\* The data is taken for a part of the fixed fields.
MutantRecordEnd(msg, at, isQuestion, beyond) ==
  LET m == Skipped(msg, at) IN
  IF m = -1 THEN Fails ELSE IF m >= Len(msg) THEN Aborts
  ELSE IF m + Fixed(isQuestion) > Len(msg) THEN Fails ELSE m + Fixed(isQuestion)

\* parse_question() and parse_rr(): the place behind the record.  An owner that
\* ends the message fails an assertion.
RecordEnd(msg, at, isQuestion, beyond) ==
  LET m == Skipped(msg, at)
      next == m + Fixed(isQuestion) + IF isQuestion THEN 0 ELSE Pack2(msg, m + 8, beyond)
  IN IF m = -1 THEN Fails ELSE IF m >= Len(msg) THEN Aborts
     ELSE IF next > Len(msg) THEN Fails ELSE next

\* parse_section(): where each of n records begins, and where the section ends.
Section(msg, from, n, isQuestion, beyond) ==
  LET at[k \in 1 .. n + 1] ==
        IF k = 1 THEN from
        ELSE IF at[k - 1] < 0 THEN at[k - 1] ELSE RecordEnd(msg, at[k - 1], isQuestion, beyond)
  IN [starts |-> [k \in 1 .. n |-> at[k]], end |-> at[n + 1]]

FinalCode(end, msg) == IF end < Len(msg) THEN "LONG_MSG" ELSE "OK"

SectionCodes == <<"QUESTION", "ANSWER", "AUTHORITY", "ADDITIONAL">>

\* ruli_parse_message()
ParseMessage(msg, beyond) ==
  LET counts == Header(msg).counts
      section[s \in 0 .. 4] ==
        IF s = 0 THEN [starts |-> <<>>, end |-> HeaderSize]
        ELSE IF section[s - 1].end < 0 THEN section[s - 1]
        ELSE Section(msg, section[s - 1].end, counts[s], s = 1, beyond)
      bad == {s \in 1 .. 4 : section[s].end < 0}
      first == CHOOSE s \in bad : \A t \in bad : s <= t
      code == IF Len(msg) < HeaderSize THEN "SHORT_MSG"
              ELSE IF bad = {} THEN FinalCode(section[4].end, msg)
              ELSE IF section[first].end = Aborts THEN "abort" ELSE SectionCodes[first]
  IN [code |-> code, starts |-> IF code = "OK" THEN [s \in 1 .. 4 |-> section[s].starts] ELSE <<>>]

\* The data of the record that begins at a place.
DataAt(msg, at) == Skipped(msg, at) + 10
DataLength(msg, at) == Pack2(msg, Skipped(msg, at) + 8, 0)

\* ruli_parse_rr_srv(): the target fills the rest of the data.
SrvTarget(msg, at) ==
  LET from == DataAt(msg, at)
      past == from + DataLength(msg, at)
  IN IF past - from \notin 7 .. NameLimit + 6 \/ Skipped(SubSeq(msg, 1, past), from + 6) # past THEN Bad
     ELSE SubSeq(msg, from + 7, past)

\* ruli_parse_rr_mx(), which lets the name run on behind the data.
MxTarget(msg, at) ==
  IF DataLength(msg, at) \notin 3 .. NameLimit + 2 THEN Bad ELSE Expanded(msg, DataAt(msg, at) + 2, 0)

\* ruli_parse_rr_cname()
CnameTarget(msg, at) == Expanded(msg, DataAt(msg, at), 0)

\* ruli_parse_addr_rr(), with ruli_parse_rr_a() and ruli_parse_rr_aaaa(), asserts
\* that the length is the one an address has.
AddrRr(msg, at, size) ==
  IF DataLength(msg, at) # size THEN "abort"
  ELSE SubSeq(msg, DataAt(msg, at) + 1, DataAt(msg, at) + size)
=============================================================================
