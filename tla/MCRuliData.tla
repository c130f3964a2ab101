------------------------------- MODULE MCRuliData -------------------------------
(***************************************************************************)
(* The parts of the library that keep no state of their own, on all inputs  *)
(* of a bounded size, and the list the other parts keep theirs in.          *)
(*                                                                         *)
(* A behaviour works on one list, or picks one sample and stops.            *)
(***************************************************************************)
EXTENDS RuliList, RuliInet6, RuliAddr, RuliMessage, RuliTiAnswer, RuliConf, FiniteSets

CONSTANTS
  TextLen,     \* the longest address text
  MsgLen,      \* the longest piece of a message
  AnswerLen    \* the most records of an answer to the TI API

ASSUME BoundsAssumption == {TextLen, MsgLen, AnswerLen} \subseteq Nat

VARIABLE sample

dataVars == <<head, used, sample>>

Of(part, value) == [part |-> part, value |-> value]
None == Of("none", <<>>)
Is(part) == sample.part = part

SeqsUpTo(S, n) == UNION {[1 .. m -> S] : m \in 0 .. n}

\* Two groups without a colon between them are one.  A group too large stands
\* where a group that fits does, in one place at most.
Sound == {t \in SeqsUpTo({":", "g", "x"}, TextLen) : \A i \in 1 .. Len(t) - 1 : t[i] # "g" \/ t[i + 1] # "g"}
Clean == {t \in Sound : \A i \in DOMAIN t : t[i] # "x"}
Texts == Sound \cup UNION {{[t EXCEPT ![i] = "big"] : i \in {j \in DOMAIN t : t[j] = "g"}} : t \in Clean}

\* Lengths that are written, only read, and negative; a dot; and a pointer.
Octets == {0, 1, 2, 3, Dot, 192}
Pieces == SeqsUpTo(Octets, MsgLen) \ {<<>>}

\* Names of up to two labels, with what the labels of an address record hold.
QueryNames == {<<0>>, <<1, 97, 0>>, <<2, 97, 98, 0>>, <<1, 97, 1, 98, 0>>}
OwnNames == QueryNames \cup {<<192, HeaderSize>>}

\* A message with one question, and a record with this data for every section
\* of records; it may be cut, have more behind it, and lie about its sections.
RecordOf(owner, data) == owner \o <<0, 1, 0, 1, 0, 0, 0, 9>> \o Unpack2(Len(data)) \o data

Sent(s) ==
  LET records(n) == IF s.sent[n] = 0 THEN <<>> ELSE RecordOf(s.owner, s.data)
      header == <<0, 7, 129, 128>> \o Unpack2(1) \o Unpack2(s.told[1]) \o Unpack2(s.told[2]) \o Unpack2(s.told[3])
      whole == header \o s.name \o <<0, 1, 0, 1>> \o records(1) \o records(2) \o records(3) \o s.extra
  IN SubSeq(whole, 1, Len(whole) - s.cut)

Messages ==
  {s \in [name : QueryNames, owner : OwnNames, data : {<<>>, <<0>>, <<1, 0>>, <<0, 0, 12>>},
          sent : [1 .. 3 -> {0, 1}], told : [1 .. 3 -> {0, 1}], extra : {<<>>, <<0>>, <<1>>}, cut : 0 .. 3] :
     /\ s.cut = 0 \/ s.extra = <<>>
     /\ Cardinality({n \in 1 .. 3 : s.sent[n] # s.told[n]}) <= 1}

\* The names a record holds in a message of its own.
Targets == {t \in SeqsUpTo({0, 1, 2}, 5) : t # <<>>}

\* Destinations, every scope, label and family with and without a source.
Addresses4 == {V4(o) : o \in {<<10, 0, 0, 1>>, <<127, 0, 0, 1>>, <<198, 51, 100, 2>>, <<198, 51, 100, 9>>}}
Six(front, last) == V6(front \o Zeros(15 - Len(front)) \o <<last>>)
Addresses6 ==
  {Six(<<>>, 1), Six(<<254, 128>>, 1), Six(<<254, 192>>, 1), Six(<<32, 2, 198>>, 1), Six(<<32, 2, 199>>, 1),
   Six(<<32, 1, 13, 184>>, 1), Six(<<255, 5>>, 1), V6(Zeros(10) \o <<255, 255, 10, 0, 0, 1>>),
   V6(Zeros(12) \o <<198, 51, 100, 2>>)}
Destinations ==
  {[addr |-> a, src |-> NoSource] : a \in Addresses4 \cup Addresses6}
  \cup {[addr |-> a, src |-> s] : a \in Addresses4, s \in {V4(<<10, 0, 0, 7>>), V4(<<198, 51, 100, 8>>)}}
  \cup {[addr |-> a, src |-> s] : a \in Addresses6, s \in {Six(<<32, 1, 13, 184>>, 9), Six(<<254, 128>>, 9)}}

Names == {"domain", "alias", "other"}
ASSUME NoNameAssumption == NoName \notin Names

Records ==
  [type : {"A", "CNAME"}, class : {"IN"}, good : {TRUE}, text : {TRUE}, owner : Names, value : Names]
  \cup [type : {"AAAA"}, class : {"IN"}, good : {FALSE}, text : {TRUE}, owner : {"domain"}, value : {"other"}]
  \cup [type : {"CNAME"}, class : {"CH"}, good : {TRUE}, text : {TRUE}, owner : {"domain"}, value : {"other"}]
  \cup [type : {"CNAME"}, class : {"IN"}, good : {TRUE}, text : {FALSE}, owner : {"domain", "alias"}, value : {"other"}]
Answers == SeqsUpTo({r \in Records : r.type # "A" \/ r.value = "domain"}, AnswerLen)

Lines == SeqsUpTo({"search", "x", "y", "bad"}, 4)
Files == SeqsUpTo(Lines, 1) \cup [1 .. 2 -> {l \in Lines : Len(l) \in {0, 2, 3}}]

Init == ListInit /\ sample = None

PickText == \E t \in Texts : sample' = Of("text", t)
PickPiece == \E p \in Pieces : sample' = Of("piece", p)
PickMessage == \E m \in Messages : sample' = Of("message", m)
PickTarget == \E t \in Targets : sample' = Of("target", t)
PickPair == \E d \in Destinations, e \in Destinations : sample' = Of("pair", <<d, e>>)
PickAnswer == \E a \in Answers : sample' = Of("answer", a)
PickFile == \E f \in Files : sample' = Of("file", f)

Pick ==
  /\ Is("none") /\ head = [i \in 1 .. FirstCap |-> Garbage] /\ used = 0
  /\ PickText \/ PickPiece \/ PickMessage \/ PickTarget \/ PickPair \/ PickAnswer \/ PickFile
  /\ UNCHANGED listVars

Next == Pick \/ (Is("none") /\ ListNext /\ UNCHANGED sample)

Spec == Init /\ [][Next]_dataVars

-----------------------------------------------------------------------------
(* Properties.                                                             *)

\* What the notation calls an address is read for what it means, and what is
\* printed is called one.  A text with two gaps, with too few words, or with a group
\* too large behind a gap is never read as an address.
AddressesAreRead ==
  Is("text") =>
    LET t == sample.value IN
    /\ Proper(Inet6Printed)
    /\ Proper(t) => Reads(t, Inet6Aton(t))
    /\ Inet6Aton(t) # <<>> /\ "x" \notin {t[i] : i \in DOMAIN t} => Proper(t) \/ GroupsIn(t) >= Words

\* Wherever it begins in a message m, compressed or not, a name is expanded exactly
\* if its text is extracted into a buffer as long, and a text is the same whatever
\* buffer it fits in.  Decoded, the name is that text.  Names that are the same have
\* texts that match, and only they have if no label holds a dot.
ReadersAgree(m, p) ==
  LET name == Expanded(m, p, 0)
      text == Extracted(m, p, 0, OwnerBuffer)
  IN /\ name = Bad <=> Extracted(m, p, 0, NameLimit) = Bad
     /\ \A room \in 0 .. OwnerBuffer :
          Extracted(m, p, 0, room) = IF text # Bad /\ Len(text) < room THEN text ELSE Bad
     /\ name # Bad /\ Short(name) => Decoded(name, TextBuffer) = Extracted(m, p, 0, TextBuffer)
     /\ name # Bad =>
          \A q \in 0 .. Len(m) - 1 :
            LET other == Expanded(m, q, 0)
                matches == Matches(Extracted(m, q, 0, OwnerBuffer), text)
            IN other # Bad =>
                 /\ SameName(m, q, 0, name) = "RULI_TXT_OK" => matches
                 /\ matches /\ Writable(name) /\ Writable(other) => SameName(m, q, 0, name) = "RULI_TXT_OK"

\* The text of a name whose labels can be written is encoded as that name.
EncodingIsInverse(m, p) ==
  LET name == Expanded(m, p, 0)
      text == Extracted(m, p, 0, OwnerBuffer)
  IN name \notin {Bad, <<0>>} /\ Writable(name) => Encoded(text, EncodeSize(text)) = name

\* Two names joined stand for the texts joined, and only a name too long is refused.
ConcatJoinsTexts(m, p) ==
  LET first == Expanded(m, 0, 0)
      second == Expanded(m, p, 0)
      both == Concat(first, second, NameLimit)
      whole(name) == name # Bad /\ Len(name) < NameLimit /\ Short(name)
  IN whole(first) /\ whole(second) =>
       IF Len(first) + Len(second) - 1 > NameLimit THEN both = Bad
       ELSE Decoded(both, TextBuffer) =
              IF Len(both) > TextBuffer THEN Bad
              ELSE Extracted(m, 0, 0, OwnerBuffer) \o Extracted(m, p, 0, OwnerBuffer)

\* A name is decoded to the end only if every length is one a char can hold, and
\* copied wildly only if one is not.
DecoderRunsWild(m, p) ==
  LET name == Expanded(m, p, 0)
      text == Decoded(name, TextBuffer)
  IN name # Bad =>
       /\ ~Short(name) => text \in {Bad, Wild}
       /\ text = Wild => ~Short(name)

\* The record behind a name begins where reading the name stopped: what was
\* skipped is the name, or the front of it and the place of the rest.
SkipsWhatIsRead(m, p) ==
  LET name == Expanded(m, p, 0)
      past == Skipped(m, p)
      at   == past - 2
  IN name # Bad /\ past # -1 =>
       \/ SubSeq(m, p + 1, past) = name
       \/ /\ at >= p /\ IsPointer(m[at + 1])
          /\ Expanded(m, Pack2(m, at, 0) - 192 * 256, 0) # Bad
          /\ name = SubSeq(m, p + 1, at) \o Expanded(m, Pack2(m, at, 0) - 192 * 256, 0)

\* What a text is encoded as has the size foretold at most, and may be longer than
\* a name may be by the two octets its text does not have.
EncoderOverruns(text) ==
  LET name == Encoded(text, EncodeSize(text)) IN
  name # Bad => Len(name) <= EncodeSize(text) /\ Len(name) <= NameLimit + 2

\* The functions that read, write, compare, join and skip names agree on every
\* name, wherever it begins in whatever octets, but for what the sizes of their
\* buffers, the sign of a char and the encoder's idea of the limit make of it
\* (ruli_txt.c, ruli_parse.c).
NamesAgree ==
  Is("piece") =>
    /\ EncoderOverruns(sample.value)
    /\ \A p \in 0 .. Len(sample.value) - 1 :
         /\ ReadersAgree(sample.value, p)
         /\ EncodingIsInverse(sample.value, p)
         /\ ConcatJoinsTexts(sample.value, p)
         /\ DecoderRunsWild(sample.value, p)
         /\ SkipsWhatIsRead(sample.value, p)

\* "ENCODED dname must fit into 255" (ruli_txt.c:90): what the encoder writes has a
\* size that names may have.  Refuted.
EncodedFits ==
  Is("piece") => Len(Encoded(sample.value, EncodeSize(sample.value))) <= NameLimit

\* A message is taken for whole exactly if it is: nothing cut off, nothing
\* behind it, and as many records in each section as its header says.  Then the
\* records of every section are found, each with its owner and its data.
WholeMessagesParse(s) ==
  LET m == Sent(s)
      parsed == ParseMessage(m, 0)
  IN /\ parsed.code = "OK" <=> s.cut = 0 /\ s.extra = <<>> /\ s.sent = s.told
     /\ parsed.code = "OK" =>
          \A n \in 1 .. 3 :
            /\ Len(parsed.starts[n + 1]) = s.sent[n]
            /\ \A k \in 1 .. s.sent[n] :
                 LET at == parsed.starts[n + 1][k] IN
                 /\ AddrRr(m, at, Len(s.data)) = s.data
                 /\ Expanded(m, at, 0) = IF IsPointer(s.owner[1]) THEN s.name ELSE s.owner

\* A query the resolver builds is a message it would parse, with the question asked.
QueriesParse(s) ==
  LET q == Build(7, s.name, 33, 1)
      parsed == ParseMessage(q, 0)
      at == parsed.starts[1][1]
  IN /\ Header(q).id = 7 /\ Header(q).rcode = 0
     /\ parsed.code = "OK" /\ at = HeaderSize
     /\ Expanded(q, at, 0) = s.name
     /\ Pack2(q, Skipped(q, at), 0) = 33 /\ Pack2(q, Skipped(q, at) + 2, 0) = 1

\* The name a record holds is the same whichever record holds it.
TargetsAgree(t) ==
  LET rr(front) == RecordOf(<<0>>, front \o t)
      srv == SrvTarget(rr(Zeros(6)), 0)
  IN srv # Bad =>
       /\ MxTarget(rr(Zeros(2)), 0) = srv
       /\ CnameTarget(rr(<<>>), 0) = srv

\* What is sent is what is parsed, for messages, queries and the names records
\* hold (ruli_msg.c, ruli_parse.c).
MessagesParse ==
  /\ Is("message") => WholeMessagesParse(sample.value) /\ QueriesParse(sample.value)
  /\ Is("target") => TargetsAgree(sample.value)

\* Two destinations are never each to come before the other.
CmpAntisymmetric(d, e) ==
  \A rfc3484, nosort6 \in BOOLEAN : Cmp(d, e, rfc3484, nosort6) = -Cmp(e, d, rfc3484, nosort6)

\* With IPv6 first among equals, what does not come after something that does
\* not come after a third, does not come after the third.
CmpTransitive(d, e) ==
  Cmp(d, e, TRUE, FALSE) <= 0 =>
    \A f \in Destinations : Cmp(e, f, TRUE, FALSE) <= 0 => Cmp(d, f, TRUE, FALSE) <= 0

\* The first policy that matches an address is the one that says most about it.
FirstIsLongest(a) ==
  \A i \in DOMAIN Policies : InNet(Policies[i], Mapped(a)) => Policies[i].bits <= PolicyOf(a).bits

\* The comparison orders the destinations, as qsort() needs it, by the policy
\* that is meant (addr_cmp_preference(), rfc3484_cmp()).
AddressesAreOrdered ==
  Is("pair") =>
    LET d == sample.value[1]
        e == sample.value[2]
    IN CmpAntisymmetric(d, e) /\ CmpTransitive(d, e) /\ FirstIsLongest(d.addr)

\* No address is taken from a name the domain does not lead to, though an alias
\* that cannot be decoded leads to whatever it leaves in the buffer; if the aliases
\* can be decoded and come in order, every address of the answer is taken, and it
\* succeeds exactly if there is one and there is memory for all.
AddressesOfTheDomain ==
  Is("answer") =>
    LET answer == sample.value
        taken == Taken(answer, "domain")
        address(k) == Read(answer[k]) /\ ~Alias(answer[k])
    IN /\ \A i \in DOMAIN taken :
            address(taken[i]) /\ answer[taken[i]].owner \in Aliases(answer, "domain")
       /\ InChainOrder(answer, "domain") =>
            /\ \A k \in DOMAIN answer : address(k) => \E i \in DOMAIN taken : taken[i] = k
            /\ \A room \in 0 .. AnswerLen :
                 HostCode("OK", TRUE, answer, "domain", room) = "TI_DNS_SUCCESS"
                   <=> (\E k \in DOMAIN answer : address(k)) /\ Len(taken) <= room

\* From a file whose lines fit in the buffer the list has the words of every
\* line of its directive up to the first that is refused, in the order of the file.
ListsInOrder ==
  Is("file") =>
    LET file == sample.value
        given == Given(file, "search")
        loaded == LoadList(TRUE, file, "search")
        Place(p) == Cardinality({q \in given : q[1] < p[1] \/ (q[1] = p[1] /\ q[2] <= p[2])})
    IN (\A n \in DOMAIN file : Len(file[n]) <= BufferWords) =>
         /\ loaded.ok <=> given # {}
         /\ Len(loaded.list) = Cardinality(given)
         /\ \A p \in given : loaded.list[Place(p)] = file[p[1]][p[2]]
=============================================================================
