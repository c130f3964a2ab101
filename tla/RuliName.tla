-------------------------------- MODULE RuliName --------------------------------
(***************************************************************************)
(* Domain names (ruli_txt.c): as text, encoded as labels, and compressed in *)
(* a message.                                                              *)
(*                                                                         *)
(* Everything is a sequence of octets.  Places in a message are counted     *)
(* from 0, as in pointers.  A function that fails returns Bad; Wild is what *)
(* a copy of a negative number of octets does, and "abort" what an          *)
(* assertion does.                                                          *)
(***************************************************************************)
EXTENDS Integers, Sequences

CONSTANTS
  NameLimit,  \* RULI_LIMIT_DNAME_ENCODED
  LabelLimit, \* RULI_LIMIT_LABEL_HIGH
  DepthLimit, \* RULI_LIMIT_COMPRESSION_DEPTH
  CharSign    \* the first octet that is negative as a char: 128, or 192 (which no
              \* length reaches) where a char has no sign

ASSUME LimitsAssumption ==
  /\ NameLimit \in Nat \ {0} /\ DepthLimit \in Nat
  /\ LabelLimit \in 1 .. 63
  /\ CharSign \in LabelLimit + 1 .. 192

TextBuffer == NameLimit - 1    \* RULI_LIMIT_DNAME_TEXT_BUFSZ
OwnerBuffer == NameLimit + 1   \* OWNER_BUFSZ of ti_api.c

Bad == <<-1>>
Wild == <<-2>>
Dot == 46

\* The octet behind the end of a message is whatever is in the buffer.
Octet(msg, p, beyond) == IF p < Len(msg) THEN msg[p + 1] ELSE beyond

\* ruli_pack2()
Pack2(msg, p, beyond) == 256 * Octet(msg, p, beyond) + Octet(msg, p + 1, beyond)

\* ruli_unpack2()
Unpack2(n) == <<n \div 256, n % 256>>

IsPointer(octet) == octet >= 192

Before(head, tail) == IF tail \in {Bad, Wild} THEN tail ELSE head \o tail

\* So many octets fit if the octet of the empty label does as well.
Fits(taken, room) == taken < room

Piece(label, asText) == IF asText THEN Append(label, Dot) ELSE <<Len(label)>> \o label

\* dname_expand() and, if asText, dname_extract(), whose text has a dot behind
\* a label where the encoded name has its length before it, into a buffer with
\* this room.  A label that leaves the message is copied, and refused when the
\* next one is looked for.
Walk(msg, start, beyond, asText, room) ==
  LET rest[at \in Nat \X (0 .. DepthLimit) \X (0 .. OwnerBuffer)] ==
        LET p == at[1]
            depth == at[2]
            left == at[3]
            len == Octet(msg, p, beyond)
            label == [i \in 1 .. len |-> Octet(msg, p + i, beyond)]
        IN IF p >= Len(msg) THEN Bad
           ELSE IF len = 0 THEN IF left > 0 THEN IF asText THEN <<>> ELSE <<0>> ELSE Bad
           ELSE IF IsPointer(len)
             THEN IF depth = 0 THEN Bad
                  ELSE rest[<<Pack2(msg, p, beyond) - 192 * 256, depth - 1, left>>]
           ELSE IF ~Fits(len + 1, left) THEN Bad
           ELSE Before(Piece(label, asText), rest[<<p + len + 1, depth, left - (len + 1)>>])
  IN rest[<<start, DepthLimit, room>>]

\* ruli_dname_expand(), ruli_dname_extract()
Expanded(m, p, beyond) == Walk(m, p, beyond, FALSE, NameLimit)
Extracted(m, p, beyond, room) == Walk(m, p, beyond, TRUE, room)

\* ruli_dname_decode(), of an uncompressed name.  As many octets of text are
\* written as octets of the name have been read.  The length is read as a char:
\* if that is negative it always fits, and the copy runs wild.
Decoded(name, room) ==
  LET rest[p \in Nat] ==
        LET len == name[p + 1] IN
        IF p >= Len(name) THEN Bad
        ELSE IF len = 0 THEN IF p < room THEN <<>> ELSE Bad
        ELSE IF IsPointer(len) THEN Bad
        ELSE IF len >= CharSign THEN Wild
        ELSE IF ~Fits(p + len + 1, room) \/ p + len >= Len(name) THEN Bad
        ELSE Before(Append(SubSeq(name, p + 2, p + 1 + len), Dot), rest[p + len + 1])
  IN rest[0]

\* The dot that ends a text may be left out.
Undotted(text) ==
  IF text # <<>> /\ text[Len(text)] = Dot THEN SubSeq(text, 1, Len(text) - 1) ELSE text

\* ruli_dname_encode_size()
EncodeSize(text) == Len(Undotted(text)) + 2

\* The longest label is refused.
MutantLabelFits(len, left) == len \in 1 .. LabelLimit - 1 /\ len + 1 <= left

\* build_label()
LabelFits(len, left) == len \in 1 .. LabelLimit /\ len + 1 <= left

\* ruli_dname_encode(); text is not empty.
Encoded(given, room) ==
  LET text == Undotted(given)
      rest[p \in Nat] ==
        LET dots == {i \in p + 1 .. Len(text) : text[i] = Dot}
            end == IF dots = {} THEN Len(text) + 1 ELSE CHOOSE i \in dots : \A j \in dots : i <= j
            len == end - p - 1
        IN IF p >= Len(text) THEN <<0>>
           ELSE IF ~LabelFits(len, room - p) THEN Bad
           ELSE Before(<<len>> \o SubSeq(text, p + 1, end - 1), rest[p + len + 1])
  IN IF room < Len(text) + 2 \/ Len(text) > NameLimit THEN Bad ELSE rest[0]

\* ruli_dname_concat()
Concat(name1, name2, room) ==
  LET both == SubSeq(name1, 1, Len(name1) - 1) \o name2 IN
  IF Len(name1) >= NameLimit \/ Len(name2) >= NameLimit THEN "abort"
  ELSE IF \/ Len(both) > NameLimit \/ Len(both) > room
          \/ Len(name1) > room \/ Len(name2) >= room
    THEN Bad
  ELSE both

\* ruli_dname_compare(), which takes for granted that the name can be expanded.
SameName(msg, p, beyond, name) ==
  IF Expanded(msg, p, beyond) = Bad THEN "abort"
  ELSE IF Expanded(msg, p, beyond) = name THEN "RULI_TXT_OK" ELSE "RULI_TXT_BAD"

\* ruli_dname_match(), of two texts; case is of no matter here.
Matches(text1, text2) == Undotted(text1) = Undotted(text2)

PointerSize == 2

\* skip_rr_owner(): the place behind a name, or -1.
Skipped(msg, start) ==
  LET past[p \in Nat] ==
        IF p >= Len(msg) THEN -1
        ELSE IF msg[p + 1] = 0 THEN p + 1
        ELSE IF IsPointer(msg[p + 1]) THEN IF p + PointerSize > Len(msg) THEN -1 ELSE p + PointerSize
        ELSE past[p + msg[p + 1] + 1]
  IN past[start]

-----------------------------------------------------------------------------
(* The labels of an encoded name.                                          *)

LabelsIn(name) ==
  LET rest[p \in Nat] ==
        IF p >= Len(name) \/ name[p + 1] = 0 THEN {}
        ELSE {SubSeq(name, p + 2, p + 1 + name[p + 1])} \cup rest[p + 1 + name[p + 1]]
  IN rest[0]

\* A decoder reads their lengths as they are.
Short(name) == \A label \in LabelsIn(name) : Len(label) < CharSign

\* An encoder can have written them.
Writable(name) ==
  \A label \in LabelsIn(name) : Len(label) <= LabelLimit /\ \A i \in DOMAIN label : label[i] # Dot
=============================================================================
