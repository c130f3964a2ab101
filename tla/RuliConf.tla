-------------------------------- MODULE RuliConf --------------------------------
(***************************************************************************)
(* The lists read from resolv.conf (ruli_conf.c).                           *)
(*                                                                         *)
(* The file is a sequence of lines, a line a sequence of words.  A line     *)
(* longer than the buffer is read in parts; the buffer holds BufferWords.   *)
(***************************************************************************)
EXTENDS Integers, Sequences

CONSTANTS
  BufferWords,   \* LOAD_SEARCH_LIST_INBUFSZ, LOAD_NS_LIST_INBUFSZ
  BadWords       \* words that are no name (search) and no address (nameserver)

ASSUME BufferAssumption == BufferWords \in Nat \ {0}

\* What fgets() gives of a line, one call after the other.
Parts(line) ==
  [k \in 1 .. (Len(line) + BufferWords - 1) \div BufferWords |->
     LET to == IF k * BufferWords < Len(line) THEN k * BufferWords ELSE Len(line)
     IN SubSeq(line, (k - 1) * BufferWords + 1, to)]

Flat(parts) ==
  LET from[k \in 1 .. Len(parts) + 1] == IF k > Len(parts) THEN <<>> ELSE parts[k] \o from[k + 1]
  IN from[1]

\* A word that is refused is left out, and the next one is read.
MutantWordsTaken(part) == SelectSeq(Tail(part), LAMBDA w : w \notin BadWords)

\* The words of a line up to the first that is refused.
WordsTaken(part) ==
  LET from[k \in 2 .. Len(part) + 1] ==
        IF k > Len(part) \/ part[k] \in BadWords THEN <<>> ELSE <<part[k]>> \o from[k + 1]
  IN from[2]

\* One turn of the loop over the file.
TakenFrom(part, directive) ==
  IF part = <<>> \/ part[1] # directive THEN <<>> ELSE WordsTaken(part)

\* conf_load_search_list() and load_ns_list(): an empty list is a failure.
Loaded(file, directive) ==
  LET parts == Flat([n \in DOMAIN file |-> Parts(file[n])])
  IN Flat([k \in DOMAIN parts |-> TakenFrom(parts[k], directive)])

\* ruli_conf_load_search_list() and ruli_conf_load_ns_list()
LoadList(exists, file, directive) ==
  IF ~exists \/ Loaded(file, directive) = <<>>
  THEN [ok |-> FALSE, list |-> <<>>]
  ELSE [ok |-> TRUE, list |-> Loaded(file, directive)]

-----------------------------------------------------------------------------
(* What the file says.                                                     *)

\* The words of the lines of a directive that nothing refused comes before.
Given(file, directive) ==
  LET words(n) == {k \in 2 .. Len(file[n]) : \A j \in 2 .. k : file[n][j] \notin BadWords}
      lines == {n \in DOMAIN file : file[n] # <<>> /\ file[n][1] = directive}
  IN  UNION {{n} \X words(n) : n \in lines}
=============================================================================
