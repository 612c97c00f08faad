------------------------------- MODULE Filters -------------------------------
(***************************************************************************)
(* Block filters, bitcoin/src/bip158.rs: the scripts of a block are hashed,*)
(* mapped to a range, sorted, and their differences written as Golomb-Rice *)
(* codes through a bit stream; a client reads them again while it walks    *)
(* through the sorted values it looks for.  A turn of the loops in         *)
(* BitStreamWriter::write, BitStreamReader::read and match_any/match_all   *)
(* is a step.                                                              *)
(***************************************************************************)
EXTENDS Integers, Sequences, FiniteSets, SequencesExt

CONSTANTS
  BYTE, WORD,        \* bits of a byte, and of the longest write
  P, M,              \* of the code: low bits of a number, and the inverse false positive rate
  Hashes, Hash(_),   \* the range of SipHash, and the hash of a script
  Scripts,           \* bound: the empty script, one that begins with OP_RETURN, others
  Empty, OpReturn,
  MaxOutputs,        \* bound: scripts created, and spent, by a block
  MaxQuery           \* bound: scripts looked for at once

FiltersAssumption ==
  /\ {BYTE, WORD, P, M, Hashes} \subseteq Nat \ {0}
  /\ \A s \in Scripts : Hash(s) \in 0 .. Hashes - 1

VARIABLES
  outputs, spent,       \* the scripts of the outputs, and of the outputs that are spent
  known,                \* whether script_for_coin finds all of the latter
  phase,
  todo,                 \* the writes to come: bits and their number
  buffer, offset,       \* of the bit stream, of the writer or of the reader
  content,              \* the bytes of the filter
  query, isAny,
  sought,               \* the mapped values that have not been found yet
  taken, left,          \* bytes read, bits to read
  q, r, data, remaining,
  answer

blockVars == <<outputs, spent, known>>
streamVars == <<buffer, offset, content>>
queryVars == <<query, isAny>>
readVars == <<sought, taken, left, q, r, data, remaining>>
filterVars == <<blockVars, phase, todo, streamVars, queryVars, readVars, answer>>

Least(a, b) == IF a < b THEN a ELSE b
Repeat(value, count) == [i \in 1 .. count |-> value]

-----------------------------------------------------------------------------
(* The set. *)

\* add_output_scripts, add_input_scripts, add_element.
Elements == ((outputs \ {OpReturn}) \cup spent) \ {Empty}

map_to_range(hash, nm) == (hash * nm) \div Hashes
Mapped(S) == [s \in S |-> map_to_range(Hash(s), Cardinality(Elements) * M)]

\* The mapped values in order, as often as they occur.
SortedValues(S) ==
  LET m == Mapped(S)
      Count(v) == Cardinality({s \in S : m[s] = v})
      Values == SetToSortSeq({m[s] : s \in S}, LAMBDA a, b : a < b)
  IN  FoldLeft(LAMBDA list, v : list \o Repeat(v, Count(v)), <<>>, Values)

-----------------------------------------------------------------------------
(* Writing. *)

Ones(count) == <<2 ^ count - 1, count>>

golomb_rice_encode(n) ==
  LET quotient == n \div 2 ^ P
  IN  Repeat(Ones(WORD), quotient \div WORD) \o <<Ones(quotient % WORD), <<0, 1>>, <<n, P>>>>

Differences(values) ==
  [i \in DOMAIN values |-> values[i] - (IF i = 1 THEN 0 ELSE values[i - 1])]

FiltersInit ==
  /\ outputs \in {S \in SUBSET Scripts : Cardinality(S) <= MaxOutputs}
  /\ spent \in {S \in SUBSET Scripts : Cardinality(S) <= MaxOutputs}
  /\ known \in BOOLEAN
  /\ phase = "begin" /\ todo = <<>>
  /\ buffer = 0 /\ offset = 0 /\ content = <<>>
  /\ query = {} /\ isAny = TRUE
  /\ sought = <<>> /\ taken = 0 /\ left = 0 /\ q = 0 /\ r = 0 /\ data = 0 /\ remaining = 0
  /\ answer = "none"

\* A coin that is not found is an error, and there is no filter.
Compute ==
  /\ phase = "begin" /\ (known \/ spent = {})
  /\ phase' = "write"
  /\ todo' = FoldLeft(LAMBDA list, n : list \o golomb_rice_encode(n), <<>>,
                      Differences(SortedValues(Elements)))
  /\ UNCHANGED <<blockVars, streamVars, queryVars, readVars, answer>>

\* Bits go to the buffer from the left; a full buffer is flushed.
Write ==
  /\ phase = "write" /\ todo # <<>>
  /\ LET value == todo[1][1]
         nbits == todo[1][2]
         bits == Least(BYTE - offset, nbits)
         filled == buffer + ((value % 2 ^ nbits) * 2 ^ (BYTE - offset)) \div 2 ^ nbits
     IN  /\ IF nbits = bits THEN todo' = Tail(todo)
                            ELSE todo' = <<<<value, nbits - bits>>>> \o Tail(todo)
         /\ IF offset + bits = BYTE
              THEN content' = Append(content, filled) /\ buffer' = 0 /\ offset' = 0
              ELSE buffer' = filled /\ offset' = offset + bits /\ UNCHANGED content
  /\ UNCHANGED <<phase, blockVars, queryVars, readVars, answer>>

Finish ==
  /\ phase = "write" /\ todo = <<>>
  /\ content' = IF offset > 0 THEN Append(content, buffer) ELSE content
  /\ buffer' = 0 /\ offset' = BYTE          \* that of a new reader
  /\ phase' = "filter"
  /\ UNCHANGED <<todo, blockVars, queryVars, readVars, answer>>

-----------------------------------------------------------------------------
(* Reading. *)

Answer(a) == phase' = "answered" /\ answer' = a

BeginMatch(S, any) ==
  /\ phase = "filter"
  /\ query' = S /\ isAny' = any
  /\ sought' = IF any THEN SortedValues(S)
               ELSE SetToSortSeq({Mapped(S)[s] : s \in S}, LAMBDA a, b : a < b)
  /\ IF S = {} THEN Answer(IF any THEN "no" ELSE "yes") /\ UNCHANGED <<left, remaining>>
     ELSE IF Elements = {} THEN Answer("no") /\ UNCHANGED <<left, remaining>>
     ELSE /\ phase' = "unary" /\ left' = 1
          /\ remaining' = Cardinality(Elements) - 1 /\ UNCHANGED answer
  /\ UNCHANGED <<todo, blockVars, streamVars, taken, q, r, data>>

\* A turn of read: the next byte when the buffer is used up, and the bits of it.
Read ==
  /\ phase \in {"unary", "low"}
  /\ IF offset = BYTE /\ taken = Len(content)
       THEN Answer("error") /\ UNCHANGED <<streamVars, readVars>>
       ELSE LET byte == IF offset = BYTE THEN content[taken + 1] ELSE buffer
                start == IF offset = BYTE THEN 0 ELSE offset
                bits == Least(BYTE - start, left)
                value == ((byte * 2 ^ start) % 2 ^ BYTE) \div 2 ^ (BYTE - bits)
            IN  /\ buffer' = byte /\ offset' = start + bits
                /\ taken' = IF offset = BYTE THEN taken + 1 ELSE taken
                /\ IF phase = "unary"
                     THEN IF value = 1
                            THEN q' = q + 1 /\ UNCHANGED <<phase, left, r>>
                            ELSE phase' = "low" /\ left' = P /\ r' = 0 /\ UNCHANGED q
                     ELSE /\ r' = r * 2 ^ bits + value
                          /\ left' = left - bits
                          /\ phase' = IF left' = 0 THEN "compare" ELSE "low"
                          /\ UNCHANGED q
                /\ UNCHANGED <<content, sought, data, remaining, answer>>
  /\ UNCHANGED <<todo, blockVars, queryVars>>

\* A value is complete; q is spent by the sum.
Decoded == data + q * 2 ^ P + r

\* Mutant: a value that is too large ends the search.
Greater_Ends(rest) == FALSE

\* A value larger than the one sought: any other one may still be found.
Greater(rest) == isAny /\ rest # <<>>

Compare ==
  /\ phase = "compare"
  /\ data' = Decoded /\ q' = 0 /\ r' = 0
  /\ LET rest == Tail(sought)
     IN  IF data' < sought[1]
           THEN IF remaining > 0
                  THEN /\ phase' = "unary" /\ left' = 1 /\ remaining' = remaining - 1
                       /\ UNCHANGED <<sought, answer>>
                  ELSE Answer("no") /\ UNCHANGED <<left, remaining, sought>>
         ELSE /\ UNCHANGED <<left, remaining>>
              /\ IF data' = sought[1] /\ (isAny \/ rest = <<>>)
                   THEN Answer("yes") /\ UNCHANGED sought
                 ELSE IF data' = sought[1] \/ Greater(rest)
                   THEN sought' = rest /\ UNCHANGED <<phase, answer>>
                 ELSE Answer("no") /\ UNCHANGED sought
  /\ UNCHANGED <<todo, blockVars, streamVars, queryVars, taken>>

FiltersNext ==
  \/ Compute \/ Write \/ Finish
  \/ \E S \in SUBSET Scripts, any \in BOOLEAN : Cardinality(S) <= MaxQuery /\ BeginMatch(S, any)
  \/ Read \/ Compare

-----------------------------------------------------------------------------
\* A filter never misses a script of its block: it says yes to exactly those whose mapped
\* value is among the mapped values of the block, one of them or all of them, whatever the
\* position of the codes in the bytes, and it is never read past its end.
FilterAnswers ==
  phase = "answered" =>
    LET inBlock == {Mapped(Elements)[s] : s \in Elements}
        hits == {s \in query : Mapped(query)[s] \in inBlock}
    IN  /\ answer = IF isAny THEN (IF hits # {} THEN "yes" ELSE "no")
                             ELSE (IF hits = query THEN "yes" ELSE "no")
        /\ LET found == {s \in query : s \notin {Empty, OpReturn} /\ s \in outputs \cup spent}
           IN  IF isAny THEN found # {} => answer = "yes"
                        ELSE found = query => answer = "yes"

=============================================================================
