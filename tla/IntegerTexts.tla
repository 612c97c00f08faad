---------------------------- MODULE IntegerTexts ----------------------------
(***************************************************************************)
(* The texts of integers: the hex and decimal texts of units/src/          *)
(* parse_int.rs and of the 256-bit integer, which is shown digit by digit  *)
(* and read in pieces that fit a u128, two halves of its hex digits and    *)
(* chunks of its decimal digits.                                           *)
(*                                                                         *)
(* A text is a sequence of bytes: a digit is its number, both letters x    *)
(* are X, and a character outside ASCII has two bytes.  HEX stands for 16, *)
(* DEC for 10, CHUNK for the 38 decimal digits that fit a u128.            *)
(***************************************************************************)
EXTENDS U256

CONSTANTS HEX, DEC, CHUNK,
          DIGITS,             \* the decimal digits of the largest U256
          U32,                \* 2^32, in scale
          Numerals            \* input: the texts that are read

VARIABLES number,    \* what was shown, NoNumber if the text came from elsewhere
          numeral,   \* its text
          format,    \* how it was shown
          reading    \* what a reader made of the text

X == 101
PLUS == 102
MINUS == 103
WIDE == 104
WIDE_END == 105
None == "none"
NoNumber == -1
Err == "error"
Panic == "panic"

HexPerWord == CHOOSE n \in 1 .. Word : HEX ^ n = U128

IntegerTextsAssumption ==
  /\ U256Assumption
  /\ HEX \in Nat /\ \E n \in 1 .. Word : HEX ^ n = U128
  /\ DEC \in 2 .. HEX /\ CHUNK \in Nat \ {0} /\ DEC ^ CHUNK <= U128
  /\ DEC ^ (DIGITS - 1) < AllU256 /\ AllU256 <= DEC ^ DIGITS
  /\ U32 \in 1 .. U128

Ok(n) == <<"ok", n>>
IsOk(r) == r[1] = "ok"

\* A string is UTF-8: both bytes of a character are there.
IsUtf8(s) ==
  \A i \in DOMAIN s :
    /\ s[i] = WIDE => i < Len(s) /\ s[i + 1] = WIDE_END
    /\ s[i] = WIDE_END => i > 1 /\ s[i - 1] = WIDE

AreDigits(s, radix) == s # <<>> /\ \A i \in DOMAIN s : s[i] < radix
Denoted(s, radix) == FoldLeft(LAMBDA n, d : n * radix + d, 0, s)

-----------------------------------------------------------------------------
(* What the standard library reads: one sign, then digits.                 *)

from_str_radix(s, radix, limit) ==
  LET digits == IF s # <<>> /\ s[1] = PLUS THEN Tail(s) ELSE s
  IN  IF AreDigits(digits, radix) /\ Denoted(digits, radix) < limit
      THEN Ok(Denoted(digits, radix)) ELSE <<Err>>

int(s) == from_str_radix(s, DEC, U32)

-----------------------------------------------------------------------------
(* Hex, with the prefix 0x, without it, and either way.                    *)

HasPrefix(s) == Len(s) >= 2 /\ s[1] = 0 /\ s[2] = X
Unprefixed(s) == SubSeq(s, 3, Len(s))

hex_remove_optional_prefix(s) == IF HasPrefix(s) THEN Unprefixed(s) ELSE s

hex_u32_unchecked(s) == from_str_radix(s, HEX, U32)
hex_u128_unchecked(s) == from_str_radix(s, HEX, U128)

\* The last digits are the low word, what precedes them the high one.  The cut is one of
\* bytes: inside of a character it panics.
hex_u256_unchecked(s) ==
  LET cut == Len(s) - HexPerWord
      high == hex_u128_unchecked(SubSeq(s, 1, cut))
      low == hex_u128_unchecked(SubSeq(s, cut + 1, Len(s)))
  IN  CASE cut <= 0 -> hex_u128_unchecked(s)
        [] cut > 0 /\ s[cut] = WIDE -> <<Panic>>
        [] OTHER -> IF IsOk(high) /\ IsOk(low) THEN Ok(Value(<<high[2], low[2]>>)) ELSE <<Err>>

hex_u32(s) == hex_u32_unchecked(hex_remove_optional_prefix(s))
hex_u32_prefixed(s) == IF HasPrefix(s) THEN hex_u32_unchecked(Unprefixed(s)) ELSE <<Err>>
hex_u32_unprefixed(s) == IF HasPrefix(s) THEN <<Err>> ELSE hex_u32_unchecked(s)
from_hex(s) == IF HasPrefix(s) THEN hex_u256_unchecked(Unprefixed(s)) ELSE <<Err>>
from_unprefixed_hex(s) == IF HasPrefix(s) THEN <<Err>> ELSE hex_u256_unchecked(s)

\* serde, where a person reads: all the digits, and no prefix.
visit_str(s) == IF Len(s) # 2 * HexPerWord THEN <<Err>> ELSE from_unprefixed_hex(s)

-----------------------------------------------------------------------------
(* Decimal: chunks of a text from its end, the first one may be shorter.   *)

rchunks(s) ==
  LET count == (Len(s) + CHUNK - 1) \div CHUNK
      end(k) == Len(s) - CHUNK * (count - k)
  IN  [k \in 1 .. count |-> SubSeq(s, IF k = 1 THEN 1 ELSE end(k - 1) + 1, end(k))]

\* What has been read so far, and the next chunk.
WithChunk(result, chunk) ==
  LET val == from_str_radix(chunk, DEC, U128)
      raised == overflowing_mul(result[2], Split(DEC ^ CHUNK))
      res == overflowing_add(raised[1], Split(val[2]))
  IN  CASE ~IsOk(result) -> result
        [] ~IsUtf8(chunk) \/ ~IsOk(val) -> <<Err>>
        [] OTHER -> IF raised[2] \/ res[2] THEN <<Err>> ELSE Ok(res[1])

from_str(s) ==
  LET result == FoldLeft(WithChunk, Ok(ZERO), rchunks(s))
  IN  IF s = <<>> \/ ~IsOk(result) THEN <<Err>> ELSE Ok(Value(result[2]))

\* Digits from the last to the first, until nothing is left.
fmt_decimal(u) ==
  LET WithDigit(done, i) ==
        IF i > 1 /\ done.cur = ZERO THEN done
        ELSE LET divided == div_rem(done.cur, <<0, DEC>>)
             IN  [cur |-> divided[1], text |-> <<divided[2][2]>> \o done.text]
      end == FoldLeft(WithDigit, [cur |-> u, text |-> <<>>], [i \in 1 .. DIGITS |-> i])
  IN  IF end.cur = ZERO THEN end.text ELSE <<>>

Display(u) == IF u = ZERO THEN <<0>> ELSE fmt_decimal(u)

HexDigits(w) == [i \in 1 .. HexPerWord |-> (w \div HEX ^ (HexPerWord - i)) % HEX]
LowerHex(u) == HexDigits(u[1]) \o HexDigits(u[2])
LowerHexAlternate(u) == <<0, X>> \o LowerHex(u)

-----------------------------------------------------------------------------
textVars == <<number, numeral, format, reading>>

Formats == {"decimal", "hex", "alternate"}
Shown(u, f) ==
  CASE f = "decimal" -> Display(u)
    [] f = "hex" -> LowerHex(u)
    [] OTHER -> LowerHexAlternate(u)

Readers == {"from_str", "from_hex", "from_unprefixed_hex", "visit_str", "int", "hex_u32",
            "hex_u32_prefixed", "hex_u32_unprefixed"}
Read(reader, s) ==
  CASE reader = "from_str" -> from_str(s)
    [] reader = "from_hex" -> from_hex(s)
    [] reader = "from_unprefixed_hex" -> from_unprefixed_hex(s)
    [] reader = "visit_str" -> visit_str(s)
    [] reader = "int" -> int(s)
    [] reader = "hex_u32" -> hex_u32(s)
    [] reader = "hex_u32_prefixed" -> hex_u32_prefixed(s)
    [] OTHER -> hex_u32_unprefixed(s)

Radix(reader) == IF reader \in {"from_str", "int"} THEN DEC ELSE HEX
LimitOf(reader) ==
  IF reader \in {"from_str", "from_hex", "from_unprefixed_hex", "visit_str"} THEN AllU256 ELSE U32
ReadersOf(f) ==
  CASE f = "decimal" -> {"from_str", "int"}
    [] f = "hex" -> {"from_unprefixed_hex", "visit_str", "hex_u32", "hex_u32_unprefixed"}
    [] OTHER -> {"from_hex", "hex_u32", "hex_u32_prefixed"}

TextsInit ==
  /\ number \in {Value(u) : u \in U256s} \cup {NoNumber}
  /\ numeral = <<>> /\ format = None /\ reading = <<>>

Show ==
  /\ number # NoNumber /\ format = None
  /\ \E f \in Formats : format' = f /\ numeral' = Shown(Split(number), f)
  /\ UNCHANGED <<number, reading>>
Receive ==
  /\ number = NoNumber /\ format = None
  /\ format' = "received" /\ numeral' \in {s \in Numerals : IsUtf8(s)}
  /\ UNCHANGED <<number, reading>>
ReadText ==
  /\ format # None /\ reading = <<>>
  /\ \E reader \in Readers : reading' = <<reader>> \o Read(reader, numeral)
  /\ UNCHANGED <<number, numeral, format>>

TextsNext == Show \/ Receive \/ ReadText

-----------------------------------------------------------------------------
Outcome == Tail(reading)

\* A number that was shown is the number that is read, by every reader of its format that
\* can hold it: no digit is lost where the words, the chunks or the halves meet.
ShownIsRead ==
  reading # <<>> /\ format \in Formats /\ reading[1] \in ReadersOf(format) =>
    Outcome = (IF number < LimitOf(reading[1]) THEN Ok(number) ELSE <<Err>>)

\* A text without a sign is accepted exactly if it has digits only, after the prefix that
\* its reader wants, and what they denote fits; and then it is read as what they denote.
\* (A sign may stand before each piece that is read on its own, and a text outside ASCII
\* may be cut inside of a character.)
SpelledIsRead ==
  LET reader == reading[1]
      prefixed == HasPrefix(numeral)
      digits == hex_remove_optional_prefix(numeral)
      wellFormed ==
        CASE reader \in {"from_str", "int"} -> AreDigits(numeral, DEC)
          [] reader \in {"from_hex", "hex_u32_prefixed"} -> prefixed /\ AreDigits(digits, HEX)
          [] reader = "hex_u32" -> AreDigits(digits, HEX)
          [] reader = "visit_str" -> AreDigits(numeral, HEX) /\ Len(numeral) = 2 * HexPerWord
          [] OTHER -> AreDigits(numeral, HEX)
  IN  reading # <<>> /\ (\A i \in DOMAIN numeral : numeral[i] \notin {PLUS, WIDE}) =>
        Outcome = (IF wellFormed /\ Denoted(digits, Radix(reader)) < LimitOf(reader)
                   THEN Ok(Denoted(digits, Radix(reader))) ELSE <<Err>>)

=============================================================================
