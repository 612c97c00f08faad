------------------------------- MODULE Base58 -------------------------------
(***************************************************************************)
(* base58: bytes as text in 58 characters, with a checksum of four bytes.  *)
(* A character is its digit, 58 for a character that is none.  The bases   *)
(* and the sizes are the code's own: they are what the buffers are sized   *)
(* by.                                                                     *)
(***************************************************************************)
EXTENDS Integers, Sequences, SequencesExt

CONSTANTS
  SHORT_OPT_BUFFER_LEN,    \* 128: the text that is kept on the stack
  Hash(_),                 \* sha256d of bytes, its first four bytes
  Bytes,                   \* that data is made of
  Payloads,                \* data that is there from the start
  MaxData                  \* bound: the length that data grows to

VARIABLE data       \* a payload, and the digits of a text

NONE == 58
Ok(value) == <<"ok", value>>
Failure(name) == <<"err", name>>

\* One pass over little-endian digits: each is multiplied, and the carry goes to the next.
\* The digits and what is carried out of the last one.
RECURSIVE MulAdd(_, _, _, _)
MulAdd(digits, factor, base, carry) ==
  IF digits = <<>> THEN <<digits, carry>>
  ELSE IF Len(digits) = 1
    THEN LET sum == digits[1] * factor + carry IN <<<<sum % base>>, sum \div base>>
  ELSE LET half == Len(digits) \div 2
           low == MulAdd(SubSeq(digits, 1, half), factor, base, carry)
           high == MulAdd(SubSeq(digits, half + 1, Len(digits)), factor, base, low[2])
       IN  <<low[1] \o high[1], high[2]>>

\* What is carried out of a number that may grow: new digits.
RECURSIVE CarryOut(_, _)
CarryOut(carry, base) ==
  IF carry = 0 THEN <<>> ELSE <<carry % base>> \o CarryOut(carry \div base, base)
Grow(digits, factor, base, carry) ==
  LET pass == MulAdd(digits, factor, base, carry) IN pass[1] \o CarryOut(pass[2], base)

LeadingZeros(s) ==
  LET more == {k \in DOMAIN s : s[k] # 0}
  IN  IF more = {} THEN Len(s) ELSE (CHOOSE k \in more : \A j \in more : k <= j) - 1
Zeros(n) == [k \in 1 .. n |-> 0]

\* encode_to_buffer: byte after byte, which go[2] are, into the digits go[1].  A buffer that
\* is full fails.
RECURSIVE MoreDigits(_)
MoreDigits(go) ==
  LET half == Len(go[2]) \div 2
      first == SubSeq(go[2], 1, half)
      second == SubSeq(go[2], half + 1, Len(go[2]))
  IN  CASE go[2] = <<>> -> go[1]
        [] Len(go[2]) = 1 -> Grow(go[1], 256, 58, go[2][1])
        [] OTHER -> MoreDigits(<<MoreDigits(<<go[1], first>>), second>>)
encode_to_buffer(bytes, capacity) ==
  LET buf == MoreDigits(<<<<>>, bytes>>) \o Zeros(LeadingZeros(bytes))
  IN  IF Len(buf) > capacity THEN Failure("full") ELSE Ok(Reverse(buf))

\* encoded_reserve_len: log2(256) / log2(58) ~ 1.37.
encoded_reserve_len(unencoded_len) == (unencoded_len * 137) \div 100

\* Base58CkString::encode_unbounded: a text that is short enough has a buffer of fixed size.
encode_unbounded(bytes) ==
  LET reserve_len == encoded_reserve_len(Len(bytes) + 4)
  IN  encode_to_buffer(bytes \o Hash(bytes),
        IF reserve_len <= SHORT_OPT_BUFFER_LEN THEN SHORT_OPT_BUFFER_LEN ELSE 2 * Len(bytes) + 8)

\* The leading ones of a text are copied as zeros.
leading_zeroes(text) == Zeros(LeadingZeros(text))

\* decode: the value in base 256, in as many bytes as the text may need; a value that does
\* not fit fails an assertion.
RECURSIVE ToBytes(_, _)
ToBytes(text, scratch) ==
  IF text = <<>> THEN Ok(scratch)
  ELSE LET pass == MulAdd(scratch, 58, 256, Head(text))
       IN  IF pass[2] > 0 THEN Failure("panic") ELSE ToBytes(Tail(text), pass[1])
decode(text) ==
  LET scratch == ToBytes(text, Zeros(1 + (Len(text) * 11) \div 15))
      bytes == Reverse(scratch[2])
  IN  IF \E k \in DOMAIN text : text[k] = NONE THEN Failure("character")
      ELSE IF scratch[1] = "err" THEN scratch
      ELSE Ok(leading_zeroes(text) \o SubSeq(bytes, LeadingZeros(bytes) + 1, Len(bytes)))

\* decode_check: the last four bytes are the checksum of the others.
decode_check(text) ==
  LET ret == decode(text)
      payload == SubSeq(ret[2], 1, Len(ret[2]) - 4)
  IN  IF ret[1] # "ok" THEN ret
      ELSE IF Len(ret[2]) < 4 THEN Failure("too short")
      ELSE IF SubSeq(ret[2], Len(payload) + 1, Len(ret[2])) # Hash(payload) THEN Failure("checksum")
      ELSE Ok(payload)

Base58Init == data \in Payloads
AppendByte(b) == Len(data) < MaxData /\ data' = Append(data, b)
Base58Next == \E b \in Bytes : AppendByte(b)

-----------------------------------------------------------------------------
\* Data comes back from its text, its leading zeros included; a text that is decoded is the
\* text of what it decodes to; and decode's assertion on its scratch space never fails.
Base58RoundTrips ==
  LET text == encode_unbounded(data)
      raw == encode_to_buffer(data, 2 * Len(data))
      digits == [k \in DOMAIN data |-> data[k] % 59]
      read == decode(digits)
  IN  /\ text[1] = "ok" => decode_check(text[2]) = Ok(data)
      /\ decode(raw[2]) = Ok(data)
      /\ read # Failure("panic")
      /\ read[1] = "ok" => encode_to_buffer(read[2], Len(digits)) = Ok(digits)
      /\ decode_check(digits)[1] = "ok" =>
           encode_unbounded(decode_check(digits)[2]) = Ok(digits)

\* encode_unbounded expects its buffer to hold the text: "encode_to_buffer is infallible
\* with well-sized ArrayVec buf".
BufferHoldsTheText == encode_unbounded(data)[1] = "ok"

=============================================================================
