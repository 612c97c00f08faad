------------------------------ MODULE Streams ------------------------------
(***************************************************************************)
(* What takes a message in pieces: the hash engines and their midstates,   *)
(* HMAC and HKDF (hashes), SipHash, Poly1305, the ChaCha20 keystream and    *)
(* the AEAD made of the two (chacha20_poly1305).                           *)
(*                                                                         *)
(* A byte of a message is <<b>>, a byte of a digest names the digest, a    *)
(* byte under the keystream carries the positions applied to it.  A        *)
(* compression function is free: a state is the list of the blocks that    *)
(* went into it.                                                           *)
(***************************************************************************)
EXTENDS Integers, Sequences, FiniteSets, TLC, SequencesExt

CONSTANTS
  BLOCK_SIZE,         \* of a hash: 64 of SHA256, with
  LENGTH_SIZE,        \* the 8 bytes of the length in its last block
  HASH_LEN,           \* bytes of a digest
  WORD,               \* of SipHash: 8
  TAG_BLOCK,          \* of Poly1305: 16
  CHACHA_BLOCKSIZE,   \* 64
  MAX_OUTPUT_BLOCKS,  \* of HKDF: 255, and its counter is a u8:
  U8_MAX,             \* 255
  Keys,               \* lengths of HMAC keys
  Chunks,             \* lengths of the pieces
  MaxMessage,         \* bound of the model: bytes fed to the engines
  MaxOffset           \* bound of the model: positions of the keystream

VARIABLES
  object,             \* which of the objects below is in use: they share nothing
  message,            \* every byte fed so far
  sha, sip, poly,     \* three engines
  mac,                \* an HmacEngine and its key
  cipher,             \* ChaCha20, and the position the next byte should meet
  okm,                \* what expand last answered
  sealed              \* an encrypted message under way

streamVars == <<object, message, sha, sip, poly, mac, cipher, okm, sealed>>

StreamsAssumption ==
  /\ {BLOCK_SIZE, LENGTH_SIZE, HASH_LEN, WORD, TAG_BLOCK, CHACHA_BLOCKSIZE,
      MAX_OUTPUT_BLOCKS, U8_MAX} \subseteq Nat \ {0}
  /\ LENGTH_SIZE < BLOCK_SIZE /\ HASH_LEN <= BLOCK_SIZE

Least(a, b) == IF a <= b THEN a ELSE b
Zero == <<0>>
Zeroes(n) == [i \in 1 .. n |-> Zero]
Drop(bytes, n) == SubSeq(bytes, n + 1, Len(bytes))
Cut(bytes, size) ==
  [k \in 1 .. Len(bytes) \div size |-> SubSeq(bytes, ((k - 1) * size) + 1, k * size)]

\* buffer[at .. at + bytes.len()].copy_from_slice(bytes)
Copy(buffer, at, bytes) ==
  [i \in 1 .. Len(buffer) |->
     IF at < i /\ i <= at + Len(bytes) THEN bytes[i - at] ELSE buffer[i]]

-----------------------------------------------------------------------------
(* A hash engine: h, a block that is not full, and the bytes hashed.       *)

engine == [h |-> <<>>, buffer |-> Zeroes(BLOCK_SIZE), bytes_hashed |-> 0]

incomplete_block_len(e) == e.bytes_hashed % BLOCK_SIZE

input(e, inp) ==
  LET at == incomplete_block_len(e)
      needed == BLOCK_SIZE - at
      filled == Copy(e.buffer, at, SubSeq(inp, 1, Least(needed, Len(inp))))
      rest == IF at > 0 THEN Drop(inp, needed) ELSE inp
      blocks == Cut(rest, BLOCK_SIZE)
      full == Len(blocks) * BLOCK_SIZE
  IN IF at + Len(inp) < BLOCK_SIZE
     THEN [e EXCEPT !.buffer = filled, !.bytes_hashed = @ + Len(inp)]
     ELSE [h |-> (IF at > 0 THEN Append(e.h, filled) ELSE e.h) \o blocks,
           buffer |-> Copy(IF at > 0 THEN filled ELSE e.buffer, 0, Drop(rest, full)),
           bytes_hashed |-> e.bytes_hashed + Len(inp)]

Mark == <<128>>
LengthBytes(n) == [i \in 1 .. LENGTH_SIZE |-> <<n, i>>]
Digest(blocks) == [i \in 1 .. HASH_LEN |-> <<blocks, i, "digest">>]

from_engine(e) ==
  LET at == incomplete_block_len(e)
      marked == Copy(Copy(e.buffer, at, <<Mark>>), at + 1, Zeroes(BLOCK_SIZE - at - 1))
      tight == at >= BLOCK_SIZE - LENGTH_SIZE
      last == Copy(IF tight THEN Zeroes(BLOCK_SIZE) ELSE marked,
                   BLOCK_SIZE - LENGTH_SIZE, LengthBytes(e.bytes_hashed))
  IN Digest((IF tight THEN Append(e.h, marked) ELSE e.h) \o <<last>>)

can_extract_midstate(e) == e.bytes_hashed % BLOCK_SIZE = 0
to_engine(e) == [e EXCEPT !.buffer = Zeroes(BLOCK_SIZE)]

\* FIPS 180: the message, a mark, the fewest zeroes, its length.
Fill(n) == CHOOSE z \in 0 .. BLOCK_SIZE - 1 : (n + 1 + z + LENGTH_SIZE) % BLOCK_SIZE = 0
HashOf(bytes) ==
  Digest(Cut(bytes \o <<Mark>> \o Zeroes(Fill(Len(bytes))) \o LengthBytes(Len(bytes)),
             BLOCK_SIZE))

-----------------------------------------------------------------------------
(* HMAC and HKDF.                                                          *)

\* A byte of the key under the byte of a pad.
Under(pad, b) == <<pad, b, "pad", 0>>
Padded(pad, bytes) ==
  [i \in 1 .. BLOCK_SIZE |-> Under(pad, IF i <= Len(bytes) THEN bytes[i] ELSE Zero)]

hmac_new(key) ==
  LET short == IF Len(key) > BLOCK_SIZE THEN from_engine(input(engine, key)) ELSE key
  IN [iengine |-> input(engine, Padded(54, short)),
      oengine |-> input(engine, Padded(92, short))]

hmac_finalize(m) == from_engine(input(m.oengine, from_engine(m.iengine)))

HmacOf(key, bytes) ==
  LET short == IF Len(key) > BLOCK_SIZE THEN HashOf(key) ELSE key
  IN HashOf(Padded(92, short) \o HashOf(Padded(54, short) \o bytes))

Info == <<<<7>>>>
prk == hmac_finalize(hmac_new(<<<<1>>>>))
Panic == [ok |-> FALSE, panic |-> TRUE, bytes |-> <<>>]
MaxLengthError == [ok |-> FALSE, panic |-> FALSE, bytes |-> <<>>]

\* The loop of expand with counter = 1, 2, ..., total_blocks; it leaves the loop with the
\* next value.  Above U8_MAX there is none: the addition panics, or the counter is 0 again
\* and the index of the block before underflows.
expand(length) ==
  LET total_blocks == (length + HASH_LEN - 1) \div HASH_LEN
      written[counter \in 0 .. total_blocks] ==
        IF counter = 0 THEN <<>>
        ELSE LET e == hmac_new(prk)
                 before == written[counter - 1]
                 previous == IF counter = 1 THEN <<>>
                             ELSE SubSeq(before, ((counter - 2) * HASH_LEN) + 1, Len(before))
                 t == hmac_finalize([e EXCEPT !.iengine =
                        input(input(input(@, previous), Info), <<<<counter>>>>)])
             IN before \o SubSeq(t, 1, Least(HASH_LEN, length - Len(before)))
  IN IF length > MAX_OUTPUT_BLOCKS * HASH_LEN THEN MaxLengthError
     ELSE IF total_blocks + 1 > U8_MAX THEN Panic
     ELSE [ok |-> TRUE, panic |-> FALSE, bytes |-> written[total_blocks]]

\* RFC 5869: T(i) = HMAC(prk, T(i - 1) | info | i), and as many bytes of T(1) | T(2) | ...
Okm(length) ==
  LET T[i \in 0 .. MAX_OUTPUT_BLOCKS] ==
        IF i = 0 THEN <<>> ELSE HmacOf(prk, T[i - 1] \o Info \o <<<<i>>>>)
      all[i \in 0 .. MAX_OUTPUT_BLOCKS] == IF i = 0 THEN <<>> ELSE all[i - 1] \o T[i]
  IN SubSeq(all[MAX_OUTPUT_BLOCKS], 1, length)

-----------------------------------------------------------------------------
(* SipHash: words, and a tail shorter than a word.                         *)

with_keys == [words |-> <<>>, tail |-> <<>>, bytes_hashed |-> 0]

sip_input(e, msg) ==
  LET needed == IF e.tail # <<>> THEN WORD - Len(e.tail) ELSE 0
      tail == e.tail \o SubSeq(msg, 1, Least(Len(msg), needed))
      len == Len(msg) - needed
      left == len % WORD
      \* while i < len - left, i += 8, from i = needed
      count == Cardinality({j \in 0 .. Len(msg) : needed + (j * WORD) < len - left})
      i == needed + (count * WORD)
      whole == [j \in 1 .. count |-> SubSeq(msg, needed + ((j - 1) * WORD) + 1,
                                            needed + (j * WORD))]
  IN IF e.tail # <<>> /\ Len(msg) < needed
     THEN [e EXCEPT !.tail = tail, !.bytes_hashed = @ + Len(msg)]
     ELSE [words |-> (IF e.tail # <<>> THEN Append(e.words, tail) ELSE e.words) \o whole,
           tail |-> SubSeq(msg, i + 1, i + left),
           bytes_hashed |-> e.bytes_hashed + Len(msg)]

LastWord(tail, n) == tail \o Zeroes(WORD - 1 - Len(tail)) \o <<<<n % 256>>>>
from_engine_to_u64(e) == Append(e.words, LastWord(e.tail, e.bytes_hashed))

SipOf(bytes) ==
  LET words == Cut(bytes, WORD)
  IN Append(words, LastWord(Drop(bytes, Len(words) * WORD), Len(bytes)))

-----------------------------------------------------------------------------
(* Poly1305: the blocks added to acc, each with the one appended to it,    *)
(* and leftovers, whose old bytes stay.                                    *)

poly_new == [acc |-> <<>>, leftovers |-> Zeroes(TAG_BLOCK), leftovers_len |-> 0]
WithOne(bytes) == Append(bytes, <<1>>)
WithOnes(blocks) == [k \in DOMAIN blocks |-> WithOne(blocks[k])]

poly_input(p, msg) ==
  LET fill == IF p.leftovers_len + Len(msg) >= TAG_BLOCK THEN TAG_BLOCK - p.leftovers_len
              ELSE 0
      filled == Copy(p.leftovers, p.leftovers_len, SubSeq(msg, 1, fill))
      remaining == Drop(msg, fill)
      blocks == Cut(remaining, TAG_BLOCK)
      start == IF fill > 0 THEN 0 ELSE p.leftovers_len
      extra == Drop(remaining, Len(blocks) * TAG_BLOCK)
  IN [acc |-> (IF fill > 0 THEN Append(p.acc, WithOne(filled)) ELSE p.acc) \o WithOnes(blocks),
      leftovers |-> Copy(filled, start, extra),
      leftovers_len |-> start + Len(extra)]

tag(p) ==
  IF p.leftovers_len > 0
  THEN Append(p.acc, WithOne(SubSeq(p.leftovers, 1, p.leftovers_len)))
  ELSE p.acc

PolyOf(bytes) ==
  LET blocks == Cut(bytes, TAG_BLOCK)
      extra == Drop(bytes, Len(blocks) * TAG_BLOCK)
  IN WithOnes(blocks) \o (IF extra = <<>> THEN <<>> ELSE <<WithOne(extra)>>)

-----------------------------------------------------------------------------
(* ChaCha20: the position of the keystream each byte of a buffer meets.    *)

seek(c, position) ==
  [c EXCEPT !.block_count = position \div CHACHA_BLOCKSIZE,
            !.seek_offset_bytes = position % CHACHA_BLOCKSIZE]

\* The block count is a u32: MaxOffset is far below its end.
apply_keystream(c, n) ==
  LET offset == c.seek_offset_bytes
      until_aligned == CHACHA_BLOCKSIZE - offset
      first == IF offset # 0 THEN Least(n, until_aligned) ELSE 0
      block == IF offset # 0 THEN c.block_count + 1 ELSE c.block_count
      rest == n - first
      over == rest % CHACHA_BLOCKSIZE
      met == [i \in 1 .. n |->
                IF i <= first THEN (c.block_count * CHACHA_BLOCKSIZE) + offset + i - 1
                ELSE (block * CHACHA_BLOCKSIZE) + i - first - 1]
  IN IF offset # 0 /\ first < until_aligned
     THEN [c EXCEPT !.seek_offset_bytes = @ + first, !.met = met]
     ELSE [c EXCEPT !.block_count = block + (rest \div CHACHA_BLOCKSIZE),
                    !.seek_offset_bytes = over, !.met = met]

\* XOR with the keystream: the second application of a position takes the first away.
Xor(bytes, met) ==
  [i \in DOMAIN bytes |-> IF Len(bytes[i]) = 2 /\ bytes[i][2] = met[i] THEN <<bytes[i][1]>>
                          ELSE Append(bytes[i], met[i])]
Crypt(content) ==
  Xor(content, apply_keystream([block_count |-> 1, seek_offset_bytes |-> 0, met |-> <<>>],
                               Len(content)).met)

-----------------------------------------------------------------------------
(* The AEAD: what Poly1305 is given, in five calls, and the two functions. *)

Alignment(bytes) ==
  IF Len(bytes) % TAG_BLOCK > 0 THEN Zeroes(TAG_BLOCK - (Len(bytes) % TAG_BLOCK)) ELSE <<>>
encode_lengths(aad, content) ==
  [i \in 1 .. TAG_BLOCK |-> IF i = 1 THEN <<Len(aad), Len(content), "lengths", 0>> ELSE Zero]

Authenticate(aad, content) ==
  tag(FoldLeft(poly_input, poly_new,
               <<aad, Alignment(aad), content, Alignment(content),
                 encode_lengths(aad, content)>>))

encrypt(content, aad) ==
  LET text == Crypt(content) IN [content |-> text, aad |-> aad, tag |-> Authenticate(aad, text)]

decrypt(box) ==
  IF Authenticate(box.aad, box.content) = box.tag
  THEN [ok |-> TRUE, content |-> Crypt(box.content)]
  ELSE [ok |-> FALSE, content |-> box.content]

-----------------------------------------------------------------------------
KeyOf(n) == [i \in 1 .. n |-> <<100 + i>>]
Boxes == UNION {[1 .. n -> {<<0>>, <<1>>}] : n \in 0 .. TAG_BLOCK}
NoBox == [step |-> "none"]

StreamsInit ==
  /\ object \in {"engines", "cipher", "hkdf", "aead"}
  /\ message = <<>>
  /\ sha = engine /\ sip = with_keys /\ poly = poly_new
  /\ \E n \in IF object = "engines" THEN Keys ELSE {0} :
       mac = [key |-> KeyOf(n), engines |-> hmac_new(KeyOf(n))]
  /\ cipher = [at |-> 0, stream |-> [block_count |-> 0, seek_offset_bytes |-> 0, met |-> <<>>]]
  /\ okm = MaxLengthError @@ [length |-> (MAX_OUTPUT_BLOCKS * HASH_LEN) + 1]
  /\ sealed = NoBox

\* Another piece of the message, to every engine.
Input ==
  \E n \in Chunks :
    /\ Len(message) + n <= MaxMessage
    /\ LET piece == [i \in 1 .. n |-> <<Len(message) + i>>]
       IN /\ message' = message \o piece
          /\ sha' = input(sha, piece)
          /\ sip' = sip_input(sip, piece)
          /\ poly' = poly_input(poly, piece)
          /\ mac' = [mac EXCEPT !.engines.iengine = input(@, piece)]
    /\ UNCHANGED <<object, cipher, okm, sealed>>

\* The midstate is kept, and the engine made from it goes on.
Midstate ==
  /\ can_extract_midstate(sha)
  /\ sha' = to_engine(sha)
  /\ UNCHANGED <<object, message, sip, poly, mac, cipher, okm, sealed>>

ApplyKeystream ==
  \E n \in Chunks \cup {0} :
    /\ cipher.at + n <= MaxOffset
    /\ cipher' = [at |-> cipher.at + n, stream |-> apply_keystream(cipher.stream, n)]
    /\ UNCHANGED <<object, message, sha, sip, poly, mac, okm, sealed>>

Seek ==
  \E p \in 0 .. MaxOffset :
    /\ cipher' = [at |-> p, stream |-> [seek(cipher.stream, p) EXCEPT !.met = <<>>]]
    /\ UNCHANGED <<object, message, sha, sip, poly, mac, okm, sealed>>

Expand ==
  \E length \in 0 .. (MAX_OUTPUT_BLOCKS * HASH_LEN) + 1 :
    /\ okm' = expand(length) @@ [length |-> length]
    /\ UNCHANGED <<object, message, sha, sip, poly, mac, cipher, sealed>>

Encrypt ==
  /\ sealed = NoBox
  /\ \E content, aad \in Boxes :
       sealed' = [step |-> "sent", plain |-> content, aad |-> aad, box |-> encrypt(content, aad)]
  /\ UNCHANGED <<object, message, sha, sip, poly, mac, cipher, okm>>

\* On its way a byte flips, or a byte moves over the border between the two parts.
Damage ==
  /\ sealed.step = "sent" /\ sealed.box = encrypt(sealed.plain, sealed.aad)
  /\ LET text == sealed.box.content
         aad == sealed.box.aad
     IN \/ \E i \in DOMAIN text :
             sealed' = [sealed EXCEPT !.box.content[i] = <<1 - @[1], @[2]>>]
        \/ /\ text # <<>>
           /\ sealed' = [sealed EXCEPT !.box.content = Tail(text),
                                       !.box.aad = Append(aad, Head(text))]
        \/ /\ aad # <<>> /\ sealed' = [sealed EXCEPT !.box.aad = Front(aad)]
        \/ sealed' = [sealed EXCEPT !.box.content = Append(text, Zero)]
  /\ UNCHANGED <<object, message, sha, sip, poly, mac, cipher, okm>>

Decrypt ==
  /\ sealed.step = "sent"
  /\ sealed' = [step |-> "opened", plain |-> sealed.plain, box |-> sealed.box,
                sent |-> encrypt(sealed.plain, sealed.aad), opened |-> decrypt(sealed.box)]
  /\ UNCHANGED <<object, message, sha, sip, poly, mac, cipher, okm>>

StreamsNext ==
  \/ object = "engines" /\ (Input \/ Midstate)
  \/ object = "cipher" /\ (ApplyKeystream \/ Seek)
  \/ object = "hkdf" /\ Expand
  \/ object = "aead" /\ (Encrypt \/ Damage \/ Decrypt)

-----------------------------------------------------------------------------
\* In however many pieces a message came, with midstates taken in between, the SHA engine,
\* SipHash, Poly1305 and HMAC answer what their definitions say of the message in one piece,
\* whatever the buffers still hold of earlier pieces.
PiecesAreInvisible ==
  /\ from_engine(sha) = HashOf(message)
  /\ from_engine_to_u64(sip) = SipOf(message)
  /\ tag(poly) = PolyOf(message)
  /\ hmac_finalize(mac.engines) = HmacOf(mac.key, message)

\* ChaCha20::apply_keystream: the bytes of successive buffers meet successive positions of
\* the keystream, from the position last sought, whatever the buffers' lengths.
KeystreamIsContinuous ==
  LET n == Len(cipher.stream.met)
  IN \A i \in 1 .. n : cipher.stream.met[i] = cipher.at - n + i - 1

\* Hkdf::expand answers RFC 5869's bytes for every length it accepts short of the last
\* block, and an error for one above the maximum.
ExpandIsRfc5869 ==
  /\ okm.length <= (MAX_OUTPUT_BLOCKS - 1) * HASH_LEN => okm.ok /\ okm.bytes = Okm(okm.length)
  /\ okm.length > MAX_OUTPUT_BLOCKS * HASH_LEN => ~okm.ok /\ ~okm.panic

\* ChaCha20Poly1305::decrypt gives the plaintext of exactly what was sent; of anything else
\* it is an error and leaves the content as it came.
OpenedIsSealed ==
  sealed.step = "opened" =>
    IF sealed.box = sealed.sent
    THEN sealed.opened = [ok |-> TRUE, content |-> sealed.plain]
    ELSE sealed.opened = [ok |-> FALSE, content |-> sealed.box.content]

StreamsAreWhole ==
  PiecesAreInvisible /\ KeystreamIsContinuous /\ ExpandIsRfc5869 /\ OpenedIsSealed

\* The documentation of Hkdf::expand: it errors only if the requested length exceeds
\* 255 * hash output length; so every length up to there is answered.
ExpandsToTheMaximum ==
  okm.length <= MAX_OUTPUT_BLOCKS * HASH_LEN => okm.ok

=============================================================================
