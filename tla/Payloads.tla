------------------------------ MODULE Payloads ------------------------------
(***************************************************************************)
(* The payloads of p2p messages field by field, and the transactions,      *)
(* headers and numbers they are made of: what encoder() of every type puts *)
(* on the wire, and what the decoder of the type, which is written down    *)
(* apart from it, makes of those bytes.  A node sends a payload, which may *)
(* be damaged on the way, and whoever can read it passes it on.            *)
(*                                                                         *)
(* Bytes are bytes.  A number is its bytes, the most significant first;    *)
(* arrays but hashes have their real length.                               *)
(***************************************************************************)
EXTENDS Naturals, Sequences, FiniteSets, TLC, SequencesExt

CONSTANTS
  HASH_LEN,      \* bytes of a hash
  U16_MAX,       \* largest index of a transaction in a compact block
  MaxPassed      \* bound: nodes a payload reaches

PayloadsAssumption == HASH_LEN \in 2 .. 32 /\ U16_MAX \in 1 .. 65535 /\ MaxPassed \in Nat

VARIABLES
  cmd,           \* what the payload is
  held,          \* the payload as the node at hand has it, or Nothing
  posted,        \* its bytes on the way to the next node, or Nothing
  origin,        \* what was sent first, in which bytes, and the bytes that arrived
  passed         \* nodes that have received it

payloadVars == <<cmd, held, posted, origin, passed>>

Nothing == <<>>
Ok(value) == <<value>>

-----------------------------------------------------------------------------
(* Numbers. *)

MAX_MONEY == <<0, 7, 117, 240, 90, 7, 64, 0>>
MAX_COMPACT_SIZE == <<0, 0, 0, 0, 2, 0, 0, 0>>
MAX_VEC_SIZE == <<0, 0, 0, 0, 0, 61, 9, 0>>

to_le_bytes(n) == Reverse(n)

\* A number in eight bytes, if it is less than 2 ^ 31.
U64(n) == <<0, 0, 0, 0, n \div 16777216, (n \div 65536) % 256, (n \div 256) % 256, n % 256>>

LessThan(a, b) == \E i \in DOMAIN a : a[i] < b[i] /\ \A j \in 1 .. i - 1 : a[j] = b[j]

\* a + b, where c[i] is carried out of the bytes from i on.
Plus(a, b) ==
  LET c[i \in 1 .. 9] == IF i = 9 THEN 0 ELSE (a[i] + b[i] + c[i + 1]) \div 256
  IN  [i \in 1 .. 8 |-> (a[i] + b[i] + c[i + 1]) % 256]

Times1000(a) ==
  LET c[i \in 1 .. 9] == IF i = 9 THEN 0 ELSE (a[i] * 1000 + c[i + 1]) \div 256
  IN  [i \in 1 .. 8 |-> (a[i] * 1000 + c[i + 1]) % 256]

\* FeeRate::to_sat_per_kvb_ceil: long division, where r[i] is left of the first i bytes.
DivCeil1000(a) ==
  LET r[i \in 0 .. 8] == IF i = 0 THEN 0 ELSE (r[i - 1] * 256 + a[i]) % 1000
      floor == [i \in 1 .. 8 |-> (r[i - 1] * 256 + a[i]) \div 1000]
  IN  IF r[8] = 0 THEN floor ELSE Plus(floor, U64(1))

-----------------------------------------------------------------------------
(* What encoders are made of. *)

CompactSize(n) ==
  LET low(k) == to_le_bytes(SubSeq(n, 9 - k, 8))
      fits(k) == \A i \in 1 .. 8 - k : n[i] = 0
  IN  IF fits(1) /\ n[8] < 253 THEN low(1)
      ELSE IF fits(2) THEN <<253>> \o low(2)
      ELSE IF fits(4) THEN <<254>> \o low(4)
      ELSE <<255>> \o low(8)

PrefixedBytes(bytes) == CompactSize(U64(Len(bytes))) \o bytes
PrefixedSlice(items) == CompactSize(U64(Len(items))) \o FlattenSeq(items)
Byte(flag) == <<IF flag THEN 1 ELSE 0>>

-----------------------------------------------------------------------------
(* What decoders are made of.  InOrder is Decoder2 to Decoder6 with the fields their values *)
(* become, Mapped a decoder with what end() makes of its value, which is found by its name. *)

ArrayDecoder(n) == [kind |-> "array", len |-> n]
LeDecoder(n) == [kind |-> "le", len |-> n]
CompactSizeDecoder == [kind |-> "size"]
CompactSizeU64Decoder == [kind |-> "size64"]
ByteVecDecoder == [kind |-> "bytes"]
VecDecoder(item) == [kind |-> "vec", item |-> item]
InOrder(fields) == [kind |-> "struct", fields |-> fields]
Mapped(name, inner) == [kind |-> "mapped", name |-> name, inner |-> inner]
F(name, decoder) == [name |-> name, decoder |-> decoder]

-----------------------------------------------------------------------------
(* units: heights, times, targets, lock times, sequence numbers, amounts. *)

BlockHeightEncoder(h) == to_le_bytes(h)
BlockHeightDecoder == LeDecoder(4)
BlockTimeEncoder(t) == to_le_bytes(t)
BlockTimeDecoder == LeDecoder(4)
CompactTargetEncoder(bits) == to_le_bytes(bits)
CompactTargetDecoder == LeDecoder(4)
LockTimeEncoder(n) == to_le_bytes(n)
LockTimeDecoder == LeDecoder(4)
SequenceEncoder(n) == to_le_bytes(n)
SequenceDecoder == LeDecoder(4)
AmountEncoder(sat) == to_le_bytes(sat)
AmountDecoder == Mapped("Amount", LeDecoder(8))
AmountEnd(sat) == IF LessThan(MAX_MONEY, sat) THEN Nothing ELSE Ok(sat)

(* primitives: hashes, scripts, witnesses, transactions, blocks. *)

BlockHashEncoder(hash) == hash
BlockHashDecoder == ArrayDecoder(HASH_LEN)
TxMerkleNodeEncoder(hash) == hash
TxMerkleNodeDecoder == ArrayDecoder(HASH_LEN)
ScriptEncoder(script) == PrefixedBytes(script)
ScriptBufDecoder == ByteVecDecoder
WitnessEncoder(witness) == PrefixedSlice([i \in DOMAIN witness |-> PrefixedBytes(witness[i])])
WitnessDecoder == VecDecoder(ByteVecDecoder)

OutPointEncoder(o) == o.txid \o to_le_bytes(o.vout)
OutPointDecoder == InOrder(<<F("txid", ArrayDecoder(HASH_LEN)), F("vout", LeDecoder(4))>>)
COINBASE_PREVOUT ==
  [txid |-> [i \in 1 .. HASH_LEN |-> 0], vout |-> [i \in 1 .. 4 |-> 255]]

TxInEncoder(i) ==
  OutPointEncoder(i.previous_output) \o ScriptEncoder(i.script_sig) \o SequenceEncoder(i.sequence)
TxInDecoder ==
  Mapped("TxIn", InOrder(<<F("previous_output", OutPointDecoder), F("script_sig", ScriptBufDecoder),
                           F("sequence", SequenceDecoder)>>))
TxInEnd(i) == Ok([witness |-> <<>>] @@ i)

TxOutEncoder(o) == AmountEncoder(o.amount) \o ScriptEncoder(o.script_pubkey)
TxOutDecoder == InOrder(<<F("amount", AmountDecoder), F("script_pubkey", ScriptBufDecoder)>>)

TxVersionEncoder(v) == to_le_bytes(v)
TxVersionDecoder == LeDecoder(4)
SEGWIT_MARKER == 0
SEGWIT_FLAG == 1

uses_segwit_serialization(tx) ==
  (\E i \in DOMAIN tx.inputs : tx.inputs[i].witness # <<>>) \/ tx.inputs = <<>>

TransactionEncoder(tx) ==
  LET segwit == uses_segwit_serialization(tx)
  IN  TxVersionEncoder(tx.version)
        \o (IF segwit THEN <<SEGWIT_MARKER, SEGWIT_FLAG>> ELSE <<>>)
        \o PrefixedSlice([i \in DOMAIN tx.inputs |-> TxInEncoder(tx.inputs[i])])
        \o PrefixedSlice([i \in DOMAIN tx.outputs |-> TxOutEncoder(tx.outputs[i])])
        \o (IF segwit THEN FlattenSeq([i \in DOMAIN tx.inputs |-> WitnessEncoder(tx.inputs[i].witness)])
            ELSE <<>>)
        \o LockTimeEncoder(tx.lock_time)
TransactionDecoder == Mapped("Transaction", [kind |-> "transaction"])

\* What a transaction is identified by: the fields, hashed by hand.
hash_transaction(tx, segwit) ==
  LET size(list) == CompactSize(U64(Len(list)))
      input(i) == i.previous_output.txid \o to_le_bytes(i.previous_output.vout)
                    \o size(i.script_sig) \o i.script_sig \o to_le_bytes(i.sequence)
      output(o) == to_le_bytes(o.amount) \o size(o.script_pubkey) \o o.script_pubkey
      stack(w) == size(w) \o FlattenSeq([k \in DOMAIN w |-> size(w[k]) \o w[k]])
  IN  to_le_bytes(tx.version)
        \o (IF segwit THEN <<SEGWIT_MARKER, SEGWIT_FLAG>> ELSE <<>>)
        \o size(tx.inputs) \o FlattenSeq([i \in DOMAIN tx.inputs |-> input(tx.inputs[i])])
        \o size(tx.outputs) \o FlattenSeq([i \in DOMAIN tx.outputs |-> output(tx.outputs[i])])
        \o (IF segwit THEN FlattenSeq([i \in DOMAIN tx.inputs |-> stack(tx.inputs[i].witness)])
            ELSE <<>>)
        \o to_le_bytes(tx.lock_time)
compute_txid(tx) == hash_transaction(tx, FALSE)
compute_wtxid(tx) == hash_transaction(tx, uses_segwit_serialization(tx))

\* What the decoder refuses when all fields were read.
TransactionEnd(tx) ==
  LET n == Len(tx.inputs)
      outpoint(i) == tx.inputs[i].previous_output
      total[k \in 0 .. Len(tx.outputs)] ==
        IF k = 0 THEN U64(0) ELSE Plus(total[k - 1], tx.outputs[k].amount)
  IN  IF /\ tx.outputs # <<>>
         /\ n > 1 => \A i \in 1 .. n : outpoint(i) # COINBASE_PREVOUT
         /\ n = 1 /\ outpoint(1) = COINBASE_PREVOUT => Len(tx.inputs[1].script_sig) \in 2 .. 100
         /\ \A i, j \in 1 .. n : i # j => outpoint(i) # outpoint(j)
         /\ ~LessThan(MAX_MONEY, total[Len(tx.outputs)])
      THEN Ok(tx) ELSE Nothing

BlockVersionEncoder(v) == to_le_bytes(v)
BlockVersionDecoder == LeDecoder(4)

HeaderEncoder(h) ==
  BlockVersionEncoder(h.version) \o BlockHashEncoder(h.prev_blockhash)
    \o TxMerkleNodeEncoder(h.merkle_root) \o BlockTimeEncoder(h.time)
    \o CompactTargetEncoder(h.bits) \o to_le_bytes(h.nonce)
HeaderDecoder ==
  InOrder(<<F("version", BlockVersionDecoder), F("prev_blockhash", BlockHashDecoder),
            F("merkle_root", TxMerkleNodeDecoder), F("time", BlockTimeDecoder),
            F("bits", CompactTargetDecoder), F("nonce", LeDecoder(4))>>)

\* A hash of two bytes that every change of one byte changes.
block_hash(h) ==
  LET bytes == HeaderEncoder(h)
      sum == FoldLeftDomain(LAMBDA s, i : s + (2 * i + 1) * bytes[i], 0, bytes)
  IN  [i \in 1 .. HASH_LEN |-> IF i = 1 THEN sum % 256 ELSE IF i = 2 THEN (sum \div 256) % 256 ELSE 0]

BlockEncoder(b) ==
  HeaderEncoder(b.header)
    \o PrefixedSlice([i \in DOMAIN b.transactions |-> TransactionEncoder(b.transactions[i])])
BlockDecoder ==
  InOrder(<<F("header", HeaderDecoder), F("transactions", VecDecoder(TransactionDecoder))>>)

-----------------------------------------------------------------------------
(* p2p: versions, services, magics, headers of messages. *)

ProtocolVersionEncoder(v) == to_le_bytes(v)
ProtocolVersionDecoder == LeDecoder(4)
ServiceFlagsEncoder(flags) == to_le_bytes(flags)
ServiceFlagsDecoder == LeDecoder(8)
MagicEncoder(magic) == magic
MagicDecoder == ArrayDecoder(4)

CommandStringEncoder(s) == s
CommandStringDecoder == Mapped("CommandString", ArrayDecoder(12))
\* A null before a byte that is none.
contains_interior_null(s) == \E i, j \in DOMAIN s : i < j /\ s[i] = 0 /\ s[j] # 0
CommandStringEnd(s) ==
  IF (\E i \in DOMAIN s : s[i] > 127) \/ contains_interior_null(s) THEN Nothing ELSE Ok(s)

V1MessageHeaderEncoder(h) ==
  MagicEncoder(h.magic) \o CommandStringEncoder(h.command) \o to_le_bytes(h.length) \o h.checksum
V1MessageHeaderDecoder ==
  InOrder(<<F("magic", ArrayDecoder(4)), F("command", CommandStringDecoder),
            F("length", LeDecoder(4)), F("checksum", ArrayDecoder(4))>>)

(* address.rs *)

\* The eight segments of an address are two bytes each.
AddressEncoder(a) == ServiceFlagsEncoder(a.services) \o FlattenSeq(a.address) \o a.port
AddressDecoder ==
  Mapped("Address", InOrder(<<F("services", ServiceFlagsDecoder), F("address", ArrayDecoder(16)),
                              F("port", ArrayDecoder(2))>>))
address_from_u8(s) == [i \in 1 .. 8 |-> <<s[2 * i - 1], s[2 * i]>>]
AddressEnd(a) == Ok([a EXCEPT !.address = address_from_u8(a.address)])

AddrV1MessageEncoder(m) == to_le_bytes(m.time) \o AddressEncoder(m.address)
AddrV1MessageDecoder == InOrder(<<F("time", LeDecoder(4)), F("address", AddressDecoder)>>)

AddrV2Encoder(a) ==
  (CASE a.network = "Ipv4" -> <<1>> [] a.network = "Ipv6" -> <<2>> [] a.network = "TorV3" -> <<4>>
     [] a.network = "I2p" -> <<5>> [] a.network = "Cjdns" -> <<6>> [] OTHER -> a.id)
  \o PrefixedBytes(a.bytes)
AddrV2Decoder ==
  Mapped("AddrV2", InOrder(<<F("id", ArrayDecoder(1)), F("bytes", ByteVecDecoder)>>))
ONION == <<253, 135, 216, 126, 235, 67>>
IPV4_EMBEDDED_IPV6 == <<0, 0, 0, 0, 0, 0, 0, 0, 0, 0, 255, 255>>
AddrV2(network, id, bytes) == [network |-> network, id |-> id, bytes |-> bytes]
AddrV2End(a) ==
  LET b == a.bytes
      known(network, len, wrong) ==
        IF Len(b) # len \/ wrong THEN Nothing ELSE Ok(AddrV2(network, <<>>, b))
  IN  IF Len(b) > 512 THEN Nothing
      ELSE CASE a.id = <<1>> -> known("Ipv4", 4, FALSE)
             [] a.id = <<2>> -> known("Ipv6", 16, IsPrefix(ONION, b) \/ IsPrefix(IPV4_EMBEDDED_IPV6, b))
             [] a.id = <<4>> -> known("TorV3", 32, FALSE)
             [] a.id = <<5>> -> known("I2p", 32, FALSE)
             [] a.id = <<6>> -> known("Cjdns", 16, b = <<>> \/ b[1] # 252)
             [] OTHER -> Ok(AddrV2("Unknown", a.id, b))

AddrV2MessageEncoder(m) ==
  to_le_bytes(m.time) \o CompactSize(m.services) \o AddrV2Encoder(m.addr) \o m.port
AddrV2MessageDecoder ==
  InOrder(<<F("time", LeDecoder(4)), F("services", CompactSizeU64Decoder),
            F("addr", AddrV2Decoder), F("port", ArrayDecoder(2))>>)

(* message_network.rs.  The external String::from_utf8 sees bytes below 128, which are  *)
(* texts, and bytes from 245 on, which no text has.                                     *)

IsUtf8(bytes) == \A i \in DOMAIN bytes : bytes[i] < 245

UserAgentEncoder(agent) == PrefixedBytes(agent)
UserAgentDecoder == Mapped("UserAgent", ByteVecDecoder)
UserAgentEnd(agent) == IF IsUtf8(agent) THEN Ok(agent) ELSE Nothing

VersionMessageEncoder(m) ==
  ProtocolVersionEncoder(m.version) \o ServiceFlagsEncoder(m.services) \o to_le_bytes(m.timestamp)
    \o AddressEncoder(m.receiver) \o AddressEncoder(m.sender) \o to_le_bytes(m.nonce)
    \o UserAgentEncoder(m.user_agent) \o to_le_bytes(m.start_height) \o Byte(m.relay)
VersionMessageDecoder ==
  Mapped("VersionMessage",
    InOrder(<<F("version", ProtocolVersionDecoder), F("services", ServiceFlagsDecoder),
              F("timestamp", LeDecoder(8)), F("receiver", AddressDecoder),
              F("sender", AddressDecoder), F("nonce", LeDecoder(8)),
              F("user_agent", UserAgentDecoder), F("start_height", LeDecoder(4)),
              F("relay", ArrayDecoder(1))>>))
VersionMessageEnd(m) == Ok([m EXCEPT !.relay = m.relay # <<0>>])

RejectReasonEncoder(reason) ==
  <<CASE reason = "Malformed" -> 1 [] reason = "Invalid" -> 16 [] reason = "Obsolete" -> 17
      [] reason = "Duplicate" -> 18 [] reason = "NonStandard" -> 64 [] reason = "Dust" -> 65
      [] reason = "Fee" -> 66 [] reason = "Checkpoint" -> 67>>
RejectReasonDecoder == Mapped("RejectReason", ArrayDecoder(1))
RejectReasonEnd(code) ==
  CASE code = <<1>> -> Ok("Malformed") [] code = <<16>> -> Ok("Invalid")
    [] code = <<17>> -> Ok("Obsolete") [] code = <<18>> -> Ok("Duplicate")
    [] code = <<64>> -> Ok("NonStandard") [] code = <<65>> -> Ok("Dust")
    [] code = <<66>> -> Ok("Fee") [] code = <<67>> -> Ok("Checkpoint") [] OTHER -> Nothing

RejectEncoder(m) ==
  PrefixedBytes(m.message) \o RejectReasonEncoder(m.ccode) \o PrefixedBytes(m.reason) \o m.hash
RejectDecoder ==
  Mapped("Reject", InOrder(<<F("message", ByteVecDecoder), F("ccode", RejectReasonDecoder),
                             F("reason", ByteVecDecoder), F("hash", ArrayDecoder(HASH_LEN))>>))
RejectEnd(m) == IF IsUtf8(m.message) /\ IsUtf8(m.reason) THEN Ok(m) ELSE Nothing

AlertEncoder(bytes) == PrefixedBytes(bytes)
AlertDecoder == ByteVecDecoder

(* message_blockdata.rs *)

InventoryEncoder(i) ==
  to_le_bytes(CASE i.kind = "Error" -> <<0, 0, 0, 0>>
                [] i.kind = "Transaction" -> <<0, 0, 0, 1>>
                [] i.kind = "Block" -> <<0, 0, 0, 2>>
                [] i.kind = "CompactBlock" -> <<0, 0, 0, 4>>
                [] i.kind = "WTx" -> <<0, 0, 0, 5>>
                [] i.kind = "WitnessTransaction" -> <<64, 0, 0, 1>>
                [] i.kind = "WitnessBlock" -> <<64, 0, 0, 2>>
                [] OTHER -> i.inv_type)
  \o i.hash
InventoryDecoder ==
  Mapped("Inventory", InOrder(<<F("inv_type", LeDecoder(4)), F("hash", ArrayDecoder(HASH_LEN))>>))
Inventory(kind, inv_type, hash) == [kind |-> kind, inv_type |-> inv_type, hash |-> hash]
InventoryEnd(i) ==
  LET tag == i.inv_type
      known(kind) == Inventory(kind, <<>>, i.hash)
  IN  Ok(CASE tag = <<0, 0, 0, 0>> -> known("Error")
           [] tag = <<0, 0, 0, 1>> -> known("Transaction")
           [] tag = <<0, 0, 0, 2>> -> known("Block")
           [] tag = <<0, 0, 0, 4>> -> known("CompactBlock")
           [] tag = <<0, 0, 0, 5>> -> known("WTx")
           [] tag = <<64, 0, 0, 1>> -> known("WitnessTransaction")
           [] tag = <<64, 0, 0, 2>> -> known("WitnessBlock")
           [] OTHER -> Inventory("Unknown", tag, i.hash))

MAX_LOCATOR_HASHES == 101

saturating_sub(a, b) == IF a < b THEN 0 ELSE a - b

\* BlockLocator::build: the heights it asks for, step[k] below the k-th.
LocatorHeights(tip) ==
  LET step[k \in 1 .. MAX_LOCATOR_HASHES] == IF k <= 11 THEN 1 ELSE 2 * step[k - 1]
      height[k \in 1 .. MAX_LOCATOR_HASHES] ==
        IF k = 1 THEN tip ELSE saturating_sub(height[k - 1], step[k - 1])
      last == CHOOSE k \in 1 .. MAX_LOCATOR_HASHES :
                /\ height[k] = 0 \/ k = MAX_LOCATOR_HASHES
                /\ \A j \in 1 .. k - 1 : height[j] # 0
  IN  [k \in 1 .. last |-> height[k]]

\* What get_ancestor answers on the chain of the caller.
get_ancestor(height) ==
  [i \in 1 .. HASH_LEN |-> IF i = 1 THEN height \div 256 ELSE IF i = 2 THEN height % 256 ELSE 0]
BlockLocator(tip) ==
  LET heights == LocatorHeights(tip) IN [i \in DOMAIN heights |-> get_ancestor(heights[i])]

BlockLocatorEncoder(hashes) == PrefixedSlice(hashes)
BlockLocatorDecoder == VecDecoder(BlockHashDecoder)
GetBlocksOrHeadersEncoder(m) ==
  ProtocolVersionEncoder(m.version) \o BlockLocatorEncoder(m.locator_hashes)
    \o BlockHashEncoder(m.stop_hash)
GetBlocksOrHeadersDecoder ==
  InOrder(<<F("version", ProtocolVersionDecoder), F("locator_hashes", BlockLocatorDecoder),
            F("stop_hash", BlockHashDecoder)>>)

(* message_bloom.rs *)

BloomFlagsEncoder(flags) ==
  <<CASE flags = "None" -> 0 [] flags = "All" -> 1 [] flags = "PubkeyOnly" -> 2>>
BloomFlagsDecoder == Mapped("BloomFlags", ArrayDecoder(1))
BloomFlagsEnd(flag) ==
  CASE flag = <<0>> -> Ok("None") [] flag = <<1>> -> Ok("All") [] flag = <<2>> -> Ok("PubkeyOnly")
    [] OTHER -> Nothing

FilterLoadEncoder(m) ==
  PrefixedBytes(m.filter) \o to_le_bytes(m.hash_funcs) \o to_le_bytes(m.tweak)
    \o BloomFlagsEncoder(m.flags)
FilterLoadDecoder ==
  InOrder(<<F("filter", ByteVecDecoder), F("hash_funcs", LeDecoder(4)), F("tweak", LeDecoder(4)),
            F("flags", BloomFlagsDecoder)>>)
FilterAddEncoder(m) == PrefixedBytes(m.data)
FilterAddDecoder == InOrder(<<F("data", ByteVecDecoder)>>)

(* message_filter.rs *)

FilterHashEncoder(hash) == hash
FilterHashDecoder == ArrayDecoder(HASH_LEN)
FilterHeaderEncoder(hash) == hash
FilterHeaderDecoder == ArrayDecoder(HASH_LEN)

GetCFiltersEncoder(m) ==
  m.filter_type \o BlockHeightEncoder(m.start_height) \o BlockHashEncoder(m.stop_hash)
GetCFiltersDecoder ==
  InOrder(<<F("filter_type", LeDecoder(1)), F("start_height", BlockHeightDecoder),
            F("stop_hash", BlockHashDecoder)>>)
CFilterEncoder(m) == m.filter_type \o BlockHashEncoder(m.block_hash) \o PrefixedBytes(m.filter)
CFilterDecoder ==
  InOrder(<<F("filter_type", LeDecoder(1)), F("block_hash", BlockHashDecoder),
            F("filter", ByteVecDecoder)>>)
GetCFHeadersEncoder(m) ==
  m.filter_type \o BlockHeightEncoder(m.start_height) \o BlockHashEncoder(m.stop_hash)
GetCFHeadersDecoder ==
  InOrder(<<F("filter_type", LeDecoder(1)), F("start_height", BlockHeightDecoder),
            F("stop_hash", BlockHashDecoder)>>)
CFHeadersEncoder(m) ==
  m.filter_type \o BlockHashEncoder(m.stop_hash) \o FilterHeaderEncoder(m.previous_filter_header)
    \o PrefixedSlice([i \in DOMAIN m.filter_hashes |-> FilterHashEncoder(m.filter_hashes[i])])
CFHeadersDecoder ==
  InOrder(<<F("filter_type", LeDecoder(1)), F("stop_hash", BlockHashDecoder),
            F("previous_filter_header", FilterHeaderDecoder),
            F("filter_hashes", VecDecoder(FilterHashDecoder))>>)
GetCFCheckptEncoder(m) == m.filter_type \o BlockHashEncoder(m.stop_hash)
GetCFCheckptDecoder ==
  InOrder(<<F("filter_type", LeDecoder(1)), F("stop_hash", BlockHashDecoder)>>)
CFCheckptEncoder(m) ==
  m.filter_type \o BlockHashEncoder(m.stop_hash)
    \o PrefixedSlice([i \in DOMAIN m.filter_headers |-> FilterHeaderEncoder(m.filter_headers[i])])
CFCheckptDecoder ==
  InOrder(<<F("filter_type", LeDecoder(1)), F("stop_hash", BlockHashDecoder),
            F("filter_headers", VecDecoder(FilterHeaderDecoder))>>)

(* message_erlay.rs, message_compact_blocks.rs, bip152.rs *)

SendTxRcnClEncoder(m) == to_le_bytes(m.version) \o to_le_bytes(m.salt)
SendTxRcnClDecoder == InOrder(<<F("version", LeDecoder(4)), F("salt", LeDecoder(8))>>)

SendCmpctEncoder(m) == Byte(m.send_compact) \o to_le_bytes(m.version)
SendCmpctDecoder ==
  Mapped("SendCmpct", InOrder(<<F("send_compact", LeDecoder(1)), F("version", LeDecoder(8))>>))
SendCmpctEnd(m) == Ok([m EXCEPT !.send_compact = m.send_compact # <<0>>])

PrefilledTransactionEncoder(p) == CompactSize(p.idx) \o TransactionEncoder(p.tx)
PrefilledTransactionDecoder ==
  Mapped("PrefilledTransaction",
    InOrder(<<F("idx", CompactSizeDecoder), F("tx", TransactionDecoder)>>))
PrefilledTransactionEnd(p) == IF LessThan(U64(U16_MAX), p.idx) THEN Nothing ELSE Ok(p)

ShortIdEncoder(id) == id
ShortIdDecoder == ArrayDecoder(6)

HeaderAndShortIdsEncoder(m) ==
  LET tx(i) == PrefilledTransactionEncoder(m.prefilled_txs[i])
  IN  HeaderEncoder(m.header) \o to_le_bytes(m.nonce)
        \o PrefixedSlice([i \in DOMAIN m.short_ids |-> ShortIdEncoder(m.short_ids[i])])
        \o PrefixedSlice([i \in DOMAIN m.prefilled_txs |-> tx(i)])
HeaderAndShortIdsDecoder ==
  Mapped("HeaderAndShortIds",
    InOrder(<<F("header", HeaderDecoder), F("nonce", LeDecoder(8)),
              F("short_ids", VecDecoder(ShortIdDecoder)),
              F("prefilled_txs", VecDecoder(PrefilledTransactionDecoder))>>))
HeaderAndShortIdsEnd(m) ==
  IF Len(m.short_ids) + Len(m.prefilled_txs) > U16_MAX THEN Nothing ELSE Ok(m)

OffsetEncoder(offset) == CompactSize(offset)
OffsetDecoder == CompactSizeDecoder
BlockTransactionsRequestEncoder(m) ==
  BlockHashEncoder(m.block_hash)
    \o PrefixedSlice([i \in DOMAIN m.offsets |-> OffsetEncoder(m.offsets[i])])
BlockTransactionsRequestDecoder ==
  InOrder(<<F("block_hash", BlockHashDecoder), F("offsets", VecDecoder(OffsetDecoder))>>)
BlockTransactionsEncoder(m) ==
  BlockHashEncoder(m.block_hash)
    \o PrefixedSlice([i \in DOMAIN m.transactions |-> TransactionEncoder(m.transactions[i])])
BlockTransactionsDecoder ==
  InOrder(<<F("block_hash", BlockHashDecoder), F("transactions", VecDecoder(TransactionDecoder))>>)

(* merkle_tree.rs: bits in bytes, the lowest first. *)

BitVecEncoder(bits) ==
  LET bit(k) == IF k <= Len(bits) /\ bits[k] THEN 1 ELSE 0
  IN  [j \in 1 .. (Len(bits) + 7) \div 8 |-> MapThenSumSet(LAMBDA i : bit(8 * j - 7 + i) * 2 ^ i, 0 .. 7)]
PartialMerkleTreeEncoder(t) ==
  to_le_bytes(t.num_transactions)
    \o PrefixedSlice([i \in DOMAIN t.hashes |-> TxMerkleNodeEncoder(t.hashes[i])])
    \o CompactSize(U64((Len(t.bits) + 7) \div 8)) \o BitVecEncoder(t.bits)
PartialMerkleTreeDecoder ==
  Mapped("PartialMerkleTree",
    InOrder(<<F("num_transactions", LeDecoder(4)), F("hashes", VecDecoder(TxMerkleNodeDecoder)),
              F("bits", ByteVecDecoder)>>))
PartialMerkleTreeEnd(t) ==
  LET bit(k) == (t.bits[(k - 1) \div 8 + 1] \div 2 ^ ((k - 1) % 8)) % 2 = 1
  IN  Ok([t EXCEPT !.bits = [k \in 1 .. 8 * Len(t.bits) |-> bit(k)]])

MerkleBlockEncoder(m) == HeaderEncoder(m.header) \o PartialMerkleTreeEncoder(m.txn)
MerkleBlockDecoder == InOrder(<<F("header", HeaderDecoder), F("txn", PartialMerkleTreeDecoder)>>)

(* message.rs *)

InventoryPayloadEncoder(list) == PrefixedSlice([i \in DOMAIN list |-> InventoryEncoder(list[i])])
InventoryPayloadDecoder == VecDecoder(InventoryDecoder)
AddrPayloadEncoder(list) == PrefixedSlice([i \in DOMAIN list |-> AddrV1MessageEncoder(list[i])])
AddrPayloadDecoder == VecDecoder(AddrV1MessageDecoder)
AddrV2PayloadEncoder(list) == PrefixedSlice([i \in DOMAIN list |-> AddrV2MessageEncoder(list[i])])
AddrV2PayloadDecoder == VecDecoder(AddrV2MessageDecoder)

\* A fee rate is satoshis per million virtual bytes, on the wire per thousand.
FeeFilterEncoder(rate) == to_le_bytes(DivCeil1000(rate))
FeeFilterDecoder == Mapped("FeeFilter", LeDecoder(8))
FeeFilterEnd(kvb) == IF LessThan(MAX_MONEY, kvb) THEN Nothing ELSE Ok(Times1000(kvb))

PingEncoder(nonce) == to_le_bytes(nonce)
PingDecoder == LeDecoder(8)
PongEncoder(nonce) == to_le_bytes(nonce)
PongDecoder == LeDecoder(8)

NetworkHeaderEncoder(h) == HeaderEncoder(h.header) \o h.length
NetworkHeaderDecoder == InOrder(<<F("header", HeaderDecoder), F("length", LeDecoder(1))>>)
HeadersMessageEncoder(list) == PrefixedSlice([i \in DOMAIN list |-> NetworkHeaderEncoder(list[i])])
HeadersMessageDecoder == VecDecoder(NetworkHeaderDecoder)
is_connected(list) ==
  \A i \in 1 .. Len(list) - 1 : block_hash(list[i].header) = list[i + 1].header.prev_blockhash

-----------------------------------------------------------------------------
(* Decoding. *)

\* What end() makes of the value of a decoder.
End(name, value) ==
  CASE name = "Amount" -> AmountEnd(value)
    [] name = "TxIn" -> TxInEnd(value)
    [] name = "Transaction" -> TransactionEnd(value)
    [] name = "CommandString" -> CommandStringEnd(value)
    [] name = "Address" -> AddressEnd(value)
    [] name = "AddrV2" -> AddrV2End(value)
    [] name = "UserAgent" -> UserAgentEnd(value)
    [] name = "VersionMessage" -> VersionMessageEnd(value)
    [] name = "RejectReason" -> RejectReasonEnd(value)
    [] name = "Reject" -> RejectEnd(value)
    [] name = "Inventory" -> InventoryEnd(value)
    [] name = "BloomFlags" -> BloomFlagsEnd(value)
    [] name = "SendCmpct" -> SendCmpctEnd(value)
    [] name = "PrefilledTransaction" -> PrefilledTransactionEnd(value)
    [] name = "HeaderAndShortIds" -> HeaderAndShortIdsEnd(value)
    [] name = "PartialMerkleTree" -> PartialMerkleTreeEnd(value)
    [] name = "FeeFilter" -> FeeFilterEnd(value)

\* A decoder that succeeds leaves a value and the bytes behind it; one that fails leaves nothing.
Decoded(value, rest) == <<value, rest>>
Skip(bytes, n) == SubSeq(bytes, n + 1, Len(bytes))
Take(n, bytes) ==
  IF Len(bytes) < n THEN Nothing ELSE Decoded(SubSeq(bytes, 1, n), Skip(bytes, n))

\* Mutant: only that a size fits the bytes it came in.
Minimal_Any(width, n) == TRUE

\* The least n that is worth so many bytes behind the first one.
Minimal(width, n) ==
  CASE width = 0 -> TRUE
    [] width = 2 -> n[7] # 0 \/ n[8] >= 253
    [] width = 4 -> n[5] # 0 \/ n[6] # 0
    [] width = 8 -> \E i \in 1 .. 4 : n[i] # 0

ReadCompactSizeU64(bytes) ==
  IF bytes = <<>> THEN Nothing
  ELSE LET first == bytes[1]
           width == CASE first = 253 -> 2 [] first = 254 -> 4 [] first = 255 -> 8 [] OTHER -> 0
           n == [i \in 1 .. 8 |-> IF 8 - i < width THEN bytes[10 - i] ELSE 0]
       IN  IF Len(bytes) < 1 + width THEN Nothing
           ELSE IF width = 0 THEN Decoded(U64(first), Tail(bytes))
           ELSE IF Minimal(width, n) THEN Decoded(n, Skip(bytes, 1 + width)) ELSE Nothing

ReadCompactSize(limit, bytes) ==
  LET n == ReadCompactSizeU64(bytes)
  IN  IF n = Nothing \/ LessThan(limit, n[1]) THEN Nothing ELSE n

\* The length of a list.
ReadLength(bytes) ==
  LET n == ReadCompactSize(MAX_VEC_SIZE, bytes)
  IN  IF n = Nothing THEN Nothing
      ELSE Decoded(n[1][6] * 65536 + n[1][7] * 256 + n[1][8], n[2])

(* A decoder is a type, so that there is a bound to how deep one lies in another: read is   *)
(* the function of the decoders that lie in the one at hand, which it is itself among.      *)

\* Bound: the outpoint of an input of a transaction of a list of a compact block is the deepest.
MaxDepth == 8

\* One more value behind those that are there.
ReadNext(read, done, d) ==
  IF done = Nothing THEN Nothing
  ELSE LET value == read[d, done[2]]
       IN  IF value = Nothing THEN Nothing ELSE Decoded(Append(done[1], value[1]), value[2])

\* One decoder after the other.
ReadAll(read, decoders, bytes) ==
  LET next(done, d) == ReadNext(read, done, d) IN FoldLeft(next, Decoded(<<>>, bytes), decoders)

\* Behind the version and the inputs: no inputs are a marker, so that what follows is a flag,
\* and the inputs once more.
ReadInputs(read, start) ==
  IF start = Nothing THEN Nothing
  ELSE IF start[1][2] # <<>> THEN Decoded(Append(start[1], FALSE), start[2])
  ELSE IF start[2] = <<>> \/ Head(start[2]) # SEGWIT_FLAG THEN Nothing
  ELSE LET again == read[VecDecoder(TxInDecoder), Tail(start[2])]
       IN  IF again = Nothing THEN Nothing
           ELSE Decoded(<<start[1][1], again[1], TRUE>>, again[2])

\* A witness of every input, not all of them empty, if there was a flag.
ReadWitnesses(read, done) ==
  LET ofAll(decoder) == [i \in DOMAIN done[1][2] |-> decoder]
  IN  IF done = Nothing THEN Nothing
      ELSE IF ~done[1][3] THEN Decoded(Append(done[1], ofAll(<<>>)), done[2])
      ELSE LET witnesses == ReadAll(read, ofAll(WitnessDecoder), done[2])
           IN  IF \/ witnesses = Nothing
                  \/ witnesses[1] # <<>> /\ \A i \in DOMAIN witnesses[1] : witnesses[1][i] = <<>>
               THEN Nothing
               ELSE Decoded(Append(done[1], witnesses[1]), witnesses[2])

TransactionOf(done) ==
  LET tx == done[1]
      input(i) == [tx[2][i] EXCEPT !.witness = tx[5][i]]
  IN  IF done = Nothing THEN Nothing
      ELSE Decoded([version |-> tx[1], inputs |-> [i \in DOMAIN tx[2] |-> input(i)],
                    outputs |-> tx[4], lock_time |-> tx[6]], done[2])

ReadTransaction(read, bytes) ==
  LET start == ReadAll(read, <<TxVersionDecoder, VecDecoder(TxInDecoder)>>, bytes)
      outputs == ReadNext(read, ReadInputs(read, start), VecDecoder(TxOutDecoder))
  IN  TransactionOf(ReadNext(read, ReadWitnesses(read, outputs), LockTimeDecoder))

\* What is there before End.
ReadParts(read, d, bytes) ==
  CASE d.kind = "array" -> Take(d.len, bytes)
    [] d.kind = "le" ->
         LET n == Take(d.len, bytes)
         IN  IF n = Nothing THEN Nothing ELSE Decoded(Reverse(n[1]), n[2])
    [] d.kind = "size" -> ReadCompactSize(MAX_COMPACT_SIZE, bytes)
    [] d.kind = "size64" -> ReadCompactSizeU64(bytes)
    [] d.kind = "bytes" ->
         LET n == ReadLength(bytes) IN IF n = Nothing THEN Nothing ELSE Take(n[1], n[2])
    [] d.kind = "vec" ->
         \* Every item takes a byte, so that a longer list ends early.
         LET n == ReadLength(bytes)
         IN  IF n = Nothing \/ n[1] > Len(n[2]) THEN Nothing
             ELSE ReadAll(read, [i \in 1 .. n[1] |-> d.item], n[2])
    [] d.kind = "struct" ->
         LET values == ReadAll(read, [i \in DOMAIN d.fields |-> d.fields[i].decoder], bytes)
             field(name) == values[1][CHOOSE i \in DOMAIN d.fields : d.fields[i].name = name]
         IN  IF values = Nothing THEN Nothing
             ELSE Decoded([name \in {d.fields[i].name : i \in DOMAIN d.fields} |-> field(name)],
                          values[2])
    [] d.kind = "transaction" -> ReadTransaction(read, bytes)
    [] d.kind = "rest" -> Decoded(bytes, <<>>)

\* What End makes of the parts.
Ended(d, parts) ==
  IF parts = Nothing \/ d.kind # "mapped" THEN parts
  ELSE LET value == End(d.name, parts[1])
       IN  IF value = Nothing THEN Nothing ELSE Decoded(value[1], parts[2])

BaseOf(d) == IF d.kind = "mapped" THEN d.inner ELSE d
ReadBy(read, d, bytes) == Ended(d, ReadParts(read, BaseOf(d), bytes))

\* The decoders a decoder is made of, and those they are made of in turn.
PartsOf(d) ==
  LET base == BaseOf(d)
  IN  CASE base.kind = "vec" -> {base.item}
        [] base.kind = "struct" -> {base.fields[i].decoder : i \in DOMAIN base.fields}
        [] base.kind = "transaction" ->
             {TxVersionDecoder, VecDecoder(TxInDecoder), VecDecoder(TxOutDecoder), WitnessDecoder,
              LockTimeDecoder}
        [] OTHER -> {}
Within(d) ==
  LET reach[n \in 0 .. MaxDepth] ==
        IF n = 0 THEN {d} ELSE LET above == reach[n - 1] IN above \cup UNION {PartsOf(e) : e \in above}
  IN  reach[MaxDepth]

Read(d, bytes) ==
  LET read[e \in Within(d), rest \in Seq(0 .. 255)] == ReadBy(read, e, rest) IN read[d, bytes]

-----------------------------------------------------------------------------
(* Messages: the header of any, and the payload of each. *)

Empties == {"verack", "sendheaders", "mempool", "getaddr", "wtxidrelay", "filterclear", "sendaddrv2"}

Encoding(c, m) ==
  CASE c = "header" -> V1MessageHeaderEncoder(m)
    [] c = "version" -> VersionMessageEncoder(m)
    [] c \in Empties -> <<>>
    [] c = "addr" -> AddrPayloadEncoder(m)
    [] c \in {"inv", "getdata", "notfound"} -> InventoryPayloadEncoder(m)
    [] c \in {"getblocks", "getheaders"} -> GetBlocksOrHeadersEncoder(m)
    [] c = "tx" -> TransactionEncoder(m)
    [] c = "block" -> BlockEncoder(m)
    [] c = "headers" -> HeadersMessageEncoder(m)
    [] c = "ping" -> PingEncoder(m)
    [] c = "pong" -> PongEncoder(m)
    [] c = "merkleblock" -> MerkleBlockEncoder(m)
    [] c = "filterload" -> FilterLoadEncoder(m)
    [] c = "filteradd" -> FilterAddEncoder(m)
    [] c = "getcfilters" -> GetCFiltersEncoder(m)
    [] c = "cfilter" -> CFilterEncoder(m)
    [] c = "getcfheaders" -> GetCFHeadersEncoder(m)
    [] c = "cfheaders" -> CFHeadersEncoder(m)
    [] c = "getcfcheckpt" -> GetCFCheckptEncoder(m)
    [] c = "cfcheckpt" -> CFCheckptEncoder(m)
    [] c = "sendcmpct" -> SendCmpctEncoder(m)
    [] c = "cmpctblock" -> HeaderAndShortIdsEncoder(m)
    [] c = "getblocktxn" -> BlockTransactionsRequestEncoder(m)
    [] c = "blocktxn" -> BlockTransactionsEncoder(m)
    [] c = "alert" -> AlertEncoder(m)
    [] c = "reject" -> RejectEncoder(m)
    [] c = "feefilter" -> FeeFilterEncoder(m)
    [] c = "sendtxrcncl" -> SendTxRcnClEncoder(m)
    [] c = "addrv2" -> AddrV2PayloadEncoder(m)
    [] OTHER -> m

DecoderOf(c) ==
  CASE c = "header" -> V1MessageHeaderDecoder
    [] c = "version" -> VersionMessageDecoder
    [] c \in Empties -> ArrayDecoder(0)
    [] c = "addr" -> AddrPayloadDecoder
    [] c \in {"inv", "getdata", "notfound"} -> InventoryPayloadDecoder
    [] c \in {"getblocks", "getheaders"} -> GetBlocksOrHeadersDecoder
    [] c = "tx" -> TransactionDecoder
    [] c = "block" -> BlockDecoder
    [] c = "headers" -> HeadersMessageDecoder
    [] c = "ping" -> PingDecoder
    [] c = "pong" -> PongDecoder
    [] c = "merkleblock" -> MerkleBlockDecoder
    [] c = "filterload" -> FilterLoadDecoder
    [] c = "filteradd" -> FilterAddDecoder
    [] c = "getcfilters" -> GetCFiltersDecoder
    [] c = "cfilter" -> CFilterDecoder
    [] c = "getcfheaders" -> GetCFHeadersDecoder
    [] c = "cfheaders" -> CFHeadersDecoder
    [] c = "getcfcheckpt" -> GetCFCheckptDecoder
    [] c = "cfcheckpt" -> CFCheckptDecoder
    [] c = "sendcmpct" -> SendCmpctDecoder
    [] c = "cmpctblock" -> HeaderAndShortIdsDecoder
    [] c = "getblocktxn" -> BlockTransactionsRequestDecoder
    [] c = "blocktxn" -> BlockTransactionsDecoder
    [] c = "alert" -> AlertDecoder
    [] c = "reject" -> RejectDecoder
    [] c = "feefilter" -> FeeFilterDecoder
    [] c = "sendtxrcncl" -> SendTxRcnClDecoder
    [] c = "addrv2" -> AddrV2PayloadDecoder
    [] OTHER -> [kind |-> "rest"]

\* The payload is all there is, and nothing is left over.
Decode(c, bytes) ==
  LET result == Read(DecoderOf(c), bytes)
  IN  IF result = Nothing \/ result[2] # <<>> THEN Nothing ELSE Ok(result[1])

-----------------------------------------------------------------------------
\* Somebody sends a value, which peers may accept or not by the rules of its type, and
\* these bytes arrive.
Begin(c, value, isValid, sent, arrive) ==
  /\ cmd = c /\ held = Nothing /\ passed = 0
  /\ origin = [value |-> value, isValid |-> isValid, sent |-> sent, arrived |-> arrive]
  /\ posted = Ok(arrive)

Receive ==
  /\ posted # Nothing
  /\ held' = Decode(cmd, posted[1])
  /\ posted' = Nothing
  /\ passed' = passed + 1
  /\ UNCHANGED <<cmd, origin>>

\* A node that could read it passes it on.
Send ==
  /\ posted = Nothing /\ held # Nothing /\ passed < MaxPassed
  /\ posted' = Ok(Encoding(cmd, held[1]))
  /\ UNCHANGED <<cmd, held, origin, passed>>

PayloadsNext == Receive \/ Send

-----------------------------------------------------------------------------
(* Bound: what nodes send.  At least one payload of every command, the bytes of which are  *)
(* all different, at the limits of its rules and beyond them; and what happens to the      *)
(* bytes on the way.                                                                       *)

Bytes(n, from) == [i \in 1 .. n |-> (from + i) % 128]
Hash(from) == Bytes(HASH_LEN, from)

In(prevout, script_sig, witness) ==
  [previous_output |-> prevout, script_sig |-> script_sig, sequence |-> <<255, 255, 255, 254>>,
   witness |-> witness]
Prevout(k) == [txid |-> Hash(k), vout |-> <<0, 0, 0, k>>]
Out(amount) == [amount |-> amount, script_pubkey |-> <<81, 32>>]
Tx(inputs, outputs) ==
  [version |-> <<0, 0, 0, 2>>, inputs |-> inputs, outputs |-> outputs, lock_time |-> <<0, 1, 2, 3>>]

Legacy == Tx(<<In(Prevout(7), <<3, 4>>, <<>>)>>, <<Out(U64(5000)), Out(MAX_MONEY)>>)
Paid == Tx(<<In(Prevout(7), <<3, 4>>, <<>>)>>, <<Out(U64(5000)), Out(U64(70000))>>)
Segwit ==
  Tx(<<In(Prevout(7), <<>>, <<>>), In(Prevout(8), <<5>>, <<<<6, 7>>, <<>>>>)>>, <<Out(MAX_MONEY)>>)
Coinbase(len) == Tx(<<In(COINBASE_PREVOUT, Bytes(len, 9), <<<<0>>>>)>>, <<Out(U64(0))>>)

ValidTxs == {Paid, Segwit, Coinbase(2), Coinbase(100), Tx(<<>>, <<Out(U64(1))>>)}
InvalidTxs ==
  {Legacy, Coinbase(1), Coinbase(101), Tx(Paid.inputs, <<>>),
   Tx(<<In(Prevout(7), <<>>, <<>>), In(Prevout(7), <<1>>, <<>>)>>, <<Out(U64(1))>>),
   Tx(<<In(Prevout(7), <<>>, <<>>), In(COINBASE_PREVOUT, <<1, 2>>, <<>>)>>, <<Out(U64(1))>>)}

HeaderAfter(prev) ==
  [version |-> <<32, 0, 0, 4>>, prev_blockhash |-> prev, merkle_root |-> Hash(40),
   time |-> <<101, 102, 103, 104>>, bits |-> <<29, 0, 255, 254>>, nonce |-> <<11, 12, 13, 14>>]
Header == HeaderAfter(Hash(20))
NetworkHeaders ==
  LET first == Header
      second == HeaderAfter(block_hash(first))
      third == HeaderAfter(block_hash(second))
      network(h) == [header |-> h, length |-> <<0>>]
  IN  <<network(first), network(second), network(third)>>

Segments(from) == [i \in 1 .. 8 |-> <<from + 2 * i, from + 2 * i + 1>>]
Socket(from) ==
  [services |-> Bytes(8, from), address |-> Segments(from + 20), port |-> <<from, from + 1>>]
AddrV2s ==
  LET addr(a, services) ==
        [time |-> <<1, 2, 3, 4>>, services |-> services, addr |-> a, port |-> <<32, 141>>]
  IN  <<addr(AddrV2("Ipv4", <<>>, <<10, 11, 12, 13>>), U64(253)),
        addr(AddrV2("Ipv6", <<>>, Bytes(16, 30)), U64(65536)),
        addr(AddrV2("Cjdns", <<>>, <<252>> \o Bytes(15, 30)), U64(1))>>
AddrV2With(a) == <<[AddrV2s[1] EXCEPT !.addr = a]>>

Version ==
  [version |-> <<0, 1, 17, 128>>, services |-> Bytes(8, 1), timestamp |-> Bytes(8, 10),
   receiver |-> Socket(20), sender |-> Socket(60), nonce |-> Bytes(8, 110),
   user_agent |-> <<47, 83, 58, 49, 47>>, start_height |-> <<0, 12, 34, 56>>, relay |-> TRUE]
GetHashes(tip) ==
  [version |-> <<0, 1, 17, 128>>, locator_hashes |-> BlockLocator(tip), stop_hash |-> Hash(90)]
Compact(ids, txs) ==
  [header |-> Header, nonce |-> Bytes(8, 60), short_ids |-> [i \in 1 .. ids |-> Bytes(6, 10 * i)],
   prefilled_txs |-> txs]
Prefilled(idx) == [idx |-> idx, tx |-> Paid]
Tree(bits) ==
  [header |-> Header,
   txn |-> [num_transactions |-> <<0, 0, 1, 7>>, hashes |-> <<Hash(50), Hash(60)>>, bits |-> bits]]
Items ==
  <<Inventory("Error", <<>>, Hash(1)), Inventory("Transaction", <<>>, Hash(2)),
    Inventory("Block", <<>>, Hash(3)), Inventory("CompactBlock", <<>>, Hash(4)),
    Inventory("WTx", <<>>, Hash(5)), Inventory("WitnessTransaction", <<>>, Hash(6)),
    Inventory("WitnessBlock", <<>>, Hash(7)), Inventory("Unknown", <<0, 0, 0, 3>>, Hash(8))>>

\* One of every command, which may be damaged.
Typical ==
  {<<"header", [magic |-> <<249, 190, 180, 217>>, command |-> <<112, 105, 110, 103, 0, 0, 0, 0, 0, 0, 0, 0>>,
               length |-> <<0, 0, 1, 8>>, checksum |-> <<9, 10, 11, 12>>]>>,
   <<"version", Version>>, <<"addr", <<[time |-> <<1, 2, 3, 4>>, address |-> Socket(20)]>>>>,
   <<"inv", Items>>, <<"getdata", <<Items[6]>>>>, <<"notfound", <<>>>>,
   <<"getblocks", GetHashes(3)>>, <<"getheaders", GetHashes(1)>>,
   <<"tx", Segwit>>, <<"block", [header |-> Header, transactions |-> <<Coinbase(2), Paid>>]>>,
   <<"headers", NetworkHeaders>>, <<"ping", Bytes(8, 1)>>, <<"pong", Bytes(8, 1)>>,
   <<"merkleblock", Tree(<<TRUE, FALSE, TRUE, TRUE, FALSE, FALSE, FALSE, FALSE, TRUE>>)>>,
   <<"filterload", [filter |-> Bytes(3, 5), hash_funcs |-> <<0, 0, 0, 9>>, tweak |-> Bytes(4, 80),
                    flags |-> "All"]>>,
   <<"filteradd", [data |-> Bytes(3, 5)]>>,
   <<"getcfilters", [filter_type |-> <<7>>, start_height |-> Bytes(4, 80), stop_hash |-> Hash(90)]>>,
   <<"cfilter", [filter_type |-> <<7>>, block_hash |-> Hash(90), filter |-> Bytes(3, 5)]>>,
   <<"getcfheaders", [filter_type |-> <<7>>, start_height |-> Bytes(4, 80), stop_hash |-> Hash(90)]>>,
   <<"cfheaders", [filter_type |-> <<7>>, stop_hash |-> Hash(90), previous_filter_header |-> Hash(70),
                   filter_hashes |-> <<Hash(50), Hash(60)>>]>>,
   <<"getcfcheckpt", [filter_type |-> <<7>>, stop_hash |-> Hash(90)]>>,
   <<"cfcheckpt", [filter_type |-> <<7>>, stop_hash |-> Hash(90), filter_headers |-> <<Hash(50), Hash(60)>>]>>,
   <<"sendcmpct", [send_compact |-> TRUE, version |-> Bytes(8, 1)]>>,
   <<"cmpctblock", Compact(2, <<Prefilled(U64(1))>>)>>,
   <<"getblocktxn", [block_hash |-> Hash(90), offsets |-> <<U64(5), U64(300)>>]>>,
   <<"blocktxn", [block_hash |-> Hash(90), transactions |-> <<Paid>>]>>,
   <<"alert", Bytes(3, 5)>>,
   <<"reject", [message |-> <<116, 120>>, ccode |-> "Dust", reason |-> <<100>>, hash |-> Hash(90)]>>,
   <<"feefilter", U64(1000)>>, <<"sendtxrcncl", [version |-> <<0, 0, 0, 1>>, salt |-> Bytes(8, 1)]>>,
   <<"addrv2", AddrV2s>>, <<"verack", <<>>>>, <<"other", Bytes(3, 5)>>}

Others ==
  {<<"tx", tx>> : tx \in ValidTxs}
    \cup {<<"alert", Bytes(n, 0)>> : n \in {0, 252, 253}}
    \cup {<<"getblocks", GetHashes(tip)>> : tip \in {0, 10, 11, 12, 13, 40, 500, 9001}}
    \cup {<<"reject", [message |-> <<>>, ccode |-> code, reason |-> <<>>, hash |-> Hash(90)]>> :
            code \in {"Malformed", "Invalid", "Obsolete", "Duplicate", "NonStandard", "Fee", "Checkpoint"}}
    \cup {<<"filterload", [filter |-> <<>>, hash_funcs |-> <<0, 0, 0, 9>>, tweak |-> Bytes(4, 80),
                           flags |-> flags]>> : flags \in {"None", "PubkeyOnly"}}
    \cup {<<"merkleblock", Tree([i \in 1 .. n |-> i % 3 = 1])>> : n \in {0, 7, 8}}
    \cup {<<"feefilter", rate>> : rate \in {U64(0), U64(1), U64(1001), Times1000(MAX_MONEY)}}
    \cup {<<"inv", <<Inventory("Unknown", <<64, 0, 0, 1>>, Hash(8))>>>>,
          <<"addrv2", AddrV2With(AddrV2("TorV3", <<>>, Bytes(32, 30)))>>,
          <<"addrv2", AddrV2With(AddrV2("I2p", <<>>, Bytes(32, 30)))>>,
          <<"addrv2", AddrV2With(AddrV2("Unknown", <<3>>, Bytes(512, 30)))>>,
          <<"getblocktxn", [block_hash |-> Hash(90), offsets |-> <<MAX_COMPACT_SIZE>>]>>,
          <<"cmpctblock", Compact(U16_MAX, <<>>)>>,
          <<"cmpctblock", Compact(0, <<Prefilled(U64(U16_MAX))>>)>>}

\* Values that a node can have, and that its peers do not accept.
Invalid ==
  {<<"tx", tx>> : tx \in InvalidTxs}
    \cup {<<"feefilter", rate>> : rate \in {Plus(Times1000(MAX_MONEY), U64(1)), [i \in 1 .. 8 |-> 255]}}
    \cup {<<"addrv2", AddrV2With(AddrV2("Unknown", <<3>>, Bytes(513, 30)))>>,
          <<"addrv2", AddrV2With(AddrV2("Unknown", <<1>>, <<1, 2, 3>>))>>,
          <<"addrv2", AddrV2With(AddrV2("Ipv6", <<>>, ONION \o Bytes(10, 30)))>>,
          <<"addrv2", AddrV2With(AddrV2("Ipv6", <<>>, IPV4_EMBEDDED_IPV6 \o Bytes(4, 30)))>>,
          <<"addrv2", AddrV2With(AddrV2("Cjdns", <<>>, Bytes(16, 30)))>>,
          <<"getblocktxn", [block_hash |-> Hash(90), offsets |-> <<Plus(MAX_COMPACT_SIZE, U64(1))>>]>>,
          <<"cmpctblock", Compact(U16_MAX, <<Prefilled(U64(0))>>)>>}

\* One byte is another one, some bytes are missing, or there is one too many.
Damages(bytes) ==
  {[bytes EXCEPT ![i] = b] : i \in DOMAIN bytes, b \in {0, 1, 4, 253, 255}}
    \cup {[bytes EXCEPT ![i] = (@ + 1) % 256] : i \in DOMAIN bytes}
    \cup {SubSeq(bytes, 1, n) : n \in 0 .. Len(bytes) - 1} \cup {bytes \o <<0>>}

PayloadsInit ==
  \/ \E s \in Typical : \E bytes \in {Encoding(s[1], s[2])} :
       \E arrive \in {bytes} \cup Damages(bytes) : Begin(s[1], s[2], TRUE, bytes, arrive)
  \/ \E s \in Others : \E bytes \in {Encoding(s[1], s[2])} : Begin(s[1], s[2], TRUE, bytes, bytes)
  \/ \E s \in Invalid : \E bytes \in {Encoding(s[1], s[2])} : Begin(s[1], s[2], FALSE, bytes, bytes)

-----------------------------------------------------------------------------
(* Properties. *)

IsDamaged == origin.sent # origin.arrived
IsRead == posted = Nothing /\ held # Nothing
IsRefused == posted = Nothing /\ held = Nothing

\* What arrives of a value whose bytes stand for another one, which is equivalent.
Canonical(c, value) ==
  LET \* The number of an unknown item may be that of a known one.
      item(i) == IF i.kind = "Unknown" THEN InventoryEnd(i)[1] ELSE i
      padded(bits) ==
        [k \in 1 .. 8 * ((Len(bits) + 7) \div 8) |-> IF k <= Len(bits) THEN bits[k] ELSE FALSE]
  IN  CASE c \in {"inv", "getdata", "notfound"} -> [i \in DOMAIN value |-> item(value[i])]
        [] c = "merkleblock" -> [value EXCEPT !.txn.bits = padded(value.txn.bits)]
        [] c = "feefilter" -> Times1000(DivCeil1000(value))
        [] OTHER -> value

\* The bytes as a node passes them on: a flag is 0 or 1.
Flagged(c, bytes) ==
  LET at(k) == [bytes EXCEPT ![k] = IF bytes[k] = 0 THEN 0 ELSE 1]
  IN  CASE c = "version" -> at(Len(bytes)) [] c = "sendcmpct" -> at(1) [] OTHER -> bytes

\* What is sent arrives: the fields of every payload come out where they went in, at every
\* node, exactly if its value is valid.
SentArrives ==
  ~IsDamaged => (IsRead => origin.isValid /\ held[1] = Canonical(cmd, origin.value))
             /\ (IsRefused => ~origin.isValid)

\* A payload has one form: what a node could read, damaged or not, it passes on byte by byte,
\* so that the checksum, the transaction and the block are the same for all of them.
PassedOnAsItCame ==
  held # Nothing /\ posted # Nothing => posted[1] = Flagged(cmd, origin.arrived)

TransactionsOf(c, value) ==
  CASE c = "tx" -> <<value>>
    [] c \in {"block", "blocktxn"} -> value.transactions
    [] c = "cmpctblock" -> [i \in DOMAIN value.prefilled_txs |-> value.prefilled_txs[i].tx]
    [] OTHER -> <<>>

\* hash_transaction writes the fields by hand: the wtxid is the hash of what is sent, and the
\* txid does not depend on the witnesses.
IdsAreOfTheEncoding ==
  IsRead =>
    \A tx \in ToSet(TransactionsOf(cmd, held[1])) :
      LET stripped == [i \in DOMAIN tx.inputs |-> [tx.inputs[i] EXCEPT !.witness = <<>>]]
      IN  /\ compute_wtxid(tx) = TransactionEncoder(tx)
          /\ tx.inputs # <<>> =>
               compute_txid(tx) = TransactionEncoder([tx EXCEPT !.inputs = stripped])

\* Whoever answers a locator and has forked off at height f finds an entry at or below f
\* that is no further from f than f is from the tip: what is sent again is no more than
\* what is new.  The last entry is the genesis block, whatever the tip.
LocatorFindsTheFork ==
  IsRead /\ ~IsDamaged /\ cmd \in {"getblocks", "getheaders"} =>
    LET hashes == held[1].locator_hashes
        height(i) == hashes[i][1] * 256 + hashes[i][2]
    IN  /\ height(Len(hashes)) = 0
        /\ \A i \in 1 .. Len(hashes) - 1 :
             /\ height(i + 1) < height(i)
             /\ \A f \in height(i + 1) .. height(i) - 1 : f - height(i + 1) <= height(1) - f

\* Headers that are connected are connected in the chain that was sent: damage in between
\* shows, and all it can touch is the last header.
ConnectedIsTheChain ==
  IsRead /\ cmd = "headers" /\ is_connected(origin.value) /\ is_connected(held[1])
    /\ Len(held[1]) = Len(origin.value) =>
    \A i \in 1 .. Len(held[1]) - 1 : held[1][i].header = origin.value[i].header

PayloadsAreTheSame ==
  /\ SentArrives /\ PassedOnAsItCame /\ IdsAreOfTheEncoding /\ LocatorFindsTheFork
  /\ ConnectedIsTheChain

=============================================================================
