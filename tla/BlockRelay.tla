----------------------------- MODULE BlockRelay -----------------------------
(***************************************************************************)
(* Block::validate of primitives/src/block.rs and the compact blocks of    *)
(* p2p/src/bip152.rs: a node validates a block and announces it as a       *)
(* header, short ids and prefilled transactions; another one fills in what *)
(* it knows, asks for the rest by index and validates what it assembled.   *)
(* What travels may be damaged, and short ids may collide.                 *)
(*                                                                         *)
(* How the receiver assembles a block is external: it follows BIP-152, as  *)
(* the documentation of PrefilledTransaction::idx quotes it.               *)
(*                                                                         *)
(* A hash is what was hashed; a merkle root is the list it was computed of,*)
(* which MerkleTree shows it to bind.  Transaction 0 of a block is the     *)
(* coinbase, and the only one whose outputs matter.                        *)
(***************************************************************************)
EXTENDS MerkleRoot, FiniteSets

CONSTANTS
  MaxTxs,        \* bound: transactions of a block besides the coinbase
  FewTxs,        \* bound: those of them that come with and without witness
  U16,           \* 2^16
  Usize          \* 2^32 or 2^64

RelayAssumption ==
  /\ MaxTxs \in Nat /\ FewTxs \in 0..MaxTxs
  /\ U16 \in Nat \ {0} /\ Usize \in Nat /\ Usize > U16

VARIABLES
  header,        \* the merkle root the header commits to
  transactions,  \* of the sender's block
  witness_root,  \* cached in a checked block: an Option
  step,          \* how far the relay has come
  version,       \* of the announcement
  prefill,       \* what from_block was asked to prefill
  announced,     \* a HeaderAndShortIds
  mempool,       \* the receiver's transactions
  filled,        \* the receiver's block: an Option for each place
  asked,         \* the indices it asked for
  offsets,       \* a BlockTransactionsRequest
  answered,      \* a BlockTransactions
  received_root, \* the witness root cached in the receiver's checked block
  damaged        \* whether anything was damaged on its way

relayVars == <<header, transactions, witness_root, step, version, prefill, announced, mempool,
               filled, asked, offsets, answered, received_root, damaged>>

-----------------------------------------------------------------------------
(* Transactions, and what is mined. *)

Tx(name, outputs, witness) == [name |-> name, outputs |-> outputs, witness |-> witness]
compute_txid(tx) == Tx(tx.name, tx.outputs, <<>>)
compute_wtxid(tx) == tx
COINBASE == Tx(0, <<>>, <<"zeroes">>)

is_coinbase(tx) == tx.name = 0

\* An output whose script is long enough and begins with the magic bytes carries a
\* commitment; others do not.
Commits(c) == [commits |-> Some(c)]
Plain == [commits |-> None]

calculate_root(list) == IF list = <<>> \/ Repeats(list) THEN None ELSE Some(list)

compute_merkle_root(txs) == calculate_root([i \in DOMAIN txs |-> compute_txid(txs[i])])

compute_witness_root(txs) ==
  calculate_root([i \in DOMAIN txs |-> IF i = 1 THEN COINBASE ELSE compute_wtxid(txs[i])])

Commitment(root, reserved) == [root |-> root, reserved |-> reserved]

\* The last output that begins with the magic bytes.
witness_commitment_from_coinbase(coinbase) ==
  LET magic == {i \in DOMAIN coinbase.outputs : coinbase.outputs[i].commits # None}
  IN  IF magic = {} THEN None
      ELSE coinbase.outputs[CHOOSE i \in magic : \A j \in magic : j <= i].commits

\* Mutant: a block without commitment is not looked at any further.
check_witness_commitment_NoWitnessScan(txs) ==
  LET commitment == witness_commitment_from_coinbase(txs[1])
      root == compute_witness_root(txs)
      reserved == txs[1].witness
  IN  IF commitment = None THEN [ok |-> TRUE, root |-> None]
      ELSE IF /\ Len(reserved) = 1 /\ reserved[1] # "short" /\ root # None
              /\ commitment = Some(Commitment(root[1], reserved[1]))
        THEN [ok |-> TRUE, root |-> root]
        ELSE [ok |-> FALSE, root |-> None]

\* The witness of the coinbase is the reserved value, of 32 bytes.
check_witness_commitment(txs) ==
  LET commitment == witness_commitment_from_coinbase(txs[1])
      root == compute_witness_root(txs)
      reserved == txs[1].witness
  IN  IF commitment = None
        THEN [ok |-> \A i \in DOMAIN txs : txs[i].witness = <<>>, root |-> None]
      ELSE IF /\ Len(reserved) = 1 /\ reserved[1] # "short" /\ root # None
              /\ commitment = Some(Commitment(root[1], reserved[1]))
        THEN [ok |-> TRUE, root |-> root]
        ELSE [ok |-> FALSE, root |-> None]

check_merkle_root(merkle_root, txs) ==
  compute_merkle_root(txs) # None /\ compute_merkle_root(txs) = Some(merkle_root)

\* Block::validate: the block is checked, or the reason why not.
validate(merkle_root, txs) ==
  LET fail(why) == [verdict |-> why, root |-> None]
  IN  IF txs = <<>> THEN fail("NoTransactions")
      ELSE IF ~is_coinbase(txs[1]) THEN fail("InvalidCoinbase")
      ELSE IF ~check_merkle_root(merkle_root, txs) THEN fail("InvalidMerkleRoot")
      ELSE IF ~check_witness_commitment(txs).ok THEN fail("InvalidWitnessCommitment")
      ELSE [verdict |-> "checked", root |-> check_witness_commitment(txs).root]

\* What the coinbase may hold: no commitment, the right one alone, behind a wrong one or
\* in front of one; and a reserved value that is there, missing, short or doubled.
Coinbases(txs) ==
  LET root == [i \in 1..(Len(txs) + 1) |-> IF i = 1 THEN COINBASE ELSE compute_wtxid(txs[i - 1])]
      good == Commits(Commitment(root, "reserved"))
      wrong == Commits(Commitment(root, "other"))
  IN  {Tx(0, outputs, witness) :
         outputs \in {<<Plain>>, <<good>>, <<wrong, Plain, good>>, <<good, wrong>>},
         witness \in {<<>>, <<"reserved">>, <<"short">>, <<"reserved", "reserved">>}}

Spends(witnesses) ==
  [i \in DOMAIN witnesses |-> Tx(i, <<>>, IF witnesses[i] THEN <<"item">> ELSE <<>>)]

\* Lists of transactions: distinct ones, or the last one twice.
Bodies ==
  UNION {LET plain == [1..k -> {FALSE}]
             some == IF k <= FewTxs THEN [1..k -> BOOLEAN] ELSE plain
         IN  {Spends(w) : w \in some}
               \cup {Append(Spends(w), Spends(w)[k]) : w \in IF k \in 1..FewTxs THEN plain ELSE {}}
         : k \in 0..MaxTxs}

RelayInit ==
  /\ \E body \in Bodies : \E coinbase \in Coinbases(body) :
       transactions \in {<<coinbase>> \o body, body}
  /\ header \in {[i \in DOMAIN list |-> compute_txid(list[i])] :
                   list \in {transactions, transactions \o transactions}}
  /\ witness_root = None /\ received_root = None
  /\ step = "mined"
  /\ version = 0 /\ prefill = <<>> /\ announced = [short_ids |-> <<>>, prefilled_txs |-> <<>>]
  /\ mempool = <<>> /\ filled = <<>> /\ asked = <<>> /\ offsets = <<>> /\ answered = <<>>
  /\ damaged = FALSE

Validate ==
  LET v == validate(header, transactions)
  IN  /\ step = "mined"
      /\ step' = v.verdict
      /\ witness_root' = v.root
      /\ UNCHANGED <<header, transactions, version, prefill, announced, mempool, filled, asked,
                     offsets, answered, received_root, damaged>>

-----------------------------------------------------------------------------
(* The announcement. *)

\* A short id is 6 bytes of a keyed hash; in version 1 of the txid, in version 2 of the
\* wtxid.
ShortId(tx) == IF version' = 1 THEN compute_txid(tx) ELSE compute_wtxid(tx)

Stripped(tx) == Tx(tx.name, tx.outputs, <<>>)

\* Every list of indices that a caller may have in mind: ascending or not, with the
\* coinbase, beyond the end, or longer than the block.
Prefills(count) ==
  {<<>>, <<1, 1>>, <<2, 1>>, <<0, count - 1>>, [i \in 1..(count + 1) |-> i - 1]}
    \cup {<<i>> : i \in 0..count} \cup {<<1, i>> : i \in 2..count}

Sum(t) == FoldLeft(LAMBDA a, b : a + b, 0, t)

\* The differential encoding of the k-th of ascending places, cut to 16 bits.
Distance(places, k) ==
  (IF k = 1 THEN places[1] ELSE places[k] - places[k - 1] - 1) % U16

\* The elements of `wanted' that from_block comes across: it looks at the first one only,
\* so that it is stuck on one that does not lie ahead.
Consumed(wanted, count) ==
  FoldLeft(LAMBDA used, idx :
             IF used < Len(wanted) /\ wanted[used + 1] = idx THEN used + 1 ELSE used,
           0, [i \in 1..count |-> i - 1])

\* HeaderAndShortIds::from_block.  The capacity it computes first is negative for more
\* indices than there are transactions: a panic where overflow is checked and, since the
\* capacity is then huge, elsewhere too.
FromBlock(v, wanted) ==
  LET count == Len(transactions)
      used == Consumed(wanted, count)
      places == SetToSortSeq({0} \cup {wanted[k] : k \in 1..used}, <)
      others == SetToSortSeq((0..(count - 1)) \ ToSet(places), <)
  IN  /\ step = "checked"
      /\ version' = v
      /\ prefill' = wanted
      /\ CASE v \notin {1, 2} -> step' = "UnknownVersion" /\ UNCHANGED announced
           [] v \in {1, 2} /\ Len(wanted) > count -> step' = "panic" /\ UNCHANGED announced
           [] v \in {1, 2} /\ Len(wanted) <= count /\ used < Len(wanted) ->
                step' = "InvalidPrefill" /\ UNCHANGED announced
           [] OTHER ->
                /\ step' = "announced"
                /\ announced' =
                     [short_ids |-> [k \in DOMAIN others |-> ShortId(transactions[others[k] + 1])],
                      prefilled_txs |->
                        [k \in DOMAIN places |->
                           [idx |-> Distance(places, k),
                            tx |-> LET tx == transactions[places[k] + 1]
                                   IN  IF v = 1 THEN Stripped(tx) ELSE tx]]]
      /\ UNCHANGED <<header, transactions, witness_root, mempool, filled, asked, offsets,
                     answered, received_root, damaged>>

\* On its way a prefilled transaction gets another place or loses its witness, or two
\* short ids change places.
DamageAnnounced ==
  /\ step = "announced" /\ ~damaged
  /\ damaged' = TRUE
  /\ \/ \E k \in DOMAIN announced.prefilled_txs : \E idx \in 0..2 :
          announced' = [announced EXCEPT !.prefilled_txs[k].idx = idx]
     \/ \E k \in DOMAIN announced.prefilled_txs :
          announced' = [announced EXCEPT !.prefilled_txs[k].tx = Stripped(@)]
     \/ /\ Len(announced.short_ids) > 1
        /\ announced' = [announced EXCEPT !.short_ids = <<@[2], @[1]>> \o SubSeq(@, 3, Len(@))]
  /\ UNCHANGED <<header, transactions, witness_root, step, version, prefill, mempool, filled,
                 asked, offsets, answered, received_root>>

-----------------------------------------------------------------------------
(* The receiver. *)

\* Mutant: the number of transactions is not checked.
TooMany_Never(message) == FALSE

\* HeaderAndShortIdsDecoder::end
TooMany(message) == Len(message.short_ids) + Len(message.prefilled_txs) > U16 - 1

\* The places that differentially encoded indices stand for.
Places(distances) ==
  [k \in DOMAIN distances |-> Sum(SubSeq(distances, 1, k)) + k - 1]

\* The receiver knows a transaction as it is, or with another witness, or not at all; or
\* it knows some other one with the same short id.
Known(tx, how) ==
  CASE how = "it" -> Some(tx)
    [] how = "malleated" -> Some([tx EXCEPT !.witness = <<"malleated">>])
    [] how = "collision" -> Some([tx EXCEPT !.name = -tx.name])
    [] how = "nothing" -> None

Mempools ==
  {[i \in DOMAIN transactions |-> IF i - 1 \in DOMAIN how THEN how[i - 1] ELSE "it"] :
     how \in [1..FewTxs -> {"it", "malleated", "collision", "nothing"}]}

\* What of it the short id selects: in version 2 no transaction with another witness.
Matches(short_id, known) ==
  {m \in known : \/ compute_wtxid(m) = short_id
                 \/ version = 1 /\ compute_txid(m) = compute_txid(short_id)
                 \/ m.name = -short_id.name}

Lookup(short_id) ==
  LET known == {m[1] : m \in {Known(transactions[i], mempool'[i]) : i \in DOMAIN transactions} \ {None}}
      found == Matches(short_id, known)
  IN  IF found = {} THEN None ELSE Some(CHOOSE m \in found : TRUE)

\* The receiver decodes the announcement and fills in what it knows.
ReceiveAnnounced ==
  LET prefilled == announced.prefilled_txs
      places == Places([k \in DOMAIN prefilled |-> prefilled[k].idx])
      count == Len(prefilled) + Len(announced.short_ids)
      others == SetToSortSeq((0..(count - 1)) \ ToSet(places), <)
  IN  /\ step = "announced"
      /\ mempool' \in Mempools
      /\ IF TooMany(announced) \/ \E k \in DOMAIN places : places[k] >= count
           THEN step' = "refused" /\ UNCHANGED <<filled, asked>>
           ELSE /\ step' = "filled"
                /\ filled' =
                     [i \in 1..count |->
                        IF i - 1 \in ToSet(places)
                          THEN Some(prefilled[CHOOSE k \in DOMAIN places : places[k] = i - 1].tx)
                          ELSE Lookup(announced.short_ids[CHOOSE k \in DOMAIN others : others[k] = i - 1])]
                /\ asked' = SetToSortSeq({i - 1 : i \in {i \in DOMAIN filled' : filled'[i] = None}}, <)
      /\ UNCHANGED <<header, transactions, witness_root, version, prefill, announced, offsets,
                     answered, received_root, damaged>>

\* BlockTransactionsRequest::from_unsorted_indices of indices that may come twice; the
\* subtraction panics on these, or wraps.
Request(indexes) ==
  /\ step = "filled"
  /\ LET difference(k) == indexes[k] - (IF k = 1 THEN 0 ELSE indexes[k - 1] + 1)
     IN  \/ /\ step' = "requested"
            /\ offsets' = [k \in DOMAIN indexes |-> difference(k) % Usize]
         \/ /\ \E k \in DOMAIN indexes : difference(k) < 0
            /\ step' = "panic" /\ UNCHANGED offsets
  /\ asked' = indexes
  /\ UNCHANGED <<header, transactions, witness_root, version, prefill, announced, mempool, filled,
                 answered, received_root, damaged>>

RequestMissing == Request(asked)
RequestTwice == asked # <<>> /\ Request(<<asked[1]>> \o asked)

DamageRequest ==
  /\ step = "requested" /\ ~damaged
  /\ damaged' = TRUE
  /\ \E k \in DOMAIN offsets : \E offset \in {0, 1, Usize - 1} :
       offsets' = [offsets EXCEPT ![k] = offset]
  /\ UNCHANGED <<header, transactions, witness_root, step, version, prefill, announced, mempool,
                 filled, asked, answered, received_root>>

\* BlockTransactionsRequest::indices: no sum overflows, the one past the last included.
indices ==
  IF \E k \in DOMAIN offsets : Places(offsets)[k] + 1 >= Usize THEN None
  ELSE Some(Places(offsets))

\* BlockTransactions::from_request
FromRequest ==
  /\ step = "requested"
  /\ IF indices = None \/ \E k \in DOMAIN offsets : indices[1][k] >= Len(transactions)
       THEN step' = "OutOfRange" /\ UNCHANGED answered
       ELSE /\ step' = "answered"
            /\ answered' = [k \in DOMAIN offsets |-> transactions[indices[1][k] + 1]]
  /\ UNCHANGED <<header, transactions, witness_root, version, prefill, announced, mempool, filled,
                 asked, offsets, received_root, damaged>>

DamageAnswer ==
  /\ step = "answered" /\ ~damaged
  /\ damaged' = TRUE
  /\ \E k \in DOMAIN answered : \E tx \in {Stripped(answered[k]), transactions[1]} :
       answered' = [answered EXCEPT ![k] = tx]
  /\ UNCHANGED <<header, transactions, witness_root, step, version, prefill, announced, mempool,
                 filled, asked, offsets, received_root>>

\* What the receiver assembles out of both messages is validated like any other block.
Assembled ==
  [i \in DOMAIN filled |->
     IF filled[i] # None THEN filled[i][1]
     ELSE answered[CHOOSE k \in DOMAIN asked : asked[k] = i - 1]]

Assemble ==
  /\ step = "answered" /\ Len(answered) = Len(asked)
  /\ LET v == validate(header, Assembled)
     IN  /\ step' = IF v.verdict = "checked" THEN "relayed" ELSE "unusable"
         /\ received_root' = v.root
         /\ filled' = [i \in DOMAIN filled |-> Some(Assembled[i])]
  /\ UNCHANGED <<header, transactions, witness_root, version, prefill, announced, mempool, asked,
                 offsets, answered, damaged>>

RelayOver ==
  /\ step \in {"NoTransactions", "InvalidCoinbase", "InvalidMerkleRoot", "InvalidWitnessCommitment",
               "UnknownVersion", "InvalidPrefill", "panic", "refused", "OutOfRange",
               "relayed", "unusable"}
  /\ UNCHANGED relayVars

RelayNext ==
  \/ Validate
  \/ \E v \in 1..3, wanted \in Prefills(Len(transactions)) : FromBlock(v, wanted)
  \/ DamageAnnounced \/ ReceiveAnnounced
  \/ RequestMissing \/ RequestTwice \/ DamageRequest
  \/ FromRequest \/ DamageAnswer
  \/ Assemble
  \/ RelayOver

RelaySpec == RelayInit /\ [][RelayNext]_relayVars

-----------------------------------------------------------------------------
\* Whatever was damaged, malleated or mistaken for another transaction: a block that the
\* receiver has checked under the sender's header is the sender's block, every witness
\* included, with the witness root that was cached for it.  (A root that is not bound to
\* all witnesses, or to the number of transactions, would leave room for another block.)
CheckedIsTheBlock ==
  step = "relayed" =>
    /\ [i \in DOMAIN filled |-> filled[i][1]] = transactions
    /\ received_root = witness_root
    /\ witness_root # None => witness_root = compute_witness_root(transactions)

\* The mempool knows nothing wrong that this version's short ids would select.
Unmistaken ==
  \A i \in DOMAIN mempool :
    mempool[i] \in IF version = 2 THEN {"it", "malleated", "nothing"} ELSE {"it", "nothing"}

\* from_block accepts the indices its documentation asks for and no others: ascending,
\* of transactions of the block, with or without the coinbase.
PrefillIsJudged ==
  step \in {"announced", "InvalidPrefill", "panic"} /\ ~damaged /\ filled = <<>> =>
    (step = "announced" <=>
       /\ \A k \in DOMAIN prefill : prefill[k] < Len(transactions)
       /\ \A j, k \in DOMAIN prefill : j < k => prefill[j] < prefill[k])

\* An announcement that the sender could make and that arrives as it was made leads to
\* the block: the places of prefilled transactions survive the differential encoding, its
\* 16 bits included, and a request names exactly the transactions that are missing.
\* Version 1 strips witnesses, so it cannot carry a block that has any.
UndamagedRelayArrives ==
  ~damaged =>
    /\ PrefillIsJudged
    /\ step = "refused" => Len(transactions) > U16 - 1
    /\ step = "answered" /\ Cardinality(ToSet(asked)) = Len(asked) =>
         answered = [k \in DOMAIN asked |-> transactions[asked[k] + 1]]
    /\ step = "unusable" =>
         ~Unmistaken \/ (version = 1 /\ \E i \in DOMAIN transactions : transactions[i].witness # <<>>)
    /\ step = "OutOfRange" => Cardinality(ToSet(asked)) < Len(asked)

\* The documentation of from_block: it returns an error if the prefill indexes are invalid.
PrefillIsAnError == step = "panic" => asked # <<>>

=============================================================================
