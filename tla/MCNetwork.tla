------------------------------ MODULE MCNetwork ------------------------------
(***************************************************************************)
(* What a peer receives, for TLC.  `topic' says what is at work: the       *)
(* decoder of a message, the payloads of all of them field by field, the   *)
(* merkle tree or the partial merkle tree of a block, its validation and   *)
(* relay, a block filter, the addresses of peers, the streams of bytes     *)
(* below all of them, or the chain: the locks that wait for it, its        *)
(* targets and their arithmetic.                                           *)
(*                                                                         *)
(* The topics share nothing.  What the others keep is `idle'; the message  *)
(* decoder rests before its first byte.                                    *)
(***************************************************************************)
EXTENDS NetworkMessage

CONSTANTS
  Lows, Networks, MAX_LENGTH, MaxHops,                           \* of PeerAddresses
  LOCK_TIME_THRESHOLD, WINDOW, INTERVAL, LOW, LOCK_TYPE_MASK,    \* of LockTimes
  LOCK_TIME_DISABLE_FLAG_MASK, U32, LockValues, SequenceValues, Genesis, MaxHeight, MaxStep

VARIABLES
  topic,
  txids, build, stack, nodes, root, steps,                       \* the tree
  wanted, tree, damages, frames, returned, bits_used, hash_used, matches, indexes, outcome,
  left_over,                                                     \* of a leaf's number
  header, transactions, witness_root, step, announcement, prefill, announced, mempool,
  filled, asked, offsets, answered, received_root, damaged,      \* the relay
  outputs, spent, known, progress, todo, buffer, offset, content,
  query, isAny, sought, left, q, r, data, remaining, answer,     \* the filter
  taken,                                                         \* and the tree
  addr, encoder, sent, accepted, hops, carried,                  \* the peers
  object, message, sha, sip, poly, mac, cipher, okm, sealed,     \* the streams
  cmd, held, posted, origin, passed,                             \* the payloads
  given, asked_for, granted, delivered, call,                    \* the adapters
  chain, coins, waiting,                                         \* locks
  net, headers, operands                         \* targets, and their arithmetic

idle == "idle"

messageVars == <<version, wire, state, part, fpos, fphase, flimit, inner, payload_len,
                 bytes_consumed, checksum_engine, pc, rest, phase, pos, limit>>
treeVars == <<txids, build, stack, nodes, root, steps, wanted, tree, damages, frames, returned,
              bits_used, hash_used, matches, indexes, outcome, left_over>>
relayVars == <<header, transactions, witness_root, step, announcement, prefill, announced,
               mempool, filled, asked, offsets, answered, received_root, damaged>>
filterVars == <<outputs, spent, known, progress, todo, buffer, offset, content, query, isAny,
                sought, left, q, r, data, remaining, answer>>
peerVars == <<addr, encoder, sent, accepted, hops, carried>>
streamVars == <<object, message, sha, sip, poly, mac, cipher, okm, sealed>>
payloadVars == <<cmd, held, posted, origin, passed>>
ioVars == <<given, asked_for, granted, delivered, call>>
chainVars == <<chain, coins, waiting, net, headers, operands>>
networkVars == <<topic, messageVars, treeVars, relayVars, filterVars, taken, peerVars,
                 streamVars, payloadVars, ioVars, chainVars>>

-----------------------------------------------------------------------------
(* The instances. *)

\* Lists of two transaction ids, up to eight of them; a partial tree is damaged twice.
Tree == INSTANCE PartialMerkleTree WITH
  Txids <- {1, 2}, MaxLeaves <- 8, StackLimit <- 2,
  MaxTransactions <- 6, MaxBlock <- 5, MaxDamages <- 2,
  pc <- steps, n <- left_over

Relay == INSTANCE BlockRelay WITH
  MaxTxs <- 5, FewTxs <- 2, U16 <- 4, Usize <- 8, version <- announcement

\* Hashes of scripts up to the largest one, two of them next to each other.
ScriptHash(s) == <<0, 9, 3, 12, 15>>[s]
Filter == INSTANCE Filters WITH
  BYTE <- 3, WORD <- 2, P <- 2, M <- 5, Hashes <- 16, Hash <- ScriptHash,
  Scripts <- 1 .. 5, Empty <- 1, OpReturn <- 2, MaxOutputs <- 2, MaxQuery <- 2,
  phase <- progress

Peers == INSTANCE PeerAddresses

\* Keys and messages shorter than, as long as and longer than a block; as in the code the
\* counter of HKDF holds the number of the last block and no more.
Engines == INSTANCE Streams WITH
  BLOCK_SIZE <- 4, LENGTH_SIZE <- 2, HASH_LEN <- 2, WORD <- 3, TAG_BLOCK <- 3,
  CHACHA_BLOCKSIZE <- 4, MAX_OUTPUT_BLOCKS <- 4, U8_MAX <- 4,
  Keys <- {0, 4, 5}, Chunks <- {1, 3, 6}, MaxMessage <- 9, MaxOffset <- 9

\* Hashes of two bytes, indexes of transactions up to a limit that a block can reach, and
\* payloads passed on twice.
Posts == INSTANCE Payloads WITH HASH_LEN <- 2, U16_MAX <- 4, MaxPassed <- 2

Adapters == INSTANCE IoAdapters WITH
  SourceLength <- 5, Limits <- {0, 3, 5, 7}, Wanted <- {0, 1, 3, 6}, CHUNK <- 2,
  limit <- asked_for, remaining <- granted

\* Chains of five blocks whose timestamps go up and down around the threshold.
MCGenesis == {<<8, 8, 9, 8, 10>>, <<8, 10, 9, 12, 10>>}
Locks == INSTANCE LockTimes WITH tx <- waiting

\* A network like mainnet, like testnet without and with BIP 94, and like regtest, whose
\* limit no retarget could be computed at.
Net(easiest, min_difficulty, no_retargeting, bip94) ==
  [pow_target_timespan |-> 12, pow_target_spacing |-> 4, max_attainable_target |-> easiest,
   allow_min_difficulty_blocks |-> min_difficulty, no_pow_retargeting |-> no_retargeting,
   enforce_bip94 |-> bip94]
Compact(expt, mant) == [expt |-> expt, mant |-> mant]
Targets == INSTANCE Difficulty WITH
  Base <- 4, Digits <- 6,
  Nets <- {Net(80, FALSE, FALSE, FALSE), Net(80, TRUE, FALSE, FALSE),
           Net(80, TRUE, FALSE, TRUE), Net(1984, TRUE, TRUE, FALSE)},
  StartBits <- {Compact(4, 12), Compact(3, 31), Compact(3, 5)},
  MaxBlocks <- 7, Times <- {-1, 4, 9, 25}

\* All numbers of eight bits.
Numbers == INSTANCE U256 WITH Bits <- 2

ASSUME NetworkAssumption ==
  /\ Tree!MerkleAssumption /\ Tree!PartialAssumption /\ Relay!RelayAssumption
  /\ Filter!FiltersAssumption /\ Peers!PeerAssumption /\ Engines!StreamsAssumption
  /\ Posts!PayloadsAssumption
  /\ Adapters!IoAssumption /\ Locks!LockTimesAssumption /\ Targets!DifficultyAssumption
  /\ Numbers!U256Assumption

-----------------------------------------------------------------------------
MessageRests ==
  /\ version = 1 /\ wire = Encode(Message("verack", "verack", 0))
  /\ state = "Header" /\ part = PartOf(state, 0, None)
  /\ inner = None /\ payload_len = <<>> /\ bytes_consumed = 0 /\ checksum_engine = 0
  /\ fpos = 0 /\ fphase = "more" /\ flimit = HeaderLen
  /\ pc = "idle" /\ rest = 0 /\ phase = "more" /\ pos = 0 /\ limit = HeaderLen
NoTree ==
  /\ txids = idle /\ build = idle /\ stack = idle /\ nodes = idle /\ root = idle /\ steps = idle
  /\ wanted = idle /\ tree = idle /\ damages = idle /\ frames = idle /\ returned = idle
  /\ bits_used = idle /\ hash_used = idle /\ matches = idle /\ indexes = idle
  /\ outcome = idle /\ left_over = idle
NoRelay ==
  /\ header = idle /\ transactions = idle /\ witness_root = idle /\ step = idle
  /\ announcement = idle /\ prefill = idle /\ announced = idle /\ mempool = idle
  /\ filled = idle /\ asked = idle /\ offsets = idle /\ answered = idle
  /\ received_root = idle /\ damaged = idle
NoFilter ==
  /\ outputs = idle /\ spent = idle /\ known = idle /\ progress = idle /\ todo = idle
  /\ buffer = idle /\ offset = idle /\ content = idle /\ query = idle /\ isAny = idle
  /\ sought = idle /\ left = idle /\ q = idle /\ r = idle /\ data = idle
  /\ remaining = idle /\ answer = idle
NoPeers ==
  /\ addr = idle /\ encoder = idle /\ sent = idle /\ accepted = idle /\ hops = idle
  /\ carried = idle
NoStreams ==
  /\ object = idle /\ message = idle /\ sha = idle /\ sip = idle /\ poly = idle /\ mac = idle
  /\ cipher = idle /\ okm = idle /\ sealed = idle
NoPayload == cmd = idle /\ held = idle /\ posted = idle /\ origin = idle /\ passed = idle
NoLocks == chain = idle /\ coins = idle /\ waiting = idle
NoTargets == net = idle /\ headers = idle
NoNumbers == operands = idle
NoChain == NoLocks /\ NoTargets /\ NoNumbers
NoAdapters == given = idle /\ asked_for = idle /\ granted = idle /\ delivered = idle /\ call = idle

MessageBegins ==
  /\ topic = "message" /\ Init
  /\ NoChain /\ NoTree /\ NoRelay /\ NoFilter /\ taken = idle /\ NoPeers /\ NoStreams /\ NoPayload /\ NoAdapters
TreeBegins ==
  /\ topic = "tree" /\ Tree!Init
  /\ MessageRests /\ NoChain /\ NoRelay /\ NoFilter /\ NoPeers /\ NoStreams /\ NoPayload /\ NoAdapters
RelayBegins ==
  /\ topic = "relay" /\ Relay!RelayInit
  /\ MessageRests /\ NoChain /\ NoTree /\ NoFilter /\ taken = idle /\ NoPeers /\ NoStreams /\ NoPayload /\ NoAdapters
FilterBegins ==
  /\ topic = "filter" /\ Filter!FiltersInit
  /\ MessageRests /\ NoChain /\ NoTree /\ NoRelay /\ NoPeers /\ NoStreams /\ NoPayload /\ NoAdapters
PeersBegin ==
  /\ topic = "peers" /\ Peers!PeersInit
  /\ MessageRests /\ NoChain /\ NoTree /\ NoRelay /\ NoFilter /\ taken = idle /\ NoStreams /\ NoPayload /\ NoAdapters
StreamsBegin ==
  /\ topic = "streams" /\ Engines!StreamsInit
  /\ MessageRests /\ NoChain /\ NoTree /\ NoRelay /\ NoFilter /\ taken = idle /\ NoPeers /\ NoPayload
  /\ NoAdapters
AdaptersBegin ==
  /\ topic = "adapters" /\ Adapters!IoInit
  /\ MessageRests /\ NoChain /\ NoTree /\ NoRelay /\ NoFilter /\ taken = idle /\ NoPeers /\ NoStreams
  /\ NoPayload
PayloadsBegin ==
  /\ topic = "payloads" /\ Posts!PayloadsInit
  /\ MessageRests /\ NoChain /\ NoTree /\ NoRelay /\ NoFilter /\ taken = idle /\ NoPeers /\ NoStreams
  /\ NoAdapters

OthersRest ==
  /\ MessageRests /\ NoTree /\ NoRelay /\ NoFilter /\ taken = idle /\ NoPeers /\ NoStreams
  /\ NoPayload /\ NoAdapters
LocksBegin == topic = "locks" /\ Locks!LockInit /\ NoTargets /\ NoNumbers /\ OthersRest
TargetsBegin == topic = "targets" /\ Targets!DifficultyInit /\ NoLocks /\ NoNumbers /\ OthersRest
NumbersBegin ==
  /\ topic = "numbers" /\ operands \in {<<a>> : a \in Numbers!U256s}
  /\ NoLocks /\ NoTargets /\ OthersRest

MessageStep ==
  /\ topic = "message" /\ MessageNext
  /\ UNCHANGED <<topic, treeVars, relayVars, filterVars, taken, peerVars, streamVars, payloadVars, ioVars, chainVars>>
TreeStep ==
  /\ topic = "tree" /\ Tree!Next
  /\ UNCHANGED <<topic, messageVars, relayVars, filterVars, peerVars, streamVars, payloadVars, ioVars, chainVars>>
RelayStep ==
  /\ topic = "relay" /\ Relay!RelayNext
  /\ UNCHANGED <<topic, messageVars, treeVars, filterVars, taken, peerVars, streamVars, payloadVars, ioVars, chainVars>>
FilterStep ==
  /\ topic = "filter" /\ Filter!FiltersNext
  /\ UNCHANGED <<topic, messageVars, treeVars, relayVars, peerVars, streamVars, payloadVars, ioVars, chainVars>>
PeersStep ==
  /\ topic = "peers" /\ Peers!PeersNext
  /\ UNCHANGED <<topic, messageVars, treeVars, relayVars, filterVars, taken, streamVars, payloadVars, ioVars, chainVars>>
StreamsStep ==
  /\ topic = "streams" /\ Engines!StreamsNext
  /\ UNCHANGED <<topic, messageVars, treeVars, relayVars, filterVars, taken, peerVars, payloadVars, ioVars, chainVars>>
PayloadsStep ==
  /\ topic = "payloads" /\ Posts!PayloadsNext
  /\ UNCHANGED <<topic, messageVars, treeVars, relayVars, filterVars, taken, peerVars,
                 streamVars, ioVars, chainVars>>
AdaptersStep ==
  /\ topic = "adapters" /\ Adapters!IoNext
  /\ UNCHANGED <<topic, messageVars, treeVars, relayVars, filterVars, taken, peerVars,
                 streamVars, payloadVars, chainVars>>
LocksStep ==
  /\ topic = "locks" /\ Locks!LockNext
  /\ UNCHANGED <<topic, messageVars, treeVars, relayVars, filterVars, taken, peerVars,
                 streamVars, payloadVars, ioVars, net, headers, operands>>
TargetsStep ==
  /\ topic = "targets" /\ Targets!DifficultyNext
  /\ UNCHANGED <<topic, messageVars, treeVars, relayVars, filterVars, taken, peerVars,
                 streamVars, payloadVars, ioVars, chain, coins, waiting, operands>>
\* A second operand is given.
NumbersStep ==
  /\ topic = "numbers" /\ Len(operands) = 1
  /\ \E b \in Numbers!U256s : operands' = Append(operands, b)
  /\ UNCHANGED <<topic, messageVars, treeVars, relayVars, filterVars, taken, peerVars,
                 streamVars, payloadVars, ioVars, chain, coins, waiting, net, headers>>

\* Calls of a library, which the caller may end at any time; the others run until they are
\* done.
CallerStops ==
  /\ topic \in {"filter", "peers", "streams", "payloads", "adapters", "numbers"}
  /\ UNCHANGED networkVars

NetworkInit ==
  \/ MessageBegins \/ TreeBegins \/ RelayBegins \/ FilterBegins \/ PeersBegin
  \/ StreamsBegin \/ PayloadsBegin \/ AdaptersBegin \/ LocksBegin \/ TargetsBegin \/ NumbersBegin
NetworkNext ==
  \/ MessageStep \/ TreeStep \/ RelayStep \/ FilterStep \/ PeersStep \/ StreamsStep
  \/ PayloadsStep \/ AdaptersStep \/ LocksStep \/ TargetsStep \/ NumbersStep \/ CallerStops
NetworkSpec == NetworkInit /\ [][NetworkNext]_networkVars

\* One topic alone.
RelaySpec == RelayBegins /\ [][RelayStep]_networkVars
LocksSpec == LocksBegin /\ [][LocksStep]_networkVars
StreamsSpec == StreamsBegin /\ [][StreamsStep]_networkVars

-----------------------------------------------------------------------------
\* MerkleTree.RootIsTextbook and RootBindsTheList, PartialMerkleTree.MatchesComeBack and
\* ExtractedIsInTheBlock: every build of calculate_root answers the root that Bitcoin
\* defines, a root is the root of one list only, an undamaged partial tree gives back what
\* it was asked to prove, and no tree at all proves what is not in the block.
TreesProveTheBlock ==
  topic = "tree" =>
    /\ Tree!RootIsTextbook /\ Tree!RootBindsTheList
    /\ Tree!MatchesComeBack /\ Tree!ExtractedIsInTheBlock

\* Payloads.PayloadsAreTheSame: what a peer accepts is what was sent, it goes on as the bytes
\* it came with, and the identifiers, locators and chains computed of it are those of the
\* sender.
PayloadsAreTheSame == topic = "payloads" => Posts!PayloadsAreTheSame

\* BlockRelay.CheckedIsTheBlock: one header has one checked block, witnesses included.
CheckedIsTheBlock == topic = "relay" => Relay!CheckedIsTheBlock

\* BlockRelay.UndamagedRelayArrives: an undamaged announcement leads to the block.
UndamagedRelayArrives == topic = "relay" => Relay!UndamagedRelayArrives

\* The documentation of HeaderAndShortIds::from_block: it returns an error if the prefill
\* indexes are invalid.
PrefillIsAnError == topic = "relay" => Relay!PrefillIsAnError

\* Filters.FilterAnswers: a filter contains what its block spends and creates, and no reader
\* sees anything but what the writer wrote.
FilterAnswers == topic = "filter" => Filter!FilterAnswers

\* PeerAddresses.AddressesSpread: an address reaches a peer as it was, or not at all.
AddressesSpread == topic = "peers" => Peers!AddressesSpread

\* Streams.StreamsAreWhole and IoAdapters.TakeIsAPrefix: no engine and no reader shows into
\* which pieces its bytes were cut.
PiecesAreInvisible ==
  /\ topic = "streams" => Engines!StreamsAreWhole
  /\ topic = "adapters" => Adapters!TakeIsAPrefix

\* LockTimes.SatisfiedIsMineable, ImpliedIsSatisfied and SecondsAreWaited: a relative lock or
\* a lock by time is satisfied exactly if consensus admits the transaction to the next block;
\* a lock by height is whenever consensus does (the converse is Locks!HeightLockIsMineable,
\* which fails); a lock that another one implies is satisfied with it; and a time that was
\* asked for has passed.  The last says nothing of the transaction, and is asked with one.
LocksOpenInTime ==
  topic = "locks" =>
    /\ Locks!SatisfiedIsMineable /\ Locks!ImpliedIsSatisfied
    /\ waiting = [lock_time |-> 0, sequences |-> <<0, 0>>] => Locks!SecondsAreWaited

\* LockTimes.StaysSatisfied: a lock that was satisfied stays so while the chain grows.
SatisfiedStays == [][topic = "locks" => Locks!StaysSatisfied]_networkVars

\* LockTimes.HeightLockIsMineable: the note on from_height, a transaction locked to height h
\* can go into the block h + 1 at the earliest.
HeightLockIsMineable == topic = "locks" => Locks!HeightLockIsMineable

\* Difficulty.EpochKeepsItsTarget, RetargetIsBounded and CompactIsFloor, and the laws of
\* U256: the targets of a chain are those of consensus, and what they are computed with is
\* arithmetic.
TargetsAreConsensus ==
  /\ topic = "targets" =>
       Targets!EpochKeepsItsTarget /\ Targets!RetargetIsBounded /\ Targets!CompactIsFloor
  /\ topic = "numbers" /\ Len(operands) = 2 =>
       /\ Numbers!ArithmeticIsExact(operands[1], operands[2])
       /\ Numbers!InverseIsWork(operands[1], operands[2])

\* The documentation of Hkdf::expand: it returns MaxLengthError if the output is longer than
\* 255 blocks.
ExpandsToTheMaximum == topic = "streams" => Engines!ExpandsToTheMaximum

=============================================================================
