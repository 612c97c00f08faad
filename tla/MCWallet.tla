------------------------------- MODULE MCWallet -------------------------------
(***************************************************************************)
(* What a wallet computes, for TLC.  `topic' says what is at work: the     *)
(* taproot builder, signature hashes, derived keys, keys and signatures,   *)
(* scripts, spends of taproot outputs, sizes, base58, addresses, amounts,  *)
(* texts of integers.                                                      *)
(*                                                                         *)
(* The topics share nothing.  What the others keep is `idle'; the taproot  *)
(* builder rests empty.                                                    *)
(***************************************************************************)
EXTENDS TaprootBuilder, Sequences

CONSTANTS MaxData, DataBytes   \* bound: bytes of data in base58

VARIABLES
  topic,
  signed, spent, change, cache, call, answer,     \* signature hashes
  signer, path, watcher, since, refused,          \* derived keys
  secret, public, calls, received,                \* keys
  script, built,                                  \* scripts
  info, witness, meant,                           \* spends
  inputs, outputs,                                \* sizes
  data,                                           \* base58
  paid_to, network, shown, parsed, spends,        \* addresses
  text, total, steps,                             \* amounts
  number, numeral, format, reading                \* texts of integers

idle == "idle"

taprootVars == <<branch, phase, node, depth, asked, heap, weights, added, script_map, todo,
                 original>>
sighashVars == <<signed, spent, change, cache, call, answer>>
bip32Vars == <<signer, path, watcher, since, refused>>
keyVars == <<secret, public, calls, received>>
scriptVars == <<script, built>>
spendVars == <<info, witness, meant>>
sizeVars == <<inputs, outputs>>
addressVars == <<paid_to, network, shown, parsed, spends>>
amountVars == <<text, total, steps>>
numeralVars == <<number, numeral, format, reading>>
walletVars == <<topic, taprootVars, sighashVars, bip32Vars, keyVars, scriptVars, spendVars,
                sizeVars, data, addressVars, amountVars, numeralVars>>

-----------------------------------------------------------------------------
(* Taproot: no weights at all, one, ties, a chain, a chain that is too deep, sums   *)
(* beyond the largest weight.                                                       *)

WalletWeights ==
  {<<>>, <<3>>, <<3, 2, 5>>, <<1, 1, 2, 2>>, <<2, 2, 2, 2>>, <<1, 5, 2, 1>>,
   <<1, 1, 2, 4, 8>>, <<3, 1, 4, 1, 5>>, <<9, 8, 9, 7, 1>>}

(* Signature hashes: two inputs, and fewer, as many and more outputs; types with    *)
(* and without bits that have no meaning.                                           *)

TxPaying(values) ==
  [version |-> 2, lock_time |-> 5, outputs |-> values,
   inputs |-> <<[outpoint |-> 1, sequence |-> 0], [outpoint |-> 2, sequence |-> 7]>>]
Hashed == INSTANCE Sighash WITH
  Transactions <- {TxPaying(<<>>), TxPaying(<<3>>), TxPaying(<<3, 4>>)},
  PreviousOutputs <- {<<[amount |-> 1, script |-> 1], [amount |-> 2, script |-> 1]>>},
  RawTypes <- {0, 1, 2, 3, 4, 65, 129, 130, 131, 132, 258},
  tx <- signed

Derived == INSTANCE Bip32 WITH MAX_CHILD_INDEX <- 1, MaxDepth <- 3, Seeds <- {1}

(* Keys: a group of thirteen; first bytes of every kind, and others.                *)

KeyTweak(x, root) == (3 * x + 5 * root + 1) % 13
SomeBytes == {0, 1, 2, 3, 4, 6, 7, 9, 12, 13, 26, 27, 30, 31, 35, 128, 129, 239}
Pairs == INSTANCE Keys WITH
  ORDER <- 13, TweakHash <- KeyTweak, Roots <- {0, 1, 2}, Messages <- {1, 2},
  RawData <- UNION {[1 .. n -> SomeBytes] : n \in 1 .. 3}, MaxSteps <- 4,
  steps <- calls, data <- received

(* Scripts: bytes have four bits.  Every script of three bytes, and longer ones     *)
(* with pushes of each kind that are minimal, or not, or cut short.                 *)

Block(b, n) == [i \in 1 .. n |-> b]
ForeignScripts ==
  UNION {[1 .. len -> 0 .. 15] : len \in 1 .. 3}
    \cup {<<8, 0, 0, 9, 12>>, <<9, 0, 0, 8, 12>>, <<9, 0, 2, 9, 9, 9, 12>>,
          <<5, 0, 1, 0, 0>> \o Block(7, 16), <<5, 0, 0, 1, 0>> \o Block(7, 256),
          <<4, 0, 1>> \o Block(7, 16), <<4, 15, 0>> \o Block(7, 15),
          <<3, 2, 1, 1>>, <<3, 3, 1, 1, 1>>, <<3, 3, 1, 1>>}
Programs == INSTANCE Scripts WITH
  BYTE <- 16, MAX_DIRECT <- 2, MAX_NUM <- 2, OP_VERIFY <- 10, OP_CHECKSIG <- 11,
  RawScripts <- ForeignScripts,
  Slices <- {<<>>, <<0>>, <<1>>, <<2>>, <<3>>, <<8>>, <<9>>, <<10>>, <<1, 2>>, <<8, 1, 12>>,
             Block(1, 15), Block(1, 16)},
  Ints <- (-20 .. 20) \cup {-32768, -32767, -256, -255, -129, -128, -127, 127, 128, 129, 255,
                            256, 32767, 32768, 70000},
  MaxPushes <- 2

(* Spends: hashes of two bytes, proofs of two hashes; a script under two versions, a *)
(* leaf that is there twice, a version that may not be, elements that look like an   *)
(* annex, and control blocks too short, too long, uneven, or of no key.              *)

SumOf(bytes) == FoldLeft(LAMBDA sum, b : sum + b, 0, bytes)
TapLeaf(version, bytes) ==
  <<(7 * version + 5 * SumOf(bytes) + Len(bytes)) % 251, (version + 11 * SumOf(bytes)) % 256>>
TapBranch(a, b) ==
  <<(3 * a[1] + 5 * b[1] + 7 * a[2] + 1) % 251, (2 * a[1] + a[2] + 13 * b[2] + 6 * b[1]) % 256>>
TapTweaked(key, root) ==
  [key |-> key \o FlattenSeq(root), parity |-> SumOf(key \o FlattenSeq(root)) % 2]
HasPoint(key) == key[2] # 0
Spent == INSTANCE SpendWitness WITH
  TAPROOT_CONTROL_NODE_SIZE <- 2, TAPROOT_CONTROL_MAX_NODE_COUNT <- 2, IsKey <- HasPoint,
  LeafHash <- TapLeaf, BranchHash <- TapBranch, Tweaked <- TapTweaked,
  InternalKeys <- {<<7, 1>>, <<80, 3>>},
  Trees <- {<<<<<<80>>, 192>>>>, <<<<<<1>>, 80>>>>, <<<<<<1>>, 192>>, <<<<1>>, 82>>>>,
            <<<<<<1>>, 192>>, <<<<1>>, 194>>, <<<<80, 5>>, 192>>>>,
            <<<<<<1>>, 192>>, <<<<>>, 254>>, <<<<1>>, 192>>>>},
  Satisfactions <- {<<>>, <<<<80>>>>, <<<<1>>, <<>>>>},
  Elements <- {<<>>, <<1>>, <<80, 5>>}, Annexes <- {<<80>>, <<80, 7, 1>>},
  RawControls <- {<<192, 7>>, <<192, 7, 1>>, <<193, 7, 0>>, <<80, 7, 1>>, <<81, 7, 1>>,
                  <<193, 7, 1, 9, 9>>, <<192, 7, 1, 9>>, <<2, 7, 1, 1, 2, 3, 4>>,
                  <<2, 7, 1, 1, 2, 3, 4, 5, 6>>},
  MaxPushes <- 3

\* Lengths on both sides of each length of a compact size.
Sizes == INSTANCE TxSizes WITH
  COMPACT_1 <- 1, COMPACT_3 <- 15, COMPACT_5 <- 255, U32 <- 256,
  ScriptLengths <- {1, 2, 16, 64}, Witnesses <- {<<>>, <<0>>, <<1, 2>>, <<16>>, <<256>>},
  MaxInputs <- 2, MaxOutputs <- 2

(* Base58: short data, and data around the length at which the text leaves the      *)
(* stack; the first digits of a text as small and as large as they get.             *)

Checksum(bytes) ==
  LET count(m) == Cardinality({k \in DOMAIN bytes : (bytes[k] * (k + 1)) % m = 0})
  IN  [i \in 1 .. 4 |-> (count(i + 2) * 37 + count(i + 6) * 5 + Len(bytes)) % 256]
Text == INSTANCE Base58 WITH
  SHORT_OPT_BUFFER_LEN <- 128, Hash <- Checksum, Bytes <- DataBytes,
  Payloads <- {<<>>, Block(10, 90), Block(255, 88)}
                \cup {Block(b, n) : b \in {0, 1, 200}, n \in {10, 20, 33, 78, 88, 89, 91}}

(* Addresses: outputs of every kind, their likes with a byte more, less or          *)
(* another, texts with a wrong prefix, length or checksum, and every way in which   *)
(* the sigops of an input are hidden.                                               *)

APublicKey == Block(2, 33)
Multisig(m, n) ==
  <<80 + m>> \o FoldLeft(LAMBDA s, k : s \o <<33>> \o APublicKey, <<>>, Block(0, n)) \o <<80 + n, 174>>
P2sh(b) == <<169, 20>> \o Block(b, 20) \o <<135>>
P2pkh(b) == <<118, 169, 20>> \o Block(b, 20) \o <<136, 172>>
Program(version, b, len) == <<version, len>> \o Block(b, len)
PaidScripts ==
  UNION {{P2pkh(b), P2sh(b), Program(0, b, 20), Program(0, b, 32), Program(81, b, 32),
          Program(82, b, 32), Program(81, b, 20), Program(96, b, 40), Program(0, b, 21)} :
            b \in {0, 1, 255}}
    \cup {<<>>, <<106>>, <<106, 2, 7, 7>>, <<81, 2, 78, 115>>, <<81, 2, 78, 116>>,
          <<81, 2, 78>>, <<97, 2, 78, 115>>, <<33>> \o APublicKey \o <<172>>,
          <<65>> \o Block(4, 65) \o <<172>>, Multisig(1, 2), Multisig(2, 2), Multisig(2, 1),
          <<118, 169, 20>> \o Block(7, 20) \o <<135, 172>>, <<169, 20>> \o Block(20, 20) \o <<136>>,
          Program(81, 1, 41)}

InBase58(digits) == [format |-> "base58", digits |-> digits]
InBech32(hrp, version, len) ==
  [format |-> "bech32", hrp |-> hrp, version |-> version, program |-> Block(7, len)]
Encoded(bytes) == Text!encode_unbounded(bytes)[2]
Misread(digits) == SubSeq(digits, 1, 8) \o <<3>> \o SubSeq(digits, 10, Len(digits))
ForeignTexts ==
  {InBase58(Encoded(<<p>> \o Block(b, n))) :
     p \in {0, 5, 111, 196, 7, 128}, b \in {0, 255}, n \in {19, 20, 21}}
    \cup {InBase58(d) : d \in {<<>>, <<0, 58>>, <<0, 0>>, Encoded(<<0>> \o Block(3, 40)),
                               Misread(Encoded(<<0>> \o Block(1, 20)))}}
    \cup {InBech32(hrp, version, len) : hrp \in {"bc", "tb", "bcrt", "lq"},
            version \in {0, 1, 16, 17}, len \in {1, 20, 32, 40, 41}}

Pushed == INSTANCE Scripts WITH
  BYTE <- 256, MAX_DIRECT <- 75, MAX_NUM <- 16, OP_VERIFY <- 105, OP_CHECKSIG <- 172,
  RawScripts <- {}, Slices <- {}, Ints <- {}, MaxPushes <- 0
Push(bytes) == Pushed!push_slice_no_opt(bytes)
Unknown == <<-1>>
Input(prevout, script_sig, stack, cost) ==
  [prevout |-> prevout, script_sig |-> script_sig, witness |-> stack, cost |-> cost]
Signature == Push(Block(9, 70))
SomeSpends ==
  {Input(P2sh(n), <<0>> \o Signature \o Push(Multisig(1, n)), <<>>, 4 * n) : n \in {1, 3}}
    \cup {Input(Program(0, 5, 32), <<>>, <<<<>>, Multisig(1, n)>>, n) : n \in {2, 16}}
    \cup {Input(P2sh(1), Push(Program(0, 5, 32)), <<Multisig(1, 3)>>, 3),
          Input(P2sh(1), Push(Program(0, 5, 20)), <<APublicKey>>, 1),
          Input(Program(0, 5, 20), <<>>, <<APublicKey>>, 1),
          Input(Program(0, 5, 32), <<>>, <<>>, 0),
          Input(Program(81, 5, 32), <<>>, <<Multisig(1, 3)>>, 0),
          Input(Unknown, Push(Multisig(1, 3)), <<Multisig(1, 3)>>, 0),
          Input(P2sh(1), <<>>, <<>>, 0), Input(P2sh(1), <<81>>, <<>>, 0),
          Input(P2pkh(7), Signature \o Push(APublicKey), <<>>, 0),
          Input(<<33>> \o APublicKey \o <<172>>, Signature \o <<172, 174>>, <<>>, 0)}

Address == INSTANCE Addresses WITH
  ScriptPubkeys <- PaidScripts, Texts <- ForeignTexts, Spends <- SomeSpends,
  script <- paid_to, text <- shown, inputs <- spends

(* Amounts: 210 is all the money there is; texts of up to five characters.          *)

Money == INSTANCE Amounts WITH
  MAX_MONEY <- 210, I64_MAX <- 400, U64_MAX <- 800, KILO <- 5, Denominations <- {0, 1, 2},
  Rates <- {0, 1, 19, 20, 21, 39, 40, 41, 100, 210, 800},
  Weights <- {0, 1, 2, 3, 4, 5, 6, 9, 10, 11, 40},
  Operands <- {-210, -7, -2, -1, 0, 1, 2, 3, 150, 210},
  Symbols <- {0, 1, 5, 10, 11, 12, 13}, MaxText <- 5, MaxSum <- 2

(* Texts of integers: numbers of eight bits.  Digits up to one more than the largest *)
(* has, and shorter texts with prefixes, signs and characters of two bytes.          *)

ForeignNumerals ==
  LET short == UNION {[1 .. n -> (0 .. 3) \cup 101 .. 105] : n \in 0 .. 4}
      digits == UNION {[1 .. n -> 0 .. 3] : n \in 5 .. 6}
  IN  short \cup digits
        \cup {<<0, 101>> \o s : s \in {t \in short : Len(t) >= 3} \cup [1 .. 5 -> 0 .. 3]}
Spelled == INSTANCE IntegerTexts WITH
  Bits <- 2, HEX <- 4, DEC <- 3, CHUNK <- 2, DIGITS <- 6, U32 <- 12, Numerals <- ForeignNumerals

ASSUME WalletAssumption == Sizes!TxSizesAssumption /\ Spelled!IntegerTextsAssumption

-----------------------------------------------------------------------------
NoSighash ==
  /\ signed = idle /\ spent = idle /\ change = idle /\ cache = idle /\ call = idle
  /\ answer = idle
NoBip32 == signer = idle /\ path = idle /\ watcher = idle /\ since = idle /\ refused = idle
NoKeys == secret = idle /\ public = idle /\ calls = idle /\ received = idle
NoScripts == script = idle /\ built = idle
NoSizes == inputs = idle /\ outputs = idle
NoData == data = idle
NoSpends == info = idle /\ witness = idle /\ meant = idle
NoAddress ==
  /\ paid_to = idle /\ network = idle /\ shown = idle /\ parsed = idle /\ spends = idle
NoAmounts == text = idle /\ total = idle /\ steps = idle
NoNumerals == number = idle /\ numeral = idle /\ format = idle /\ reading = idle

NoneBefore == Init /\ NoSighash /\ NoBip32 /\ NoKeys
NoneBehind == NoScripts /\ NoSpends /\ NoSizes /\ NoData /\ NoAddress /\ NoAmounts /\ NoNumerals

TaprootBegins == topic = "taproot" /\ NoneBefore /\ NoneBehind
SighashBegins ==
  /\ topic = "sighash" /\ Init /\ Hashed!SighashInit
  /\ NoBip32 /\ NoKeys /\ NoneBehind
Bip32Begins ==
  /\ topic = "bip32" /\ Init /\ NoSighash
  /\ Derived!Bip32Init /\ NoKeys /\ NoneBehind
KeysBegin ==
  /\ topic = "keys" /\ Init /\ NoSighash /\ NoBip32
  /\ Pairs!KeysInit /\ NoneBehind
ScriptsBegin ==
  /\ topic = "scripts" /\ NoneBefore /\ Programs!ScriptInit
  /\ NoSpends /\ NoSizes /\ NoData /\ NoAddress /\ NoAmounts /\ NoNumerals
SpendsBegin ==
  /\ topic = "spends" /\ NoneBefore /\ NoScripts /\ Spent!SpendInit
  /\ NoSizes /\ NoData /\ NoAddress /\ NoAmounts /\ NoNumerals
SizesBegin ==
  /\ topic = "sizes" /\ NoneBefore /\ NoScripts /\ NoSpends /\ Sizes!SizesInit
  /\ NoData /\ NoAddress /\ NoAmounts /\ NoNumerals
DataBegins ==
  /\ topic = "base58" /\ NoneBefore /\ NoScripts /\ NoSpends /\ NoSizes /\ Text!Base58Init
  /\ NoAddress /\ NoAmounts /\ NoNumerals
AddressBegins ==
  /\ topic = "addresses" /\ NoneBefore /\ NoScripts /\ NoSpends /\ NoSizes /\ NoData
  /\ Address!AddressInit /\ NoAmounts /\ NoNumerals
AmountsBegin ==
  /\ topic = "amounts" /\ NoneBefore /\ NoScripts /\ NoSpends /\ NoSizes /\ NoData /\ NoAddress
  /\ Money!AmountInit /\ NoNumerals
NumeralsBegin ==
  /\ topic = "numerals" /\ NoneBefore /\ NoScripts /\ NoSpends /\ NoSizes /\ NoData /\ NoAddress
  /\ NoAmounts /\ Spelled!TextsInit

TaprootStep ==
  /\ topic = "taproot" /\ Next
  /\ UNCHANGED <<topic, sighashVars, bip32Vars, keyVars, scriptVars,
                 spendVars, sizeVars, data, addressVars, amountVars, numeralVars>>
SighashStep ==
  /\ topic = "sighash" /\ Hashed!SighashNext
  /\ UNCHANGED <<topic, taprootVars, bip32Vars, keyVars, scriptVars,
                 spendVars, sizeVars, data, addressVars, amountVars, numeralVars>>
Bip32Step ==
  /\ topic = "bip32" /\ Derived!Bip32Next
  /\ UNCHANGED <<topic, taprootVars, sighashVars, keyVars, scriptVars,
                 spendVars, sizeVars, data, addressVars, amountVars, numeralVars>>
KeysStep ==
  /\ topic = "keys" /\ Pairs!KeysNext
  /\ UNCHANGED <<topic, taprootVars, sighashVars, bip32Vars, scriptVars,
                 spendVars, sizeVars, data, addressVars, amountVars, numeralVars>>
ScriptsStep ==
  /\ topic = "scripts" /\ Programs!ScriptNext
  /\ UNCHANGED <<topic, taprootVars, sighashVars, bip32Vars, keyVars,
                 spendVars, sizeVars, data, addressVars, amountVars, numeralVars>>
SpendsStep ==
  /\ topic = "spends" /\ Spent!SpendNext
  /\ UNCHANGED <<topic, taprootVars, sighashVars, bip32Vars, keyVars,
                 scriptVars, sizeVars, data, addressVars, amountVars, numeralVars>>
SizesStep ==
  /\ topic = "sizes" /\ Sizes!SizesNext
  /\ UNCHANGED <<topic, taprootVars, sighashVars, bip32Vars, keyVars,
                 scriptVars, spendVars, data, addressVars, amountVars, numeralVars>>
DataStep ==
  /\ topic = "base58" /\ Text!Base58Next
  /\ UNCHANGED <<topic, taprootVars, sighashVars, bip32Vars, keyVars,
                 scriptVars, spendVars, sizeVars, addressVars, amountVars, numeralVars>>
AddressStep ==
  /\ topic = "addresses" /\ Address!AddressNext
  /\ UNCHANGED <<topic, taprootVars, sighashVars, bip32Vars, keyVars,
                 scriptVars, spendVars, sizeVars, data, amountVars, numeralVars>>
AmountsStep ==
  /\ topic = "amounts" /\ Money!AmountNext
  /\ UNCHANGED <<topic, taprootVars, sighashVars, bip32Vars, keyVars,
                 scriptVars, spendVars, sizeVars, data, addressVars, numeralVars>>
NumeralsStep ==
  /\ topic = "numerals" /\ Spelled!TextsNext
  /\ UNCHANGED <<topic, taprootVars, sighashVars, bip32Vars, keyVars,
                 scriptVars, spendVars, sizeVars, data, addressVars, amountVars>>

\* Calls of a library, which the caller may end at any time; the others run until they are
\* done.
CallerStops == topic # "taproot" /\ UNCHANGED walletVars

WalletInit ==
  \/ TaprootBegins \/ SighashBegins
  \/ Bip32Begins \/ KeysBegin \/ ScriptsBegin \/ SpendsBegin \/ SizesBegin \/ DataBegins
  \/ AddressBegins \/ AmountsBegin \/ NumeralsBegin
WalletNext ==
  \/ TaprootStep \/ SighashStep \/ Bip32Step
  \/ KeysStep \/ ScriptsStep \/ SpendsStep \/ SizesStep \/ DataStep \/ AddressStep
  \/ AmountsStep \/ NumeralsStep \/ CallerStops
WalletSpec == WalletInit /\ [][WalletNext]_walletVars

\* One topic alone.
AddressSpec == AddressBegins /\ [][AddressStep]_walletVars
Base58Spec == DataBegins /\ [][DataStep]_walletVars

-----------------------------------------------------------------------------
\* TaprootBuilder.NothingIsLost and RestoredIsTheSame: every leaf that was inserted is in
\* the tree, once, at its depth, in the order given, and a tree that was written and read
\* again is the same tree.
LeavesAreKept == NothingIsLost /\ RestoredIsTheSame

\* Sighash.SighashCommits: a signature commits to what its type names and to nothing else,
\* whatever was asked of the cache before.
SighashCommits == topic = "sighash" => Hashed!SighashCommits

\* Bip32.WatcherFollows and Keys.ObserverFollows: who sees public data only arrives at the
\* public key of the signer's private key.
PublicKeysFollow ==
  /\ topic = "bip32" => Derived!WatcherFollows
  /\ topic = "keys" => Pairs!ObserverFollows

\* Scripts.ScriptsReadBack: a script is read as the instructions it was built from.
ScriptsReadBack == topic = "scripts" => Programs!ScriptsReadBack

\* SpendWitness.SpendsReadBack, AnnexIsApart and ControlBytesAreUnique,
\* Addresses.AddressIsItsScript, Base58.Base58RoundTrips, Keys.EncodingsAreUnique, and
\* IntegerTexts.ShownIsRead and SpelledIsRead: what is read from a text or from bytes is
\* what was written, and where it should be unique has one text.
TextsReadBack ==
  /\ topic = "spends" =>
       Spent!SpendsReadBack /\ Spent!AnnexIsApart /\ Spent!ControlBytesAreUnique
  /\ topic = "addresses" => Address!AddressIsItsScript
  /\ topic = "base58" => Text!Base58RoundTrips
  /\ topic = "keys" => Pairs!EncodingsAreUnique
  /\ topic = "numerals" => Spelled!ShownIsRead /\ Spelled!SpelledIsRead


\* The documentation of matches_script_pubkey: "Returns true if the address creates a
\* particular script".
MatchesWhatItCreates == topic = "addresses" => Address!MatchesWhatItCreates

\* encode_unbounded expects its buffer to hold the text.
BufferHoldsTheText == topic = "base58" => Text!BufferHoldsTheText

=============================================================================
