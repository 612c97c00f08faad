------------------------------- MODULE Bip32 -------------------------------
\* bitcoin_key_expression::bip32: a signer derives private keys from a master key along a
\* path, a watcher derives public keys from an extended public key exported on the way, and
\* both write their keys and their paths as text and read them back.
\*
\* A private key is the formal sum of the scalars added to it, a public key its image under
\* the generator, HMAC-SHA512 and HASH160 injective tags over their inputs, and a text the
\* list of its words.
EXTENDS Naturals, Sequences, SequencesExt

CONSTANTS
  MAX_CHILD_INDEX,   \* 2^31 - 1
  MaxDepth,          \* what the u8 depth of a key can hold
  Seeds

HARDENED_FLAG == MAX_CHILD_INDEX + 1

VARIABLES
  signer,     \* the signer's extended private key
  path,       \* the child numbers from the master key to it
  watcher,    \* the extended public key that was exported, or none
  since,      \* the path below the exported key
  refused     \* the last derivation went too deep

bip32Vars == <<signer, path, watcher, since, refused>>

Ok(v) == <<"ok", v>>
Err(name) == <<"err", name>>
IsOk(r) == r[1] = "ok"

(********************************** Child numbers *********************************)

ChildNumbers == 0 .. HARDENED_FLAG + MAX_CHILD_INDEX
from_normal_idx(i) == IF i <= MAX_CHILD_INDEX THEN Ok(i) ELSE Err("IndexOutOfRange")
from_hardened_idx(i) ==
  IF i <= MAX_CHILD_INDEX THEN Ok(HARDENED_FLAG + i) ELSE Err("IndexOutOfRange")
index(n) == n % HARDENED_FLAG
is_hardened(n) == n >= HARDENED_FLAG
increment(n) ==
  IF is_hardened(n) THEN from_hardened_idx(index(n) + 1) ELSE from_normal_idx(index(n) + 1)

\* RelativeDerivationPathIterator: the child numbers from the given one on.
children_from(start) ==
  LET From[n \in ChildNumbers] ==
        <<n>> \o (IF IsOk(increment(n)) THEN From[increment(n)[2]] ELSE <<>>)
  IN  From[start]

(************************************ Path texts **********************************)

\* Display for ChildNumber and for the paths; the alternate form marks with an h.
Word(w) == <<w>>
Number(n) == <<"number", n>>
ChildText(n, mark) ==
  IF is_hardened(n) THEN <<Number(index(n)), Word(mark)>> ELSE <<Number(index(n))>>
PathText(p, mark) ==
  FoldLeft(LAMBDA text, n : (IF text = <<>> THEN <<>> ELSE text \o <<Word("/")>>)
                              \o ChildText(n, mark), <<>>, p)
AbsoluteText(p, mark) ==
  <<Word("m")>> \o (IF p = <<>> THEN <<>> ELSE <<Word("/")>> \o PathText(p, mark))

IsWord(w, s) == w = Word(s)

\* ChildNumber::from_str of one part of a path, an error value for what does not parse.
ParseChild(part) ==
  IF part = <<>> THEN Err("EmptyChild")
  ELSE LET hardened == IsWord(Last(part), "'") \/ IsWord(Last(part), "h")
           number == IF hardened THEN Front(part) ELSE part
       IN  IF ~(Len(number) = 1 /\ number[1][1] = "number") THEN Err("ParseInt")
           ELSE IF hardened THEN from_hardened_idx(number[1][2])
           ELSE from_normal_idx(number[1][2])

\* str::split: the parts between the separators.
Split(text) ==
  FoldLeft(LAMBDA parts, w :
             IF IsWord(w, "/") THEN Append(parts, <<>>)
             ELSE Append(Front(parts), Append(Last(parts), w)), <<<<>>>>, text)

ParseParts(text) ==
  LET parts == [k \in DOMAIN Split(text) |-> ParseChild(Split(text)[k])]
      bad == {k \in DOMAIN parts : ~IsOk(parts[k])}
  IN  IF bad = {} THEN Ok([k \in DOMAIN parts |-> parts[k][2]])
      ELSE parts[CHOOSE k \in bad : \A other \in bad : k <= other]

StartsWithMaster(text) == /\ text # <<>> /\ IsWord(text[1], "m")
                          /\ Len(text) = 1 \/ IsWord(text[2], "/")

\* RelativeDerivationPath::from_str and AbsoluteDerivationPath::from_str.
parse_relative(text) ==
  IF text = <<>> THEN Ok(<<>>)
  ELSE IF StartsWithMaster(text) THEN Err("UnexpectedMasterPrefix") ELSE ParseParts(text)
parse_absolute(text) ==
  IF ~StartsWithMaster(text) THEN Err("MissingMasterPrefix")
  ELSE IF Len(text) = 1 THEN Ok(<<>>) ELSE ParseParts(SubSeq(text, 3, Len(text)))

(********************************** Extended keys *********************************)

Hmac(key, data) == <<"hmac", key, data>>
Scalar(hmac) == <<"left", hmac>>
from_hmac(hmac) == <<"right", hmac>>
Point(sum) == <<"point", sum>>                        \* PublicKey::from_secret_key
add_tweak(sum, scalar) == Append(sum, scalar)
add_exp_tweak(point, scalar) == Point(Append(point[2], scalar))
Fingerprint(point) == <<"hash160", point>>
NoFingerprint == <<>>

\* Xpriv::new_master.
new_master(network, seed) ==
  LET hmac == Hmac(<<"Bitcoin seed">>, <<seed>>)
  IN  [network |-> network, depth |-> 0, parent_fingerprint |-> NoFingerprint,
       child_number |-> 0, private_key |-> <<Scalar(hmac)>>, chain_code |-> from_hmac(hmac)]

\* Xpub::from_xpriv.
from_xpriv(xpriv) ==
  [network |-> xpriv.network, depth |-> xpriv.depth,
   parent_fingerprint |-> xpriv.parent_fingerprint, child_number |-> xpriv.child_number,
   public_key |-> Point(xpriv.private_key), chain_code |-> xpriv.chain_code]

\* Xpriv::ckd_priv: a hardened child depends on the private key alone.
ckd_priv(xpriv, i) ==
  LET hmac == Hmac(xpriv.chain_code,
                   IF is_hardened(i) THEN <<0, xpriv.private_key, i>>
                   ELSE <<Point(xpriv.private_key), i>>)
  IN  IF xpriv.depth = MaxDepth THEN Err("MaximumDepthExceeded")
      ELSE Ok([network |-> xpriv.network, depth |-> xpriv.depth + 1,
               parent_fingerprint |-> Fingerprint(Point(xpriv.private_key)),
               child_number |-> i, chain_code |-> from_hmac(hmac),
               private_key |-> add_tweak(xpriv.private_key, Scalar(hmac))])

\* Xpub::ckd_pub_tweak and ckd_pub.
\* Mutant: the child number of a public derivation is taken without its hardened bit.
ckd_pub_AnyChild(xpub, i) ==
  LET hmac == Hmac(xpub.chain_code, <<xpub.public_key, index(i)>>)
  IN  IF xpub.depth = MaxDepth THEN Err("MaximumDepthExceeded")
      ELSE Ok([network |-> xpub.network, depth |-> xpub.depth + 1,
               parent_fingerprint |-> Fingerprint(xpub.public_key), child_number |-> i,
               public_key |-> add_exp_tweak(xpub.public_key, Scalar(hmac)),
               chain_code |-> from_hmac(hmac)])
ckd_pub(xpub, i) ==
  LET hmac == Hmac(xpub.chain_code, <<xpub.public_key, index(i)>>)
  IN  IF is_hardened(i) THEN Err("CannotDeriveHardenedChild")
      ELSE IF xpub.depth = MaxDepth THEN Err("MaximumDepthExceeded")
      ELSE Ok([network |-> xpub.network, depth |-> xpub.depth + 1,
               parent_fingerprint |-> Fingerprint(xpub.public_key), child_number |-> i,
               public_key |-> add_exp_tweak(xpub.public_key, Scalar(hmac)),
               chain_code |-> from_hmac(hmac)])

\* Xpriv::derive_xpriv and Xpub::derive_xpub: the first error ends the walk.
Walk(Step(_, _), key, p) ==
  FoldLeft(LAMBDA r, i : IF IsOk(r) THEN Step(r[2], i) ELSE r, Ok(key), p)
derive_xpriv(xpriv, p) == Walk(ckd_priv, xpriv, p)
derive_xpub(xpub, p) == Walk(ckd_pub, xpub, p)

\* The 78 bytes of an extended key; base58check carries them unchanged.
EncodeXpriv(x) == [version |-> <<x.network, "private">>, depth |-> x.depth,
                   parent_fingerprint |-> x.parent_fingerprint,
                   child_number |-> x.child_number, chain_code |-> x.chain_code,
                   key |-> <<0, x.private_key>>]
EncodeXpub(x) == [version |-> <<x.network, "public">>, depth |-> x.depth,
                  parent_fingerprint |-> x.parent_fingerprint,
                  child_number |-> x.child_number, chain_code |-> x.chain_code,
                  key |-> x.public_key]

\* Common::decode, Xpriv::decode and Xpub::decode.
DecodeCommon(d) ==
  IF d.depth = 0 /\ d.parent_fingerprint # NoFingerprint
    THEN Err("NonZeroParentFingerprintForMasterKey")
  ELSE IF d.depth = 0 /\ d.child_number # 0 THEN Err("NonZeroChildNumberForMasterKey")
  ELSE Ok(d)
DecodeXpriv(d) ==
  IF ~IsOk(DecodeCommon(d)) THEN DecodeCommon(d)
  ELSE IF d.version[2] # "private" THEN Err("UnknownVersion")
  ELSE Ok([network |-> d.version[1], depth |-> d.depth,
           parent_fingerprint |-> d.parent_fingerprint, child_number |-> d.child_number,
           chain_code |-> d.chain_code, private_key |-> d.key[2]])
DecodeXpub(d) ==
  IF ~IsOk(DecodeCommon(d)) THEN DecodeCommon(d)
  ELSE IF d.version[2] # "public" THEN Err("UnknownVersion")
  ELSE Ok([network |-> d.version[1], depth |-> d.depth,
           parent_fingerprint |-> d.parent_fingerprint, child_number |-> d.child_number,
           chain_code |-> d.chain_code, public_key |-> d.key])

(************************************* Behaviour **********************************)

NoKey == <<>>

Bip32Init ==
  /\ \E network \in {"Main", "Test"}, seed \in Seeds : signer = new_master(network, seed)
  /\ path = <<>> /\ watcher = NoKey /\ since = <<>> /\ refused = FALSE

\* The signer goes one child down.  At the deepest level it is refused and stays.
DeriveChild(i) ==
  LET child == ckd_priv(signer, i)
  IN  /\ ~refused
      /\ refused' = ~IsOk(child)
      /\ signer' = IF IsOk(child) THEN child[2] ELSE signer
      /\ path' = IF IsOk(child) THEN Append(path, i) ELSE path
      /\ since' = IF IsOk(child) /\ watcher # NoKey THEN Append(since, i) ELSE since
      /\ UNCHANGED watcher

\* The signer exports its extended public key as text, and the watcher reads it.
Export ==
  /\ watcher = NoKey
  /\ watcher' = DecodeXpub(EncodeXpub(from_xpriv(signer)))[2]
  /\ UNCHANGED <<signer, path, since, refused>>

\* The signer is restored from the text of its key.
Restore ==
  /\ path # <<>>
  /\ signer' = DecodeXpriv(EncodeXpriv(signer))[2]
  /\ UNCHANGED <<path, watcher, since, refused>>

Bip32Next == Restore \/ Export \/ \E i \in ChildNumbers : DeriveChild(i)

(************************************ Properties **********************************)

Marks == {"'", "h"}

\* A path written down is read back, and the two kinds of paths are not taken for each other.
PathsReadBack(p) ==
  \A mark \in Marks :
    /\ parse_relative(PathText(p, mark)) = Ok(p)
    /\ parse_absolute(AbsoluteText(p, mark)) = Ok(p)
    /\ ~IsOk(parse_relative(AbsoluteText(p, mark)))
    /\ ~IsOk(parse_absolute(PathText(p, mark)))

\* The children that an iterator yields are those of its kind from the start on, in order.
ChildrenAreAll ==
  \A start \in ChildNumbers :
    LET kin == {n \in ChildNumbers : n >= start /\ is_hardened(n) = is_hardened(start)}
    IN  /\ Range(children_from(start)) = kin
        /\ \A k \in 1 .. Len(children_from(start)) - 1 :
             children_from(start)[k + 1] = children_from(start)[k] + 1

\* Wherever the path is cut, the public keys derived from the cut on are those of the private
\* keys, unless a hardened step lies behind the cut: then they cannot be derived at all.  The
\* signer is where the whole path leads from the master key; texts of keys and paths lose
\* nothing, and an iterator leaves no child out.
WatcherFollows ==
  /\ refused => signer.depth = MaxDepth
  /\ Len(path) = signer.depth
  /\ PathsReadBack(path)
  /\ \E seed \in Seeds : derive_xpriv(new_master(signer.network, seed), path) = Ok(signer)
  /\ watcher # NoKey =>
       derive_xpub(watcher, since) =
         (IF \E k \in DOMAIN since : is_hardened(since[k])
            THEN Err("CannotDeriveHardenedChild") ELSE Ok(from_xpriv(signer)))
  /\ DecodeXpriv(EncodeXpriv(signer)) = Ok(signer)
  /\ ~IsOk(DecodeXpriv(EncodeXpub(from_xpriv(signer))))
  /\ ~IsOk(DecodeXpub(EncodeXpriv(signer)))
  /\ path = <<>> => ChildrenAreAll

=============================================================================
