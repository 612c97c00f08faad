-------------------------------- MODULE Keys --------------------------------
(***************************************************************************)
(* The key and signature types of crypto/src/{key,ecdsa,taproot}.rs, the   *)
(* taproot tweak of taproot-primitives/src/lib.rs and the message          *)
(* signatures of bitcoin/src/sign_message.rs: one holds a private key,     *)
(* another one follows with what is public.                                *)
(*                                                                         *)
(* libsecp256k1 is outside: its curve is the cyclic group of ORDER points, *)
(* where the points k and -k share an x coordinate.  An x coordinate, a y  *)
(* coordinate and a secret are one byte each.                              *)
(***************************************************************************)
EXTENDS Naturals, Sequences, SequencesExt

CONSTANTS
  ORDER,              \* of the group, odd
  TweakHash(_, _),    \* of an x coordinate and a merkle root
  Roots,              \* bound: merkle roots, one of them "no root"
  Messages,           \* bound: message hashes
  RawData,            \* bound: byte strings from somebody else
  MaxSteps            \* bound: calls in a row

VARIABLES
  secret,    \* a PrivateKey
  public,    \* the LegacyPublicKey the observer has
  steps,
  data       \* bytes to be parsed

keyVars == <<secret, public, steps, data>>

Fail == <<>>
Done(value) == <<value>>

-----------------------------------------------------------------------------
(* libsecp256k1. *)

Scalars == 1 .. ORDER - 1
Opposite(k) == ORDER - k
X(p) == IF p < Opposite(p) THEN p ELSE Opposite(p)
IsOdd(p) == p # X(p)
Y(p) == 2 * X(p) + (IF IsOdd(p) THEN 1 ELSE 0)
Point(x, odd) == IF odd THEN Opposite(x) ELSE x

secp_compressed(p) == <<IF IsOdd(p) THEN 3 ELSE 2, X(p)>>
secp_uncompressed(p) == <<4, X(p), Y(p)>>

\* PublicKey::from_slice; the hybrid form repeats the parity in the prefix.
secp_from_slice(bytes) ==
  LET P == {p \in Scalars :
              \/ bytes = secp_compressed(p) \/ bytes = secp_uncompressed(p)
              \/ bytes = <<IF IsOdd(p) THEN 7 ELSE 6, X(p), Y(p)>>}
  IN  IF P = {} THEN Fail ELSE Done(CHOOSE p \in P : TRUE)

secp_from_secret_bytes(k) == IF k \in Scalars THEN Done(k) ELSE Fail
\* The generator times the tweak is added to the even point, or to the secret of it.
secp_add_tweak(x, tweak) ==
  LET q == (x + tweak) % ORDER IN IF q = 0 THEN Fail ELSE Done(q)
secp_add_xonly_tweak(k, tweak) ==
  LET q == ((IF IsOdd(k) THEN Opposite(k) ELSE k) + tweak) % ORDER
  IN  IF q = 0 THEN Fail ELSE Done(q)

\* A recoverable signature; a recovery id tells the parity of the key, its second bit
\* that the other x coordinate is meant, which no key of this group has.
sign_ecdsa_recoverable(m, k) == [message |-> m, x |-> X(k), recid |-> IF IsOdd(k) THEN 1 ELSE 0]
recover_ecdsa(sig, m) ==
  IF sig.recid \div 2 = 1 THEN Fail
  ELSE LET p == Point(sig.x, sig.recid % 2 = 1)
       IN  Done(IF m = sig.message THEN p ELSE Opposite(p))

-----------------------------------------------------------------------------
(* Keys. *)

PrivateKey(k, compressed) == [inner |-> k, compressed |-> compressed]
LegacyPublicKey(p, compressed) == [inner |-> p, compressed |-> compressed]
XOnlyPublicKey(x, odd) == [inner |-> x, odd |-> odd]

to_legacy_public_key(sk) == LegacyPublicKey(sk.inner, sk.compressed)

negate(sk) == PrivateKey(Opposite(sk.inner), sk.compressed)

serialize(pk) ==
  IF pk.compressed THEN secp_compressed(pk.inner) ELSE secp_uncompressed(pk.inner)

\* The length decides, and the prefix has to fit it.
from_slice(bytes) ==
  IF /\ \/ Len(bytes) = 2 /\ bytes[1] \in {2, 3}
        \/ Len(bytes) = 3 /\ bytes[1] = 4
     /\ secp_from_slice(bytes) # Fail
    THEN Done(LegacyPublicKey(secp_from_slice(bytes)[1], Len(bytes) = 2))
    ELSE Fail

to_x_only(pk) == XOnlyPublicKey(X(pk.inner), IsOdd(pk.inner))
to_public_key(xonly) == Point(xonly.inner, xonly.odd)
with_parity(xonly, odd) == [xonly EXCEPT !.odd = odd]
xonly_to_legacy(xonly) == LegacyPublicKey(to_public_key(xonly), TRUE)
with_compressedness(pk, compressed) == [pk EXCEPT !.compressed = compressed]

\* A payload of base58: the version, the secret, and a one behind it if it is compressed.
to_wif(sk, main) ==
  <<IF main THEN 128 ELSE 239, sk.inner>> \o (IF sk.compressed THEN <<1>> ELSE <<>>)

from_wif(bytes) ==
  IF /\ Len(bytes) = 2 \/ (Len(bytes) = 3 /\ bytes[3] = 1)
     /\ bytes[1] \in {128, 239}
     /\ secp_from_secret_bytes(bytes[2]) # Fail
    THEN Done([private_key |-> PrivateKey(bytes[2], Len(bytes) = 3),
               main |-> bytes[1] = 128])
    ELSE Fail

-----------------------------------------------------------------------------
(* Taproot. *)

add_tweak(xonly, tweak) ==
  LET q == secp_add_tweak(xonly.inner, tweak)
  IN  IF q = Fail THEN Fail ELSE Done(to_x_only(LegacyPublicKey(q[1], TRUE)))

tweak_add_check(xonly, tweaked, tweak) ==
  secp_add_tweak(xonly.inner, tweak) = Done(to_public_key(tweaked))

\* Of the key alone, and of the pair: the secret key of the pair is the answer.
tap_tweak(xonly, root) == add_tweak(xonly, TweakHash(xonly.inner, root))
keypair_tap_tweak(k, root) ==
  secp_add_xonly_tweak(k, TweakHash(to_x_only(LegacyPublicKey(k, TRUE)).inner, root))

-----------------------------------------------------------------------------
(* Signatures. *)

message_serialize(sig) ==
  <<sig.signature.recid + (IF sig.compressed THEN 31 ELSE 27),
    sig.signature.message, sig.signature.x>>

\* Three more bits of the header are not looked at.
from_byte_array(bytes) ==
  IF bytes[1] < 27 THEN Fail
  ELSE Done([signature |-> [recid |-> (bytes[1] - 27) % 4, message |-> bytes[2], x |-> bytes[3]],
             compressed |-> ((bytes[1] - 27) \div 4) % 2 = 1])

recover_pubkey(sig, m) ==
  LET p == recover_ecdsa(sig.signature, m)
  IN  IF p = Fail THEN Fail ELSE Done(LegacyPublicKey(p[1], sig.compressed))

\* An address is a type and the hash of what it commits to, or has no type.
is_signed_by_address(sig, address, m) ==
  IF address.type = "p2pkh"
    THEN LET p == recover_pubkey(sig, m)
         IN  IF p = Fail THEN Fail ELSE Done(address.hash = serialize(p[1]))
    ELSE IF address.type = "none" THEN Done(FALSE) ELSE Fail

sign(m, sk) ==
  [signature |-> sign_ecdsa_recoverable(m, sk.inner), compressed |-> sk.compressed]

StandardTypes == {1, 2, 3, 129, 130, 131}

\* ECDSA: any DER, a byte here, and a standard type behind it.
ecdsa_from_slice(bytes) ==
  IF bytes # <<>> /\ Last(bytes) \in StandardTypes /\ Len(bytes) = 2
    THEN Done([signature |-> bytes[1], sighash_type |-> Last(bytes)])
    ELSE Fail
ecdsa_serialize(sig) == <<sig.signature, sig.sighash_type>>

\* Schnorr, two bytes: the default type is never written.
taproot_from_slice(bytes) ==
  IF Len(bytes) = 2 THEN Done([signature |-> bytes, sighash_type |-> 0])
  ELSE IF Len(bytes) = 3 /\ bytes[3] \in StandardTypes
    THEN Done([signature |-> SubSeq(bytes, 1, 2), sighash_type |-> bytes[3]])
  ELSE Fail
taproot_serialize(sig) ==
  sig.signature \o (IF sig.sighash_type = 0 THEN <<>> ELSE <<sig.sighash_type>>)

-----------------------------------------------------------------------------
KeysInit ==
  /\ steps = 0
  /\ \/ /\ data = <<>>
        /\ \E k \in Scalars, c \in BOOLEAN : secret = PrivateKey(k, c)
     \/ data \in RawData /\ secret = PrivateKey(1, TRUE)
  /\ public = to_legacy_public_key(secret)

Step == steps < MaxSteps /\ data = <<>> /\ steps' = steps + 1 /\ UNCHANGED data

Negate ==
  /\ Step
  /\ secret' = negate(secret)
  /\ LET x == to_x_only(public)
     IN  public' = with_compressedness(xonly_to_legacy(with_parity(x, ~x.odd)), public.compressed)

\* Both are written down and read again.
Store(main) ==
  /\ Step
  /\ from_wif(to_wif(secret, main)) # Fail
  /\ secret' = from_wif(to_wif(secret, main))[1].private_key
  /\ from_slice(serialize(public)) # Fail
  /\ public' = from_slice(serialize(public))[1]

\* A tweak with which the key vanishes, which nobody will find, is not among the roots.
Tweak(root) ==
  /\ Step
  /\ LET x == to_x_only(public)
         key == tap_tweak(x, root)
         pair == keypair_tap_tweak(secret.inner, root)
     IN  /\ key # Fail /\ pair # Fail
         /\ secret' = PrivateKey(pair[1], TRUE)
         /\ public' = xonly_to_legacy(key[1])

\* The observer takes the key out of a signature.
Recover(m) ==
  /\ Step
  /\ LET sig == from_byte_array(message_serialize(sign(m, secret)))
     IN  /\ sig # Fail /\ recover_pubkey(sig[1], m) # Fail
         /\ public' = recover_pubkey(sig[1], m)[1]
  /\ UNCHANGED secret

KeysNext ==
  \/ Negate
  \/ \E main \in BOOLEAN : Store(main)
  \/ \E root \in Roots : Tweak(root)
  \/ \E m \in Messages : Recover(m)

-----------------------------------------------------------------------------
P2pkh(pk) == [type |-> "p2pkh", hash |-> serialize(pk)]

\* The observer, who sees public keys, tweaks and signatures only, has the public key of
\* the private key, in the form in which it is written: parities survive the x-only keys,
\* the tweak of a pair is the tweak of its key, every tweak passes the check of a spend,
\* and every text can be read.  A message signature is that of the address of this key,
\* and not of the address of its other form.
ObserverFollows ==
  /\ public = to_legacy_public_key(secret)
  /\ \A main \in BOOLEAN :
       from_wif(to_wif(secret, main)) = Done([private_key |-> secret, main |-> main])
  /\ \A root \in Roots :
       LET x == to_x_only(public)
           key == tap_tweak(x, root)
           pair == keypair_tap_tweak(secret.inner, root)
       IN  IF key = Fail THEN pair = Fail
           ELSE /\ pair = Done(to_public_key(key[1]))
                /\ tweak_add_check(x, key[1], TweakHash(x.inner, root))
  /\ \A m \in Messages :
       LET sig == from_byte_array(message_serialize(sign(m, secret)))[1]
           other == with_compressedness(public, ~public.compressed)
       IN  /\ is_signed_by_address(sig, P2pkh(public), m) = Done(TRUE)
           /\ is_signed_by_address(sig, P2pkh(other), m) = Done(FALSE)
           /\ \A n \in Messages \ {m} :
                is_signed_by_address(sig, P2pkh(public), n) = Done(FALSE)

\* What is read from bytes is written as these bytes: no key and no signature has two
\* encodings, and none is read as the other kind.  Message signatures are an exception:
\* of their first byte only the three bits that are used come back.
EncodingsAreUnique ==
  /\ from_slice(data) # Fail => serialize(from_slice(data)[1]) = data
  /\ from_wif(data) # Fail =>
       to_wif(from_wif(data)[1].private_key, from_wif(data)[1].main) = data
  /\ ecdsa_from_slice(data) # Fail => ecdsa_serialize(ecdsa_from_slice(data)[1]) = data
  /\ taproot_from_slice(data) # Fail => taproot_serialize(taproot_from_slice(data)[1]) = data
  /\ Len(data) = 3 /\ from_byte_array(data) # Fail =>
       LET again == message_serialize(from_byte_array(data)[1])
       IN  /\ Tail(again) = Tail(data)
           /\ again[1] = IF data[1] < 35 THEN data[1] ELSE 27 + ((data[1] - 27) % 8)

=============================================================================
