--------------------------- MODULE MCNetworkProofs ---------------------------
(***************************************************************************)
(* What is proved of the topics of MCNetwork, for every value of their     *)
(* constants: an address spreads from peer to peer as it is, and locks by  *)
(* height and time open when consensus lets the transaction in, and stay   *)
(* open.                                                                   *)
(*                                                                         *)
(* The argument for the second: a median has at least half of its window   *)
(* on either side, counted by rank, so that a timestamp above it cannot    *)
(* take it down.                                                           *)
(***************************************************************************)
EXTENDS MCNetwork, SequenceTheorems, FiniteSetTheorems, TLAPS

(* Addresses.                                                              *)


\* The parts of an address are those of some payload, and a socket has as many as it should.
IsHeld(a) ==
  /\ a.parts \in Peers!Payloads
  /\ a.network = "Ipv4" => \E low \in Lows : a = Peers!Ipv4(low)
  /\ a.network = "Ipv6" => \E prefix \in Peers!IpPrefixes, low \in Lows : a = Peers!Ipv6(<<prefix, low>>)

\* Whoever is sent this address has the same one then.
IsFixed(a) == IsHeld(a) /\ Peers!Decode(Peers!NetworkId(a), a.parts) = Peers!Ok(a)

\* What became of an address that was accepted.
Becomes(a) ==
  {Peers!Ok(a)} \cup (IF a.network = "Ipv6" /\ a.parts[1] = "compatible" /\ ~carried
                  THEN {Peers!Ok(Peers!Ipv4(a.parts[2]))} ELSE {})

\* Nothing is on the wire, or the first parts of the address, or what a stranger sent.
WireInv ==
  LET parts == Peers!NewEncoder(addr[1])
  IN  \/ sent = <<>> /\ encoder = Peers!NoEncoder
      \/ /\ addr # Peers!Nothing
         /\ \/ sent = <<>> /\ encoder = parts
            \/ sent = <<parts[1]>> /\ encoder = <<parts[2], parts[3]>>
            \/ sent = <<parts[1], parts[2]>> /\ encoder = <<parts[3]>>
            \/ sent = parts /\ encoder = Peers!NoEncoder
      \/ /\ addr = Peers!Nothing /\ accepted = Peers!Nothing /\ encoder = Peers!NoEncoder
         /\ \E id \in Networks, p \in Peers!Payloads : sent = <<<<id>>, <<Len(p)>>, p>>

PeersInv ==
  /\ addr # Peers!Nothing => addr = Peers!Ok(addr[1]) /\ IsHeld(addr[1])
  /\ accepted # Peers!Nothing =>
       accepted = Peers!Ok(accepted[1]) /\ IsFixed(accepted[1]) /\ addr \in Becomes(accepted[1])
  /\ WireInv

LEMMA AppendThird ==
  ASSUME NEW x, NEW y, NEW z
  PROVE  Append(<<x, y>>, z) = <<x, y, z>>
<1>. DEFINE S == {x, y, z}
<1>. DEFINE s == Append(<<x, y>>, z)
<1>1. <<x, y>> \in Seq(S) /\ <<x, y, z>> \in Seq(S) /\ z \in S
  OBVIOUS
<1>. HIDE DEF S
<1>2. s \in Seq(S) /\ Len(s) = 3 /\ s[1] = x /\ s[2] = y /\ s[3] = z
  BY <1>1, AppendProperties
<1>3. \A i \in 1 .. 3 : s[i] = <<x, y, z>>[i]
  BY <1>2
<1>. QED
  BY <1>1, <1>2, <1>3, SeqEqual

LEMMA ShortLists ==
  ASSUME NEW x, NEW y, NEW z
  PROVE  /\ <<x>> \o <<y>> = <<x, y>>
         /\ Append(<<>>, x) = <<x>> /\ Append(<<x>>, y) = <<x, y>>
         /\ Head(<<x>>) = x /\ Head(<<x, y>>) = x /\ Head(<<x, y, z>>) = x
         /\ Tail(<<x>>) = <<>> /\ Tail(<<x, y>>) = <<y>> /\ Tail(<<x, y, z>>) = <<y, z>>
<1>. DEFINE S == {x, y, z}
<1>1. <<>> \in Seq(S) /\ <<x>> \in Seq(S) /\ <<y>> \in Seq(S) /\ <<x, y>> \in Seq(S)
      /\ <<x, y, z>> \in Seq(S) /\ x \in S /\ y \in S /\ z \in S
  OBVIOUS
<1>. HIDE DEF S
<1>2. <<x>> \o <<y>> = <<x, y>>
  <2>. DEFINE s == <<x>> \o <<y>>
  <2>1. s \in Seq(S) /\ Len(s) = 2 /\ s[1] = x /\ s[2] = y
    BY <1>1, ConcatProperties
  <2>2. \A i \in 1 .. 2 : s[i] = <<x, y>>[i]
    BY <2>1
  <2>. QED
    BY <1>1, <2>1, <2>2, SeqEqual
<1>3. Append(<<>>, x) = <<x>>
  BY <1>1
<1>4. Append(<<x>>, y) = <<x, y>>
  <2>. DEFINE s == Append(<<x>>, y)
  <2>1. s \in Seq(S) /\ Len(s) = 2 /\ s[1] = x /\ s[2] = y
    BY <1>1, AppendProperties
  <2>2. \A i \in 1 .. 2 : s[i] = <<x, y>>[i]
    BY <2>1
  <2>. QED
    BY <1>1, <2>1, <2>2, SeqEqual
<1>6. Head(<<x>>) = x /\ Head(<<x, y>>) = x /\ Head(<<x, y, z>>) = x
  BY <1>1
<1>7. Tail(<<x>>) = <<>>
  BY <1>1
<1>8. Tail(<<x, y>>) = <<y>>
  BY <1>1
<1>9. Tail(<<x, y, z>>) = <<y, z>>
  BY <1>1
<1>. QED
  BY <1>2, <1>3, <1>4, <1>6, <1>7, <1>8, <1>9

LEMMA PayloadShape ==
  ASSUME Peers!PeerAssumption, NEW p \in Peers!Payloads
  PROVE  /\ Len(p) \in Nat
         /\ Len(p) = 1 => \E low \in Lows : p = <<low>>
         /\ Len(p) = 2 => \E prefix \in Peers!IpPrefixes, low \in Lows : p = <<prefix, low>>
<1>1. CASE p = <<>>
  BY <1>1
<1>2. CASE \E low \in Lows : p = <<low>>
  BY <1>2
<1>3. CASE \E prefix \in Peers!IpPrefixes, low \in Lows : p = <<prefix, low>>
  BY <1>3
<1>4. CASE \E len \in 3 .. MAX_LENGTH + 1, low \in Lows : p = [i \in 1 .. len |-> low]
  <2>1. PICK len \in 3 .. MAX_LENGTH + 1, low \in Lows : p = [i \in 1 .. len |-> low]
    BY <1>4
  <2>2. p \in Seq({low}) /\ Len(p) = len
    BY <2>1 DEF Peers!PeerAssumption
  <2>. QED
    BY <2>1, <2>2 DEF Peers!PeerAssumption
<1>. QED
  BY <1>1, <1>2, <1>3, <1>4 DEF Peers!Payloads

\* What a decoder accepts is decoded from its own encoding to itself.
LEMMA DecodedIsFixed ==
  ASSUME Peers!PeerAssumption, NEW id, NEW p \in Peers!Payloads, Peers!Decode(id, p) # Peers!Nothing
  PROVE  /\ Peers!Decode(id, p) = Peers!Ok(Peers!Decode(id, p)[1]) /\ IsFixed(Peers!Decode(id, p)[1])
         /\ Peers!Decode(id, p)[1].parts = p
<1>0. Len(p) \in Nat /\ Len(p) <= MAX_LENGTH
  <2>1. ~(Len(p) > MAX_LENGTH)
    BY DEF Peers!Decode
  <2>. QED
    BY <2>1, PayloadShape DEF Peers!PeerAssumption
<1>1. CASE id = 1
  <2>1. PICK low \in Lows : p = <<low>>
    BY <1>1, PayloadShape DEF Peers!Decode
  <2>2. Peers!Decode(id, p) = Peers!Ok(Peers!Ipv4(low))
    BY <1>1, <2>1 DEF Peers!Decode, Peers!PeerAssumption
  <2>. QED
    BY <1>1, <2>1, <2>2 DEF IsFixed, IsHeld, Peers!NetworkId, Peers!Ipv4, Peers!AddrV2, Peers!Ok
<1>2. CASE id = 2
  <2>1. PICK prefix \in Peers!IpPrefixes, low \in Lows : p = <<prefix, low>>
    BY <1>2, PayloadShape DEF Peers!Decode
  <2>2. Peers!Decode(id, p) = Peers!Ok(Peers!Ipv6(p))
    BY <1>2, <2>1 DEF Peers!Decode, Peers!PeerAssumption
  <2>. QED
    BY <1>2, <2>1, <2>2 DEF IsFixed, IsHeld, Peers!NetworkId, Peers!Ipv6, Peers!AddrV2, Peers!Ok
<1>3. CASE id = 4
  <2>2. Peers!Decode(id, p) = Peers!Ok(Peers!AddrV2("TorV3", p))
    BY <1>3 DEF Peers!Decode, Peers!PeerAssumption
  <2>. QED
    BY <1>3, <2>2 DEF IsFixed, IsHeld, Peers!NetworkId, Peers!AddrV2, Peers!Ok
<1>4. CASE id = 5
  <2>2. Peers!Decode(id, p) = Peers!Ok(Peers!AddrV2("I2p", p))
    BY <1>4 DEF Peers!Decode, Peers!PeerAssumption
  <2>. QED
    BY <1>4, <2>2 DEF IsFixed, IsHeld, Peers!NetworkId, Peers!AddrV2, Peers!Ok
<1>5. CASE id = 6
  <2>2. Peers!Decode(id, p) = Peers!Ok(Peers!AddrV2("Cjdns", p))
    BY <1>5 DEF Peers!Decode, Peers!PeerAssumption
  <2>. QED
    BY <1>5, <2>2 DEF IsFixed, IsHeld, Peers!NetworkId, Peers!AddrV2, Peers!Ok
<1>6. CASE id \notin {1, 2, 4, 5, 6}
  <2>1. Peers!Decode(id, p) = Peers!Ok(Peers!Unknown(id, p))
    BY <1>6, <1>0 DEF Peers!Decode
  <2>2. /\ Peers!Unknown(id, p).network = "Unknown" /\ Peers!Unknown(id, p).id = id
        /\ Peers!Unknown(id, p).parts = p
    BY DEF Peers!Unknown, Peers!AddrV2
  <2>3. Peers!NetworkId(Peers!Unknown(id, p)) = id
    BY <2>2 DEF Peers!NetworkId
  <2>. QED
    BY <2>1, <2>2, <2>3 DEF IsFixed, IsHeld, Peers!Ok
<1>. QED
  BY <1>1, <1>2, <1>3, <1>4, <1>5, <1>6

\* A socket survives the sixteen bytes of an addr message, but for a compatible address.
LEMMA ThroughSixteenBytes ==
  ASSUME Peers!PeerAssumption, NEW a, IsHeld(a), Peers!IsSocket(a), Peers!socket_addr(Peers!V1Address(a)) # Peers!Nothing
  PROVE  LET b == Peers!socket_addr(Peers!V1Address(a))
         IN  /\ b = Peers!Ok(b[1]) /\ IsHeld(b[1])
             /\ IsFixed(a) => b = IF a.network = "Ipv6" /\ a.parts[1] = "compatible"
                                    THEN Peers!Ok(Peers!Ipv4(a.parts[2])) ELSE Peers!Ok(a)
<1>1. CASE a.network = "Ipv4"
  <2>1. PICK low \in Lows : a = Peers!Ipv4(low)
    BY <1>1 DEF IsHeld
  <2>2. Peers!V1Address(a) = <<"mapped", low>>
    <3>1. a.parts = <<low>>
      BY <2>1 DEF Peers!Ipv4, Peers!AddrV2
    <3>2. <<"mapped">> \o <<low>> = <<"mapped", low>>
      BY ShortLists
    <3>. QED
      BY <1>1, <3>1, <3>2 DEF Peers!V1Address
  <2>3. Peers!socket_addr(Peers!V1Address(a)) = Peers!Ok(Peers!Ipv4(low))
    BY <2>2 DEF Peers!socket_addr
  <2>. QED
    BY <1>1, <2>1, <2>3 DEF IsHeld, Peers!Ok
<1>2. CASE a.network = "Ipv6"
  <2>1. PICK prefix \in Peers!IpPrefixes, low \in Lows : a = Peers!Ipv6(<<prefix, low>>)
    BY <1>2 DEF IsHeld
  <2>2. Peers!V1Address(a) = <<prefix, low>> /\ a.parts = <<prefix, low>>
    BY <2>1 DEF Peers!V1Address, Peers!Ipv6, Peers!AddrV2
  <2>3. prefix # "onion"
    BY <2>2 DEF Peers!socket_addr
  <2>4. CASE prefix \in {"mapped", "compatible"}
    <3>1. Peers!socket_addr(Peers!V1Address(a)) = Peers!Ok(Peers!Ipv4(low))
      BY <2>2, <2>4 DEF Peers!socket_addr
    <3>2. IsHeld(Peers!Ipv4(low))
      BY DEF IsHeld, Peers!Ipv4, Peers!AddrV2, Peers!Payloads
    <3>3. IsFixed(a) => prefix # "mapped"
      <4>1. Peers!NetworkId(a) = 2
        BY <1>2 DEF Peers!NetworkId
      <4>2. prefix = "mapped" => Peers!Decode(2, <<prefix, low>>) = Peers!Nothing
        BY DEF Peers!Decode
      <4>. QED
        BY <4>1, <4>2, <2>2 DEF IsFixed, Peers!Ok, Peers!Nothing
    <3>. QED
      BY <1>2, <2>2, <2>4, <3>1, <3>2, <3>3 DEF Peers!Ok
  <2>5. CASE prefix \notin {"mapped", "compatible"}
    <3>1. Peers!socket_addr(Peers!V1Address(a)) = Peers!Ok(a)
      BY <2>1, <2>2, <2>3, <2>5 DEF Peers!socket_addr
    <3>. QED
      BY <2>2, <2>5, <3>1 DEF Peers!Ok
  <2>. QED
    BY <2>4, <2>5
<1>. QED
  BY <1>1, <1>2 DEF Peers!IsSocket

LEMMA PeersStart == ASSUME Peers!PeerAssumption, Peers!PeersInit PROVE PeersInv
<1>1. accepted = Peers!Nothing /\ encoder = Peers!NoEncoder
  BY DEF Peers!PeersInit
<1>2. CASE addr = Peers!Nothing
  <2>1. WireInv
    BY <1>1, <1>2 DEF Peers!PeersInit, WireInv, Peers!Ok, Peers!Nothing
  <2>. QED
    BY <1>1, <1>2, <2>1 DEF PeersInv
<1>3. CASE addr # Peers!Nothing
  <2>1. sent = <<>>
    BY <1>3 DEF Peers!PeersInit
  <2>2. CASE \E low \in Lows : addr = Peers!Ok(Peers!Ipv4(low))
    <3>1. PICK low \in Lows : addr = Peers!Ok(Peers!Ipv4(low))
      BY <2>2
    <3>2. IsHeld(Peers!Ipv4(low))
      BY DEF IsHeld, Peers!Ipv4, Peers!AddrV2, Peers!Payloads
    <3>. QED
      BY <1>1, <2>1, <3>1, <3>2 DEF PeersInv, WireInv, Peers!Ok
  <2>3. CASE \E prefix \in Peers!IpPrefixes, low \in Lows : addr = Peers!Ok(Peers!Ipv6(<<prefix, low>>))
    <3>1. PICK prefix \in Peers!IpPrefixes, low \in Lows : addr = Peers!Ok(Peers!Ipv6(<<prefix, low>>))
      BY <2>3
    <3>2. IsHeld(Peers!Ipv6(<<prefix, low>>))
      BY DEF IsHeld, Peers!Ipv6, Peers!AddrV2, Peers!Payloads
    <3>. QED
      BY <1>1, <2>1, <3>1, <3>2 DEF PeersInv, WireInv, Peers!Ok
  <2>. QED
    BY <1>3, <2>2, <2>3 DEF Peers!PeersInit
<1>. QED
  BY <1>2, <1>3

\* A step that leaves the addresses alone.
LEMMA AddressesKept ==
  ASSUME PeersInv, UNCHANGED <<addr, accepted, carried>>, WireInv'
  PROVE  PeersInv'
<1>1. addr' = addr /\ accepted' = accepted /\ carried' = carried
  OBVIOUS
<1>2. Becomes(accepted[1])' = Becomes(accepted[1])
  BY <1>1 DEF Becomes
<1>. QED
  BY <1>1, <1>2 DEF PeersInv, IsFixed, IsHeld

LEMMA EncodeKeeps == ASSUME PeersInv, Peers!Encode PROVE PeersInv'
<1>1. WireInv'
  BY DEF Peers!Encode, WireInv
<1>. QED
  BY <1>1, AddressesKept DEF Peers!Encode

LEMMA SendKeeps == ASSUME PeersInv, Peers!Send PROVE PeersInv'
<1>0. addr # Peers!Nothing /\ addr' = addr
  BY DEF PeersInv, WireInv, Peers!Send
<1>. DEFINE parts == Peers!NewEncoder(addr[1])
<1>1. PICK x, y, z : parts = <<x, y, z>>
  BY DEF Peers!NewEncoder
<1>2. parts' = parts
  BY <1>0
<1>3. \/ sent = <<>> /\ encoder = <<x, y, z>>
      \/ sent = <<x>> /\ encoder = <<y, z>>
      \/ sent = <<x, y>> /\ encoder = <<z>>
  BY <1>1 DEF PeersInv, WireInv, Peers!Send, Peers!NoEncoder
<1>4. sent' = Append(sent, Head(encoder))
      /\ encoder' = IF Tail(encoder) = <<>> THEN <<>> ELSE Tail(encoder)
  BY DEF Peers!Send, Peers!current_chunk, Peers!Finished, Peers!NoEncoder
<1>. HIDE DEF parts
<1>5. \/ sent' = <<x>> /\ encoder' = <<y, z>>
      \/ sent' = <<x, y>> /\ encoder' = <<z>>
      \/ sent' = <<x, y, z>> /\ encoder' = <<>>
  <2>1. CASE sent = <<>> /\ encoder = <<x, y, z>>
    BY <1>4, <2>1, ShortLists
  <2>2. CASE sent = <<x>> /\ encoder = <<y, z>>
    <3>1. Head(<<y, z>>) = y /\ Tail(<<y, z>>) = <<z>> /\ Append(<<x>>, y) = <<x, y>>
      BY ShortLists
    <3>. QED
      BY <1>4, <2>2, <3>1
  <2>3. CASE sent = <<x, y>> /\ encoder = <<z>>
    <3>1. Head(<<z>>) = z /\ Tail(<<z>>) = <<>>
      BY ShortLists
    <3>2. Append(<<x, y>>, z) = <<x, y, z>>
      BY AppendThird
    <3>. QED
      BY <1>4, <2>3, <3>1, <3>2
  <2>. QED
    BY <1>3, <2>1, <2>2, <2>3
<1>6. parts[1] = x /\ parts[2] = y /\ parts[3] = z
  BY <1>1
<1>7. WireInv'
  <2>1. \/ sent' = <<parts'[1]>> /\ encoder' = <<parts'[2], parts'[3]>>
        \/ sent' = <<parts'[1], parts'[2]>> /\ encoder' = <<parts'[3]>>
        \/ sent' = parts' /\ encoder' = Peers!NoEncoder
    BY <1>1, <1>2, <1>5, <1>6 DEF Peers!NoEncoder
  <2>. QED
    BY <1>0, <2>1 DEF WireInv, parts
<1>. QED
  BY <1>7, AddressesKept DEF Peers!Send

\* The wire is empty, and what becomes of the address is as it should be.
LEMMA ReceiveKeeps == ASSUME Peers!PeerAssumption, PeersInv, Peers!Receive PROVE PeersInv'
<1>1. sent' = <<>> /\ encoder' = Peers!NoEncoder /\ carried' = carried
  BY DEF Peers!Receive
<1>2. \E id : \E p \in Peers!Payloads :
        /\ sent = <<<<id>>, <<Len(p)>>, p>>
        /\ addr # Peers!Nothing => id = Peers!NetworkId(addr[1]) /\ p = addr[1].parts
        /\ addr = Peers!Nothing => accepted = Peers!Nothing
  <2>0. sent # <<>> /\ encoder = <<>>
    BY DEF Peers!Receive, Peers!NoEncoder
  <2>1. CASE addr # Peers!Nothing
    <3>1. sent = Peers!NewEncoder(addr[1]) /\ addr[1].parts \in Peers!Payloads
      BY <2>0, <2>1 DEF PeersInv, WireInv, IsHeld, Peers!NoEncoder
    <3>2. Peers!NewEncoder(addr[1]) = <<<<Peers!NetworkId(addr[1])>>, <<Len(addr[1].parts)>>, addr[1].parts>>
      BY DEF Peers!NewEncoder
    <3>. QED
      BY ONLY <2>1, <3>1, <3>2
  <2>2. CASE addr = Peers!Nothing
    <3>1. accepted = Peers!Nothing /\ \E id \in Networks, p \in Peers!Payloads : sent = <<<<id>>, <<Len(p)>>, p>>
      BY <2>0, <2>2 DEF PeersInv, WireInv
    <3>. QED
      BY ONLY <2>2, <3>1
  <2>. QED
    BY <2>1, <2>2
<1>. PICK id : \E p \in Peers!Payloads :
        /\ sent = <<<<id>>, <<Len(p)>>, p>>
        /\ addr # Peers!Nothing => id = Peers!NetworkId(addr[1]) /\ p = addr[1].parts
        /\ addr = Peers!Nothing => accepted = Peers!Nothing
  BY <1>2
<1>. PICK p \in Peers!Payloads :
        /\ sent = <<<<id>>, <<Len(p)>>, p>>
        /\ addr # Peers!Nothing => id = Peers!NetworkId(addr[1]) /\ p = addr[1].parts
        /\ addr = Peers!Nothing => accepted = Peers!Nothing
  OBVIOUS
<1>3. addr' = Peers!Decode(id, p)
  BY DEF Peers!Receive
<1>4. addr' # Peers!Nothing => addr' = Peers!Ok(addr'[1]) /\ IsFixed(addr'[1])
  BY <1>3, DecodedIsFixed
<1>5. CASE accepted = Peers!Nothing
  <2>1. accepted' = addr'
    BY <1>5 DEF Peers!Receive
  <2>2. accepted' # Peers!Nothing => addr' \in Becomes(accepted[1])'
    BY <2>1, <1>4 DEF Becomes
  <2>. QED
    BY <1>1, <1>4, <2>1, <2>2 DEF PeersInv, WireInv, IsFixed
<1>6. CASE accepted # Peers!Nothing
  <2>1. accepted' = accepted /\ addr # Peers!Nothing
    BY <1>6 DEF Peers!Receive
  <2>2. IsFixed(addr[1]) /\ addr = Peers!Ok(addr[1])
    <3>1. CASE addr = accepted
      BY <1>6, <3>1 DEF PeersInv
    <3>2. CASE /\ accepted[1].network = "Ipv6" /\ accepted[1].parts[1] = "compatible"
               /\ addr = Peers!Ok(Peers!Ipv4(accepted[1].parts[2]))
      <4>1. PICK prefix \in Peers!IpPrefixes, low \in Lows : accepted[1] = Peers!Ipv6(<<prefix, low>>)
        BY <1>6, <3>2 DEF PeersInv, IsFixed, IsHeld
      <4>2. addr = Peers!Ok(Peers!Ipv4(low))
        BY <3>2, <4>1 DEF Peers!Ipv6, Peers!AddrV2
      <4>3. <<low>> \in Peers!Payloads /\ Peers!Decode(1, <<low>>) = Peers!Ok(Peers!Ipv4(low))
        BY DEF Peers!Payloads, Peers!Decode, Peers!PeerAssumption
      <4>4. IsFixed(Peers!Ipv4(low))
        BY <4>3 DEF IsFixed, IsHeld, Peers!NetworkId, Peers!Ipv4, Peers!AddrV2
      <4>. QED
        BY <4>2, <4>4 DEF Peers!Ok
    <3>. QED
      BY <1>6, <3>1, <3>2 DEF PeersInv, Becomes, Peers!Ok
  <2>3. addr' = addr
    BY <1>3, <2>1, <2>2 DEF IsFixed
  <2>4. Becomes(accepted[1])' = Becomes(accepted[1])
    BY <1>1, <2>1 DEF Becomes
  <2>. QED
    BY <1>1, <2>1, <2>2, <2>3, <2>4 DEF PeersInv, WireInv, IsFixed
<1>. QED
  BY <1>5, <1>6

LEMMA ThroughV1Keeps == ASSUME Peers!PeerAssumption, PeersInv, Peers!ThroughV1 PROVE PeersInv'
<1>1. /\ sent' = <<>> /\ encoder' = Peers!NoEncoder /\ accepted' = accepted /\ ~carried'
      /\ addr # Peers!Nothing /\ IsHeld(addr[1]) /\ Peers!IsSocket(addr[1])
      /\ addr' = Peers!socket_addr(Peers!V1Address(addr[1]))
  BY DEF Peers!ThroughV1, PeersInv
<1>2. addr' # Peers!Nothing => addr' = Peers!Ok(addr'[1]) /\ IsHeld(addr'[1])
  BY <1>1, ThroughSixteenBytes
<1>3. ASSUME accepted # Peers!Nothing
      PROVE  /\ accepted' = Peers!Ok(accepted'[1]) /\ IsFixed(accepted'[1])
             /\ addr' \in Becomes(accepted[1])'
  <2>. DEFINE a == accepted[1]
  <2>1. accepted' = accepted /\ accepted = Peers!Ok(a) /\ IsFixed(a) /\ addr \in Becomes(a)
    BY <1>1, <1>3 DEF PeersInv
  <2>2. Becomes(accepted[1])' =
          {Peers!Ok(a)} \cup (IF a.network = "Ipv6" /\ a.parts[1] = "compatible"
                           THEN {Peers!Ok(Peers!Ipv4(a.parts[2]))} ELSE {})
    BY <1>1, <2>1 DEF Becomes
  <2>3. CASE addr = Peers!Ok(a)
    <3>1. addr[1] = a
      BY <2>3 DEF Peers!Ok
    <3>2. Peers!IsSocket(a) /\ IsHeld(a) /\ addr' = Peers!socket_addr(Peers!V1Address(a))
      BY <1>1, <3>1
    <3>3. addr' # Peers!Nothing
      <4>1. CASE a.network = "Ipv4"
        <5>1. PICK low \in Lows : a = Peers!Ipv4(low)
          BY <3>2, <4>1 DEF IsHeld
        <5>2. Peers!V1Address(a) = <<"mapped", low>>
          <6>1. <<"mapped">> \o <<low>> = <<"mapped", low>>
            BY ShortLists
          <6>2. a.parts = <<low>>
            BY <5>1 DEF Peers!Ipv4, Peers!AddrV2
          <6>. QED
            BY <4>1, <6>1, <6>2 DEF Peers!V1Address
        <5>. QED
          BY <3>2, <5>2 DEF Peers!socket_addr, Peers!Ok, Peers!Nothing
      <4>2. CASE a.network = "Ipv6"
        <5>1. PICK prefix \in Peers!IpPrefixes, low \in Lows : a = Peers!Ipv6(<<prefix, low>>)
          BY <3>2, <4>2 DEF IsHeld
        <5>2. Peers!V1Address(a) = <<prefix, low>> /\ a.parts = <<prefix, low>>
          BY <5>1 DEF Peers!V1Address, Peers!Ipv6, Peers!AddrV2
        <5>3. prefix # "onion"
          <6>1. Peers!NetworkId(a) = 2
            BY <4>2 DEF Peers!NetworkId
          <6>2. prefix = "onion" => Peers!Decode(2, <<prefix, low>>) = Peers!Nothing
            BY DEF Peers!Decode
          <6>. QED
            BY <2>1, <5>2, <6>1, <6>2 DEF IsFixed, Peers!Ok, Peers!Nothing
        <5>. QED
          BY <3>2, <5>2, <5>3 DEF Peers!socket_addr, Peers!Ok, Peers!Nothing
      <4>. QED
        BY <3>2, <4>1, <4>2 DEF Peers!IsSocket
    <3>4. addr' = IF a.network = "Ipv6" /\ a.parts[1] = "compatible"
                    THEN Peers!Ok(Peers!Ipv4(a.parts[2])) ELSE Peers!Ok(a)
      BY <2>1, <3>2, <3>3, ThroughSixteenBytes
    <3>. QED
      BY <2>1, <2>2, <3>4
  <2>4. CASE /\ a.network = "Ipv6" /\ a.parts[1] = "compatible"
             /\ addr = Peers!Ok(Peers!Ipv4(a.parts[2]))
    <3>1. addr[1] = Peers!Ipv4(a.parts[2])
      BY <2>4 DEF Peers!Ok
    <3>2. Peers!V1Address(addr[1]) = <<"mapped", a.parts[2]>>
      <4>1. <<"mapped">> \o <<a.parts[2]>> = <<"mapped", a.parts[2]>>
        BY ShortLists
      <4>2. addr[1].network = "Ipv4" /\ addr[1].parts = <<a.parts[2]>>
        BY <3>1 DEF Peers!Ipv4, Peers!AddrV2
      <4>. QED
        BY <4>1, <4>2 DEF Peers!V1Address
    <3>3. addr' = Peers!Ok(Peers!Ipv4(a.parts[2]))
      BY <1>1, <3>2 DEF Peers!socket_addr
    <3>. QED
      BY <2>1, <2>2, <2>4, <3>3
  <2>. QED
    BY <2>1, <2>3, <2>4 DEF Becomes
<1>. QED
  BY <1>1, <1>2, <1>3 DEF PeersInv, WireInv

LEMMA PeersStay == ASSUME Peers!PeerAssumption, PeersInv, [Peers!PeersNext]_Peers!peerVars PROVE PeersInv'
<1>1. CASE UNCHANGED Peers!peerVars
  <2>1. WireInv'
    BY <1>1 DEF PeersInv, WireInv, Peers!peerVars
  <2>. QED
    BY <1>1, <2>1, AddressesKept DEF Peers!peerVars
<1>. QED
  BY <1>1, EncodeKeeps, SendKeeps, ReceiveKeeps, ThroughV1Keeps DEF Peers!PeersNext

LEMMA SpreadFollows == PeersInv => Peers!AddressesSpread
<1>1. ASSUME PeersInv, accepted # Peers!Nothing
      PROVE  /\ addr \in Becomes(accepted[1])
             /\ sent # <<>> /\ encoder = Peers!NoEncoder => sent = Peers!NewEncoder(addr[1])
  <2>1. addr \in Becomes(accepted[1])
    BY <1>1 DEF PeersInv
  <2>2. addr # Peers!Nothing
    BY <2>1 DEF Becomes, Peers!Ok, Peers!Nothing
  <2>3. Peers!NewEncoder(addr[1]) # Peers!NoEncoder
    BY DEF Peers!NewEncoder, Peers!NoEncoder
  <2>4. ASSUME NEW x, NEW y PROVE <<x>> # Peers!NoEncoder /\ <<x, y>> # Peers!NoEncoder
    BY DEF Peers!NoEncoder
  <2>5. sent # <<>> /\ encoder = Peers!NoEncoder => sent = Peers!NewEncoder(addr[1])
    BY <1>1, <2>2, <2>3, <2>4 DEF PeersInv, WireInv
  <2>. QED
    BY <2>1, <2>5
<1>2. PeersInv /\ accepted # Peers!Nothing => accepted = Peers!Ok(accepted[1])
  BY DEF PeersInv
<1>. QED
  BY <1>1, <1>2 DEF Peers!AddressesSpread, Becomes
-----------------------------------------------------------------------------

Middle == WINDOW \div 2 + 1

Before(s, i) == {j \in DOMAIN s : s[j] < s[i] \/ (s[j] = s[i] /\ j <= i)}

\* Nothing shares a rank, and so there is one for each place.
LEMMA RanksArePlaces ==
  ASSUME NEW len \in Nat, NEW s \in [1 .. len -> Int]
  PROVE  /\ \A i \in 1 .. len : /\ IsFiniteSet(Before(s, i)) /\ Locks!Rank(s, i) \in 1 .. len
                               /\ Locks!Rank(s, i) = Cardinality(Before(s, i))
         /\ \A k \in 1 .. len : \E i \in 1 .. len : Locks!Rank(s, i) = k
<1>. DEFINE f == [i \in 1 .. len |-> Locks!Rank(s, i)]
<1>0. DOMAIN s = 1 .. len /\ IsFiniteSet(1 .. len) /\ Cardinality(1 .. len) = len
  BY FS_Interval
<1>1. ASSUME NEW i \in 1 .. len
      PROVE  /\ Before(s, i) \in SUBSET (1 .. len) /\ IsFiniteSet(Before(s, i)) /\ i \in Before(s, i)
             /\ Locks!Rank(s, i) = Cardinality(Before(s, i)) /\ Locks!Rank(s, i) \in 1 .. len
  <2>1. Before(s, i) \in SUBSET (1 .. len) /\ i \in Before(s, i)
    BY <1>0 DEF Before
  <2>2. IsFiniteSet(Before(s, i)) /\ Cardinality(Before(s, i)) <= len
    BY <1>0, <2>1, FS_Subset
  <2>3. Cardinality(Before(s, i)) \in Nat /\ Cardinality(Before(s, i)) # 0
    BY <2>1, <2>2, FS_CardinalityType, FS_EmptySet
  <2>4. Locks!Rank(s, i) = Cardinality(Before(s, i))
    BY DEF Locks!Rank, Before, Cardinality, Locks!Cardinality
  <2>. QED
    BY <2>1, <2>2, <2>3, <2>4
<1>2. ASSUME NEW i \in 1 .. len, NEW j \in 1 .. len, i # j, j \in Before(s, i)
      PROVE  Locks!Rank(s, i) # Locks!Rank(s, j)
  <2>1. s[i] \in Int /\ s[j] \in Int
    OBVIOUS
  <2>2. i \notin Before(s, j)
    BY <1>2, <2>1 DEF Before
  <2>3. Before(s, j) \subseteq Before(s, i)
    BY <1>0, <1>2, <2>1 DEF Before
  <2>4. Before(s, j) # Before(s, i)
    BY <1>1, <2>2
  <2>. QED
    BY <1>1, <2>3, <2>4, FS_Subset
<1>3. \A i, j \in 1 .. len : f[i] = f[j] => i = j
  <2>1. ASSUME NEW i \in 1 .. len, NEW j \in 1 .. len, i # j
        PROVE  Locks!Rank(s, i) # Locks!Rank(s, j)
    <3>1. s[i] \in Int /\ s[j] \in Int
      OBVIOUS
    <3>2. j \in Before(s, i) \/ i \in Before(s, j)
      BY <1>0, <3>1 DEF Before
    <3>. QED
      BY <1>2, <2>1, <3>2
  <2>. QED
    BY <2>1
<1>4. f \in Injection(1 .. len, 1 .. len)
  BY <1>1, <1>3 DEF Injection, IsInjective
<1>5. f \in Surjection(1 .. len, 1 .. len)
  BY <1>0, <1>4, FS_Injection
<1>6. ASSUME NEW k \in 1 .. len PROVE \E i \in 1 .. len : Locks!Rank(s, i) = k
  <2>1. \E i \in 1 .. len : f[i] = k
    BY <1>5 DEF Surjection
  <2>. QED
    BY <2>1
<1>. QED
  BY <1>1, <1>6

\* Fewer than half are below the median, and more than half not above it.
LEMMA MedianIsMiddle ==
  ASSUME Locks!LockTimesAssumption, NEW s \in [1 .. WINDOW -> Nat]
  PROVE  /\ Locks!BlockMtp(s) \in Nat
         /\ IsFiniteSet({j \in 1 .. WINDOW : s[j] < Locks!BlockMtp(s)})
         /\ Cardinality({j \in 1 .. WINDOW : s[j] < Locks!BlockMtp(s)}) < Middle
         /\ IsFiniteSet({j \in 1 .. WINDOW : s[j] <= Locks!BlockMtp(s)})
         /\ Cardinality({j \in 1 .. WINDOW : s[j] <= Locks!BlockMtp(s)}) >= Middle
<1>0. WINDOW \in Nat /\ Middle \in 1 .. WINDOW /\ DOMAIN s = 1 .. WINDOW /\ s \in [1 .. WINDOW -> Int]
  BY DEF Locks!LockTimesAssumption, Middle
<1>1. PICK i \in 1 .. WINDOW : i = CHOOSE k \in 1 .. WINDOW : Locks!Rank(s, k) = Middle
  BY <1>0, RanksArePlaces
<1>2. Locks!Rank(s, i) = Middle
  BY <1>0, <1>1, RanksArePlaces
<1>3. Locks!BlockMtp(s) = s[i]
  BY <1>0, <1>1 DEF Locks!BlockMtp, Locks!Sorted, Middle
<1>4. IsFiniteSet(Before(s, i)) /\ Cardinality(Before(s, i)) = Middle
  BY <1>0, <1>2, RanksArePlaces
<1>. DEFINE low == {j \in 1 .. WINDOW : s[j] < s[i]}
            atMost == {j \in 1 .. WINDOW : s[j] <= s[i]}
<1>5. i \in Before(s, i)
  BY <1>0 DEF Before
<1>6. low \in SUBSET (Before(s, i) \ {i})
  BY <1>0 DEF Before
<1>7. IsFiniteSet(Before(s, i) \ {i}) /\ Cardinality(Before(s, i) \ {i}) = Middle - 1
  BY <1>4, <1>5, FS_RemoveElement
<1>8. IsFiniteSet(low) /\ Cardinality(low) <= Middle - 1 /\ Cardinality(low) \in Nat
  BY <1>6, <1>7, FS_Subset, FS_CardinalityType
<1>9. IsFiniteSet(atMost)
  BY <1>0, FS_Interval, FS_Subset
<1>10. Before(s, i) \in SUBSET atMost
  BY <1>0 DEF Before
<1>11. Cardinality(Before(s, i)) <= Cardinality(atMost)
  BY <1>9, <1>10, FS_Subset
<1>. QED
  BY <1>0, <1>3, <1>4, <1>8, <1>9, <1>11, FS_CardinalityType

\* The median of a window that moves on by a timestamp above it does not go back.
LEMMA MedianGrows ==
  ASSUME Locks!LockTimesAssumption, NEW s \in [1 .. WINDOW -> Nat], NEW t \in [1 .. WINDOW -> Nat],
         \A i \in 1 .. WINDOW - 1 : t[i] = s[i + 1], t[WINDOW] > Locks!BlockMtp(s)
  PROVE  Locks!BlockMtp(t) >= Locks!BlockMtp(s)
<1>0. WINDOW \in Nat /\ Middle \in 1 .. WINDOW /\ Locks!BlockMtp(s) \in Nat /\ Locks!BlockMtp(t) \in Nat
  <2>1. WINDOW \in Nat /\ Middle \in 1 .. WINDOW
    BY DEF Locks!LockTimesAssumption, Middle
  <2>. QED
    BY <2>1, MedianIsMiddle
<1>. SUFFICES ASSUME Locks!BlockMtp(t) < Locks!BlockMtp(s) PROVE FALSE
  BY <1>0
<1>. DEFINE low == {j \in 1 .. WINDOW : s[j] < Locks!BlockMtp(s)}
            atMost == {j \in 1 .. WINDOW : t[j] <= Locks!BlockMtp(t)}
            f == [j \in atMost |-> j + 1]
<1>1. IsFiniteSet(low) /\ Cardinality(low) < Middle
  BY MedianIsMiddle
<1>2. IsFiniteSet(atMost) /\ Cardinality(atMost) >= Middle
  BY MedianIsMiddle
<1>3. ASSUME NEW j \in atMost PROVE j + 1 \in low
  <2>1. j # WINDOW /\ j \in 1 .. WINDOW /\ t[j] \in Nat
    BY <1>0
  <2>2. t[j] = s[j + 1] /\ j + 1 \in 1 .. WINDOW
    BY <1>0, <2>1
  <2>. QED
    BY <1>0, <2>1, <2>2
<1>4. f \in Injection(atMost, low)
  <2>1. f \in [atMost -> low]
    BY <1>3
  <2>2. \A i, j \in atMost : f[i] = f[j] => i = j
    BY <1>0
  <2>. QED
    BY <2>1, <2>2 DEF Injection, IsInjective
<1>5. Cardinality(atMost) <= Cardinality(low)
  BY <1>1, <1>4, FS_Injection
<1>. QED
  BY <1>0, <1>1, <1>2, <1>5, FS_CardinalityType

-----------------------------------------------------------------------------
(* Numbers. *)

LEMMA DivMod ==
  \A v \in Nat, d \in Nat \ {0} :
    v = d * (v \div d) + (v % d) /\ (v % d) \in 0 .. d - 1 /\ v \div d \in Nat
OBVIOUS

LEMMA ProductGrows ==
  ASSUME NEW d \in Nat \ {0}, NEW a \in Nat, NEW b \in Nat, a < b
  PROVE  d * a + d <= d * b
<1>1. PICK k \in Nat : b = a + 1 + k
  <2>1. b - a - 1 \in Nat /\ b = a + 1 + (b - a - 1)
    OBVIOUS
  <2>. QED
    BY <2>1
<1>2. d * (a + 1 + k) = d * a + d + d * k /\ d * k >= 0
  OBVIOUS
<1>. QED
  BY <1>1, <1>2

LEMMA Division ==
  ASSUME NEW d \in Nat \ {0}, NEW times \in Nat, NEW over \in Nat, over < d, NEW v, v = d * times + over
  PROVE  v \div d = times /\ v % d = over
<1>1. v \in Nat
  OBVIOUS
<1>2. PICK p \in Nat, s \in Nat : p = v \div d /\ s = v % d /\ s < d /\ v = d * p + s
  BY <1>1, DivMod
<1>3. ~(p < times)
  BY <1>2, ProductGrows
<1>4. ~(times < p)
  BY <1>2, ProductGrows
<1>. QED
  BY <1>2, <1>3, <1>4

\* The facts of LockTimesAssumption about numbers.
LEMMA LockConstants ==
  ASSUME Locks!LockTimesAssumption
  PROVE  /\ INTERVAL \in Nat \ {0} /\ LOW \in Nat \ {0} /\ LOCK_TYPE_MASK \in Nat \ {0}
         /\ LOCK_TIME_DISABLE_FLAG_MASK \in Nat \ {0} /\ U32 \in Nat /\ LOCK_TIME_THRESHOLD \in Nat
         /\ LOW <= LOCK_TYPE_MASK /\ 2 * LOCK_TYPE_MASK <= LOCK_TIME_DISABLE_FLAG_MASK
         /\ U32 = 2 * LOCK_TIME_DISABLE_FLAG_MASK /\ LOCK_TYPE_MASK % LOW = 0
         /\ LockValues \subseteq Nat /\ SequenceValues \subseteq Nat
BY DEF Locks!LockTimesAssumption

LEMMA SecondsAndIntervals ==
  ASSUME Locks!LockTimesAssumption, NEW seconds \in Nat
  PROVE  /\ \A i \in Locks!from_seconds_ceil(seconds) : i \in Nat /\ Locks!to_seconds(i) >= seconds
         /\ \A i \in Locks!from_seconds_floor(seconds) : i \in Nat /\ Locks!to_seconds(i) <= seconds
         /\ Locks!from_seconds_ceil(seconds) = {} <=> Locks!to_seconds(LOW - 1) < seconds
         /\ Locks!from_seconds_floor(seconds) = {} <=> Locks!to_seconds(LOW) <= seconds
<1>0. INTERVAL \in Nat \ {0} /\ LOW \in Nat \ {0}
  BY LockConstants
<1>1. ASSUME NEW i \in Locks!from_seconds_ceil(seconds) PROVE i \in Nat /\ Locks!to_seconds(i) >= seconds
  <2>1. seconds + INTERVAL - 1 \in Nat /\ i = (seconds + INTERVAL - 1) \div INTERVAL
    BY <1>0 DEF Locks!from_seconds_ceil
  <2>2. PICK over \in 0 .. INTERVAL - 1 : seconds + INTERVAL - 1 = INTERVAL * i + over
    BY <1>0, <2>1, DivMod
  <2>3. i \in Nat /\ INTERVAL * i = i * INTERVAL /\ i * INTERVAL \in Nat
    BY <1>0, <2>1, DivMod
  <2>. QED
    BY <1>0, <2>2, <2>3 DEF Locks!to_seconds
<1>. DEFINE i == seconds \div INTERVAL
<1>2. PICK over \in 0 .. INTERVAL - 1 : seconds = INTERVAL * i + over
  BY <1>0, DivMod
<1>3. i \in Nat /\ INTERVAL * i \in Nat /\ INTERVAL * i = i * INTERVAL
      /\ INTERVAL * LOW = LOW * INTERVAL
  BY <1>0, DivMod
<1>4. INTERVAL * i <= seconds /\ seconds < INTERVAL * i + INTERVAL
  BY <1>0, <1>2, <1>3
<1>5. Locks!from_seconds_floor(seconds) = IF i < LOW THEN {i} ELSE {}
  BY DEF Locks!from_seconds_floor
<1>. HIDE DEF i
<1>6. i < LOW <=> ~(Locks!to_seconds(LOW) <= seconds)
  <2>1. CASE i < LOW
    <3>1. INTERVAL * i + INTERVAL <= INTERVAL * LOW
      BY <1>0, <1>3, <2>1, ProductGrows
    <3>. QED
      BY <1>0, <1>3, <1>4, <2>1, <3>1 DEF Locks!to_seconds
  <2>2. CASE LOW <= i
    <3>1. INTERVAL * LOW <= INTERVAL * i
      <4>1. CASE LOW < i
        BY <1>0, <1>3, <4>1, ProductGrows
      <4>. QED
        BY <1>0, <1>3, <2>2, <4>1
    <3>. QED
      BY <1>0, <1>3, <1>4, <2>2, <3>1 DEF Locks!to_seconds
  <2>. QED
    BY <1>0, <1>3, <2>1, <2>2
<1>7. \A k \in Locks!from_seconds_floor(seconds) : k \in Nat /\ Locks!to_seconds(k) <= seconds
  BY <1>3, <1>4, <1>5 DEF Locks!to_seconds
<1>8. Locks!from_seconds_ceil(seconds) = {} <=> Locks!to_seconds(LOW - 1) < seconds
  <2>1. Locks!to_seconds(LOW - 1) \in Nat
    BY <1>0 DEF Locks!to_seconds
  <2>. QED
    BY <2>1 DEF Locks!from_seconds_ceil, Locks!to_seconds
<1>. QED
  BY <1>1, <1>5, <1>6, <1>7, <1>8

\* What a sequence says of the lock.
LEMMA LockOfSequence ==
  ASSUME Locks!LockTimesAssumption, NEW s \in Nat, NEW lock \in Locks!to_relative_lock_time(s)
  PROVE  /\ lock = Locks!Lock(IF Locks!BitIsSet(s, LOCK_TYPE_MASK) THEN "Time" ELSE "Blocks", s % LOW)
         /\ lock.unit = (IF Locks!BitIsSet(s, LOCK_TYPE_MASK) THEN "Time" ELSE "Blocks")
         /\ lock.value = s % LOW /\ lock.value \in 0 .. LOW - 1
         /\ ~Locks!BitIsSet(s, LOCK_TIME_DISABLE_FLAG_MASK)
<1>1. ~Locks!BitIsSet(s, LOCK_TIME_DISABLE_FLAG_MASK)
  BY DEF Locks!to_relative_lock_time, Locks!is_relative_lock_time
<1>2. lock = Locks!Lock(IF Locks!BitIsSet(s, LOCK_TYPE_MASK) THEN "Time" ELSE "Blocks", s % LOW)
  BY <1>1 DEF Locks!to_relative_lock_time, Locks!is_relative_lock_time, Locks!is_time_locked, Locks!low_u16
<1>3. s % LOW \in 0 .. LOW - 1
  BY LockConstants, DivMod
<1>. QED
  BY <1>1, <1>2, <1>3 DEF Locks!Lock

LEMMA LockComesBack ==
  ASSUME Locks!LockTimesAssumption, NEW unit \in {"Blocks", "Time"}, NEW n \in 0 .. LOW - 1
  PROVE  Locks!to_relative_lock_time(Locks!to_sequence(Locks!Lock(unit, n))) = {Locks!Lock(unit, n)}
<1>. DEFINE high == IF unit = "Time" THEN 1 ELSE 0
            s == n + high * LOCK_TYPE_MASK
<1>0. /\ LOW \in Nat \ {0} /\ LOCK_TYPE_MASK \in Nat \ {0} /\ LOCK_TIME_DISABLE_FLAG_MASK \in Nat \ {0}
      /\ LOW <= LOCK_TYPE_MASK /\ 2 * LOCK_TYPE_MASK <= LOCK_TIME_DISABLE_FLAG_MASK
      /\ LOCK_TYPE_MASK % LOW = 0
  BY LockConstants
<1>1. Locks!to_sequence(Locks!Lock(unit, n)) = s
  BY <1>0 DEF Locks!to_sequence, Locks!Lock
<1>2. s \in Nat /\ s < LOCK_TIME_DISABLE_FLAG_MASK
  BY <1>0
<1>3. ~Locks!BitIsSet(s, LOCK_TIME_DISABLE_FLAG_MASK)
  <2>1. s \div LOCK_TIME_DISABLE_FLAG_MASK = 0
    BY <1>0, <1>2, Division
  <2>. QED
    BY <2>1 DEF Locks!BitIsSet
<1>4. Locks!BitIsSet(s, LOCK_TYPE_MASK) <=> unit = "Time"
  <2>1. high \in Nat /\ n \in Nat /\ n < LOCK_TYPE_MASK /\ s = LOCK_TYPE_MASK * high + n
    BY <1>0
  <2>2. (unit = "Time" /\ high = 1) \/ (unit = "Blocks" /\ high = 0)
    OBVIOUS
  <2>. HIDE DEF s, high
  <2>3. s \div LOCK_TYPE_MASK = high
    BY ONLY <1>0, <2>1, Division
  <2>4. 1 % 2 = 1 /\ 0 % 2 = 0
    OBVIOUS
  <2>. QED
    BY <2>2, <2>3, <2>4 DEF Locks!BitIsSet
<1>5. s % LOW = n
  <2>1. PICK k \in Nat : LOCK_TYPE_MASK = LOW * k
    <3>1. /\ LOCK_TYPE_MASK = LOW * (LOCK_TYPE_MASK \div LOW) + (LOCK_TYPE_MASK % LOW)
          /\ LOCK_TYPE_MASK \div LOW \in Nat
      BY <1>0, DivMod
    <3>. QED
      BY <1>0, <3>1
  <2>2. s = LOW * (high * k) + n /\ high * k \in Nat /\ n \in Nat /\ n < LOW
    <3>1. CASE unit = "Time"
      BY <1>0, <2>1, <3>1
    <3>2. CASE unit = "Blocks"
      BY <1>0, <2>1, <3>2
    <3>. QED
      BY <3>1, <3>2
  <2>. HIDE DEF s, high
  <2>. QED
    BY ONLY <1>0, <2>2, Division
<1>. HIDE DEF s
<1>. QED
  BY <1>1, <1>3, <1>4, <1>5
  DEF Locks!to_relative_lock_time, Locks!is_relative_lock_time, Locks!is_time_locked, Locks!low_u16

-----------------------------------------------------------------------------
(* The chain. *)

LockInv ==
  /\ chain \in Seq(Nat) /\ Len(chain) > WINDOW
  /\ waiting \in [lock_time : LockValues, sequences : [1 .. 2 -> SequenceValues]]
  /\ coins \in [1 .. 2 -> WINDOW .. Locks!height]

LEMMA WindowType == ASSUME Locks!LockTimesAssumption PROVE WINDOW \in Nat /\ WINDOW >= 1
BY DEF Locks!LockTimesAssumption

LEMMA WindowAt ==
  ASSUME Locks!LockTimesAssumption, NEW c \in Seq(Nat), NEW h \in WINDOW - 1 .. Len(c) - 1
  PROVE  LET s == SubSeq(c, h + 2 - WINDOW, h + 1)
         IN  s \in [1 .. WINDOW -> Nat] /\ \A i \in 1 .. WINDOW : s[i] = c[h + 1 - WINDOW + i]
<1>0. WINDOW \in Nat /\ WINDOW >= 1 /\ h \in Nat /\ h + 1 <= Len(c) /\ h + 2 - WINDOW >= 1
      /\ Len(c) \in Nat
  BY WindowType
<1>. DEFINE s == SubSeq(c, h + 2 - WINDOW, h + 1)
<1>1. Len(s) = WINDOW /\ s \in Seq(Nat) /\ \A i \in 1 .. WINDOW : s[i] = c[(h + 2 - WINDOW) + i - 1]
  <2>. DEFINE m == h + 2 - WINDOW
              k == h + 1
  <2>1. m \in Int /\ k \in Int /\ m <= k /\ k - m + 1 = WINDOW /\ m .. k \subseteq 1 .. Len(c)
    BY <1>0
  <2>2. \A i \in m .. k : c[i] \in Nat
    BY <2>1
  <2>. HIDE DEF m, k
  <2>3. Len(SubSeq(c, m, k)) = k - m + 1 /\ SubSeq(c, m, k) \in Seq(Nat)
    BY ONLY <2>1, <2>2, SubSeqProperties
  <2>4. \A i \in 1 .. k - m + 1 : SubSeq(c, m, k)[i] = c[m + i - 1]
    BY ONLY <2>1, <2>2, SubSeqProperties
  <2>. QED
    BY <2>1, <2>3, <2>4 DEF m, k
<1>2. \A i \in 1 .. WINDOW : (h + 2 - WINDOW) + i - 1 = h + 1 - WINDOW + i
  BY <1>0
<1>. HIDE DEF s
<1>3. s \in [1 .. WINDOW -> Nat]
  <2>1. s \in Seq(Nat) /\ Len(s) = WINDOW
    BY ONLY <1>1
  <2>. QED
    BY ONLY <2>1, LenProperties
<1>. QED
  BY <1>1, <1>2, <1>3 DEF s

LEMMA MedianType ==
  ASSUME Locks!LockTimesAssumption, LockInv, NEW h \in WINDOW - 1 .. Locks!height
  PROVE  Locks!MtpAt(h) \in Nat
BY WindowAt, MedianIsMiddle DEF LockInv, Locks!MtpAt, Locks!height

LEMMA HeightType ==
  ASSUME Locks!LockTimesAssumption, LockInv
  PROVE  /\ WINDOW \in Nat /\ WINDOW >= 1 /\ Locks!height \in Nat /\ Locks!height >= WINDOW
         /\ Locks!tip \in Nat /\ DOMAIN coins = 1 .. 2
         /\ waiting.lock_time \in Nat /\ DOMAIN waiting.sequences = 1 .. 2
         /\ \A i \in 1 .. 2 : /\ waiting.sequences[i] \in Nat /\ coins[i] \in WINDOW .. Locks!height
                              /\ coins[i] - 1 \in WINDOW - 1 .. Locks!height /\ Locks!MtpAt(coins[i] - 1) \in Nat
<1>1. WINDOW \in Nat /\ WINDOW >= 1
  BY DEF Locks!LockTimesAssumption
<1>2. Locks!height \in Nat /\ Locks!height >= WINDOW
  BY <1>1 DEF LockInv, Locks!height
<1>3. Locks!tip \in Nat
  BY <1>1, <1>2, MedianType DEF Locks!tip
<1>4. DOMAIN coins = 1 .. 2 /\ waiting.lock_time \in Nat /\ DOMAIN waiting.sequences = 1 .. 2
  BY LockConstants DEF LockInv
<1>5. ASSUME NEW i \in 1 .. 2
      PROVE  /\ waiting.sequences[i] \in Nat /\ coins[i] \in WINDOW .. Locks!height
             /\ coins[i] - 1 \in WINDOW - 1 .. Locks!height
  <2>1. waiting.sequences \in [1 .. 2 -> SequenceValues] /\ coins \in [1 .. 2 -> WINDOW .. Locks!height]
    BY DEF LockInv
  <2>2. waiting.sequences[i] \in SequenceValues /\ coins[i] \in WINDOW .. Locks!height
    BY <2>1
  <2>3. coins[i] - 1 \in WINDOW - 1 .. Locks!height
    BY <1>1, <1>2, <2>2
  <2>. QED
    BY <2>2, <2>3, LockConstants
<1>6. \A i \in 1 .. 2 : Locks!MtpAt(coins[i] - 1) \in Nat
  BY <1>5, MedianType
<1>. QED
  BY <1>1, <1>2, <1>3, <1>4, <1>5, <1>6

LEMMA LocksStart == ASSUME Locks!LockTimesAssumption, Locks!LockInit PROVE LockInv
BY DEF Locks!LockTimesAssumption, Locks!LockInit, LockInv

\* A new block moves the window on; older medians stay.
LEMMA BlockIsMined ==
  ASSUME Locks!LockTimesAssumption, LockInv, Locks!MineBlock
  PROVE  /\ LockInv' /\ waiting' = waiting /\ coins' = coins /\ Locks!height' = Locks!height + 1
         /\ \A h \in WINDOW - 1 .. Locks!height : Locks!MtpAt(h)' = Locks!MtpAt(h)
         /\ Locks!tip' >= Locks!tip /\ Locks!tip' \in Nat
<1>0. /\ WINDOW \in Nat /\ WINDOW >= 1 /\ Locks!height \in Nat /\ Locks!height >= WINDOW /\ Locks!tip \in Nat
      /\ chain \in Seq(Nat)
  BY HeightType DEF LockInv
<1>1. waiting' = waiting /\ coins' = coins
  BY DEF Locks!MineBlock
<1>2. PICK t \in Nat : t > Locks!tip /\ chain' = Append(chain, t)
  <2>1. PICK t \in Locks!tip + 1 .. Locks!tip + MaxStep : chain' = Append(chain, t)
    BY DEF Locks!MineBlock
  <2>2. t \in Nat /\ t > Locks!tip
    BY <1>0, <2>1
  <2>. QED
    BY <2>1, <2>2
<1>3. /\ chain' \in Seq(Nat) /\ Len(chain') = Len(chain) + 1
      /\ \A i \in 1 .. Len(chain) : chain'[i] = chain[i]
      /\ chain'[Len(chain) + 1] = t
  BY <1>0, <1>2, AppendProperties
<1>4. Locks!height' = Locks!height + 1
  BY <1>0, <1>3 DEF Locks!height
<1>5. LockInv'
  <2>1. Len(chain') > WINDOW
    BY <1>0, <1>3 DEF LockInv
  <2>2. coins' \in [1 .. 2 -> WINDOW .. Locks!height']
    <3>1. WINDOW .. Locks!height \subseteq WINDOW .. Locks!height'
      BY <1>0, <1>4
    <3>. QED
      BY <1>1, <3>1 DEF LockInv
  <2>. QED
    BY <1>1, <1>3, <2>1, <2>2 DEF LockInv
<1>5a. Locks!height = Len(chain) - 1 /\ Locks!height' = Len(chain') - 1 /\ Len(chain) \in Nat
  BY <1>0 DEF Locks!height
<1>6. ASSUME NEW h \in WINDOW - 1 .. Locks!height PROVE Locks!MtpAt(h)' = Locks!MtpAt(h)
  <2>. DEFINE s == SubSeq(chain, h + 2 - WINDOW, h + 1)
              u == SubSeq(chain', h + 2 - WINDOW, h + 1)
  <2>1. s \in [1 .. WINDOW -> Nat] /\ \A i \in 1 .. WINDOW : s[i] = chain[h + 1 - WINDOW + i]
    BY <1>0, <1>5a, WindowAt
  <2>1a. h \in WINDOW - 1 .. Len(chain') - 1
    BY <1>0, <1>3, <1>5a
  <2>2. u \in [1 .. WINDOW -> Nat] /\ \A i \in 1 .. WINDOW : u[i] = chain'[h + 1 - WINDOW + i]
    BY ONLY <1>3, <2>1a, WindowAt, Locks!LockTimesAssumption
  <2>3. \A i \in 1 .. WINDOW : s[i] = u[i]
    <3>1. \A i \in 1 .. WINDOW : h + 1 - WINDOW + i \in 1 .. Len(chain)
      BY <1>0 DEF Locks!height
    <3>. QED
      BY <1>3, <2>1, <2>2, <3>1
  <2>. HIDE DEF s, u
  <2>4. s = u
    <3>1. s = [i \in 1 .. WINDOW |-> s[i]] /\ u = [i \in 1 .. WINDOW |-> u[i]]
      BY <2>1, <2>2
    <3>. QED
      BY ONLY <2>3, <3>1
  <2>. QED
    BY <2>4 DEF Locks!MtpAt, s, u
<1>7. Locks!tip' >= Locks!tip /\ Locks!tip' \in Nat
  <2>. DEFINE s == SubSeq(chain, Locks!height + 2 - WINDOW, Locks!height + 1)
              u == SubSeq(chain', Locks!height' + 2 - WINDOW, Locks!height' + 1)
  <2>0. /\ Locks!height \in WINDOW - 1 .. Len(chain) - 1 /\ Locks!height' \in WINDOW - 1 .. Len(chain') - 1
        /\ chain \in Seq(Nat) /\ chain' \in Seq(Nat)
    BY <1>0, <1>3, <1>4, <1>5a
  <2>1. s \in [1 .. WINDOW -> Nat] /\ \A i \in 1 .. WINDOW : s[i] = chain[Locks!height + 1 - WINDOW + i]
    BY <2>0, WindowAt
  <2>2. u \in [1 .. WINDOW -> Nat] /\ \A i \in 1 .. WINDOW : u[i] = chain'[Locks!height' + 1 - WINDOW + i]
    BY ONLY <2>0, WindowAt, Locks!LockTimesAssumption
  <2>3. Locks!tip = Locks!BlockMtp(s) /\ Locks!tip' = Locks!BlockMtp(u)
    BY DEF Locks!tip, Locks!MtpAt
  <2>. HIDE DEF s, u
  <2>4. \A i \in 1 .. WINDOW - 1 : u[i] = s[i + 1]
    <3>. TAKE i \in 1 .. WINDOW - 1
    <3>1. i \in 1 .. WINDOW /\ i + 1 \in 1 .. WINDOW
          /\ Locks!height' + 1 - WINDOW + i = Locks!height + 1 - WINDOW + (i + 1)
          /\ Locks!height + 1 - WINDOW + (i + 1) \in 1 .. Len(chain)
      BY <1>0, <1>4 DEF Locks!height
    <3>. QED
      BY <1>3, <2>1, <2>2, <3>1
  <2>5. u[WINDOW] = t
    <3>1. Locks!height' + 1 - WINDOW + WINDOW = Len(chain) + 1 /\ WINDOW \in 1 .. WINDOW
      BY <1>0, <1>4 DEF Locks!height
    <3>. QED
      BY <1>3, <2>2, <3>1
  <2>6. Locks!BlockMtp(u) >= Locks!BlockMtp(s)
    BY <1>2, <2>1, <2>2, <2>3, <2>4, <2>5, MedianGrows
  <2>. QED
    BY <2>2, <2>3, <2>6, MedianIsMiddle
<1>. QED
  BY <1>1, <1>4, <1>5, <1>6, <1>7

LEMMA LocksStay == ASSUME Locks!LockTimesAssumption, LockInv, [Locks!LockNext]_Locks!lockVars PROVE LockInv'
<1>1. CASE Locks!MineBlock
  BY <1>1, BlockIsMined
<1>2. CASE UNCHANGED Locks!lockVars
  BY <1>2 DEF Locks!lockVars, LockInv, Locks!height
<1>. QED
  BY <1>1, <1>2 DEF Locks!LockNext, Locks!BoundReached

LEMMA OldMediansStay ==
  ASSUME Locks!LockTimesAssumption, LockInv, Locks!MineBlock, NEW i \in 1 .. 2
  PROVE  /\ Locks!MtpAt(coins[i] - 1)' = Locks!MtpAt(coins[i] - 1)
         /\ coins[i]' = coins[i] /\ waiting.sequences[i]' = waiting.sequences[i]
<1>1. coins' = coins /\ waiting' = waiting
  BY BlockIsMined
<1>2. PICK h \in WINDOW - 1 .. Locks!height : h = coins[i] - 1
  BY HeightType
<1>3. Locks!MtpAt(h)' = Locks!MtpAt(h)
  BY BlockIsMined
<1>4. Locks!MtpAt(coins[i] - 1)' = Locks!MtpAt(h)' /\ Locks!MtpAt(coins[i] - 1) = Locks!MtpAt(h)
  BY <1>1, <1>2 DEF Locks!MtpAt
<1>. QED
  BY <1>1, <1>3, <1>4

\* A lock that was satisfied is satisfied one block later.
LEMMA OneBlockLater ==
  ASSUME Locks!LockTimesAssumption, NEW s \in Nat, NEW lock \in Locks!to_relative_lock_time(s),
         NEW h \in Nat, NEW m \in Nat, NEW k \in Nat, m >= k,
         NEW mined \in 0 .. h, NEW time \in Nat,
         Locks!relative_is_satisfied_by(lock, h, k, mined, time)
  PROVE  Locks!relative_is_satisfied_by(lock, h + 1, m, mined, time)
<1>0. /\ INTERVAL \in Nat /\ LOW \in Nat /\ U32 \in Nat /\ LOW <= U32
      /\ lock.value \in 0 .. LOW - 1
  BY LockConstants, LockOfSequence
<1>1. CASE lock.unit = "Blocks"
  BY <1>0, <1>1 DEF Locks!relative_is_satisfied_by, Locks!BlocksSatisfied
<1>2. CASE lock.unit # "Blocks"
  <2>1. Locks!to_seconds(lock.value) \in Nat
    BY <1>0 DEF Locks!to_seconds
  <2>2. k >= time /\ Locks!to_seconds(lock.value) <= k - time
    BY <1>2 DEF Locks!relative_is_satisfied_by, Locks!TimeSatisfied
  <2>. HIDE DEF Locks!to_seconds
  <2>3. m >= time /\ Locks!to_seconds(lock.value) <= m - time
    BY <2>1, <2>2
  <2>. QED
    BY <1>2, <2>3 DEF Locks!relative_is_satisfied_by, Locks!TimeSatisfied
<1>. QED
  BY <1>1, <1>2

LEMMA SatisfiedStay == ASSUME Locks!LockTimesAssumption, LockInv, Locks!MineBlock PROVE Locks!StaysSatisfied
<1>0. /\ Locks!height \in Nat /\ Locks!tip \in Nat /\ Locks!tip' \in Nat /\ Locks!tip' >= Locks!tip /\ Locks!height' = Locks!height + 1
      /\ waiting' = waiting /\ waiting.lock_time \in Nat /\ coins' = coins /\ DOMAIN coins = 1 .. 2
  BY HeightType, BlockIsMined
<1>1. Locks!is_absolute_timelock_satisfied(waiting, Locks!height, Locks!tip)
        => Locks!is_absolute_timelock_satisfied(waiting, Locks!height, Locks!tip)'
  <2>1. Locks!is_satisfied_by(Locks!from_consensus(waiting.lock_time), Locks!height, Locks!tip)
          => Locks!is_satisfied_by(Locks!from_consensus(waiting.lock_time), Locks!height, Locks!tip)'
    <3>1. CASE Locks!is_block_height(waiting.lock_time)
      <4>1. waiting.lock_time <= Locks!height + 1 => waiting.lock_time <= Locks!height' + 1
        BY <1>0
      <4>. QED
        BY <1>0, <3>1, <4>1
        DEF Locks!is_satisfied_by, Locks!from_consensus, Locks!Lock, Locks!is_block_height, Locks!HeightSatisfied, Locks!MtpSatisfied
    <3>2. CASE ~Locks!is_block_height(waiting.lock_time)
      <4>1. waiting.lock_time < Locks!tip => waiting.lock_time < Locks!tip'
        BY <1>0
      <4>. QED
        BY <1>0, <3>2, <4>1
        DEF Locks!is_satisfied_by, Locks!from_consensus, Locks!Lock, Locks!is_block_height, Locks!HeightSatisfied, Locks!MtpSatisfied
    <3>. QED
      BY <3>1, <3>2
  <2>2. Locks!is_lock_time_enabled(waiting)' <=> Locks!is_lock_time_enabled(waiting)
    BY <1>0 DEF Locks!is_lock_time_enabled, Locks!enables_absolute_lock_time
  <2>. QED
    BY <2>1, <2>2 DEF Locks!is_absolute_timelock_satisfied
<1>2. ASSUME NEW i \in 1 .. 2, Locks!InputSatisfied(i)
      PROVE  Locks!InputSatisfied(i)'
  <2>1. /\ Locks!MtpAt(coins[i] - 1)' = Locks!MtpAt(coins[i] - 1) /\ coins[i]' = coins[i]
        /\ waiting.sequences[i]' = waiting.sequences[i]
    BY OldMediansStay
  <2>2. /\ waiting.sequences[i] \in Nat /\ coins[i] \in 0 .. Locks!height /\ Locks!MtpAt(coins[i] - 1) \in Nat
    BY HeightType
  <2>3. ASSUME NEW lock \in Locks!to_relative_lock_time(waiting.sequences[i])
        PROVE  Locks!relative_is_satisfied_by(lock, Locks!height + 1, Locks!tip', coins[i], Locks!MtpAt(coins[i] - 1))
    <3>1. Locks!relative_is_satisfied_by(lock, Locks!height, Locks!tip, coins[i], Locks!MtpAt(coins[i] - 1))
      BY <1>2 DEF Locks!InputSatisfied
    <3>. QED
      BY <1>0, <2>2, <3>1, OneBlockLater
  <2>4. Locks!InputSatisfied(i)' <=>
          \A lock \in Locks!to_relative_lock_time(waiting.sequences[i]) :
            Locks!relative_is_satisfied_by(lock, Locks!height + 1, Locks!tip', coins[i], Locks!MtpAt(coins[i] - 1))
    BY <1>0, <2>1
    DEF Locks!InputSatisfied, Locks!to_relative_lock_time, Locks!is_relative_lock_time, Locks!BitIsSet, Locks!is_time_locked, Locks!low_u16, Locks!Lock,
        Locks!relative_is_satisfied_by, Locks!BlocksSatisfied, Locks!TimeSatisfied, Locks!to_seconds
  <2>. QED
    BY <2>3, <2>4
<1>. QED
  BY <1>0, <1>1, <1>2 DEF Locks!StaysSatisfied

-----------------------------------------------------------------------------
(* What consensus makes of it. *)

LEMMA RelativeIsMineable ==
  ASSUME Locks!LockTimesAssumption, LockInv, NEW i \in 1 .. 2
  PROVE  Locks!InputSatisfied(i) <=> Locks!SequenceLockPassed(i)
<1>. DEFINE s == waiting.sequences[i]
            n == s % LOW
            m == Locks!MtpAt(coins[i] - 1)
<1>0. /\ s \in Nat /\ coins[i] \in 0 .. Locks!height /\ Locks!height \in Nat /\ m \in Nat /\ Locks!tip \in Nat
      /\ n \in 0 .. LOW - 1 /\ LOW \in Nat /\ U32 \in Nat /\ LOW <= U32 /\ INTERVAL \in Nat
  <2>1. LOW \in Nat \ {0} /\ U32 \in Nat /\ LOW <= U32 /\ INTERVAL \in Nat
    BY LockConstants
  <2>2. s \in Nat /\ coins[i] \in WINDOW .. Locks!height /\ Locks!height \in Nat /\ m \in Nat /\ Locks!tip \in Nat
        /\ WINDOW \in Nat
    BY HeightType
  <2>. HIDE DEF s, m
  <2>3. n \in 0 .. LOW - 1
    BY <2>1, <2>2, DivMod
  <2>. QED
    BY <2>1, <2>2, <2>3
<1>1. CASE Locks!BitIsSet(s, LOCK_TIME_DISABLE_FLAG_MASK)
  BY <1>1 DEF Locks!InputSatisfied, Locks!SequenceLockPassed, Locks!to_relative_lock_time, Locks!is_relative_lock_time
<1>2. CASE ~Locks!BitIsSet(s, LOCK_TIME_DISABLE_FLAG_MASK)
  <2>. DEFINE lock == Locks!Lock(IF Locks!BitIsSet(s, LOCK_TYPE_MASK) THEN "Time" ELSE "Blocks", n)
  <2>1. Locks!to_relative_lock_time(s) = {lock}
    BY <1>2 DEF Locks!to_relative_lock_time, Locks!is_relative_lock_time, Locks!is_time_locked, Locks!low_u16
  <2>2. Locks!InputSatisfied(i) <=> Locks!relative_is_satisfied_by(lock, Locks!height, Locks!tip, coins[i], m)
    BY <2>1 DEF Locks!InputSatisfied
  <2>3. CASE Locks!BitIsSet(s, LOCK_TYPE_MASK)
    <3>1. lock.unit = "Time" /\ lock.value = n
      BY <2>3 DEF Locks!Lock
    <3>2. n * INTERVAL \in Nat
      BY <1>0
    <3>3. Locks!SequenceLockPassed(i) <=> m + n * INTERVAL - 1 < Locks!tip
      BY <1>2, <2>3 DEF Locks!SequenceLockPassed
    <3>4. Locks!relative_is_satisfied_by(lock, Locks!height, Locks!tip, coins[i], m) <=>
            Locks!tip >= m /\ n * INTERVAL <= Locks!tip - m
      BY <3>1 DEF Locks!relative_is_satisfied_by, Locks!TimeSatisfied, Locks!to_seconds
    <3>5. PICK p \in Nat : p = n * INTERVAL
      BY <3>2
    <3>6. m + p - 1 < Locks!tip <=> Locks!tip >= m /\ p <= Locks!tip - m
      BY <1>0
    <3>. QED
      BY <2>2, <3>3, <3>4, <3>5, <3>6
  <2>4. CASE ~Locks!BitIsSet(s, LOCK_TYPE_MASK)
    <3>1. lock.unit = "Blocks" /\ lock.value = n
      BY <2>4 DEF Locks!Lock
    <3>2. Locks!SequenceLockPassed(i) <=> coins[i] + n - 1 < Locks!height + 1
      BY <1>2, <2>4 DEF Locks!SequenceLockPassed
    <3>3. Locks!relative_is_satisfied_by(lock, Locks!height, Locks!tip, coins[i], m) <=>
            /\ Locks!height >= coins[i]
            /\ Locks!height - coins[i] = U32 - 1 \/ n <= Locks!height - coins[i] + 1
      BY <3>1 DEF Locks!relative_is_satisfied_by, Locks!BlocksSatisfied
    <3>. HIDE DEF s, n, lock, m
    <3>. QED
      BY <1>0, <2>2, <3>2, <3>3
  <2>. QED
    BY <2>3, <2>4
<1>. QED
  BY <1>1, <1>2

LEMMA SatisfiedAreMineable ==
  ASSUME Locks!LockTimesAssumption, LockInv PROVE Locks!SatisfiedIsMineable
<1>0. /\ Locks!height \in Nat /\ Locks!tip \in Nat /\ waiting.lock_time \in Nat /\ LOCK_TIME_THRESHOLD \in Nat
      /\ DOMAIN coins = 1 .. 2 /\ DOMAIN waiting.sequences = 1 .. 2
  BY LockConstants, HeightType
<1>1. Locks!is_lock_time_enabled(waiting) <=> ~\A i \in DOMAIN waiting.sequences : waiting.sequences[i] = U32 - 1
  BY DEF Locks!is_lock_time_enabled, Locks!enables_absolute_lock_time
<1>2. Locks!is_satisfied_by(Locks!from_consensus(waiting.lock_time), Locks!height, Locks!tip) <=>
        IF waiting.lock_time < LOCK_TIME_THRESHOLD THEN waiting.lock_time <= Locks!height + 1 ELSE waiting.lock_time < Locks!tip
  BY DEF Locks!is_satisfied_by, Locks!from_consensus, Locks!Lock, Locks!is_block_height, Locks!HeightSatisfied, Locks!MtpSatisfied
<1>3. Locks!IsFinal => Locks!is_absolute_timelock_satisfied(waiting, Locks!height, Locks!tip)
  <2>1. CASE Locks!is_lock_time_enabled(waiting)
    <3>1. Locks!IsFinal => waiting.lock_time < (IF waiting.lock_time < LOCK_TIME_THRESHOLD THEN Locks!height + 1 ELSE Locks!tip)
      BY <1>1, <2>1 DEF Locks!IsFinal
    <3>2. Locks!IsFinal => IF waiting.lock_time < LOCK_TIME_THRESHOLD THEN waiting.lock_time <= Locks!height + 1
                                                           ELSE waiting.lock_time < Locks!tip
      BY <1>0, <3>1
    <3>. QED
      BY <1>2, <3>2 DEF Locks!is_absolute_timelock_satisfied
  <2>. QED
    BY <2>1 DEF Locks!is_absolute_timelock_satisfied
<1>4. ASSUME ~Locks!is_block_height(waiting.lock_time), Locks!is_absolute_timelock_satisfied(waiting, Locks!height, Locks!tip)
      PROVE  Locks!IsFinal
  <2>1. CASE Locks!is_lock_time_enabled(waiting)
    BY <1>2, <1>4, <2>1 DEF Locks!IsFinal, Locks!is_absolute_timelock_satisfied, Locks!is_block_height
  <2>. QED
    BY <1>1, <2>1 DEF Locks!IsFinal
<1>. QED
  BY <1>0, <1>3, <1>4, RelativeIsMineable DEF Locks!SatisfiedIsMineable

-----------------------------------------------------------------------------
(* Locks that imply others. *)

LEMMA ImpliedAreSatisfied ==
  ASSUME Locks!LockTimesAssumption, LockInv PROVE Locks!ImpliedIsSatisfied
<1>0. /\ Locks!height \in Nat /\ Locks!tip \in Nat /\ waiting.lock_time \in Nat /\ LOCK_TIME_THRESHOLD \in Nat
      /\ DOMAIN coins = 1 .. 2 /\ INTERVAL \in Nat \ {0} /\ LOW \in Nat /\ U32 \in Nat
      /\ LockValues \subseteq Nat /\ SequenceValues \subseteq Nat
  BY LockConstants, HeightType
<1>1. ASSUME NEW n \in LockValues,
             Locks!is_implied_by(Locks!from_consensus(n), Locks!from_consensus(waiting.lock_time)),
             Locks!is_satisfied_by(Locks!from_consensus(waiting.lock_time), Locks!height, Locks!tip)
      PROVE  Locks!is_satisfied_by(Locks!from_consensus(n), Locks!height, Locks!tip)
  <2>1. n \in Nat /\ n <= waiting.lock_time
    BY <1>0, <1>1 DEF Locks!is_implied_by, Locks!from_consensus, Locks!Lock
  <2>2. n < LOCK_TIME_THRESHOLD <=> waiting.lock_time < LOCK_TIME_THRESHOLD
    BY <1>1 DEF Locks!is_implied_by, Locks!is_same_unit, Locks!from_consensus, Locks!Lock, Locks!is_block_height
  <2>3. IF waiting.lock_time < LOCK_TIME_THRESHOLD THEN waiting.lock_time <= Locks!height + 1 ELSE waiting.lock_time < Locks!tip
    BY <1>1 DEF Locks!is_satisfied_by, Locks!from_consensus, Locks!Lock, Locks!is_block_height, Locks!HeightSatisfied, Locks!MtpSatisfied
  <2>4. IF n < LOCK_TIME_THRESHOLD THEN n <= Locks!height + 1 ELSE n < Locks!tip
    BY <1>0, <2>1, <2>2, <2>3
  <2>. QED
    BY <2>4 DEF Locks!is_satisfied_by, Locks!from_consensus, Locks!Lock, Locks!is_block_height, Locks!HeightSatisfied, Locks!MtpSatisfied
<1>2. ASSUME NEW i \in 1 .. 2, NEW n \in SequenceValues, NEW lock \in Locks!to_relative_lock_time(n),
             Locks!is_implied_by_sequence(lock, waiting.sequences[i]), Locks!InputSatisfied(i)
      PROVE  Locks!relative_is_satisfied_by(lock, Locks!height, Locks!tip, coins[i], Locks!MtpAt(coins[i] - 1))
  <2>. DEFINE m == Locks!MtpAt(coins[i] - 1)
  <2>0. waiting.sequences[i] \in Nat /\ coins[i] \in 0 .. Locks!height /\ m \in Nat /\ n \in Nat
    BY <1>0, HeightType
  <2>. HIDE DEF m
  <2>1. PICK other \in Locks!to_relative_lock_time(waiting.sequences[i]) :
          lock.unit = other.unit /\ lock.value <= other.value
    BY <1>2 DEF Locks!is_implied_by_sequence, Locks!is_implied_by, Locks!is_same_unit
  <2>2. lock.value \in 0 .. LOW - 1 /\ other.value \in 0 .. LOW - 1
    BY <2>0, LockOfSequence
  <2>3. Locks!relative_is_satisfied_by(other, Locks!height, Locks!tip, coins[i], m)
    BY <1>2 DEF Locks!InputSatisfied, m
  <2>4. Locks!to_seconds(lock.value) <= Locks!to_seconds(other.value)
        /\ Locks!to_seconds(lock.value) \in Nat /\ Locks!to_seconds(other.value) \in Nat
    <3>1. lock.value \in Nat /\ other.value \in Nat /\ INTERVAL \in Nat \ {0}
      BY <1>0, <2>2
    <3>2. CASE lock.value = other.value
      BY <3>1, <3>2 DEF Locks!to_seconds
    <3>3. CASE lock.value < other.value
      <4>1. INTERVAL * lock.value + INTERVAL <= INTERVAL * other.value
        BY <3>1, <3>3, ProductGrows
      <4>2. INTERVAL * lock.value = lock.value * INTERVAL /\ INTERVAL * other.value = other.value * INTERVAL
            /\ lock.value * INTERVAL \in Nat /\ other.value * INTERVAL \in Nat
        BY <3>1
      <4>. QED
        BY <3>1, <4>1, <4>2 DEF Locks!to_seconds
    <3>. QED
      BY <2>1, <3>1, <3>2, <3>3
  <2>5. CASE lock.unit = "Blocks"
    <3>1. U32 \in Nat /\ LOW <= U32
      BY LockConstants
    <3>. QED
      BY <1>0, <2>0, <2>1, <2>2, <2>3, <2>5, <3>1 DEF Locks!relative_is_satisfied_by, Locks!BlocksSatisfied
  <2>6. CASE lock.unit # "Blocks"
    <3>1. Locks!tip >= m /\ Locks!to_seconds(other.value) <= Locks!tip - m
      BY <2>1, <2>3, <2>6 DEF Locks!relative_is_satisfied_by, Locks!TimeSatisfied
    <3>2. Locks!to_seconds(lock.value) <= Locks!tip - m
      <4>. HIDE DEF Locks!to_seconds
      <4>. QED
        BY <1>0, <2>0, <2>4, <3>1
    <3>3. Locks!TimeSatisfied(lock.value, Locks!tip, m)
      BY ONLY <3>1, <3>2 DEF Locks!TimeSatisfied
    <3>. QED
      BY ONLY <2>6, <3>3 DEF Locks!relative_is_satisfied_by, m
  <2>. QED
    BY <2>5, <2>6 DEF m
<1>. QED
  BY <1>0, <1>1, <1>2 DEF Locks!ImpliedIsSatisfied

LEMMA SecondsWaited ==
  ASSUME Locks!LockTimesAssumption, LockInv PROVE Locks!SecondsAreWaited
<1>. DEFINE Mined == {Locks!MtpAt(coins[i] - 1) : i \in DOMAIN coins}
<1>0. Mined \subseteq Nat /\ Locks!tip \in Nat /\ INTERVAL \in Nat \ {0} /\ LOW \in Nat \ {0} /\ U32 \in Nat
  <2>1. Locks!tip \in Nat /\ DOMAIN coins = 1 .. 2 /\ \A i \in 1 .. 2 : Locks!MtpAt(coins[i] - 1) \in Nat
    BY HeightType
  <2>. QED
    BY <2>1, LockConstants
<1>1. ASSUME NEW seconds \in 0 .. U32 - 1
      PROVE  /\ \A n \in Locks!from_seconds_ceil(seconds), m \in Mined :
                  Locks!TimeSatisfied(n, Locks!tip, m) => Locks!tip - m >= seconds
             /\ \A n \in Locks!from_seconds_floor(seconds), m \in Mined :
                  Locks!tip - m >= seconds => Locks!TimeSatisfied(n, Locks!tip, m)
             /\ Locks!from_seconds_ceil(seconds) = {} <=> Locks!to_seconds(LOW - 1) < seconds
             /\ Locks!from_seconds_floor(seconds) = {} <=> Locks!to_seconds(LOW) <= seconds
  <2>0. seconds \in Nat
    BY <1>0
  <2>1. ASSUME NEW n \in Locks!from_seconds_ceil(seconds), NEW m \in Mined, Locks!TimeSatisfied(n, Locks!tip, m)
        PROVE  Locks!tip - m >= seconds
    <3>1. Locks!to_seconds(n) >= seconds /\ Locks!to_seconds(n) <= Locks!tip - m /\ m \in Nat /\ n \in Nat
      BY <1>0, <2>0, <2>1, SecondsAndIntervals DEF Locks!TimeSatisfied
    <3>2. Locks!to_seconds(n) \in Nat
      BY <1>0, <3>1 DEF Locks!to_seconds
    <3>. HIDE DEF Locks!to_seconds, Mined
    <3>. QED
      BY <1>0, <2>0, <3>1, <3>2
  <2>2. ASSUME NEW n \in Locks!from_seconds_floor(seconds), NEW m \in Mined, Locks!tip - m >= seconds
        PROVE  Locks!TimeSatisfied(n, Locks!tip, m)
    <3>1. Locks!to_seconds(n) <= seconds /\ m \in Nat /\ n \in Nat
      BY <1>0, <2>0, SecondsAndIntervals
    <3>2. Locks!to_seconds(n) \in Nat
      BY <1>0, <3>1 DEF Locks!to_seconds
    <3>. HIDE DEF Locks!to_seconds, Mined
    <3>. QED
      BY <1>0, <2>0, <2>2, <3>1, <3>2 DEF Locks!TimeSatisfied
  <2>. HIDE DEF Mined
  <2>. QED
    BY <2>0, <2>1, <2>2, SecondsAndIntervals
<1>. QED
  BY <1>1, LockComesBack DEF Locks!SecondsAreWaited

-----------------------------------------------------------------------------
(* The topics.                                                              *)

TopicInv ==
  /\ topic = "peers" => PeersInv
  /\ topic = "locks" => LockInv

LEMMA TopicAssumptions == Peers!PeerAssumption /\ Locks!LockTimesAssumption
BY NetworkAssumption

LEMMA TopicsStart == NetworkInit => TopicInv
<1>1. PeersBegin => TopicInv
  BY TopicAssumptions, PeersStart DEF PeersBegin, TopicInv
<1>2. LocksBegin => TopicInv
  BY TopicAssumptions, LocksStart DEF LocksBegin, TopicInv
<1>. QED
  BY <1>1, <1>2
  DEF NetworkInit, TopicInv, MessageBegins, TreeBegins, RelayBegins, FilterBegins, StreamsBegin,
      PayloadsBegin, AdaptersBegin, TargetsBegin, NumbersBegin

\* The other topics leave what the two are about alone.
LEMMA OtherTopics ==
  ASSUME NetworkNext, ~PeersStep, ~LocksStep
  PROVE  (topic \notin {"peers", "locks"} /\ topic' = topic) \/ UNCHANGED networkVars
BY DEF NetworkNext, MessageStep, TreeStep, RelayStep, FilterStep, StreamsStep, PayloadsStep,
       AdaptersStep, TargetsStep, NumbersStep, CallerStops

LEMMA TopicsStay == TopicInv /\ [NetworkNext]_networkVars => TopicInv'
<1>. SUFFICES ASSUME TopicInv, [NetworkNext]_networkVars PROVE TopicInv'
  OBVIOUS
<1>1. CASE PeersStep
  <2>1. topic = "peers" /\ topic' = topic /\ Peers!PeersNext
    BY <1>1 DEF PeersStep
  <2>2. PeersInv'
    BY <2>1, TopicAssumptions, PeersStay DEF TopicInv
  <2>. QED
    BY <2>1, <2>2 DEF TopicInv
<1>2. CASE LocksStep
  <2>1. topic = "locks" /\ topic' = topic /\ Locks!LockNext
    BY <1>2 DEF LocksStep
  <2>2. LockInv'
    BY <2>1, TopicAssumptions, LocksStay DEF TopicInv
  <2>. QED
    BY <2>1, <2>2 DEF TopicInv
<1>3. CASE topic \notin {"peers", "locks"} /\ topic' = topic
  BY <1>3 DEF TopicInv
<1>4. CASE UNCHANGED networkVars
  <2>1. topic' = topic /\ UNCHANGED Peers!peerVars /\ UNCHANGED Locks!lockVars
    BY <1>4 DEF networkVars, peerVars, chainVars, Peers!peerVars, Locks!lockVars
  <2>2. PeersInv => PeersInv'
    BY <2>1, TopicAssumptions, PeersStay
  <2>3. LockInv => LockInv'
    BY <2>1, TopicAssumptions, LocksStay
  <2>. QED
    BY <2>1, <2>2, <2>3 DEF TopicInv
<1>. QED
  BY <1>1, <1>2, <1>3, <1>4, OtherTopics

\* The inductive invariant of both topics.
THEOREM TopicInvariant == NetworkSpec => []TopicInv
<1>. QED
  BY TopicsStart, TopicsStay, PTL DEF NetworkSpec

\* An address that one peer accepted every further peer accepts as the same one, for every
\* limit on the length of addresses, every set of networks and any number of peers.
THEOREM EveryAddressSpreads == NetworkSpec => []AddressesSpread
<1>1. TopicInv => AddressesSpread
  BY SpreadFollows DEF TopicInv, AddressesSpread
<1>. QED
  BY <1>1, TopicInvariant, PTL

\* Relative locks and locks by time are satisfied exactly if consensus admits the transaction
\* to the next block, locks by height whenever it does; what a lock implies is satisfied with
\* it; and so is a time that was rounded to intervals: for every window, interval and
\* threshold and every chain.
THEOREM EveryLockOpens == NetworkSpec => []LocksOpenInTime
<1>1. TopicInv => LocksOpenInTime
  BY TopicAssumptions, SatisfiedAreMineable, ImpliedAreSatisfied, SecondsWaited
  DEF TopicInv, LocksOpenInTime
<1>. QED
  BY <1>1, TopicInvariant, PTL

\* A lock that was satisfied stays so while the chain grows, although a timestamp may be
\* lower than the one before: for every odd window of the median.
THEOREM SatisfiedLocksStay == NetworkSpec => SatisfiedStays
<1>1. TopicInv /\ [NetworkNext]_networkVars
        => [topic = "locks" => Locks!StaysSatisfied]_networkVars
  <2>. SUFFICES ASSUME TopicInv, NetworkNext, topic = "locks", ~UNCHANGED networkVars
                PROVE  Locks!StaysSatisfied
    OBVIOUS
  <2>1. LocksStep
    BY OtherTopics DEF PeersStep
  <2>2. Locks!MineBlock
    <3>1. ~Locks!BoundReached
      BY <2>1
      DEF LocksStep, Locks!BoundReached, networkVars, Locks!lockVars, chainVars
    <3>. QED
      BY <2>1, <3>1 DEF LocksStep, Locks!LockNext
  <2>. QED
    BY <2>2, TopicAssumptions, SatisfiedStay DEF TopicInv
<1>. QED
  BY <1>1, TopicInvariant, PTL DEF NetworkSpec, SatisfiedStays

=============================================================================
