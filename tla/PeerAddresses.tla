---------------------------- MODULE PeerAddresses ----------------------------
(***************************************************************************)
(* The addresses of p2p/src/address.rs as they are passed on from peer to  *)
(* peer: in addrv2 messages (AddrV2, its encoder with a chunk per part, its*)
(* decoder with the checks of BIP 155), in addr messages (Address, sixteen *)
(* bytes whatever the network), and as the sockets in between.             *)
(*                                                                         *)
(* An IPv6 address is a prefix and the four bytes behind it, which count   *)
(* as one; a length is the number of such parts.                           *)
(***************************************************************************)
EXTENDS Naturals, Sequences, SequencesExt

CONSTANTS
  Lows,          \* bound: the last four bytes of an address
  Networks,      \* bound: network ids, 1, 2, 4, 5, 6 and others
  MAX_LENGTH,    \* of an address of any network
  MaxHops        \* bound: peers an address reaches

\* What the first twelve bytes of an IPv6 address are: all zero (an IPv4-compatible
\* address), those of an IPv4-mapped or an onion address, or begin with FC, or others.
IpPrefixes == {"compatible", "mapped", "onion", "cjdns", "other"}

PeerAssumption == MAX_LENGTH \in Nat /\ MAX_LENGTH > 3 /\ MaxHops \in Nat

VARIABLES
  addr,        \* the AddrV2 of the peer, or its rejection
  encoder,     \* AddrV2Encoder: the parts that have not been sent
  sent,        \* what is on the wire, part by part
  accepted,    \* the address as the first peer that decoded it sees it
  hops,
  carried      \* whether only addrv2 messages carried it since

peerVars == <<addr, encoder, sent, accepted, hops, carried>>

Nothing == <<>>
Ok(value) == <<value>>

-----------------------------------------------------------------------------
(* Values. *)

AddrV2(network, parts) == [network |-> network, id |-> 0, parts |-> parts]
Ipv4(low) == AddrV2("Ipv4", <<low>>)
Ipv6(ip) == AddrV2("Ipv6", ip)
Unknown(id, parts) == [AddrV2("Unknown", parts) EXCEPT !.id = id]

\* A socket and an AddrV2 have these two in common.
IsSocket(a) == a.network \in {"Ipv4", "Ipv6"}

\* Address::new: sixteen bytes.
V1Address(socket) == IF socket.network = "Ipv4" THEN <<"mapped">> \o socket.parts ELSE socket.parts

\* Address::socket_addr; to_ipv4 knows mapped and compatible addresses.
socket_addr(ip) ==
  IF ip[1] = "onion" THEN Nothing
  ELSE IF ip[1] \in {"mapped", "compatible"} THEN Ok(Ipv4(ip[2]))
  ELSE Ok(Ipv6(ip))

-----------------------------------------------------------------------------
(* Encoding. *)

NetworkId(a) ==
  CASE a.network = "Ipv4" -> 1 [] a.network = "Ipv6" -> 2 [] a.network = "TorV3" -> 4
    [] a.network = "I2p" -> 5 [] a.network = "Cjdns" -> 6 [] OTHER -> a.id

NewEncoder(a) == <<<<NetworkId(a)>>, <<Len(a.parts)>>, a.parts>>
NoEncoder == <<>>

current_chunk == IF encoder = NoEncoder THEN <<>> ELSE Head(encoder)

\* advance answers Finished when the last part has been sent.
Finished(rest) == rest = <<>>

-----------------------------------------------------------------------------
(* Decoding. *)

\* Mutant: an IPv4 address may come as an IPv6 address.
Decode_Wrapped(id, parts) ==
  LET sized(n, a, wrong) == IF Len(parts) # n \/ wrong THEN Nothing ELSE Ok(a)
  IN  IF Len(parts) > MAX_LENGTH THEN Nothing
      ELSE CASE id = 1 -> sized(1, Ipv4(parts[1]), FALSE)
             [] id = 2 -> sized(2, Ipv6(parts), parts[1] = "onion")
             [] id = 4 -> sized(3, AddrV2("TorV3", parts), FALSE)
             [] id = 5 -> sized(3, AddrV2("I2p", parts), FALSE)
             [] id = 6 -> sized(2, AddrV2("Cjdns", parts), parts[1] # "cjdns")
             [] OTHER -> Ok(Unknown(id, parts))

Decode(id, parts) ==
  LET sized(n, a, wrong) == IF Len(parts) # n \/ wrong THEN Nothing ELSE Ok(a)
  IN  IF Len(parts) > MAX_LENGTH THEN Nothing
      ELSE CASE id = 1 -> sized(1, Ipv4(parts[1]), FALSE)
             [] id = 2 -> sized(2, Ipv6(parts), parts[1] \in {"onion", "mapped"})
             [] id = 4 -> sized(3, AddrV2("TorV3", parts), FALSE)
             [] id = 5 -> sized(3, AddrV2("I2p", parts), FALSE)
             [] id = 6 -> sized(2, AddrV2("Cjdns", parts), parts[1] # "cjdns")
             [] OTHER -> Ok(Unknown(id, parts))

-----------------------------------------------------------------------------
\* Somebody sends anything, or a node has a socket of its own.
Payloads ==
  {<<>>} \cup {<<low>> : low \in Lows} \cup {<<p, low>> : p \in IpPrefixes, low \in Lows}
    \cup {[i \in 1 .. n |-> low] : n \in 3 .. MAX_LENGTH + 1, low \in Lows}

PeersInit ==
  /\ encoder = NoEncoder /\ accepted = Nothing /\ hops = 0 /\ carried = TRUE
  /\ \/ /\ addr = Nothing
        /\ \E id \in Networks, p \in Payloads : sent = <<<<id>>, <<Len(p)>>, p>>
     \/ /\ sent = <<>>
        /\ addr \in {Ok(Ipv4(low)) : low \in Lows}
             \cup {Ok(Ipv6(<<p, low>>)) : p \in IpPrefixes, low \in Lows}

Encode ==
  /\ addr # Nothing /\ encoder = NoEncoder /\ sent = <<>> /\ hops < MaxHops
  /\ encoder' = NewEncoder(addr[1])
  /\ UNCHANGED <<addr, sent, accepted, hops, carried>>

\* A chunk is written, and advance moves on to the next one.
Send ==
  /\ encoder # NoEncoder
  /\ sent' = Append(sent, current_chunk)
  /\ encoder' = IF Finished(Tail(encoder)) THEN NoEncoder ELSE Tail(encoder)
  /\ UNCHANGED <<addr, accepted, hops, carried>>

\* The message is there, or ends in the middle of an address.
Receive ==
  /\ encoder = NoEncoder /\ sent # <<>>
  /\ addr' = IF Len(sent) = 3 /\ sent[2] = <<Len(sent[3])>>
               THEN Decode(sent[1][1], sent[3]) ELSE Nothing
  /\ accepted' = IF accepted = Nothing THEN addr' ELSE accepted
  /\ hops' = hops + 1
  /\ sent' = <<>>
  /\ UNCHANGED <<encoder, carried>>

\* The next peer is told in an addr message, which carries sockets only, and passes
\* on the socket it would connect to.
ThroughV1 ==
  /\ addr # Nothing /\ IsSocket(addr[1]) /\ sent = <<>> /\ encoder = NoEncoder
  /\ hops < MaxHops
  /\ addr' = socket_addr(V1Address(addr[1]))
  /\ hops' = hops + 1 /\ carried' = FALSE
  /\ UNCHANGED <<encoder, sent, accepted>>

PeersNext == Encode \/ Send \/ Receive \/ ThroughV1

-----------------------------------------------------------------------------
\* What one peer accepted every further peer accepts as the same address, and it is sent
\* as the same bytes; also by way of addr messages, except that an IPv4-compatible IPv6
\* address arrives there as the IPv4 address.
AddressesSpread ==
  accepted # Nothing =>
    LET a == accepted[1]
        isCompatible == a.network = "Ipv6" /\ a.parts[1] = "compatible"
    IN  /\ addr \in {accepted}
             \cup (IF isCompatible /\ ~carried THEN {Ok(Ipv4(a.parts[2]))} ELSE {})
        /\ sent # <<>> /\ encoder = NoEncoder => sent = NewEncoder(addr[1])

=============================================================================
