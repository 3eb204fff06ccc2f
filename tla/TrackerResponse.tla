-------------------------- MODULE TrackerResponse ---------------------------
(***************************************************************************)
(* What a tracker's answer means: TrackerClient::parse_response for HTTP   *)
(* and the end of announce_udp for UDP, in code/src/tracker_client.cpp.    *)
(* Each reads compact peers with code of its own.  Keys and ports are as   *)
(* in the code, except that the keys are one character each.               *)
(***************************************************************************)
EXTENDS Bencode

\* The keys of a response and those of a peer.
KComplete == <<99>>
KFailure == <<102>>
KIncomplete == <<105>>
KInterval == <<106>>
KPeers == <<112>>
KIp == <<105>>
KPeerId == <<112>>
KPort == <<113>>

Uint16(n) == n % 65536

\* PeerInfo::port has no initial value: without a port in the dictionary it
\* is some uint16_t.
AnyPort == -1

\* Six bytes of the string, k before them: an address and a port.
PeerAt(bytes, k) ==
    [ip |-> SubSeq(bytes, k + 1, k + 4), port |-> bytes[k + 5] * 256 + bytes[k + 6]]

CompactPeers(bytes) == [k \in 1 .. Len(bytes) \div 6 |-> PeerAt(bytes, 6 * (k - 1))]

\* Mutant: a peer list that is cut short is taken for what it holds.
RightSize_Any(bytes) == TRUE

\* Does parse_response accept a compact peer list of this size?
RightSize(bytes) == Len(bytes) % 6 = 0

\* An element of a peer list that is no dictionary is passed over, and a
\* missing address is empty.
ListPeers(list) ==
    LET dicts == SelectSeq(list, is_dict)
        Ip(d) == IF HasKey(d, KIp) THEN ValueAt(d, KIp).str ELSE <<>>
        Port(d) == IF HasKey(d, KPort) THEN Uint16(ValueAt(d, KPort).int) ELSE AnyPort
    IN [k \in DOMAIN dicts |-> [ip |-> Ip(dicts[k].dict), port |-> Port(dicts[k].dict)]]

\* as_string and as_int throw for a field of another type.
StringIfAny(dict, key) == HasKey(dict, key) => is_string(ValueAt(dict, key))
IntIfAny(dict, key) == HasKey(dict, key) => is_int(ValueAt(dict, key))

ValidPeer(v) ==
    is_dict(v) => /\ StringIfAny(v.dict, KIp) /\ StringIfAny(v.dict, KPeerId)
                  /\ IntIfAny(v.dict, KPort)

\* The peers of a response: a compact string, a list, or something else,
\* which is ignored.
ValidPeers(v) ==
    /\ is_string(v) => RightSize(v.str)
    /\ is_list(v) => \A k \in DOMAIN v.list : ValidPeer(v.list[k])

PeersOf(v) == IF is_string(v) THEN CompactPeers(v.str)
              ELSE IF is_list(v) THEN ListPeers(v.list) ELSE <<>>

\* A failure is checked for before everything else.
FromDict(dict) ==
    IF ~StringIfAny(dict, KFailure) THEN Fail
    ELSE IF HasKey(dict, KFailure)
         THEN [failure_reason |-> ValueAt(dict, KFailure).str, peers |-> <<>>]
    ELSE IF \/ \E key \in {KInterval, KComplete, KIncomplete} : ~IntIfAny(dict, key)
            \/ HasKey(dict, KPeers) /\ ~ValidPeers(ValueAt(dict, KPeers))
         THEN Fail
    ELSE [failure_reason |-> <<>>,
          peers |-> IF HasKey(dict, KPeers) THEN PeersOf(ValueAt(dict, KPeers)) ELSE <<>>]

FromValue(root) == IF Failed(root) \/ ~is_dict(root) THEN Fail ELSE FromDict(root.dict)

parse_response(data) == FromValue(parse(data))

----------------------------------------------------------------------------
(* The answer to a UDP announce, once its transaction and its action are   *)
(* those expected (module TrackerClient).                                  *)

\* Mutant: the two bytes are taken as the processor has them.
read_uint16_HostOrder(buf, at) == buf[at + 1] + 256 * buf[at + 2]

\* The two bytes behind position at, in network order.
read_uint16(buf, at) == 256 * buf[at + 1] + buf[at + 2]

\* The bytes of an answer before its peers.
peers_offset == 20

\* The peers behind the fixed fields; an incomplete one at the end is dropped.
udp_peers(resp_buf) ==
    LET num_peers == (Len(resp_buf) - peers_offset) \div 6
        peer_ptr(i) == peers_offset + i * 6
    IN [k \in 1 .. num_peers |->
           LET p == peer_ptr(k - 1)
           IN [ip |-> <<resp_buf[p + 1], resp_buf[p + 2], resp_buf[p + 3], resp_buf[p + 4]>>,
               port |-> read_uint16(resp_buf, p + 4)]]

\* The end of announce_udp; what is too short for the fields is not an answer.
udp_response(resp_buf) ==
    IF Len(resp_buf) < peers_offset THEN Fail
    ELSE [failure_reason |-> <<>>, peers |-> udp_peers(resp_buf)]
=============================================================================
