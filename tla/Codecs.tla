------------------------------- MODULE Codecs -------------------------------
(***************************************************************************)
(* The conversions between bytes and values at the edges of the engine:    *)
(* peer messages and bitfields on the wire, the torrent file, and the      *)
(* answers of trackers, HTTP and UDP.  Something is encoded, its bytes may be       *)
(* damaged once on the way (a byte changed, the end cut off, a byte        *)
(* added), and the engine decodes what arrives.                            *)
(***************************************************************************)
EXTENDS PeerMessage, Bitfield, TorrentMetadata, TrackerResponse, FiniteSets

CONSTANTS
    Messages,     \* peer messages
    Values,       \* bencoded values
    Torrents,     \* root dictionaries of torrent files
    Responses,    \* root dictionaries of HTTP tracker responses
    PeerLists,    \* the peers that UDP trackers answer with
    WireFields,   \* the bytes of bitfields, as peers send them
    Sizes,        \* numbers of pieces
    Damages       \* by kind, the bytes that damage puts in place of others

VARIABLES
    kind,         \* message, value, torrent, response, datagram or bits
    item,         \* what was encoded; for bits, the pieces they stand for
    bytes,        \* what arrives
    damage,       \* none, changed, cut or added
    out           \* what the engine makes of it

vars == <<kind, item, bytes, damage, out>>

Pending == [pending |-> TRUE]
Decoded == out # Pending

\* The pieces that the bytes of a bitfield stand for: the first piece is the
\* highest bit of the first byte.
Members(wire, n) ==
    {i \in 0 .. n - 1 : /\ i \div Width < Len(wire)
                        /\ BitOf(wire[(i \div Width) + 1], Width - 1 - (i % Width)) = 1}

\* What a UDP tracker sends: the fixed fields, and six bytes for each peer.
Header == [k \in 1 .. 20 |-> 0]
PeerBytes(p) == p.ip \o <<p.port \div 256, p.port % 256>>
Datagram(peers) == Header \o FlattenSeq([k \in DOMAIN peers |-> PeerBytes(peers[k])])

Init ==
    /\ \/ kind = "message" /\ item \in Messages /\ bytes = serialize(item)
       \/ kind = "value" /\ item \in Values /\ bytes = encode(item)
       \/ kind = "torrent" /\ item \in Torrents /\ bytes = encode(item)
       \/ kind = "response" /\ item \in Responses /\ bytes = encode(item)
       \/ kind = "datagram" /\ item \in PeerLists /\ bytes = Datagram(item)
       \/ /\ kind = "bits" /\ bytes \in WireFields
          /\ \E n \in Sizes : item = [num_bits |-> n, members |-> Members(bytes, n)]
    /\ damage = "none"
    /\ out = Pending

----------------------------------------------------------------------------
Damaging == kind # "bits" /\ damage = "none" /\ out = Pending

ChangeByte(k, b) ==
    /\ Damaging
    /\ bytes' = [bytes EXCEPT ![k] = b]
    /\ damage' = "changed"
    /\ UNCHANGED <<kind, item, out>>

CutOff(n) ==
    /\ Damaging
    /\ bytes' = SubSeq(bytes, 1, n)
    /\ damage' = "cut"
    /\ UNCHANGED <<kind, item, out>>

AddByte(b) ==
    /\ Damaging
    /\ bytes' = Append(bytes, b)
    /\ damage' = "added"
    /\ UNCHANGED <<kind, item, out>>

\* The engine decodes what arrived.
Decode ==
    /\ out = Pending
    /\ \/ kind = "message" /\ out' = deserialize(bytes)
       \/ kind = "value" /\ out' = parse(bytes)
       \/ kind = "torrent" /\ out' = from_bencode(bytes)
       \/ kind = "response" /\ out' = parse_response(bytes)
       \/ kind = "datagram" /\ out' = udp_response(bytes)
       \/ kind = "bits" /\ out' = FromBytes(bytes, item.num_bits)
    /\ UNCHANGED <<kind, item, bytes, damage>>

\* The engine goes on with the bitfield: a piece comes or goes.
SetBit(i, val) ==
    /\ kind = "bits" /\ Decoded
    /\ out' = set(out, i, val)
    /\ item' = [item EXCEPT !.members = IF i >= item.num_bits THEN @
                                        ELSE IF val THEN @ \cup {i} ELSE @ \ {i}]
    /\ UNCHANGED <<kind, bytes, damage>>

\* It is intersected with another one.
And(wire, n) ==
    /\ kind = "bits" /\ Decoded
    /\ out' = Intersect(out, FromBytes(wire, n))
    /\ item' = [num_bits |-> IF n < item.num_bits THEN n ELSE item.num_bits,
                members |-> item.members \cap Members(wire, n)]
    /\ UNCHANGED <<kind, bytes, damage>>

Next ==
    \/ \E b \in Damages[kind] : AddByte(b) \/ \E k \in DOMAIN bytes : ChangeByte(k, b)
    \/ \E n \in 0 .. Len(bytes) - 1 : CutOff(n)
    \/ Decode
    \/ \E i \in Sizes, val \in BOOLEAN : SetBit(i, val)
    \/ \E wire \in WireFields, n \in Sizes : And(wire, n)

Spec == Init /\ [][Next]_vars

----------------------------------------------------------------------------
(* Properties.                                                             *)

\* What one engine encodes another one decodes to the same: all messages,
\* and all values (the least int64_t excepted, which the parser refuses
\* because it reads the digits before it applies the sign).
RoundTrip ==
    Decoded /\ damage = "none" =>
        /\ kind = "message" => out = [consumed |-> Len(bytes), msg |-> item]
        /\ kind = "value" => out = IF item = Int64(-MaxInt - 1) THEN Fail ELSE item

\* No part of a frame is taken before all of it is there, and a byte behind
\* it is left for the next frame.
WholeFrame ==
    /\ out.consumed <= Len(bytes)
    /\ damage = "cut" => out = [consumed |-> 0, msg |-> NoMsg]
    /\ damage = "added" => out.consumed = Len(bytes) - 1

\* Decoding is one-to-one: whatever bytes are accepted, damaged ones too, are
\* the ones the value would be encoded as, and its numbers fit their types.
\* Two files or frames that differ never mean the same.
Canonical ==
    Decoded =>
        /\ kind = "message" => WholeFrame
        /\ kind = "message" /\ out.msg # NoMsg =>
              serialize(out.msg) = SubSeq(bytes, 1, out.consumed)
        /\ kind = "value" /\ ~Failed(out) =>
              encode(out) = bytes /\ (is_int(out) => out.int \in -MaxInt .. MaxInt)

\* The info hash is taken of the bytes that encode the info dictionary: they
\* are found although the parser keeps no positions.
InfoSpanExact ==
    Decoded /\ kind = "torrent" /\ ~Failed(out) =>
        out.info_hash = encode(ValueAt(parse(bytes).dict, KInfo))

\* The length of all files together, and whether the sums made of it fit.
TrueTotal(files) == FoldLeft(LAMBDA n, f : n + f.length, 0, files)
Fits64(md) == TrueTotal(md.files) + md.piece_length - 1 <= MaxInt

\* The metadata the engine goes on with fit together: there is a tracker to
\* ask, the files lie one behind the other, and the pieces, of which only the
\* last may be shorter, cover them exactly.  (Negative sizes, and sizes that
\* overflow the sums, are let through: see the README.)
LayoutConsistent ==
    Decoded /\ kind = "torrent" /\ ~Failed(out) /\ out.piece_length > 0
            /\ (\A k \in DOMAIN out.files : out.files[k].length >= 0)
            /\ Fits64(out) =>
        LET files == out.files
            total == TrueTotal(files)
            n == Len(out.piece_hashes)
        IN /\ out.announce_list # <<>> /\ <<>> \notin Range(out.announce_list)
           /\ files # <<>> => files[1].offset = 0
           /\ \A k \in 2 .. Len(files) :
                  files[k].offset = files[k - 1].offset + files[k - 1].length
           /\ out.total_length = total
           /\ total <= n * out.piece_length
           /\ n > 0 => total > (n - 1) * out.piece_length

\* HTTP and UDP trackers are understood alike, each by code of its own: a
\* compact list that parse_response accepts gives the peers announce_udp reads
\* from the same bytes behind the fixed fields of a datagram, all of them; an
\* answer with a failure has no peers.  What announce_udp reads are the peers
\* the tracker sent: of a datagram that was cut off those that are still
\* whole, a byte more adds none, and a changed byte spoils one at most.
PeersAgree ==
    Decoded /\ ~Failed(out) =>
        /\ kind = "response" =>
              LET dict == parse(bytes).dict
              IN /\ out.failure_reason # <<>> => out.peers = <<>>
                 /\ HasString(dict, KPeers) /\ ~HasKey(dict, KFailure) =>
                       /\ out.peers = udp_peers(Header \o ValueAt(dict, KPeers).str)
                       /\ 6 * Len(out.peers) = Len(ValueAt(dict, KPeers).str)
        /\ kind = "datagram" =>
              CASE damage = "cut" ->
                     /\ IsPrefix(out.peers, item)
                     /\ Len(bytes) < Len(Datagram(SubSeq(item, 1, Len(out.peers) + 1)))
                [] damage = "changed" ->
                     /\ Len(out.peers) = Len(item)
                     /\ Cardinality({k \in DOMAIN item : out.peers[k] # item[k]}) <= 1
                [] OTHER -> out.peers = item

\* A bitfield is the set of the pieces it stands for, whatever the padding
\* and the size of what came from the wire, and stays it through all changes.
BitfieldExact ==
    Decoded /\ kind = "bits" =>
        /\ {i \in 0 .. out.num_bits + Width : has(out, i)} = item.members
        /\ count(out) = Cardinality(item.members)
=============================================================================
