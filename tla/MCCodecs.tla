------------------------------ MODULE MCCodecs ------------------------------
(***************************************************************************)
(* Samples: every message type with numbers at both ends of their range,   *)
(* every int64_t, values two levels deep, torrents that are right, short   *)
(* of pieces, incomplete in every part or too long to add up, and the      *)
(* forms of a response.                                                    *)
(***************************************************************************)
EXTENDS Codecs

SomeNumbers == {0, 1, Base ^ 4 - 1}
SomeBytes == {<<>>, <<Base - 1>>, <<0, 7>>}

SomeMessages ==
    {KeepAlive}
    \cup {Msg(t, <<>>, <<>>) : t \in {"choke", "unchoke", "interested", "not_interested"}}
    \cup {Msg("have", <<n>>, <<>>) : n \in SomeNumbers}
    \cup {Msg("bitfield", <<>>, b) : b \in SomeBytes}
    \cup {Msg(t, <<n, 1, Base ^ 4 - 1>>, <<>>) : t \in {"request", "cancel"}, n \in SomeNumbers}
    \cup {Msg("piece", <<1, n>>, b) : n \in SomeNumbers, b \in SomeBytes}
    \cup {Msg("port", <<n>>, <<>>) : n \in {0, 1, Base ^ 2 - 1}}

Long == [k \in 1 .. 12 |-> ChE]
Scalars == {Str(<<>>), Str(<<ChI>>), Str(Long), Int64(0), Int64(-7), List(<<>>), Dict(<<>>)}
Pairs == {List(<<v, w>>) : v, w \in Scalars}
         \cup {Dict(<<<<k, v>>, <<<<97, 98>>, w>>>>) : k \in {<<>>, <<97>>}, v, w \in Scalars}

SomeValues ==
    {Int64(n) : n \in -MaxInt - 1 .. MaxInt} \cup Scalars \cup Pairs
    \cup {List(<<Dict(<<<<<<97>>, List(<<Int64(1)>>)>>>>)>>)}

\* A dictionary of the entries that are there: absent ones are empty.
DictOf(entries) == Dict(FlattenSeq(entries))
Entry(key, v) == <<<<key, v>>>>
Absent == <<>>

Url == Str(<<120>>)
AnnounceLists ==
    {Absent, Entry(KAnnounceList, Url), Entry(KAnnounceList, List(<<>>)),
     Entry(KAnnounceList, List(<<List(<<Str(<<>>), Int64(1), Url>>), Url, List(<<Str(<<121>>)>>)>>))}

FileOf(n) == DictOf(<<Entry(KLength, Int64(n)), Entry(KPath, List(<<Url, Url>>))>>)

Contents ==
    {Entry(KLength, Int64(n)) : n \in {-1, 0, 3, 4}}
    \cup {Entry(KFiles, List(<<FileOf(m), FileOf(n)>>)) : m \in {0, 1}, n \in {2, 3}}
    \cup {Absent, Entry(KFiles, List(<<>>)), Entry(KFiles, List(<<Url>>)), Entry(KFiles, Url),
          Entry(KLength, Url)}

\* Lengths that the sums of int64_t wrap.
TooLong == {Entry(KLength, Int64(MaxInt)),
            Entry(KFiles, List(<<FileOf(MaxInt), FileOf(MaxInt), FileOf(4)>>))}

\* The files come first among the keys, the length second.
InfoOf(content, name, piece_length, pieces) ==
    DictOf(<<content, name, piece_length, Entry(KPieces, pieces)>>)

Digest(n) == Str([k \in 1 .. n |-> 104])

Infos ==
    {InfoOf(c, Entry(KName, Url), Entry(KPieceLength, Int64(2)), Digest(n)) :
        c \in Contents, n \in 0 .. 4}
    \cup {InfoOf(Entry(KLength, Int64(3)), Absent, Entry(KPieceLength, Int64(2)), Digest(4)),
          InfoOf(Entry(KLength, Int64(3)), Entry(KName, Url), Absent, Digest(4)),
          InfoOf(Entry(KLength, Int64(3)), Entry(KName, Url), Entry(KPieceLength, Int64(2)),
                 Int64(4)),
          Int64(1)}
    \cup {InfoOf(c, Entry(KName, Url), Entry(KPieceLength, Int64(p)), Digest(n)) :
             c \in TooLong, p \in {2, MaxInt}, n \in {0, 2}}

SomeTorrents ==
    {DictOf(<<Entry(KAnnounce, Url), l, Entry(KInfo, i)>>) : l \in AnnounceLists, i \in Infos}
    \cup {DictOf(<<a, Entry(KInfo, CHOOSE i \in Infos : is_dict(i))>>) :
             a \in {Absent, Entry(KAnnounce, Str(<<>>)), Entry(KAnnounce, Int64(1))}}
    \cup {DictOf(<<Entry(KAnnounce, Url)>>), Int64(1)}

Compact(n) == Str([k \in 1 .. n |-> 20 * k])
PeerOf(ip, port) == DictOf(<<ip, Entry(KPeerId, Url), port>>)

PeerFields ==
    {Compact(n) : n \in {0, 6, 7, 12}} \cup {Int64(1)}
    \cup {List(<<Int64(1), PeerOf(ip, port)>>) :
             ip \in {Absent, Entry(KIp, Url), Entry(KIp, Int64(1))},
             port \in {Absent, Entry(KPort, Int64(-1)), Entry(KPort, Url)}}

SomeResponses ==
    {DictOf(<<f, i, Entry(KPeers, p)>>) :
        f \in {Absent, Entry(KFailure, Str(<<>>)), Entry(KFailure, Url), Entry(KFailure, Int64(1))},
        i \in {Absent, Entry(KInterval, Int64(9)), Entry(KInterval, Url)},
        p \in PeerFields}
    \cup {DictOf(<<>>), List(<<>>)}

SomePeers == {[ip |-> <<10, 0, 0, 1>>, port |-> 6881], [ip |-> <<1, 2, 3, 255>>, port |-> 80]}
SomePeerLists == UNION {[1 .. n -> SomePeers] : n \in 0 .. 2}

FieldBytes == UNION {[1 .. n -> 0 .. 2 ^ Width - 1] : n \in 0 .. 2}

\* The characters of the syntax.  A digit 0 would make a piece length zero.
Syntax == {Minus, Zero, Zero + 1, Zero + 9, Colon, ChD, ChE, ChI, ChL}
SomeDamages ==
    [message |-> {0, 1, 4, 5, 7, 9, Base - 1}, value |-> Syntax,
     torrent |-> {Minus, Zero + 1, ChE}, response |-> {Zero + 1, ChE},
     datagram |-> {0, 255}, bits |-> {}]
=============================================================================
