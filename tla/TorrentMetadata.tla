-------------------------- MODULE TorrentMetadata ---------------------------
(***************************************************************************)
(* What main makes of the torrent file: TorrentMetadata::from_bencode in   *)
(* code/src/torrent.cpp.  The dictionary keys are abbreviated to one       *)
(* character each that keeps their order, and the digests to HashSize      *)
(* characters.                                                             *)
(*                                                                         *)
(* The code divides by the piece length without a look at it; a piece      *)
(* length of zero is not modelled.                                         *)
(***************************************************************************)
EXTENDS Bencode

CONSTANT HashSize    \* 20: the bytes of a SHA-1 digest

ASSUME HashAssumption == HashSize \in Nat \ {0}

\* The root's keys, those of the info dictionary, and those of a file.
KAnnounce == <<97>>
KAnnounceList == <<98>>
KInfo == <<105>>
KFiles == <<102>>
KLength == <<108>>
KName == <<110>>
KPieceLength == <<112>>
KPieces == <<113>>
KPath == <<112>>
Slash == 47

\* Is there a value of the right type under the key?
HasInt(dict, key) == HasKey(dict, key) /\ is_int(ValueAt(dict, key))
HasString(dict, key) == HasKey(dict, key) /\ is_string(ValueAt(dict, key))
HasList(dict, key) == HasKey(dict, key) /\ is_list(ValueAt(dict, key))

\* The strings of a list of lists that are not empty; what is of another
\* type is passed over.
Trackers(tiers) ==
    LET OfTier(tier) ==
            IF ~is_list(tier) THEN <<>>
            ELSE LET strings == SelectSeq(tier.list, is_string)
                 IN SelectSeq([k \in DOMAIN strings |-> strings[k].str],
                              LAMBDA s : s # <<>>)
    IN FlattenSeq([k \in DOMAIN tiers |-> OfTier(tiers[k])])

\* announce_list: the trackers of the announce-list, or the announce URL.
AnnounceList(root) ==
    LET listed == IF HasList(root, KAnnounceList)
                  THEN Trackers(ValueAt(root, KAnnounceList).list) ELSE <<>>
    IN IF listed = <<>> THEN <<ValueAt(root, KAnnounce).str>> ELSE listed

\* The hashes the pieces string is cut into.
PieceHashes(pieces) ==
    [k \in 1 .. Len(pieces) \div HashSize |->
        SubSeq(pieces, (k - 1) * HashSize + 1, k * HashSize)]

ValidFile(v) ==
    /\ is_dict(v) /\ HasInt(v.dict, KLength) /\ HasList(v.dict, KPath)
    /\ \A k \in DOMAIN ValueAt(v.dict, KPath).list : is_string(ValueAt(v.dict, KPath).list[k])

\* The segments of a path, joined by slashes.
Joined(segments) ==
    FlattenSeq([k \in DOMAIN segments |->
                   IF k = 1 THEN segments[k].str ELSE <<Slash>> \o segments[k].str])

\* int64_t arithmetic.  A sum that overflows is undefined in C++; the build
\* sets no option about it, and the processor wraps.
Wrap(n) == ((n + MaxInt + 1) % (2 * (MaxInt + 1))) - MaxInt - 1

\* A file of the list goes behind the ones before it.
NextFile(files, v) ==
    LET end == IF files = <<>> THEN 0
               ELSE Wrap(files[Len(files)].offset + files[Len(files)].length)
    IN Append(files, [path |-> Joined(ValueAt(v.dict, KPath).list),
                      length |-> ValueAt(v.dict, KLength).int,
                      offset |-> end])

\* The files of an info dictionary: those of its list, or the only one.
Files(info) ==
    IF HasKey(info, KFiles)
    THEN FoldLeft(NextFile, <<>>, ValueAt(info, KFiles).list)
    ELSE <<[path |-> ValueAt(info, KName).str, length |-> ValueAt(info, KLength).int,
            offset |-> 0]>>

ValidFiles(info) ==
    IF HasKey(info, KFiles)
    THEN /\ HasList(info, KFiles)
         /\ \A k \in DOMAIN ValueAt(info, KFiles).list :
                ValidFile(ValueAt(info, KFiles).list[k])
    ELSE HasInt(info, KLength)

TotalOf(files) == FoldLeft(LAMBDA n, f : Wrap(n + f.length), 0, files)

\* Division as C++ does it: towards zero.
Quotient(a, b) ==
    IF (a < 0) = (b < 0) THEN (IF a < 0 THEN -a ELSE a) \div (IF b < 0 THEN -b ELSE b)
    ELSE -((IF a < 0 THEN -a ELSE a) \div (IF b < 0 THEN -b ELSE b))

\* Mutant: the last piece must be a full one.
RightCount_Floor(total, piece_length, n) == Quotient(total, piece_length) = n

\* Do n pieces make up the total length?
RightCount(total, piece_length, n) ==
    Quotient(Wrap(total + piece_length - 1), piece_length) = n

ValidInfo(info) ==
    /\ HasInt(info, KPieceLength) /\ HasString(info, KName) /\ HasString(info, KPieces)
    /\ Len(ValueAt(info, KPieces).str) % HashSize = 0
    /\ ValidFiles(info)
    /\ RightCount(TotalOf(Files(info)), ValueAt(info, KPieceLength).int,
                  Len(ValueAt(info, KPieces).str) \div HashSize)

\* The checks of the root dictionary.
ValidRoot(root) ==
    /\ HasString(root, KAnnounce) /\ ValueAt(root, KAnnounce).str # <<>>
    /\ HasKey(root, KInfo) /\ is_dict(ValueAt(root, KInfo))
    /\ ValidInfo(ValueAt(root, KInfo).dict)

\* The fields of the metadata.  info_hash is the digest of the bytes the info
\* dictionary was parsed from; here, these bytes.
Metadata(root, info, info_bytes) ==
    [name |-> ValueAt(info, KName).str,
     announce_list |-> AnnounceList(root),
     piece_length |-> ValueAt(info, KPieceLength).int,
     total_length |-> TotalOf(Files(info)),
     piece_hashes |-> PieceHashes(ValueAt(info, KPieces).str),
     files |-> Files(info),
     info_hash |-> info_bytes]

\* From the entries of the root and the bytes of their values.
FromEntries(entries, root) ==
    IF ~ValidRoot(root) THEN Fail
    ELSE Metadata(root, ValueAt(root, KInfo).dict,
                  entries[CHOOSE k \in DOMAIN root : root[k][1] = KInfo].span)

FromRoot(r) ==
    IF Failed(r) \/ r.rest # <<>> THEN Fail
    ELSE FromEntries(r.val, [k \in DOMAIN r.val |-> r.val[k].entry])

\* from_bencode: the metadata, or Fail.
from_bencode(data) ==
    IF At(data, ChD) THEN FromRoot(parse_entries(Drop(data, 1), <<>>)) ELSE Fail
=============================================================================
