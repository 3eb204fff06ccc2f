---------------------------- MODULE PieceManager ----------------------------
(***************************************************************************)
(* The piece assembler: code/src/piece_manager.cpp.  A piece is cut into   *)
(* blocks; each block is Pending, Requested or Received, and the bytes of  *)
(* the received blocks are gathered in a buffer until the piece can be     *)
(* hashed.  The class is passive: DownloadCoordinator calls it, and its    *)
(* operations are given here as operators on the two maps it owns.         *)
(*                                                                         *)
(* Byte contents are abstracted to whether a byte is the one the torrent's *)
(* SHA-1 digest was computed from: "data" is the set of the offsets of the *)
(* buffer that hold the right byte.  A fresh buffer is zero-filled, and a  *)
(* zero is taken to be wrong.                                              *)
(***************************************************************************)
EXTENDS Integers, FiniteSets

CONSTANTS
    PieceLength,   \* metadata_.piece_length, in bytes
    TotalLength,   \* metadata_.total_length, in bytes
    BlockSize      \* 16384 in the code

ASSUME SizeAssumption ==
    /\ PieceLength \in Nat \ {0}
    /\ TotalLength \in Nat \ {0}
    /\ BlockSize \in Nat \ {0}

VARIABLES
    bitfield,      \* bitfield_: the pieces completed and verified
    in_progress    \* in_progress_: piece index -> PieceState, a partial map

\* The ceiling division that torrent parsing requires num_pieces to equal.
NumPieces == (TotalLength + PieceLength - 1) \div PieceLength

Piece == 0 .. NumPieces - 1

get_piece_length(i) ==
    IF i >= NumPieces THEN 0
    ELSE IF i < NumPieces - 1 THEN PieceLength
    ELSE TotalLength - (NumPieces - 1) * PieceLength

Offsets(i) == 0 .. get_piece_length(i) - 1

\* The "begin" offsets of the blocks that piece i is cut into.
Begins(i) == {b \in Offsets(i) : b % BlockSize = 0}

\* A block is named by its piece and its offset, as in the wire messages.
BlockId == {r \in Piece \X (0 .. PieceLength - 1) : r[2] \in Begins(r[1])}

BlockState == {"Pending", "Requested", "Received"}

PieceState(i) ==
    [blocks : [Begins(i) -> BlockState],
     data : SUBSET Offsets(i),
     blocks_received : Nat]

\* A message payload: its length, and whether its bytes are the right ones.
PayloadOf(maxlen) == [len : 0 .. maxlen, good : BOOLEAN]

----------------------------------------------------------------------------
(* Maps as functions with a variable domain.                               *)

Insert(f, k, v) == [j \in DOMAIN f \cup {k} |-> IF j = k THEN v ELSE f[j]]
Erase(f, k) == [j \in DOMAIN f \ {k} |-> f[j]]

----------------------------------------------------------------------------
(* The operations.  "ip" is a value of in_progress.                        *)

FreshPiece(i) ==
    [blocks |-> [b \in Begins(i) |-> "Pending"],
     data |-> {},
     blocks_received |-> 0]

init_piece_state(ip, i) ==
    IF i \in DOMAIN ip THEN ip ELSE Insert(ip, i, FreshPiece(i))

PendingOf(st) == {b \in DOMAIN st.blocks : st.blocks[b] = "Pending"}

\* get_next_block returns nothing.
NoNextBlock(bf, ip, i) ==
    \/ i \in bf
    \/ PendingOf(init_piece_state(ip, i)[i]) = {}

\* get_next_block returns the block at b: the first Pending one.
IsNextBlock(bf, ip, i, b) ==
    /\ i \notin bf
    /\ b \in PendingOf(init_piece_state(ip, i)[i])
    /\ \A c \in PendingOf(init_piece_state(ip, i)[i]) : b <= c

\* Mutant: the block is handed out and stays Pending.
RequestBlock_StaysPending(ip, i, b) == init_piece_state(ip, i)

\* ... and marks it Requested.
RequestBlock(ip, i, b) ==
    LET st == init_piece_state(ip, i)[i]
    IN  Insert(ip, i, [st EXCEPT !.blocks = [st.blocks EXCEPT ![b] = "Requested"]])

\* Mutant: the last byte is not copied.
CopyBytes_OffByOne(data, b, payload) ==
    LET range == b .. b + payload.len - 2
    IN  IF payload.good THEN data \cup range ELSE data \ range

\* std::copy of the payload into the buffer.
CopyBytes(data, b, payload) ==
    LET range == b .. b + payload.len - 1
    IN  IF payload.good THEN data \cup range ELSE data \ range

\* Mutant: a payload that ends exactly at the end of the piece is refused.
StoreBlock_StrictEnd(st, i, b, payload) ==
    LET fits == b + payload.len < get_piece_length(i)
    IN  [blocks |-> [st.blocks EXCEPT ![b] = "Received"],
         data |-> IF fits THEN CopyBytes(st.data, b, payload) ELSE st.data,
         blocks_received |-> st.blocks_received + IF fits THEN 1 ELSE 0]

\* block_received for a piece we do not have yet.  A payload that runs past
\* the buffer marks its block Received, and neither copies nor counts it.
StoreBlock(st, i, b, payload) ==
    LET fits == b + payload.len <= get_piece_length(i)
    IN  [blocks |-> [st.blocks EXCEPT ![b] = "Received"],
         data |-> IF fits THEN CopyBytes(st.data, b, payload) ELSE st.data,
         blocks_received |-> IF fits THEN st.blocks_received + 1
                                     ELSE st.blocks_received]

block_received(ip, i, b, payload) ==
    LET st == init_piece_state(ip, i)[i]
    IN  IF b \in DOMAIN st.blocks /\ st.blocks[b] # "Received"
        THEN Insert(ip, i, StoreBlock(st, i, b, payload))
        ELSE init_piece_state(ip, i)

\* The value block_received returns: has every block been counted?
IsAssembled(st) == st.blocks_received = Cardinality(DOMAIN st.blocks)

\* The SHA-1 comparison, taken to be exact.  An index past the last piece
\* is hashed as an empty piece and matches no digest.
validate_piece(ip, i) == i \in Piece /\ ip[i].data = Offsets(i)

has_pending_blocks(bf, ip, i) ==
    /\ i \notin bf
    /\ i \in DOMAIN ip => PendingOf(ip[i]) # {}

\* Mutant: a block that another peer has delivered meanwhile is asked again.
RequestsFailed_Unchecked(ip, out) ==
    [i \in DOMAIN ip |->
        [ip[i] EXCEPT !.blocks =
            [b \in DOMAIN ip[i].blocks |->
                IF out[<<i, b>>] > 0 THEN "Pending" ELSE ip[i].blocks[b]]]]

\* Mutant: failed requests are not returned to Pending.
RequestsFailed_Dropped(ip, out) == ip

\* block_request_failed for every block that "out", a bag of requests, holds.
RequestsFailed(ip, out) ==
    [i \in DOMAIN ip |->
        [ip[i] EXCEPT !.blocks =
            [b \in DOMAIN ip[i].blocks |->
                IF out[<<i, b>>] > 0 /\ ip[i].blocks[b] = "Requested"
                THEN "Pending" ELSE ip[i].blocks[b]]]]

----------------------------------------------------------------------------
IsPieceMap(ip) ==
    /\ DOMAIN ip \subseteq Piece
    /\ \A i \in DOMAIN ip : ip[i] \in PieceState(i)

PieceManagerTypeOK == bitfield \subseteq Piece /\ IsPieceMap(in_progress)

PieceManagerInit ==
    /\ bitfield = {}
    /\ in_progress = [i \in {} |-> FreshPiece(i)]
=============================================================================
