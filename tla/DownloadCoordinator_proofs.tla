---------------------- MODULE DownloadCoordinator_proofs --------------------
(***************************************************************************)
(* Proofs about DownloadCoordinator, for every torrent, swarm and pipeline *)
(* depth, whatever the dishonest peers send and whichever connections      *)
(* break.  Facts about the operators first, then one theorem per property: *)
(* types, the blacklist, requests in flight, what peers are asked for, and *)
(* how pieces are picked.                                                  *)
(***************************************************************************)
EXTENDS DownloadCoordinator, InductionLemmas

----------------------------------------------------------------------------
(* Pieces, offsets and blocks.                                             *)

\* The ceiling division yields at least one piece, and the last piece is
\* not empty.
LEMMA NumPiecesPos ==
    NumPieces \in Nat \ {0} /\ (NumPieces - 1) * PieceLength < TotalLength
  BY SizeAssumption DEF NumPieces

\* Lengths are integers, for any index a PIECE message may carry.
LEMMA LengthType == \A i \in Int : get_piece_length(i) \in Int
  BY NumPiecesPos, SizeAssumption DEF get_piece_length

\* Every piece has a block at offset 0.
LEMMA ZeroBegin == \A i \in Piece : 0 \in Begins(i)
  BY NumPiecesPos, SizeAssumption DEF Begins, Offsets, Piece, get_piece_length

\* An index past the last piece has no blocks.
LEMMA NoBlocksPastEnd == Begins(NumPieces) = {}
  BY NumPiecesPos DEF Begins, Offsets, get_piece_length

\* There are finitely many blocks in a piece.
LEMMA BeginsFinite ==
    \A i \in Int : IsFiniteSet(Begins(i)) /\ Cardinality(Begins(i)) \in Nat
<1> TAKE i \in Int
<1>1. IsFiniteSet(Offsets(i))
  BY LengthType, FS_Interval DEF Offsets
<1>2. Begins(i) \subseteq Offsets(i)
  BY DEF Begins
<1> QED  BY <1>1, <1>2, FS_Subset, FS_CardinalityType

\* The indices a PIECE message may carry are integers.
LEMMA PieceInt == Piece \cup {NumPieces} \subseteq Int
  BY NumPiecesPos DEF Piece

\* A piece and one of its offsets name a block.
LEMMA BlockIdIntro == \A i \in Piece : \A b \in Begins(i) : <<i, b>> \in BlockId
<1> SUFFICES ASSUME NEW i \in Piece, NEW b \in Begins(i) PROVE <<i, b>> \in BlockId
  OBVIOUS
<1>1. TotalLength <= NumPieces * PieceLength
  BY SizeAssumption DEF NumPieces
<1>2. get_piece_length(i) <= PieceLength
  BY <1>1, NumPiecesPos, SizeAssumption DEF get_piece_length, Piece
<1>3. b \in 0 .. PieceLength - 1
  BY <1>2, LengthType, PieceInt, SizeAssumption DEF Begins, Offsets
<1> QED  BY <1>3 DEF BlockId

----------------------------------------------------------------------------
(* The assembler's operations keep in_progress a map of piece states.      *)

\* init_piece_state yields a piece state for the piece it is asked for.
LEMMA InitPieceType ==
    ASSUME NEW ip, IsPieceMap(ip), NEW i \in Piece
    PROVE  /\ IsPieceMap(init_piece_state(ip, i))
           /\ i \in DOMAIN init_piece_state(ip, i)
           /\ init_piece_state(ip, i)[i] \in PieceState(i)
<1>1. FreshPiece(i) \in PieceState(i)
  BY DEF FreshPiece, PieceState, BlockState
<1> QED  BY <1>1 DEF init_piece_state, Insert, IsPieceMap

\* Marking a block Requested.
LEMMA RequestBlockType ==
    ASSUME NEW ip, IsPieceMap(ip), NEW i \in Piece, NEW b
    PROVE  IsPieceMap(RequestBlock(ip, i, b))
<1> DEFINE st == init_piece_state(ip, i)[i]
           new == [st EXCEPT !.blocks = [st.blocks EXCEPT ![b] = "Requested"]]
<1>1. new \in PieceState(i)
  BY InitPieceType DEF PieceState, BlockState
<1>2. RequestBlock(ip, i, b) = Insert(ip, i, new)
  BY DEF RequestBlock
<1> QED  BY <1>1, <1>2 DEF Insert, IsPieceMap

\* A payload that fits is copied inside the buffer.
LEMMA StoreBlockType ==
    ASSUME NEW i \in Piece, NEW st \in PieceState(i), NEW b \in Begins(i),
           NEW payload \in PayloadOf(MaxPayload)
    PROVE  StoreBlock(st, i, b, payload) \in PieceState(i)
<1>1. b \in Int /\ 0 <= b /\ payload.len \in Int /\ get_piece_length(i) \in Int
  BY LengthType, PieceInt, SwarmAssumption DEF Begins, Offsets, PayloadOf
<1>2. ASSUME b + payload.len <= get_piece_length(i)
      PROVE  CopyBytes(st.data, b, payload) \subseteq Offsets(i)
  BY <1>1, <1>2 DEF CopyBytes, Offsets, PieceState
<1> QED  BY <1>2 DEF StoreBlock, PieceState, BlockState

\* block_received, for a piece of the torrent.
LEMMA BlockReceivedType ==
    ASSUME NEW ip, IsPieceMap(ip), NEW i \in Piece, NEW b,
           NEW payload \in PayloadOf(MaxPayload)
    PROVE  IsPieceMap(block_received(ip, i, b, payload))
<1> DEFINE st == init_piece_state(ip, i)[i]
<1>1. st \in PieceState(i) /\ DOMAIN st.blocks = Begins(i)
  BY InitPieceType DEF PieceState
<1>2. CASE b \in DOMAIN st.blocks /\ st.blocks[b] # "Received"
  <2>1. StoreBlock(st, i, b, payload) \in PieceState(i)
    BY <1>1, <1>2, StoreBlockType
  <2>2. block_received(ip, i, b, payload)
          = Insert(ip, i, StoreBlock(st, i, b, payload))
    BY <1>2 DEF block_received
  <2> QED  BY <2>1, <2>2 DEF Insert, IsPieceMap
<1>3. CASE ~(b \in DOMAIN st.blocks /\ st.blocks[b] # "Received")
  BY <1>3, InitPieceType DEF block_received
<1> QED  BY <1>2, <1>3

\* Dropping a piece, after block_received has been called for it.
LEMMA DropPieceType ==
    ASSUME NEW ip, IsPieceMap(ip), NEW i, NEW b, NEW payload
    PROVE  IsPieceMap(Erase(block_received(ip, i, b, payload), i))
<1>1. PICK new : new = Erase(block_received(ip, i, b, payload), i)
  OBVIOUS
<1>2. DOMAIN new = DOMAIN ip \ {i} /\ \A j \in DOMAIN new : new[j] = ip[j]
  BY <1>1 DEF block_received, init_piece_state, Insert, Erase
<1> QED  BY <1>1, <1>2 DEF IsPieceMap

\* Returning requests to Pending.
LEMMA RequestsFailedType ==
    ASSUME NEW ip, IsPieceMap(ip), NEW out
    PROVE  IsPieceMap(RequestsFailed(ip, out))
<1> SUFFICES ASSUME NEW i \in DOMAIN ip
             PROVE  RequestsFailed(ip, out)[i] \in PieceState(i)
  BY DEF RequestsFailed, IsPieceMap
<1>1. ip[i] \in PieceState(i)
  BY DEF IsPieceMap
<1> DEFINE nb == [b \in DOMAIN ip[i].blocks |->
                    IF out[<<i, b>>] > 0 /\ ip[i].blocks[b] = "Requested"
                    THEN "Pending" ELSE ip[i].blocks[b]]
<1>2. nb \in [Begins(i) -> BlockState]
  BY <1>1 DEF PieceState, BlockState
<1>3. RequestsFailed(ip, out)[i] = [ip[i] EXCEPT !.blocks = nb]
  BY DEF RequestsFailed
<1> HIDE DEF nb
<1> QED  BY <1>1, <1>2, <1>3 DEF PieceState

----------------------------------------------------------------------------
(* Type correctness.                                                       *)

PeerMap(ps) == DOMAIN ps \subseteq Peer /\ ps \in [DOMAIN ps -> PeerState]

\* The histogram's operations keep it a histogram.
LEMMA HistogramType ==
    ASSUME NEW av \in [Piece -> Nat], NEW bf
    PROVE  /\ remove_peer_bitfield(av, bf) \in [Piece -> Nat]
           /\ add_peer_bitfield(av, bf) \in [Piece -> Nat]
           /\ \A i \in Piece : add_availability(av, i) \in [Piece -> Nat]
  BY DEF remove_peer_bitfield, add_peer_bitfield, add_availability

\* Losing a peer leaves well-formed maps behind.
LEMMA UnregisterType ==
    ASSUME NEW p \in Peer, NEW av \in [Piece -> Nat], NEW ip, IsPieceMap(ip),
           NEW ps, PeerMap(ps), unregister_peer(p, av, ip, ps)
    PROVE  /\ PiecePickerTypeOK'
           /\ IsPieceMap(in_progress')
           /\ PeerMap(peers')
<1>1. CASE p \in DOMAIN ps
  <2>1. /\ availability' = remove_peer_bitfield(av, ps[p].bitfield)
        /\ in_progress' = RequestsFailed(ip, ps[p].outstanding)
        /\ peers' = Erase(ps, p)
    BY <1>1 DEF unregister_peer
  <2>2. PeerMap(peers')
    BY <2>1 DEF PeerMap, Erase
  <2> QED  BY <2>1, <2>2, HistogramType, RequestsFailedType DEF PiecePickerTypeOK
<1>2. CASE p \notin DOMAIN ps
  BY <1>2 DEF unregister_peer, PiecePickerTypeOK
<1> QED  BY <1>1, <1>2

\* The same, for a message that is queued or fails.
LEMMA SendType ==
    ASSUME NEW p \in Peer, NEW av \in [Piece -> Nat], NEW ip, IsPieceMap(ip),
           NEW ps, PeerMap(ps), NEW ok \in BOOLEAN,
           conn \in [Peer -> {"New", "Active", "Disconnected"}],
           send_message(p, ok, av, ip, ps)
    PROVE  /\ PiecePickerTypeOK'
           /\ IsPieceMap(in_progress')
           /\ PeerMap(peers')
           /\ conn' \in [Peer -> {"New", "Active", "Disconnected"}]
<1>1. CASE ok
  BY <1>1 DEF send_message, PiecePickerTypeOK
<1>2. CASE ~ok
  <2>1. unregister_peer(p, av, ip, ps) /\ conn' = [conn EXCEPT ![p] = "Disconnected"]
    BY <1>2 DEF send_message, disconnect
  <2> QED  BY <2>1, UnregisterType
<1> QED  BY <1>1, <1>2

\* Init establishes the types.
LEMMA InitType == Init => TypeOK
<1> SUFFICES ASSUME Init PROVE TypeOK
  OBVIOUS
<1>1. PieceManagerTypeOK
  BY DEF Init, PieceManagerInit, PieceManagerTypeOK, IsPieceMap
<1>2. PiecePickerTypeOK
  BY DEF Init, PiecePickerInit, PiecePickerTypeOK
<1>3. DOMAIN peers \subseteq Peer /\ peers \in [DOMAIN peers -> PeerState]
  BY DEF Init
<1>4. thread \in Thread /\ disk \in [Piece -> DiskState]
  BY DEF Init, Thread, DiskState
<1> QED  BY <1>1, <1>2, <1>3, <1>4 DEF Init, TypeOK

\* What TypeOK says, in the form the step lemmas below use.
LEMMA TypeFacts ==
    ASSUME TypeOK
    PROVE  /\ IsPieceMap(in_progress) /\ PeerMap(peers)
           /\ availability \in [Piece -> Nat]
           /\ conn \in [Peer -> {"New", "Active", "Disconnected"}]
           /\ Idle \in Thread /\ Aborted \in Thread
           /\ \A p \in Peer : Filling(p) \in Thread
  BY DEF TypeOK, PieceManagerTypeOK, PiecePickerTypeOK, PeerMap, Thread, Filling

\* A fresh entry of peers_.
LEMMA FreshPeerType == FreshPeer \in PeerState
  BY DEF FreshPeer, Entry, NoRequests, PeerState, Outstanding

\* Replacing the entry of a registered peer.
LEMMA WithEntryType ==
    ASSUME TypeOK, NEW p, NEW bf \in SUBSET Piece, NEW out \in Outstanding,
           NEW active \in Piece \cup {NoPiece}
    PROVE  PeerMap(WithEntry(p, bf, out, active))
<1>1. Entry(bf, out, active) \in PeerState
  BY DEF Entry, PeerState
<1> QED  BY <1>1, TypeFacts DEF PeerMap, WithEntry

\* The fields of a registered peer's entry.
LEMMA EntryType ==
    ASSUME TypeOK, NEW p \in DOMAIN peers
    PROVE  /\ p \in Peer
           /\ peers[p].bitfield \in SUBSET Piece
           /\ peers[p].outstanding \in Outstanding
           /\ peers[p].active_piece \in Piece \cup {NoPiece}
  BY DEF TypeOK, PeerState

\* Events keep the types.
LEMMA HandshakeType ==
    ASSUME TypeOK, NEW p \in Peer, Handshake(p)
    PROVE  TypeOK'
<1> DEFINE ps == Insert(peers, p, FreshPeer)
<1>1. PICK ok \in BOOLEAN : send_message(p, ok, availability, in_progress, ps)
  BY DEF Handshake, SendOutcome
<1>2. PeerMap(ps)
  BY TypeFacts, FreshPeerType DEF Insert, PeerMap
<1>3. /\ PiecePickerTypeOK' /\ IsPieceMap(in_progress') /\ PeerMap(peers')
      /\ conn' \in [Peer -> {"New", "Active", "Disconnected"}]
  BY <1>1, <1>2, TypeFacts, SendType
<1>4. am_interested' \in [Peer -> BOOLEAN]
  BY DEF Handshake, TypeOK
<1> QED
  BY <1>3, <1>4 DEF Handshake, TypeOK, PieceManagerTypeOK, PeerMap, stores

LEMMA PeerGoneType ==
    ASSUME TypeOK, NEW p \in Peer, PeerGone(p)
    PROVE  TypeOK'
<1>1. /\ unregister_peer(p, availability, in_progress, peers)
      /\ conn' = [conn EXCEPT ![p] = "Disconnected"]
  BY DEF PeerGone, disconnect
<1>2. PiecePickerTypeOK' /\ IsPieceMap(in_progress') /\ PeerMap(peers')
  BY <1>1, TypeFacts, UnregisterType
<1> QED
  BY <1>1, <1>2 DEF PeerGone, TypeOK, PieceManagerTypeOK, PeerMap, perPeer, stores

LEMMA RecvChokeType ==
    ASSUME TypeOK, NEW p \in Peer, RecvChoke(p)
    PROVE  TypeOK'
<1>1. PeerMap(peers')
  BY EntryType, WithEntryType DEF RecvChoke, Receiving, NoRequests, Outstanding
<1>2. IsPieceMap(in_progress')
  BY TypeFacts, RequestsFailedType DEF RecvChoke
<1>3. peer_choking' \in [Peer -> BOOLEAN]
  BY DEF RecvChoke, TypeOK
<1>4. withdrawn' \in [Honest -> SUBSET BlockId]
  BY DEF RecvChoke, Withdraw, TypeOK
<1> QED
  BY <1>1, <1>2, <1>3, <1>4
     DEF RecvChoke, TypeOK, PieceManagerTypeOK, PiecePickerTypeOK, PeerMap, stores

LEMMA RecvUnchokeType ==
    ASSUME TypeOK, NEW p \in Peer, RecvUnchoke(p)
    PROVE  TypeOK'
<1>1. peer_choking' \in [Peer -> BOOLEAN] /\ thread' \in Thread
  BY TypeFacts DEF RecvUnchoke, TypeOK
<1> QED
  BY <1>1
     DEF RecvUnchoke, TypeOK, PieceManagerTypeOK, PiecePickerTypeOK, IsPieceMap,
         stores

\* The common tail of RecvBitfield and RecvHave.
LEMMA ExpressInterestType ==
    ASSUME TypeOK, NEW p \in Peer, NEW wanted \in BOOLEAN,
           NEW av \in [Piece -> Nat], NEW ps, PeerMap(ps),
           ExpressInterest(p, wanted, av, ps)
    PROVE  /\ PiecePickerTypeOK' /\ IsPieceMap(in_progress') /\ PeerMap(peers')
           /\ conn' \in [Peer -> {"New", "Active", "Disconnected"}]
           /\ am_interested' \in [Peer -> BOOLEAN]
<1>1. PICK ok \in BOOLEAN : send_message(p, ok, av, in_progress, ps)
  BY DEF ExpressInterest, SendOutcome
<1>2. am_interested' \in [Peer -> BOOLEAN]
  BY DEF ExpressInterest, TypeOK
<1> QED  BY <1>1, <1>2, TypeFacts, SendType

LEMMA RecvBitfieldType ==
    ASSUME TypeOK, NEW p \in Peer, NEW bf \in Bitfields, RecvBitfield(p, bf)
    PROVE  TypeOK'
<1> DEFINE ps == WithEntry(p, bf, peers[p].outstanding, peers[p].active_piece)
           av == add_peer_bitfield(
                     remove_peer_bitfield(availability, peers[p].bitfield), bf)
           wanted == ~(bf \subseteq bitfield)
<1>2. PeerMap(ps)
  BY SwarmAssumption, EntryType, WithEntryType DEF RecvBitfield, Receiving
<1>3. av \in [Piece -> Nat]
  BY TypeFacts, HistogramType
<1>4. ExpressInterest(p, wanted, av, ps)
  BY DEF RecvBitfield
<1> HIDE DEF ps, av
<1>5. /\ PiecePickerTypeOK' /\ IsPieceMap(in_progress') /\ PeerMap(peers')
      /\ conn' \in [Peer -> {"New", "Active", "Disconnected"}]
      /\ am_interested' \in [Peer -> BOOLEAN]
  BY <1>2, <1>3, <1>4, ExpressInterestType
<1> QED
  BY <1>5, TypeFacts
     DEF RecvBitfield, TypeOK, PieceManagerTypeOK, PeerMap, stores

LEMMA RecvHaveType ==
    ASSUME TypeOK, NEW p \in Peer, NEW i \in Piece, RecvHave(p, i)
    PROVE  TypeOK'
<1> DEFINE ps == WithEntry(p, peers[p].bitfield \cup {i}, peers[p].outstanding,
                           peers[p].active_piece)
           av == IF i \in peers[p].bitfield THEN availability
                 ELSE add_availability(availability, i)
<1>2. PeerMap(ps)
  BY EntryType, WithEntryType DEF RecvHave, Receiving
<1>3. av \in [Piece -> Nat]
  BY TypeFacts, HistogramType
<1>4. ExpressInterest(p, i \notin bitfield, av, ps)
  BY DEF RecvHave
<1> HIDE DEF ps, av
<1>5. /\ PiecePickerTypeOK' /\ IsPieceMap(in_progress') /\ PeerMap(peers')
      /\ conn' \in [Peer -> {"New", "Active", "Disconnected"}]
      /\ am_interested' \in [Peer -> BOOLEAN]
  BY <1>2, <1>3, <1>4, ExpressInterestType
<1> QED
  BY <1>5 DEF RecvHave, TypeOK, PieceManagerTypeOK, PeerMap, stores

\* Taking an answered request off the list.
LEMMA AnsweredType ==
    ASSUME TypeOK, NEW p \in DOMAIN peers, NEW i, NEW b
    PROVE  PeerMap(Answered(p, i, b)) /\ DOMAIN Answered(p, i, b) = DOMAIN peers
<1> DEFINE out == [peers[p].outstanding EXCEPT ![<<i, b>>] = @ - 1]
<1>1. CASE <<i, b>> \in BlockId /\ peers[p].outstanding[<<i, b>>] > 0
  <2>1. out \in Outstanding
    BY <1>1, EntryType DEF Outstanding
  <2>2. Answered(p, i, b)
          = WithEntry(p, peers[p].bitfield, out, peers[p].active_piece)
    BY <1>1 DEF Answered
  <2>3. DOMAIN Answered(p, i, b) = DOMAIN peers
    BY <2>2 DEF WithEntry
  <2> QED  BY <2>1, <2>2, <2>3, EntryType, WithEntryType
<1>2. CASE ~(<<i, b>> \in BlockId /\ peers[p].outstanding[<<i, b>>] > 0)
  BY <1>2, TypeFacts DEF Answered
<1> QED  BY <1>1, <1>2

\* A block that does not complete its piece is for a piece of the torrent:
\* a piece past the last one has no blocks and is complete at once.
LEMMA NotAssembledInRange ==
    ASSUME TypeOK, NEW b, NEW payload,
           ~IsAssembled(block_received(in_progress, NumPieces, b, payload)[NumPieces])
    PROVE  FALSE
<1>1. NumPieces \notin DOMAIN in_progress
  BY TypeFacts, NumPiecesPos DEF IsPieceMap, Piece
<1>2. init_piece_state(in_progress, NumPieces)[NumPieces] = FreshPiece(NumPieces)
  BY <1>1 DEF init_piece_state, Insert
<1>3. DOMAIN FreshPiece(NumPieces).blocks = {} /\ FreshPiece(NumPieces).blocks_received = 0
  BY NoBlocksPastEnd DEF FreshPiece
<1>4. block_received(in_progress, NumPieces, b, payload)[NumPieces]
        = FreshPiece(NumPieces)
  BY <1>2, <1>3 DEF block_received
<1> QED  BY <1>3, <1>4, FS_EmptySet DEF IsAssembled

LEMMA RecvBlockType ==
    ASSUME TypeOK, NEW p \in Peer, NEW i \in Piece \cup {NumPieces}, NEW b,
           NEW payload \in PayloadOf(MaxPayload), RecvBlock(p, i, b, payload)
    PROVE  TypeOK'
<1>1. IsPieceMap(in_progress')
  <2>1. CASE i \in bitfield
    BY <2>1, TypeFacts DEF RecvBlock
  <2>2. CASE i \notin bitfield
    <3>1. /\ in_progress' = block_received(in_progress, i, b, payload)
          /\ ~IsAssembled(block_received(in_progress, i, b, payload)[i])
      BY <2>2 DEF RecvBlock
    <3>2. i \in Piece
      BY <3>1, NotAssembledInRange
    <3> QED  BY <3>1, <3>2, TypeFacts, BlockReceivedType
  <2> QED  BY <2>1, <2>2
<1>2. PeerMap(peers')
  BY AnsweredType DEF RecvBlock, Receiving
<1>3. thread' \in Thread
  BY TypeFacts DEF RecvBlock
<1> QED
  BY <1>1, <1>2, <1>3
     DEF RecvBlock, TypeOK, PieceManagerTypeOK, PiecePickerTypeOK, PeerMap,
         perPeer, stores

LEMMA RecvLastBlockType ==
    ASSUME TypeOK, NEW p \in Peer, NEW i \in Piece \cup {NumPieces}, NEW b,
           NEW payload \in PayloadOf(MaxPayload), RecvLastBlock(p, i, b, payload)
    PROVE  TypeOK'
<1>1. IsPieceMap(in_progress')
  BY TypeFacts, DropPieceType DEF RecvLastBlock
<1>2. PeerMap(peers')
  BY AnsweredType DEF RecvLastBlock, Receiving
<1>3. i \in Piece
  BY DEF RecvLastBlock, validate_piece
<1>4. thread' \in Thread
  BY <1>3, TypeFacts DEF RecvLastBlock, Cancelling, Thread, PeerMap
<1>5. disk' \in [Piece -> DiskState]
  BY DEF RecvLastBlock, write_piece, TypeOK, DiskState
<1>6. bitfield' \subseteq Piece
  BY <1>3 DEF RecvLastBlock, TypeOK, PieceManagerTypeOK
<1>7. withdrawn' \in [Honest -> SUBSET BlockId]
  BY DEF RecvLastBlock, TypeOK
<1> QED
  BY <1>1, <1>2, <1>4, <1>5, <1>6, <1>7
     DEF RecvLastBlock, TypeOK, PieceManagerTypeOK, PiecePickerTypeOK, PeerMap

LEMMA RecvCorruptPieceType ==
    ASSUME TypeOK, NEW p \in Peer, NEW i, NEW b, NEW payload,
           RecvCorruptPiece(p, i, b, payload)
    PROVE  TypeOK'
<1> DEFINE ip == Erase(block_received(in_progress, i, b, payload), i)
           ps == Answered(p, i, b)
<1>1. /\ unregister_peer(p, availability, ip, ps)
      /\ conn' = [conn EXCEPT ![p] = "Disconnected"]
  BY DEF RecvCorruptPiece, disconnect
<1>2. IsPieceMap(ip) /\ PeerMap(ps)
  BY TypeFacts, DropPieceType, AnsweredType DEF RecvCorruptPiece, Receiving
<1> HIDE DEF ip, ps
<1>3. PiecePickerTypeOK' /\ IsPieceMap(in_progress') /\ PeerMap(peers')
  BY <1>1, <1>2, TypeFacts, UnregisterType
<1>4. thread' \in Thread /\ dangling' \subseteq Site
  BY TypeFacts DEF RecvCorruptPiece, UseAfterFree, TypeOK, Site
<1>5. conn' \in [Peer -> {"New", "Active", "Disconnected"}] /\ blacklist' \subseteq Peer
  BY <1>1 DEF RecvCorruptPiece, TypeOK
<1> QED
  BY <1>3, <1>4, <1>5
     DEF RecvCorruptPiece, TypeOK, PieceManagerTypeOK, PeerMap, perPeer

\* The fields of the program counter in the loops over peers.
LEMMA ThreadFields ==
    ASSUME TypeOK
    PROVE  /\ thread.pc = "cancel" =>
                /\ thread = Cancelling(thread.peer, thread.piece, thread.todo)
                /\ thread.peer \in Peer /\ thread.piece \in Piece
                /\ thread.todo \in SUBSET Peer
           /\ thread.pc = "have" =>
                /\ thread = Announcing(thread.peer, thread.piece)
                /\ thread.peer \in Peer /\ thread.piece \in Piece
  BY DEF TypeOK, Thread, Idle, Aborted, Cancelling, Announcing

\* Shrinking the set of peers the cancel loop still has to visit.
LEMMA TodoType ==
    ASSUME TypeOK, thread.pc = "cancel", NEW rest \in SUBSET Peer
    PROVE  /\ [thread EXCEPT !.todo = rest] \in Thread
           /\ [thread EXCEPT !.todo = rest]
                = Cancelling(thread.peer, thread.piece, rest)
<1>1. [thread EXCEPT !.todo = rest] = Cancelling(thread.peer, thread.piece, rest)
  BY ThreadFields DEF Cancelling
<1> QED  BY <1>1, ThreadFields DEF Cancelling, Thread

LEMMA CancelPeerType ==
    ASSUME TypeOK, NEW q \in Peer, CancelPeer(q)
    PROVE  TypeOK'
<1>1. PeerMap(peers')
  <2>1. CASE q \in DOMAIN peers
    <3>1. CancelsFor(q, thread.piece) \in Outstanding
      BY <2>1, EntryType DEF CancelsFor, Outstanding
    <3>2. ResetActive(q, thread.piece) \in Piece \cup {NoPiece}
      BY <2>1, EntryType DEF ResetActive
    <3> QED  BY <2>1, <3>1, <3>2, EntryType, WithEntryType DEF CancelPeer
  <2>2. CASE q \notin DOMAIN peers
    BY <2>2, TypeFacts DEF CancelPeer, WithEntry, PeerMap
  <2> QED  BY <2>1, <2>2
<1>2. thread' \in Thread
  <2>1. thread.todo \ {q} \in SUBSET Peer
    BY ThreadFields DEF CancelPeer
  <2> QED  BY <2>1, TodoType DEF CancelPeer
<1> QED
  BY <1>1, <1>2
     DEF CancelPeer, TypeOK, PieceManagerTypeOK, PiecePickerTypeOK, IsPieceMap,
         PeerMap, perPeer, stores

LEMMA CancelPeerFailsType ==
    ASSUME TypeOK, NEW q \in Peer, CancelPeerFails(q)
    PROVE  TypeOK'
<1>1. /\ unregister_peer(q, availability, in_progress, peers)
      /\ conn' = [conn EXCEPT ![q] = "Disconnected"]
  BY DEF CancelPeerFails, disconnect
<1>2. PiecePickerTypeOK' /\ IsPieceMap(in_progress') /\ PeerMap(peers')
  BY <1>1, TypeFacts, UnregisterType
<1>3. PICK rest \in SUBSET (thread.todo \ {q}) :
        UseAfterFree("cancel", [thread EXCEPT !.todo = rest])
  BY DEF CancelPeerFails
<1>4. rest \in SUBSET Peer /\ thread.pc = "cancel"
  BY ThreadFields DEF CancelPeerFails
<1>5. thread' \in Thread /\ dangling' \subseteq Site
  BY <1>3, <1>4, TodoType, TypeFacts DEF UseAfterFree, TypeOK, Site
<1>6. conn' \in [Peer -> {"New", "Active", "Disconnected"}]
  BY <1>1 DEF TypeOK
<1> QED
  BY <1>2, <1>5, <1>6
     DEF CancelPeerFails, TypeOK, PieceManagerTypeOK, PeerMap, perPeer, stores

LEMMA CancelDoneType ==
    ASSUME TypeOK, CancelDone
    PROVE  TypeOK'
<1>1. thread' \in Thread
  BY ThreadFields DEF CancelDone, Announcing, Thread
<1> QED
  BY <1>1
     DEF CancelDone, TypeOK, PieceManagerTypeOK, PiecePickerTypeOK, IsPieceMap,
         perPeer, stores

LEMMA BroadcastHaveType ==
    ASSUME TypeOK, BroadcastHave
    PROVE  TypeOK'
<1> DEFINE p == thread.peer
<1>1. PeerMap(peers') /\ thread' \in Thread /\ dangling' \subseteq Site
  <2>1. CASE p \in DOMAIN peers
    <3>1. ResetActive(p, thread.piece) \in Piece \cup {NoPiece}
      BY <2>1, EntryType DEF ResetActive
    <3>2. peers' = WithEntry(p, peers[p].bitfield, peers[p].outstanding,
                             ResetActive(p, thread.piece))
      BY <2>1 DEF BroadcastHave
    <3>3. PeerMap(peers')
      BY <2>1, <3>1, <3>2, EntryType, WithEntryType
    <3>4. thread' \in Thread
      BY <2>1, EntryType, TypeFacts DEF BroadcastHave
    <3> QED  BY <2>1, <3>3, <3>4 DEF BroadcastHave, TypeOK
  <2>2. CASE p \notin DOMAIN peers
    BY <2>2, TypeFacts DEF BroadcastHave, UseAfterFree, TypeOK, Site
  <2> QED  BY <2>1, <2>2
<1> QED
  BY <1>1
     DEF BroadcastHave, TypeOK, PieceManagerTypeOK, PiecePickerTypeOK, IsPieceMap,
         PeerMap, perPeer, stores

LEMMA BroadcastHaveFailsType ==
    ASSUME TypeOK, NEW q \in Peer, BroadcastHaveFails(q)
    PROVE  TypeOK'
<1>1. /\ unregister_peer(q, availability, in_progress, peers)
      /\ conn' = [conn EXCEPT ![q] = "Disconnected"]
  BY DEF BroadcastHaveFails, disconnect
<1>2. PiecePickerTypeOK' /\ IsPieceMap(in_progress') /\ PeerMap(peers')
  BY <1>1, TypeFacts, UnregisterType
<1>3. thread' \in Thread /\ dangling' \subseteq Site
  BY TypeFacts DEF BroadcastHaveFails, UseAfterFree, TypeOK, Site
<1>4. conn' \in [Peer -> {"New", "Active", "Disconnected"}]
  BY <1>1 DEF TypeOK
<1> QED
  BY <1>2, <1>3, <1>4
     DEF BroadcastHaveFails, TypeOK, PieceManagerTypeOK, PeerMap, perPeer, stores

LEMMA FillDoneType ==
    ASSUME TypeOK, NEW p \in Peer, FillDone(p)
    PROVE  TypeOK'
  BY TypeFacts
     DEF FillDone, TypeOK, PieceManagerTypeOK, PiecePickerTypeOK, IsPieceMap,
         perPeer, stores

LEMMA FillNextPieceType ==
    ASSUME TypeOK, NEW p \in Peer, FillNextPiece(p)
    PROVE  TypeOK'
<1>1. PeerMap(peers')
  BY EntryType, WithEntryType DEF FillNextPiece, InLoop
<1> QED
  BY <1>1
     DEF FillNextPiece, TypeOK, PieceManagerTypeOK, PiecePickerTypeOK, IsPieceMap,
         PeerMap, perPeer, stores

\* The pieces a peer may be asked for are pieces of the torrent.
LEMMA ChoicesType ==
    ASSUME TypeOK, NEW p \in DOMAIN peers, NEW i \in PieceChoices(p)
    PROVE  i \in Piece
<1>1. CASE peers[p].active_piece # NoPiece
  BY <1>1, EntryType DEF PieceChoices
<1>2. CASE peers[p].active_piece = NoPiece
  <2>1. i \in PickSet(availability, peers[p].bitfield, CompletedOrFull)
    BY <1>2 DEF PieceChoices
  <2>2. i \in peers[p].bitfield
    BY <2>1 DEF PickSet, Candidates
  <2> QED  BY <2>2, EntryType
<1> QED  BY <1>1, <1>2

\* Adding a request to a bag of requests.
LEMMA BagAddType ==
    ASSUME NEW out \in Outstanding, NEW r
    PROVE  [out EXCEPT ![r] = @ + 1] \in Outstanding
<1>1. CASE r \in BlockId
  <2>1. out[r] + 1 \in Nat
    BY <1>1 DEF Outstanding
  <2> QED  BY <2>1 DEF Outstanding
<1>2. CASE r \notin BlockId
  BY <1>2 DEF Outstanding
<1> QED  BY <1>1, <1>2

\* Pushing a request.
LEMMA PushedType ==
    ASSUME TypeOK, NEW p \in DOMAIN peers, NEW i \in Piece, NEW b
    PROVE  PeerMap(Pushed(p, i, b)) /\ DOMAIN Pushed(p, i, b) = DOMAIN peers
<1>1. [peers[p].outstanding EXCEPT ![<<i, b>>] = @ + 1] \in Outstanding
  BY EntryType, BagAddType
<1>2. DOMAIN Pushed(p, i, b) = DOMAIN peers
  BY DEF Pushed, WithEntry
<1> QED  BY <1>1, <1>2, EntryType, WithEntryType DEF Pushed

LEMMA FillRequestType ==
    ASSUME TypeOK, NEW p \in Peer, FillRequest(p)
    PROVE  TypeOK'
<1>1. p \in DOMAIN peers
  BY DEF FillRequest, InLoop
<1>2. PICK i \in PieceChoices(p) : \E b \in Begins(i) :
        /\ in_progress' = RequestBlock(in_progress, i, b)
        /\ peers' = Pushed(p, i, b)
  BY DEF FillRequest
<1>3. i \in Piece
  BY <1>1, ChoicesType
<1>4. IsPieceMap(in_progress') /\ PeerMap(peers')
  BY <1>1, <1>2, <1>3, TypeFacts, RequestBlockType, PushedType
<1> QED
  BY <1>4
     DEF FillRequest, TypeOK, PieceManagerTypeOK, PiecePickerTypeOK, PeerMap,
         perPeer, stores

\* Blocks marked Requested by the loop that runs on a freed entry.
LEMMA OrphanedType ==
    ASSUME NEW ip, IsPieceMap(ip), NEW i, NEW k
    PROVE  IsPieceMap(Orphaned(ip, i, k))
<1> DEFINE old == ip[i].blocks
           new == [c \in DOMAIN old |-> IF c < k /\ old[c] = "Pending"
                                        THEN "Requested" ELSE old[c]]
           st == [ip[i] EXCEPT !.blocks = new]
<1>1. ASSUME i \in DOMAIN ip PROVE st \in PieceState(i)
  <2>1. ip[i] \in PieceState(i)
    BY <1>1 DEF IsPieceMap
  <2>2. new \in [Begins(i) -> BlockState]
    BY <2>1 DEF PieceState, BlockState
  <2> HIDE DEF new
  <2> QED  BY <2>1, <2>2 DEF PieceState
<1>2. Orphaned(ip, i, k) = [ip EXCEPT ![i] = st]
  BY DEF Orphaned
<1> HIDE DEF st
<1> QED  BY <1>1, <1>2 DEF IsPieceMap

LEMMA FillRequestFailsType ==
    ASSUME TypeOK, NEW p \in Peer, FillRequestFails(p)
    PROVE  TypeOK'
<1>1. p \in DOMAIN peers
  BY DEF FillRequestFails, InLoop
<1>2. PICK i \in PieceChoices(p) : \E b \in Begins(i) : \E k \in 0 .. PieceLength :
        /\ availability' =
             remove_peer_bitfield(availability, Pushed(p, i, b)[p].bitfield)
        /\ peers' = Erase(Pushed(p, i, b), p)
        /\ in_progress' = Orphaned(
             RequestsFailed(RequestBlock(in_progress, i, b),
                            Pushed(p, i, b)[p].outstanding), i, k)
  BY DEF FillRequestFails
<1>3. i \in Piece
  BY <1>1, ChoicesType
<1>4. PICK b \in Begins(i), k \in 0 .. PieceLength :
        /\ availability' =
             remove_peer_bitfield(availability, Pushed(p, i, b)[p].bitfield)
        /\ peers' = Erase(Pushed(p, i, b), p)
        /\ in_progress' = Orphaned(
             RequestsFailed(RequestBlock(in_progress, i, b),
                            Pushed(p, i, b)[p].outstanding), i, k)
  BY <1>2
<1>5. IsPieceMap(in_progress')
  BY <1>3, <1>4, TypeFacts, RequestBlockType, RequestsFailedType, OrphanedType
<1>6. PeerMap(peers')
  BY <1>1, <1>3, <1>4, PushedType DEF Erase, PeerMap
<1>7. PiecePickerTypeOK'
  BY <1>4, TypeFacts, HistogramType DEF PiecePickerTypeOK
<1>8. /\ conn' \in [Peer -> {"New", "Active", "Disconnected"}]
      /\ thread' \in Thread /\ dangling' \subseteq Site
  BY TypeFacts DEF FillRequestFails, UseAfterFree, TypeOK, Site
<1> QED
  BY <1>5, <1>6, <1>7, <1>8
     DEF FillRequestFails, TypeOK, PieceManagerTypeOK, PeerMap, perPeer, stores

\* Every step keeps the types.
LEMMA NextType == TypeOK /\ [Next]_vars => TypeOK'
<1> SUFFICES ASSUME TypeOK, [Next]_vars PROVE TypeOK'
  OBVIOUS
<1>1. CASE ThreadStep
  BY <1>1, CancelPeerType, CancelPeerFailsType, CancelDoneType, BroadcastHaveType,
     BroadcastHaveFailsType, FillDoneType, FillNextPieceType, FillRequestType,
     FillRequestFailsType DEF ThreadStep
<1>2. ASSUME NEW p \in Peer, Event(p) PROVE TypeOK'
  <2>1. CASE RecvPiece(p)
    BY <2>1, RecvBlockType, RecvLastBlockType, RecvCorruptPieceType DEF RecvPiece
  <2> QED
    BY <1>2, <2>1, HandshakeType, PeerGoneType, RecvChokeType, RecvUnchokeType,
       RecvBitfieldType, RecvHaveType DEF Event
<1>3. CASE UNCHANGED vars
  BY <1>3 DEF vars, TypeOK, PieceManagerTypeOK, PiecePickerTypeOK, IsPieceMap
<1> QED  BY <1>1, <1>2, <1>3 DEF Next

\* Type correctness, for any torrent and any swarm.
THEOREM TypeCorrect == Spec => []TypeOK
  BY InitType, NextType, PTL DEF Spec

----------------------------------------------------------------------------
(* Registered peers are the connected ones.                                *)

LiveInv == TypeOK /\ BlacklistedIsGone

\* Dropping p, or sending to it, changes nobody else's registration.
LEMMA UnregisterLive ==
    ASSUME NEW p, NEW av, NEW ip, NEW ps, unregister_peer(p, av, ip, ps)
    PROVE  DOMAIN peers' = DOMAIN ps \ {p}
  BY DEF unregister_peer, Erase

LEMMA DisconnectLive ==
    ASSUME LiveInv, NEW p \in Peer, NEW av, NEW ip, NEW ps,
           disconnect(p, av, ip, ps), DOMAIN ps = DOMAIN peers,
           blacklist' \subseteq blacklist \cup {p}
    PROVE  BlacklistedIsGone'
<1>1. /\ DOMAIN peers' = DOMAIN peers \ {p}
      /\ conn' = [conn EXCEPT ![p] = "Disconnected"]
  BY UnregisterLive DEF disconnect
<1> QED  BY <1>1 DEF LiveInv, TypeOK, BlacklistedIsGone

LEMMA SendLive ==
    ASSUME LiveInv, NEW p \in Peer, NEW ok \in BOOLEAN, NEW av, NEW ip, NEW ps,
           send_message(p, ok, av, ip, ps), DOMAIN ps = DOMAIN peers \cup {p},
           conn[p] # "Disconnected", UNCHANGED blacklist
    PROVE  BlacklistedIsGone'
<1>1. CASE ok
  <2>1. peers' = ps /\ conn' = [conn EXCEPT ![p] = "Active"]
    BY <1>1 DEF send_message
  <2> QED  BY <2>1 DEF LiveInv, TypeOK, BlacklistedIsGone
<1>2. CASE ~ok
  <2>1. /\ DOMAIN peers' = DOMAIN peers \ {p}
        /\ conn' = [conn EXCEPT ![p] = "Disconnected"]
    BY <1>2, UnregisterLive DEF send_message, disconnect
  <2> QED  BY <2>1 DEF LiveInv, TypeOK, BlacklistedIsGone
<1> QED  BY <1>1, <1>2

\* Steps that keep the set of registered peers, the connections and the
\* blacklist.
LEMMA SameLive ==
    ASSUME LiveInv, DOMAIN peers' = DOMAIN peers, UNCHANGED <<conn, blacklist>>
    PROVE  BlacklistedIsGone'
  BY DEF LiveInv, BlacklistedIsGone

\* A registered peer is connected.
LEMMA RegisteredIsActive ==
    ASSUME LiveInv, NEW p \in DOMAIN peers
    PROVE  p \in Peer /\ conn[p] = "Active"
  BY DEF LiveInv, BlacklistedIsGone

LEMMA EventLive ==
    ASSUME LiveInv, NEW p \in Peer, Event(p)
    PROVE  BlacklistedIsGone'
<1> USE DEF LiveInv
<1>1. CASE Handshake(p)
  <2>1. PICK ok \in BOOLEAN : send_message(p, ok, availability, in_progress,
                                           Insert(peers, p, FreshPeer))
    BY <1>1 DEF Handshake, SendOutcome
  <2>2. DOMAIN Insert(peers, p, FreshPeer) = DOMAIN peers \cup {p}
    BY DEF Insert
  <2> QED  BY <1>1, <2>1, <2>2, SendLive DEF Handshake, stores
<1>2. CASE PeerGone(p)
  BY <1>2, DisconnectLive DEF PeerGone, stores
<1>3. CASE RecvChoke(p)
  BY <1>3, SameLive DEF RecvChoke, WithEntry, stores
<1>4. CASE RecvUnchoke(p)
  BY <1>4, SameLive DEF RecvUnchoke, stores
<1>5. ASSUME NEW bf \in Bitfields, RecvBitfield(p, bf)
      PROVE  BlacklistedIsGone'
  <2> DEFINE ps == WithEntry(p, bf, peers[p].outstanding, peers[p].active_piece)
             av == add_peer_bitfield(
                       remove_peer_bitfield(availability, peers[p].bitfield), bf)
  <2>1. PICK ok \in BOOLEAN : send_message(p, ok, av, in_progress, ps)
    BY <1>5 DEF RecvBitfield, ExpressInterest, SendOutcome
  <2>2. p \in DOMAIN peers /\ DOMAIN ps = DOMAIN peers
    BY <1>5 DEF RecvBitfield, Receiving, WithEntry
  <2> HIDE DEF ps, av
  <2> QED  BY <1>5, <2>1, <2>2, SendLive, RegisteredIsActive DEF RecvBitfield, stores
<1>6. ASSUME NEW i \in Piece, RecvHave(p, i)
      PROVE  BlacklistedIsGone'
  <2> DEFINE ps == WithEntry(p, peers[p].bitfield \cup {i}, peers[p].outstanding,
                             peers[p].active_piece)
             av == IF i \in peers[p].bitfield THEN availability
                   ELSE add_availability(availability, i)
  <2>1. PICK ok \in BOOLEAN : send_message(p, ok, av, in_progress, ps)
    BY <1>6 DEF RecvHave, ExpressInterest, SendOutcome
  <2>2. p \in DOMAIN peers /\ DOMAIN ps = DOMAIN peers
    BY <1>6 DEF RecvHave, Receiving, WithEntry
  <2> HIDE DEF ps, av
  <2> QED  BY <1>6, <2>1, <2>2, SendLive, RegisteredIsActive DEF RecvHave, stores
<1>7. ASSUME NEW i, NEW b, NEW payload,
             \/ RecvBlock(p, i, b, payload)
             \/ RecvLastBlock(p, i, b, payload)
             \/ RecvCorruptPiece(p, i, b, payload)
      PROVE  BlacklistedIsGone'
  <2>1. p \in DOMAIN peers /\ DOMAIN Answered(p, i, b) = DOMAIN peers
    BY <1>7, AnsweredType DEF RecvBlock, RecvLastBlock, RecvCorruptPiece, Receiving
  <2>2. CASE RecvBlock(p, i, b, payload)
    BY <2>1, <2>2, SameLive DEF RecvBlock, stores
  <2>3. CASE RecvLastBlock(p, i, b, payload)
    BY <2>1, <2>3, SameLive DEF RecvLastBlock
  <2>4. CASE RecvCorruptPiece(p, i, b, payload)
    BY <2>1, <2>4, DisconnectLive DEF RecvCorruptPiece
  <2> QED  BY <1>7, <2>2, <2>3, <2>4
<1> QED  BY <1>1, <1>2, <1>3, <1>4, <1>5, <1>6, <1>7 DEF Event, RecvPiece

LEMMA ThreadStepLive ==
    ASSUME LiveInv, ThreadStep
    PROVE  BlacklistedIsGone'
<1> USE DEF LiveInv
<1>1. ASSUME NEW q \in Peer, CancelPeer(q) PROVE BlacklistedIsGone'
  BY <1>1, SameLive DEF CancelPeer, WithEntry, stores
<1>2. ASSUME NEW q \in Peer, CancelPeerFails(q) PROVE BlacklistedIsGone'
  BY <1>2, DisconnectLive DEF CancelPeerFails, stores
<1>3. CASE CancelDone
  BY <1>3, SameLive DEF CancelDone, stores
<1>4. CASE BroadcastHave
  BY <1>4, SameLive DEF BroadcastHave, WithEntry, stores
<1>5. ASSUME NEW q \in Peer, BroadcastHaveFails(q) PROVE BlacklistedIsGone'
  BY <1>5, DisconnectLive DEF BroadcastHaveFails, stores
<1>6. ASSUME NEW p \in Peer, FillDone(p) \/ FillNextPiece(p) \/ FillRequest(p)
      PROVE  BlacklistedIsGone'
  BY <1>6, SameLive
     DEF FillDone, FillNextPiece, FillRequest, Pushed, WithEntry, stores
<1>7. ASSUME NEW p \in Peer, FillRequestFails(p) PROVE BlacklistedIsGone'
  <2>1. DOMAIN peers' = DOMAIN peers \ {p}
    BY <1>7 DEF FillRequestFails, Pushed, WithEntry, Erase
  <2> QED
    BY <1>7, <2>1 DEF FillRequestFails, TypeOK, BlacklistedIsGone, stores
<1> QED  BY <1>1, <1>2, <1>3, <1>4, <1>5, <1>6, <1>7 DEF ThreadStep

\* A blacklisted peer is disconnected and unregistered, for good, and peers_
\* holds exactly the connected peers.
THEOREM BlacklistCorrect == Spec => []BlacklistedIsGone
<1>1. Init => LiveInv
  BY InitType DEF LiveInv, Init, BlacklistedIsGone
<1>2. LiveInv /\ [Next]_vars => LiveInv'
  <2> SUFFICES ASSUME LiveInv, [Next]_vars PROVE LiveInv'
    OBVIOUS
  <2>1. TypeOK'
    BY NextType DEF LiveInv
  <2>2. CASE UNCHANGED vars
    BY <2>1, <2>2, SameLive DEF vars, LiveInv
  <2> QED  BY <2>1, <2>2, EventLive, ThreadStepLive DEF Next, LiveInv
<1>3. LiveInv => BlacklistedIsGone
  BY DEF LiveInv
<1> QED  BY <1>1, <1>2, <1>3, PTL DEF Spec

----------------------------------------------------------------------------
(* No request is orphaned.  NoOrphanRequest is not inductive by itself: a  *)
(* CANCEL takes requests off the lists, which is harmless only because the *)
(* cancelled piece is ours and a piece that is ours has no blocks in       *)
(* progress.                                                               *)

\* A piece in progress is not one we have.
InProgressNotOurs == \A i \in DOMAIN in_progress : i \notin bitfield

\* The piece whose requests are being cancelled is one we have.
CancelledIsOurs == thread.pc = "cancel" => thread.piece \in bitfield

OrphanInv == LiveInv /\ InProgressNotOurs /\ CancelledIsOurs /\ NoOrphanRequest

\* What becomes of a block when requests fail.
LEMMA RequestsFailedBlock ==
    ASSUME NEW ip, IsPieceMap(ip), NEW out, NEW i \in DOMAIN ip,
           NEW b \in Begins(i), RequestsFailed(ip, out)[i].blocks[b] = "Requested"
    PROVE  ip[i].blocks[b] = "Requested" /\ ~(out[<<i, b>>] > 0)
<1> DEFINE nb == [c \in DOMAIN ip[i].blocks |->
                    IF out[<<i, c>>] > 0 /\ ip[i].blocks[c] = "Requested"
                    THEN "Pending" ELSE ip[i].blocks[c]]
<1>1. ip[i] \in PieceState(i)
  BY DEF IsPieceMap
<1>2. RequestsFailed(ip, out)[i] = [ip[i] EXCEPT !.blocks = nb]
  BY DEF RequestsFailed
<1>3. RequestsFailed(ip, out)[i].blocks = nb
  BY <1>1, <1>2 DEF PieceState
<1>4. b \in DOMAIN ip[i].blocks
  BY <1>1 DEF PieceState
<1> QED  BY <1>3, <1>4

\* The requests of a peer that is dropped are returned; the others keep
\* their owners.
LEMMA ReturnedStayOwned ==
    ASSUME NEW ip, IsPieceMap(ip), NEW ps, NEW p \in DOMAIN ps,
           EveryRequestOwned(ip, ps)
    PROVE  EveryRequestOwned(RequestsFailed(ip, ps[p].outstanding), Erase(ps, p))
<1> DEFINE new == RequestsFailed(ip, ps[p].outstanding)
<1> SUFFICES ASSUME NEW i \in DOMAIN ip, NEW b \in Begins(i),
                    new[i].blocks[b] = "Requested"
             PROVE  \E q \in DOMAIN Erase(ps, p) :
                        Erase(ps, p)[q].outstanding[<<i, b>>] > 0
  BY DEF EveryRequestOwned, RequestsFailed
<1>1. ip[i].blocks[b] = "Requested" /\ ~(ps[p].outstanding[<<i, b>>] > 0)
  BY RequestsFailedBlock
<1>2. PICK q \in DOMAIN ps : ps[q].outstanding[<<i, b>>] > 0
  BY <1>1 DEF EveryRequestOwned
<1>3. q # p
  BY <1>1, <1>2
<1> QED  BY <1>2, <1>3 DEF Erase

LEMMA UnregisterOwned ==
    ASSUME NEW p, NEW av, NEW ip, IsPieceMap(ip), NEW ps,
           unregister_peer(p, av, ip, ps)
    PROVE  /\ DOMAIN in_progress' = DOMAIN ip
           /\ EveryRequestOwned(ip, ps) => EveryRequestOwned(in_progress', peers')
<1>1. CASE p \in DOMAIN ps
  <2>1. /\ in_progress' = RequestsFailed(ip, ps[p].outstanding)
        /\ peers' = Erase(ps, p)
    BY <1>1 DEF unregister_peer
  <2>2. DOMAIN in_progress' = DOMAIN ip
    BY <2>1 DEF RequestsFailed
  <2> QED  BY <1>1, <2>1, <2>2, ReturnedStayOwned
<1>2. CASE p \notin DOMAIN ps
  BY <1>2 DEF unregister_peer
<1> QED  BY <1>1, <1>2

LEMMA SendOwned ==
    ASSUME NEW p, NEW ok \in BOOLEAN, NEW av, NEW ip, IsPieceMap(ip), NEW ps,
           send_message(p, ok, av, ip, ps)
    PROVE  /\ DOMAIN in_progress' = DOMAIN ip
           /\ EveryRequestOwned(ip, ps) => EveryRequestOwned(in_progress', peers')
<1>1. CASE ok
  BY <1>1 DEF send_message
<1>2. CASE ~ok
  BY <1>2, UnregisterOwned DEF send_message, disconnect
<1> QED  BY <1>1, <1>2

\* Storing a block makes no block Requested, and its own block is Received.
LEMMA StoredNotRequested ==
    ASSUME NEW ip, IsPieceMap(ip), NEW i \in Piece, NEW b,
           NEW payload \in PayloadOf(MaxPayload), NEW new,
           new = block_received(ip, i, b, payload),
           NEW j \in DOMAIN new, NEW c \in Begins(j),
           new[j].blocks[c] = "Requested"
    PROVE  /\ j \in DOMAIN ip
           /\ ip[j].blocks[c] = "Requested"
           /\ ~(j = i /\ c = b)
<1> DEFINE st == init_piece_state(ip, i)[i]
<1>1. st \in PieceState(i) /\ DOMAIN st.blocks = Begins(i)
  BY InitPieceType DEF PieceState
<1>2. CASE j # i
  BY <1>2 DEF block_received, init_piece_state, Insert
<1>3. CASE j = i
  <2>1. CASE b \in DOMAIN st.blocks /\ st.blocks[b] # "Received"
    <3>1. new[i] = StoreBlock(st, i, b, payload)
      BY <2>1 DEF block_received, Insert
    <3>2. new[i].blocks = [st.blocks EXCEPT ![b] = "Received"]
      BY <3>1 DEF StoreBlock
    <3>3. c # b /\ st.blocks[c] = "Requested"
      BY <1>1, <1>3, <2>1, <3>2
    <3>4. i \in DOMAIN ip
      BY <1>1, <1>3, <3>3 DEF init_piece_state, Insert, FreshPiece
    <3> QED  BY <1>3, <3>3, <3>4 DEF init_piece_state
  <2>2. CASE ~(b \in DOMAIN st.blocks /\ st.blocks[b] # "Received")
    <3>1. new = init_piece_state(ip, i)
      BY <2>2 DEF block_received
    <3>2. st.blocks[c] = "Requested"
      BY <1>3, <3>1
    <3>3. i \in DOMAIN ip
      BY <1>1, <1>3, <3>2 DEF init_piece_state, Insert, FreshPiece
    <3> QED  BY <1>1, <1>3, <2>2, <3>2, <3>3 DEF init_piece_state
  <2> QED  BY <2>1, <2>2
<1> QED  BY <1>2, <1>3

\* An answer takes nothing but the answered request off the lists.
LEMMA AnsweredOthers ==
    ASSUME TypeOK, NEW p \in DOMAIN peers, NEW i, NEW b, NEW q \in DOMAIN peers,
           NEW r \in BlockId, r # <<i, b>>, peers[q].outstanding[r] > 0
    PROVE  /\ q \in DOMAIN Answered(p, i, b)
           /\ Answered(p, i, b)[q].outstanding[r] > 0
<1>1. CASE <<i, b>> \in BlockId /\ peers[p].outstanding[<<i, b>>] > 0
  <2>1. Answered(p, i, b)
          = [peers EXCEPT ![p] = Entry(peers[p].bitfield,
               [peers[p].outstanding EXCEPT ![<<i, b>>] = @ - 1],
               peers[p].active_piece)]
    BY <1>1 DEF Answered, WithEntry
  <2>2. CASE q = p
    <3>1. Answered(p, i, b)[q].outstanding
            = [peers[p].outstanding EXCEPT ![<<i, b>>] = @ - 1]
      BY <2>1, <2>2 DEF Entry
    <3>2. [peers[p].outstanding EXCEPT ![<<i, b>>] = @ - 1][r]
            = peers[p].outstanding[r]
      BY EntryType DEF Outstanding
    <3> QED  BY <2>1, <2>2, <3>1, <3>2
  <2>3. CASE q # p
    BY <2>1, <2>3
  <2> QED  BY <2>2, <2>3
<1>2. CASE ~(<<i, b>> \in BlockId /\ peers[p].outstanding[<<i, b>>] > 0)
  BY <1>2 DEF Answered
<1> QED  BY <1>1, <1>2

\* Rewriting the entry of one peer keeps the owners of all blocks, if the
\* peer's list loses no request for a piece in progress.
LEMMA WithEntryOwned ==
    ASSUME TypeOK, EveryRequestOwned(in_progress, peers), NEW p \in DOMAIN peers,
           NEW bf, NEW out, NEW active,
           \A i \in DOMAIN in_progress : \A b \in Begins(i) :
               peers[p].outstanding[<<i, b>>] > 0 => out[<<i, b>>] > 0
    PROVE  EveryRequestOwned(in_progress, WithEntry(p, bf, out, active))
<1> SUFFICES ASSUME NEW i \in DOMAIN in_progress, NEW b \in Begins(i),
                    in_progress[i].blocks[b] = "Requested"
             PROVE  \E q \in DOMAIN WithEntry(p, bf, out, active) :
                      WithEntry(p, bf, out, active)[q].outstanding[<<i, b>>] > 0
  BY DEF EveryRequestOwned
<1>1. PICK q \in DOMAIN peers : peers[q].outstanding[<<i, b>>] > 0
  BY DEF EveryRequestOwned
<1>2. q \in DOMAIN WithEntry(p, bf, out, active)
  BY DEF WithEntry
<1>3. CASE q = p
  <2>1. WithEntry(p, bf, out, active)[q].outstanding = out
    BY <1>3 DEF WithEntry, Entry
  <2> QED  BY <1>1, <1>2, <1>3, <2>1
<1>4. CASE q # p
  <2>1. WithEntry(p, bf, out, active)[q] = peers[q]
    BY <1>4 DEF WithEntry
  <2> QED  BY <1>1, <1>2, <2>1
<1> QED  BY <1>3, <1>4

\* Events keep the invariant.  The types are taken care of by NextType.
LEMMA HandshakeOwned ==
    ASSUME OrphanInv, NEW p \in Peer, Handshake(p)
    PROVE  InProgressNotOurs' /\ NoOrphanRequest'
<1> DEFINE ps == Insert(peers, p, FreshPeer)
<1>1. PICK ok \in BOOLEAN : send_message(p, ok, availability, in_progress, ps)
  BY DEF Handshake, SendOutcome
<1>2. ASSUME EveryRequestOwned(in_progress, peers)
      PROVE  EveryRequestOwned(in_progress, ps)
  <2> SUFFICES ASSUME NEW i \in DOMAIN in_progress, NEW b \in Begins(i),
                      in_progress[i].blocks[b] = "Requested"
               PROVE  \E q \in DOMAIN ps : ps[q].outstanding[<<i, b>>] > 0
    BY DEF EveryRequestOwned
  <2>1. PICK q \in DOMAIN peers : peers[q].outstanding[<<i, b>>] > 0
    BY <1>2 DEF EveryRequestOwned
  <2>2. q # p
    BY <2>1, RegisteredIsActive DEF Handshake, OrphanInv
  <2> QED  BY <2>1, <2>2 DEF Insert
<1> QED
  BY <1>1, <1>2, TypeFacts, SendOwned
     DEF Handshake, OrphanInv, LiveInv, InProgressNotOurs, NoOrphanRequest

LEMMA PeerGoneOwned ==
    ASSUME OrphanInv, NEW p \in Peer, PeerGone(p)
    PROVE  InProgressNotOurs' /\ NoOrphanRequest'
  BY TypeFacts, UnregisterOwned
     DEF PeerGone, disconnect, OrphanInv, LiveInv, InProgressNotOurs,
         NoOrphanRequest

LEMMA RecvChokeOwned ==
    ASSUME OrphanInv, NEW p \in Peer, RecvChoke(p)
    PROVE  InProgressNotOurs' /\ NoOrphanRequest'
<1>1. TypeOK /\ p \in DOMAIN peers /\ IsPieceMap(in_progress)
  BY TypeFacts DEF OrphanInv, LiveInv, RecvChoke, Receiving
<1>2. /\ in_progress' = RequestsFailed(in_progress, peers[p].outstanding)
      /\ peers' = WithEntry(p, peers[p].bitfield, NoRequests, NoPiece)
  BY DEF RecvChoke
<1>3. DOMAIN in_progress' = DOMAIN in_progress
  BY <1>2 DEF RequestsFailed
<1>4. ASSUME EveryRequestOwned(in_progress, peers)
      PROVE  EveryRequestOwned(in_progress', peers')
  <2> SUFFICES ASSUME NEW i \in DOMAIN in_progress, NEW b \in Begins(i),
                      in_progress'[i].blocks[b] = "Requested"
               PROVE  \E q \in DOMAIN peers' : peers'[q].outstanding[<<i, b>>] > 0
    BY <1>3 DEF EveryRequestOwned
  <2>1. EveryRequestOwned(in_progress', Erase(peers, p))
    BY <1>1, <1>2, <1>4, ReturnedStayOwned
  <2>2. PICK q \in DOMAIN Erase(peers, p) :
               Erase(peers, p)[q].outstanding[<<i, b>>] > 0
    BY <1>3, <2>1 DEF EveryRequestOwned
  <2> QED  BY <1>2, <2>2 DEF Erase, WithEntry
<1> QED
  BY <1>3, <1>4 DEF RecvChoke, OrphanInv, InProgressNotOurs, NoOrphanRequest

\* The common tail of RecvBitfield and RecvHave.
LEMMA InterestOwned ==
    ASSUME OrphanInv, NEW p \in DOMAIN peers, NEW wanted, NEW av, NEW bf,
           ExpressInterest(p, wanted, av, WithEntry(p, bf, peers[p].outstanding,
                                                    peers[p].active_piece)),
           UNCHANGED <<bitfield, dangling>>
    PROVE  InProgressNotOurs' /\ NoOrphanRequest'
<1> DEFINE ps == WithEntry(p, bf, peers[p].outstanding, peers[p].active_piece)
<1>1. PICK ok \in BOOLEAN : send_message(p, ok, av, in_progress, ps)
  BY DEF ExpressInterest, SendOutcome
<1>2. EveryRequestOwned(in_progress, peers) => EveryRequestOwned(in_progress, ps)
  BY WithEntryOwned DEF OrphanInv, LiveInv
<1> HIDE DEF ps
<1> QED
  BY <1>1, <1>2, TypeFacts, SendOwned
     DEF OrphanInv, LiveInv, InProgressNotOurs, NoOrphanRequest

LEMMA AnnounceOwned ==
    ASSUME OrphanInv, NEW p \in Peer,
           \/ \E bf \in Bitfields : RecvBitfield(p, bf)
           \/ \E i \in Piece : RecvHave(p, i)
    PROVE  InProgressNotOurs' /\ NoOrphanRequest'
<1>1. ASSUME NEW bf \in Bitfields, RecvBitfield(p, bf)
      PROVE  InProgressNotOurs' /\ NoOrphanRequest'
  BY <1>1, InterestOwned DEF RecvBitfield, Receiving
<1>2. ASSUME NEW i \in Piece, RecvHave(p, i)
      PROVE  InProgressNotOurs' /\ NoOrphanRequest'
  BY <1>2, InterestOwned DEF RecvHave, Receiving
<1> QED  BY <1>1, <1>2

\* A block that arrives is no longer Requested; every other Requested block
\* keeps its owner.
LEMMA StoredOwned ==
    ASSUME TypeOK, EveryRequestOwned(in_progress, peers), NEW p \in DOMAIN peers,
           NEW i \in Piece, NEW b, NEW payload \in PayloadOf(MaxPayload)
    PROVE  EveryRequestOwned(block_received(in_progress, i, b, payload),
                             Answered(p, i, b))
<1>1. PICK new : new = block_received(in_progress, i, b, payload)
  OBVIOUS
<1>2. IsPieceMap(new) /\ IsPieceMap(in_progress)
  BY <1>1, TypeFacts, BlockReceivedType
<1> SUFFICES ASSUME NEW j \in DOMAIN new, NEW c \in Begins(j),
                    new[j].blocks[c] = "Requested"
             PROVE  \E q \in DOMAIN Answered(p, i, b) :
                        Answered(p, i, b)[q].outstanding[<<j, c>>] > 0
  BY <1>1 DEF EveryRequestOwned
<1>3. /\ j \in DOMAIN in_progress
      /\ in_progress[j].blocks[c] = "Requested"
      /\ ~(j = i /\ c = b)
  BY <1>1, <1>2, StoredNotRequested
<1>4. PICK q \in DOMAIN peers : peers[q].outstanding[<<j, c>>] > 0
  BY <1>3 DEF EveryRequestOwned
<1>5. <<j, c>> \in BlockId /\ <<j, c>> # <<i, b>>
  BY <1>2, <1>3, BlockIdIntro DEF IsPieceMap
<1> QED  BY <1>4, <1>5, AnsweredOthers

\* An answer for a piece that is not in progress.
LEMMA LateAnswerOwned ==
    ASSUME TypeOK, EveryRequestOwned(in_progress, peers), NEW p \in DOMAIN peers,
           NEW i, NEW b, i \notin DOMAIN in_progress
    PROVE  EveryRequestOwned(in_progress, Answered(p, i, b))
<1> SUFFICES ASSUME NEW j \in DOMAIN in_progress, NEW c \in Begins(j),
                    in_progress[j].blocks[c] = "Requested"
             PROVE  \E q \in DOMAIN Answered(p, i, b) :
                        Answered(p, i, b)[q].outstanding[<<j, c>>] > 0
  BY DEF EveryRequestOwned
<1>1. PICK q \in DOMAIN peers : peers[q].outstanding[<<j, c>>] > 0
  BY DEF EveryRequestOwned
<1>2. <<j, c>> \in BlockId /\ <<j, c>> # <<i, b>>
  BY TypeFacts, BlockIdIntro DEF IsPieceMap
<1> QED  BY <1>1, <1>2, AnsweredOthers

\* Dropping the piece that was answered.
LEMMA DroppedOwned ==
    ASSUME TypeOK, EveryRequestOwned(in_progress, peers), NEW p \in DOMAIN peers,
           NEW i, NEW b, NEW payload
    PROVE  EveryRequestOwned(
               Erase(block_received(in_progress, i, b, payload), i),
               Answered(p, i, b))
<1>1. PICK new : new = Erase(block_received(in_progress, i, b, payload), i)
  OBVIOUS
<1>2. /\ DOMAIN new = DOMAIN in_progress \ {i}
      /\ \A j \in DOMAIN new : new[j] = in_progress[j]
  BY <1>1 DEF block_received, init_piece_state, Insert, Erase
<1> SUFFICES ASSUME NEW j \in DOMAIN new, NEW c \in Begins(j),
                    new[j].blocks[c] = "Requested"
             PROVE  \E q \in DOMAIN Answered(p, i, b) :
                        Answered(p, i, b)[q].outstanding[<<j, c>>] > 0
  BY <1>1 DEF EveryRequestOwned
<1>3. PICK q \in DOMAIN peers : peers[q].outstanding[<<j, c>>] > 0
  BY <1>2 DEF EveryRequestOwned
<1>4. <<j, c>> \in BlockId /\ <<j, c>> # <<i, b>>
  BY <1>2, TypeFacts, BlockIdIntro DEF IsPieceMap
<1> QED  BY <1>3, <1>4, AnsweredOthers

LEMMA RecvBlockOwned ==
    ASSUME OrphanInv, NEW p \in Peer, NEW i \in Piece \cup {NumPieces}, NEW b,
           NEW payload \in PayloadOf(MaxPayload), RecvBlock(p, i, b, payload)
    PROVE  InProgressNotOurs' /\ NoOrphanRequest'
<1>1. TypeOK /\ p \in DOMAIN peers /\ peers' = Answered(p, i, b)
  BY DEF OrphanInv, LiveInv, RecvBlock, Receiving
<1>2. CASE i \in bitfield
  <2>1. i \notin DOMAIN in_progress /\ in_progress' = in_progress
    BY <1>2 DEF RecvBlock, OrphanInv, InProgressNotOurs
  <2> QED
    BY <1>1, <2>1, LateAnswerOwned
       DEF RecvBlock, OrphanInv, InProgressNotOurs, NoOrphanRequest
<1>3. CASE i \notin bitfield
  <2>1. /\ in_progress' = block_received(in_progress, i, b, payload)
        /\ ~IsAssembled(block_received(in_progress, i, b, payload)[i])
    BY <1>3 DEF RecvBlock
  <2>2. i \in Piece
    BY <1>1, <2>1, NotAssembledInRange
  <2>3. DOMAIN in_progress' \subseteq DOMAIN in_progress \cup {i}
    BY <2>1 DEF block_received, init_piece_state, Insert
  <2>4. InProgressNotOurs'
    BY <1>3, <2>3 DEF RecvBlock, OrphanInv, InProgressNotOurs
  <2> QED
    BY <1>1, <2>1, <2>2, <2>4, StoredOwned DEF RecvBlock, OrphanInv, NoOrphanRequest
<1> QED  BY <1>2, <1>3

LEMMA RecvLastBlockOwned ==
    ASSUME OrphanInv, NEW p \in Peer, NEW i, NEW b, NEW payload,
           RecvLastBlock(p, i, b, payload)
    PROVE  InProgressNotOurs' /\ NoOrphanRequest'
<1>1. TypeOK /\ p \in DOMAIN peers /\ peers' = Answered(p, i, b)
  BY DEF OrphanInv, LiveInv, RecvLastBlock, Receiving
<1>2. in_progress' = Erase(block_received(in_progress, i, b, payload), i)
  BY DEF RecvLastBlock
<1>3. DOMAIN in_progress' = DOMAIN in_progress \ {i}
  BY <1>2 DEF block_received, init_piece_state, Insert, Erase
<1>4. InProgressNotOurs'
  BY <1>3 DEF RecvLastBlock, OrphanInv, InProgressNotOurs
<1> QED
  BY <1>1, <1>2, <1>4, DroppedOwned DEF RecvLastBlock, OrphanInv, NoOrphanRequest

LEMMA RecvCorruptPieceOwned ==
    ASSUME OrphanInv, NEW p \in Peer, NEW i, NEW b, NEW payload,
           RecvCorruptPiece(p, i, b, payload)
    PROVE  InProgressNotOurs' /\ NoOrphanRequest'
<1> DEFINE ip == Erase(block_received(in_progress, i, b, payload), i)
           ps == Answered(p, i, b)
<1>1. TypeOK /\ p \in DOMAIN peers
  BY DEF OrphanInv, LiveInv, RecvCorruptPiece, Receiving
<1>2. unregister_peer(p, availability, ip, ps) /\ IsPieceMap(ip)
  BY <1>1, TypeFacts, DropPieceType DEF RecvCorruptPiece, disconnect
<1>3. EveryRequestOwned(in_progress, peers) => EveryRequestOwned(ip, ps)
  BY <1>1, DroppedOwned
<1>4. DOMAIN ip = DOMAIN in_progress \ {i}
  BY DEF block_received, init_piece_state, Insert, Erase
<1> HIDE DEF ip, ps
<1>5. /\ DOMAIN in_progress' = DOMAIN ip
      /\ EveryRequestOwned(ip, ps) => EveryRequestOwned(in_progress', peers')
  BY <1>2, UnregisterOwned
<1>6. "fill" \notin dangling' => "fill" \notin dangling
  BY DEF RecvCorruptPiece, UseAfterFree
<1> QED
  BY <1>3, <1>4, <1>5, <1>6
     DEF RecvCorruptPiece, OrphanInv, InProgressNotOurs, NoOrphanRequest

\* Steps that drop a peer, outside fill_request_pipeline.
LEMMA DroppedPeerOwned ==
    ASSUME OrphanInv, NEW q, disconnect(q, availability, in_progress, peers),
           UNCHANGED bitfield, "fill" \in dangling => "fill" \in dangling'
    PROVE  InProgressNotOurs' /\ NoOrphanRequest'
  BY TypeFacts, UnregisterOwned
     DEF disconnect, OrphanInv, LiveInv, InProgressNotOurs, NoOrphanRequest

\* Steps that rewrite an entry and leave its requests alone.
LEMMA SameRequestsOwned ==
    ASSUME OrphanInv, NEW p \in DOMAIN peers, NEW active,
           peers' = WithEntry(p, peers[p].bitfield, peers[p].outstanding, active),
           UNCHANGED <<bitfield, in_progress, dangling>>
    PROVE  InProgressNotOurs' /\ NoOrphanRequest'
  BY WithEntryOwned DEF OrphanInv, LiveInv, InProgressNotOurs, NoOrphanRequest

\* Only requests for a piece we have are cancelled.
LEMMA CancelPeerOwned ==
    ASSUME OrphanInv, NEW q \in Peer, CancelPeer(q)
    PROVE  InProgressNotOurs' /\ NoOrphanRequest'
<1> DEFINE out == CancelsFor(q, thread.piece)
<1>1. CASE q \in DOMAIN peers
  <2>1. \A i \in DOMAIN in_progress : \A b \in Begins(i) :
            peers[q].outstanding[<<i, b>>] > 0 => out[<<i, b>>] > 0
    <3> SUFFICES ASSUME NEW i \in DOMAIN in_progress, NEW b \in Begins(i)
                 PROVE  out[<<i, b>>] = peers[q].outstanding[<<i, b>>]
      OBVIOUS
    <3>1. i # thread.piece
      BY DEF CancelPeer, OrphanInv, CancelledIsOurs, InProgressNotOurs
    <3>2. <<i, b>> \in BlockId
      BY TypeFacts, BlockIdIntro DEF IsPieceMap, OrphanInv, LiveInv
    <3> QED  BY <3>1, <3>2 DEF CancelsFor
  <2>2. peers' = WithEntry(q, peers[q].bitfield, out, ResetActive(q, thread.piece))
    BY DEF CancelPeer
  <2> HIDE DEF out
  <2>3. EveryRequestOwned(in_progress, peers) => EveryRequestOwned(in_progress, peers')
    BY <1>1, <2>1, <2>2, WithEntryOwned DEF OrphanInv, LiveInv
  <2> QED
    BY <2>3 DEF CancelPeer, OrphanInv, InProgressNotOurs, NoOrphanRequest
<1>2. CASE q \notin DOMAIN peers
  <2>1. peers' = peers
    BY <1>2 DEF CancelPeer, WithEntry, OrphanInv, LiveInv, TypeOK
  <2> QED
    BY <2>1 DEF CancelPeer, OrphanInv, InProgressNotOurs, NoOrphanRequest
<1> QED  BY <1>1, <1>2

LEMMA BroadcastHaveOwned ==
    ASSUME OrphanInv, BroadcastHave
    PROVE  InProgressNotOurs' /\ NoOrphanRequest'
<1>1. CASE thread.peer \in DOMAIN peers
  BY <1>1, SameRequestsOwned DEF BroadcastHave
<1>2. CASE thread.peer \notin DOMAIN peers
  <2>1. /\ UNCHANGED <<bitfield, in_progress, peers>>
        /\ "fill" \notin dangling' => "fill" \notin dangling
    BY <1>2 DEF BroadcastHave, UseAfterFree
  <2> QED
    BY <1>2, <2>1
       DEF BroadcastHave, OrphanInv, InProgressNotOurs, NoOrphanRequest
<1> QED  BY <1>1, <1>2

\* The block that get_next_block marks Requested is in the list of the peer
\* it is requested from.
LEMMA FillRequestOwned ==
    ASSUME OrphanInv, NEW p \in Peer, FillRequest(p)
    PROVE  InProgressNotOurs' /\ NoOrphanRequest'
<1>1. TypeOK /\ p \in DOMAIN peers /\ IsPieceMap(in_progress)
  BY TypeFacts DEF OrphanInv, LiveInv, FillRequest, InLoop
<1>2. PICK i \in PieceChoices(p) : \E b \in Begins(i) :
        /\ IsNextBlock(bitfield, in_progress, i, b)
        /\ in_progress' = RequestBlock(in_progress, i, b)
        /\ peers' = Pushed(p, i, b)
  BY DEF FillRequest
<1>3. PICK b \in Begins(i) :
        /\ IsNextBlock(bitfield, in_progress, i, b)
        /\ in_progress' = RequestBlock(in_progress, i, b)
        /\ peers' = Pushed(p, i, b)
  BY <1>2
<1>4. i \in Piece /\ <<i, b>> \in BlockId /\ i \notin bitfield
  BY <1>1, <1>3, ChoicesType, BlockIdIntro DEF IsNextBlock
<1> DEFINE st == init_piece_state(in_progress, i)[i]
           out == [peers[p].outstanding EXCEPT ![<<i, b>>] = @ + 1]
<1>5. st \in PieceState(i) /\ DOMAIN st.blocks = Begins(i)
  BY <1>1, <1>4, InitPieceType DEF PieceState
<1>6. DOMAIN in_progress' = DOMAIN in_progress \cup {i}
  BY <1>3 DEF RequestBlock, Insert
<1>7. InProgressNotOurs'
  BY <1>4, <1>6 DEF FillRequest, OrphanInv, InProgressNotOurs
<1>8. peers' = [peers EXCEPT ![p] = Entry(peers[p].bitfield, out, i)]
  BY <1>3 DEF Pushed, WithEntry
<1>9. /\ DOMAIN peers' = DOMAIN peers
      /\ peers'[p].outstanding = out
      /\ \A q \in DOMAIN peers : q # p => peers'[q] = peers[q]
  BY <1>1, <1>8 DEF Entry
<1>10. /\ out[<<i, b>>] > 0
       /\ \A r \in BlockId : peers[p].outstanding[r] > 0 => out[r] > 0
  BY <1>1, <1>4, EntryType DEF Outstanding
<1>11. ASSUME EveryRequestOwned(in_progress, peers)
       PROVE  EveryRequestOwned(in_progress', peers')
  <2> SUFFICES ASSUME NEW j \in DOMAIN in_progress \cup {i}, NEW c \in Begins(j),
                      in_progress'[j].blocks[c] = "Requested"
               PROVE  \E q \in DOMAIN peers' : peers'[q].outstanding[<<j, c>>] > 0
    BY <1>6 DEF EveryRequestOwned
  <2>1. CASE j = i /\ c = b
    BY <1>1, <1>9, <1>10, <2>1
  <2>2. CASE ~(j = i /\ c = b)
    <3>1. j \in DOMAIN in_progress /\ in_progress[j].blocks[c] = "Requested"
      <4>1. CASE j = i
        <5>1. in_progress'[i].blocks = [st.blocks EXCEPT ![b] = "Requested"]
          BY <1>3, <1>5 DEF RequestBlock, Insert, PieceState
        <5>2. st.blocks[c] = "Requested"
          BY <1>5, <2>2, <4>1, <5>1
        <5>3. i \in DOMAIN in_progress
          BY <1>5, <4>1, <5>2 DEF init_piece_state, Insert, FreshPiece
        <5> QED  BY <4>1, <5>2, <5>3 DEF init_piece_state
      <4>2. CASE j # i
        BY <1>3, <4>2 DEF RequestBlock, Insert
      <4> QED  BY <4>1, <4>2
    <3>2. PICK q \in DOMAIN peers : peers[q].outstanding[<<j, c>>] > 0
      BY <1>11, <3>1 DEF EveryRequestOwned
    <3>3. <<j, c>> \in BlockId
      BY <1>1, <3>1, BlockIdIntro DEF IsPieceMap
    <3> QED  BY <1>9, <1>10, <3>2, <3>3
  <2> QED  BY <2>1, <2>2
<1> QED  BY <1>7, <1>11 DEF FillRequest, OrphanInv, NoOrphanRequest

\* The loop that runs on a freed entry makes blocks of pieces in progress
\* Requested, and puts no piece we have in progress.
LEMMA FillRequestFailsOwned ==
    ASSUME OrphanInv, NEW p \in Peer, FillRequestFails(p)
    PROVE  InProgressNotOurs' /\ NoOrphanRequest'
<1>1. PICK i \in PieceChoices(p) : \E b \in Begins(i) : \E k \in 0 .. PieceLength :
        /\ IsNextBlock(bitfield, in_progress, i, b)
        /\ in_progress' = Orphaned(
             RequestsFailed(RequestBlock(in_progress, i, b),
                            Pushed(p, i, b)[p].outstanding), i, k)
  BY DEF FillRequestFails
<1>2. DOMAIN in_progress' = DOMAIN in_progress \cup {i} /\ i \notin bitfield
  BY <1>1 DEF Orphaned, RequestsFailed, RequestBlock, Insert, IsNextBlock
<1> QED
  BY <1>2
     DEF FillRequestFails, UseAfterFree, OrphanInv, InProgressNotOurs, NoOrphanRequest

\* Requests are cancelled for the piece that was just completed.
LEMMA CancelledStep ==
    ASSUME OrphanInv, Next
    PROVE  CancelledIsOurs'
<1> USE DEF OrphanInv, LiveInv
<1>1. ASSUME NEW p \in Peer, Event(p) PROVE CancelledIsOurs'
  <2>1. ASSUME NEW i, NEW b, NEW payload, RecvLastBlock(p, i, b, payload)
        PROVE  CancelledIsOurs'
    BY <2>1 DEF RecvLastBlock, Cancelling, CancelledIsOurs
  <2>2. ASSUME thread' \in {Idle, Aborted, Filling(p)} PROVE CancelledIsOurs'
    BY <2>2 DEF Idle, Aborted, Filling, CancelledIsOurs
  <2>3. ASSUME ~\E i, b, payload : RecvLastBlock(p, i, b, payload)
        PROVE  thread' \in {Idle, Aborted, Filling(p)}
    BY <1>1, <2>3
       DEF Event, Handshake, PeerGone, RecvChoke, RecvUnchoke, RecvBitfield,
           RecvHave, RecvPiece, RecvBlock, RecvCorruptPiece, UseAfterFree, Receiving
  <2> QED  BY <2>1, <2>2, <2>3
<1>2. CASE ThreadStep
  <2>1. ASSUME NEW q \in Peer, CancelPeer(q) \/ CancelPeerFails(q)
        PROVE  CancelledIsOurs'
    <3>1. PICK rest \in SUBSET Peer :
            thread' \in {Aborted, [thread EXCEPT !.todo = rest]}
      BY <2>1, ThreadFields DEF CancelPeer, CancelPeerFails, UseAfterFree
    <3>2. thread' \in {Aborted, Cancelling(thread.peer, thread.piece, rest)}
      BY <2>1, <3>1, TodoType DEF CancelPeer, CancelPeerFails
    <3> QED
      BY <2>1, <3>2
         DEF CancelPeer, CancelPeerFails, Aborted, Cancelling, CancelledIsOurs
  <2>2. CASE CancelDone
    BY <2>2 DEF CancelDone, Announcing, CancelledIsOurs
  <2>3. CASE BroadcastHave \/ \E q \in Peer : BroadcastHaveFails(q)
    BY <2>3
       DEF BroadcastHave, BroadcastHaveFails, UseAfterFree, Idle, Aborted, Filling,
           CancelledIsOurs
  <2>4. ASSUME NEW p \in Peer, FillDone(p) \/ FillNextPiece(p) \/ FillRequest(p)
                               \/ FillRequestFails(p)
        PROVE  CancelledIsOurs'
    BY <2>4
       DEF FillDone, FillNextPiece, FillRequest, FillRequestFails, UseAfterFree,
           Idle, Aborted, Filling, CancelledIsOurs
  <2> QED  BY <1>2, <2>1, <2>2, <2>3, <2>4 DEF ThreadStep
<1> QED  BY <1>1, <1>2 DEF Next

LEMMA OrphanStep ==
    ASSUME OrphanInv, Next
    PROVE  InProgressNotOurs' /\ NoOrphanRequest'
<1> DEFINE Goal == InProgressNotOurs' /\ NoOrphanRequest'
<1>1. ASSUME UNCHANGED <<bitfield, in_progress, peers, dangling>> PROVE Goal
  BY <1>1 DEF OrphanInv, InProgressNotOurs, NoOrphanRequest
<1>2. ASSUME NEW p \in Peer, Event(p) PROVE Goal
  <2>1. CASE RecvPiece(p)
    BY <2>1, RecvBlockOwned, RecvLastBlockOwned, RecvCorruptPieceOwned DEF RecvPiece
  <2>2. CASE RecvUnchoke(p)
    BY <2>2, <1>1 DEF RecvUnchoke
  <2> QED
    BY <1>2, <2>1, <2>2, HandshakeOwned, PeerGoneOwned, RecvChokeOwned,
       AnnounceOwned DEF Event
<1>3. CASE ThreadStep
  <2>1. ASSUME NEW q \in Peer, CancelPeerFails(q) \/ BroadcastHaveFails(q)
        PROVE  Goal
    <3>1. "fill" \in dangling => "fill" \in dangling'
      BY <2>1 DEF CancelPeerFails, BroadcastHaveFails, UseAfterFree
    <3> QED  BY <2>1, <3>1, DroppedPeerOwned DEF CancelPeerFails, BroadcastHaveFails
  <2>2. CASE CancelDone
    BY <2>2, <1>1 DEF CancelDone
  <2>3. ASSUME NEW p \in Peer, FillDone(p) \/ FillNextPiece(p) PROVE Goal
    BY <2>3, <1>1, SameRequestsOwned DEF FillDone, FillNextPiece, InLoop
  <2> QED
    BY <1>3, <2>1, <2>2, <2>3, CancelPeerOwned, BroadcastHaveOwned,
       FillRequestOwned, FillRequestFailsOwned DEF ThreadStep
<1> QED  BY <1>2, <1>3 DEF Next

\* The strengthened invariant holds throughout.
LEMMA OrphanInvariant == Spec => []OrphanInv
<1>1. Init => OrphanInv
  BY InitType
     DEF Init, OrphanInv, LiveInv, BlacklistedIsGone, PieceManagerInit, Idle,
         InProgressNotOurs, CancelledIsOurs, NoOrphanRequest, EveryRequestOwned
<1>2. OrphanInv /\ [Next]_vars => OrphanInv'
  <2> SUFFICES ASSUME OrphanInv, [Next]_vars PROVE OrphanInv'
    OBVIOUS
  <2>1. CASE Next
    <3>1. LiveInv'
      BY <2>1, NextType, EventLive, ThreadStepLive DEF Next, LiveInv, OrphanInv
    <3> QED  BY <2>1, <3>1, CancelledStep, OrphanStep DEF OrphanInv
  <2>2. CASE UNCHANGED vars
    <3>1. LiveInv'
      BY <2>2, NextType, SameLive DEF vars, LiveInv, OrphanInv
    <3> QED
      BY <2>2, <3>1
         DEF vars, OrphanInv, InProgressNotOurs, CancelledIsOurs, NoOrphanRequest
  <2> QED  BY <2>1, <2>2
<1> QED  BY <1>1, <1>2, PTL DEF Spec

\* A Requested block always has an owner: whatever the peers send, and
\* whichever connections break when, no block is stranded outside the
\* use-after-free of fill_request_pipeline.
THEOREM NoOrphan == Spec => []NoOrphanRequest
<1>1. OrphanInv => NoOrphanRequest
  BY DEF OrphanInv
<1> QED  BY <1>1, OrphanInvariant, PTL

----------------------------------------------------------------------------
(* Which steps change what we have and what is on disk.                    *)

\* Only RecvLastBlock changes what we have and what is on disk.
LEMMA StoresStep ==
    ASSUME Next
    PROVE  \/ UNCHANGED <<bitfield, disk>>
           \/ \E p \in Peer, i \in Piece \cup {NumPieces}, b \in 0 .. PieceLength,
                 payload \in PayloadOf(MaxPayload) : RecvLastBlock(p, i, b, payload)
<1>1. CASE ThreadStep
  BY <1>1
     DEF ThreadStep, CancelPeer, CancelPeerFails, CancelDone, BroadcastHave,
         BroadcastHaveFails, FillDone, FillNextPiece, FillRequest, FillRequestFails,
         stores
<1>2. ASSUME NEW p \in Peer, Event(p), ~RecvPiece(p)
      PROVE  UNCHANGED <<bitfield, disk>>
  BY <1>2
     DEF Event, Handshake, PeerGone, RecvChoke, RecvUnchoke, RecvBitfield, RecvHave,
         stores
<1>3. ASSUME NEW p \in Peer, RecvPiece(p)
      PROVE  \/ UNCHANGED <<bitfield, disk>>
             \/ \E i \in Piece \cup {NumPieces}, b \in 0 .. PieceLength,
                   payload \in PayloadOf(MaxPayload) : RecvLastBlock(p, i, b, payload)
  BY <1>3 DEF RecvPiece, RecvBlock, RecvCorruptPiece, stores
<1> QED  BY <1>1, <1>2, <1>3 DEF Next

----------------------------------------------------------------------------
(* What a step does to a peer's entry.                                     *)

\* The entry of q in qs asks for no more than its entry in ps.
EntryShrinks(ps, qs, q) ==
    /\ \A r \in BlockId : qs[q].outstanding[r] <= ps[q].outstanding[r]
    /\ qs[q].active_piece \in {ps[q].active_piece, NoPiece}

\* Dropping a peer leaves the entries of the others alone.
LEMMA UnregisterEntry ==
    ASSUME NEW p, NEW av, NEW ip, NEW ps, unregister_peer(p, av, ip, ps),
           NEW q \in DOMAIN peers'
    PROVE  q \in DOMAIN ps /\ peers'[q] = ps[q]
  BY DEF unregister_peer, Erase

LEMMA SendEntry ==
    ASSUME NEW p, NEW ok \in BOOLEAN, NEW av, NEW ip, NEW ps,
           send_message(p, ok, av, ip, ps), NEW q \in DOMAIN peers'
    PROVE  q \in DOMAIN ps /\ peers'[q] = ps[q]
  BY UnregisterEntry DEF send_message, disconnect

\* An entry shrinks if it is the same.
LEMMA SameEntryShrinks ==
    ASSUME TypeOK, NEW q \in DOMAIN peers, NEW qs, qs[q] = peers[q]
    PROVE  EntryShrinks(peers, qs, q)
  BY EntryType DEF EntryShrinks, Outstanding

\* An entry that is rewritten with fewer requests shrinks, and so do the
\* others, which stay as they are.
LEMMA WithEntryShrinks ==
    ASSUME TypeOK, NEW p \in DOMAIN peers, NEW bf, NEW out, NEW active,
           \A r \in BlockId : out[r] <= peers[p].outstanding[r],
           active \in {peers[p].active_piece, NoPiece},
           NEW q \in DOMAIN WithEntry(p, bf, out, active)
    PROVE  q \in DOMAIN peers /\ EntryShrinks(peers, WithEntry(p, bf, out, active), q)
<1>1. q \in DOMAIN peers
  BY DEF WithEntry
<1>2. CASE q = p
  <2>1. WithEntry(p, bf, out, active)[q] = Entry(bf, out, active)
    BY <1>1, <1>2 DEF WithEntry
  <2> QED  BY <1>1, <1>2, <2>1 DEF Entry, EntryShrinks
<1>3. CASE q # p
  <2>1. WithEntry(p, bf, out, active)[q] = peers[q]
    BY <1>1, <1>3 DEF WithEntry
  <2> QED  BY <1>1, <2>1, SameEntryShrinks
<1> QED  BY <1>2, <1>3

\* An answer takes one request off the sender's entry.
LEMMA AnsweredShrinks ==
    ASSUME TypeOK, NEW p \in DOMAIN peers, NEW i, NEW b,
           NEW q \in DOMAIN Answered(p, i, b)
    PROVE  q \in DOMAIN peers /\ EntryShrinks(peers, Answered(p, i, b), q)
<1> DEFINE out == [peers[p].outstanding EXCEPT ![<<i, b>>] = @ - 1]
<1>1. CASE <<i, b>> \in BlockId /\ peers[p].outstanding[<<i, b>>] > 0
  <2>1. \A r \in BlockId : out[r] <= peers[p].outstanding[r]
    BY <1>1, EntryType DEF Outstanding
  <2>2. Answered(p, i, b)
          = WithEntry(p, peers[p].bitfield, out, peers[p].active_piece)
    BY <1>1 DEF Answered
  <2> HIDE DEF out
  <2> QED  BY <2>1, <2>2, WithEntryShrinks
<1>2. CASE ~(<<i, b>> \in BlockId /\ peers[p].outstanding[<<i, b>>] > 0)
  BY <1>2, SameEntryShrinks DEF Answered
<1> QED  BY <1>1, <1>2

\* The requests of p, unchanged.
LEMMA SameRequests ==
    ASSUME TypeOK, NEW p \in DOMAIN peers
    PROVE  \A r \in BlockId : peers[p].outstanding[r] <= peers[p].outstanding[r]
  BY EntryType DEF Outstanding

\* Events add a fresh entry or make entries smaller.
LEMMA EventEntry ==
    ASSUME LiveInv, NEW p \in Peer, Event(p), NEW q \in DOMAIN peers'
    PROVE  \/ q \notin DOMAIN peers /\ peers'[q] = FreshPeer
           \/ q \in DOMAIN peers /\ EntryShrinks(peers, peers', q)
<1> USE DEF LiveInv
<1> DEFINE Goal == \/ q \notin DOMAIN peers /\ peers'[q] = FreshPeer
                   \/ q \in DOMAIN peers /\ EntryShrinks(peers, peers', q)
<1>1. CASE Handshake(p)
  <2> DEFINE ps == Insert(peers, p, FreshPeer)
  <2>1. PICK ok \in BOOLEAN : send_message(p, ok, availability, in_progress, ps)
    BY <1>1 DEF Handshake, SendOutcome
  <2>2. q \in DOMAIN ps /\ peers'[q] = ps[q]
    BY <2>1, SendEntry
  <2>3. p \notin DOMAIN peers
    BY <1>1, RegisteredIsActive DEF Handshake
  <2> QED  BY <2>2, <2>3, SameEntryShrinks DEF Insert
<1>2. CASE PeerGone(p)
  BY <1>2, UnregisterEntry, SameEntryShrinks DEF PeerGone, disconnect
<1>3. CASE RecvChoke(p)
  <2>1. p \in DOMAIN peers /\ \A r \in BlockId : NoRequests[r] <= peers[p].outstanding[r]
    BY <1>3, EntryType DEF RecvChoke, Receiving, NoRequests, Outstanding
  <2> QED  BY <1>3, <2>1, WithEntryShrinks DEF RecvChoke
<1>4. CASE RecvUnchoke(p)
  BY <1>4, SameEntryShrinks DEF RecvUnchoke
<1>5. ASSUME NEW av, NEW wanted, NEW bf, p \in DOMAIN peers,
             ExpressInterest(p, wanted, av,
                 WithEntry(p, bf, peers[p].outstanding, peers[p].active_piece))
      PROVE  Goal
  <2> DEFINE ps == WithEntry(p, bf, peers[p].outstanding, peers[p].active_piece)
  <2>1. PICK ok \in BOOLEAN : send_message(p, ok, av, in_progress, ps)
    BY <1>5 DEF ExpressInterest, SendOutcome
  <2>2. q \in DOMAIN ps /\ peers'[q] = ps[q]
    BY <2>1, SendEntry
  <2>3. q \in DOMAIN peers /\ EntryShrinks(peers, ps, q)
    BY <1>5, <2>2, SameRequests, WithEntryShrinks
  <2> QED  BY <2>2, <2>3 DEF EntryShrinks
<1>6. CASE (\E bf \in Bitfields : RecvBitfield(p, bf)) \/ \E i \in Piece : RecvHave(p, i)
  BY <1>5, <1>6 DEF RecvBitfield, RecvHave, Receiving
<1>7. ASSUME NEW i, NEW b, NEW payload,
             \/ RecvBlock(p, i, b, payload)
             \/ RecvLastBlock(p, i, b, payload)
             \/ RecvCorruptPiece(p, i, b, payload)
      PROVE  Goal
  <2>1. p \in DOMAIN peers
    BY <1>7 DEF RecvBlock, RecvLastBlock, RecvCorruptPiece, Receiving
  <2>2. CASE peers' = Answered(p, i, b)
    BY <2>1, <2>2, AnsweredShrinks
  <2>3. ASSUME NEW av, NEW ip, unregister_peer(p, av, ip, Answered(p, i, b))
        PROVE  Goal
    <3>1. q \in DOMAIN Answered(p, i, b) /\ peers'[q] = Answered(p, i, b)[q]
      BY <2>3, UnregisterEntry
    <3>2. q \in DOMAIN peers /\ EntryShrinks(peers, Answered(p, i, b), q)
      BY <2>1, <3>1, AnsweredShrinks
    <3> QED  BY <3>1, <3>2 DEF EntryShrinks
  <2> QED
    BY <1>7, <2>2, <2>3 DEF RecvBlock, RecvLastBlock, RecvCorruptPiece, disconnect
<1> QED  BY <1>1, <1>2, <1>3, <1>4, <1>6, <1>7 DEF Event, RecvPiece

\* A handler's steps make entries smaller, except when a request is sent.
LEMMA ThreadStepEntry ==
    ASSUME LiveInv, ThreadStep, NEW q \in DOMAIN peers'
    PROVE  /\ q \in DOMAIN peers
           /\ EntryShrinks(peers, peers', q) \/ FillRequest(q)
<1> USE DEF LiveInv
<1> DEFINE Goal == q \in DOMAIN peers /\ (EntryShrinks(peers, peers', q) \/ FillRequest(q))
<1>1. CASE UNCHANGED peers
  BY <1>1, SameEntryShrinks
<1>2. ASSUME NEW p \in Peer, CancelPeer(p) PROVE Goal
  <2>1. CASE p \in DOMAIN peers
    <3>1. \A r \in BlockId : CancelsFor(p, thread.piece)[r] <= peers[p].outstanding[r]
      BY <2>1, EntryType DEF CancelsFor, Outstanding
    <3>2. ResetActive(p, thread.piece) \in {peers[p].active_piece, NoPiece}
      BY DEF ResetActive
    <3> QED  BY <1>2, <2>1, <3>1, <3>2, WithEntryShrinks DEF CancelPeer
  <2>2. CASE p \notin DOMAIN peers
    BY <1>1, <1>2, <2>2 DEF CancelPeer, WithEntry, TypeOK
  <2> QED  BY <2>1, <2>2
<1>3. ASSUME NEW p, NEW av, NEW ip, unregister_peer(p, av, ip, peers) PROVE Goal
  BY <1>3, UnregisterEntry, SameEntryShrinks
<1>4. ASSUME NEW p \in DOMAIN peers, NEW active \in {peers[p].active_piece, NoPiece},
             peers' = WithEntry(p, peers[p].bitfield, peers[p].outstanding, active)
      PROVE  Goal
  BY <1>4, SameRequests, WithEntryShrinks
<1>5. CASE BroadcastHave
  <2>1. ResetActive(thread.peer, thread.piece)
          \in {peers[thread.peer].active_piece, NoPiece}
    BY DEF ResetActive
  <2> QED  BY <1>1, <1>4, <1>5, <2>1 DEF BroadcastHave
<1>6. ASSUME NEW p \in Peer, FillRequest(p) PROVE Goal
  <2>1. CASE q = p
    BY <1>6, <2>1 DEF FillRequest, InLoop
  <2>2. CASE q # p
    <3>1. q \in DOMAIN peers /\ peers'[q] = peers[q]
      BY <1>6, <2>2 DEF FillRequest, Pushed, WithEntry
    <3> QED  BY <3>1, SameEntryShrinks
  <2> QED  BY <2>1, <2>2
<1>7. ASSUME NEW p \in Peer, FillRequestFails(p) PROVE Goal
  <2>1. q \in DOMAIN peers /\ peers'[q] = peers[q]
    BY <1>7 DEF FillRequestFails, Pushed, WithEntry, Erase
  <2> QED  BY <2>1, SameEntryShrinks
<1>8. ASSUME NEW p \in Peer, FillNextPiece(p) PROVE Goal
  BY <1>4, <1>8 DEF FillNextPiece, InLoop
<1>9. ASSUME NEW p \in Peer, CancelPeerFails(p) \/ BroadcastHaveFails(p) PROVE Goal
  BY <1>3, <1>9 DEF CancelPeerFails, BroadcastHaveFails, disconnect
<1>10. ASSUME NEW p \in Peer, CancelDone \/ FillDone(p) PROVE Goal
  BY <1>1, <1>10 DEF CancelDone, FillDone
<1>11. CASE CancelDone
  BY <1>1, <1>11 DEF CancelDone
<1> QED
  BY <1>2, <1>5, <1>6, <1>7, <1>8, <1>9, <1>10, <1>11 DEF ThreadStep

\* An entry either is new, or asks for no more than before, or belongs to
\* the peer that a request was just sent to.
LEMMA EntryStep ==
    ASSUME LiveInv, Next, NEW q \in DOMAIN peers'
    PROVE  \/ q \notin DOMAIN peers /\ peers'[q] = FreshPeer
           \/ q \in DOMAIN peers /\ EntryShrinks(peers, peers', q)
           \/ q \in DOMAIN peers /\ FillRequest(q)
  BY EventEntry, ThreadStepEntry DEF Next

\* A request is sent for a block of a piece that may be picked and that we do
\* not have, and is added to the peer's requests.
LEMMA FillRequestEntry ==
    ASSUME TypeOK, NEW q, FillRequest(q)
    PROVE  \E r \in BlockId :
             /\ r[1] \in PieceChoices(q) /\ r[1] \notin bitfield
             /\ peers'[q].outstanding = [peers[q].outstanding EXCEPT ![r] = @ + 1]
             /\ peers'[q].active_piece = r[1]
             /\ peers'[q].bitfield = peers[q].bitfield
<1>1. q \in DOMAIN peers
  BY DEF FillRequest, InLoop
<1>2. PICK i \in PieceChoices(q) : \E b \in Begins(i) :
        IsNextBlock(bitfield, in_progress, i, b) /\ peers' = Pushed(q, i, b)
  BY DEF FillRequest
<1>3. PICK b \in Begins(i) :
        IsNextBlock(bitfield, in_progress, i, b) /\ peers' = Pushed(q, i, b)
  BY <1>2
<1>4. <<i, b>> \in BlockId /\ i \notin bitfield
  BY <1>1, <1>3, ChoicesType, BlockIdIntro DEF IsNextBlock
<1> DEFINE out == [peers[q].outstanding EXCEPT ![<<i, b>>] = @ + 1]
<1>5. peers'[q] = Entry(peers[q].bitfield, out, i)
  BY <1>1, <1>3 DEF Pushed, WithEntry
<1>6. /\ peers'[q].outstanding = out
      /\ peers'[q].active_piece = i
      /\ peers'[q].bitfield = peers[q].bitfield
  BY <1>5 DEF Entry
<1> QED  BY <1>4, <1>6

----------------------------------------------------------------------------
(* A peer that chokes us owes us nothing.                                  *)

\* A peer starts choking us only in RecvChoke, which drops its requests.
LEMMA ChokeStep ==
    ASSUME TypeOK, Next, NEW q \in DOMAIN peers', peer_choking'[q]
    PROVE  \/ peer_choking[q] /\ ~FillRequest(q)
           \/ q \in DOMAIN peers /\ peers'[q].outstanding = NoRequests
<1>1. CASE ThreadStep
  <2>1. UNCHANGED peer_choking
    BY <1>1
       DEF ThreadStep, CancelPeer, CancelPeerFails, CancelDone, BroadcastHave,
           BroadcastHaveFails, FillDone, FillNextPiece, FillRequest,
           FillRequestFails, perPeer
  <2> QED  BY <2>1 DEF FillRequest, InLoop
<1>2. ASSUME NEW p \in Peer, Event(p), UNCHANGED peer_choking
      PROVE  peer_choking[q] /\ ~FillRequest(q)
  BY <1>2 DEF FillRequest, InLoop
<1>3. ASSUME NEW p \in Peer, RecvChoke(p)
      PROVE  \/ peer_choking[q] /\ ~FillRequest(q)
             \/ q \in DOMAIN peers /\ peers'[q].outstanding = NoRequests
  <2>1. CASE q = p
    BY <1>3, <2>1 DEF RecvChoke, Receiving, WithEntry, Entry
  <2>2. CASE q # p
    BY <1>3, <2>2 DEF RecvChoke, TypeOK, FillRequest, InLoop
  <2> QED  BY <2>1, <2>2
<1>4. ASSUME NEW p \in Peer, RecvUnchoke(p)
      PROVE  peer_choking[q] /\ ~FillRequest(q)
  BY <1>4 DEF RecvUnchoke, TypeOK, FillRequest, InLoop
<1>5. ASSUME NEW p \in Peer, Event(p), ~RecvChoke(p), ~RecvUnchoke(p)
      PROVE  UNCHANGED peer_choking
  <2>1. CASE RecvPiece(p)
    BY <2>1 DEF RecvPiece, RecvBlock, RecvLastBlock, RecvCorruptPiece, perPeer
  <2> QED
    BY <1>5, <2>1 DEF Event, Handshake, PeerGone, RecvBitfield, RecvHave, perPeer
<1> QED  BY <1>1, <1>2, <1>3, <1>4, <1>5 DEF Next

\* No request survives a choke, and none is sent while the peer chokes us.
LEMMA ChokeInvariant == Spec => []ChokedOwesNothing
<1>1. Init => ChokedOwesNothing
  BY DEF Init, ChokedOwesNothing
<1>2. LiveInv /\ ChokedOwesNothing /\ [Next]_vars => ChokedOwesNothing'
  <2> SUFFICES ASSUME LiveInv, ChokedOwesNothing, Next PROVE ChokedOwesNothing'
    BY DEF vars, ChokedOwesNothing
  <2> SUFFICES ASSUME NEW q \in DOMAIN peers', peer_choking'[q], NEW r \in BlockId
               PROVE  peers'[q].outstanding[r] = 0
    BY DEF ChokedOwesNothing
  <2>1. CASE peers'[q].outstanding = NoRequests
    BY <2>1 DEF NoRequests
  <2>2. CASE peer_choking[q] /\ ~FillRequest(q)
    <3>1. CASE q \notin DOMAIN peers /\ peers'[q] = FreshPeer
      BY <2>1, <3>1 DEF FreshPeer, Entry
    <3>2. CASE q \in DOMAIN peers /\ EntryShrinks(peers, peers', q)
      <4>1. peers'[q].outstanding[r] <= 0
        BY <2>2, <3>2 DEF EntryShrinks, ChokedOwesNothing
      <4>2. peers'[q].outstanding[r] \in Nat
        <5>1. TypeOK'
          BY NextType DEF LiveInv
        <5> QED  BY <5>1 DEF TypeOK, PeerState, Outstanding
      <4> QED  BY <4>1, <4>2
    <3> QED  BY <2>2, <3>1, <3>2, EntryStep
  <2> QED  BY <2>1, <2>2, ChokeStep DEF LiveInv
<1>3. OrphanInv => LiveInv
  BY DEF OrphanInv
<1> QED  BY <1>1, <1>2, <1>3, OrphanInvariant, PTL DEF Spec

----------------------------------------------------------------------------
(* The pipeline's depth.  OutstandingSize is a sum over the blocks, so     *)
(* these are facts about sums.                                             *)

\* A torrent has finitely many blocks.
LEMMA BlockIdFinite == IsFiniteSet(BlockId)
<1>1. IsFiniteSet(Piece) /\ IsFiniteSet(0 .. PieceLength - 1)
  BY NumPiecesPos, SizeAssumption, FS_Interval DEF Piece
<1>2. IsFiniteSet(Piece \X (0 .. PieceLength - 1))
  BY <1>1, FS_Product
<1>3. BlockId \subseteq Piece \X (0 .. PieceLength - 1)
  BY DEF BlockId
<1> QED  BY <1>2, <1>3, FS_Subset

\* The number of requests in flight at p.
LEMMA SizeIsSum ==
    ASSUME NEW p
    PROVE  OutstandingSize(p) = SumOver(peers[p].outstanding, BlockId)
<1>1. PICK h : h = peers[p].outstanding
  OBVIOUS
<1>2. MapThenSumSet(LAMBDA r : h[r], BlockId) = SumOver(h, BlockId)
  BY SumUnfold
<1> QED  BY <1>1, <1>2 DEF OutstandingSize

LEMMA SizeIsSumNext ==
    ASSUME NEW p
    PROVE  OutstandingSize(p)' = SumOver(peers'[p].outstanding, BlockId)
  BY DEF OutstandingSize, MapThenSumSet, MapThenFoldSet, SumOver, IsSum, Pick

\* A request is sent only while the pipeline has room, and no other step
\* makes a pipeline longer.
LEMMA PipelineInvariant == Spec => []PipelineBound
<1>1. Init => PipelineBound
  BY DEF Init, PipelineBound
<1>2. LiveInv /\ PipelineBound /\ [Next]_vars => PipelineBound'
  <2>1. PipelineBound /\ UNCHANGED vars => PipelineBound'
    <3> SUFFICES ASSUME PipelineBound, UNCHANGED vars, NEW q \in DOMAIN peers'
                 PROVE  OutstandingSize(q)' <= PipelineDepth
      BY DEF PipelineBound
    <3>1. OutstandingSize(q)' = OutstandingSize(q) /\ q \in DOMAIN peers
      BY SizeIsSum, SizeIsSumNext DEF vars
    <3> QED  BY <3>1 DEF PipelineBound
  <2> SUFFICES ASSUME LiveInv, PipelineBound, Next, NEW q \in DOMAIN peers'
               PROVE  OutstandingSize(q)' <= PipelineDepth
    BY <2>1 DEF PipelineBound
  <2> DEFINE new == peers'[q].outstanding
             old == peers[q].outstanding
  <2>2. new \in [BlockId -> Nat]
    <3>1. TypeOK'
      BY NextType DEF LiveInv
    <3> QED  BY <3>1 DEF TypeOK, PeerState, Outstanding
  <2>3. q \in DOMAIN peers => /\ old \in [BlockId -> Nat]
                              /\ SumOver(old, BlockId) <= PipelineDepth
    BY EntryType, SizeIsSum DEF LiveInv, Outstanding, PipelineBound
  <2>4. CASE q \notin DOMAIN peers /\ peers'[q] = FreshPeer
    <3>1. \A r \in BlockId : new[r] = 0
      BY <2>4 DEF FreshPeer, Entry, NoRequests
    <3> HIDE DEF new
    <3>2. SumOver(new, BlockId) = 0
      BY <2>2, <3>1, BlockIdFinite, SumZero
    <3> QED  BY <3>2, SizeIsSumNext, SwarmAssumption DEF new
  <2>5. CASE q \in DOMAIN peers /\ EntryShrinks(peers, peers', q)
    <3>1. \A r \in BlockId : new[r] <= old[r]
      BY <2>5 DEF EntryShrinks
    <3> HIDE DEF new, old
    <3>2. /\ SumOver(new, BlockId) \in Nat /\ SumOver(old, BlockId) \in Nat
          /\ SumOver(new, BlockId) <= SumOver(old, BlockId)
      BY <2>2, <2>3, <2>5, <3>1, BlockIdFinite, SumMonotonic
    <3>3. SumOver(new, BlockId) <= PipelineDepth
      BY <2>3, <2>5, <3>2, SwarmAssumption
    <3> QED  BY <3>3, SizeIsSumNext DEF new
  <2>6. CASE q \in DOMAIN peers /\ FillRequest(q)
    <3>1. PICK r \in BlockId : new = [old EXCEPT ![r] = @ + 1]
      BY <2>6, FillRequestEntry DEF LiveInv
    <3>2. SumOver(old, BlockId) < PipelineDepth
      BY <2>6, SizeIsSum DEF FillRequest, InLoop
    <3>3. new[r] = old[r] + 1 /\ \A s \in BlockId \ {r} : new[s] = old[s]
      BY <2>3, <2>6, <3>1
    <3> HIDE DEF new, old
    <3>4. SumOver(new, BlockId) - new[r] = SumOver(old, BlockId) - old[r]
      BY <2>2, <2>3, <2>6, <3>3, BlockIdFinite, SumDiffer
    <3>5. SumOver(new, BlockId) \in Nat /\ SumOver(old, BlockId) \in Nat
      BY <2>2, <2>3, <2>6, BlockIdFinite, SumType
    <3>6. SumOver(new, BlockId) <= PipelineDepth
      BY <2>2, <2>3, <2>6, <3>2, <3>3, <3>4, <3>5, SwarmAssumption
    <3> QED  BY <3>6, SizeIsSumNext DEF new
  <2> QED  BY <2>4, <2>5, <2>6, EntryStep
<1>3. OrphanInv => LiveInv
  BY DEF OrphanInv
<1> QED  BY <1>1, <1>2, <1>3, OrphanInvariant, PTL DEF Spec

\* What a peer owes is what it may be asked for: nothing while it chokes us,
\* and never more than the pipeline holds.
THEOREM PipelineCorrect == Spec => []PipelineLimits
  BY ChokeInvariant, PipelineInvariant, PTL DEF PipelineLimits

----------------------------------------------------------------------------
(* Nobody is asked for a piece we have.  While cancel_piece_requests runs, *)
(* the peers it has not visited yet may still be asked for the piece it    *)
(* cancels, and for no other piece we have.                                *)

\* The pieces of ours that p must not be asked for.
NotAsked(p) ==
    IF thread.pc = "cancel" /\ p \in thread.todo THEN bitfield \ {thread.piece}
                                                 ELSE bitfield

CancelInv ==
    "cancel" \notin dangling =>
        \A p \in DOMAIN peers :
            /\ peers[p].active_piece \notin NotAsked(p)
            /\ \A r \in BlockId :
                 peers[p].outstanding[r] > 0 => r[1] \notin NotAsked(p)

\* A use of a freed entry is never forgotten.
LEMMA DanglingGrows ==
    ASSUME Next
    PROVE  dangling \subseteq dangling'
<1>1. ASSUME NEW p \in Peer, RecvPiece(p) PROVE dangling \subseteq dangling'
  BY <1>1 DEF RecvPiece, RecvBlock, RecvLastBlock, RecvCorruptPiece, UseAfterFree
<1>2. ASSUME NEW p \in Peer, Event(p) PROVE dangling \subseteq dangling'
  BY <1>1, <1>2
     DEF Event, Handshake, PeerGone, RecvChoke, RecvUnchoke, RecvBitfield, RecvHave
<1>3. CASE ThreadStep
  BY <1>3
     DEF ThreadStep, CancelPeer, CancelPeerFails, CancelDone, BroadcastHave,
         BroadcastHaveFails, FillDone, FillNextPiece, FillRequest, FillRequestFails,
         UseAfterFree
<1> QED  BY <1>2, <1>3 DEF Next

\* What a step does to NotAsked, for a peer that stays registered.
LEMMA NotAskedStep ==
    ASSUME LiveInv, Next, "cancel" \notin dangling', NEW q \in DOMAIN peers'
    PROVE  \/ NotAsked(q)' \subseteq NotAsked(q)
           \/ CancelPeer(q) /\ NotAsked(q)' = NotAsked(q) \cup {thread.piece}
<1> USE DEF LiveInv
<1>1. CASE thread.pc # "cancel"
  <2>1. CASE UNCHANGED bitfield
    BY <1>1, <2>1 DEF NotAsked
  <2>2. ASSUME NEW p, NEW i, NEW b, NEW payload, RecvLastBlock(p, i, b, payload)
        PROVE  NotAsked(q)' \subseteq NotAsked(q)
    <3>1. q \in DOMAIN peers
      BY <2>2, AnsweredType DEF RecvLastBlock, Receiving
    <3>2. thread' = Cancelling(p, i, DOMAIN peers) /\ bitfield' = bitfield \cup {i}
      BY <2>2 DEF RecvLastBlock
    <3>3. thread'.pc = "cancel" /\ thread'.todo = DOMAIN peers /\ thread'.piece = i
      BY <3>2 DEF Cancelling
    <3> QED  BY <1>1, <3>1, <3>2, <3>3 DEF NotAsked
  <2> QED  BY <2>1, <2>2, StoresStep
<1>2. CASE thread.pc = "cancel"
  <2>1. ASSUME NEW p \in Peer PROVE ~Event(p)
    <3>1. thread # Idle
      BY <1>2 DEF Idle
    <3>2. ~RecvPiece(p)
      BY <3>1 DEF RecvPiece, RecvBlock, RecvLastBlock, RecvCorruptPiece, Receiving
    <3> QED
      BY <3>1, <3>2
         DEF Event, Handshake, PeerGone, RecvChoke, RecvUnchoke, RecvBitfield,
             RecvHave, Receiving
  <2>2. ASSUME NEW p \in Peer PROVE ~CancelPeerFails(p)
    BY DEF CancelPeerFails, UseAfterFree
  <2>3. ASSUME NEW p \in Peer, CancelPeer(p)
        PROVE  \/ NotAsked(q)' \subseteq NotAsked(q)
               \/ CancelPeer(q) /\ NotAsked(q)' = NotAsked(q) \cup {thread.piece}
    <3>1. thread.todo \ {p} \in SUBSET Peer
      BY <1>2, ThreadFields
    <3>2. thread' = Cancelling(thread.peer, thread.piece, thread.todo \ {p})
      BY <1>2, <2>3, <3>1, TodoType DEF CancelPeer
    <3>3. /\ thread'.pc = "cancel" /\ thread'.piece = thread.piece
          /\ thread'.todo = thread.todo \ {p}
          /\ bitfield' = bitfield
      BY <2>3, <3>2 DEF Cancelling, CancelPeer
    <3>4. CASE q = p
      <4>1. q \in thread.todo
        BY <2>3, <3>4 DEF CancelPeer
      <4> QED  BY <1>2, <2>3, <3>3, <3>4, <4>1 DEF NotAsked
    <3>5. CASE q # p
      BY <1>2, <3>3, <3>5 DEF NotAsked
    <3> QED  BY <3>4, <3>5
  <2>4. CASE CancelDone
    <3>1. thread.todo = {} /\ bitfield' = bitfield
      BY <2>4 DEF CancelDone
    <3>2. NotAsked(q) = bitfield
      BY <3>1 DEF NotAsked
    <3>3. NotAsked(q)' \subseteq bitfield
      BY <3>1 DEF NotAsked
    <3> QED  BY <3>2, <3>3
  <2>5. ~BroadcastHave /\ \A p \in Peer :
          ~BroadcastHaveFails(p) /\ ~FillDone(p) /\ ~FillNextPiece(p)
          /\ ~FillRequest(p) /\ ~FillRequestFails(p)
    BY <1>2
       DEF BroadcastHave, BroadcastHaveFails, FillDone, FillNextPiece, FillRequest,
           FillRequestFails, Filling
  <2> QED  BY <2>1, <2>2, <2>3, <2>4, <2>5 DEF Next, ThreadStep
<1> QED  BY <1>1, <1>2

\* The loop of cancel_piece_requests takes every request for the piece off
\* the lists, and nothing else asks for a piece we have.
THEOREM CancellationComplete == Spec => []CancelComplete
<1>1. Init => CancelInv
  BY DEF Init, CancelInv
<1>2. LiveInv /\ CancelInv /\ [Next]_vars => CancelInv'
  <2> SUFFICES ASSUME LiveInv, CancelInv, [Next]_vars PROVE CancelInv'
    OBVIOUS
  <2>1. CASE UNCHANGED vars
    BY <2>1 DEF vars, CancelInv, NotAsked
  <2>2. CASE Next
    <3> SUFFICES ASSUME "cancel" \notin dangling', NEW q \in DOMAIN peers'
                 PROVE  /\ peers'[q].active_piece \notin NotAsked(q)'
                        /\ \A r \in BlockId :
                             peers'[q].outstanding[r] > 0 => r[1] \notin NotAsked(q)'
      BY DEF CancelInv
    <3>1. TypeOK /\ TypeOK'
      BY <2>2, NextType DEF LiveInv
    <3>2. "cancel" \notin dangling
      BY <2>2, DanglingGrows
    <3>3. NoPiece \notin NotAsked(q)'
      BY <3>1, NumPiecesPos
         DEF NotAsked, TypeOK, PieceManagerTypeOK, NoPiece, Piece
    <3>4. CASE q \notin DOMAIN peers /\ peers'[q] = FreshPeer
      BY <3>3, <3>4 DEF FreshPeer, Entry, NoRequests
    <3>5. CASE q \in DOMAIN peers /\ EntryShrinks(peers, peers', q)
      <4>1. ASSUME NEW r \in BlockId, peers'[q].outstanding[r] > 0
            PROVE  peers[q].outstanding[r] > 0
        <5>1. /\ peers[q].outstanding[r] \in Nat /\ peers'[q].outstanding[r] \in Nat
              /\ peers'[q].outstanding[r] <= peers[q].outstanding[r]
          BY <3>1, <3>5 DEF TypeOK, PeerState, Outstanding, EntryShrinks
        <5> QED  BY <4>1, <5>1
      <4>2. CASE NotAsked(q)' \subseteq NotAsked(q)
        BY <3>2, <3>3, <3>5, <4>1, <4>2 DEF CancelInv, EntryShrinks
      <4>3. CASE CancelPeer(q) /\ NotAsked(q)' = NotAsked(q) \cup {thread.piece}
        <5>1. /\ peers'[q].outstanding = CancelsFor(q, thread.piece)
              /\ peers'[q].active_piece = ResetActive(q, thread.piece)
          BY <3>5, <4>3 DEF CancelPeer, WithEntry, Entry
        <5>2. ASSUME NEW r \in BlockId, peers'[q].outstanding[r] > 0
              PROVE  r[1] # thread.piece
          BY <5>1, <5>2 DEF CancelsFor
        <5>3. peers'[q].active_piece # thread.piece
          BY <3>1, <4>3, <5>1, ThreadFields, NumPiecesPos
             DEF ResetActive, CancelPeer, NoPiece, Piece
        <5> QED
          BY <3>2, <3>3, <3>5, <4>1, <4>3, <5>2, <5>3 DEF CancelInv, EntryShrinks
      <4> QED  BY <2>2, <4>2, <4>3, NotAskedStep
    <3>6. CASE q \in DOMAIN peers /\ FillRequest(q)
      <4>1. thread' = Filling(q) /\ bitfield' = bitfield
        BY <3>6 DEF FillRequest
      <4>2. NotAsked(q)' = bitfield /\ NotAsked(q) = bitfield
        BY <3>6, <4>1 DEF NotAsked, Filling, FillRequest
      <4>3. PICK r \in BlockId :
              /\ r[1] \notin bitfield
              /\ peers'[q].outstanding = [peers[q].outstanding EXCEPT ![r] = @ + 1]
              /\ peers'[q].active_piece = r[1]
        BY <3>1, <3>6, FillRequestEntry
      <4>4. ASSUME NEW s \in BlockId, peers'[q].outstanding[s] > 0, s # r
            PROVE  peers[q].outstanding[s] > 0
        BY <3>1, <3>6, <4>3, <4>4, EntryType DEF Outstanding
      <4> QED  BY <3>2, <3>6, <4>2, <4>3, <4>4 DEF CancelInv
    <3> QED  BY <2>2, <3>4, <3>5, <3>6, EntryStep
  <2> QED  BY <2>1, <2>2
<1>3. CancelInv => CancelComplete
  BY DEF CancelInv, CancelComplete, NotAsked
<1>4. OrphanInv => LiveInv
  BY DEF OrphanInv
<1> QED  BY <1>1, <1>2, <1>3, <1>4, OrphanInvariant, PTL DEF Spec

----------------------------------------------------------------------------
(* The availability histogram counts the registered holders of each piece. *)

\* The peers of ps that are known to have piece i.
HoldersIn(ps, i) == {p \in DOMAIN ps : i \in ps[p].bitfield}

Counts(av, ps) == \A i \in Piece : av[i] = Cardinality(HoldersIn(ps, i))

\* The holders of a piece are finitely many, since the swarm is finite.
LEMMA HoldersFinite ==
    ASSUME NEW ps, PeerMap(ps), NEW i
    PROVE  IsFiniteSet(HoldersIn(ps, i)) /\ Cardinality(HoldersIn(ps, i)) \in Nat
<1>1. HoldersIn(ps, i) \in SUBSET Peer
  BY DEF HoldersIn, PeerMap
<1> QED  BY <1>1, SwarmAssumption, FS_Subset, FS_CardinalityType

\* Rewriting entries without touching the bitfields keeps the counts.
LEMMA SameCounts ==
    ASSUME NEW av, NEW ps, NEW qs, Counts(av, ps), DOMAIN qs = DOMAIN ps,
           \A p \in DOMAIN ps : qs[p].bitfield = ps[p].bitfield
    PROVE  Counts(av, qs)
<1>1. \A i : HoldersIn(qs, i) = HoldersIn(ps, i)
  BY DEF HoldersIn
<1> QED  BY <1>1 DEF Counts

\* Erasing a peer: the saturating decrement is exact, since a piece that the
\* peer has is counted at least once.
LEMMA EraseCounts ==
    ASSUME NEW av \in [Piece -> Nat], NEW ps, PeerMap(ps), Counts(av, ps),
           NEW p \in DOMAIN ps
    PROVE  Counts(remove_peer_bitfield(av, ps[p].bitfield), Erase(ps, p))
<1> SUFFICES ASSUME NEW i \in Piece
             PROVE  remove_peer_bitfield(av, ps[p].bitfield)[i]
                      = Cardinality(HoldersIn(Erase(ps, p), i))
  BY DEF Counts
<1>1. HoldersIn(Erase(ps, p), i) = HoldersIn(ps, i) \ {p}
  BY DEF HoldersIn, Erase
<1>2. Cardinality(HoldersIn(ps, i) \ {p})
        = IF p \in HoldersIn(ps, i) THEN av[i] - 1 ELSE av[i]
  BY HoldersFinite, FS_RemoveElement DEF Counts
<1>3. p \in HoldersIn(ps, i) <=> i \in ps[p].bitfield
  BY DEF HoldersIn
<1>4. ASSUME p \in HoldersIn(ps, i) PROVE av[i] > 0
  BY <1>4, HoldersFinite, FS_EmptySet DEF Counts
<1> QED  BY <1>1, <1>2, <1>3, <1>4 DEF remove_peer_bitfield

LEMMA UnregisterCounts ==
    ASSUME NEW p, NEW av \in [Piece -> Nat], NEW ip, NEW ps, PeerMap(ps),
           Counts(av, ps), unregister_peer(p, av, ip, ps)
    PROVE  Counts(availability', peers')
  BY EraseCounts DEF unregister_peer

LEMMA SendCounts ==
    ASSUME NEW p, NEW ok \in BOOLEAN, NEW av \in [Piece -> Nat], NEW ip, NEW ps,
           PeerMap(ps), Counts(av, ps), send_message(p, ok, av, ip, ps)
    PROVE  Counts(availability', peers')
  BY UnregisterCounts DEF send_message, disconnect

\* A peer whose bitfield becomes bf: one more holder of the pieces of bf.
LEMMA AddCounts ==
    ASSUME NEW av \in [Piece -> Nat], NEW qs, PeerMap(qs), NEW p \in DOMAIN qs,
           Counts(av, Erase(qs, p)),
           NEW new, new = add_peer_bitfield(av, qs[p].bitfield)
    PROVE  Counts(new, qs)
<1> SUFFICES ASSUME NEW i \in Piece
             PROVE  new[i] = Cardinality(HoldersIn(qs, i))
  BY DEF Counts
<1> DEFINE others == HoldersIn(Erase(qs, p), i)
<1>1. PeerMap(Erase(qs, p)) /\ p \notin others
  BY DEF PeerMap, Erase, HoldersIn
<1>2. IsFiniteSet(others) /\ Cardinality(others) = av[i]
  BY <1>1, HoldersFinite DEF Counts
<1>3. HoldersIn(qs, i) = IF i \in qs[p].bitfield THEN others \cup {p} ELSE others
  BY DEF HoldersIn, Erase
<1> HIDE DEF others
<1>4. Cardinality(others \cup {p}) = av[i] + 1
  BY <1>1, <1>2, FS_AddElement
<1> QED  BY <1>2, <1>3, <1>4 DEF add_peer_bitfield

\* Rewriting the entry of p, its bitfield included.
LEMMA WithEntryErase ==
    ASSUME NEW p \in DOMAIN peers, NEW bf, NEW out, NEW active
    PROVE  /\ Erase(WithEntry(p, bf, out, active), p) = Erase(peers, p)
           /\ DOMAIN WithEntry(p, bf, out, active) = DOMAIN peers
           /\ WithEntry(p, bf, out, active)[p].bitfield = bf
  BY DEF WithEntry, Erase, Entry

\* ... or not.
LEMMA WithEntryCounts ==
    ASSUME TypeOK, Counts(availability, peers), NEW p, NEW out, NEW active
    PROVE  Counts(availability, WithEntry(p, peers[p].bitfield, out, active))
<1> DEFINE qs == WithEntry(p, peers[p].bitfield, out, active)
<1>1. DOMAIN qs = DOMAIN peers
  BY DEF WithEntry
<1>2. \A q \in DOMAIN peers : qs[q].bitfield = peers[q].bitfield
  BY DEF WithEntry, Entry
<1>3. Counts(availability, qs)
  <2> HIDE DEF qs
  <2> QED  BY <1>1, <1>2, SameCounts
<1> QED  BY <1>3

LEMMA AnsweredCounts ==
    ASSUME TypeOK, Counts(availability, peers), NEW p, NEW i, NEW b
    PROVE  Counts(availability, Answered(p, i, b))
  BY WithEntryCounts DEF Answered

\* Every event counts what it changes.
LEMMA EventCounts ==
    ASSUME LiveInv, Counts(availability, peers), NEW p \in Peer, Event(p)
    PROVE  Counts(availability', peers')
<1> USE DEF LiveInv
<1> DEFINE Goal == Counts(availability', peers')
<1>1. CASE Handshake(p)
  <2> DEFINE ps == Insert(peers, p, FreshPeer)
  <2>1. PICK ok \in BOOLEAN : send_message(p, ok, availability, in_progress, ps)
    BY <1>1 DEF Handshake, SendOutcome
  <2>2. PeerMap(ps)
    BY TypeFacts, FreshPeerType DEF Insert, PeerMap
  <2>3. p \notin DOMAIN peers
    BY <1>1, RegisteredIsActive DEF Handshake
  <2>4. \A i : HoldersIn(ps, i) = HoldersIn(peers, i)
    BY <2>3 DEF HoldersIn, Insert, FreshPeer, Entry
  <2>5. Counts(availability, ps)
    BY <2>4 DEF Counts
  <2> HIDE DEF ps
  <2> QED  BY <2>1, <2>2, <2>5, TypeFacts, SendCounts
<1>2. CASE PeerGone(p)
  BY <1>2, TypeFacts, UnregisterCounts DEF PeerGone, disconnect
<1>3. CASE RecvChoke(p) \/ RecvUnchoke(p)
  <2>1. CASE RecvChoke(p)
    BY <2>1, WithEntryCounts DEF RecvChoke
  <2>2. CASE RecvUnchoke(p)
    BY <2>2 DEF RecvUnchoke
  <2> QED  BY <1>3, <2>1, <2>2
<1>4. ASSUME NEW bf \in Bitfields, RecvBitfield(p, bf) PROVE Goal
  <2> DEFINE ps == WithEntry(p, bf, peers[p].outstanding, peers[p].active_piece)
             less == remove_peer_bitfield(availability, peers[p].bitfield)
             av == add_peer_bitfield(less, bf)
  <2>1. PICK ok \in BOOLEAN : send_message(p, ok, av, in_progress, ps)
    BY <1>4 DEF RecvBitfield, ExpressInterest, SendOutcome
  <2>2. p \in DOMAIN peers
    BY <1>4 DEF RecvBitfield, Receiving
  <2>3. PeerMap(ps)
    BY <2>2, SwarmAssumption, EntryType, WithEntryType
  <2>4. less \in [Piece -> Nat] /\ av \in [Piece -> Nat]
    BY TypeFacts, HistogramType
  <2>5. Counts(less, Erase(peers, p))
    BY <2>2, TypeFacts, EraseCounts
  <2>6. Erase(ps, p) = Erase(peers, p) /\ p \in DOMAIN ps /\ ps[p].bitfield = bf
    BY <2>2, WithEntryErase
  <2> HIDE DEF ps, less
  <2>7. Counts(av, ps)
    BY <2>3, <2>4, <2>5, <2>6, AddCounts
  <2> HIDE DEF av
  <2> QED  BY <2>1, <2>3, <2>4, <2>7, SendCounts
<1>5. ASSUME NEW i \in Piece, RecvHave(p, i) PROVE Goal
  <2> DEFINE old == peers[p].bitfield
             ps == WithEntry(p, old \cup {i}, peers[p].outstanding,
                             peers[p].active_piece)
             av == IF i \in old THEN availability ELSE add_availability(availability, i)
  <2>1. PICK ok \in BOOLEAN : send_message(p, ok, av, in_progress, ps)
    BY <1>5 DEF RecvHave, ExpressInterest, SendOutcome
  <2>2. p \in DOMAIN peers
    BY <1>5 DEF RecvHave, Receiving
  <2>3. PeerMap(ps)
    BY <2>2, EntryType, WithEntryType
  <2>4. av \in [Piece -> Nat]
    BY TypeFacts, HistogramType
  <2>5. \A j \in Piece : HoldersIn(ps, j)
          = IF j = i THEN HoldersIn(peers, j) \cup {p} ELSE HoldersIn(peers, j)
    BY <2>2 DEF HoldersIn, WithEntry, Entry
  <2>6. Cardinality(HoldersIn(peers, i) \cup {p})
          = IF i \in old THEN availability[i] ELSE availability[i] + 1
    <3>1. p \in HoldersIn(peers, i) <=> i \in old
      BY <2>2 DEF HoldersIn
    <3>2. /\ IsFiniteSet(HoldersIn(peers, i))
          /\ Cardinality(HoldersIn(peers, i)) = availability[i]
      BY TypeFacts, HoldersFinite DEF Counts
    <3> QED  BY <3>1, <3>2, FS_AddElement
  <2>7. \A j \in Piece : av[j] = IF j = i /\ i \notin old THEN availability[j] + 1
                                                          ELSE availability[j]
    BY TypeFacts DEF add_availability
  <2> HIDE DEF ps, av, old
  <2>8. Counts(av, ps)
    BY <2>5, <2>6, <2>7 DEF Counts
  <2> QED  BY <2>1, <2>3, <2>4, <2>8, SendCounts
<1>6. ASSUME NEW i, NEW b, NEW payload,
             \/ RecvBlock(p, i, b, payload)
             \/ RecvLastBlock(p, i, b, payload)
             \/ RecvCorruptPiece(p, i, b, payload)
      PROVE  Goal
  <2>1. p \in DOMAIN peers
    BY <1>6 DEF RecvBlock, RecvLastBlock, RecvCorruptPiece, Receiving
  <2>2. PeerMap(Answered(p, i, b)) /\ Counts(availability, Answered(p, i, b))
    BY <2>1, AnsweredType, AnsweredCounts
  <2>3. CASE RecvCorruptPiece(p, i, b, payload)
    BY <2>2, <2>3, TypeFacts, UnregisterCounts DEF RecvCorruptPiece, disconnect
  <2>4. CASE RecvBlock(p, i, b, payload) \/ RecvLastBlock(p, i, b, payload)
    BY <2>2, <2>4 DEF RecvBlock, RecvLastBlock
  <2> QED  BY <1>6, <2>3, <2>4
<1> QED  BY <1>1, <1>2, <1>3, <1>4, <1>5, <1>6 DEF Event, RecvPiece

LEMMA ThreadStepCounts ==
    ASSUME TypeOK, Counts(availability, peers), ThreadStep
    PROVE  Counts(availability', peers')
<1> DEFINE Goal == Counts(availability', peers')
<1>1. ASSUME NEW q, CancelPeer(q) \/ FillNextPiece(q) \/ FillRequest(q) PROVE Goal
  <2>1. PICK out, active : peers' = WithEntry(q, peers[q].bitfield, out, active)
    BY <1>1 DEF CancelPeer, FillNextPiece, FillRequest, Pushed
  <2>2. availability' = availability
    BY <1>1 DEF CancelPeer, FillNextPiece, FillRequest
  <2> QED  BY <2>1, <2>2, WithEntryCounts
<1>2. ASSUME NEW q, CancelPeerFails(q) \/ BroadcastHaveFails(q) PROVE Goal
  BY <1>2, TypeFacts, UnregisterCounts DEF CancelPeerFails, BroadcastHaveFails, disconnect
<1>3. CASE CancelDone \/ \E q \in Peer : FillDone(q)
  BY <1>3 DEF CancelDone, FillDone
<1>4. CASE BroadcastHave
  BY <1>4, WithEntryCounts DEF BroadcastHave
<1>5. ASSUME NEW p \in Peer, FillRequestFails(p) PROVE Goal
  <2>1. PICK i, b :
          /\ availability' =
               remove_peer_bitfield(availability, Pushed(p, i, b)[p].bitfield)
          /\ peers' = Erase(Pushed(p, i, b), p)
    BY <1>5 DEF FillRequestFails
  <2>2. p \in DOMAIN peers
    BY <1>5 DEF FillRequestFails, InLoop
  <2>3. /\ Pushed(p, i, b)[p].bitfield = peers[p].bitfield
        /\ Erase(Pushed(p, i, b), p) = Erase(peers, p)
    BY <2>2, WithEntryErase DEF Pushed
  <2> QED  BY <2>1, <2>2, <2>3, TypeFacts, EraseCounts
<1> QED  BY <1>1, <1>2, <1>3, <1>4, <1>5 DEF ThreadStep

\* The histogram is exact after any sequence of BITFIELDs, HAVEs, chokes and
\* disconnections.
THEOREM AvailabilityCorrect == Spec => []AvailabilityExact
<1>1. Init => Counts(availability, peers)
  <2> SUFFICES ASSUME Init, NEW i \in Piece
               PROVE  availability[i] = Cardinality(HoldersIn(peers, i))
    BY DEF Counts
  <2>1. HoldersIn(peers, i) = {} /\ availability[i] = 0
    BY DEF Init, PiecePickerInit, HoldersIn
  <2> QED  BY <2>1, FS_EmptySet
<1>2. LiveInv /\ Counts(availability, peers) /\ [Next]_vars
        => Counts(availability, peers)'
  BY EventCounts, ThreadStepCounts DEF LiveInv, Next, vars, Counts, HoldersIn
<1>3. Counts(availability, peers) => AvailabilityExact
  BY DEF Counts, HoldersIn, AvailabilityExact, Holders
<1>4. OrphanInv => LiveInv
  BY DEF OrphanInv
<1> QED  BY <1>1, <1>2, <1>3, <1>4, OrphanInvariant, PTL DEF Spec

----------------------------------------------------------------------------
(* Rarest first.                                                           *)

\* We have no more pieces than are completed or fully requested.
LEMMA CompletedBound ==
    ASSUME TypeOK
    PROVE  /\ Cardinality(bitfield) \in Nat /\ Cardinality(CompletedOrFull) \in Nat
           /\ Cardinality(bitfield) <= Cardinality(CompletedOrFull)
<1>1. IsFiniteSet(Piece)
  BY NumPiecesPos, FS_Interval DEF Piece
<1>2. CompletedOrFull \in SUBSET Piece /\ bitfield \in SUBSET CompletedOrFull
  BY DEF TypeOK, PieceManagerTypeOK, CompletedOrFull
<1>3. IsFiniteSet(CompletedOrFull)
  BY <1>1, <1>2, FS_Subset
<1> QED  BY <1>2, <1>3, FS_Subset, FS_CardinalityType

\* A piece is picked when a request is sent to a peer without an active one.
LEMMA RarestStep ==
    ASSUME LiveInv, AvailabilityExact, Next, NEW p \in DOMAIN peers \cap DOMAIN peers'
    PROVE  PickIsRarest(p)
<1> DEFINE i == peers'[p].active_piece
<1> USE DEF LiveInv
<1> SUFFICES ASSUME Cardinality(bitfield) >= BootstrapPieces,
                    peers[p].active_piece = NoPiece, i # NoPiece,
                    NEW j \in peers[p].bitfield \ CompletedOrFull
             PROVE  Cardinality(Holders(i)) <= Cardinality(Holders(j))
  BY DEF PickIsRarest
<1>1. FillRequest(p)
  BY EntryStep DEF EntryShrinks
<1>2. i \in PickSet(availability, peers[p].bitfield, CompletedOrFull)
  <2>1. i \in PieceChoices(p)
    BY <1>1, FillRequestEntry
  <2> HIDE DEF i
  <2> QED  BY <2>1 DEF PieceChoices
<1> HIDE DEF i
<1>3. ~(Cardinality(CompletedOrFull) < BootstrapPieces)
  BY CompletedBound, BootstrapAssumption
<1>4. /\ i \in Candidates(peers[p].bitfield, CompletedOrFull)
      /\ \A k \in Candidates(peers[p].bitfield, CompletedOrFull) :
           availability[i] <= availability[k]
  BY <1>2, <1>3 DEF PickSet
<1>5. i \in Piece /\ j \in Piece /\ availability[i] <= availability[j]
  BY <1>4, EntryType DEF Candidates
<1> QED  BY <1>5 DEF AvailabilityExact

\* Past the bootstrap the piece a peer is asked for next is one that the
\* fewest registered peers have: the histogram the picker compares is exact.
THEOREM RarestFirstCorrect == Spec => RarestFirst
<1>1. LiveInv /\ AvailabilityExact /\ [Next]_vars
        => [\A p \in DOMAIN peers \cap DOMAIN peers' : PickIsRarest(p)]_vars
  BY RarestStep
<1>2. OrphanInv => LiveInv
  BY DEF OrphanInv
<1> QED  BY <1>1, <1>2, OrphanInvariant, AvailabilityCorrect, PTL DEF Spec, RarestFirst
=============================================================================
