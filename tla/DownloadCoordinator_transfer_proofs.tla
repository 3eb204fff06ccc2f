----------------- MODULE DownloadCoordinator_transfer_proofs ----------------
(***************************************************************************)
(* Proofs about the transfer of pieces: DownloadCoordinator implements     *)
(* PieceTransfer, and asks for no block twice at a time, whatever the      *)
(* peers send; nobody is blacklisted before a dishonest peer connects; and *)
(* if every peer is honest no piece stays unresolved.                      *)
(***************************************************************************)
EXTENDS DownloadCoordinator_proofs

----------------------------------------------------------------------------
(* What has been collected of a piece.                                     *)

ReceivedOf(st) == {b \in DOMAIN st.blocks : st.blocks[b] = "Received"}

\* The same blocks are collected in st and in new, with the same bytes.
SameBlocks(st, new) ==
    /\ ReceivedOf(new) = ReceivedOf(st)
    /\ new.data = st.data
    /\ new.blocks_received = st.blocks_received

\* jp holds what ip holds, and possibly pieces of which nothing has come.
SameData(ip, jp) ==
    /\ DOMAIN ip \subseteq DOMAIN jp
    /\ \A i \in DOMAIN jp :
         SameBlocks(IF i \in DOMAIN ip THEN ip[i] ELSE FreshPiece(i), jp[i])

LEMMA SameDataReflexive == \A ip : SameData(ip, ip)
  BY DEF SameData, SameBlocks

LEMMA SameDataTransitive ==
    ASSUME NEW ip, NEW jp, NEW kp, SameData(ip, jp), SameData(jp, kp)
    PROVE  SameData(ip, kp)
<1> SUFFICES ASSUME NEW i \in DOMAIN kp
             PROVE  SameBlocks(IF i \in DOMAIN ip THEN ip[i] ELSE FreshPiece(i), kp[i])
  BY DEF SameData
<1>1. SameBlocks(IF i \in DOMAIN jp THEN jp[i] ELSE FreshPiece(i), kp[i])
  BY DEF SameData
<1>2. i \in DOMAIN jp =>
        SameBlocks(IF i \in DOMAIN ip THEN ip[i] ELSE FreshPiece(i), jp[i])
  BY DEF SameData
<1>3. DOMAIN ip \subseteq DOMAIN jp
  BY DEF SameData
<1> QED  BY <1>1, <1>2, <1>3 DEF SameBlocks

\* Only the request marks of a piece are rewritten.
LEMMA MarkSame ==
    ASSUME NEW i, NEW st \in PieceState(i), NEW new \in [Begins(i) -> BlockState],
           \A b \in Begins(i) : new[b] = "Received" <=> st.blocks[b] = "Received"
    PROVE  SameBlocks(st, [st EXCEPT !.blocks = new])
  BY DEF PieceState, SameBlocks, ReceivedOf

\* Failed requests lose nothing.
LEMMA RequestsFailedSame ==
    ASSUME NEW ip, IsPieceMap(ip), NEW out
    PROVE  SameData(ip, RequestsFailed(ip, out))
<1>1. DOMAIN RequestsFailed(ip, out) = DOMAIN ip
  BY DEF RequestsFailed
<1> SUFFICES ASSUME NEW i \in DOMAIN ip
             PROVE  SameBlocks(ip[i], RequestsFailed(ip, out)[i])
  BY <1>1 DEF SameData
<1> DEFINE new == [b \in DOMAIN ip[i].blocks |->
                     IF out[<<i, b>>] > 0 /\ ip[i].blocks[b] = "Requested"
                     THEN "Pending" ELSE ip[i].blocks[b]]
<1>2. ip[i] \in PieceState(i)
  BY DEF IsPieceMap
<1>3. /\ new \in [Begins(i) -> BlockState]
      /\ \A b \in Begins(i) : new[b] = "Received" <=> ip[i].blocks[b] = "Received"
  BY <1>2 DEF PieceState, BlockState
<1>4. RequestsFailed(ip, out)[i] = [ip[i] EXCEPT !.blocks = new]
  BY DEF RequestsFailed
<1> HIDE DEF new
<1> QED  BY <1>2, <1>3, <1>4, MarkSame

\* Starting on a piece.
LEMMA InitPieceSame ==
    ASSUME NEW ip, NEW i
    PROVE  SameData(ip, init_piece_state(ip, i))
<1>1. CASE i \in DOMAIN ip
  BY <1>1, SameDataReflexive DEF init_piece_state
<1>2. CASE i \notin DOMAIN ip
  BY <1>2 DEF init_piece_state, Insert, SameData, SameBlocks
<1> QED  BY <1>1, <1>2

\* Requesting a block that is Pending.
LEMMA RequestBlockSame ==
    ASSUME NEW ip, IsPieceMap(ip), NEW i \in Piece, NEW bf, NEW b,
           IsNextBlock(bf, ip, i, b)
    PROVE  SameData(ip, RequestBlock(ip, i, b))
<1> DEFINE jp == init_piece_state(ip, i)
           st == jp[i]
           new == [st.blocks EXCEPT ![b] = "Requested"]
<1>1. SameData(ip, jp) /\ i \in DOMAIN jp /\ st \in PieceState(i)
  BY InitPieceSame, InitPieceType
<1>2. /\ new \in [Begins(i) -> BlockState]
      /\ \A c \in Begins(i) : new[c] = "Received" <=> st.blocks[c] = "Received"
  BY <1>1 DEF PieceState, BlockState, IsNextBlock, PendingOf
<1>3. SameBlocks(st, [st EXCEPT !.blocks = new])
  <2> HIDE DEF new, st
  <2> QED  BY <1>1, <1>2, MarkSame
<1>4. RequestBlock(ip, i, b) = Insert(ip, i, [st EXCEPT !.blocks = new])
  BY DEF RequestBlock
<1>5. \A j \in DOMAIN ip : j # i => jp[j] = ip[j]
  BY DEF init_piece_state, Insert
<1>6. DOMAIN jp = DOMAIN ip \cup {i}
  BY DEF init_piece_state, Insert
<1>7. st = IF i \in DOMAIN ip THEN ip[i] ELSE FreshPiece(i)
  BY DEF init_piece_state, Insert
<1> HIDE DEF jp, st, new
<1> QED  BY <1>3, <1>4, <1>7 DEF Insert, SameData, SameBlocks

\* Blocks that the loop of fill_request_pipeline strands were not collected.
LEMMA OrphanedSame ==
    ASSUME NEW ip, IsPieceMap(ip), NEW i, NEW k
    PROVE  SameData(ip, Orphaned(ip, i, k))
<1> DEFINE old == ip[i].blocks
           new == [c \in DOMAIN old |-> IF c < k /\ old[c] = "Pending"
                                        THEN "Requested" ELSE old[c]]
<1>1. Orphaned(ip, i, k) = [ip EXCEPT ![i] = [ip[i] EXCEPT !.blocks = new]]
  BY DEF Orphaned
<1>2. ASSUME i \in DOMAIN ip
      PROVE  SameBlocks(ip[i], [ip[i] EXCEPT !.blocks = new])
  <2>1. ip[i] \in PieceState(i)
    BY <1>2 DEF IsPieceMap
  <2>2. /\ new \in [Begins(i) -> BlockState]
        /\ \A b \in Begins(i) : new[b] = "Received" <=> ip[i].blocks[b] = "Received"
    BY <2>1 DEF PieceState, BlockState
  <2> HIDE DEF new
  <2> QED  BY <2>1, <2>2, MarkSame
<1> HIDE DEF new
<1> QED  BY <1>1, <1>2 DEF SameData, SameBlocks

\* Losing a peer loses none of what was collected.
LEMMA UnregisterSame ==
    ASSUME NEW p, NEW av, NEW ip, IsPieceMap(ip), NEW ps,
           unregister_peer(p, av, ip, ps)
    PROVE  SameData(ip, in_progress')
  BY RequestsFailedSame, SameDataReflexive DEF unregister_peer

LEMMA SendSame ==
    ASSUME NEW p, NEW ok \in BOOLEAN, NEW av, NEW ip, IsPieceMap(ip), NEW ps,
           send_message(p, ok, av, ip, ps)
    PROVE  SameData(ip, in_progress')
  BY UnregisterSame, SameDataReflexive DEF send_message, disconnect

----------------------------------------------------------------------------
(* What a step does to what has been collected.                            *)

KeepsData == UNCHANGED <<bitfield, disk>> /\ SameData(in_progress, in_progress')

LEMMA ThreadStepKeeps ==
    ASSUME TypeOK, ThreadStep
    PROVE  KeepsData /\ UNCHANGED blacklist
<1>0. IsPieceMap(in_progress)
  BY TypeFacts
<1>1. UNCHANGED <<bitfield, disk, blacklist>>
  BY DEF ThreadStep, CancelPeer, CancelPeerFails, CancelDone, BroadcastHave,
         BroadcastHaveFails, FillDone, FillNextPiece, FillRequest, FillRequestFails,
         stores
<1>2. CASE UNCHANGED in_progress
  BY <1>1, <1>2, SameDataReflexive DEF KeepsData
<1>3. ASSUME NEW p, NEW av, unregister_peer(p, av, in_progress, peers)
      PROVE  SameData(in_progress, in_progress')
  BY <1>0, <1>3, UnregisterSame
<1>4. ASSUME NEW p \in Peer, FillRequest(p) PROVE SameData(in_progress, in_progress')
  <2>1. p \in DOMAIN peers
    BY <1>4 DEF FillRequest, InLoop
  <2>2. PICK i \in PieceChoices(p) : \E b \in Begins(i) :
          /\ IsNextBlock(bitfield, in_progress, i, b)
          /\ in_progress' = RequestBlock(in_progress, i, b)
    BY <1>4 DEF FillRequest
  <2>3. i \in Piece
    BY <2>1, ChoicesType
  <2> QED  BY <1>0, <2>2, <2>3, RequestBlockSame
<1>5. ASSUME NEW p \in Peer, FillRequestFails(p)
      PROVE  SameData(in_progress, in_progress')
  <2>1. p \in DOMAIN peers
    BY <1>5 DEF FillRequestFails, InLoop
  <2>2. PICK i \in PieceChoices(p) : \E b \in Begins(i) : \E k \in 0 .. PieceLength :
          /\ IsNextBlock(bitfield, in_progress, i, b)
          /\ in_progress' = Orphaned(RequestsFailed(RequestBlock(in_progress, i, b),
                                                    Pushed(p, i, b)[p].outstanding),
                                     i, k)
    BY <1>5 DEF FillRequestFails
  <2>3. PICK b \in Begins(i), k \in 0 .. PieceLength :
          /\ IsNextBlock(bitfield, in_progress, i, b)
          /\ in_progress' = Orphaned(RequestsFailed(RequestBlock(in_progress, i, b),
                                                    Pushed(p, i, b)[p].outstanding),
                                     i, k)
    BY <2>2
  <2> DEFINE jp == RequestBlock(in_progress, i, b)
             kp == RequestsFailed(jp, Pushed(p, i, b)[p].outstanding)
  <2>4. i \in Piece
    BY <2>1, ChoicesType
  <2>5. IsPieceMap(jp) /\ SameData(in_progress, jp)
    BY <1>0, <2>3, <2>4, RequestBlockSame, RequestBlockType
  <2> HIDE DEF jp
  <2>6. IsPieceMap(kp) /\ SameData(jp, kp)
    BY <2>5, RequestsFailedSame, RequestsFailedType
  <2>7. in_progress' = Orphaned(kp, i, k)
    BY <2>3 DEF jp
  <2> HIDE DEF kp
  <2>8. SameData(kp, in_progress')
    BY <2>6, <2>7, OrphanedSame
  <2> QED  BY <2>5, <2>6, <2>8, SameDataTransitive
<1> QED
  BY <1>1, <1>2, <1>3, <1>4, <1>5
     DEF ThreadStep, CancelPeer, CancelPeerFails, CancelDone, BroadcastHave,
         BroadcastHaveFails, FillDone, FillNextPiece, disconnect, KeepsData

LEMMA EventKeeps ==
    ASSUME TypeOK, NEW p \in Peer, Event(p), ~RecvPiece(p)
    PROVE  KeepsData /\ UNCHANGED blacklist
<1>0. IsPieceMap(in_progress)
  BY TypeFacts
<1>1. UNCHANGED <<bitfield, disk, blacklist>>
  BY DEF Event, Handshake, PeerGone, RecvChoke, RecvUnchoke, RecvBitfield, RecvHave,
         stores
<1>2. ASSUME NEW ok \in BOOLEAN, NEW av, NEW ps,
             send_message(p, ok, av, in_progress, ps)
      PROVE  SameData(in_progress, in_progress')
  BY <1>0, <1>2, SendSame
<1>3. CASE Handshake(p)
  BY <1>1, <1>2, <1>3 DEF Handshake, SendOutcome, KeepsData
<1>4. CASE PeerGone(p)
  BY <1>0, <1>1, <1>4, UnregisterSame DEF PeerGone, disconnect, KeepsData
<1>5. CASE RecvChoke(p)
  BY <1>0, <1>1, <1>5, RequestsFailedSame DEF RecvChoke, KeepsData
<1>6. CASE RecvUnchoke(p)
  BY <1>1, <1>6, SameDataReflexive DEF RecvUnchoke, KeepsData
<1>7. ASSUME NEW wanted, NEW av, NEW ps, ExpressInterest(p, wanted, av, ps)
      PROVE  SameData(in_progress, in_progress')
  BY <1>2, <1>7 DEF ExpressInterest, SendOutcome
<1>8. CASE (\E bf \in Bitfields : RecvBitfield(p, bf)) \/ \E i \in Piece : RecvHave(p, i)
  BY <1>1, <1>7, <1>8 DEF RecvBitfield, RecvHave, KeepsData
<1> QED  BY <1>3, <1>4, <1>5, <1>6, <1>8 DEF Event

----------------------------------------------------------------------------
(* blocks_received counts no more than the blocks collected, and a piece   *)
(* in progress has a block that it does not count.                         *)

CountOf(i, st) ==
    /\ st.blocks_received <= Cardinality(ReceivedOf(st))
    /\ st.blocks_received < Cardinality(Begins(i))

Counted(ip) == \A i \in DOMAIN ip : CountOf(i, ip[i])

\* The state block_received starts from.
StateOf(i) == init_piece_state(in_progress, i)[i]

\* Block b of piece i is news.
IsNews(i, b) == b \in Begins(i) /\ StateOf(i).blocks[b] # "Received"

LEMMA FreshCount ==
    ASSUME NEW i \in Piece
    PROVE  CountOf(i, FreshPiece(i)) /\ ReceivedOf(FreshPiece(i)) = {}
<1>1. ReceivedOf(FreshPiece(i)) = {} /\ FreshPiece(i).blocks_received = 0
  BY DEF ReceivedOf, FreshPiece
<1>2. Cardinality(Begins(i)) \in Nat /\ Cardinality(Begins(i)) # 0
  <2>1. i \in Int
    BY PieceInt
  <2> QED  BY <2>1, BeginsFinite, ZeroBegin, FS_EmptySet
<1>3. Cardinality({}) = 0
  BY FS_EmptySet
<1> QED  BY <1>1, <1>2, <1>3 DEF CountOf

LEMMA SameCounted ==
    ASSUME NEW ip, Counted(ip), NEW jp, IsPieceMap(jp), SameData(ip, jp)
    PROVE  Counted(jp)
<1> SUFFICES ASSUME NEW i \in DOMAIN jp PROVE CountOf(i, jp[i])
  BY DEF Counted
<1>1. SameBlocks(IF i \in DOMAIN ip THEN ip[i] ELSE FreshPiece(i), jp[i])
  BY DEF SameData
<1>2. CountOf(i, IF i \in DOMAIN ip THEN ip[i] ELSE FreshPiece(i))
  BY FreshCount DEF Counted, IsPieceMap
<1> QED  BY <1>1, <1>2 DEF SameBlocks, CountOf

\* What is known of the state of a piece, in progress or not.
LEMMA StateFacts ==
    ASSUME TypeOK, Counted(in_progress), NEW i \in Piece
    PROVE  /\ StateOf(i) \in PieceState(i) /\ CountOf(i, StateOf(i))
           /\ StateOf(i) = IF i \in DOMAIN in_progress THEN in_progress[i]
                                                       ELSE FreshPiece(i)
<1>1. StateOf(i) = IF i \in DOMAIN in_progress THEN in_progress[i] ELSE FreshPiece(i)
  BY DEF StateOf, init_piece_state, Insert
<1>2. StateOf(i) \in PieceState(i)
  BY TypeFacts, InitPieceType DEF StateOf
<1> QED  BY <1>1, <1>2, FreshCount DEF Counted

\* The blocks of a piece, and those of them that are collected.
LEMMA ReceivedFinite ==
    ASSUME NEW i \in Piece, NEW st \in PieceState(i)
    PROVE  /\ ReceivedOf(st) \in SUBSET Begins(i)
           /\ IsFiniteSet(ReceivedOf(st)) /\ Cardinality(ReceivedOf(st)) \in Nat
           /\ IsFiniteSet(Begins(i)) /\ Cardinality(Begins(i)) \in Nat
           /\ st.blocks_received \in Nat /\ DOMAIN st.blocks = Begins(i)
<1>1. IsFiniteSet(Begins(i)) /\ Cardinality(Begins(i)) \in Nat
  BY PieceInt, BeginsFinite
<1>2. /\ ReceivedOf(st) \in SUBSET Begins(i) /\ DOMAIN st.blocks = Begins(i)
      /\ st.blocks_received \in Nat
  BY DEF ReceivedOf, PieceState
<1> QED  BY <1>1, <1>2, FS_Subset, FS_CardinalityType

\* Storing a block collects it, and counts it at most once.
LEMMA StoreCount ==
    ASSUME NEW i \in Piece, NEW st \in PieceState(i), NEW b \in Begins(i),
           st.blocks[b] # "Received", NEW payload
    PROVE  LET new == StoreBlock(st, i, b, payload)
           IN  /\ ReceivedOf(new) = ReceivedOf(st) \cup {b}
               /\ Cardinality(ReceivedOf(new)) = Cardinality(ReceivedOf(st)) + 1
               /\ new.blocks_received \in {st.blocks_received, st.blocks_received + 1}
               /\ DOMAIN new.blocks = Begins(i)
<1> DEFINE new == StoreBlock(st, i, b, payload)
<1>1. /\ new.blocks = [st.blocks EXCEPT ![b] = "Received"]
      /\ new.blocks_received \in {st.blocks_received, st.blocks_received + 1}
  BY DEF StoreBlock
<1> HIDE DEF new
<1>2. DOMAIN st.blocks = Begins(i) /\ b \notin ReceivedOf(st)
  BY DEF PieceState, ReceivedOf
<1>3. ReceivedOf(new) = ReceivedOf(st) \cup {b}
  BY <1>1, <1>2 DEF ReceivedOf
<1>4. Cardinality(ReceivedOf(st) \cup {b}) = Cardinality(ReceivedOf(st)) + 1
  BY <1>2, ReceivedFinite, FS_AddElement
<1>5. DOMAIN new.blocks = Begins(i)
  BY <1>1, <1>2
<1> QED  BY <1>1, <1>3, <1>4, <1>5 DEF new

\* block_received stores a block that is news, and otherwise only starts on
\* the piece.
LEMMA ReceiveCases ==
    ASSUME TypeOK, NEW i \in Piece, NEW b, NEW payload
    PROVE  LET new == block_received(in_progress, i, b, payload)
           IN  /\ IsNews(i, b) => new = Insert(in_progress, i,
                                         StoreBlock(StateOf(i), i, b, payload))
               /\ ~IsNews(i, b) => new = init_piece_state(in_progress, i)
<1>1. DOMAIN StateOf(i).blocks = Begins(i)
  BY TypeFacts, InitPieceType DEF StateOf, PieceState
<1> QED  BY <1>1 DEF block_received, IsNews, StateOf

\* The block that completes a piece is the only one that was missing.
LEMMA LastIsMissing ==
    ASSUME TypeOK, Counted(in_progress), NEW i \in Piece, NEW b, NEW payload,
           IsAssembled(block_received(in_progress, i, b, payload)[i])
    PROVE  IsNews(i, b) /\ ReceivedOf(StateOf(i)) = Begins(i) \ {b}
<1> DEFINE st == StateOf(i)
           new == StoreBlock(st, i, b, payload)
<1>1. /\ st \in PieceState(i) /\ CountOf(i, st)
  BY StateFacts
<1>2. IsNews(i, b)
  <2> SUFFICES ASSUME ~IsNews(i, b) PROVE FALSE
    OBVIOUS
  <2>1. IsAssembled(st)
    BY ReceiveCases DEF StateOf
  <2> HIDE DEF st
  <2> QED  BY <1>1, <2>1, ReceivedFinite DEF IsAssembled, CountOf
<1>3. IsAssembled(new)
  <2>1. block_received(in_progress, i, b, payload) = Insert(in_progress, i, new)
    BY <1>2, ReceiveCases
  <2> HIDE DEF new
  <2>2. Insert(in_progress, i, new)[i] = new
    BY DEF Insert
  <2> QED  BY <2>1, <2>2
<1>4. /\ ReceivedOf(new) = ReceivedOf(st) \cup {b}
      /\ Cardinality(ReceivedOf(new)) = Cardinality(ReceivedOf(st)) + 1
      /\ new.blocks_received \in {st.blocks_received, st.blocks_received + 1}
      /\ DOMAIN new.blocks = Begins(i)
  BY <1>1, <1>2, StoreCount DEF IsNews
<1>5. b \in Begins(i) /\ b \notin ReceivedOf(st)
  BY <1>2 DEF IsNews, ReceivedOf
<1> HIDE DEF st, new
<1>6. Cardinality(ReceivedOf(new)) >= Cardinality(Begins(i))
  BY <1>1, <1>3, <1>4, ReceivedFinite DEF IsAssembled, CountOf
<1>7. ReceivedOf(new) = Begins(i)
  <2>1. ReceivedOf(new) \in SUBSET Begins(i) /\ IsFiniteSet(Begins(i))
    BY <1>1, <1>4, <1>5, ReceivedFinite
  <2>2. Cardinality(ReceivedOf(new)) \in Nat /\ Cardinality(Begins(i)) \in Nat
    BY <1>1, <1>4, ReceivedFinite
  <2> QED  BY <1>6, <2>1, <2>2, FS_Subset
<1> QED  BY <1>2, <1>4, <1>5, <1>7 DEF st

----------------------------------------------------------------------------
(* A PIECE message, as far as pieces are concerned.                        *)

\* A block is collected, and its piece is still incomplete.
Collects(p, i, b, payload) ==
    /\ p \in DOMAIN peers
    /\ i \notin bitfield /\ IsNews(i, b) /\ MaySend(p, i, b, payload)
    /\ in_progress' = Insert(in_progress, i, StoreBlock(StateOf(i), i, b, payload))
    /\ ~IsAssembled(StoreBlock(StateOf(i), i, b, payload))
    /\ UNCHANGED <<bitfield, disk, blacklist>>

\* The last block of a piece has come: the piece is ours, or thrown away.
Resolves(p, i, b, payload) ==
    /\ p \in DOMAIN peers
    /\ i \notin bitfield /\ IsNews(i, b) /\ MaySend(p, i, b, payload)
    /\ ReceivedOf(StateOf(i)) = Begins(i) \ {b}
    /\ SameData(Erase(in_progress, i), in_progress')
    /\ \/ /\ StoreBlock(StateOf(i), i, b, payload).data = Offsets(i)
          /\ bitfield' = bitfield \cup {i}
          /\ disk' \in {disk, [disk EXCEPT ![i] = "good"]}
          /\ UNCHANGED blacklist
       \/ /\ StoreBlock(StateOf(i), i, b, payload).data # Offsets(i)
          /\ blacklist' = blacklist \cup {p}
          /\ UNCHANGED <<bitfield, disk>>

\* Erasing a piece undoes block_received.
LEMMA EraseReceived ==
    ASSUME NEW ip, NEW i, NEW b, NEW payload
    PROVE  Erase(block_received(ip, i, b, payload), i) = Erase(ip, i)
  BY DEF block_received, init_piece_state, Insert, Erase

LEMMA EraseMap ==
    ASSUME NEW ip, IsPieceMap(ip), NEW i
    PROVE  IsPieceMap(Erase(ip, i))
  BY DEF IsPieceMap, Erase

LEMMA RecvBlockCases ==
    ASSUME TypeOK, NEW p \in Peer, NEW i \in Piece \cup {NumPieces}, NEW b, NEW payload,
           RecvBlock(p, i, b, payload)
    PROVE  (KeepsData /\ UNCHANGED blacklist)
           \/ (i \in Piece /\ Collects(p, i, b, payload))
<1>1. /\ UNCHANGED <<bitfield, disk, blacklist>> /\ MaySend(p, i, b, payload)
      /\ p \in DOMAIN peers
  BY DEF RecvBlock, Receiving, stores
<1>2. CASE i \in bitfield
  BY <1>1, <1>2, SameDataReflexive DEF RecvBlock, KeepsData
<1>3. CASE i \notin bitfield
  <2>1. /\ in_progress' = block_received(in_progress, i, b, payload)
        /\ ~IsAssembled(block_received(in_progress, i, b, payload)[i])
    BY <1>3 DEF RecvBlock
  <2>2. i \in Piece
    BY <2>1, NotAssembledInRange
  <2>3. CASE IsNews(i, b)
    <3> DEFINE new == StoreBlock(StateOf(i), i, b, payload)
    <3>1. in_progress' = Insert(in_progress, i, new)
      BY <2>1, <2>2, <2>3, ReceiveCases
    <3>2. Insert(in_progress, i, new)[i] = new
      BY DEF Insert
    <3>3. ~IsAssembled(new)
      BY <2>1, <3>1, <3>2
    <3> QED  BY <1>1, <1>3, <2>2, <2>3, <3>1, <3>3 DEF Collects
  <2>4. CASE ~IsNews(i, b)
    <3>1. in_progress' = init_piece_state(in_progress, i)
      BY <2>1, <2>2, <2>4, ReceiveCases
    <3> QED  BY <1>1, <3>1, InitPieceSame DEF KeepsData
  <2> QED  BY <2>3, <2>4
<1> QED  BY <1>2, <1>3

LEMMA RecvLastBlockCases ==
    ASSUME TypeOK, Counted(in_progress), NEW p \in Peer, NEW i, NEW b, NEW payload,
           RecvLastBlock(p, i, b, payload)
    PROVE  i \in Piece /\ Resolves(p, i, b, payload)
<1> DEFINE ip == block_received(in_progress, i, b, payload)
<1>1. /\ i \in Piece /\ i \notin bitfield /\ IsAssembled(ip[i])
      /\ ip[i].data = Offsets(i) /\ MaySend(p, i, b, payload)
      /\ bitfield' = bitfield \cup {i} /\ UNCHANGED blacklist
      /\ disk' \in write_piece(i, ip[i].data) /\ in_progress' = Erase(ip, i)
      /\ p \in DOMAIN peers
  BY DEF RecvLastBlock, Receiving, validate_piece
<1>2. SameData(Erase(in_progress, i), in_progress')
  BY <1>1, EraseReceived, SameDataReflexive
<1>3. disk' \in {disk, [disk EXCEPT ![i] = "good"]}
  <2> HIDE DEF ip
  <2> QED  BY <1>1 DEF write_piece
<1>4. IsNews(i, b) /\ ReceivedOf(StateOf(i)) = Begins(i) \ {b}
  BY <1>1, LastIsMissing
<1>5. StoreBlock(StateOf(i), i, b, payload).data = Offsets(i)
  <2>1. ip = Insert(in_progress, i, StoreBlock(StateOf(i), i, b, payload))
    BY <1>1, <1>4, ReceiveCases
  <2> HIDE DEF ip
  <2> QED  BY <1>1, <2>1 DEF Insert
<1> HIDE DEF ip
<1> QED  BY <1>1, <1>2, <1>3, <1>4, <1>5 DEF Resolves

LEMMA RecvCorruptPieceCases ==
    ASSUME TypeOK, Counted(in_progress), NEW p \in Peer,
           NEW i \in Piece \cup {NumPieces}, NEW b, NEW payload,
           RecvCorruptPiece(p, i, b, payload)
    PROVE  \/ KeepsData /\ p \in DOMAIN peers \ Honest
           \/ i \in Piece /\ Resolves(p, i, b, payload)
<1> DEFINE ip == block_received(in_progress, i, b, payload)
<1>1. /\ i \notin bitfield /\ IsAssembled(ip[i])
      /\ ~(i \in Piece /\ ip[i].data = Offsets(i)) /\ MaySend(p, i, b, payload)
      /\ blacklist' = blacklist \cup {p} /\ UNCHANGED <<bitfield, disk>>
      /\ unregister_peer(p, availability, Erase(ip, i), Answered(p, i, b))
      /\ p \in DOMAIN peers
  BY DEF RecvCorruptPiece, Receiving, validate_piece, disconnect
<1>2. SameData(Erase(in_progress, i), in_progress')
  <2>1. Erase(ip, i) = Erase(in_progress, i)
    BY EraseReceived
  <2> HIDE DEF ip
  <2> QED  BY <1>1, <2>1, TypeFacts, EraseMap, UnregisterSame
<1>3. CASE i \notin Piece
  <2>1. i \notin DOMAIN in_progress
    BY <1>3, TypeFacts DEF IsPieceMap
  <2>2. SameData(in_progress, in_progress')
    BY <1>2, <2>1 DEF Erase, SameData
  <2>3. p \notin Honest
    BY <1>1, <1>3 DEF MaySend, BlockId
  <2> QED  BY <1>1, <2>2, <2>3 DEF KeepsData
<1>4. CASE i \in Piece
  <2>1. IsNews(i, b) /\ ReceivedOf(StateOf(i)) = Begins(i) \ {b}
    BY <1>1, <1>4, LastIsMissing
  <2>2. StoreBlock(StateOf(i), i, b, payload).data # Offsets(i)
    <3>1. ip = Insert(in_progress, i, StoreBlock(StateOf(i), i, b, payload))
      BY <1>4, <2>1, ReceiveCases
    <3> HIDE DEF ip
    <3> QED  BY <1>1, <1>4, <3>1 DEF Insert
  <2> HIDE DEF ip
  <2> QED  BY <1>1, <1>2, <1>4, <2>1, <2>2 DEF Resolves
<1> QED  BY <1>3, <1>4

\* Every step keeps what was collected, collects a block, or resolves a
\* piece.  Only a PIECE message of a dishonest peer, or one that resolves a
\* piece, changes the blacklist.
LEMMA TransferStep ==
    ASSUME TypeOK, Counted(in_progress), Next
    PROVE  \/ KeepsData /\ (UNCHANGED blacklist \/ DOMAIN peers \ Honest # {})
           \/ \E p \in Peer, i \in Piece, b \in 0 .. PieceLength,
                 payload \in PayloadOf(MaxPayload) :
                   Collects(p, i, b, payload) \/ Resolves(p, i, b, payload)
<1>1. CASE ThreadStep
  BY <1>1, ThreadStepKeeps
<1>2. ASSUME NEW p \in Peer, Event(p), ~RecvPiece(p)
      PROVE  KeepsData /\ UNCHANGED blacklist
  BY <1>2, EventKeeps
<1>3. ASSUME NEW p \in Peer, RecvPiece(p)
      PROVE  \/ KeepsData /\ (UNCHANGED blacklist \/ DOMAIN peers \ Honest # {})
             \/ \E i \in Piece, b \in 0 .. PieceLength,
                   payload \in PayloadOf(MaxPayload) :
                     Collects(p, i, b, payload) \/ Resolves(p, i, b, payload)
  <2>1. PICK i \in Piece \cup {NumPieces}, b \in 0 .. PieceLength,
             payload \in PayloadOf(MaxPayload) :
               \/ RecvBlock(p, i, b, payload)
               \/ RecvLastBlock(p, i, b, payload)
               \/ RecvCorruptPiece(p, i, b, payload)
    BY <1>3 DEF RecvPiece
  <2> QED  BY <2>1, RecvBlockCases, RecvLastBlockCases, RecvCorruptPieceCases
<1> QED  BY <1>1, <1>2, <1>3 DEF Next

\* Every step keeps the counters right.
LEMMA CountedStep ==
    ASSUME TypeOK, Counted(in_progress), Next
    PROVE  Counted(in_progress')
<1>0. IsPieceMap(in_progress')
  BY NextType DEF TypeOK, PieceManagerTypeOK
<1>1. CASE KeepsData
  BY <1>0, <1>1, SameCounted DEF KeepsData
<1>2. ASSUME NEW p, NEW i \in Piece, NEW b, NEW payload, Collects(p, i, b, payload)
      PROVE  Counted(in_progress')
  <2> DEFINE st == StateOf(i)
             new == StoreBlock(st, i, b, payload)
  <2>1. /\ b \in Begins(i) /\ st.blocks[b] # "Received" /\ ~IsAssembled(new)
        /\ in_progress' = Insert(in_progress, i, new)
    BY <1>2 DEF Collects, IsNews
  <2>2. st \in PieceState(i) /\ CountOf(i, st)
    BY StateFacts
  <2> HIDE DEF st
  <2>3. /\ Cardinality(ReceivedOf(new)) = Cardinality(ReceivedOf(st)) + 1
        /\ new.blocks_received \in {st.blocks_received, st.blocks_received + 1}
        /\ DOMAIN new.blocks = Begins(i)
    BY <2>1, <2>2, StoreCount
  <2> HIDE DEF new
  <2>4. CountOf(i, new)
    BY <2>1, <2>2, <2>3, ReceivedFinite DEF CountOf, IsAssembled
  <2> QED  BY <2>1, <2>4 DEF Counted, Insert
<1>3. ASSUME NEW p, NEW i \in Piece, NEW b, NEW payload, Resolves(p, i, b, payload)
      PROVE  Counted(in_progress')
  <2>1. Counted(Erase(in_progress, i))
    BY DEF Counted, Erase
  <2> QED  BY <1>0, <1>3, <2>1, SameCounted DEF Resolves
<1> QED  BY <1>1, <1>2, <1>3, TransferStep

LEMMA CountInvariant == Spec => []Counted(in_progress)
<1>1. Init => Counted(in_progress)
  BY DEF Init, PieceManagerInit, Counted
<1>2. TypeOK /\ Counted(in_progress) /\ [Next]_vars => Counted(in_progress)'
  BY CountedStep DEF vars, Counted, CountOf
<1> QED  BY <1>1, <1>2, TypeCorrect, PTL DEF Spec

----------------------------------------------------------------------------
(* The refinement.  HeldIn(ip) are the blocks collected in ip.             *)

HeldIn(ip) == {r \in BlockId : r[1] \in DOMAIN ip /\ r[2] \in ReceivedOf(ip[r[1]])}

LEMMA HeldIs ==
    /\ TypeOK => HeldBlocks = HeldIn(in_progress)
    /\ TypeOK' => HeldBlocks' = HeldIn(in_progress')
<1>1. ASSUME NEW ip, IsPieceMap(ip)
      PROVE  HeldIn(ip) = {r \in BlockId : r[1] \in DOMAIN ip
                                           /\ ip[r[1]].blocks[r[2]] = "Received"}
  <2>1. ASSUME NEW r \in BlockId, r[1] \in DOMAIN ip
        PROVE  DOMAIN ip[r[1]].blocks = Begins(r[1]) /\ r[2] \in Begins(r[1])
    <3>1. ip[r[1]] \in PieceState(r[1])
      BY <1>1, <2>1 DEF IsPieceMap
    <3> QED  BY <3>1 DEF PieceState, BlockId
  <2> QED  BY <2>1 DEF HeldIn, ReceivedOf
<1>2. TypeOK => IsPieceMap(in_progress)
  BY TypeFacts
<1>3. TypeOK' => IsPieceMap(in_progress')
  BY DEF TypeOK, PieceManagerTypeOK
<1> QED  BY <1>1, <1>2, <1>3 DEF HeldBlocks

LEMMA SameHeld ==
    ASSUME NEW ip, NEW jp, IsPieceMap(jp), SameData(ip, jp)
    PROVE  HeldIn(jp) = HeldIn(ip)
<1>1. ASSUME NEW i \in DOMAIN jp
      PROVE  ReceivedOf(jp[i]) = IF i \in DOMAIN ip THEN ReceivedOf(ip[i]) ELSE {}
  <2>1. SameBlocks(IF i \in DOMAIN ip THEN ip[i] ELSE FreshPiece(i), jp[i])
    BY DEF SameData
  <2>2. ReceivedOf(FreshPiece(i)) = {}
    BY FreshCount DEF IsPieceMap
  <2> QED  BY <2>1, <2>2 DEF SameBlocks
<1>2. DOMAIN ip \subseteq DOMAIN jp
  BY DEF SameData
<1> QED  BY <1>1, <1>2 DEF HeldIn

\* The blocks of a piece that are collected.
LEMMA HeldOf ==
    ASSUME TypeOK, NEW i \in Piece, NEW b \in Begins(i)
    PROVE  <<i, b>> \in HeldIn(in_progress) <=> b \in ReceivedOf(StateOf(i))
<1>1. <<i, b>> \in BlockId
  BY BlockIdIntro
<1>2. StateOf(i) = IF i \in DOMAIN in_progress THEN in_progress[i] ELSE FreshPiece(i)
  BY DEF StateOf, init_piece_state, Insert
<1>3. ReceivedOf(FreshPiece(i)) = {}
  BY FreshCount
<1> QED  BY <1>1, <1>2, <1>3 DEF HeldIn

\* A block that is collected is a Collect step of the abstract specification.
LEMMA CollectStep ==
    ASSUME TypeOK, TypeOK', NEW p, NEW i \in Piece, NEW b, NEW payload,
           Collects(p, i, b, payload)
    PROVE  Transfer!Collect(<<i, b>>) /\ <<i, b>> \in BlockId
<1> DEFINE st == StateOf(i)
           new == StoreBlock(st, i, b, payload)
<1>1. /\ b \in Begins(i) /\ st.blocks[b] # "Received" /\ i \notin bitfield
      /\ in_progress' = Insert(in_progress, i, new) /\ UNCHANGED <<bitfield, disk>>
  BY DEF Collects, IsNews
<1>2. st \in PieceState(i)
  BY TypeFacts, InitPieceType DEF StateOf
<1>3. ReceivedOf(new) = ReceivedOf(st) \cup {b}
  BY <1>1, <1>2, StoreCount
<1>4. <<i, b>> \in BlockId /\ <<i, b>> \notin HeldIn(in_progress)
  BY <1>1, BlockIdIntro, HeldOf DEF ReceivedOf
<1>5. HeldIn(in_progress') = HeldIn(in_progress) \cup {<<i, b>>}
  <2> HIDE DEF new, st
  <2> SUFFICES ASSUME NEW r \in BlockId
               PROVE  r \in HeldIn(in_progress')
                        <=> r \in HeldIn(in_progress) \/ r = <<i, b>>
    BY <1>4 DEF HeldIn
  <2>1. r = <<r[1], r[2]>> /\ r[1] \in Piece /\ r[2] \in Begins(r[1])
    BY DEF BlockId
  <2>2. CASE r[1] = i
    <3>1. r \in HeldIn(in_progress') <=> r[2] \in ReceivedOf(st) \cup {b}
      BY <1>1, <1>3, <2>2 DEF HeldIn, Insert
    <3>2. r \in HeldIn(in_progress) <=> r[2] \in ReceivedOf(st)
      BY <2>1, <2>2, HeldOf DEF st
    <3> QED  BY <2>1, <2>2, <3>1, <3>2
  <2>3. CASE r[1] # i
    <3>1. r[1] \in DOMAIN in_progress' <=> r[1] \in DOMAIN in_progress
      BY <1>1, <2>3 DEF Insert
    <3>2. r[1] \in DOMAIN in_progress => in_progress'[r[1]] = in_progress[r[1]]
      BY <1>1, <2>3 DEF Insert
    <3>3. r # <<i, b>>
      BY <2>3
    <3> QED  BY <3>1, <3>2, <3>3 DEF HeldIn
  <2> QED  BY <2>2, <2>3
<1> QED  BY <1>1, <1>4, <1>5, HeldIs DEF Transfer!Collect

\* A piece that is resolved is an Obtain or a Discard step of the abstract
\* specification: the block that resolves it was the only one missing.
LEMMA ResolveStep ==
    ASSUME TypeOK, TypeOK', NEW p, NEW i \in Piece, NEW b, NEW payload,
           Resolves(p, i, b, payload)
    PROVE  Transfer!Obtain(i) \/ Transfer!Discard(i)
<1>1. /\ b \in Begins(i) /\ i \notin bitfield
      /\ ReceivedOf(StateOf(i)) = Begins(i) \ {b}
      /\ SameData(Erase(in_progress, i), in_progress')
  BY DEF Resolves, IsNews
<1>2. \A c \in Begins(i) : <<i, c>> \in HeldIn(in_progress) <=> c # b
  BY <1>1, HeldOf
<1>3. \A r \in Transfer!BlocksOf(i) : r = <<i, r[2]>> /\ r[2] \in Begins(i)
  BY DEF Transfer!BlocksOf, BlockId
<1>4. <<i, b>> \in Transfer!BlocksOf(i)
  BY <1>1, BlockIdIntro DEF Transfer!BlocksOf
<1>5. Transfer!BlocksOf(i) \ HeldBlocks = {<<i, b>>}
  BY <1>1, <1>2, <1>3, <1>4, HeldIs
<1>6. Transfer!OneMissing(i)
  BY <1>4, <1>5 DEF Transfer!OneMissing, Transfer!BlocksOf
<1>7. HeldBlocks' = HeldBlocks \ Transfer!BlocksOf(i)
  <2>1. HeldIn(in_progress') = HeldIn(Erase(in_progress, i))
    BY <1>1, SameHeld DEF TypeOK, PieceManagerTypeOK
  <2>2. HeldIn(Erase(in_progress, i)) = HeldIn(in_progress) \ Transfer!BlocksOf(i)
    BY DEF HeldIn, Erase, Transfer!BlocksOf
  <2> QED  BY <2>1, <2>2, HeldIs
<1>8. CASE bitfield' = bitfield \cup {i} /\ disk' \in {disk, [disk EXCEPT ![i] = "good"]}
  BY <1>1, <1>6, <1>7, <1>8 DEF Transfer!Obtain
<1>9. CASE UNCHANGED <<bitfield, disk>>
  BY <1>1, <1>6, <1>7, <1>9 DEF Transfer!Discard
<1> QED  BY <1>8, <1>9 DEF Resolves

\* The coordinator implements PieceTransfer, for any peers: every handler
\* collects a block, resolves a piece whose last block it has just received,
\* or changes nothing that PieceTransfer speaks of.
THEOREM TransferRefined == Spec => ImplementsPieceTransfer
<1>1. Init => Transfer!Init
  BY DEF Init, PieceManagerInit, Transfer!Init, HeldBlocks
<1>2. TypeOK /\ TypeOK' /\ Counted(in_progress) /\ [Next]_vars
        => [Transfer!Next]_<<bitfield, HeldBlocks, disk>>
  <2> SUFFICES ASSUME TypeOK, TypeOK', Counted(in_progress), [Next]_vars
               PROVE  [Transfer!Next]_<<bitfield, HeldBlocks, disk>>
    OBVIOUS
  <2>1. CASE UNCHANGED vars
    BY <2>1 DEF vars, HeldBlocks
  <2>2. CASE KeepsData
    <3>1. HeldIn(in_progress') = HeldIn(in_progress)
      BY <2>2, SameHeld DEF KeepsData, TypeOK, PieceManagerTypeOK
    <3>2. HeldBlocks' = HeldBlocks
      BY <3>1, HeldIs
    <3> QED  BY <2>2, <3>2 DEF KeepsData
  <2>3. ASSUME NEW p, NEW i \in Piece, NEW b, NEW payload, Collects(p, i, b, payload)
        PROVE  Transfer!Next
    BY <2>3, CollectStep DEF Transfer!Next
  <2>4. ASSUME NEW p, NEW i \in Piece, NEW b, NEW payload, Resolves(p, i, b, payload)
        PROVE  Transfer!Next
    BY <2>4, ResolveStep DEF Transfer!Next
  <2> QED  BY <2>1, <2>2, <2>3, <2>4, TransferStep
<1> QED
  BY <1>1, <1>2, TypeCorrect, CountInvariant, PTL
     DEF Spec, ImplementsPieceTransfer, Transfer!Spec

----------------------------------------------------------------------------
(* Honest peers.  As long as nobody else has connected, blocks_received is *)
(* the number of blocks collected, and the buffer holds the right bytes of *)
(* exactly those.                                                          *)

NoOffender == \A q \in Peer \ Honest : conn[q] = "New"

\* The bytes of block b of piece i.
Span(i, b) == {o \in Offsets(i) : b <= o /\ o < b + BlockSize}

ExactOf(i, st) ==
    /\ st.blocks_received = Cardinality(ReceivedOf(st))
    /\ st.data = {o \in Offsets(i) : \E b \in ReceivedOf(st) : o \in Span(i, b)}

Exact(ip) == \A i \in DOMAIN ip : ExactOf(i, ip[i])

\* The blocks of a piece cover it.
LEMMA SpansCover ==
    ASSUME NEW i \in Piece, NEW o \in Offsets(i)
    PROVE  \E b \in Begins(i) : o \in Span(i, b)
<1>1. o \in Int /\ 0 <= o /\ get_piece_length(i) \in Int /\ o <= get_piece_length(i) - 1
  BY PieceInt, LengthType DEF Offsets
<1> DEFINE q == o \div BlockSize
           b == BlockSize * q
<1>2. /\ q \in Nat /\ b \in Nat /\ b <= o /\ o < b + BlockSize
  BY <1>1, SizeAssumption
<1>3. b % BlockSize = 0
  <2>1. q \in Nat
    BY <1>2
  <2> HIDE DEF q
  <2> QED  BY <2>1, SizeAssumption
<1> HIDE DEF b
<1>4. b \in Begins(i)
  BY <1>1, <1>2, <1>3 DEF Begins, Offsets
<1> QED  BY <1>2, <1>4 DEF Span

\* What an honest peer sends fits, is counted, and is its block.
LEMMA HonestStore ==
    ASSUME NEW i \in Piece, NEW st \in PieceState(i), ExactOf(i, st),
           NEW b \in Begins(i), st.blocks[b] # "Received",
           NEW p \in Honest, NEW payload, MaySend(p, i, b, payload)
    PROVE  ExactOf(i, StoreBlock(st, i, b, payload))
<1> DEFINE new == StoreBlock(st, i, b, payload)
           len == get_piece_length(i)
<1>1. b \in Int /\ 0 <= b /\ b <= len - 1 /\ len \in Int
  BY PieceInt, LengthType DEF Begins, Offsets
<1>2. /\ payload.good
      /\ payload.len = IF b + BlockSize <= len THEN BlockSize ELSE len - b
  BY DEF MaySend
<1>3. b + payload.len <= len /\ payload.len \in Int
  BY <1>1, <1>2, SizeAssumption
<1>4. /\ new.data = st.data \cup (b .. b + payload.len - 1)
      /\ new.blocks_received = st.blocks_received + 1
  BY <1>2, <1>3 DEF StoreBlock, CopyBytes
<1>5. b .. b + payload.len - 1 = Span(i, b)
  BY <1>1, <1>2, <1>3, SizeAssumption DEF Span, Offsets
<1>6. /\ ReceivedOf(new) = ReceivedOf(st) \cup {b}
      /\ Cardinality(ReceivedOf(new)) = Cardinality(ReceivedOf(st)) + 1
  BY StoreCount
<1> HIDE DEF new
<1>7. Span(i, b) \subseteq Offsets(i)
  BY DEF Span
<1>8. new.data = {o \in Offsets(i) : \E c \in ReceivedOf(new) : o \in Span(i, c)}
  BY <1>4, <1>5, <1>6, <1>7 DEF ExactOf
<1> QED  BY <1>4, <1>6, <1>8 DEF ExactOf, new

LEMMA FreshExact ==
    ASSUME NEW i \in Piece
    PROVE  ExactOf(i, FreshPiece(i))
<1>1. /\ ReceivedOf(FreshPiece(i)) = {} /\ FreshPiece(i).blocks_received = 0
      /\ FreshPiece(i).data = {}
  BY FreshCount DEF FreshPiece
<1> QED  BY <1>1, FS_EmptySet DEF ExactOf

LEMMA SameExact ==
    ASSUME NEW ip, Exact(ip), NEW jp, IsPieceMap(jp), SameData(ip, jp)
    PROVE  Exact(jp)
<1> SUFFICES ASSUME NEW i \in DOMAIN jp PROVE ExactOf(i, jp[i])
  BY DEF Exact
<1>1. SameBlocks(IF i \in DOMAIN ip THEN ip[i] ELSE FreshPiece(i), jp[i])
  BY DEF SameData
<1>2. ExactOf(i, IF i \in DOMAIN ip THEN ip[i] ELSE FreshPiece(i))
  BY FreshExact DEF Exact, IsPieceMap
<1> QED  BY <1>1, <1>2 DEF SameBlocks, ExactOf

LEMMA StateExact ==
    ASSUME TypeOK, Exact(in_progress), NEW i \in Piece
    PROVE  StateOf(i) \in PieceState(i) /\ ExactOf(i, StateOf(i))
<1>1. StateOf(i) = IF i \in DOMAIN in_progress THEN in_progress[i] ELSE FreshPiece(i)
  BY DEF StateOf, init_piece_state, Insert
<1>2. StateOf(i) \in PieceState(i)
  BY TypeFacts, InitPieceType DEF StateOf
<1> QED  BY <1>1, <1>2, FreshExact DEF Exact

\* The last block of a piece, from an honest peer, makes the piece right.
LEMMA HonestResolve ==
    ASSUME TypeOK, Exact(in_progress), NEW p \in Honest, NEW i \in Piece, NEW b,
           NEW payload, Resolves(p, i, b, payload)
    PROVE  UNCHANGED blacklist
<1> DEFINE new == StoreBlock(StateOf(i), i, b, payload)
<1>1. /\ b \in Begins(i) /\ StateOf(i).blocks[b] # "Received"
      /\ MaySend(p, i, b, payload) /\ ReceivedOf(StateOf(i)) = Begins(i) \ {b}
  BY DEF Resolves, IsNews
<1>2. ExactOf(i, new)
  BY <1>1, StateExact, HonestStore
<1>3. ReceivedOf(new) = Begins(i)
  <2>1. ReceivedOf(new) = ReceivedOf(StateOf(i)) \cup {b}
    BY <1>1, StateExact, StoreCount
  <2> QED  BY <1>1, <2>1
<1> HIDE DEF new
<1>4. new.data = Offsets(i)
  BY <1>2, <1>3, SpansCover DEF ExactOf
<1> QED  BY <1>4 DEF Resolves, new

LEMMA ExactStep ==
    ASSUME LiveInv, NoOffender, Counted(in_progress), Exact(in_progress), Next
    PROVE  Exact(in_progress') /\ UNCHANGED blacklist
<1> USE DEF LiveInv
<1>h. DOMAIN peers \subseteq Honest
  BY RegisteredIsActive DEF NoOffender
<1>0. IsPieceMap(in_progress')
  BY NextType DEF TypeOK, PieceManagerTypeOK
<1>1. CASE KeepsData /\ UNCHANGED blacklist
  BY <1>0, <1>1, SameExact DEF KeepsData
<1>2. ASSUME NEW p \in Peer, NEW i \in Piece, NEW b, NEW payload,
             Collects(p, i, b, payload)
      PROVE  Exact(in_progress') /\ UNCHANGED blacklist
  <2> DEFINE new == StoreBlock(StateOf(i), i, b, payload)
  <2>1. /\ b \in Begins(i) /\ StateOf(i).blocks[b] # "Received"
        /\ MaySend(p, i, b, payload)
        /\ in_progress' = Insert(in_progress, i, new) /\ UNCHANGED blacklist
        /\ p \in Honest
    BY <1>h, <1>2 DEF Collects, IsNews
  <2>2. ExactOf(i, new)
    BY <2>1, StateExact, HonestStore
  <2> HIDE DEF new
  <2> QED  BY <2>1, <2>2 DEF Exact, Insert
<1>3. ASSUME NEW p \in Peer, NEW i \in Piece, NEW b, NEW payload,
             Resolves(p, i, b, payload)
      PROVE  Exact(in_progress') /\ UNCHANGED blacklist
  <2>1. Exact(Erase(in_progress, i))
    BY DEF Exact, Erase
  <2>2. Exact(in_progress')
    BY <1>0, <1>3, <2>1, SameExact DEF Resolves
  <2>3. p \in Honest
    BY <1>h, <1>3 DEF Resolves
  <2> QED  BY <1>3, <2>2, <2>3, HonestResolve
<1> QED  BY <1>h, <1>1, <1>2, <1>3, TransferStep

\* A connection that was opened is never new again.
LEMMA NewIsNew ==
    ASSUME TypeOK, Next, NEW q \in Peer, conn'[q] = "New"
    PROVE  conn[q] = "New"
<1>1. ASSUME NEW p \in Peer, \/ conn' = conn
                             \/ conn' = [conn EXCEPT ![p] = "Active"]
                             \/ conn' = [conn EXCEPT ![p] = "Disconnected"]
      PROVE  conn[q] = "New"
  BY <1>1 DEF TypeOK
<1>2. ASSUME NEW p \in Peer, RecvPiece(p)
      PROVE  conn' = conn \/ conn' = [conn EXCEPT ![p] = "Disconnected"]
  BY <1>2 DEF RecvPiece, RecvBlock, RecvLastBlock, RecvCorruptPiece, disconnect
<1>3. ASSUME NEW p \in Peer, Event(p), ~RecvPiece(p)
      PROVE  \/ conn' = conn
             \/ conn' = [conn EXCEPT ![p] = "Active"]
             \/ conn' = [conn EXCEPT ![p] = "Disconnected"]
  BY <1>3
     DEF Event, Handshake, PeerGone, RecvChoke, RecvUnchoke, RecvBitfield, RecvHave,
         ExpressInterest, send_message, disconnect
<1>4. ASSUME ThreadStep
      PROVE  conn' = conn \/ \E p \in Peer : conn' = [conn EXCEPT ![p] = "Disconnected"]
  BY <1>4
     DEF ThreadStep, CancelPeer, CancelPeerFails, CancelDone, BroadcastHave,
         BroadcastHaveFails, FillDone, FillNextPiece, FillRequest, FillRequestFails,
         disconnect
<1> QED  BY <1>1, <1>2, <1>3, <1>4 DEF Next

HonestInv == NoOffender => Exact(in_progress) /\ blacklist = {}

LEMMA HonestInvariant == Spec => []HonestInv
<1>1. Init => HonestInv
  BY DEF Init, PieceManagerInit, Exact, HonestInv
<1>2. LiveInv /\ Counted(in_progress) /\ HonestInv /\ [Next]_vars => HonestInv'
  <2> SUFFICES ASSUME LiveInv, Counted(in_progress), HonestInv, [Next]_vars, NoOffender'
               PROVE  Exact(in_progress') /\ blacklist' = {}
    BY DEF HonestInv
  <2>1. CASE Next
    <3>1. NoOffender
      BY <2>1, NewIsNew DEF NoOffender, LiveInv
    <3> QED  BY <2>1, <3>1, ExactStep DEF HonestInv
  <2>2. CASE UNCHANGED vars
    BY <2>2 DEF vars, HonestInv, NoOffender
  <2> QED  BY <2>1, <2>2
<1>3. OrphanInv => LiveInv
  BY DEF OrphanInv
<1> QED  BY <1>1, <1>2, <1>3, OrphanInvariant, CountInvariant, PTL DEF Spec

\* The engine itself never spoils a piece: nobody is blacklisted before a peer
\* that may send wrong bytes has connected, whatever the honest peers' order
\* of blocks, late answers, chokes, duplicates and dropped connections.
THEOREM NobodyBlacklisted == Spec => []BlacklistNeedsOffender
<1>1. TypeOK /\ HonestInv => BlacklistNeedsOffender
  BY DEF HonestInv, NoOffender, BlacklistNeedsOffender
<1> QED  BY <1>1, HonestInvariant, TypeCorrect, PTL

\* With honest peers a piece whose blocks have all come is completed at once:
\* none stays in progress with nothing left to ask for.
THEOREM HonestResolved ==
    ASSUME Honest = Peer
    PROVE  Spec => []FullyReceivedIsResolved
<1>1. TypeOK /\ Counted(in_progress) /\ HonestInv => FullyReceivedIsResolved
  <2> SUFFICES ASSUME TypeOK, Counted(in_progress), HonestInv, NEW i \in DOMAIN in_progress
               PROVE  \E b \in Begins(i) : in_progress[i].blocks[b] # "Received"
    BY DEF FullyReceivedIsResolved
  <2>0. Exact(in_progress)
    BY DEF HonestInv, NoOffender
  <2>1. i \in Piece /\ in_progress[i] \in PieceState(i)
    BY TypeFacts DEF IsPieceMap
  <2>2. Cardinality(ReceivedOf(in_progress[i])) < Cardinality(Begins(i))
    BY <2>0 DEF Counted, CountOf, Exact, ExactOf
  <2>3. ReceivedOf(in_progress[i]) # Begins(i)
    BY <2>1, <2>2, ReceivedFinite
  <2> QED  BY <2>1, <2>3, ReceivedFinite DEF ReceivedOf
<1> QED  BY <1>1, HonestInvariant, TypeCorrect, CountInvariant, PTL

----------------------------------------------------------------------------
(* Nobody is asked twice.  A request in flight is in flight once, at one   *)
(* peer, and its block is marked: Requested, or Received if it came from   *)
(* elsewhere meanwhile.  The request may also be for a piece we have, as   *)
(* long as cancel_piece_requests runs.                                     *)

AskedIn(ip, r) == r[1] \in DOMAIN ip /\ ip[r[1]].blocks[r[2]] # "Pending"

Once(bf, ip, ps) ==
    \A p \in DOMAIN ps : \A r \in BlockId :
        ps[p].outstanding[r] > 0 =>
            /\ ps[p].outstanding[r] = 1
            /\ r[1] \in bf \/ AskedIn(ip, r)
            /\ \A q \in DOMAIN ps : q # p => ps[q].outstanding[r] = 0

\* A failed request takes the mark off its own block only.
LEMMA RequestsFailedAsked ==
    ASSUME NEW ip, IsPieceMap(ip), NEW out, NEW r \in BlockId, AskedIn(ip, r),
           ~(out[r] > 0)
    PROVE  AskedIn(RequestsFailed(ip, out), r)
<1> DEFINE i == r[1]
           nb == [b \in DOMAIN ip[i].blocks |->
                    IF out[<<i, b>>] > 0 /\ ip[i].blocks[b] = "Requested"
                    THEN "Pending" ELSE ip[i].blocks[b]]
<1>1. /\ i \in DOMAIN ip /\ ip[i].blocks[r[2]] # "Pending"
      /\ r = <<i, r[2]>> /\ r[2] \in Begins(i)
  BY DEF AskedIn, BlockId
<1>2. ip[i] \in PieceState(i) /\ DOMAIN ip[i].blocks = Begins(i)
  BY <1>1 DEF IsPieceMap, PieceState
<1>3. nb[r[2]] # "Pending"
  BY <1>1, <1>2
<1>4. RequestsFailed(ip, out)[i] = [ip[i] EXCEPT !.blocks = nb]
  BY <1>1 DEF RequestsFailed
<1>5. RequestsFailed(ip, out)[i].blocks = nb
  <2> HIDE DEF nb, i
  <2> QED  BY <1>2, <1>4 DEF PieceState
<1>6. i \in DOMAIN RequestsFailed(ip, out)
  BY <1>1 DEF RequestsFailed
<1> QED  BY <1>3, <1>5, <1>6 DEF AskedIn

LEMMA UnregisterAsked ==
    ASSUME NEW p, NEW av, NEW ip, IsPieceMap(ip), NEW ps,
           unregister_peer(p, av, ip, ps), NEW r \in BlockId, AskedIn(ip, r),
           p \in DOMAIN ps => ~(ps[p].outstanding[r] > 0)
    PROVE  AskedIn(in_progress', r)
  BY RequestsFailedAsked DEF unregister_peer

LEMMA SendAsked ==
    ASSUME NEW p, NEW ok \in BOOLEAN, NEW av, NEW ip, IsPieceMap(ip), NEW ps,
           send_message(p, ok, av, ip, ps), NEW r \in BlockId, AskedIn(ip, r),
           p \in DOMAIN ps /\ p \notin DOMAIN peers' => ~(ps[p].outstanding[r] > 0)
    PROVE  AskedIn(in_progress', r)
<1>1. CASE ok
  BY <1>1 DEF send_message
<1>2. CASE ~ok
  <2>1. unregister_peer(p, av, ip, ps)
    BY <1>2 DEF send_message, disconnect
  <2>2. p \notin DOMAIN peers'
    BY <2>1 DEF unregister_peer, Erase
  <2> QED  BY <2>1, <2>2, UnregisterAsked
<1> QED  BY <1>1, <1>2

\* A request that is still in flight after an event is still marked.
LEMMA EventAsked ==
    ASSUME LiveInv, Once(bitfield, in_progress, peers), NEW p \in Peer, Event(p), ~RecvPiece(p),
           NEW r \in BlockId, AskedIn(in_progress, r),
           NEW q \in DOMAIN peers \cap DOMAIN peers', peers[q].outstanding[r] > 0,
           peers'[q].outstanding[r] > 0
    PROVE  AskedIn(in_progress', r)
<1> USE DEF LiveInv
<1>0. IsPieceMap(in_progress)
  BY TypeFacts
<1>1. p \in DOMAIN peers /\ p # q => ~(peers[p].outstanding[r] > 0)
  BY DEF Once
<1>2. CASE UNCHANGED in_progress
  BY <1>2
<1>3. CASE Handshake(p)
  <2> DEFINE ps == Insert(peers, p, FreshPeer)
  <2>1. PICK ok \in BOOLEAN : send_message(p, ok, availability, in_progress, ps)
    BY <1>3 DEF Handshake, SendOutcome
  <2>2. ~(ps[p].outstanding[r] > 0)
    <3>1. ps[p].outstanding[r] = 0
      BY DEF Insert, FreshPeer, Entry, NoRequests
    <3> QED  BY <3>1
  <2> HIDE DEF ps
  <2> QED  BY <1>0, <2>1, <2>2, SendAsked
<1>4. CASE PeerGone(p)
  <2>1. unregister_peer(p, availability, in_progress, peers)
    BY <1>4 DEF PeerGone, disconnect
  <2>2. p # q
    BY <2>1 DEF unregister_peer, Erase
  <2> QED  BY <1>0, <1>1, <2>1, <2>2, UnregisterAsked
<1>5. CASE RecvChoke(p)
  <2>1. p \in DOMAIN peers
    BY <1>5 DEF RecvChoke, Receiving
  <2>2. p # q
    BY <1>5, <2>1 DEF RecvChoke, WithEntry, Entry, NoRequests
  <2> QED  BY <1>0, <1>1, <1>5, <2>1, <2>2, RequestsFailedAsked DEF RecvChoke
<1>6. ASSUME NEW wanted, NEW av, NEW bf, p \in DOMAIN peers,
             ExpressInterest(p, wanted, av,
                 WithEntry(p, bf, peers[p].outstanding, peers[p].active_piece))
      PROVE  AskedIn(in_progress', r)
  <2> DEFINE ps == WithEntry(p, bf, peers[p].outstanding, peers[p].active_piece)
  <2>1. PICK ok \in BOOLEAN : send_message(p, ok, av, in_progress, ps)
    BY <1>6 DEF ExpressInterest, SendOutcome
  <2>2. ps[p].outstanding = peers[p].outstanding
    BY <1>6 DEF WithEntry, Entry
  <2> HIDE DEF ps
  <2>3. p \notin DOMAIN peers' => p # q
    OBVIOUS
  <2> QED  BY <1>0, <1>1, <1>6, <2>1, <2>2, <2>3, SendAsked
<1>7. CASE (\E bf \in Bitfields : RecvBitfield(p, bf)) \/ \E i \in Piece : RecvHave(p, i)
  BY <1>6, <1>7 DEF RecvBitfield, RecvHave, Receiving
<1> QED  BY <1>2, <1>3, <1>4, <1>5, <1>7 DEF Event, RecvUnchoke

\* The same for a block that a peer sends: a piece that is thrown away is
\* thrown away by a handler that goes on to use a freed entry.
LEMMA RecvPieceAsked ==
    ASSUME LiveInv, dangling' = {}, NEW p \in Peer, RecvPiece(p),
           NEW r \in BlockId, AskedIn(in_progress, r)
    PROVE  r[1] \in bitfield' \/ AskedIn(in_progress', r)
<1> USE DEF LiveInv
<1>1. PICK i \in Piece \cup {NumPieces}, b \in 0 .. PieceLength,
           payload \in PayloadOf(MaxPayload) :
             \/ RecvBlock(p, i, b, payload)
             \/ RecvLastBlock(p, i, b, payload)
             \/ RecvCorruptPiece(p, i, b, payload)
  BY DEF RecvPiece
<1>2. ~RecvCorruptPiece(p, i, b, payload)
  BY DEF RecvCorruptPiece, UseAfterFree
<1>3. r[1] \in DOMAIN in_progress /\ in_progress[r[1]].blocks[r[2]] # "Pending"
  BY DEF AskedIn
<1>4. CASE RecvBlock(p, i, b, payload)
  <2>1. CASE i \in bitfield
    BY <1>4, <2>1 DEF RecvBlock
  <2>2. CASE i \notin bitfield
    <3>1. /\ in_progress' = block_received(in_progress, i, b, payload)
          /\ ~IsAssembled(block_received(in_progress, i, b, payload)[i])
      BY <1>4, <2>2 DEF RecvBlock
    <3>2. i \in Piece
      BY <3>1, NotAssembledInRange
    <3>3. CASE ~IsNews(i, b)
      <4>1. in_progress' = init_piece_state(in_progress, i)
        BY <3>1, <3>2, <3>3, ReceiveCases
      <4>2. r[1] \in DOMAIN in_progress' /\ in_progress'[r[1]] = in_progress[r[1]]
        BY <1>3, <4>1 DEF init_piece_state, Insert
      <4> QED  BY <1>3, <4>2 DEF AskedIn
    <3>4. CASE IsNews(i, b)
      <4> DEFINE new == StoreBlock(StateOf(i), i, b, payload)
      <4>1. in_progress' = Insert(in_progress, i, new)
        BY <3>1, <3>2, <3>4, ReceiveCases
      <4>2. new.blocks = [StateOf(i).blocks EXCEPT ![b] = "Received"]
        BY DEF StoreBlock
      <4> HIDE DEF new
      <4>3. CASE r[1] = i
        <5>1. StateOf(i) = in_progress[i]
          BY <1>3, <4>3 DEF StateOf, init_piece_state
        <5>2. in_progress[i] \in PieceState(i) /\ r[2] \in Begins(i)
          BY <1>3, <4>3, TypeFacts DEF IsPieceMap, BlockId
        <5>3. new.blocks[r[2]] # "Pending"
          BY <1>3, <4>2, <4>3, <5>1, <5>2 DEF PieceState
        <5>4. in_progress'[i] = new /\ i \in DOMAIN in_progress'
          BY <4>1 DEF Insert
        <5> QED  BY <4>3, <5>3, <5>4 DEF AskedIn
      <4>4. CASE r[1] # i
        BY <1>3, <4>1, <4>4 DEF Insert, AskedIn
      <4> QED  BY <4>3, <4>4
    <3> QED  BY <3>3, <3>4
  <2> QED  BY <2>1, <2>2
<1>5. CASE RecvLastBlock(p, i, b, payload)
  <2>1. /\ in_progress' = Erase(block_received(in_progress, i, b, payload), i)
        /\ bitfield' = bitfield \cup {i}
    BY <1>5 DEF RecvLastBlock
  <2>2. in_progress' = Erase(in_progress, i)
    BY <2>1, EraseReceived
  <2> QED  BY <1>3, <2>1, <2>2 DEF Erase, AskedIn
<1> QED  BY <1>1, <1>2, <1>4, <1>5

\* The requests for a block, over all peers.
Flights(ps, r) == [p \in DOMAIN ps |-> ps[p].outstanding[r]]

\* Sending a request adds it at one peer, for a block nobody was asked for.
LEMMA FillRequestOnce ==
    ASSUME TypeOK, Once(bitfield, in_progress, peers), NEW p \in Peer, FillRequest(p)
    PROVE  Once(bitfield', in_progress', peers')
<1>0. IsPieceMap(in_progress) /\ p \in DOMAIN peers
  BY TypeFacts DEF FillRequest, InLoop
<1>1. PICK i \in PieceChoices(p) : \E b \in Begins(i) :
        /\ IsNextBlock(bitfield, in_progress, i, b)
        /\ in_progress' = RequestBlock(in_progress, i, b)
        /\ peers' = Pushed(p, i, b)
  BY DEF FillRequest
<1>2. PICK b \in Begins(i) :
        /\ IsNextBlock(bitfield, in_progress, i, b)
        /\ in_progress' = RequestBlock(in_progress, i, b)
        /\ peers' = Pushed(p, i, b)
  BY <1>1
<1>3. i \in Piece /\ <<i, b>> \in BlockId
  BY <1>0, ChoicesType, BlockIdIntro
<1> DEFINE s == <<i, b>>
           st == StateOf(i)
           new == [st EXCEPT !.blocks = [st.blocks EXCEPT ![b] = "Requested"]]
           out == [peers[p].outstanding EXCEPT ![s] = @ + 1]
<1>4. /\ st \in PieceState(i)
      /\ st = IF i \in DOMAIN in_progress THEN in_progress[i] ELSE FreshPiece(i)
  <2>1. st \in PieceState(i)
    BY <1>0, <1>3, InitPieceType DEF StateOf
  <2> QED  BY <2>1 DEF StateOf, init_piece_state, Insert
<1>5. st.blocks[b] = "Pending"
  BY <1>2 DEF IsNextBlock, PendingOf, StateOf
<1>6. in_progress' = Insert(in_progress, i, new)
  BY <1>2 DEF RequestBlock, StateOf
<1>7. /\ new.blocks[b] = "Requested"
      /\ \A c \in Begins(i) : c # b => new.blocks[c] = st.blocks[c]
  BY <1>4 DEF PieceState
<1>8. ~AskedIn(in_progress, s) /\ s[1] \notin bitfield
  BY <1>2, <1>4, <1>5 DEF AskedIn, IsNextBlock
<1> HIDE DEF st, new
<1>9. ASSUME NEW r \in BlockId, AskedIn(in_progress, r) \/ r = s
      PROVE  AskedIn(in_progress', r)
  <2>1. r[1] \in Piece /\ r[2] \in Begins(r[1]) /\ r = <<r[1], r[2]>>
    BY DEF BlockId
  <2>2. CASE r[1] # i
    BY <1>6, <1>9, <2>2 DEF AskedIn, Insert
  <2>3. CASE r[1] = i
    <3>1. i \in DOMAIN in_progress' /\ in_progress'[i] = new
      BY <1>6 DEF Insert
    <3>2. CASE r[2] = b
      BY <1>7, <2>3, <3>1, <3>2 DEF AskedIn
    <3>3. CASE r[2] # b
      BY <1>4, <1>7, <1>9, <2>1, <2>3, <3>1, <3>3 DEF AskedIn
    <3> QED  BY <3>2, <3>3
  <2> QED  BY <2>2, <2>3
<1>10. \A q \in DOMAIN peers : peers[q].outstanding \in Outstanding
  BY EntryType
<1>11. \A q \in DOMAIN peers : peers[q].outstanding[s] = 0
  <2> SUFFICES ASSUME NEW q \in DOMAIN peers PROVE peers[q].outstanding[s] = 0
    OBVIOUS
  <2>1. ~(peers[q].outstanding[s] > 0)
    BY <1>3, <1>8 DEF Once
  <2>2. peers[q].outstanding[s] \in Nat
    BY <1>3, <1>10 DEF Outstanding
  <2> QED  BY <2>1, <2>2
<1>12. /\ DOMAIN peers' = DOMAIN peers
       /\ peers'[p].outstanding = out
       /\ \A q \in DOMAIN peers : q # p => peers'[q] = peers[q]
  BY <1>0, <1>2 DEF Pushed, WithEntry, Entry
<1>13. out[s] = 1 /\ \A r \in BlockId : r # s => out[r] = peers[p].outstanding[r]
  BY <1>0, <1>3, <1>10, <1>11 DEF Outstanding
<1> HIDE DEF out
<1> SUFFICES ASSUME NEW q \in DOMAIN peers', NEW r \in BlockId,
                    peers'[q].outstanding[r] > 0
             PROVE  /\ peers'[q].outstanding[r] = 1
                    /\ r[1] \in bitfield' \/ AskedIn(in_progress', r)
                    /\ \A q2 \in DOMAIN peers' : q2 # q => peers'[q2].outstanding[r] = 0
  BY DEF Once
<1>14. CASE r = s
  <2>1. q = p
    <3> SUFFICES ASSUME q # p PROVE FALSE
      OBVIOUS
    <3>1. peers'[q].outstanding[r] = 0
      BY <1>11, <1>12, <1>14
    <3> QED  BY <3>1
  <2> QED  BY <1>9, <1>11, <1>12, <1>13, <1>14, <2>1
<1>15. CASE r # s
  <2>1. \A q2 \in DOMAIN peers : peers'[q2].outstanding[r] = peers[q2].outstanding[r]
    BY <1>12, <1>13, <1>15
  <2>2. /\ peers[q].outstanding[r] = 1
        /\ r[1] \in bitfield \/ AskedIn(in_progress, r)
        /\ \A q2 \in DOMAIN peers : q2 # q => peers[q2].outstanding[r] = 0
    BY <1>12, <2>1 DEF Once
  <2>3. bitfield' = bitfield
    BY DEF FillRequest
  <2> QED  BY <1>9, <1>12, <2>1, <2>2, <2>3
<1> QED  BY <1>14, <1>15

\* A handler's other steps, unless they use a freed entry, leave the marks.
LEMMA ThreadStepAsked ==
    ASSUME ThreadStep, dangling' = {}, ~\E p \in Peer : FillRequest(p)
    PROVE  UNCHANGED in_progress
  BY DEF ThreadStep, CancelPeer, CancelPeerFails, CancelDone, BroadcastHave,
         BroadcastHaveFails, FillDone, FillNextPiece, FillRequestFails, UseAfterFree

LEMMA OnceStep ==
    ASSUME LiveInv, Once(bitfield, in_progress, peers), Next, dangling' = {}
    PROVE  Once(bitfield', in_progress', peers')
<1>0. LiveInv /\ TypeOK
  BY DEF LiveInv
<1>1. CASE \E p \in Peer : FillRequest(p)
  BY <1>0, <1>1, FillRequestOnce
<1>2. CASE ~\E p \in Peer : FillRequest(p)
  <2>1. ASSUME NEW q \in DOMAIN peers', NEW r \in BlockId
        PROVE  /\ peers'[q].outstanding[r] \in Nat
               /\ \/ peers'[q].outstanding[r] = 0
                  \/ /\ q \in DOMAIN peers /\ peers[q].outstanding[r] \in Nat
                     /\ peers'[q].outstanding[r] <= peers[q].outstanding[r]
    <3>1. TypeOK'
      BY <1>0, NextType
    <3>2. q \in Peer /\ peers'[q].outstanding[r] \in Nat
      BY <3>1 DEF TypeOK, PeerState, Outstanding
    <3>3. CASE peers'[q] = FreshPeer
      BY <3>2, <3>3 DEF FreshPeer, Entry, NoRequests
    <3>4. CASE q \in DOMAIN peers /\ EntryShrinks(peers, peers', q)
      <4>1. peers[q].outstanding[r] \in Nat
        BY <1>0, <3>4, EntryType DEF Outstanding
      <4> QED  BY <3>2, <3>4, <4>1 DEF EntryShrinks
    <3> QED  BY <1>0, <1>2, <3>2, <3>3, <3>4, EntryStep
  <2> SUFFICES ASSUME NEW q \in DOMAIN peers', NEW r \in BlockId,
                      peers'[q].outstanding[r] > 0
               PROVE  /\ peers'[q].outstanding[r] = 1
                      /\ r[1] \in bitfield' \/ AskedIn(in_progress', r)
                      /\ \A q2 \in DOMAIN peers' :
                           q2 # q => peers'[q2].outstanding[r] = 0
    BY DEF Once
  <2>2. q \in DOMAIN peers /\ peers[q].outstanding[r] > 0
    BY <2>1
  <2>3. /\ peers[q].outstanding[r] = 1
        /\ r[1] \in bitfield \/ AskedIn(in_progress, r)
        /\ \A q2 \in DOMAIN peers : q2 # q => peers[q2].outstanding[r] = 0
    BY <2>2 DEF Once
  <2>4. peers'[q].outstanding[r] = 1
    BY <2>1, <2>3
  <2>5. ASSUME NEW q2 \in DOMAIN peers', q2 # q PROVE peers'[q2].outstanding[r] = 0
    <3>1. CASE peers'[q2].outstanding[r] = 0
      BY <3>1
    <3>2. CASE /\ q2 \in DOMAIN peers /\ peers[q2].outstanding[r] \in Nat
               /\ peers'[q2].outstanding[r] <= peers[q2].outstanding[r]
      BY <2>1, <2>3, <2>5, <3>2
    <3> QED  BY <2>1, <3>1, <3>2
  <2>6. CASE r[1] \in bitfield
    <3>1. bitfield \subseteq bitfield'
      BY StoresStep DEF RecvLastBlock
    <3> QED  BY <2>4, <2>5, <2>6, <3>1
  <2>7. CASE AskedIn(in_progress, r)
    <3>1. CASE ThreadStep
      BY <1>2, <2>4, <2>5, <2>7, <3>1, ThreadStepAsked
    <3>2. ASSUME NEW p \in Peer, Event(p)
          PROVE  r[1] \in bitfield' \/ AskedIn(in_progress', r)
      <4>1. CASE RecvPiece(p)
        BY <1>0, <2>7, <4>1, RecvPieceAsked
      <4>2. CASE ~RecvPiece(p)
        BY <1>0, <2>2, <2>7, <3>2, <4>2, EventAsked
      <4> QED  BY <4>1, <4>2
    <3> QED  BY <2>4, <2>5, <3>1, <3>2 DEF Next
  <2> QED  BY <2>3, <2>6, <2>7
<1> QED  BY <1>1, <1>2

OnceInv == dangling = {} => Once(bitfield, in_progress, peers)

LEMMA OnceInvariant == Spec => []OnceInv
<1>1. Init => OnceInv
  BY DEF Init, OnceInv, Once
<1>2. LiveInv /\ OnceInv /\ [Next]_vars => OnceInv'
  <2> SUFFICES ASSUME LiveInv, OnceInv, [Next]_vars, dangling' = {}
               PROVE  Once(bitfield', in_progress', peers')
    BY DEF OnceInv
  <2>1. CASE Next
    BY <2>1, OnceStep, DanglingGrows DEF OnceInv
  <2>2. CASE UNCHANGED vars
    BY <2>2 DEF vars, OnceInv, Once, AskedIn
  <2> QED  BY <2>1, <2>2
<1>3. OrphanInv => LiveInv
  BY DEF OrphanInv
<1> QED  BY <1>1, <1>2, <1>3, OrphanInvariant, PTL DEF Spec

\* The number of requests in flight for a block.
LEMMA FlightsSum ==
    ASSUME TypeOK, NEW r \in BlockId
    PROVE  /\ IsFiniteSet(DOMAIN peers) /\ Flights(peers, r) \in [DOMAIN peers -> Nat]
           /\ InFlight(r) = SumOver(Flights(peers, r), DOMAIN peers)
<1> DEFINE S == DOMAIN peers
           h == Flights(peers, r)
           g == CHOOSE f : f = [s \in SUBSET S |->
                    IF s = {} THEN 0
                    ELSE peers[Pick(s)].outstanding[r] + f[s \ {Pick(s)}]]
<1>1. IsFiniteSet(S)
  BY SwarmAssumption, FS_Subset DEF TypeOK
<1>2. h \in [S -> Nat]
  BY EntryType DEF Flights, Outstanding
<1>3. InFlight(r) = g[S]
  BY DEF InFlight, MapThenSumSet, MapThenFoldSet, Pick
<1>4. \A s \in SUBSET S : s # {} => h[Pick(s)] = peers[Pick(s)].outstanding[r]
  <2> SUFFICES ASSUME NEW s \in SUBSET S, s # {}
               PROVE  h[Pick(s)] = peers[Pick(s)].outstanding[r]
    OBVIOUS
  <2>1. Pick(s) \in S
    BY <1>1, PickFacts
  <2> QED  BY <2>1 DEF Flights
<1> HIDE DEF S, h
<1>5. \A f : IsSum(f, h, S) <=> f = [s \in SUBSET S |->
                    IF s = {} THEN 0
                    ELSE peers[Pick(s)].outstanding[r] + f[s \ {Pick(s)}]]
  BY <1>4 DEF IsSum
<1>6. PICK f : IsSum(f, h, S) /\ SumOver(h, S) = f[S]
  BY <1>1, <1>2, TheSum
<1>7. IsSum(g, h, S)
  BY <1>5, <1>6
<1>8. g[S] = f[S]
  <2> HIDE DEF g
  <2>1. \A s \in SUBSET S : g[s] = f[s]
    BY <1>1, <1>6, <1>7, SumsAgree
  <2> QED  BY <2>1
<1> HIDE DEF g
<1> QED  BY <1>1, <1>2, <1>3, <1>6, <1>8 DEF S, h

\* Whatever the peers send, and as long as no freed entry was used, a block is
\* asked for once at a time in the whole swarm: a Requested block is in flight
\* once, a Pending one is not, over chokes, lost connections, late and
\* unsolicited blocks and cancellations.
THEOREM NoDuplicates == Spec => []NoDuplicateRequest
<1>1. OrphanInv /\ OnceInv /\ CancelComplete => NoDuplicateRequest
  <2> SUFFICES ASSUME OrphanInv, Once(bitfield, in_progress, peers), dangling = {},
                      CancelComplete, thread.pc # "cancel", NEW r \in BlockId
               PROVE  /\ InFlight(r) <= 1
                      /\ AskedIn(in_progress, r) \/ InFlight(r) = 0
                      /\ r[1] \in DOMAIN in_progress
                         /\ in_progress[r[1]].blocks[r[2]] = "Requested"
                         => InFlight(r) = 1
    BY DEF OnceInv, NoDuplicateRequest, AskedIn
  <2> DEFINE S == DOMAIN peers
             h == Flights(peers, r)
  <2>0. TypeOK
    BY DEF OrphanInv, LiveInv
  <2>1. IsFiniteSet(S) /\ h \in [S -> Nat] /\ InFlight(r) = SumOver(h, S)
    BY <2>0, FlightsSum
  <2>2. \A p \in S : h[p] = peers[p].outstanding[r]
    BY DEF Flights
  <2> HIDE DEF h
  <2>3. CASE \E p \in S : peers[p].outstanding[r] > 0
    <3>1. PICK p \in S : peers[p].outstanding[r] > 0
      BY <2>3
    <3>2. AskedIn(in_progress, r)
      BY <3>1 DEF Once, CancelComplete
    <3>3. h[p] = 1 /\ \A q \in S \ {p} : h[q] = 0
      BY <2>2, <3>1 DEF Once
    <3> DEFINE k == [q \in S \ {p} |-> 0]
    <3>4. /\ k \in [S \ {p} -> Nat] /\ (\A q \in S \ {p} : k[q] = 0)
          /\ \A q \in S \ {p} : k[q] = h[q]
      BY <3>3
    <3>5. IsFiniteSet(S \ {p})
      BY <2>1, FS_Subset
    <3> HIDE DEF k, S
    <3>6. SumOver(h, S) = h[p] + SumOver(k, S \ {p})
      BY <2>1, <3>4, SumRemove
    <3>7. SumOver(k, S \ {p}) = 0
      BY <3>4, <3>5, SumZero
    <3> QED  BY <2>1, <3>2, <3>3, <3>6, <3>7
  <2>4. CASE ~\E p \in S : peers[p].outstanding[r] > 0
    <3>1. \A p \in S : h[p] = 0
      <4> SUFFICES ASSUME NEW p \in S PROVE h[p] = 0
        OBVIOUS
      <4>1. ~(peers[p].outstanding[r] > 0)
        BY <2>4
      <4>2. h[p] \in Nat
        BY <2>1
      <4> QED  BY <2>2, <4>1, <4>2
    <3>2. ~(r[1] \in DOMAIN in_progress
            /\ in_progress[r[1]].blocks[r[2]] = "Requested")
      <4>1. r = <<r[1], r[2]>> /\ r[2] \in Begins(r[1])
        BY DEF BlockId
      <4>2. EveryRequestOwned(in_progress, peers)
        BY DEF OrphanInv, NoOrphanRequest
      <4> QED  BY <2>4, <4>1, <4>2 DEF EveryRequestOwned
    <3> HIDE DEF S
    <3>3. SumOver(h, S) = 0
      BY <2>1, <3>1, SumZero
    <3> QED  BY <2>1, <3>2, <3>3
  <2> QED  BY <2>3, <2>4
<1> QED  BY <1>1, OrphanInvariant, OnceInvariant, CancellationComplete, PTL
=============================================================================
