------------------------ MODULE DownloadCoordinator -------------------------
(***************************************************************************)
(* The download coordinator, code/src/download_coordinator.cpp, with the   *)
(* piece manager and the piece picker it drives and the callbacks that     *)
(* main.cpp hangs on it (blacklisting a peer, writing a piece).            *)
(*                                                                         *)
(* The engine is single threaded: epoll events are handled one at a time.  *)
(* A handler whose body is a loop over peers or requests is a sequence of  *)
(* steps here, one per iteration, and "thread" is its program counter: no  *)
(* event is handled until thread is Idle again.  What interleaves freely   *)
(* is the swarm: which peer's message, or whose disconnection, comes next. *)
(*                                                                         *)
(* Every send_message may find the connection broken, and then runs        *)
(* disconnect -> on_disconnect -> unregister_peer in the middle of the     *)
(* handler that sent, which frees the entry of peers_ the handler may      *)
(* still hold a reference to.  "dangling" records that such a reference    *)
(* was used, and where; then the process aborts or goes on.                *)
(***************************************************************************)
EXTENDS PiecePicker, FiniteSetsExt

CONSTANTS
    Peer,            \* the peers the tracker or the user named
    Honest,          \* those that send only the bytes they were asked for
    PipelineDepth,   \* requests in flight per peer: 5 in the code
    MaxPayload,      \* longest payload a dishonest peer sends
    MayFail,         \* peers whose connection may break
    MayChoke,        \* peers that may choke us
    MayHave,         \* peers that announce pieces with HAVE messages
    Bitfields,       \* the bitfields peers announce
    DiskMayFail      \* may write_piece throw?

ASSUME SwarmAssumption ==
    /\ IsFiniteSet(Peer)
    /\ Honest \subseteq Peer
    /\ MayFail \subseteq Peer
    /\ MayChoke \subseteq Peer
    /\ MayHave \subseteq Peer
    /\ PipelineDepth \in Nat \ {0}
    /\ MaxPayload \in Nat
    /\ Bitfields \subseteq SUBSET Piece
    /\ DiskMayFail \in BOOLEAN

VARIABLES
    peers,           \* peers_: a partial map from peers to PeerState
    conn,            \* PeerConnection::state_, as far as it is seen here
    peer_choking,    \* PeerConnection::peer_choking_
    am_interested,   \* PeerConnection::am_interested_
    withdrawn,       \* requests an honest peer was sent before it choked us:
                     \* off its list, and it may still answer them
    blacklist,       \* PeerManager::blacklist_
    disk,            \* what the output files hold, piece by piece
    thread,          \* program counter of the event loop's thread
    dangling         \* the sites where a freed entry of peers_ was used (ghost)

perPeer == <<peer_choking, am_interested, withdrawn>>
stores == <<blacklist, disk>>
vars == <<bitfield, in_progress, availability, peers, conn, peer_choking,
          am_interested, withdrawn, blacklist, disk, thread, dangling>>

----------------------------------------------------------------------------
NoPiece == -1

\* The vector of outstanding requests as a bag: only membership, count and
\* size are ever used, and a request can be in it twice.
Outstanding == [BlockId -> Nat]

PeerState ==
    [bitfield : SUBSET Piece,
     outstanding : Outstanding,
     active_piece : Piece \cup {NoPiece}]

NoRequests == [r \in BlockId |-> 0]

Entry(bf, out, active) ==
    [bitfield |-> bf, outstanding |-> out, active_piece |-> active]

FreshPeer == Entry({}, NoRequests, NoPiece)

\* peers_ with a new entry for a registered peer.
WithEntry(p, bf, out, active) == [peers EXCEPT ![p] = Entry(bf, out, active)]

OutstandingSize(p) ==
    MapThenSumSet(LAMBDA r : peers[p].outstanding[r], BlockId)

\* Program counters.  peer is the one whose message is being handled.
Idle == [pc |-> "idle"]
Aborted == [pc |-> "aborted"]
Filling(p) == [pc |-> "fill", peer |-> p]
Cancelling(p, i, todo) ==
    [pc |-> "cancel", peer |-> p, piece |-> i, todo |-> todo]
Announcing(p, i) == [pc |-> "have", peer |-> p, piece |-> i]

Thread ==
    {Idle, Aborted} \cup [pc : {"fill"}, peer : Peer]
    \cup [pc : {"cancel"}, peer : Peer, piece : Piece, todo : SUBSET Peer]
    \cup [pc : {"have"}, peer : Peer, piece : Piece]

DiskState == {"blank", "good", "bad"}

----------------------------------------------------------------------------
(* Losing a connection.  av, ip and ps are the values of availability,     *)
(* in_progress and peers when the call is made.                            *)

\* The on_disconnect callback: no-op for a peer that is not registered.
unregister_peer(p, av, ip, ps) ==
    IF p \in DOMAIN ps
    THEN /\ availability' = remove_peer_bitfield(av, ps[p].bitfield)
         /\ in_progress' = RequestsFailed(ip, ps[p].outstanding)
         /\ peers' = Erase(ps, p)
    ELSE availability' = av /\ in_progress' = ip /\ peers' = ps

\* Mutant: the callback is not run.
disconnect_NoCallback(p, av, ip, ps) ==
    /\ conn' = [conn EXCEPT ![p] = "Disconnected"]
    /\ availability' = av /\ in_progress' = ip /\ peers' = ps

\* PeerConnection::disconnect, which runs the on_disconnect callback.
disconnect(p, av, ip, ps) ==
    /\ conn' = [conn EXCEPT ![p] = "Disconnected"]
    /\ unregister_peer(p, av, ip, ps)

\* send_message on the connection of a registered peer: it is queued, or
\* the socket turns out to be broken and the peer is dropped on the spot.
send_message(p, ok, av, ip, ps) ==
    IF ok THEN /\ conn' = [conn EXCEPT ![p] = "Active"]
               /\ availability' = av /\ in_progress' = ip /\ peers' = ps
          ELSE disconnect(p, av, ip, ps)

SendOutcome(p) == IF p \in MayFail THEN BOOLEAN ELSE {TRUE}

\* Handlers that may use an entry of peers_ after it was erased.
Site == {"corrupt", "cancel", "have", "fill"}

\* A freed entry is used: the process dies or goes on to "next".
UseAfterFree(site, next) ==
    /\ dangling' = dangling \cup {site}
    /\ thread' \in {Aborted, next}

----------------------------------------------------------------------------
(* Events.  Each one finds the thread idle.                                *)

\* PeerManager's on_handshake callback: register_peer, then INTERESTED.
Handshake(p) ==
    /\ thread = Idle
    /\ conn[p] = "New"
    /\ \E ok \in SendOutcome(p) :
         send_message(p, ok, availability, in_progress,
                      Insert(peers, p, FreshPeer))
    /\ am_interested' = [am_interested EXCEPT ![p] = TRUE]
    /\ UNCHANGED <<bitfield, peer_choking, withdrawn, thread, dangling, stores>>

\* The connection to p breaks, or is closed by p, between two handlers.
PeerGone(p) ==
    /\ thread = Idle
    /\ p \in MayFail
    /\ conn[p] # "Disconnected"
    /\ disconnect(p, availability, in_progress, peers)
    /\ UNCHANGED <<bitfield, thread, dangling, perPeer, stores>>

\* The choke takes these requests of p off its list: if it is honest it may
\* answer them after it unchokes us.
Withdraw(p) ==
    LET asked == {r \in BlockId : peers[p].outstanding[r] > 0}
    IN  [h \in Honest |-> withdrawn[h] \cup IF h = p THEN asked ELSE {}]

\* A message of p is delivered to handle_peer_message.
Receiving(p) == thread = Idle /\ p \in DOMAIN peers

RecvChoke(p) ==
    /\ Receiving(p)
    /\ p \in MayChoke
    /\ peer_choking' = [peer_choking EXCEPT ![p] = TRUE]
    /\ in_progress' = RequestsFailed(in_progress, peers[p].outstanding)
    /\ peers' = WithEntry(p, peers[p].bitfield, NoRequests, NoPiece)
    /\ withdrawn' = Withdraw(p)
    /\ UNCHANGED <<bitfield, availability, conn, am_interested, thread,
                   dangling, stores>>

RecvUnchoke(p) ==
    /\ Receiving(p)
    /\ peer_choking' = [peer_choking EXCEPT ![p] = FALSE]
    /\ thread' = Filling(p)
    /\ UNCHANGED <<bitfield, in_progress, availability, peers, conn,
                   am_interested, withdrawn, dangling, stores>>

\* The tail of the BITFIELD and HAVE branches: INTERESTED is sent if the
\* peer has something we lack and does not know yet that we want it.
ExpressInterest(p, wanted, av, ps) ==
    /\ \E ok \in IF wanted /\ ~am_interested[p] THEN SendOutcome(p) ELSE {TRUE} :
         send_message(p, ok, av, in_progress, ps)
    /\ am_interested' = [am_interested EXCEPT ![p] = @ \/ wanted]

RecvBitfield(p, bf) ==
    /\ Receiving(p)
    /\ ExpressInterest(p, ~(bf \subseteq bitfield),
           add_peer_bitfield(
               remove_peer_bitfield(availability, peers[p].bitfield), bf),
           WithEntry(p, bf, peers[p].outstanding, peers[p].active_piece))
    /\ thread' = Filling(p)
    /\ UNCHANGED <<bitfield, peer_choking, withdrawn, dangling, stores>>

\* A HAVE for an index past the last piece is ignored by the code.
RecvHave(p, i) ==
    /\ Receiving(p)
    /\ p \in MayHave
    /\ ExpressInterest(p, i \notin bitfield,
           IF i \in peers[p].bitfield THEN availability
                                      ELSE add_availability(availability, i),
           WithEntry(p, peers[p].bitfield \cup {i}, peers[p].outstanding,
                     peers[p].active_piece))
    /\ UNCHANGED <<bitfield, peer_choking, withdrawn, thread, dangling, stores>>

----------------------------------------------------------------------------
(* A PIECE message: block b of piece i arrives from p.                     *)

\* An honest peer answers the requests it was sent with the right bytes.  It
\* may do so after it choked and unchoked us, when the same block may be on
\* the list of another peer, and, if it was asked again, more than once.  Of
\* a piece we have any block may come: the answer crossed our CANCEL.
MaySend(p, i, b, payload) ==
    p \in Honest =>
        /\ <<i, b>> \in BlockId
        /\ \/ peers[p].outstanding[<<i, b>>] > 0
           \/ <<i, b>> \in withdrawn[p]
           \/ i \in bitfield
        /\ payload.good
        /\ payload.len = IF b + BlockSize <= get_piece_length(i)
                         THEN BlockSize ELSE get_piece_length(i) - b

\* Mutant: an unsolicited block is taken off the list too.
Answered_Unchecked(p, i, b) ==
    IF <<i, b>> \in BlockId
    THEN WithEntry(p, peers[p].bitfield,
                   [peers[p].outstanding EXCEPT ![<<i, b>>] = @ - 1],
                   peers[p].active_piece)
    ELSE peers

\* peers_ after the first matching request of p, if any, is erased.
Answered(p, i, b) ==
    IF <<i, b>> \in BlockId /\ peers[p].outstanding[<<i, b>>] > 0
    THEN WithEntry(p, peers[p].bitfield,
                   [peers[p].outstanding EXCEPT ![<<i, b>>] = @ - 1],
                   peers[p].active_piece)
    ELSE peers

\* DiskIOManager::write_piece, called by main.cpp's on_piece_completed.
write_piece(i, data) ==
    {[disk EXCEPT ![i] = IF data = Offsets(i) THEN "good" ELSE "bad"]}
    \cup (IF DiskMayFail THEN {disk} ELSE {})

\* The block does not complete its piece, or we have the piece already.
RecvBlock(p, i, b, payload) ==
    LET ip == IF i \in bitfield THEN in_progress
              ELSE block_received(in_progress, i, b, payload)
    IN  /\ Receiving(p)
        /\ MaySend(p, i, b, payload)
        /\ i \notin bitfield => ~IsAssembled(ip[i])
        /\ in_progress' = ip
        /\ peers' = Answered(p, i, b)
        /\ thread' = Filling(p)
        /\ UNCHANGED <<bitfield, availability, conn, dangling, perPeer, stores>>

\* The block completes its piece and the hash matches: write the piece to
\* disk, mark it completed, and start cancelling the other requests for it.
\* A failing write is logged by main.cpp and otherwise ignored.
\* What was withdrawn of the piece is forgotten: MaySend allows all of it.
RecvLastBlock(p, i, b, payload) ==
    LET ip == block_received(in_progress, i, b, payload)
    IN  /\ Receiving(p)
        /\ MaySend(p, i, b, payload)
        /\ i \notin bitfield /\ IsAssembled(ip[i])
        /\ validate_piece(ip, i)
        /\ disk' \in write_piece(i, ip[i].data)
        /\ bitfield' = bitfield \cup {i}
        /\ in_progress' = Erase(ip, i)
        /\ peers' = Answered(p, i, b)
        /\ thread' = Cancelling(p, i, DOMAIN peers)
        /\ withdrawn' = [h \in Honest |-> {r \in withdrawn[h] : r[1] # i}]
        /\ UNCHANGED <<availability, conn, peer_choking, am_interested, blacklist,
                       dangling>>

\* The block completes its piece and the hash does not match: the piece is
\* dropped and on_peer_corrupted blacklists and disconnects the sender,
\* whose entry "state" still refers to.  An index past the last piece ends
\* here too, after an out-of-bounds read of the digests.
RecvCorruptPiece(p, i, b, payload) ==
    LET ip == block_received(in_progress, i, b, payload)
    IN  /\ Receiving(p)
        /\ MaySend(p, i, b, payload)
        /\ i \notin bitfield /\ IsAssembled(ip[i])
        /\ ~validate_piece(ip, i)
        /\ blacklist' = blacklist \cup {p}
        /\ disconnect(p, availability, Erase(ip, i), Answered(p, i, b))
        /\ UseAfterFree("corrupt", Idle)
        /\ UNCHANGED <<bitfield, disk, perPeer>>

----------------------------------------------------------------------------
(* cancel_piece_requests and the HAVE broadcast, for a completed piece.    *)

\* Mutant: requests for the completed piece stay in the pipelines.
CancelsFor_Nothing(q, i) == peers[q].outstanding

CancelsFor(q, i) ==
    [r \in BlockId |-> IF r[1] = i THEN 0 ELSE peers[q].outstanding[r]]

\* The active piece of q, unless it is the completed one.
ResetActive(q, i) ==
    IF peers[q].active_piece = i THEN NoPiece ELSE peers[q].active_piece

\* One iteration of the outer loop: all requests of q for the piece are
\* cancelled and its active piece is reset.
CancelPeer(q) ==
    /\ thread.pc = "cancel"
    /\ q \in thread.todo
    /\ peers' = WithEntry(q, peers[q].bitfield, CancelsFor(q, thread.piece),
                          ResetActive(q, thread.piece))
    /\ thread' = [thread EXCEPT !.todo = @ \ {q}]
    /\ UNCHANGED <<bitfield, in_progress, availability, conn, dangling, perPeer,
                   stores>>

\* Sending a CANCEL to q drops q while the loop stands on its entry.  If the
\* process survives, the loop goes on from the freed node and may miss peers.
CancelPeerFails(q) ==
    /\ thread.pc = "cancel"
    /\ q \in thread.todo
    /\ q \in MayFail
    /\ peers[q].outstanding # CancelsFor(q, thread.piece)
    /\ disconnect(q, availability, in_progress, peers)
    /\ \E rest \in SUBSET (thread.todo \ {q}) :
         UseAfterFree("cancel", [thread EXCEPT !.todo = rest])
    /\ UNCHANGED <<bitfield, perPeer, stores>>

CancelDone ==
    /\ thread.pc = "cancel"
    /\ thread.todo = {}
    /\ thread' = Announcing(thread.peer, thread.piece)
    /\ UNCHANGED <<bitfield, in_progress, availability, peers, conn, dangling,
                   perPeer, stores>>

\* The broadcast reaches every peer.  Then the sender's active piece is
\* reset, through "state", which dangles if the sender has been dropped.
BroadcastHave ==
    /\ thread.pc = "have"
    /\ IF thread.peer \in DOMAIN peers
       THEN /\ peers' = LET st == peers[thread.peer]
                         IN  WithEntry(thread.peer, st.bitfield, st.outstanding,
                                       ResetActive(thread.peer, thread.piece))
            /\ thread' = Filling(thread.peer)
            /\ UNCHANGED dangling
       ELSE UseAfterFree("have", Idle) /\ UNCHANGED peers
    /\ UNCHANGED <<bitfield, in_progress, availability, conn, perPeer, stores>>

\* Sending HAVE to q drops q, and the range-for advances a dead iterator.
BroadcastHaveFails(q) ==
    /\ thread.pc = "have"
    /\ q \in DOMAIN peers \cap MayFail
    /\ disconnect(q, availability, in_progress, peers)
    /\ UseAfterFree("have", thread)
    /\ UNCHANGED <<bitfield, perPeer, stores>>

----------------------------------------------------------------------------
(* fill_request_pipeline, one iteration at a time.                         *)

\* The pieces that are completed or have no Pending block left.
CompletedOrFull ==
    bitfield \cup {i \in Piece : ~has_pending_blocks(bitfield, in_progress, i)}

\* The pieces the next request to p may come from.
PieceChoices(p) ==
    IF peers[p].active_piece # NoPiece
    THEN {peers[p].active_piece}
    ELSE PickSet(availability, peers[p].bitfield, CompletedOrFull)

\* Mutant: requests are sent to a peer that chokes us.
InLoop_IgnoresChoke(p) ==
    /\ p \in DOMAIN peers
    /\ OutstandingSize(p) < PipelineDepth

InLoop(p) ==
    /\ ~peer_choking[p]
    /\ p \in DOMAIN peers
    /\ OutstandingSize(p) < PipelineDepth

\* Early return, pipeline full, or nothing to pick.
FillDone(p) ==
    /\ thread = Filling(p)
    /\ InLoop(p) => PieceChoices(p) = {}
    /\ thread' = Idle
    /\ UNCHANGED <<bitfield, in_progress, availability, peers, conn, dangling,
                   perPeer, stores>>

\* The active piece has no Pending block left: pick another one.
FillNextPiece(p) ==
    /\ thread = Filling(p)
    /\ InLoop(p)
    /\ \E i \in PieceChoices(p) : NoNextBlock(bitfield, in_progress, i)
    /\ peers' = WithEntry(p, peers[p].bitfield, peers[p].outstanding, NoPiece)
    /\ UNCHANGED <<bitfield, in_progress, availability, conn, thread, dangling,
                   perPeer, stores>>

\* peers_ with request <<i, b>> pushed to p's vector and i as active piece.
Pushed(p, i, b) ==
    WithEntry(p, peers[p].bitfield,
              [peers[p].outstanding EXCEPT ![<<i, b>>] = @ + 1], i)

\* A block is marked Requested, pushed, and the REQUEST is sent.
FillRequest(p) ==
    /\ thread = Filling(p)
    /\ InLoop(p)
    /\ \E i \in PieceChoices(p) : \E b \in Begins(i) :
         /\ IsNextBlock(bitfield, in_progress, i, b)
         /\ in_progress' = RequestBlock(in_progress, i, b)
         /\ peers' = Pushed(p, i, b)
    /\ UNCHANGED <<bitfield, availability, conn, thread, dangling, perPeer,
                   stores>>

\* The blocks of piece i below k that are Pending become Requested.
Orphaned(ip, i, k) ==
    LET old == ip[i].blocks
        new == [c \in DOMAIN old |-> IF c < k /\ old[c] = "Pending"
                                     THEN "Requested" ELSE old[c]]
    IN  [ip EXCEPT ![i] = [ip[i] EXCEPT !.blocks = new]]

\* Sending the REQUEST drops p, and the loop goes on with p's freed entry.
\* If the process survives, it may mark more blocks of the active piece
\* Requested, which are recorded nowhere else and sent to nobody.
FillRequestFails(p) ==
    /\ thread = Filling(p)
    /\ InLoop(p)
    /\ p \in MayFail
    /\ \E i \in PieceChoices(p) : \E b \in Begins(i) :
         /\ IsNextBlock(bitfield, in_progress, i, b)
         /\ LET ps == Pushed(p, i, b)
                ip == RequestsFailed(RequestBlock(in_progress, i, b),
                                     ps[p].outstanding)
            IN  /\ availability' =
                       remove_peer_bitfield(availability, ps[p].bitfield)
                /\ peers' = Erase(ps, p)
                /\ \E k \in 0 .. PieceLength : in_progress' = Orphaned(ip, i, k)
    /\ conn' = [conn EXCEPT ![p] = "Disconnected"]
    /\ UseAfterFree("fill", Idle)
    /\ UNCHANGED <<bitfield, perPeer, stores>>

----------------------------------------------------------------------------
Init ==
    /\ PieceManagerInit
    /\ PiecePickerInit
    /\ peers = [p \in {} |-> FreshPeer]
    /\ conn = [p \in Peer |-> "New"]
    /\ peer_choking = [p \in Peer |-> TRUE]
    /\ am_interested = [p \in Peer |-> FALSE]
    /\ withdrawn = [p \in Honest |-> {}]
    /\ blacklist = {}
    /\ disk = [i \in Piece |-> "blank"]
    /\ thread = Idle
    /\ dangling = {}

\* A PIECE message names any piece, one past the last included, and any
\* offset, one past the longest piece included.
RecvPiece(p) ==
    \E i \in Piece \cup {NumPieces}, b \in 0 .. PieceLength,
       payload \in PayloadOf(MaxPayload) :
        \/ RecvBlock(p, i, b, payload)
        \/ RecvLastBlock(p, i, b, payload)
        \/ RecvCorruptPiece(p, i, b, payload)

Event(p) ==
    \/ Handshake(p)
    \/ PeerGone(p)
    \/ RecvChoke(p)
    \/ RecvUnchoke(p)
    \/ \E bf \in Bitfields : RecvBitfield(p, bf)
    \/ \E i \in Piece : RecvHave(p, i)
    \/ RecvPiece(p)

\* A step of the handler that is running.
ThreadStep ==
    \/ \E q \in Peer : CancelPeer(q) \/ CancelPeerFails(q)
    \/ CancelDone
    \/ BroadcastHave
    \/ \E q \in Peer : BroadcastHaveFails(q)
    \/ \E p \in Peer : FillDone(p) \/ FillNextPiece(p)
                       \/ FillRequest(p) \/ FillRequestFails(p)

Next == ThreadStep \/ \E p \in Peer : Event(p)

Spec == Init /\ [][Next]_vars

\* Fairness.  The thread never pauses in a handler.  The event loop serves
\* every ready connection, and a reliable peer connects, announces what it
\* has, eventually lifts a choke and answers the requests it was sent; the
\* connection of an unreliable one does break in the end.
Reliable == Honest \ MayFail

Fairness ==
    /\ WF_vars(ThreadStep)
    /\ \A p \in MayFail : SF_vars(PeerGone(p))
    /\ \A p \in Reliable :
         /\ SF_vars(Handshake(p))
         /\ SF_vars(p \in DOMAIN peers /\ peers[p].bitfield # Piece
                    /\ RecvBitfield(p, Piece))
         /\ SF_vars(peer_choking[p] /\ RecvUnchoke(p))
         /\ \A r \in BlockId :
              SF_vars(p \in DOMAIN peers /\ peers[p].outstanding[r] > 0
                      /\ \E payload \in PayloadOf(MaxPayload) :
                            \/ RecvBlock(p, r[1], r[2], payload)
                            \/ RecvLastBlock(p, r[1], r[2], payload)
                            \/ RecvCorruptPiece(p, r[1], r[2], payload))

FairSpec == Spec /\ Fairness

----------------------------------------------------------------------------
(* Properties.                                                             *)

\* Type correctness: peers_ and in_progress_ are partial maps over the known
\* peers and pieces, and a running handler's peers are peers of the swarm.
TypeOK ==
    /\ PieceManagerTypeOK
    /\ PiecePickerTypeOK
    /\ DOMAIN peers \subseteq Peer
    /\ peers \in [DOMAIN peers -> PeerState]
    /\ conn \in [Peer -> {"New", "Active", "Disconnected"}]
    /\ peer_choking \in [Peer -> BOOLEAN]
    /\ am_interested \in [Peer -> BOOLEAN]
    /\ withdrawn \in [Honest -> SUBSET BlockId]
    /\ blacklist \subseteq Peer
    /\ disk \in [Piece -> DiskState]
    /\ thread \in Thread
    /\ dangling \subseteq Site

\* Every Requested block of ip is in the outstanding list of a peer of ps.
EveryRequestOwned(ip, ps) ==
    \A i \in DOMAIN ip : \A b \in Begins(i) :
        ip[i].blocks[b] = "Requested" =>
            \E p \in DOMAIN ps : ps[p].outstanding[<<i, b>>] > 0

\* A block marked Requested is in the outstanding list of a registered peer:
\* chokes, disconnections, failed pieces, cancellations and dropped sends
\* never strand a block that nobody will deliver and nobody will ask for
\* again.  Only the loop of fill_request_pipeline running on a freed entry
\* can break this.
NoOrphanRequest ==
    "fill" \notin dangling => EveryRequestOwned(in_progress, peers)

\* The peers that are known to have piece i.
Holders(i) == {p \in DOMAIN peers : i \in peers[p].bitfield}

\* The availability histogram counts exactly the registered peers that have
\* each piece, after any sequence of BITFIELD, HAVE and disconnections; the
\* saturating decrement never hides a lost update.
AvailabilityExact ==
    \A i \in Piece : availability[i] = Cardinality(Holders(i))

\* Outside cancel_piece_requests nobody is asked for a block of a piece we
\* have, and no peer's active piece is one we have: the loop misses nothing
\* unless it ran over a freed entry.
CancelComplete ==
    thread.pc # "cancel" /\ "cancel" \notin dangling =>
        \A p \in DOMAIN peers :
            /\ peers[p].active_piece \notin bitfield
            /\ \A r \in BlockId : peers[p].outstanding[r] > 0 => r[1] \notin bitfield

\* A peer that chokes us owes us nothing: no request survives a choke, and
\* none is sent while choked, whatever message triggers the refill.
ChokedOwesNothing ==
    \A p \in DOMAIN peers : peer_choking[p] =>
        \A r \in BlockId : peers[p].outstanding[r] = 0

\* The request pipeline of a peer never exceeds its depth.
PipelineBound ==
    \A p \in DOMAIN peers : OutstandingSize(p) <= PipelineDepth

\* What a peer owes is what it may be asked for: nothing while it chokes, and
\* never more than the pipeline holds, whichever of the messages, failures and
\* cancellations emptied or refilled the pipeline last.
PipelineLimits == ChokedOwesNothing /\ PipelineBound

\* A blacklisted peer is disconnected and no longer registered, and every
\* registered peer has a live connection.
BlacklistedIsGone ==
    /\ DOMAIN peers = {p \in Peer : conn[p] = "Active"}
    /\ \A p \in blacklist : conn[p] = "Disconnected"

\* How many requests for block r are in flight, in the whole swarm.
InFlight(r) == MapThenSumSet(LAMBDA p : peers[p].outstanding[r], DOMAIN peers)

\* A block is asked for once at a time in the whole swarm: a Requested block
\* is in flight exactly once, a Pending one is not in flight, and one that has
\* come is in flight at most once.  It is when a peer that choked us answers
\* what it was asked for before, or sends what it was not asked for, and the
\* block is on the list of somebody else.  (Once a piece was thrown away its
\* blocks may be in flight twice: that handler has used a freed entry.)
NoDuplicateRequest ==
    thread.pc # "cancel" /\ dangling = {} =>
        \A r \in BlockId :
            LET known == r[1] \in DOMAIN in_progress
                is == IF known THEN in_progress[r[1]].blocks[r[2]] ELSE "Pending"
            IN  /\ InFlight(r) <= 1
                /\ is = "Requested" => InFlight(r) = 1
                /\ is = "Pending" => InFlight(r) = 0

\* What a step that gives p an active piece has picked.
PickIsRarest(p) ==
    LET i == peers'[p].active_piece
    IN  /\ Cardinality(bitfield) >= BootstrapPieces
        /\ peers[p].active_piece = NoPiece
        /\ i # NoPiece
        => \A j \in peers[p].bitfield \ CompletedOrFull :
              Cardinality(Holders(i)) <= Cardinality(Holders(j))

\* Once BootstrapPieces pieces are obtained, the piece picked for a peer is
\* one that the fewest connected peers have, among those it could be asked
\* for.
RarestFirst == [][\A p \in DOMAIN peers \cap DOMAIN peers' : PickIsRarest(p)]_vars

\* No in-progress piece has received all of its blocks.
FullyReceivedIsResolved ==
    \A i \in DOMAIN in_progress :
        \E b \in Begins(i) : in_progress[i].blocks[b] # "Received"

\* No handler uses an entry of peers_ after it has been erased.
NoUseAfterFree == dangling = {}

\* As long as every peer that connected is honest nobody is blacklisted: no
\* order of blocks, late answers, chokes, lost connections and cancellations
\* makes the engine itself spoil a piece.
BlacklistNeedsOffender ==
    blacklist # {} => \E q \in Peer \ Honest : conn[q] # "New"

\* The blocks collected of pieces in progress.
HeldBlocks ==
    {r \in BlockId : /\ r[1] \in DOMAIN in_progress
                     /\ in_progress[r[1]].blocks[r[2]] = "Received"}

Transfer == INSTANCE PieceTransfer WITH have <- bitfield, held <- HeldBlocks

\* The coordinator implements PieceTransfer: whatever messages come and
\* whichever connections break, a block that was received is kept until its
\* piece is complete, a piece is obtained or thrown away as a whole and only
\* then, and the disk changes only when one is obtained.
ImplementsPieceTransfer == Transfer!Spec

\* Every piece is eventually obtained from the reliable peers (unless a
\* freed entry of peers_ was used on the way).
Completion == <>(bitfield = Piece \/ dangling # {})
=============================================================================
