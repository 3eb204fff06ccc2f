---------------------------- MODULE PeerManager -----------------------------
(***************************************************************************)
(* The peer manager, code/src/peer_manager.cpp: which peers are connected  *)
(* to, how many at a time, and when a connection's entry in active_peers_  *)
(* is given up.  A connection is reduced to its ConnectionState and to the *)
(* owner of its on_disconnect callback: PeerManager installs one, and      *)
(* DownloadCoordinator::register_peer installs its own over it once the    *)
(* handshake is done.  The destructors that main.cpp runs on exit are      *)
(* modelled too: first the coordinator's, then the manager's.              *)
(***************************************************************************)
EXTENDS Integers, FiniteSets, Sequences

CONSTANTS
    Peer,              \* "ip:port" keys
    MaxConnections,    \* max_connections_: 128, or --max-peers
    MaxList,           \* longest list given to add_peers
    WithCoordinator    \* is on_peer_connected set, as main.cpp does?

ASSUME ManagerAssumption ==
    /\ IsFiniteSet(Peer)
    /\ MaxConnections \in Nat
    /\ MaxList \in Nat
    /\ WithCoordinator \in BOOLEAN

VARIABLES
    active_peers,      \* active_peers_: the keys that have a connection object
    state,             \* state_ of the latest connection object of each key
    owner,             \* who installed its on_disconnect callback last
    blacklist,         \* blacklist_
    registered,        \* the keys in DownloadCoordinator::peers_
    todo,              \* the rest of the list add_peers is walking through
    stage              \* which of the engine's objects still exist

vars == <<active_peers, state, owner, blacklist, registered, todo, stage>>

ConnectionState == {"Idle", "Connecting", "Handshaking", "Active", "Disconnected"}
Open == {"Connecting", "Handshaking", "Active"}
Owner == {"manager", "coordinator", "none"}
Stage == {"running", "manager only", "gone"}

\* The lists a tracker response or the command line can name.
PeerLists == UNION {[1 .. n -> Peer] : n \in 1 .. MaxList}

\* The event loop runs, and no call is being executed.
Quiet == stage = "running" /\ todo = <<>>

----------------------------------------------------------------------------
(* Connections.                                                            *)

\* Mutant: the early checks forget the blacklist.
MayConnect_Blacklisted(p) ==
    /\ Cardinality(active_peers) < MaxConnections
    /\ p \notin active_peers

\* Mutant: one connection too many.
MayConnect_OffByOne(p) ==
    /\ Cardinality(active_peers) <= MaxConnections
    /\ p \notin blacklist
    /\ p \notin active_peers

\* The checks of add_peers, repeated by connect_to_peer.
MayConnect(p) ==
    /\ Cardinality(active_peers) < MaxConnections
    /\ p \notin blacklist
    /\ p \notin active_peers

\* Mutant: the coordinator is not told.
on_disconnect_NotForwarded(p, own) ==
    /\ active_peers' = IF own = "manager" THEN active_peers \ {p} ELSE active_peers
    /\ UNCHANGED registered

\* The on_disconnect callback, as installed by "own".  The manager's also
\* calls unregister_peer, through on_peer_disconnected.
on_disconnect(p, own) ==
    /\ active_peers' = IF own = "manager" THEN active_peers \ {p} ELSE active_peers
    /\ registered' = IF own = "none" THEN registered ELSE registered \ {p}

\* Mutant: the entry is made when the connection is established.
Connect_LateEntry(p) ==
    /\ owner' = [owner EXCEPT ![p] = "manager"]
    /\ \E result \in {"Disconnected", "Connecting", "Handshaking"} :
         /\ state' = [state EXCEPT ![p] = result]
         /\ active_peers' = IF result = "Handshaking" THEN active_peers \cup {p}
                            ELSE active_peers
    /\ UNCHANGED registered

\* connect_to_peer(p) once the checks are passed.  PeerConnection::connect
\* fails at once, completes at once, or is in progress.
Connect(p) ==
    /\ owner' = [owner EXCEPT ![p] = "manager"]
    /\ \E result \in {"Disconnected", "Connecting", "Handshaking"} :
         /\ state' = [state EXCEPT ![p] = result]
         /\ active_peers' = IF result = "Disconnected" THEN active_peers
                            ELSE active_peers \cup {p}
    /\ UNCHANGED registered

\* add_peers(list), and connect_to_peer(p) with the list <<p>>.
add_peers(list) ==
    /\ Quiet
    /\ todo' = list
    /\ UNCHANGED <<active_peers, state, owner, blacklist, registered, stage>>

\* One iteration of its loop.  With all slots taken the rest is dropped.
AddNext ==
    /\ todo # <<>>
    /\ IF MayConnect(Head(todo))
       THEN Connect(Head(todo))
       ELSE UNCHANGED <<active_peers, state, owner, registered>>
    /\ todo' = IF Cardinality(active_peers) >= MaxConnections
               THEN <<>> ELSE Tail(todo)
    /\ UNCHANGED <<blacklist, stage>>

\* The TCP connection is established.
Established(p) ==
    /\ Quiet
    /\ p \in active_peers /\ state[p] = "Connecting"
    /\ state' = [state EXCEPT ![p] = "Handshaking"]
    /\ UNCHANGED <<active_peers, owner, blacklist, registered, todo, stage>>

\* The connection fails or is closed, and disconnect runs the callback.
Lost(p) ==
    /\ Quiet
    /\ state[p] \in Open
    /\ state' = [state EXCEPT ![p] = "Disconnected"]
    /\ on_disconnect(p, owner[p])
    /\ UNCHANGED <<owner, blacklist, todo, stage>>

\* The handshake arrives: on_handshake hands the connection to the
\* coordinator, whose register_peer replaces the on_disconnect callback, and
\* sends INTERESTED, which may find the connection broken.
Handshake(p) ==
    LET own == IF WithCoordinator THEN "coordinator" ELSE owner[p]
    IN  /\ Quiet
        /\ state[p] = "Handshaking"
        /\ owner' = [owner EXCEPT ![p] = own]
        /\ \/ /\ state' = [state EXCEPT ![p] = "Active"]
              /\ registered' = IF WithCoordinator THEN registered \cup {p}
                               ELSE registered
              /\ UNCHANGED active_peers
           \/ /\ state' = [state EXCEPT ![p] = "Disconnected"]
              /\ on_disconnect(p, own)
        /\ UNCHANGED <<blacklist, todo, stage>>

\* on_peer_corrupted, or a test, blacklists p; a live connection is closed.
blacklist_peer(p) ==
    /\ Quiet
    /\ blacklist' = blacklist \cup {p}
    /\ IF p \in active_peers /\ state[p] # "Disconnected"
       THEN /\ state' = [state EXCEPT ![p] = "Disconnected"]
            /\ on_disconnect(p, owner[p])
       ELSE UNCHANGED <<active_peers, state, registered>>
    /\ UNCHANGED <<owner, todo, stage>>

----------------------------------------------------------------------------
(* Exit from main: locals are destroyed in reverse order of construction.  *)

DestroyCoordinator ==
    /\ Quiet
    /\ registered' = {}
    /\ stage' = "manager only"
    /\ UNCHANGED <<active_peers, state, owner, blacklist, todo>>

\* on_handshake(nullptr); on_disconnect(nullptr) for every entry.
ClearedCallbacks == [p \in Peer |-> IF p \in active_peers THEN "none" ELSE owner[p]]

\* PeerManager::~PeerManager: the entries, and only they, are disconnected.
\* Either owner's callback would reach the coordinator, which is gone (the
\* manager's through on_peer_disconnected), so that both are cleared first.
DestroyManager ==
    /\ stage = "manager only"
    /\ owner' = ClearedCallbacks
    /\ state' = [p \in Peer |-> IF p \in active_peers THEN "Disconnected" ELSE state[p]]
    /\ active_peers' = {}
    /\ stage' = "gone"
    /\ UNCHANGED <<blacklist, registered, todo>>

----------------------------------------------------------------------------
Init ==
    /\ active_peers = {}
    /\ state = [p \in Peer |-> "Idle"]
    /\ owner = [p \in Peer |-> "none"]
    /\ blacklist = {}
    /\ registered = {}
    /\ todo = <<>>
    /\ stage = "running"

PeerEvent(p) ==
    \/ Established(p)
    \/ Lost(p)
    \/ Handshake(p)
    \/ blacklist_peer(p)

Next ==
    \/ \E list \in PeerLists : add_peers(list)
    \/ AddNext
    \/ \E p \in Peer : PeerEvent(p)
    \/ DestroyCoordinator
    \/ DestroyManager

Spec == Init /\ [][Next]_vars

----------------------------------------------------------------------------
(* Properties.                                                             *)

\* Type correctness of the manager's tables and of the connections' owners.
TypeOK ==
    /\ active_peers \subseteq Peer
    /\ state \in [Peer -> ConnectionState]
    /\ owner \in [Peer -> Owner]
    /\ blacklist \subseteq Peer
    /\ registered \subseteq Peer
    /\ todo \in Seq(Peer)
    /\ stage \in Stage

OpenPeers == {p \in Peer : state[p] \in Open}

\* Every open socket belongs to an entry of active_peers_, and therefore no
\* socket is open once main has destroyed the manager: whichever of the two
\* callbacks ran, a connection loses its entry only after it was closed, and
\* none is opened without one.
OpenIsTracked == OpenPeers \subseteq active_peers
ClosedOnExit == OpenIsTracked /\ (stage = "gone" => OpenPeers = {})

\* No more sockets are open than max_connections_ allows, whatever the order
\* of lists, failures and late handshakes.
CapRespected == Cardinality(OpenPeers) <= MaxConnections

\* No connection to a blacklisted peer is open, however the blacklisting
\* races with lists that name the peer again.
NeverBlacklisted == OpenPeers \cap blacklist = {}

\* While the engine runs, the coordinator knows exactly the connections that
\* have completed the handshake.
RegisteredIsEstablished ==
    stage = "running" /\ WithCoordinator =>
        registered = {p \in Peer : state[p] = "Active"}

\* An entry of active_peers_ is a connection that is open: the slot of a
\* dropped connection is given back.
ActivePeersAreLive == \A p \in active_peers : state[p] # "Disconnected"
=============================================================================
