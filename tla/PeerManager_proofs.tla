------------------------ MODULE PeerManager_proofs --------------------------
(***************************************************************************)
(* Proofs about PeerManager, for any set of peers, any connection limit    *)
(* and with or without a coordinator.  One inductive invariant carries all *)
(* the theorems: the sockets that are open are entries of active_peers_,   *)
(* which never outgrow the limit.                                          *)
(***************************************************************************)
EXTENDS PeerManager, FiniteSetTheorems, TLAPS

\* The table itself respects the limit; CapRespected is about open sockets,
\* and follows from this one and OpenIsTracked.
TableBound == Cardinality(active_peers) <= MaxConnections

\* While the engine runs, an open connection has a callback installed.
OpenHasOwner ==
    stage = "running" => \A p \in Peer : state[p] \in Open => owner[p] # "none"

\* An entry of the table is a connection that was started.
EntryIsStarted == \A p \in active_peers : state[p] # "Idle"

\* main returns between two calls, never inside add_peers.
ExitIsQuiet == stage # "running" => todo = <<>>

GoneIsClosed == stage = "gone" => OpenPeers = {}

ManagerInv ==
    /\ TypeOK
    /\ OpenIsTracked
    /\ TableBound
    /\ NeverBlacklisted
    /\ OpenHasOwner
    /\ EntryIsStarted
    /\ RegisteredIsEstablished
    /\ ExitIsQuiet
    /\ GoneIsClosed

----------------------------------------------------------------------------
(* Sizes of the table.                                                     *)

\* A set of peers is finite.
LEMMA PeersFinite ==
    ASSUME NEW S \in SUBSET Peer
    PROVE  IsFiniteSet(S) /\ Cardinality(S) \in Nat
  BY ManagerAssumption, FS_Subset, FS_CardinalityType

\* Forgetting peers keeps the table within the limit.
LEMMA SmallerTable ==
    ASSUME TypeOK, TableBound, NEW S \in SUBSET active_peers
    PROVE  Cardinality(S) <= MaxConnections
<1>1. IsFiniteSet(active_peers) /\ Cardinality(active_peers) \in Nat
  BY PeersFinite DEF TypeOK
<1>2. Cardinality(S) \in Nat /\ Cardinality(S) <= Cardinality(active_peers)
  BY <1>1, FS_Subset, FS_CardinalityType
<1> QED  BY <1>1, <1>2, ManagerAssumption DEF TableBound

\* There is room for one more peer when MayConnect says so.
LEMMA LargerTable ==
    ASSUME TypeOK, NEW p \in Peer, MayConnect(p)
    PROVE  Cardinality(active_peers \cup {p}) <= MaxConnections
<1>1. IsFiniteSet(active_peers) /\ Cardinality(active_peers) \in Nat
  BY PeersFinite DEF TypeOK
<1>2. Cardinality(active_peers \cup {p}) = Cardinality(active_peers) + 1
  BY <1>1, FS_AddElement DEF MayConnect
<1> QED  BY <1>1, <1>2, ManagerAssumption DEF MayConnect

----------------------------------------------------------------------------
(* Steps.                                                                  *)

\* A connection ends, and the callback of its owner is run.
LEMMA DropInv ==
    ASSUME ManagerInv, NEW p \in Peer, NEW own \in {"manager", "coordinator"},
           state' = [state EXCEPT ![p] = "Disconnected"], on_disconnect(p, own),
           owner' \in [Peer -> Owner], \A q \in Peer \ {p} : owner'[q] = owner[q],
           blacklist' \in SUBSET (blacklist \cup {p}),
           UNCHANGED <<todo, stage>>
    PROVE  ManagerInv'
<1>1. active_peers' \subseteq active_peers /\ active_peers \ {p} \subseteq active_peers'
  BY DEF on_disconnect
<1>2. registered' = registered \ {p}
  BY DEF on_disconnect
<1>3. TypeOK'
  BY <1>1, <1>2 DEF ManagerInv, TypeOK, ConnectionState
<1>4. OpenPeers' = OpenPeers \ {p}
  BY DEF ManagerInv, TypeOK, OpenPeers, Open
<1>5. TableBound'
  BY <1>1, SmallerTable DEF ManagerInv, TableBound
<1>6. OpenIsTracked' /\ NeverBlacklisted'
  BY <1>1, <1>4 DEF ManagerInv, OpenIsTracked, NeverBlacklisted
<1>7. OpenHasOwner' /\ EntryIsStarted'
  BY <1>1 DEF ManagerInv, TypeOK, OpenHasOwner, EntryIsStarted, Open
<1>8. RegisteredIsEstablished'
  BY <1>2 DEF ManagerInv, TypeOK, RegisteredIsEstablished
<1> QED
  BY <1>3, <1>4, <1>5, <1>6, <1>7, <1>8 DEF ManagerInv, ExitIsQuiet, GoneIsClosed

LEMMA AddNextInv ==
    ASSUME ManagerInv, AddNext
    PROVE  ManagerInv'
<1> DEFINE p == Head(todo)
<1>1. todo \in Seq(Peer) /\ todo # <<>>
  BY DEF ManagerInv, TypeOK, AddNext
<1>2. p \in Peer /\ todo' \in Seq(Peer)
  BY <1>1 DEF AddNext
<1> HIDE DEF p
<1>3. CASE MayConnect(p)
  <2>1. PICK result \in {"Disconnected", "Connecting", "Handshaking"} :
          /\ state' = [state EXCEPT ![p] = result]
          /\ active_peers' = IF result = "Disconnected" THEN active_peers
                             ELSE active_peers \cup {p}
    BY <1>3 DEF AddNext, Connect, p
  <2>2. owner' = [owner EXCEPT ![p] = "manager"] /\ UNCHANGED registered
    BY <1>3 DEF AddNext, Connect, p
  <2>3. TypeOK'
    BY <1>2, <2>1, <2>2 DEF ManagerInv, TypeOK, AddNext, ConnectionState, Owner
  <2>4. state[p] \notin Open /\ p \notin blacklist
    BY <1>2, <1>3 DEF ManagerInv, OpenIsTracked, OpenPeers, MayConnect
  <2>5. OpenPeers' = IF result = "Disconnected" THEN OpenPeers ELSE OpenPeers \cup {p}
    BY <1>2, <2>1, <2>4 DEF ManagerInv, TypeOK, OpenPeers, Open
  <2>6. OpenIsTracked' /\ NeverBlacklisted'
    BY <2>1, <2>4, <2>5 DEF ManagerInv, OpenIsTracked, NeverBlacklisted, AddNext
  <2>7. TableBound'
    BY <1>2, <1>3, <2>1, LargerTable DEF ManagerInv, TableBound
  <2>8. OpenHasOwner' /\ EntryIsStarted'
    BY <1>2, <2>1, <2>2
       DEF ManagerInv, TypeOK, OpenHasOwner, EntryIsStarted, AddNext, Open
  <2>9. RegisteredIsEstablished'
    BY <1>2, <2>1, <2>2, <2>4
       DEF ManagerInv, TypeOK, RegisteredIsEstablished, AddNext, Open
  <2> QED
    BY <1>1, <2>3, <2>6, <2>7, <2>8, <2>9
       DEF ManagerInv, AddNext, ExitIsQuiet, GoneIsClosed
<1>4. CASE ~MayConnect(p)
  BY <1>2, <1>4
     DEF AddNext, p, ManagerInv, TypeOK, OpenIsTracked, OpenPeers, TableBound,
         NeverBlacklisted, OpenHasOwner, EntryIsStarted, RegisteredIsEstablished,
         ExitIsQuiet, GoneIsClosed
<1> QED  BY <1>3, <1>4

LEMMA HandshakeInv ==
    ASSUME ManagerInv, NEW p \in Peer, Handshake(p)
    PROVE  ManagerInv'
<1> DEFINE own == IF WithCoordinator THEN "coordinator" ELSE owner[p]
<1>1. stage = "running" /\ state[p] = "Handshaking" /\ p \in active_peers
  BY DEF ManagerInv, Handshake, Quiet, OpenIsTracked, OpenPeers, Open
<1>2. own \in {"manager", "coordinator"}
  BY <1>1 DEF ManagerInv, TypeOK, OpenHasOwner, Owner, Open
<1>3. owner' = [owner EXCEPT ![p] = own]
  BY DEF Handshake
<1>4. owner' \in [Peer -> Owner] /\ \A q \in Peer \ {p} : owner'[q] = owner[q]
  BY <1>2, <1>3 DEF ManagerInv, TypeOK, Owner
<1>5. CASE /\ state' = [state EXCEPT ![p] = "Disconnected"]
           /\ on_disconnect(p, own)
  <2> HIDE DEF own
  <2> QED  BY <1>2, <1>4, <1>5, DropInv DEF Handshake
<1>6. CASE /\ state' = [state EXCEPT ![p] = "Active"]
           /\ registered' = IF WithCoordinator THEN registered \cup {p} ELSE registered
           /\ UNCHANGED active_peers
  <2>1. TypeOK'
    BY <1>4, <1>6 DEF ManagerInv, TypeOK, ConnectionState, Handshake
  <2>2. OpenPeers' = OpenPeers
    BY <1>1, <1>6 DEF ManagerInv, TypeOK, OpenPeers, Open
  <2>3. OpenHasOwner' /\ EntryIsStarted'
    BY <1>2, <1>3, <1>6, <1>1
       DEF ManagerInv, TypeOK, OpenHasOwner, EntryIsStarted, Handshake, Open
  <2>4. RegisteredIsEstablished'
    BY <1>6 DEF ManagerInv, TypeOK, RegisteredIsEstablished, Handshake
  <2> QED
    BY <1>6, <2>1, <2>2, <2>3, <2>4
       DEF ManagerInv, OpenIsTracked, TableBound, NeverBlacklisted, Handshake,
           ExitIsQuiet, GoneIsClosed
<1> QED  BY <1>5, <1>6 DEF Handshake

LEMMA LostInv ==
    ASSUME ManagerInv, NEW p \in Peer, Lost(p)
    PROVE  ManagerInv'
<1>1. owner[p] \in {"manager", "coordinator"}
  BY DEF ManagerInv, TypeOK, OpenHasOwner, Owner, Lost, Quiet
<1> QED  BY <1>1, DropInv DEF Lost, ManagerInv, TypeOK

LEMMA BlacklistInv ==
    ASSUME ManagerInv, NEW p \in Peer, blacklist_peer(p)
    PROVE  ManagerInv'
<1>1. CASE state[p] \in Open
  <2>1. p \in active_peers /\ state[p] # "Disconnected"
    BY <1>1 DEF ManagerInv, OpenIsTracked, OpenPeers, Open
  <2>2. owner[p] \in {"manager", "coordinator"}
    BY <1>1 DEF ManagerInv, TypeOK, OpenHasOwner, Owner, blacklist_peer, Quiet
  <2> QED
    BY <2>1, <2>2, DropInv DEF blacklist_peer, ManagerInv, TypeOK
<1>2. CASE state[p] = "Disconnected" \/ p \notin active_peers
  <2>1. UNCHANGED <<active_peers, state, registered>>
    BY <1>2 DEF blacklist_peer
  <2>2. p \notin OpenPeers
    BY <1>2 DEF ManagerInv, OpenIsTracked, OpenPeers, Open
  <2>3. NeverBlacklisted'
    BY <2>1, <2>2 DEF ManagerInv, NeverBlacklisted, OpenPeers, blacklist_peer
  <2> QED
    BY <2>1, <2>3
       DEF blacklist_peer, ManagerInv, TypeOK, OpenIsTracked, OpenPeers, TableBound,
           OpenHasOwner, EntryIsStarted, RegisteredIsEstablished, ExitIsQuiet,
           GoneIsClosed
<1> QED
  BY <1>1, <1>2 DEF ManagerInv, EntryIsStarted, TypeOK, ConnectionState, Open

\* The destructor finds every open connection, and runs no callback.
LEMMA DestroyManagerInv ==
    ASSUME ManagerInv, DestroyManager
    PROVE  ManagerInv'
<1>1. OpenPeers' = {}
  BY DEF DestroyManager, ManagerInv, OpenIsTracked, OpenPeers, Open
<1>2. active_peers' = {} /\ stage' = "gone"
  BY DEF DestroyManager, ClearedCallbacks, ManagerInv, TypeOK
<1>3. TypeOK'
  BY <1>2
     DEF DestroyManager, ClearedCallbacks, ManagerInv, TypeOK, ConnectionState,
         Owner, Stage
<1>4. TableBound'
  BY <1>2, FS_EmptySet, ManagerAssumption DEF TableBound
<1> QED
  BY <1>1, <1>2, <1>3, <1>4
     DEF ManagerInv, OpenIsTracked, NeverBlacklisted, OpenHasOwner, EntryIsStarted,
         RegisteredIsEstablished, ExitIsQuiet, GoneIsClosed, DestroyManager

\* The other steps change one table or one connection's state.
LEMMA OtherInv ==
    ASSUME ManagerInv,
           \/ \E list \in PeerLists : add_peers(list)
           \/ \E p \in Peer : Established(p)
           \/ DestroyCoordinator
           \/ UNCHANGED vars
    PROVE  ManagerInv'
<1> USE DEF ManagerInv, OpenIsTracked, OpenPeers, TableBound, NeverBlacklisted,
            OpenHasOwner, EntryIsStarted, RegisteredIsEstablished, ExitIsQuiet,
            GoneIsClosed
<1>1. ASSUME NEW list \in PeerLists, add_peers(list) PROVE ManagerInv'
  <2>1. list \in Seq(Peer)
    <3>1. PICK n \in 1 .. MaxList : list \in [1 .. n -> Peer]
      BY DEF PeerLists
    <3> QED  BY <3>1, ManagerAssumption
  <2> QED  BY <1>1, <2>1 DEF add_peers, Quiet, TypeOK
<1>2. ASSUME NEW p \in Peer, Established(p) PROVE ManagerInv'
  <2>1. TypeOK'
    BY <1>2 DEF Established, TypeOK, ConnectionState
  <2> QED  BY <1>2, <2>1 DEF Established, Quiet, TypeOK, Open
<1>3. CASE DestroyCoordinator
  BY <1>3 DEF DestroyCoordinator, Quiet, TypeOK, Stage
<1>4. CASE UNCHANGED vars
  BY <1>4 DEF vars, TypeOK
<1> QED  BY <1>1, <1>2, <1>3, <1>4

LEMMA ManagerInvariant == Spec => []ManagerInv
<1>1. Init => ManagerInv
  BY FS_EmptySet, ManagerAssumption
     DEF Init, ManagerInv, TypeOK, ConnectionState, Owner, Stage, OpenIsTracked,
         OpenPeers, Open, TableBound, NeverBlacklisted, OpenHasOwner,
         EntryIsStarted, RegisteredIsEstablished, ExitIsQuiet, GoneIsClosed
<1>2. ManagerInv /\ [Next]_vars => ManagerInv'
  BY AddNextInv, HandshakeInv, LostInv, BlacklistInv, DestroyManagerInv, OtherInv
     DEF Next, PeerEvent
<1> QED  BY <1>1, <1>2, PTL DEF Spec

----------------------------------------------------------------------------
(* Theorems.                                                               *)

\* Type correctness, for any set of peers and any limit.
THEOREM ManagerTypeCorrect == Spec => []TypeOK
<1>1. ManagerInv => TypeOK
  BY DEF ManagerInv
<1> QED  BY <1>1, ManagerInvariant, PTL

\* The number of open sockets never exceeds the limit: each has its entry in
\* the table.
THEOREM ConnectionCap == Spec => []CapRespected
<1>1. ManagerInv => CapRespected
  BY SmallerTable DEF ManagerInv, OpenIsTracked, CapRespected
<1> QED  BY <1>1, ManagerInvariant, PTL

\* No connection to a blacklisted peer is ever open.
THEOREM BlacklistRespected == Spec => []NeverBlacklisted
<1>1. ManagerInv => NeverBlacklisted
  BY DEF ManagerInv
<1> QED  BY <1>1, ManagerInvariant, PTL

\* The coordinator knows exactly the established connections while the
\* engine runs.
THEOREM RegistrationCorrect == Spec => []RegisteredIsEstablished
<1>1. ManagerInv => RegisteredIsEstablished
  BY DEF ManagerInv
<1> QED  BY <1>1, ManagerInvariant, PTL

\* The destructor finds every open socket: none outlives the manager.
THEOREM NothingLeftOpen == Spec => []ClosedOnExit
<1>1. ManagerInv => ClosedOnExit
  BY DEF ManagerInv, GoneIsClosed, ClosedOnExit
<1> QED  BY <1>1, ManagerInvariant, PTL
=============================================================================
