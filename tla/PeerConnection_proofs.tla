----------------------- MODULE PeerConnection_proofs ------------------------
(***************************************************************************)
(* Proofs about PeerConnection, for every size of the handshake and of the *)
(* length prefix, every stream the peer sends, every way it is cut into    *)
(* reads and what is sent into partial writes, and failures at any point.  *)
(***************************************************************************)
EXTENDS PeerConnection, InductionLemmas

Msg == Kind \cup {"Match", "OtherTorrent", "NotHandshake"}

----------------------------------------------------------------------------
(* Bytes and messages.                                                     *)

\* A serialized message is a nonempty sequence of bytes that says first what
\* it is.
LEMMA Serialized ==
    ASSUME NEW m \in Msg
    PROVE  /\ SizeOf(m) \in Nat /\ SizeOf(m) >= 1
           /\ serialize(m) \in Seq(Byte) /\ Len(serialize(m)) = SizeOf(m)
           /\ serialize(m)[1] = <<m, 1>>
<1>1. SizeOf(m) \in Nat /\ SizeOf(m) >= 1
  BY ConnectionAssumption DEF SizeOf
<1>2. \A k \in 1 .. SizeOf(m) : <<m, k>> \in Byte
  BY <1>1 DEF Byte, Msg
<1>3. serialize(m) \in Seq(Byte) /\ Len(serialize(m)) = SizeOf(m)
  BY <1>1, <1>2 DEF serialize
<1> QED  BY <1>1, <1>3 DEF serialize

\* What Bytes concatenates.
Pieces(ms) == [j \in DOMAIN ms |-> serialize(ms[j])]

LEMMA PiecesFacts ==
    ASSUME NEW ms \in Seq(Msg)
    PROVE  /\ Pieces(ms) \in Seq(Seq(Byte)) /\ Len(Pieces(ms)) = Len(ms)
           /\ Bytes(ms) = FlattenSeq(Pieces(ms))
<1>1. \A j \in DOMAIN ms : serialize(ms[j]) \in Seq(Byte)
  BY Serialized
<1>2. DOMAIN ms = 1 .. Len(ms) /\ Len(ms) \in Nat
  OBVIOUS
<1>3. Pieces(ms) \in [1 .. Len(ms) -> Seq(Byte)]
  BY <1>1, <1>2 DEF Pieces
<1> QED  BY <1>2, <1>3 DEF Bytes, Pieces

\* Bytes yields bytes.
LEMMA BytesType ==
    ASSUME NEW ms \in Seq(Msg)
    PROVE  Bytes(ms) \in Seq(Byte)
  BY PiecesFacts, FlattenType

\* Nothing is serialized to nothing.
LEMMA BytesEmpty == Bytes(<<>>) = <<>>
<1>1. Pieces(<<>>) = <<>> /\ Bytes(<<>>) = FlattenSeq(Pieces(<<>>))
  BY DEF Pieces, Bytes
<1> QED  BY <1>1, FlattenEmpty

\* One more message.
LEMMA BytesAppend ==
    ASSUME NEW ms \in Seq(Msg), NEW m \in Msg
    PROVE  Bytes(Append(ms, m)) = Bytes(ms) \o serialize(m)
<1>1. Append(ms, m) \in Seq(Msg)
  OBVIOUS
<1>2. Pieces(Append(ms, m)) = Append(Pieces(ms), serialize(m))
  <2>1. /\ DOMAIN Append(ms, m) = 1 .. Len(ms) + 1 /\ Len(ms) \in Nat
        /\ Append(ms, m)[Len(ms) + 1] = m
        /\ \A j \in 1 .. Len(ms) : Append(ms, m)[j] = ms[j]
    OBVIOUS
  <2>2. DOMAIN ms = 1 .. Len(ms)
    OBVIOUS
  <2> QED  BY <2>1, <2>2, PiecesFacts DEF Pieces
<1>3. FlattenSeq(Append(Pieces(ms), serialize(m))) = FlattenSeq(Pieces(ms)) \o serialize(m)
  BY PiecesFacts, Serialized, FlattenAppend
<1> QED  BY <1>1, <1>2, <1>3, PiecesFacts

\* The bytes of a script, cut between two messages.
LEMMA BytesCut ==
    ASSUME NEW ms \in Seq(Msg), NEW n \in 0 .. Len(ms)
    PROVE  Bytes(ms) = Bytes(SubSeq(ms, 1, n)) \o Bytes(SubSeq(ms, n + 1, Len(ms)))
<1> DEFINE q == Pieces(ms)
<1>1. SubSeq(ms, 1, n) \in Seq(Msg) /\ SubSeq(ms, n + 1, Len(ms)) \in Seq(Msg)
  OBVIOUS
<1>2. q \in Seq(Seq(Byte)) /\ Len(q) = Len(ms) /\ Bytes(ms) = FlattenSeq(q)
  BY PiecesFacts
<1>3. Pieces(SubSeq(ms, 1, n)) = SubSeq(q, 1, n)
  <2>1. \A j \in 1 .. n : q[j] = serialize(ms[j])
    BY DEF Pieces
  <2> QED  BY <1>2, <2>1 DEF Pieces
<1>4. Pieces(SubSeq(ms, n + 1, Len(ms))) = SubSeq(q, n + 1, Len(q))
  <2> DEFINE s == SubSeq(ms, n + 1, Len(ms))
             u == SubSeq(q, n + 1, Len(q))
  <2>1. \A j \in 1 .. Len(ms) : q[j] = serialize(ms[j])
    BY DEF Pieces
  <2>2. /\ DOMAIN s = 1 .. Len(ms) - n
        /\ \A j \in 1 .. Len(ms) - n : s[j] = ms[j + n]
    OBVIOUS
  <2>3. /\ u = [j \in 1 .. Len(ms) - n |-> u[j]]
        /\ \A j \in 1 .. Len(ms) - n : u[j] = q[j + n]
    <3> HIDE DEF q
    <3> QED  BY <1>2
  <2>4. \A j \in 1 .. Len(ms) - n : u[j] = serialize(s[j])
    <3> HIDE DEF q, s, u
    <3> SUFFICES ASSUME NEW j \in 1 .. Len(ms) - n PROVE u[j] = serialize(s[j])
      OBVIOUS
    <3>1. j + n \in 1 .. Len(ms)
      OBVIOUS
    <3> QED  BY <2>1, <2>2, <2>3, <3>1
  <2> HIDE DEF s, u
  <2>5. Pieces(s) = u
    BY <2>2, <2>3, <2>4 DEF Pieces
  <2> QED  BY <2>5 DEF s, u
<1> HIDE DEF q
<1>5. FlattenSeq(q) = FlattenSeq(SubSeq(q, 1, n)) \o FlattenSeq(SubSeq(q, n + 1, Len(q)))
  BY <1>2, FlattenCut
<1> QED  BY <1>1, <1>2, <1>3, <1>4, <1>5, PiecesFacts

\* One frame further: the next message follows the first n.
LEMMA BytesNext ==
    ASSUME NEW ms \in Seq(Msg), NEW n \in 0 .. Len(ms) - 1
    PROVE  Bytes(SubSeq(ms, 1, n + 1)) = Bytes(SubSeq(ms, 1, n)) \o serialize(ms[n + 1])
<1>1. SubSeq(ms, 1, n) \in Seq(Msg) /\ ms[n + 1] \in Msg
  OBVIOUS
<1>2. SubSeq(ms, 1, n + 1) = Append(SubSeq(ms, 1, n), ms[n + 1])
  OBVIOUS
<1> QED  BY <1>1, <1>2, BytesAppend

\* What Messages concatenates.
Kept(ms) == [j \in DOMAIN ms |-> IF WellFormed(ms[j]) THEN <<ms[j]>> ELSE <<>>]

LEMMA KeptFacts ==
    ASSUME NEW ms \in Seq(Msg)
    PROVE  /\ Kept(ms) \in Seq(Seq(Msg)) /\ Len(Kept(ms)) = Len(ms)
           /\ Messages(ms) = FlattenSeq(Kept(ms))
<1>1. \A j \in DOMAIN ms : <<ms[j]>> \in Seq(Msg) /\ <<>> \in Seq(Msg)
  OBVIOUS
<1>2. DOMAIN ms = 1 .. Len(ms) /\ Len(ms) \in Nat
  OBVIOUS
<1>3. Kept(ms) \in [1 .. Len(ms) -> Seq(Msg)]
  BY <1>1, <1>2 DEF Kept
<1> QED  BY <1>2, <1>3 DEF Messages, Kept

LEMMA MessagesEmpty == Messages(<<>>) = <<>>
<1>1. Kept(<<>>) = <<>> /\ Messages(<<>>) = FlattenSeq(Kept(<<>>))
  BY DEF Kept, Messages
<1> QED  BY <1>1, FlattenEmpty

\* One more frame: it is among the messages if it is well-formed.
LEMMA MessagesAppend ==
    ASSUME NEW ms \in Seq(Msg), NEW m \in Msg
    PROVE  Messages(Append(ms, m)) = IF WellFormed(m) THEN Append(Messages(ms), m)
                                                      ELSE Messages(ms)
<1> DEFINE x == IF WellFormed(m) THEN <<m>> ELSE <<>>
<1>0. Append(ms, m) \in Seq(Msg) /\ x \in Seq(Msg)
  OBVIOUS
<1>1. Kept(Append(ms, m)) = Append(Kept(ms), x)
  <2>1. /\ DOMAIN Append(ms, m) = 1 .. Len(ms) + 1 /\ Len(ms) \in Nat
        /\ Append(ms, m)[Len(ms) + 1] = m
        /\ \A j \in 1 .. Len(ms) : Append(ms, m)[j] = ms[j]
    OBVIOUS
  <2>2. DOMAIN ms = 1 .. Len(ms)
    OBVIOUS
  <2> QED  BY <2>1, <2>2, KeptFacts DEF Kept
<1>2. Messages(ms) \in Seq(Msg)
  BY KeptFacts, FlattenType
<1>3. Messages(ms) \o x = IF WellFormed(m) THEN Append(Messages(ms), m) ELSE Messages(ms)
  BY <1>2
<1> HIDE DEF x
<1>4. FlattenSeq(Append(Kept(ms), x)) = FlattenSeq(Kept(ms)) \o x
  BY <1>0, KeptFacts, FlattenAppend
<1> QED  BY <1>0, <1>1, <1>3, <1>4, KeptFacts

----------------------------------------------------------------------------
(* The inductive invariant.                                                *)

\* The stream the peer sends: a handshake, then frames.
ScriptInv ==
    /\ script \in Seq(Msg) /\ Len(script) >= 1
    /\ script[1] \in Handshakes
    /\ \A i \in 2 .. Len(script) : script[i] \in FrameKinds
    /\ arrived \in 0 .. Len(Bytes(script))

\* The types, part by part.
SocketType ==
    /\ state \in ConnectionState
    /\ rx_buffer \in Seq(Byte) /\ tx_buffer \in Seq(Byte)
    /\ fd \in {"none", "registered"} /\ armed \in BOOLEAN
    /\ disconnects \in Nat

FlagType ==
    flags \in [am_choking : BOOLEAN, am_interested : BOOLEAN,
               peer_choking : BOOLEAN, peer_interested : BOOLEAN]

ThreadType ==
    thread \in [pc : {"idle", "events", "process", "callback"}, evs : SUBSET Events]

NetType ==
    /\ remote \in {"none", "dialing", "up", "closed", "reset"}
    /\ taken \in 0 .. arrived
    /\ ScriptInv

OutType == wire \in Seq(Byte) /\ queued \in Seq(Msg)

TypeInv == SocketType /\ FlagType /\ ThreadType /\ NetType /\ OutType

\* Before the handshake is queued nothing is read, and while the connection
\* is being established EPOLLIN never comes without EPOLLOUT.
StartInv ==
    /\ state = "Idle" => thread = Idle /\ tx_buffer = <<>> /\ wire = <<>>
    /\ state \in {"Idle", "Connecting"} => rx_buffer = <<>> /\ queued = <<>> /\ taken = 0
    /\ state = "Connecting" => /\ thread.pc \in {"idle", "events"}
                               /\ "IN" \in thread.evs => "OUT" \in thread.evs
    /\ state \in {"Handshaking", "Active"} => queued # <<>>
    /\ state \in {"Idle", "Connecting", "Handshaking"} => delivered = <<>>

DownInv == DisconnectOnce /\ ReleasedOnDisconnect

\* EPOLLOUT is armed exactly in the middle of handlers, too.
ArmedInv == fd = "registered" => armed = WantsOut(state, tx_buffer)

\* Where the n-th message of the stream ends.
EndOf(n) == Len(Bytes(SubSeq(script, 1, n)))

\* The parser has taken n messages off the stream, and the buffer holds what
\* was read after them.
ParsedTo(n) ==
    /\ EndOf(n) <= taken
    /\ rx_buffer = SubSeq(Bytes(script), EndOf(n) + 1, taken)

ParseInv ==
    /\ state = "Handshaking" => ParsedTo(0)
    /\ state = "Active" => \E n \in 1 .. Len(script) :
                              /\ delivered = Messages(SubSeq(script, 2, n))
                              /\ ParsedTo(n)

ConnectionInv == TypeInv /\ StartInv /\ DownInv /\ ArmedInv /\ WireInOrder /\ ParseInv

----------------------------------------------------------------------------
(* Initially.                                                              *)

LEMMA ScriptsType ==
    ASSUME NEW s \in Scripts
    PROVE  /\ s \in Seq(Msg) /\ Len(s) >= 1 /\ s[1] \in Handshakes
           /\ \A i \in 2 .. Len(s) : s[i] \in FrameKinds
<1>1. PICK hf \in Handshakes \X SeqOf(FrameKinds, MaxFrames) : s = <<hf[1]>> \o hf[2]
  BY DEF Scripts
<1> DEFINE h == hf[1]
           fs == hf[2]
<1>2. h \in Handshakes /\ fs \in SeqOf(FrameKinds, MaxFrames) /\ s = <<h>> \o fs
  BY <1>1
<1> HIDE DEF h, fs
<1>3. PICK n \in 0 .. MaxFrames : fs \in [1 .. n -> FrameKinds]
  BY <1>2 DEF SeqOf
<1>4. n \in Nat /\ Handshakes \subseteq Msg /\ FrameKinds \subseteq Msg
  BY ConnectionAssumption DEF Msg
<1>5. fs \in Seq(FrameKinds)
  BY <1>3, <1>4
<1>6. <<h>> \in Seq(Msg) /\ fs \in Seq(Msg)
  BY <1>2, <1>4, <1>5
<1>7. /\ s \in Seq(Msg) /\ Len(s) = 1 + Len(fs) /\ Len(fs) \in Nat /\ s[1] = h
      /\ \A i \in 2 .. Len(s) : s[i] = fs[i - 1]
  BY <1>2, <1>6
<1>8. ASSUME NEW i \in 2 .. Len(s) PROVE s[i] \in FrameKinds
  <2>1. i - 1 \in 1 .. Len(fs)
    BY <1>7
  <2> QED  BY <1>5, <1>7, <2>1
<1> QED  BY <1>2, <1>7, <1>8

LEMMA InitInv == Init => ConnectionInv
<1> SUFFICES ASSUME Init PROVE ConnectionInv
  OBVIOUS
<1>1. script \in Seq(Msg) /\ ScriptInv
  <2>1. script \in Scripts /\ arrived = 0
    BY DEF Init
  <2>2. script \in Seq(Msg)
    BY <2>1, ScriptsType
  <2>3. Len(Bytes(script)) \in Nat
    BY <2>2, BytesType
  <2> QED  BY <2>1, <2>2, <2>3, ScriptsType DEF ScriptInv
<1>2. TypeInv
  <2>1. state \in ConnectionState /\ fd \in {"none", "registered"} /\ disconnects \in Nat
    BY DEF Init, ConnectionState
  <2>2. armed \in BOOLEAN /\ FlagType
    BY DEF Init, FlagType
  <2>3. rx_buffer \in Seq(Byte) /\ tx_buffer \in Seq(Byte) /\ OutType
    BY DEF Init, OutType
  <2>4. ThreadType
    BY DEF Init, ThreadType, Idle
  <2>5. taken \in 0 .. arrived /\ remote \in {"none", "dialing", "up", "closed", "reset"}
    BY DEF Init
  <2> QED  BY <1>1, <2>1, <2>2, <2>3, <2>4, <2>5 DEF TypeInv, SocketType, NetType
<1>3. StartInv
  BY DEF Init, StartInv
<1>4. DownInv
  BY DEF Init, DownInv, DisconnectOnce, ReleasedOnDisconnect
<1>5. ArmedInv
  BY DEF Init, ArmedInv
<1>6. WireInOrder
  BY BytesEmpty DEF Init, WireInOrder, IsPrefix
<1>7. ParseInv
  BY DEF Init, ParseInv
<1> QED  BY <1>2, <1>3, <1>4, <1>5, <1>6, <1>7 DEF ConnectionInv

----------------------------------------------------------------------------
(* Types.                                                                  *)

\* What disconnect may change keeps its type.
LEMMA DisconnectType ==
    ASSUME SocketType, disconnect
    PROVE  SocketType'
<1>1. CASE state = "Disconnected"
  BY <1>1 DEF SocketType, disconnect, socket
<1>2. CASE state # "Disconnected"
  <2>1. <<>> \in Seq(Byte) /\ "Disconnected" \in ConnectionState
    BY DEF ConnectionState
  <2>2. /\ state' = "Disconnected" /\ fd' = "none" /\ armed' = FALSE
        /\ rx_buffer' = <<>> /\ tx_buffer' = <<>> /\ disconnects' = disconnects + 1
    BY <1>2 DEF disconnect
  <2>3. state' \in ConnectionState /\ fd' \in {"none", "registered"} /\ armed' \in BOOLEAN
    BY <2>1, <2>2
  <2>4. disconnects' \in Nat
    BY <2>2 DEF SocketType
  <2>5. rx_buffer' \in Seq(Byte) /\ tx_buffer' \in Seq(Byte)
    BY <2>1, <2>2
  <2> QED  BY <2>3, <2>4, <2>5 DEF SocketType
<1> QED  BY <1>1, <1>2

\* A buffer is cut into what is sent and what is not.
LEMMA CutType ==
    ASSUME NEW tx \in Seq(Byte), NEW n \in 0 .. Len(tx)
    PROVE  SubSeq(tx, 1, n) \in Seq(Byte) /\ Unsent(tx, n) \in Seq(Byte)
  BY DEF Unsent, Drop

LEMMA WriteType ==
    ASSUME SocketType, wire \in Seq(Byte), NEW st \in ConnectionState,
           NEW tx \in Seq(Byte), handle_write(st, tx)
    PROVE  SocketType' /\ wire' \in Seq(Byte)
<1>1. ASSUME NEW n \in 0 .. Len(tx), wire' = wire \o SubSeq(tx, 1, n),
             tx_buffer' = Unsent(tx, n), armed' = WantsOut(st, Unsent(tx, n)),
             state' = st, UNCHANGED <<rx_buffer, fd, disconnects>>
      PROVE  SocketType' /\ wire' \in Seq(Byte)
  <2>1. SubSeq(tx, 1, n) \in Seq(Byte) /\ Unsent(tx, n) \in Seq(Byte)
    BY CutType
  <2>2. wire \o SubSeq(tx, 1, n) \in Seq(Byte)
    BY <2>1, CatType
  <2>3. armed' \in BOOLEAN
    BY <1>1 DEF WantsOut
  <2> QED  BY <1>1, <2>1, <2>2, <2>3 DEF SocketType
<1>2. ASSUME NEW n \in 0 .. Len(tx) - 1, wire' = wire \o SubSeq(tx, 1, n), disconnect
      PROVE  SocketType' /\ wire' \in Seq(Byte)
  <2>1. n \in 0 .. Len(tx)
    OBVIOUS
  <2>2. SubSeq(tx, 1, n) \in Seq(Byte)
    BY <2>1, CutType
  <2>3. wire \o SubSeq(tx, 1, n) \in Seq(Byte)
    BY <2>2, CatType
  <2> QED  BY <1>2, <2>3, DisconnectType
<1> QED  BY <1>1, <1>2 DEF handle_write

\* The types of the fields, as the model states them.
LEMMA TypeInvOK == TypeInv => TypeOK
<1> SUFFICES ASSUME TypeInv PROVE TypeOK
  OBVIOUS
<1>1. {rx_buffer, tx_buffer, wire} \subseteq Seq(Byte)
  BY DEF TypeInv, SocketType, OutType
<1>2. thread.pc \in {"idle", "events", "process", "callback"} /\ thread.evs \subseteq Events
  BY DEF TypeInv, ThreadType
<1> QED  BY <1>1, <1>2 DEF TypeInv, SocketType, FlagType, NetType, TypeOK

\* An action that leaves alone what a part is about keeps its type.
LEMMA TypesKept ==
    /\ FlagType /\ UNCHANGED flags => FlagType'
    /\ ThreadType /\ UNCHANGED thread => ThreadType'
    /\ NetType /\ UNCHANGED <<net, taken>> => NetType'
    /\ SocketType /\ UNCHANGED socket => SocketType'
    /\ OutType /\ UNCHANGED <<wire, queued>> => OutType'
  BY DEF FlagType, ThreadType, NetType, ScriptInv, net, SocketType, socket, OutType

\* The thread goes on to another step with some of the events.
LEMMA AtType ==
    ASSUME NEW pc \in {"idle", "events", "process", "callback"}, NEW evs \in SUBSET Events,
           thread' = At(pc, evs)
    PROVE  ThreadType'
  BY DEF ThreadType, At

LEMMA IdleType ==
    ASSUME thread' = Idle
    PROVE  ThreadType'
  BY DEF ThreadType, Idle

\* Reading: the bytes that have arrived are appended to the buffer.
LEMMA ReadType ==
    ASSUME SocketType, NetType,
           rx_buffer' = rx_buffer \o SubSeq(Bytes(script), taken + 1, arrived)
    PROVE  rx_buffer' \in Seq(Byte)
<1>1. Bytes(script) \in Seq(Byte) /\ Len(Bytes(script)) \in Nat
  BY BytesType DEF NetType, ScriptInv
<1>2. taken \in Nat /\ arrived \in Nat /\ taken <= arrived /\ arrived <= Len(Bytes(script))
  BY <1>1 DEF NetType, ScriptInv
<1> DEFINE b == Bytes(script)
<1> HIDE DEF b
<1>3. SubSeq(b, taken + 1, arrived) \in Seq(Byte)
  BY <1>1, <1>2 DEF b
<1>4. SubSeq(Bytes(script), taken + 1, arrived) \in Seq(Byte)
  BY <1>3 DEF b
<1> QED  BY <1>4, CatType DEF SocketType

\* Dropping bytes at the front of a buffer that has them.
LEMMA DropType ==
    ASSUME NEW s \in Seq(Byte), NEW n \in Nat, n <= Len(s)
    PROVE  Drop(s, n) \in Seq(Byte)
  BY DEF Drop

\* What the buffer begins with is a byte of a message.
LEMMA FirstByte ==
    ASSUME SocketType, Len(rx_buffer) >= 1
    PROVE  rx_buffer[1][1] \in Msg
<1>1. rx_buffer[1] \in Byte
  BY DEF SocketType
<1> QED  BY <1>1 DEF Byte, Msg

\* connect.
LEMMA ConnectTypes ==
    ASSUME TypeInv, Connect
    PROVE  TypeInv'
<1> USE DEF TypeInv
<1>1. FlagType' /\ ThreadType'
  BY TypesKept DEF Connect, ConnectFails, ConnectAsync, ConnectAtOnce
<1>2. CASE ConnectFails
  <2>1. NetType' /\ OutType'
    BY <1>2, TypesKept DEF ConnectFails, ghosts
  <2>2. SocketType'
    BY <1>2 DEF ConnectFails, buffers, SocketType, ConnectionState
  <2> QED  BY <1>1, <2>1, <2>2
<1>3. CASE ConnectAsync
  <2>1. NetType' /\ OutType'
    BY <1>3, TypesKept DEF ConnectAsync, ghosts, NetType, ScriptInv
  <2>2. armed' \in BOOLEAN
    BY <1>3 DEF ConnectAsync, WantsOut
  <2>3. SocketType'
    BY <1>3, <2>2 DEF ConnectAsync, buffers, SocketType, ConnectionState
  <2> QED  BY <1>1, <2>1, <2>3
<1>4. CASE ConnectAtOnce
  <2>1. "Match" \in Msg
    BY DEF Msg
  <2>2. PICK n \in 0 .. HandshakeSize :
              /\ wire' = SubSeq(serialize("Match"), 1, n)
              /\ tx_buffer' = Unsent(serialize("Match"), n)
              /\ armed' = WantsOut("Handshaking", Unsent(serialize("Match"), n))
    BY <1>4 DEF ConnectAtOnce
  <2>3. serialize("Match") \in Seq(Byte) /\ Len(serialize("Match")) = HandshakeSize
    BY <2>1, Serialized DEF SizeOf
  <2>4. wire' \in Seq(Byte) /\ tx_buffer' \in Seq(Byte)
    BY <2>2, <2>3, CutType
  <2>5. armed' \in BOOLEAN
    BY <2>2 DEF WantsOut
  <2>6. SocketType'
    BY <1>4, <2>4, <2>5 DEF ConnectAtOnce, SocketType, ConnectionState
  <2>7. queued' \in Seq(Msg)
    BY <1>4, <2>1 DEF ConnectAtOnce
  <2>8. NetType'
    BY <1>4 DEF ConnectAtOnce, NetType, ScriptInv
  <2> QED  BY <1>1, <2>4, <2>6, <2>7, <2>8 DEF OutType
<1> QED  BY <1>2, <1>3, <1>4 DEF Connect

\* The network.
LEMMA NetworkTypes ==
    ASSUME TypeInv, Answer \/ Arrive \/ Break
    PROVE  TypeInv'
<1> USE DEF TypeInv
<1>1. FlagType' /\ ThreadType' /\ SocketType' /\ OutType'
  BY TypesKept DEF Answer, Arrive, Break, ghosts
<1>2. CASE Answer \/ Break
  BY <1>1, <1>2 DEF Answer, Break, NetType, ScriptInv
<1>3. CASE Arrive
  <2>1. Len(Bytes(script)) \in Nat
    BY BytesType DEF NetType, ScriptInv
  <2> QED  BY <1>1, <1>3, <2>1 DEF Arrive, NetType, ScriptInv
<1> QED  BY <1>2, <1>3

\* Polling.
LEMMA PollTypes ==
    ASSUME TypeInv, NEW room \in BOOLEAN, Poll(room)
    PROVE  TypeInv'
<1> USE DEF TypeInv
<1>1. FlagType' /\ SocketType' /\ OutType' /\ NetType'
  BY TypesKept DEF Poll, ghosts
<1>2. Ready(room) \in SUBSET Events
  BY DEF Ready
<1>3. ThreadType'
  BY <1>2, AtType DEF Poll
<1> QED  BY <1>1, <1>3

\* handle_events.
LEMMA EventTypes ==
    ASSUME TypeInv, HandleError \/ ConnectDone \/ HandleRead \/ HandleWrite \/ EventsDone
    PROVE  TypeInv'
<1> USE DEF TypeInv
<1>1. FlagType'
  BY TypesKept DEF HandleError, ConnectDone, HandleRead, HandleWrite, EventsDone
<1>2. CASE HandleError
  BY <1>1, <1>2, TypesKept, DisconnectType, IdleType DEF HandleError, ghosts
<1>3. CASE ConnectDone
  <2>1. NetType'
    BY <1>3, TypesKept DEF ConnectDone
  <2>2. CASE remote = "reset"
    BY <1>1, <1>3, <2>1, <2>2, TypesKept, DisconnectType, IdleType DEF ConnectDone
  <2>3. CASE remote # "reset"
    <3>1. "Match" \in Msg /\ "Handshaking" \in ConnectionState
      BY DEF Msg, ConnectionState
    <3>2. tx_buffer \in Seq(Byte) /\ serialize("Match") \in Seq(Byte)
      BY <3>1, Serialized DEF SocketType
    <3>3. tx_buffer \o serialize("Match") \in Seq(Byte)
      BY <3>2, CatType
    <3>4. handle_write("Handshaking", tx_buffer \o serialize("Match"))
      BY <1>3, <2>3 DEF ConnectDone
    <3>5. SocketType' /\ wire' \in Seq(Byte)
      BY <3>1, <3>3, <3>4, WriteType DEF OutType
    <3>6. queued' \in Seq(Msg)
      BY <1>3, <2>3, <3>1 DEF ConnectDone, OutType
    <3>7. ThreadType'
      BY <1>3, <2>3, TypesKept DEF ConnectDone
    <3> QED  BY <1>1, <2>1, <3>5, <3>6, <3>7 DEF OutType
  <2> QED  BY <2>2, <2>3
<1>4. CASE HandleRead
  <2>1. OutType'
    BY <1>4, TypesKept DEF HandleRead, ghosts
  <2>2. thread.evs \ {"IN"} \in SUBSET Events
    BY DEF ThreadType
  <2>3. CASE fd = "none" \/ remote \in {"closed", "reset"}
    <3>1. thread' = At("events", thread.evs \ {"IN"})
      BY <1>4, <2>3 DEF HandleRead
    <3>2. ThreadType'
      BY <2>2, <3>1, AtType
    <3>3. NetType'
      BY <1>4, <2>3, TypesKept DEF HandleRead
    <3> QED  BY <1>1, <1>4, <2>1, <2>3, <3>2, <3>3, DisconnectType DEF HandleRead
  <2>4. CASE ~(fd = "none" \/ remote \in {"closed", "reset"})
    <3>1. thread' = At("process", thread.evs \ {"IN"})
      BY <1>4, <2>4 DEF HandleRead
    <3>2. ThreadType'
      BY <2>2, <3>1, AtType
    <3>3. rx_buffer' \in Seq(Byte)
      BY <1>4, <2>4, ReadType DEF HandleRead
    <3>4. SocketType'
      BY <1>4, <2>4, <3>3 DEF HandleRead, SocketType
    <3>5. NetType'
      BY <1>4, <2>4 DEF HandleRead, NetType, ScriptInv, net
    <3> QED  BY <1>1, <2>1, <3>2, <3>4, <3>5
  <2> QED  BY <2>3, <2>4
<1>5. CASE HandleWrite
  <2>1. ThreadType' /\ NetType'
    BY <1>5, TypesKept, IdleType DEF HandleWrite
  <2>2. CASE state = "Disconnected"
    BY <1>1, <1>5, <2>1, <2>2, TypesKept DEF HandleWrite, ghosts
  <2>3. CASE state # "Disconnected"
    <3>1. SocketType' /\ wire' \in Seq(Byte)
      BY <1>5, <2>3, WriteType DEF HandleWrite, SocketType, OutType
    <3> QED  BY <1>1, <1>5, <2>1, <3>1 DEF HandleWrite, OutType, ghosts
  <2> QED  BY <2>2, <2>3
<1>6. CASE EventsDone
  BY <1>1, <1>6, TypesKept, IdleType DEF EventsDone, ghosts
<1> QED  BY <1>2, <1>3, <1>4, <1>5, <1>6

\* process_rx_buffer.
LEMMA ProcessTypes ==
    ASSUME TypeInv, ProcessStop \/ ProcessHandshake \/ ProcessFrame \/ CallbackReturns
    PROVE  TypeInv'
<1> USE DEF TypeInv
<1>1. NetType' /\ OutType'
  BY TypesKept DEF ProcessStop, ProcessHandshake, ProcessFrame, CallbackReturns, ghosts
<1>2. thread.evs \in SUBSET Events
  BY DEF ThreadType
<1>3. CASE ProcessStop
  <2>1. FlagType' /\ ThreadType'
    BY <1>2, <1>3, TypesKept, AtType DEF ProcessStop
  <2>2. rx_buffer' \in Seq(Byte)
    BY <1>3 DEF ProcessStop, SocketType
  <2>3. SocketType'
    BY <1>3, <2>2 DEF ProcessStop, SocketType
  <2> QED  BY <1>1, <2>1, <2>3
<1>4. CASE ProcessHandshake
  <2>1. FlagType'
    BY <1>4, TypesKept DEF ProcessHandshake
  <2>2. CASE rx_buffer[1][1] = "NotHandshake"
    <3>1. ThreadType'
      BY <1>2, <1>4, <2>2, AtType DEF ProcessHandshake
    <3> QED  BY <1>1, <1>4, <2>1, <2>2, <3>1, DisconnectType DEF ProcessHandshake
  <2>3. CASE rx_buffer[1][1] # "NotHandshake"
    <3>1. ThreadType'
      BY <1>2, <1>4, <2>3, AtType DEF ProcessHandshake
    <3>2. HandshakeSize \in Nat /\ HandshakeSize <= Len(rx_buffer)
      BY <1>4, ConnectionAssumption DEF ProcessHandshake, CanProcess, SocketType
    <3>3. rx_buffer' \in Seq(Byte)
      BY <1>4, <2>3, <3>2, DropType DEF ProcessHandshake, SocketType
    <3>4. SocketType'
      BY <1>4, <2>3, <3>3 DEF ProcessHandshake, SocketType, ConnectionState
    <3> QED  BY <1>1, <2>1, <3>1, <3>4
  <2> QED  BY <2>2, <2>3
<1>5. CASE ProcessFrame
  <2>1. HasFrame(rx_buffer) /\ rx_buffer' = Drop(rx_buffer, Consumed(rx_buffer))
    BY <1>5 DEF ProcessFrame, CanProcess
  <2>2. Len(rx_buffer) >= 1
    BY <2>1, ConnectionAssumption DEF HasFrame, SocketType
  <2>3. SizeOf(rx_buffer[1][1]) \in Nat
    BY <2>2, FirstByte, Serialized
  <2>4. rx_buffer' \in Seq(Byte)
    BY <2>1, <2>3, DropType DEF HasFrame, Consumed, SocketType
  <2>5. SocketType'
    BY <1>5, <2>4 DEF ProcessFrame, SocketType
  <2>6. FlagType'
    <3>1. flags' = Received(rx_buffer[1][1]) \/ flags' = flags
      BY <1>5 DEF ProcessFrame
    <3>2. Received(rx_buffer[1][1]) \in [am_choking : BOOLEAN, am_interested : BOOLEAN,
                                         peer_choking : BOOLEAN, peer_interested : BOOLEAN]
      BY DEF Received, FlagType
    <3> QED  BY <3>1, <3>2 DEF FlagType
  <2>7. ThreadType'
    BY <1>2, <1>5, AtType, TypesKept DEF ProcessFrame
  <2> QED  BY <1>1, <2>5, <2>6, <2>7
<1>6. CASE CallbackReturns
  BY <1>1, <1>2, <1>6, TypesKept, AtType DEF CallbackReturns
<1> QED  BY <1>3, <1>4, <1>5, <1>6

\* The client.
LEMMA ClientTypes ==
    ASSUME TypeInv, Disconnect \/ \E m \in SendKinds : send_message(m)
    PROVE  TypeInv'
<1> USE DEF TypeInv
<1>1. NetType' /\ ThreadType'
  BY TypesKept DEF Disconnect, send_message
<1>2. CASE Disconnect
  BY <1>1, <1>2, TypesKept, DisconnectType DEF Disconnect, ghosts
<1>3. ASSUME NEW m \in SendKinds, send_message(m) PROVE TypeInv'
  <2>1. m \in Msg
    BY ConnectionAssumption DEF Msg
  <2>2. tx_buffer \in Seq(Byte) /\ serialize(m) \in Seq(Byte) /\ state \in ConnectionState
    BY <2>1, Serialized DEF SocketType
  <2>3. tx_buffer \o serialize(m) \in Seq(Byte)
    BY <2>2, CatType
  <2>4. handle_write(state, tx_buffer \o serialize(m))
    BY <1>3 DEF send_message
  <2>5. SocketType' /\ wire' \in Seq(Byte)
    BY <2>2, <2>3, <2>4, WriteType DEF OutType
  <2>6. queued' \in Seq(Msg)
    BY <1>3, <2>1 DEF send_message, OutType
  <2>7. FlagType'
    <3>1. Sent(m) \in [am_choking : BOOLEAN, am_interested : BOOLEAN,
                       peer_choking : BOOLEAN, peer_interested : BOOLEAN]
      BY DEF Sent, FlagType
    <3> QED  BY <1>3, <3>1 DEF send_message, FlagType
  <2> QED  BY <1>1, <2>5, <2>6, <2>7 DEF OutType
<1> QED  BY <1>2, <1>3

----------------------------------------------------------------------------
(* Going down, arming and starting.                                        *)

Control == StartInv /\ DownInv /\ ArmedInv

\* After disconnect everything is released, once.
LEMMA AfterDisconnect ==
    ASSUME DownInv, disconnect
    PROVE  state' = "Disconnected" /\ Control'
<1>1. CASE state = "Disconnected"
  BY <1>1 DEF DownInv, DisconnectOnce, ReleasedOnDisconnect, disconnect, socket, Control,
              StartInv, ArmedInv
<1>2. CASE state # "Disconnected"
  <2>1. /\ state' = "Disconnected" /\ fd' = "none" /\ rx_buffer' = <<>> /\ tx_buffer' = <<>>
        /\ disconnects' = disconnects + 1
    BY <1>2 DEF disconnect
  <2>2. disconnects' = 1
    BY <1>2, <2>1 DEF DownInv, DisconnectOnce
  <2> QED  BY <2>1, <2>2 DEF DownInv, DisconnectOnce, ReleasedOnDisconnect, Control,
                             StartInv, ArmedInv
<1> QED  BY <1>1, <1>2

\* Writing either leaves the connection up, in state st, or takes it down.
LEMMA AfterWrite ==
    ASSUME NEW st, NEW tx, handle_write(st, tx)
    PROVE  \/ /\ state' = st /\ UNCHANGED <<rx_buffer, fd, disconnects>>
              /\ armed' = WantsOut(st, tx_buffer')
           \/ disconnect
  BY DEF handle_write

\* ... so that a connection that was up is up or down as it should be.
LEMMA WriteControl ==
    ASSUME DownInv, NEW st \in {"Handshaking", "Active"}, NEW tx, handle_write(st, tx),
           state \in {"Connecting", "Handshaking", "Active"},
           queued' # <<>>, st = "Handshaking" => delivered' = <<>>
    PROVE  Control'
<1>1. CASE disconnect
  BY <1>1, AfterDisconnect
<1>2. CASE /\ state' = st /\ UNCHANGED <<rx_buffer, fd, disconnects>>
           /\ armed' = WantsOut(st, tx_buffer')
  <2>1. StartInv' /\ ArmedInv'
    BY <1>2 DEF StartInv, ArmedInv
  <2>2. DownInv'
    BY <1>2 DEF DownInv, DisconnectOnce, ReleasedOnDisconnect
  <2> QED  BY <2>1, <2>2 DEF Control
<1> QED  BY <1>1, <1>2, AfterWrite

LEMMA ConnectControl ==
    ASSUME TypeInv, Control, Connect
    PROVE  Control'
<1> USE DEF Control
<1>1. CASE ConnectFails
  BY <1>1 DEF ConnectFails, buffers, StartInv, DownInv, ArmedInv, DisconnectOnce,
              ReleasedOnDisconnect
<1>2. CASE ConnectAsync
  <2>1. StartInv'
    BY <1>2 DEF ConnectAsync, buffers, ghosts, StartInv, Idle
  <2>2. DownInv' /\ ArmedInv'
    BY <1>2 DEF ConnectAsync, buffers, StartInv, DownInv, ArmedInv, DisconnectOnce,
                ReleasedOnDisconnect
  <2> QED  BY <2>1, <2>2
<1>3. CASE ConnectAtOnce
  <2>1. StartInv'
    BY <1>3 DEF ConnectAtOnce, StartInv
  <2>2. DownInv' /\ ArmedInv'
    BY <1>3 DEF ConnectAtOnce, StartInv, DownInv, ArmedInv, DisconnectOnce,
                ReleasedOnDisconnect
  <2> QED  BY <2>1, <2>2
<1> QED  BY <1>1, <1>2, <1>3 DEF Connect

LEMMA NetworkControl ==
    ASSUME TypeInv, Control, Answer \/ Arrive \/ Break
    PROVE  Control'
<1>1. UNCHANGED <<socket, ghosts, thread, taken, wire>>
  BY DEF Answer, Arrive, Break
<1> QED  BY <1>1 DEF Control, StartInv, DownInv, ArmedInv, DisconnectOnce,
                     ReleasedOnDisconnect, socket, ghosts

\* While connecting EPOLLOUT is armed, and so it is reported with EPOLLIN.
LEMMA PollControl ==
    ASSUME TypeInv, Control, NEW room \in BOOLEAN, Poll(room)
    PROVE  Control'
<1> USE DEF Control
<1>1. UNCHANGED <<socket, ghosts, taken, wire>> /\ thread' = At("events", Ready(room))
  BY DEF Poll
<1>2. DownInv' /\ ArmedInv'
  BY <1>1 DEF DownInv, ArmedInv, DisconnectOnce, ReleasedOnDisconnect, socket
<1>3. state # "Idle"
  BY DEF Poll, DownInv, ReleasedOnDisconnect
<1>4. CASE state = "Connecting"
  <2>1. armed
    BY <1>4 DEF Poll, ArmedInv, WantsOut
  <2>2. "IN" \in Ready(room) => "OUT" \in Ready(room)
    BY <1>4, <2>1 DEF Ready, Events
  <2>3. thread'.pc = "events" /\ thread'.evs = Ready(room)
    BY <1>1 DEF At
  <2> QED  BY <1>1, <1>2, <1>4, <2>2, <2>3 DEF StartInv, socket, ghosts
<1>5. CASE state # "Connecting"
  BY <1>1, <1>2, <1>3, <1>5 DEF StartInv, socket, ghosts
<1> QED  BY <1>4, <1>5

LEMMA EventControl ==
    ASSUME TypeInv, Control,
           HandleError \/ ConnectDone \/ HandleRead \/ HandleWrite \/ EventsDone
    PROVE  Control'
<1> USE DEF Control
<1>0. thread.pc = "events" /\ state # "Idle"
  BY DEF HandleError, ConnectDone, HandleRead, HandleWrite, EventsDone, StartInv, Idle, At
<1>1. CASE HandleError
  BY <1>1, AfterDisconnect DEF HandleError
<1>2. CASE ConnectDone
  <2>1. CASE remote = "reset"
    BY <1>2, <2>1, AfterDisconnect DEF ConnectDone
  <2>2. CASE remote # "reset"
    <3>1. handle_write("Handshaking", tx_buffer \o serialize("Match"))
          /\ state = "Connecting" /\ delivered' = delivered
          /\ queued' = Append(queued, "Match")
      BY <1>2, <2>2 DEF ConnectDone
    <3>2. delivered' = <<>> /\ queued' # <<>>
      BY <3>1 DEF StartInv, TypeInv, OutType
    <3> QED  BY <3>1, <3>2, WriteControl
  <2> QED  BY <2>1, <2>2
<1>3. CASE HandleRead
  <2>1. CASE fd = "none" \/ remote \in {"closed", "reset"}
    BY <1>3, <2>1, AfterDisconnect DEF HandleRead
  <2>2. CASE ~(fd = "none" \/ remote \in {"closed", "reset"})
    <3>1. state # "Connecting"
      BY <1>3 DEF HandleRead, StartInv
    <3>2. state \notin {"Idle", "Disconnected"}
      BY <2>2 DEF DownInv, ReleasedOnDisconnect, TypeInv, SocketType
    <3>3. DownInv' /\ ArmedInv'
      BY <1>3, <2>2, <3>2 DEF HandleRead, DownInv, ArmedInv, DisconnectOnce,
                              ReleasedOnDisconnect
    <3>4. StartInv'
      BY <1>3, <2>2, <3>1, <3>2 DEF HandleRead, StartInv, ghosts
    <3> QED  BY <3>3, <3>4
  <2> QED  BY <2>1, <2>2
<1>4. CASE HandleWrite
  <2>1. CASE state = "Disconnected"
    BY <1>4, <2>1 DEF HandleWrite, StartInv, DownInv, ArmedInv, DisconnectOnce,
                      ReleasedOnDisconnect, socket
  <2>2. CASE state # "Disconnected"
    <3>1. state \in {"Handshaking", "Active"} /\ handle_write(state, tx_buffer)
          /\ UNCHANGED ghosts
      BY <1>0, <1>4, <2>2 DEF HandleWrite, TypeInv, SocketType, ConnectionState
    <3>2. queued' # <<>> /\ (state = "Handshaking" => delivered' = <<>>)
      BY <3>1 DEF StartInv, ghosts
    <3> QED  BY <3>1, <3>2, WriteControl
  <2> QED  BY <2>1, <2>2
<1>5. CASE EventsDone
  <2>1. DownInv' /\ ArmedInv'
    BY <1>5 DEF EventsDone, DownInv, ArmedInv, DisconnectOnce, ReleasedOnDisconnect, socket
  <2> QED  BY <1>0, <1>5, <2>1 DEF EventsDone, StartInv, socket, ghosts, Idle
<1> QED  BY <1>1, <1>2, <1>3, <1>4, <1>5

LEMMA ProcessControl ==
    ASSUME TypeInv, Control,
           ProcessStop \/ ProcessHandshake \/ ProcessFrame \/ CallbackReturns
    PROVE  Control'
<1> USE DEF Control
<1>0. state \notin {"Idle", "Connecting"}
  BY DEF ProcessStop, ProcessHandshake, ProcessFrame, CallbackReturns, StartInv, Idle
<1>1. CASE ProcessHandshake /\ rx_buffer[1][1] = "NotHandshake"
  BY <1>1, AfterDisconnect DEF ProcessHandshake
<1>2. CASE ProcessHandshake /\ rx_buffer[1][1] # "NotHandshake"
  BY <1>2 DEF ProcessHandshake, StartInv, DownInv, ArmedInv, DisconnectOnce,
              ReleasedOnDisconnect, WantsOut, ghosts
<1>3. CASE ProcessFrame
  <2>1. /\ UNCHANGED <<state, tx_buffer, fd, armed, disconnects, queued>>
        /\ state = "Active"
    BY <1>3 DEF ProcessFrame
  <2> QED  BY <2>1 DEF StartInv, DownInv, ArmedInv, DisconnectOnce, ReleasedOnDisconnect
<1>4. CASE ProcessStop
  <2>1. DownInv' /\ ArmedInv'
    BY <1>4 DEF ProcessStop, DownInv, ArmedInv, DisconnectOnce, ReleasedOnDisconnect
  <2> QED  BY <1>0, <1>4, <2>1 DEF ProcessStop, StartInv, ghosts
<1>5. CASE CallbackReturns
  <2>1. DownInv' /\ ArmedInv'
    BY <1>5 DEF CallbackReturns, DownInv, ArmedInv, DisconnectOnce, ReleasedOnDisconnect,
                socket
  <2> QED  BY <1>0, <1>5, <2>1 DEF CallbackReturns, StartInv, socket, ghosts
<1> QED  BY <1>1, <1>2, <1>3, <1>4, <1>5

LEMMA ClientControl ==
    ASSUME TypeInv, Control, Disconnect \/ \E m \in SendKinds : send_message(m)
    PROVE  Control'
<1> USE DEF Control
<1>1. CASE Disconnect
  BY <1>1, AfterDisconnect DEF Disconnect
<1>2. ASSUME NEW m \in SendKinds, send_message(m) PROVE Control'
  <2>1. state = "Active" /\ handle_write(state, tx_buffer \o serialize(m))
        /\ queued' = Append(queued, m)
    BY <1>2 DEF send_message
  <2>2. queued' # <<>>
    BY <2>1 DEF TypeInv, OutType
  <2> QED  BY <2>1, <2>2, WriteControl
<1> QED  BY <1>1, <1>2

----------------------------------------------------------------------------
(* What is sent.                                                           *)

\* The elements of a concatenation, and equality by elements.
LEMMA CatElements ==
    ASSUME NEW s \in Seq(Byte), NEW t \in Seq(Byte)
    PROVE  /\ s \o t \in Seq(Byte) /\ Len(s \o t) = Len(s) + Len(t)
           /\ \A i \in 1 .. Len(s) + Len(t) :
                 (s \o t)[i] = IF i <= Len(s) THEN s[i] ELSE t[i - Len(s)]
  OBVIOUS

LEMMA SameElements ==
    ASSUME NEW s \in Seq(Byte), NEW t \in Seq(Byte), Len(s) = Len(t),
           \A i \in 1 .. Len(t) : s[i] = t[i]
    PROVE  s = t
  OBVIOUS

\* Moving n bytes of the buffer to the wire.
LEMMA CutJoin ==
    ASSUME NEW w \in Seq(Byte), NEW tx \in Seq(Byte), NEW n \in 0 .. Len(tx)
    PROVE  /\ IsPrefix(w \o SubSeq(tx, 1, n), w \o tx)
           /\ (w \o SubSeq(tx, 1, n)) \o Unsent(tx, n) = w \o tx
<1> DEFINE u == SubSeq(tx, 1, n)
           v == Unsent(tx, n)
<1>1. /\ u \in Seq(Byte) /\ Len(u) = n /\ \A i \in 1 .. n : u[i] = tx[i]
      /\ v \in Seq(Byte) /\ Len(v) = Len(tx) - n
      /\ \A i \in 1 .. Len(tx) - n : v[i] = tx[i + n]
  BY DEF Unsent, Drop
<1>2. Len(w) \in Nat /\ Len(tx) \in Nat
  OBVIOUS
<1> HIDE DEF u, v
<1>3. /\ w \o u \in Seq(Byte) /\ Len(w \o u) = Len(w) + n
      /\ \A i \in 1 .. Len(w) + n : (w \o u)[i] = IF i <= Len(w) THEN w[i] ELSE u[i - Len(w)]
  BY <1>1, CatElements
<1>4. /\ w \o tx \in Seq(Byte) /\ Len(w \o tx) = Len(w) + Len(tx)
      /\ \A i \in 1 .. Len(w) + Len(tx) :
            (w \o tx)[i] = IF i <= Len(w) THEN w[i] ELSE tx[i - Len(w)]
  OBVIOUS
<1> DEFINE a == w \o u
           b == w \o tx
<1> HIDE DEF a, b
<1>5. \A i \in 1 .. Len(a) : a[i] = b[i]
  BY <1>1, <1>2, <1>3, <1>4 DEF a, b
<1>6. IsPrefix(a, b)
  BY <1>1, <1>2, <1>3, <1>4, <1>5 DEF a, b, IsPrefix
<1>7. a \o v = b
  <2>1. /\ a \o v \in Seq(Byte) /\ Len(a \o v) = Len(a) + Len(v)
        /\ \A i \in 1 .. Len(a) + Len(v) :
              (a \o v)[i] = IF i <= Len(a) THEN a[i] ELSE v[i - Len(a)]
    <3>1. a \in Seq(Byte)
      BY <1>3 DEF a
    <3> QED  BY <1>1, <3>1, CatElements
  <2>2. Len(a) + Len(v) = Len(b)
    BY <1>1, <1>2, <1>3, <1>4 DEF a, b
  <2>3. ASSUME NEW i \in 1 .. Len(b) PROVE (a \o v)[i] = b[i]
    <3>1. CASE i <= Len(a)
      BY <1>3, <1>5, <2>1, <2>2, <3>1 DEF a
    <3>2. CASE ~(i <= Len(a))
      <4>1. Len(a) = Len(w) + n /\ Len(b) = Len(w) + Len(tx)
        BY <1>3, <1>4 DEF a, b
      <4>2. i - Len(a) \in 1 .. Len(tx) - n /\ (i - Len(a)) + n = i - Len(w)
        BY <1>2, <3>2, <4>1
      <4>3. v[i - Len(a)] = tx[i - Len(w)]
        BY <1>1, <4>2
      <4>4. b[i] = tx[i - Len(w)]
        BY <1>2, <1>4, <3>2, <4>1 DEF b
      <4> QED  BY <2>1, <2>2, <3>2, <4>3, <4>4
    <3> QED  BY <3>1, <3>2
  <2>4. b \in Seq(Byte)
    BY <1>4 DEF b
  <2> QED  BY <2>1, <2>2, <2>3, <2>4, SameElements
<1> QED  BY <1>6, <1>7 DEF a, b, u, v

\* A write puts on the wire what comes next, and keeps the rest.
LEMMA WriteWire ==
    ASSUME SocketType, wire \in Seq(Byte), NEW st, NEW tx \in Seq(Byte),
           handle_write(st, tx), wire \o tx = Bytes(queued')
    PROVE  /\ IsPrefix(wire', Bytes(queued'))
           /\ state' # "Disconnected" => wire' \o tx_buffer' = Bytes(queued')
<1>1. ASSUME NEW n \in 0 .. Len(tx), wire' = wire \o SubSeq(tx, 1, n),
             tx_buffer' = Unsent(tx, n)
      PROVE  IsPrefix(wire', Bytes(queued')) /\ wire' \o tx_buffer' = Bytes(queued')
  BY <1>1, CutJoin
<1>2. ASSUME NEW n \in 0 .. Len(tx) - 1, wire' = wire \o SubSeq(tx, 1, n)
      PROVE  IsPrefix(wire', Bytes(queued'))
  <2>1. n \in 0 .. Len(tx)
    OBVIOUS
  <2> QED  BY <1>2, <2>1, CutJoin
<1>3. disconnect => state' = "Disconnected"
  BY DEF disconnect, socket
<1> QED  BY <1>1, <1>2, <1>3 DEF handle_write

\* Queueing a message and writing.
LEMMA QueueWire ==
    ASSUME TypeInv, WireInOrder, state # "Disconnected",
           NEW m \in Msg, queued = <<>> => m = "Match",
           queued' = Append(queued, m), NEW st,
           handle_write(st, tx_buffer \o serialize(m))
    PROVE  WireInOrder'
<1> DEFINE tx == tx_buffer \o serialize(m)
<1>1. /\ wire \in Seq(Byte) /\ tx_buffer \in Seq(Byte) /\ serialize(m) \in Seq(Byte)
      /\ queued \in Seq(Msg) /\ SocketType
  BY Serialized DEF TypeInv, SocketType, OutType
<1>2. tx \in Seq(Byte)
  BY <1>1, CatType
<1>3. wire \o tx = Bytes(queued')
  <2>1. Bytes(queued') = Bytes(queued) \o serialize(m)
    BY <1>1, BytesAppend
  <2>2. Bytes(queued) = wire \o tx_buffer
    BY DEF WireInOrder
  <2> DEFINE s == serialize(m)
  <2>3. s \in Seq(Byte)
    BY <1>1
  <2> HIDE DEF s
  <2>4. (wire \o tx_buffer) \o s = wire \o (tx_buffer \o s)
    BY ONLY <1>1, <2>3
  <2> QED  BY <2>1, <2>2, <2>4 DEF s
<1> HIDE DEF tx
<1>4. /\ IsPrefix(wire', Bytes(queued'))
      /\ state' # "Disconnected" => wire' \o tx_buffer' = Bytes(queued')
  BY <1>1, <1>2, <1>3, WriteWire DEF tx
<1>5. queued'[1] = "Match"
  BY <1>1 DEF WireInOrder
<1> QED  BY <1>4, <1>5 DEF WireInOrder

\* What neither sends nor queues.
LEMMA WireKept ==
    ASSUME WireInOrder, UNCHANGED <<wire, queued>>,
           \/ state' = "Disconnected"
           \/ state # "Disconnected" /\ UNCHANGED tx_buffer
    PROVE  WireInOrder'
  BY DEF WireInOrder

LEMMA WireStep ==
    ASSUME TypeInv, Control, WireInOrder, Next
    PROVE  WireInOrder'
<1>0. disconnect => state' = "Disconnected"
  BY DEF disconnect, socket
<1>1. CASE ConnectFails \/ ConnectAsync
  BY <1>1, WireKept DEF ConnectFails, ConnectAsync, buffers, ghosts
<1>2. CASE ConnectAtOnce
  <2>1. PICK n \in 0 .. HandshakeSize :
              /\ wire' = SubSeq(serialize("Match"), 1, n)
              /\ tx_buffer' = Unsent(serialize("Match"), n)
    BY <1>2 DEF ConnectAtOnce
  <2>2. "Match" \in Msg /\ <<>> \in Seq(Msg) /\ queued' = Append(<<>>, "Match")
    BY <1>2 DEF ConnectAtOnce, Msg
  <2> DEFINE s == serialize("Match")
  <2>3. s \in Seq(Byte) /\ Len(s) = HandshakeSize
    BY <2>2, Serialized DEF SizeOf
  <2>4. Bytes(queued') = <<>> \o s
    BY <2>2, BytesAppend, BytesEmpty
  <2> HIDE DEF s
  <2>5. <<>> \in Seq(Byte) /\ n \in 0 .. Len(s) /\ SubSeq(s, 1, n) \in Seq(Byte)
    BY <2>3
  <2>6. IsPrefix(<<>> \o SubSeq(s, 1, n), <<>> \o s)
        /\ (<<>> \o SubSeq(s, 1, n)) \o Unsent(s, n) = <<>> \o s
    BY <2>3, <2>5, CutJoin
  <2>7. <<>> \o SubSeq(s, 1, n) = SubSeq(s, 1, n)
    BY <2>5
  <2> QED  BY <2>1, <2>2, <2>4, <2>6, <2>7 DEF WireInOrder, s
<1>3. CASE Answer \/ Arrive \/ Break \/ EventsDone \/ CallbackReturns
           \/ \E room \in BOOLEAN : Poll(room)
  <2>1. UNCHANGED <<socket, wire, queued>>
    BY <1>3 DEF Answer, Arrive, Break, EventsDone, CallbackReturns, Poll, ghosts
  <2> QED  BY <2>1 DEF WireInOrder, socket
<1>4. CASE HandleError
  BY <1>0, <1>4, WireKept DEF HandleError, ghosts
<1>5. CASE ConnectDone
  <2>1. CASE remote = "reset"
    BY <1>0, <1>5, <2>1, WireKept DEF ConnectDone
  <2>2. CASE remote # "reset"
    <3>1. "Match" \in Msg /\ state # "Disconnected"
      BY <1>5 DEF ConnectDone, Msg
    <3>2. /\ queued' = Append(queued, "Match")
          /\ handle_write("Handshaking", tx_buffer \o serialize("Match"))
      BY <1>5, <2>2 DEF ConnectDone
    <3> QED  BY <3>1, <3>2, QueueWire
  <2> QED  BY <2>1, <2>2
<1>6. CASE HandleRead
  <2>1. UNCHANGED <<wire, queued>>
    BY <1>6 DEF HandleRead, ghosts
  <2>2. CASE fd = "none" \/ remote \in {"closed", "reset"}
    BY <1>0, <1>6, <2>1, <2>2, WireKept DEF HandleRead
  <2>3. CASE ~(fd = "none" \/ remote \in {"closed", "reset"})
    BY <1>6, <2>1, <2>3 DEF HandleRead, WireInOrder
  <2> QED  BY <2>2, <2>3
<1>7. CASE HandleWrite
  <2>1. queued' = queued
    BY <1>7 DEF HandleWrite, ghosts
  <2>2. CASE state = "Disconnected"
    BY <1>7, <2>1, <2>2 DEF HandleWrite, WireInOrder, socket
  <2>3. CASE state # "Disconnected"
    <3>1. handle_write(state, tx_buffer) /\ wire \o tx_buffer = Bytes(queued')
      BY <1>7, <2>1, <2>3 DEF HandleWrite, WireInOrder
    <3>2. SocketType /\ wire \in Seq(Byte) /\ tx_buffer \in Seq(Byte)
      BY DEF TypeInv, SocketType, OutType
    <3>3. /\ IsPrefix(wire', Bytes(queued'))
          /\ state' # "Disconnected" => wire' \o tx_buffer' = Bytes(queued')
      BY <3>1, <3>2, WriteWire
    <3> QED  BY <2>1, <3>3 DEF WireInOrder
  <2> QED  BY <2>2, <2>3
<1>8. CASE ProcessStop
  BY <1>8 DEF ProcessStop, WireInOrder, ghosts
<1>9. CASE ProcessHandshake
  <2>1. UNCHANGED <<wire, queued>> /\ state # "Disconnected"
    BY <1>9 DEF ProcessHandshake, ghosts
  <2> QED  BY <1>0, <1>9, <2>1, WireKept DEF ProcessHandshake
<1>10. CASE ProcessFrame
  <2>1. UNCHANGED <<wire, queued, tx_buffer, state>>
    BY <1>10 DEF ProcessFrame
  <2> QED  BY <2>1 DEF WireInOrder
<1>11. ASSUME NEW m \in SendKinds, send_message(m) PROVE WireInOrder'
  <2>1. m \in Msg
    BY ConnectionAssumption DEF Msg
  <2>2. /\ queued' = Append(queued, m) /\ state = "Active"
        /\ handle_write(state, tx_buffer \o serialize(m))
    BY <1>11 DEF send_message
  <2>3. queued # <<>>
    BY <2>2 DEF Control, StartInv
  <2> QED  BY <2>1, <2>2, <2>3, QueueWire
<1>12. CASE Disconnect
  BY <1>0, <1>12, WireKept DEF Disconnect, ghosts
<1> QED  BY <1>1, <1>2, <1>3, <1>4, <1>5, <1>6, <1>7, <1>8, <1>9, <1>10, <1>11, <1>12
         DEF Next, Connect, Handler

----------------------------------------------------------------------------
(* What is read.                                                           *)

\* Two adjacent pieces of a stream.
LEMMA SubJoin ==
    ASSUME NEW b \in Seq(Byte), NEW i \in Nat, NEW j \in Nat, NEW k \in Nat,
           i <= j, j <= k, k <= Len(b)
    PROVE  SubSeq(b, i + 1, j) \o SubSeq(b, j + 1, k) = SubSeq(b, i + 1, k)
<1> DEFINE s == SubSeq(b, i + 1, j)
           t == SubSeq(b, j + 1, k)
           u == SubSeq(b, i + 1, k)
<1>1. /\ s \in Seq(Byte) /\ Len(s) = j - i /\ \A x \in 1 .. j - i : s[x] = b[x + i]
      /\ t \in Seq(Byte) /\ Len(t) = k - j /\ \A x \in 1 .. k - j : t[x] = b[x + j]
      /\ u \in Seq(Byte) /\ Len(u) = k - i /\ \A x \in 1 .. k - i : u[x] = b[x + i]
  OBVIOUS
<1> HIDE DEF s, t, u
<1>2. /\ s \o t \in Seq(Byte) /\ Len(s \o t) = Len(s) + Len(t)
      /\ \A x \in 1 .. Len(s) + Len(t) :
            (s \o t)[x] = IF x <= Len(s) THEN s[x] ELSE t[x - Len(s)]
  BY <1>1, CatElements
<1>3. ASSUME NEW x \in 1 .. Len(u) PROVE (s \o t)[x] = u[x]
  <2>1. x \in 1 .. k - i /\ x \in 1 .. Len(s) + Len(t) /\ u[x] = b[x + i]
    BY <1>1
  <2>2. CASE x <= Len(s)
    BY <1>1, <1>2, <2>1, <2>2
  <2>3. CASE ~(x <= Len(s))
    <3>1. x - (j - i) \in 1 .. k - j /\ (x - (j - i)) + j = x + i
      BY <1>1, <2>1, <2>3
    <3> QED  BY <1>1, <1>2, <2>1, <2>3, <3>1
  <2> QED  BY <2>2, <2>3
<1> DEFINE v == s \o t
<1>4. v \in Seq(Byte) /\ Len(v) = Len(u) /\ \A x \in 1 .. Len(u) : v[x] = u[x]
  BY <1>1, <1>2, <1>3
<1> HIDE DEF v
<1>5. v = u
  BY <1>1, <1>4, SameElements
<1> QED  BY <1>5 DEF s, t, u, v

\* Taking bytes off the front of a piece of a stream.
LEMMA SubDrop ==
    ASSUME NEW b \in Seq(Byte), NEW i \in Nat, NEW d \in Nat, NEW k \in Nat,
           i + d <= k, k <= Len(b)
    PROVE  Drop(SubSeq(b, i + 1, k), d) = SubSeq(b, i + d + 1, k)
<1> DEFINE s == SubSeq(b, i + 1, k)
           u == SubSeq(b, i + d + 1, k)
<1>1. /\ s \in Seq(Byte) /\ Len(s) = k - i /\ \A x \in 1 .. k - i : s[x] = b[x + i]
      /\ u \in Seq(Byte) /\ Len(u) = k - i - d /\ \A x \in 1 .. k - i - d : u[x] = b[x + i + d]
  OBVIOUS
<1> HIDE DEF s, u
<1> DEFINE v == SubSeq(s, d + 1, Len(s))
<1>2. /\ v \in Seq(Byte) /\ Len(v) = k - i - d
      /\ \A x \in 1 .. k - i - d : v[x] = s[x + d]
  BY <1>1
<1> HIDE DEF v
<1>3. ASSUME NEW x \in 1 .. Len(u) PROVE v[x] = u[x]
  <2>1. x \in 1 .. k - i - d /\ x + d \in 1 .. k - i /\ (x + d) + i = x + i + d
    BY <1>1
  <2> QED  BY <1>1, <1>2, <2>1
<1>4. v = u
  BY <1>1, <1>2, <1>3, SameElements
<1> QED  BY <1>4 DEF s, u, v, Drop

\* Where messages end in the stream, and what follows there.
LEMMA EndFacts ==
    ASSUME ScriptInv, NEW n \in 0 .. Len(script)
    PROVE  /\ Bytes(script) \in Seq(Byte) /\ EndOf(n) \in Nat
           /\ EndOf(n) <= Len(Bytes(script))
           /\ n = 0 => EndOf(n) = 0
           /\ n = Len(script) => EndOf(n) = Len(Bytes(script))
           /\ n < Len(script) =>
                 /\ script[n + 1] \in Msg
                 /\ EndOf(n + 1) = EndOf(n) + SizeOf(script[n + 1])
                 /\ EndOf(n + 1) <= Len(Bytes(script))
                 /\ Bytes(script)[EndOf(n) + 1] = <<script[n + 1], 1>>
<1>0. script \in Seq(Msg) /\ Len(script) \in Nat
  BY DEF ScriptInv
<1>1. ASSUME NEW i \in 0 .. Len(script)
      PROVE  /\ Bytes(SubSeq(script, 1, i)) \in Seq(Byte)
             /\ Bytes(SubSeq(script, i + 1, Len(script))) \in Seq(Byte)
  <2>1. SubSeq(script, 1, i) \in Seq(Msg) /\ SubSeq(script, i + 1, Len(script)) \in Seq(Msg)
    BY <1>0
  <2> QED  BY <2>1, BytesType
<1>2. Bytes(script) \in Seq(Byte)
  BY <1>0, BytesType
<1>3. ASSUME NEW i \in 0 .. Len(script)
      PROVE  /\ Bytes(script) = Bytes(SubSeq(script, 1, i))
                                  \o Bytes(SubSeq(script, i + 1, Len(script)))
             /\ EndOf(i) \in Nat /\ EndOf(i) <= Len(Bytes(script))
  <2> DEFINE s == Bytes(SubSeq(script, 1, i))
             t == Bytes(SubSeq(script, i + 1, Len(script)))
  <2>1. Bytes(script) = s \o t
    BY <1>0, BytesCut
  <2>2. s \in Seq(Byte) /\ t \in Seq(Byte)
    BY <1>1
  <2> HIDE DEF s, t
  <2>3. Len(s) \in Nat /\ Len(t) \in Nat /\ Len(s \o t) = Len(s) + Len(t)
    BY <2>2
  <2>4. Len(s) <= Len(Bytes(script))
    BY <2>1, <2>3
  <2> QED  BY <2>1, <2>3, <2>4 DEF s, t, EndOf
<1>4. n = 0 => EndOf(n) = 0
  <2>1. SubSeq(script, 1, 0) = <<>>
    BY <1>0
  <2>2. EndOf(0) = Len(<<>>)
    BY <2>1, BytesEmpty DEF EndOf
  <2> QED  BY <2>2
<1>5. n = Len(script) => EndOf(n) = Len(Bytes(script))
  <2>1. SubSeq(script, 1, Len(script)) = script
    BY <1>0
  <2> QED  BY <2>1 DEF EndOf
<1>6. ASSUME n < Len(script)
      PROVE  /\ script[n + 1] \in Msg
             /\ EndOf(n + 1) = EndOf(n) + SizeOf(script[n + 1])
             /\ EndOf(n + 1) <= Len(Bytes(script))
             /\ Bytes(script)[EndOf(n) + 1] = <<script[n + 1], 1>>
  <2>1. script[n + 1] \in Msg /\ n \in 0 .. Len(script) - 1 /\ n + 1 \in 0 .. Len(script)
    BY <1>0, <1>6
  <2> DEFINE a == Bytes(SubSeq(script, 1, n))
             c == serialize(script[n + 1])
             z == Bytes(SubSeq(script, n + 2, Len(script)))
  <2>2. Bytes(SubSeq(script, 1, n + 1)) = a \o c
    BY <1>0, <2>1, BytesNext
  <2>3. Bytes(script) = (a \o c) \o z
    <3>1. (n + 1) + 1 = n + 2
      OBVIOUS
    <3> QED  BY <1>3, <2>1, <2>2, <3>1
  <2>4. /\ a \in Seq(Byte) /\ c \in Seq(Byte) /\ Len(c) = SizeOf(script[n + 1])
        /\ SizeOf(script[n + 1]) >= 1 /\ SizeOf(script[n + 1]) \in Nat
        /\ c[1] = <<script[n + 1], 1>>
    BY <1>1, <2>1, Serialized
  <2>5. z \in Seq(Byte)
    <3>1. (n + 1) + 1 = n + 2
      OBVIOUS
    <3> QED  BY <1>1, <2>1, <3>1
  <2>6. EndOf(n) = Len(a) /\ EndOf(n + 1) = Len(a \o c)
    BY <2>2 DEF EndOf
  <2> HIDE DEF a, c, z
  <2>7. Len(a \o c) = Len(a) + Len(c) /\ Len(a) \in Nat /\ Len(c) >= 1 /\ Len(c) \in Nat
        /\ a \o c \in Seq(Byte)
    BY <2>4, CatElements
  <2>8. (a \o c)[Len(a) + 1] = c[1]
    BY <2>4, <2>7, CatElements
  <2>9. ((a \o c) \o z)[Len(a) + 1] = (a \o c)[Len(a) + 1]
    <3> DEFINE ac == a \o c
    <3>1. Len(z) \in Nat /\ Len(a) + 1 \in 1 .. Len(ac) + Len(z) /\ Len(a) + 1 <= Len(ac)
      BY <2>5, <2>7
    <3>2. ac \in Seq(Byte)
      BY <2>7
    <3> HIDE DEF ac
    <3>3. (ac \o z)[Len(a) + 1] = ac[Len(a) + 1]
      BY <2>5, <3>1, <3>2, CatElements
    <3> QED  BY <3>3 DEF ac
  <2>10. EndOf(n + 1) <= Len(Bytes(script))
    BY <1>3, <2>1
  <2> QED  BY <2>1, <2>3, <2>4, <2>6, <2>7, <2>8, <2>9, <2>10
<1> QED  BY <1>2, <1>3, <1>4, <1>5, <1>6

\* recv appends what has arrived.
LEMMA ParseRead ==
    ASSUME NetType, NEW n \in 0 .. Len(script), ParsedTo(n),
           rx_buffer' = rx_buffer \o SubSeq(Bytes(script), taken + 1, arrived),
           taken' = arrived, script' = script
    PROVE  ParsedTo(n)'
<1> DEFINE b == Bytes(script)
<1>1. b \in Seq(Byte) /\ EndOf(n) \in Nat /\ EndOf(n) <= taken /\ Len(b) \in Nat
  BY EndFacts DEF NetType, ParsedTo
<1>2. taken \in Nat /\ arrived \in Nat /\ taken <= arrived /\ arrived <= Len(b)
  BY <1>1 DEF NetType, ScriptInv
<1>3. rx_buffer' = SubSeq(b, EndOf(n) + 1, taken) \o SubSeq(b, taken + 1, arrived)
  BY DEF ParsedTo
<1>4. EndOf(n)' = EndOf(n) /\ Bytes(script)' = Bytes(script)
  BY DEF EndOf
<1> HIDE DEF b
<1>5. rx_buffer' = SubSeq(b, EndOf(n) + 1, arrived)
  BY <1>1, <1>2, <1>3, SubJoin
<1>6. EndOf(n) <= arrived
  BY <1>1, <1>2
<1> QED  BY <1>4, <1>5, <1>6 DEF ParsedTo, b

\* If anything is buffered, it begins with the next message of the stream.
LEMMA ParseFirst ==
    ASSUME NetType, NEW n \in 0 .. Len(script), ParsedTo(n), Len(rx_buffer) >= 1
    PROVE  n < Len(script) /\ rx_buffer[1] = <<script[n + 1], 1>>
<1> DEFINE b == Bytes(script)
           e == EndOf(n)
<1>0. ScriptInv /\ Len(script) \in Nat /\ n \in Nat
  BY DEF NetType, ScriptInv
<1>1. /\ b \in Seq(Byte) /\ e \in Nat /\ e <= taken /\ Len(b) \in Nat
      /\ rx_buffer = SubSeq(b, e + 1, taken)
      /\ n = Len(script) => e = Len(b)
  BY <1>0, EndFacts DEF ParsedTo
<1>2. taken \in Nat /\ taken <= Len(b)
  BY <1>1 DEF NetType, ScriptInv
<1>3. n < Len(script) => b[e + 1] = <<script[n + 1], 1>>
  BY <1>0, EndFacts
<1> HIDE DEF b, e
<1>4. Len(rx_buffer) = taken - e /\ e + 1 <= taken
  BY <1>1, <1>2
<1>5. rx_buffer[1] = b[e + 1]
  BY <1>1, <1>2, <1>4
<1>6. n < Len(script)
  BY <1>0, <1>1, <1>2, <1>4
<1> QED  BY <1>3, <1>5, <1>6

\* Taking the next message off the buffer.
LEMMA ParseDrop ==
    ASSUME NetType, NEW n \in 0 .. Len(script), ParsedTo(n), n < Len(script),
           Len(rx_buffer) >= SizeOf(script[n + 1]),
           rx_buffer' = Drop(rx_buffer, SizeOf(script[n + 1])),
           UNCHANGED <<taken, script>>
    PROVE  ParsedTo(n + 1)'
<1> DEFINE b == Bytes(script)
           e == EndOf(n)
           d == SizeOf(script[n + 1])
<1>0. ScriptInv /\ Len(script) \in Nat /\ n \in Nat
  BY DEF NetType, ScriptInv
<1>1. /\ b \in Seq(Byte) /\ e \in Nat /\ e <= taken /\ Len(b) \in Nat
      /\ rx_buffer = SubSeq(b, e + 1, taken)
      /\ script[n + 1] \in Msg /\ EndOf(n + 1) = e + d
  BY <1>0, EndFacts DEF ParsedTo
<1>2. taken \in Nat /\ taken <= Len(b)
  BY <1>1 DEF NetType, ScriptInv
<1>3. d \in Nat /\ Len(rx_buffer) >= d /\ rx_buffer' = Drop(rx_buffer, d)
  BY <1>1, Serialized
<1>4. EndOf(n + 1)' = EndOf(n + 1) /\ Bytes(script)' = Bytes(script)
  BY DEF EndOf
<1> HIDE DEF b, e, d
<1>5. Len(rx_buffer) = taken - e /\ e + d <= taken
  BY <1>1, <1>2, <1>3
<1>6. rx_buffer' = SubSeq(b, e + d + 1, taken)
  BY <1>1, <1>2, <1>3, <1>5, SubDrop
<1> QED  BY <1>1, <1>4, <1>5, <1>6 DEF ParsedTo, b

\* A new connection has read nothing.
LEMMA ParseNothing ==
    ASSUME ScriptInv, UNCHANGED script, rx_buffer' = <<>>, taken' = 0
    PROVE  ParsedTo(0)'
<1>1. Len(script) \in Nat /\ 0 \in 0 .. Len(script)
  BY DEF ScriptInv
<1>2. Bytes(script) \in Seq(Byte) /\ EndOf(0) = 0
  BY <1>1, EndFacts
<1>3. SubSeq(Bytes(script), 0 + 1, 0) = <<>>
  BY <1>2
<1>4. EndOf(0)' = EndOf(0) /\ Bytes(script)' = Bytes(script)
  BY DEF EndOf
<1> QED  BY <1>2, <1>3, <1>4 DEF ParsedTo

\* What does not touch the stream, the buffer or the state.
LEMMA ParseKept ==
    ASSUME ParseInv, UNCHANGED <<rx_buffer, taken, script, delivered>>,
           state' = state \/ state' \notin {"Handshaking", "Active"}
    PROVE  ParseInv'
  BY DEF ParseInv, ParsedTo, EndOf

\* One frame more.
LEMMA SubAppend ==
    ASSUME NEW s \in Seq(Msg), NEW n \in Nat, n >= 1, n + 1 <= Len(s)
    PROVE  SubSeq(s, 2, n + 1) = Append(SubSeq(s, 2, n), s[n + 1])
  OBVIOUS

LEMMA ParseStep ==
    ASSUME TypeInv, Control, ParseInv, Next
    PROVE  ParseInv'
<1>0. NetType /\ ScriptInv /\ script \in Seq(Msg) /\ Len(script) \in Nat
  BY DEF TypeInv, NetType, ScriptInv
<1>1. disconnect => state' = "Disconnected"
  BY DEF disconnect, socket
<1>2. state' = "Disconnected" => ParseInv'
  BY DEF ParseInv
<1>3. CASE ConnectFails \/ ConnectAsync
  BY <1>3 DEF ConnectFails, ConnectAsync, ParseInv
<1>4. CASE ConnectAtOnce
  <2>1. UNCHANGED script /\ rx_buffer' = <<>> /\ taken' = 0 /\ state' = "Handshaking"
    BY <1>4 DEF ConnectAtOnce, Control, StartInv
  <2>2. ParsedTo(0)'
    BY <1>0, <2>1, ParseNothing
  <2> QED  BY <2>1, <2>2 DEF ParseInv
<1>5. CASE Answer \/ Arrive \/ Break \/ EventsDone \/ CallbackReturns
           \/ \E room \in BOOLEAN : Poll(room)
  <2>1. UNCHANGED <<rx_buffer, taken, script, delivered, state>>
    BY <1>5 DEF Answer, Arrive, Break, EventsDone, CallbackReturns, Poll, ghosts, socket, net
  <2> QED  BY <2>1, ParseKept
<1>6. CASE HandleError \/ Disconnect
  BY <1>1, <1>2, <1>6 DEF HandleError, Disconnect
<1>7. CASE ConnectDone
  <2>1. CASE remote = "reset"
    BY <1>1, <1>2, <1>7, <2>1 DEF ConnectDone
  <2>2. CASE remote # "reset"
    <3>1. handle_write("Handshaking", tx_buffer \o serialize("Match"))
      BY <1>7, <2>2 DEF ConnectDone
    <3>2. CASE disconnect
      BY <1>1, <1>2, <3>2
    <3>3. CASE state' = "Handshaking" /\ UNCHANGED rx_buffer
      <4>1. UNCHANGED script /\ rx_buffer' = <<>> /\ taken' = 0
        BY <1>7, <3>3 DEF ConnectDone, Control, StartInv, net
      <4>2. ParsedTo(0)'
        BY <1>0, <4>1, ParseNothing
      <4> QED  BY <3>3, <4>2 DEF ParseInv
    <3> QED  BY <3>1, <3>2, <3>3, AfterWrite
  <2> QED  BY <2>1, <2>2
<1>8. CASE HandleRead
  <2>1. CASE fd = "none" \/ remote \in {"closed", "reset"}
    BY <1>1, <1>2, <1>8, <2>1 DEF HandleRead
  <2>2. CASE ~(fd = "none" \/ remote \in {"closed", "reset"})
    <3>1. /\ rx_buffer' = rx_buffer \o SubSeq(Bytes(script), taken + 1, arrived)
          /\ taken' = arrived /\ UNCHANGED <<script, state, delivered>>
      BY <1>8, <2>2 DEF HandleRead, net, ghosts
    <3>2. CASE state = "Handshaking"
      <4>1. ParsedTo(0) /\ 0 \in 0 .. Len(script)
        BY <1>0, <3>2 DEF ParseInv
      <4>2. ParsedTo(0)'
        BY <1>0, <3>1, <4>1, ParseRead
      <4> QED  BY <3>1, <3>2, <4>2 DEF ParseInv
    <3>3. CASE state = "Active"
      <4>1. PICK n \in 1 .. Len(script) : /\ delivered = Messages(SubSeq(script, 2, n))
                                          /\ ParsedTo(n)
        BY <3>3 DEF ParseInv
      <4>2. n \in 0 .. Len(script)
        BY <1>0
      <4>3. ParsedTo(n)'
        BY <1>0, <3>1, <4>1, <4>2, ParseRead
      <4>4. delivered' = Messages(SubSeq(script', 2, n)) /\ n \in 1 .. Len(script')
        BY <3>1, <4>1
      <4> QED  BY <3>1, <3>3, <4>3, <4>4 DEF ParseInv
    <3> QED  BY <3>1, <3>2, <3>3 DEF ParseInv
  <2> QED  BY <2>1, <2>2
<1>9. CASE HandleWrite
  <2>1. UNCHANGED <<taken, script, delivered>>
    BY <1>9 DEF HandleWrite, net, ghosts
  <2>2. CASE state = "Disconnected"
    BY <1>2, <1>9, <2>2 DEF HandleWrite, socket
  <2>3. CASE state # "Disconnected"
    <3>1. handle_write(state, tx_buffer)
      BY <1>9, <2>3 DEF HandleWrite
    <3>2. disconnect \/ (state' = state /\ UNCHANGED rx_buffer)
      BY <3>1, AfterWrite
    <3> QED  BY <1>1, <1>2, <2>1, <3>2, ParseKept
  <2> QED  BY <2>2, <2>3
<1>10. CASE ProcessStop
  <2>1. UNCHANGED <<taken, script, delivered, state>>
    BY <1>10 DEF ProcessStop, net, ghosts
  <2>2. CASE state \in {"Handshaking", "Active"}
    BY <1>10, <2>1, <2>2, ParseKept DEF ProcessStop
  <2>3. CASE state \notin {"Handshaking", "Active"}
    BY <2>1, <2>3 DEF ParseInv
  <2> QED  BY <2>2, <2>3
<1>11. CASE ProcessHandshake
  <2>1. CASE rx_buffer[1][1] = "NotHandshake"
    BY <1>1, <1>2, <1>11, <2>1 DEF ProcessHandshake
  <2>2. CASE rx_buffer[1][1] # "NotHandshake"
    <3>1. /\ state = "Handshaking" /\ state' = "Active"
          /\ Len(rx_buffer) >= HandshakeSize
          /\ rx_buffer' = Drop(rx_buffer, HandshakeSize)
          /\ UNCHANGED <<taken, script, delivered>>
      BY <1>11, <2>2 DEF ProcessHandshake, CanProcess, net, ghosts
    <3>2. ParsedTo(0) /\ delivered = <<>> /\ 0 \in 0 .. Len(script) /\ 0 < Len(script)
      BY <1>0, <3>1 DEF ParseInv, Control, StartInv, ScriptInv
    <3>3. SizeOf(script[0 + 1]) = HandshakeSize
      <4>1. script[1] \in {"Match", "OtherTorrent", "NotHandshake"}
        BY <1>0, ConnectionAssumption DEF ScriptInv
      <4> QED  BY <4>1 DEF SizeOf
    <3>4. ParsedTo(0 + 1)'
      BY <1>0, <3>1, <3>2, <3>3, ParseDrop
    <3>5. Messages(SubSeq(script, 2, 1)) = <<>>
      <4>1. SubSeq(script, 2, 1) = <<>>
        BY <1>0
      <4> QED  BY <4>1, MessagesEmpty
    <3>6. 1 \in 1 .. Len(script') /\ delivered' = Messages(SubSeq(script', 2, 1)) /\ ParsedTo(1)'
      BY <1>0, <3>1, <3>2, <3>4, <3>5
    <3> QED  BY <3>1, <3>6 DEF ParseInv
  <2> QED  BY <2>1, <2>2
<1>12. CASE ProcessFrame
  <2>1. /\ state = "Active" /\ state' = "Active" /\ HasFrame(rx_buffer)
        /\ rx_buffer' = Drop(rx_buffer, SizeOf(rx_buffer[1][1]))
        /\ delivered' = IF WellFormed(rx_buffer[1][1]) THEN Append(delivered, rx_buffer[1][1])
                                                       ELSE delivered
        /\ UNCHANGED <<taken, script>>
    BY <1>12 DEF ProcessFrame, CanProcess, Consumed, net
  <2>2. PICK n \in 1 .. Len(script) : /\ delivered = Messages(SubSeq(script, 2, n))
                                      /\ ParsedTo(n)
    BY <2>1 DEF ParseInv
  <2>3. Len(rx_buffer) >= 1 /\ n \in 0 .. Len(script)
    BY <1>0, <2>1, ConnectionAssumption DEF HasFrame, TypeInv, SocketType
  <2>4. n < Len(script) /\ rx_buffer[1][1] = script[n + 1]
    <3>1. n < Len(script) /\ rx_buffer[1] = <<script[n + 1], 1>>
      BY <1>0, <2>2, <2>3, ParseFirst
    <3> QED  BY <3>1
  <2>5. ParsedTo(n + 1)'
    <3>1. Len(rx_buffer) >= SizeOf(script[n + 1])
      BY <2>1, <2>4 DEF HasFrame
    <3> QED  BY <1>0, <2>1, <2>2, <2>3, <2>4, <3>1, ParseDrop
  <2>6. delivered' = Messages(SubSeq(script, 2, n + 1))
    <3> DEFINE s == SubSeq(script, 2, n)
    <3>1. s \in Seq(Msg) /\ script[n + 1] \in Msg
      BY <1>0, <2>4
    <3>2. SubSeq(script, 2, n + 1) = Append(s, script[n + 1])
      <4>1. n \in Nat /\ n >= 1 /\ n + 1 <= Len(script)
        BY <1>0, <2>4
      <4> QED  BY <1>0, <4>1, SubAppend
    <3> HIDE DEF s
    <3>3. Messages(Append(s, script[n + 1]))
            = IF WellFormed(script[n + 1]) THEN Append(Messages(s), script[n + 1])
                                           ELSE Messages(s)
      BY <3>1, MessagesAppend
    <3>4. delivered = Messages(s)
      BY <2>2 DEF s
    <3> QED  BY <2>1, <2>4, <3>2, <3>3, <3>4
  <2>7. n + 1 \in 1 .. Len(script') /\ delivered' = Messages(SubSeq(script', 2, n + 1))
    <3>1. n + 1 \in 1 .. Len(script)
      BY <1>0, <2>4
    <3> QED  BY <2>1, <2>6, <3>1
  <2> QED  BY <2>1, <2>5, <2>7 DEF ParseInv
<1>13. ASSUME NEW m \in SendKinds, send_message(m) PROVE ParseInv'
  <2>1. handle_write(state, tx_buffer \o serialize(m)) /\ UNCHANGED <<taken, script, delivered>>
    BY <1>13 DEF send_message, net
  <2>2. disconnect \/ (state' = state /\ UNCHANGED rx_buffer)
    BY <2>1, AfterWrite
  <2> QED  BY <1>1, <1>2, <2>1, <2>2, ParseKept
<1> QED  BY <1>3, <1>4, <1>5, <1>6, <1>7, <1>8, <1>9, <1>10, <1>11, <1>12, <1>13
         DEF Next, Connect, Handler

----------------------------------------------------------------------------
(* Theorems.                                                               *)

\* Every step keeps the invariant.
LEMMA NextInv == ConnectionInv /\ [Next]_vars => ConnectionInv'
<1> SUFFICES ASSUME ConnectionInv, [Next]_vars PROVE ConnectionInv'
  OBVIOUS
<1>1. TypeInv /\ Control /\ WireInOrder /\ ParseInv
  BY DEF ConnectionInv, Control
<1>2. CASE Next
  <2>1. TypeInv'
    BY <1>1, <1>2, ConnectTypes, NetworkTypes, PollTypes, EventTypes, ProcessTypes, ClientTypes
       DEF Next, Handler
  <2>2. Control'
    BY <1>1, <1>2, ConnectControl, NetworkControl, PollControl, EventControl,
       ProcessControl, ClientControl
       DEF Next, Handler
  <2>3. WireInOrder' /\ ParseInv'
    BY <1>1, <1>2, WireStep, ParseStep
  <2> QED  BY <2>1, <2>2, <2>3 DEF ConnectionInv, Control
<1>3. CASE UNCHANGED vars
  <2>1. TypeInv'
    BY <1>1, <1>3, TypesKept DEF vars, TypeInv, net, socket
  <2>2. StartInv' /\ DownInv' /\ ArmedInv'
    BY <1>1, <1>3 DEF vars, Control, StartInv, DownInv, ArmedInv, DisconnectOnce,
                      ReleasedOnDisconnect
  <2>3. WireInOrder'
    BY <1>1, <1>3 DEF vars, WireInOrder
  <2>4. ParseInv'
    BY <1>1, <1>3, ParseKept DEF vars
  <2> QED  BY <2>1, <2>2, <2>3, <2>4 DEF ConnectionInv
<1> QED  BY <1>2, <1>3

LEMMA ConnectionInvariant == Spec => []ConnectionInv
  BY InitInv, NextInv, PTL DEF Spec

\* A connection goes down once and releases everything, wherever in a
\* handler or a callback that happens.
THEOREM DownIsClean == Spec => []CleanDown
<1>1. ConnectionInv => CleanDown
  BY TypeInvOK DEF ConnectionInv, DownInv, CleanDown
<1> QED  BY <1>1, ConnectionInvariant, PTL

\* Between handlers EPOLLOUT is armed exactly when it is needed.
THEOREM NoLostWakeup == Spec => []EpollOutExact
<1>1. ConnectionInv => EpollOutExact
  BY DEF ConnectionInv, ArmedInv, EpollOutExact, WantsOut
<1> QED  BY <1>1, ConnectionInvariant, PTL

\* What was sent and what waits to be sent are the queued messages, in order,
\* without loss or repetition.
THEOREM SentInOrder == Spec => []WireInOrder
<1>1. ConnectionInv => WireInOrder
  BY DEF ConnectionInv
<1> QED  BY <1>1, ConnectionInvariant, PTL

\* Whatever the reads, every well-formed frame is delivered once and in
\* order, and the parser stands at the beginning of a frame.
THEOREM ReceivedInOrder == Spec => []FramesInOrder
<1>1. ASSUME ConnectionInv, state = "Active"
      PROVE  \E n \in 1 .. Len(script) :
                /\ delivered = Messages(SubSeq(script, 2, n))
                /\ IsPrefix(rx_buffer, Bytes(SubSeq(script, n + 1, Len(script))))
                /\ taken = Len(Bytes(SubSeq(script, 1, n))) + Len(rx_buffer)
  <2>1. PICK n \in 1 .. Len(script) : /\ delivered = Messages(SubSeq(script, 2, n))
                                      /\ ParsedTo(n)
    BY <1>1 DEF ConnectionInv, ParseInv
  <2>2. NetType /\ ScriptInv /\ script \in Seq(Msg) /\ Len(script) \in Nat /\ n \in 0 .. Len(script)
    BY <1>1 DEF ConnectionInv, TypeInv, NetType, ScriptInv
  <2> DEFINE s == Bytes(SubSeq(script, 1, n))
             t == Bytes(SubSeq(script, n + 1, Len(script)))
             b == Bytes(script)
  <2>3. b = s \o t
    BY <2>2, BytesCut
  <2>4. s \in Seq(Byte) /\ t \in Seq(Byte)
    <3>1. SubSeq(script, 1, n) \in Seq(Msg) /\ SubSeq(script, n + 1, Len(script)) \in Seq(Msg)
      BY <2>2
    <3> QED  BY <3>1, BytesType
  <2>5. Len(s) <= taken /\ rx_buffer = SubSeq(b, Len(s) + 1, taken)
    BY <2>1 DEF ParsedTo, EndOf
  <2>6. taken \in Nat /\ taken <= Len(b)
    <3>1. Len(b) \in Nat
      BY <2>2, BytesType
    <3> QED  BY <2>2, <3>1 DEF NetType, ScriptInv
  <2> HIDE DEF b, s, t
  <2>7. /\ b \in Seq(Byte) /\ Len(b) = Len(s) + Len(t) /\ Len(s) \in Nat /\ Len(t) \in Nat
        /\ \A i \in 1 .. Len(s) + Len(t) : b[i] = IF i <= Len(s) THEN s[i] ELSE t[i - Len(s)]
    BY <2>3, <2>4, CatElements
  <2>8. /\ rx_buffer \in Seq(Byte) /\ Len(rx_buffer) = taken - Len(s)
        /\ \A i \in 1 .. taken - Len(s) : rx_buffer[i] = b[i + Len(s)]
    BY <2>5, <2>6, <2>7
  <2>9. ASSUME NEW i \in 1 .. Len(rx_buffer) PROVE rx_buffer[i] = t[i]
    <3>1. /\ i \in 1 .. taken - Len(s) /\ i + Len(s) \in 1 .. Len(s) + Len(t)
          /\ ~(i + Len(s) <= Len(s)) /\ (i + Len(s)) - Len(s) = i
      BY <2>6, <2>7, <2>8
    <3> QED  BY <2>7, <2>8, <3>1
  <2>10. IsPrefix(rx_buffer, t)
    BY <2>4, <2>6, <2>7, <2>8, <2>9 DEF IsPrefix
  <2>11. taken = Len(s) + Len(rx_buffer)
    BY <2>6, <2>7, <2>8
  <2> QED  BY <2>1, <2>10, <2>11 DEF s, t
<1>2. ConnectionInv => FramesInOrder
  BY <1>1 DEF FramesInOrder
<1> QED  BY <1>2, ConnectionInvariant, PTL
=============================================================================
