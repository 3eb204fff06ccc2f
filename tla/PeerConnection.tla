--------------------------- MODULE PeerConnection ---------------------------
(***************************************************************************)
(* One connection to a peer: code/src/peer_connection.cpp, with the socket *)
(* wrapper code/src/tcp_connection.cpp, the framing of                     *)
(* code/src/peer_message.cpp and its registration in the event loop.       *)
(*                                                                         *)
(* The handler of epoll events is a sequence of steps, and "thread" is its *)
(* program counter: between the moment epoll_wait reports events and the   *)
(* moment recv or send is called, more bytes may arrive and the peer may   *)
(* close or reset the connection.  on_handshake and on_message run client  *)
(* code in the middle of process_rx_buffer, which may send or disconnect.  *)
(*                                                                         *)
(* A byte is a pair: the kind of the message it belongs to and its place   *)
(* in it.  What a message says beyond its kind is not looked at here.      *)
(***************************************************************************)
EXTENDS Integers, SequencesExt

CONSTANTS
    HandshakeSize,     \* 68 in the code
    HeaderSize,        \* 4 in the code: the length prefix
    Handshakes,        \* the handshakes a peer may answer with
    FrameKinds,        \* the frames a peer may send
    MaxFrames,         \* bound on the frames it sends
    SendKinds,         \* the messages the client sends
    MaxSends,          \* bound on the messages the client sends
    Unreliable,        \* may the connection fail, or be closed by the peer?
    ClientDisconnects  \* may the client call disconnect?

Kind == {"KeepAlive", "Choke", "Unchoke", "Interested", "NotInterested",
         "Piece", "Malformed"}

ASSUME ConnectionAssumption ==
    /\ HandshakeSize \in Nat \ {0}
    /\ HeaderSize \in Nat \ {0}
    /\ Handshakes \subseteq {"Match", "OtherTorrent", "NotHandshake"}
    /\ FrameKinds \subseteq Kind
    /\ SendKinds \subseteq Kind \ {"Malformed"}
    /\ MaxFrames \in Nat
    /\ MaxSends \in Nat
    /\ Unreliable \in BOOLEAN
    /\ ClientDisconnects \in BOOLEAN

VARIABLES
    state,             \* state_
    flags,             \* am_choking_, am_interested_, peer_choking_, peer_interested_
    rx_buffer,         \* rx_buffer_
    tx_buffer,         \* tx_buffer_
    fd,                \* the socket: none, or open and registered in the loop
    armed,             \* is EPOLLOUT among the events asked for?
    thread,            \* program counter of the event loop's thread
    remote,            \* the other end: dialing, up, closed or reset
    script,            \* the handshake and the frames the peer sends
    arrived,           \* how many bytes of it have reached the kernel
    taken,             \* how many of these have been read by recv
    wire,              \* the bytes accepted by send
    queued,            \* the messages given to tx_buffer_, in order (ghost)
    delivered,         \* the messages given to on_message, in order (ghost)
    disconnects        \* calls of on_disconnect (ghost)

buffers == <<rx_buffer, tx_buffer>>
net == <<remote, script, arrived>>
ghosts == <<queued, delivered>>
socket == <<state, rx_buffer, tx_buffer, fd, armed, disconnects>>
vars == <<state, flags, rx_buffer, tx_buffer, fd, armed, thread, remote, script,
          arrived, taken, wire, queued, delivered, disconnects>>

----------------------------------------------------------------------------
(* Bytes and frames.                                                       *)

\* The size of a serialized message.
SizeOf(m) ==
    CASE m \in {"Match", "OtherTorrent", "NotHandshake"} -> HandshakeSize
      [] m = "KeepAlive" -> HeaderSize
      [] m \in {"Choke", "Unchoke", "Interested", "NotInterested"} -> HeaderSize + 1
      [] OTHER -> HeaderSize + 2

serialize(m) == [k \in 1 .. SizeOf(m) |-> <<m, k>>]

Byte == (Kind \cup {"Match", "OtherTorrent", "NotHandshake"}) \X Nat

Bytes(ms) == FlattenSeq([j \in DOMAIN ms |-> serialize(ms[j])])

\* Unknown ids and wrong lengths are skipped, everything else is delivered.
WellFormed(m) == m # "Malformed"

\* The messages among some frames, in order.
Messages(frames) ==
    FlattenSeq([j \in DOMAIN frames |-> IF WellFormed(frames[j]) THEN <<frames[j]>> ELSE <<>>])

\* PeerMessage::deserialize: is there a whole frame at the front of rx?
HasFrame(rx) ==
    /\ Len(rx) >= HeaderSize
    /\ Len(rx) >= SizeOf(rx[1][1])

\* Mutant: of a frame that is not a message only the header is skipped.
Consumed_HeaderOnly(rx) ==
    IF rx[1][1] = "Malformed" THEN HeaderSize ELSE SizeOf(rx[1][1])

\* ... and how many bytes it takes off, whether or not it is a message.
Consumed(rx) == SizeOf(rx[1][1])

Drop(s, n) == SubSeq(s, n + 1, Len(s))

----------------------------------------------------------------------------
(* The handler's steps.                                                    *)

ConnectionState == {"Idle", "Connecting", "Handshaking", "Active", "Disconnected"}
Events == {"ERR", "RDHUP", "IN", "OUT"}
Idle == [pc |-> "idle", evs |-> {}]
At(pc, evs) == [pc |-> pc, evs |-> evs]

\* Mutant: no early return for a connection that is down already.
disconnect_Twice ==
    /\ state' = "Disconnected"
    /\ fd' = "none"
    /\ armed' = FALSE
    /\ rx_buffer' = <<>> /\ tx_buffer' = <<>>
    /\ disconnects' = disconnects + 1

disconnect ==
    IF state = "Disconnected"
    THEN UNCHANGED socket
    ELSE /\ state' = "Disconnected"
         /\ fd' = "none"
         /\ armed' = FALSE
         /\ rx_buffer' = <<>> /\ tx_buffer' = <<>>
         /\ disconnects' = disconnects + 1

\* Mutant: EPOLLOUT is asked for only while connecting.
WantsOut_OnlyConnecting(st, tx) == st = "Connecting"

\* The condition of update_epoll_interests.
WantsOut(st, tx) == tx # <<>> \/ st = "Connecting"

\* Mutant: what was sent stays in the buffer.
Unsent_All(tx, n) == tx

\* tx_buffer_ after n of its bytes were accepted.
Unsent(tx, n) == Drop(tx, n)

\* handle_write, when the state is st and the buffer holds tx: the loop of
\* sends ends with everything sent, with EAGAIN, or with an error.
handle_write(st, tx) ==
    \/ /\ remote # "reset" \/ tx = <<>>
       /\ \E n \in 0 .. Len(tx) :
            /\ wire' = wire \o SubSeq(tx, 1, n)
            /\ tx_buffer' = Unsent(tx, n)
            /\ armed' = WantsOut(st, Unsent(tx, n))
       /\ state' = st
       /\ UNCHANGED <<rx_buffer, fd, disconnects>>
    \/ /\ remote \in {"closed", "reset"}
       /\ \E n \in 0 .. Len(tx) - 1 : wire' = wire \o SubSeq(tx, 1, n)
       /\ disconnect

----------------------------------------------------------------------------
(* connect.                                                                *)

\* connect_async fails, the fd cannot be registered, or the handshake cannot
\* be sent: the socket is closed and on_disconnect is called.
ConnectFails ==
    /\ thread = Idle /\ state = "Idle"
    /\ Unreliable
    /\ state' = "Disconnected"
    /\ disconnects' = disconnects + 1
    /\ UNCHANGED <<flags, buffers, fd, armed, thread, net, taken, wire, ghosts>>

\* EINPROGRESS: wait for EPOLLOUT.
ConnectAsync ==
    /\ thread = Idle /\ state = "Idle"
    /\ state' = "Connecting"
    /\ fd' = "registered"
    /\ armed' = WantsOut("Connecting", tx_buffer)
    /\ remote' = "dialing"
    /\ UNCHANGED <<flags, buffers, thread, script, arrived, taken, wire, ghosts,
                   disconnects>>

\* connect() succeeds at once: the handshake is sent.
ConnectAtOnce ==
    /\ thread = Idle /\ state = "Idle"
    /\ remote' = "up"
    /\ fd' = "registered"
    /\ queued' = <<"Match">>
    /\ state' = "Handshaking"
    /\ \E n \in 0 .. HandshakeSize :
         /\ wire' = SubSeq(serialize("Match"), 1, n)
         /\ tx_buffer' = Unsent(serialize("Match"), n)
         /\ armed' = WantsOut("Handshaking", Unsent(serialize("Match"), n))
    /\ UNCHANGED <<flags, rx_buffer, thread, script, arrived, taken, delivered,
                   disconnects>>

----------------------------------------------------------------------------
(* The network.                                                            *)

\* The TCP connection is established, or refused.
Answer ==
    /\ remote = "dialing"
    /\ remote' \in {"up"} \cup (IF Unreliable THEN {"reset"} ELSE {})
    /\ UNCHANGED <<script, arrived, taken, wire, flags, thread, ghosts, socket>>

\* A byte of the peer's stream reaches the kernel.
Arrive ==
    /\ remote = "up"
    /\ arrived < Len(Bytes(script))
    /\ arrived' = arrived + 1
    /\ UNCHANGED <<remote, script, taken, wire, flags, thread, ghosts, socket>>

\* The peer closes its end, or the connection is reset.
Break ==
    /\ Unreliable
    /\ remote = "up"
    /\ remote' \in {"closed", "reset"}
    /\ UNCHANGED <<script, arrived, taken, wire, flags, thread, ghosts, socket>>

----------------------------------------------------------------------------
(* handle_events.                                                          *)

\* The events that hold, if the kernel has room for more bytes or not.
Ready(room) ==
    {e \in Events :
        \/ e = "ERR" /\ remote = "reset"
        \/ e = "RDHUP" /\ remote = "closed"
        \/ e = "IN" /\ remote \in {"up", "closed"} /\ (taken < arrived \/ remote = "closed")
        \/ e = "OUT" /\ armed /\ remote # "dialing" /\ (room \/ state = "Connecting")}

\* epoll_wait reports the events asked for that hold.
Poll(room) ==
    /\ thread = Idle
    /\ fd = "registered"
    /\ Ready(room) # {}
    /\ thread' = At("events", Ready(room))
    /\ UNCHANGED <<net, taken, wire, flags, ghosts, socket>>

\* EPOLLERR or EPOLLHUP, or else EPOLLRDHUP: disconnect, whatever is unread.
HandleError ==
    /\ thread.pc = "events"
    /\ thread.evs \cap {"ERR", "RDHUP"} # {}
    /\ disconnect
    /\ thread' = Idle
    /\ UNCHANGED <<net, taken, wire, flags, ghosts>>

\* EPOLLOUT while Connecting: SO_ERROR tells whether the connection is up.
ConnectDone ==
    /\ thread.pc = "events"
    /\ thread.evs \cap {"ERR", "RDHUP"} = {}
    /\ state = "Connecting" /\ "OUT" \in thread.evs
    /\ IF remote = "reset"
       THEN /\ disconnect
            /\ thread' = Idle
            /\ UNCHANGED <<wire, queued>>
       ELSE /\ queued' = Append(queued, "Match")
            /\ handle_write("Handshaking", tx_buffer \o serialize("Match"))
            /\ UNCHANGED thread
    /\ UNCHANGED <<net, taken, flags, delivered>>

\* handle_read: recv until it would block, then process_rx_buffer.  If recv
\* finds the connection closed or broken, what was read is discarded.
HandleRead ==
    /\ thread.pc = "events"
    /\ thread.evs \cap {"ERR", "RDHUP"} = {}
    /\ ~(state = "Connecting" /\ "OUT" \in thread.evs)
    /\ "IN" \in thread.evs
    /\ IF fd = "none" \/ remote \in {"closed", "reset"}
       THEN /\ disconnect
            /\ thread' = At("events", thread.evs \ {"IN"})
            /\ UNCHANGED taken
       ELSE /\ rx_buffer' = rx_buffer \o SubSeq(Bytes(script), taken + 1, arrived)
            /\ taken' = arrived
            /\ thread' = At("process", thread.evs \ {"IN"})
            /\ UNCHANGED <<state, tx_buffer, fd, armed, disconnects>>
    /\ UNCHANGED <<net, wire, flags, ghosts>>

\* EPOLLOUT, after anything there was to read.
HandleWrite ==
    /\ thread.pc = "events"
    /\ thread.evs = {"OUT"}
    /\ state # "Connecting"
    /\ IF state = "Disconnected" THEN UNCHANGED <<socket, wire>>
       ELSE handle_write(state, tx_buffer)
    /\ thread' = Idle
    /\ UNCHANGED <<net, taken, flags, ghosts>>

EventsDone ==
    /\ thread = At("events", {})
    /\ thread' = Idle
    /\ UNCHANGED <<net, taken, wire, flags, ghosts, socket>>

----------------------------------------------------------------------------
(* process_rx_buffer, one iteration at a time.                             *)

\* Is there something the loop can take off rx_buffer_?
CanProcess ==
    \/ state = "Handshaking" /\ Len(rx_buffer) >= HandshakeSize
    \/ state = "Active" /\ HasFrame(rx_buffer)

\* Nothing complete is left; bytes of a connection that is down are dropped.
ProcessStop ==
    /\ thread.pc = "process"
    /\ ~CanProcess
    /\ rx_buffer' = IF state \in {"Handshaking", "Active"} THEN rx_buffer ELSE <<>>
    /\ thread' = At("events", thread.evs)
    /\ UNCHANGED <<state, tx_buffer, fd, armed, disconnects, net, taken, wire,
                   flags, ghosts>>

\* HandshakeMsg::deserialize checks the protocol string, and nothing else:
\* a peer of another torrent is let in.
ProcessHandshake ==
    /\ thread.pc = "process"
    /\ CanProcess /\ state = "Handshaking"
    /\ IF rx_buffer[1][1] = "NotHandshake"
       THEN /\ disconnect
            /\ thread' = At("events", thread.evs)
       ELSE /\ state' = "Active"
            /\ rx_buffer' = Drop(rx_buffer, HandshakeSize)
            /\ thread' = At("callback", thread.evs)
            /\ UNCHANGED <<tx_buffer, fd, armed, disconnects>>
    /\ UNCHANGED <<net, taken, wire, flags, ghosts>>

\* The flags after message m was received.
Received(m) ==
    [flags EXCEPT !.peer_choking = (m = "Choke" \/ (flags.peer_choking /\ m # "Unchoke")),
                  !.peer_interested = (m = "Interested"
                        \/ (flags.peer_interested /\ m # "NotInterested"))]

ProcessFrame ==
    LET m == rx_buffer[1][1]
    IN  /\ thread.pc = "process"
        /\ CanProcess /\ state = "Active"
        /\ rx_buffer' = Drop(rx_buffer, Consumed(rx_buffer))
        /\ IF WellFormed(m)
           THEN /\ flags' = Received(m)
                /\ delivered' = Append(delivered, m)
                /\ thread' = At("callback", thread.evs)
           ELSE UNCHANGED <<flags, delivered, thread>>
        /\ UNCHANGED <<state, tx_buffer, fd, armed, disconnects, net, taken, wire,
                       queued>>

----------------------------------------------------------------------------
(* The client: the coordinator, in a callback or while it handles another  *)
(* peer's message.  It knows the connection from the handshake on.         *)

ClientTurn == thread.pc \in {"idle", "callback"}

\* The flags after message m was sent.
Sent(m) ==
    [flags EXCEPT !.am_choking = (m = "Choke" \/ (flags.am_choking /\ m # "Unchoke")),
                  !.am_interested = (m = "Interested"
                        \/ (flags.am_interested /\ m # "NotInterested"))]

send_message(m) ==
    /\ ClientTurn
    /\ state = "Active"
    /\ Len(queued) <= MaxSends
    /\ flags' = Sent(m)
    /\ queued' = Append(queued, m)
    /\ handle_write(state, tx_buffer \o serialize(m))
    /\ UNCHANGED <<net, taken, thread, delivered>>

Disconnect ==
    /\ ClientTurn
    /\ ClientDisconnects
    /\ state \notin {"Idle", "Disconnected"}
    /\ disconnect
    /\ UNCHANGED <<net, taken, wire, flags, thread, ghosts>>

CallbackReturns ==
    /\ thread.pc = "callback"
    /\ thread' = At("process", thread.evs)
    /\ UNCHANGED <<net, taken, wire, flags, ghosts, socket>>

----------------------------------------------------------------------------
Scripts ==
    {<<hf[1]>> \o hf[2] : hf \in Handshakes \X SeqOf(FrameKinds, MaxFrames)}

Init ==
    /\ state = "Idle"
    /\ flags = [am_choking |-> TRUE, am_interested |-> FALSE,
                peer_choking |-> TRUE, peer_interested |-> FALSE]
    /\ rx_buffer = <<>> /\ tx_buffer = <<>>
    /\ fd = "none"
    /\ armed = FALSE
    /\ thread = Idle
    /\ remote = "none"
    /\ script \in Scripts
    /\ arrived = 0 /\ taken = 0
    /\ wire = <<>>
    /\ queued = <<>> /\ delivered = <<>>
    /\ disconnects = 0

Connect == ConnectFails \/ ConnectAsync \/ ConnectAtOnce

\* A step of handle_events once epoll_wait has returned.
Handler ==
    \/ HandleError
    \/ ConnectDone
    \/ HandleRead
    \/ HandleWrite
    \/ EventsDone
    \/ ProcessStop
    \/ ProcessHandshake
    \/ ProcessFrame
    \/ CallbackReturns

Next ==
    \/ Connect
    \/ Answer \/ Arrive \/ Break
    \/ \E room \in BOOLEAN : Poll(room)
    \/ Handler
    \/ \E m \in SendKinds : send_message(m)
    \/ Disconnect

Spec == Init /\ [][Next]_vars

\* Fairness.  The thread never pauses in a handler and polls again; the
\* network delivers; the peer reads, so that the kernel finds room for more
\* bytes again and again.
Fairness ==
    /\ WF_vars(Connect)
    /\ WF_vars(Answer)
    /\ WF_vars(Arrive)
    /\ WF_vars(Handler)
    /\ WF_vars(Poll(TRUE))
    /\ SF_vars(HandleWrite /\ wire' # wire)

FairSpec == Spec /\ Fairness

----------------------------------------------------------------------------
(* Properties.                                                             *)

\* Type correctness of the connection's fields and of the program counter.
TypeOK ==
    /\ state \in ConnectionState
    /\ flags \in [am_choking : BOOLEAN, am_interested : BOOLEAN,
                 peer_choking : BOOLEAN, peer_interested : BOOLEAN]
    /\ {rx_buffer, tx_buffer, wire} \subseteq Seq(Byte)
    /\ fd \in {"none", "registered"}
    /\ armed \in BOOLEAN
    /\ thread.pc \in {"idle", "events", "process", "callback"}
    /\ thread.evs \subseteq Events
    /\ remote \in {"none", "dialing", "up", "closed", "reset"}
    /\ taken \in 0 .. arrived
    /\ disconnects \in Nat

\* Between handlers EPOLLOUT is armed exactly when bytes wait to be sent or
\* the connection is being established: no lost wake-up, and no busy loop.
EpollOutExact ==
    thread.pc = "idle" /\ fd = "registered" =>
        armed = (tx_buffer # <<>> \/ state = "Connecting")

\* The bytes on the wire and those in the buffer are, in order and without
\* loss or repetition, the messages that were sent, the handshake first;
\* partial sends in any handler or callback break nothing.
WireInOrder ==
    /\ IsPrefix(wire, Bytes(queued))
    /\ state # "Disconnected" => wire \o tx_buffer = Bytes(queued)
    /\ queued # <<>> => queued[1] = "Match"

\* However the stream is cut into reads, on_message is given every
\* well-formed frame once and in order, and the parser stands at the
\* beginning of a frame.
FramesInOrder ==
    state = "Active" =>
        \E n \in 1 .. Len(script) :
            /\ delivered = Messages(SubSeq(script, 2, n))
            /\ IsPrefix(rx_buffer, Bytes(SubSeq(script, n + 1, Len(script))))
            /\ taken = Len(Bytes(SubSeq(script, 1, n))) + Len(rx_buffer)

\* A connection goes down once: on_disconnect runs exactly once for it, even
\* if it fails again or is disconnected by a callback in the same handler.
DisconnectOnce == disconnects = IF state = "Disconnected" THEN 1 ELSE 0

\* A connection that is down holds no socket, no registration and no bytes,
\* even in the middle of the handler that was interrupted.
ReleasedOnDisconnect ==
    /\ state \in {"Idle", "Disconnected"} <=> fd = "none"
    /\ state = "Disconnected" => rx_buffer = <<>> /\ tx_buffer = <<>>

\* Going down is clean at any point of any handler or callback.
CleanDown == TypeOK /\ DisconnectOnce /\ ReleasedOnDisconnect

\* Over a connection that does not break, everything the peer sent is
\* delivered and everything we queued is sent.
EverythingFlows ==
    <>[](\/ state = "Disconnected"
         \/ tx_buffer = <<>> /\ delivered = Messages(Tail(script)))
=============================================================================
