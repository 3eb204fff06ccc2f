--------------------------- MODULE TrackerClient ----------------------------
(***************************************************************************)
(* The tracker client, code/src/tracker_client.cpp, in the announce that   *)
(* main.cpp makes before it starts the event loop.  The trackers of the    *)
(* torrent are tried in turn: HTTP in one exchange that curl bounds, UDP   *)
(* with a connect phase and an announce phase of several attempts each.    *)
(*                                                                         *)
(* A datagram may be lost (it stays in flight), delayed past the timeout   *)
(* of its attempt, reordered or duplicated, and the socket, which is not   *)
(* connected, takes datagrams of anybody.  One datagram is read per        *)
(* attempt, so that one that does not fit uses up the attempt.             *)
(*                                                                         *)
(* The ids drawn with std::rand are taken to be distinct: the n-th request *)
(* has transaction id n, and the tracker issues the connection id that     *)
(* equals the transaction it answers.  0 is an id nobody issued.           *)
(***************************************************************************)
EXTENDS Integers, Sequences

CONSTANTS
    announce_list,   \* torrent_.announce_list, as schemes
    Attempts,        \* retry_attempts: 3
    FirstTimeout,    \* the first receive timeout: 3 seconds
    HttpTimeout,     \* CURLOPT_TIMEOUT: 10 seconds
    ResolveTimeout,  \* how long getaddrinfo may block: the resolver's own limit
    PeerBytes,       \* the sizes of the peer lists a UDP tracker returns
    ErrorBytes,      \* the sizes of the error messages it returns
    MaxFaults        \* bound on duplicated and foreign datagrams

Scheme == {"udp", "http", "other"}

ASSUME TrackerAssumption ==
    /\ announce_list \in Seq(Scheme)
    /\ Attempts \in Nat \ {0}
    /\ FirstTimeout \in Nat \ {0}
    /\ HttpTimeout \in Nat /\ ResolveTimeout \in Nat
    /\ PeerBytes \subseteq Nat /\ ErrorBytes \subseteq Nat
    /\ MaxFaults \in Nat

VARIABLES
    url,             \* index of the tracker being tried
    pc,              \* next tracker, send, recv, returned or thrown
    phase,           \* connect or announce
    attempt,         \* attempts of this phase that are used up
    current_timeout,
    transaction_id,  \* of the last request sent
    connection_id,
    sock,            \* the UDP socket and the resolved address: open or closed
    inbox,           \* datagrams the socket has received and nobody has read
    asked,           \* requests in flight
    net,             \* replies in flight
    result,          \* what announce returned
    custom_peer,     \* the --peer option: unread, none, valid or malformed
    engine,          \* main: starting, running its event loop, or exited
    blocked,         \* seconds that announce has taken so far, at most (ghost)
    faults,          \* duplicated and foreign datagrams (ghost)
    losses,          \* receive timeouts of this phase (ghost)
    upset            \* did anything but a loss happen to this socket? (ghost)

loop == <<phase, attempt, current_timeout, connection_id>>
network == <<inbox, asked, net>>
ghosts == <<blocked, faults, losses, upset>>
main == <<custom_peer, engine>>
vars == <<loop, network, ghosts, url, pc, transaction_id, sock, result, main>>

----------------------------------------------------------------------------
(* Datagrams.                                                              *)

\* A reply: its size, the action and transaction fields, and the connection
\* id if it has one.
Reply(len, action, tid, id) == [len |-> len, action |-> action, tid |-> tid, id |-> id]

Request == [action : {0, 1}, tid : Nat, id : Nat]

\* The sizes below which a reply is too short, and the action expected.
MinLen(ph) == IF ph = "connect" THEN 16 ELSE 20
Expected(ph) == IF ph = "connect" THEN 0 ELSE 1

\* What a tracker answers to request r: what was asked for, an error, or the
\* reply to something else (a scrape).  An announce needs a connection id
\* that it has issued.
Answers(r) ==
    {Reply(8 + n, 3, r.tid, 0) : n \in ErrorBytes} \cup {Reply(20, 2, r.tid, 0)}
    \cup IF r.action = 0 THEN {Reply(16, 0, r.tid, r.tid)}
         ELSE IF r.id # 0 THEN {Reply(20 + n, 1, r.tid, 0) : n \in PeerBytes}
         ELSE {}

\* Datagrams of others: they do not know the transaction.
Foreign == {Reply(26, a, 0, 0) : a \in {0, 1}}

\* The whole six-byte groups of a peer list.
PeersIn(d) == (d.len - 20) \div 6

NoResult == [kind |-> "none"]
Peers(d) == [kind |-> "peers", from |-> d.tid, count |-> PeersIn(d)]

----------------------------------------------------------------------------
(* announce: one tracker after the other.                                  *)

\* An exception is caught, recorded, and the next tracker is tried.  The call
\* that failed took t seconds at most.
TryNext(t) ==
    /\ url' = url + 1
    /\ pc' = "next"
    /\ blocked' = blocked + t

Unsupported ==
    /\ pc = "next"
    /\ url <= Len(announce_list) /\ announce_list[url] = "other"
    /\ TryNext(0)
    /\ UNCHANGED <<main, loop, network, transaction_id, sock, result, faults,
                   losses, upset>>

\* announce_http: curl fails, the status is not 200 or the body is not a
\* response (an exception); or there is a response.  A response with a
\* failure reason is returned like any other.  Either may take all of curl's
\* time.
announce_http ==
    /\ pc = "next"
    /\ url <= Len(announce_list) /\ announce_list[url] = "http"
    /\ \/ TryNext(HttpTimeout) /\ UNCHANGED result
       \/ /\ pc' = "returned"
          /\ result' \in {[kind |-> "http"], [kind |-> "failure"]}
          /\ blocked' = blocked + HttpTimeout
          /\ UNCHANGED url
    /\ UNCHANGED <<main, loop, network, transaction_id, sock, faults, losses,
                   upset>>

\* announce_udp cannot resolve the name, which getaddrinfo may take its time
\* to find out, or create the socket.
ResolveFails ==
    /\ pc = "next"
    /\ url <= Len(announce_list) /\ announce_list[url] = "udp"
    /\ TryNext(ResolveTimeout)
    /\ UNCHANGED <<main, loop, network, transaction_id, sock, result, faults,
                   losses, upset>>

\* The name is resolved and the socket is there; the connect phase begins.
OpenSocket ==
    /\ pc = "next"
    /\ url <= Len(announce_list) /\ announce_list[url] = "udp"
    /\ sock' = "open"
    /\ pc' = "send" /\ phase' = "connect"
    /\ attempt' = 0 /\ current_timeout' = FirstTimeout
    /\ connection_id' = 0
    /\ blocked' = blocked + ResolveTimeout
    /\ losses' = 0 /\ upset' = FALSE
    /\ UNCHANGED <<main, network, url, transaction_id, result, faults>>

\* All trackers failed.
AllFailed ==
    /\ pc = "next"
    /\ url > Len(announce_list)
    /\ pc' = "thrown"
    /\ UNCHANGED <<main, loop, network, ghosts, url, transaction_id, sock, result>>

----------------------------------------------------------------------------
(* announce_udp.                                                           *)

\* Mutant: an exception leaves the socket and the address behind.
cleanup_Forgotten == UNCHANGED <<sock, network>>

\* The socket is closed: whatever was or will be sent to it is gone.
cleanup ==
    /\ sock' = "closed"
    /\ inbox' = <<>> /\ asked' = {} /\ net' = {}

\* An exception is thrown out of announce_udp, after a call of t seconds.
ThrowUdp(t) == cleanup /\ TryNext(t)

\* Mutant: the last attempt is not made.
AttemptsLeft_OffByOne == attempt < Attempts - 1

\* The condition of the loops over attempts.
AttemptsLeft == attempt < Attempts

\* "continue": the attempt is used up, and the next one waits longer or not.
NextAttempt(longer) ==
    /\ attempt' = attempt + 1
    /\ current_timeout' = IF longer THEN 2 * current_timeout ELSE current_timeout
    /\ pc' = "send"

\* setsockopt fails.
SetTimeoutFails ==
    /\ pc = "send" /\ AttemptsLeft
    /\ ThrowUdp(0)
    /\ upset' = TRUE
    /\ UNCHANGED <<main, loop, transaction_id, result, faults, losses>>

\* sendto fails; a transaction id has been drawn all the same.
SendFails ==
    /\ pc = "send" /\ AttemptsLeft
    /\ transaction_id' = transaction_id + 1
    /\ NextAttempt(TRUE)
    /\ upset' = TRUE
    /\ UNCHANGED <<main, network, url, phase, connection_id, sock, result,
                   blocked, faults, losses>>

SendRequest ==
    /\ pc = "send" /\ AttemptsLeft
    /\ transaction_id' = transaction_id + 1
    /\ asked' = asked \cup {[action |-> Expected(phase), tid |-> transaction_id + 1,
                             id |-> connection_id]}
    /\ pc' = "recv"
    /\ UNCHANGED <<main, loop, ghosts, url, sock, result, inbox, net>>

\* The last attempt failed.
GiveUp ==
    /\ pc = "send" /\ ~AttemptsLeft
    /\ ThrowUdp(0)
    /\ UNCHANGED <<main, loop, transaction_id, result, faults, losses, upset>>

\* Mutant: the socket has no receive timeout.
RecvTimeout_Never == FALSE /\ UNCHANGED vars

\* recvfrom times out, or is interrupted.
RecvTimeout ==
    /\ pc = "recv" /\ inbox = <<>>
    /\ NextAttempt(TRUE)
    /\ blocked' = blocked + current_timeout
    /\ losses' = losses + 1
    /\ UNCHANGED <<main, network, url, phase, connection_id, transaction_id, sock,
                   result, faults, upset>>

\* recvfrom returns the first datagram of the inbox, at the latest when the
\* timeout is about to expire.
Reading(d) ==
    /\ pc = "recv" /\ inbox # <<>>
    /\ d = Head(inbox)

\* Mutant: whoever answers is believed.
RightTransaction_Unchecked(d) == TRUE

RightTransaction(d) == d.tid = transaction_id

\* A reply that is too short, belongs to another transaction or has another
\* action is dropped; only the second leaves the timeout as it is.
RecvUnfit(d) ==
    /\ Reading(d)
    /\ \/ d.len < MinLen(phase) /\ NextAttempt(TRUE)
       \/ d.len >= MinLen(phase) /\ ~RightTransaction(d) /\ NextAttempt(FALSE)
       \/ /\ d.len >= MinLen(phase) /\ RightTransaction(d)
          /\ d.action \notin {Expected(phase), 3}
          /\ NextAttempt(TRUE)
    /\ inbox' = Tail(inbox)
    /\ blocked' = blocked + current_timeout
    /\ upset' = TRUE
    /\ UNCHANGED <<main, url, phase, connection_id, transaction_id, sock, result,
                   asked, net, faults, losses>>

Fits(d) == d.len >= MinLen(phase) /\ RightTransaction(d)

\* The tracker reports an error.
RecvError(d) ==
    /\ Reading(d) /\ Fits(d)
    /\ d.action = 3
    /\ ThrowUdp(current_timeout)
    /\ upset' = TRUE
    /\ UNCHANGED <<main, loop, transaction_id, result, faults, losses>>

\* Mutant: the announce phase goes on with the timeout of the connect phase.
AnnounceTimeout_Kept == current_timeout

\* The timeout the announce phase begins with.
AnnounceTimeout == FirstTimeout

\* The connect phase succeeds, and the announce phase begins.
RecvConnected(d) ==
    /\ Reading(d) /\ Fits(d)
    /\ phase = "connect" /\ d.action = 0
    /\ inbox' = Tail(inbox)
    /\ connection_id' = d.id
    /\ phase' = "announce" /\ pc' = "send"
    /\ attempt' = 0 /\ current_timeout' = AnnounceTimeout
    /\ blocked' = blocked + current_timeout
    /\ losses' = 0
    /\ UNCHANGED <<main, url, transaction_id, sock, result, asked, net,
                   faults, upset>>

\* The announce phase succeeds.
RecvPeers(d) ==
    /\ Reading(d) /\ Fits(d)
    /\ phase = "announce" /\ d.action = 1
    /\ pc' = "returned"
    /\ result' = Peers(d)
    /\ cleanup
    /\ blocked' = blocked + current_timeout
    /\ UNCHANGED <<main, loop, url, transaction_id, faults, losses, upset>>

----------------------------------------------------------------------------
(* The network and the tracker.                                            *)

wait == <<main, loop, url, pc, transaction_id, sock, result, blocked, losses>>

\* The tracker takes a request and answers it.
TrackerReply(r, d) ==
    /\ r \in asked
    /\ asked' = asked \ {r}
    /\ net' = net \cup {d}
    /\ UNCHANGED <<wait, inbox, faults, upset>>

\* A reply reaches the socket, in time or not.
Deliver(d) ==
    /\ d \in net
    /\ inbox' = Append(inbox, d)
    /\ net' = net \ {d}
    /\ UNCHANGED <<wait, asked, faults, upset>>

\* A copy of it does.
Duplicate(d) ==
    /\ d \in net /\ faults < MaxFaults
    /\ inbox' = Append(inbox, d)
    /\ faults' = faults + 1
    /\ upset' = TRUE
    /\ UNCHANGED <<wait, asked, net>>

\* Somebody else's datagram does.
Intrude(d) ==
    /\ sock = "open" /\ faults < MaxFaults
    /\ inbox' = Append(inbox, d)
    /\ faults' = faults + 1
    /\ upset' = TRUE
    /\ UNCHANGED <<wait, asked, net>>

----------------------------------------------------------------------------
(* main: the engine starts if a tracker answered or a peer was named.      *)

tracker_ok == pc = "returned" /\ result.kind \in {"peers", "http"}

MayStart(peer) == (tracker_ok \/ peer # "none") /\ peer # "malformed"

\* The --peer option is looked at here for the first time.
StartEngine(peer) ==
    /\ pc \in {"returned", "thrown"}
    /\ engine = "starting"
    /\ custom_peer' = peer
    /\ engine' = IF MayStart(peer) THEN "running" ELSE "exited"
    /\ UNCHANGED <<loop, network, ghosts, url, pc, transaction_id, sock, result>>

----------------------------------------------------------------------------
Init ==
    /\ custom_peer = "unread"
    /\ url = 1 /\ pc = "next"
    /\ phase = "connect" /\ attempt = 0 /\ current_timeout = FirstTimeout
    /\ transaction_id = 0 /\ connection_id = 0
    /\ sock = "closed"
    /\ inbox = <<>> /\ asked = {} /\ net = {}
    /\ result = NoResult
    /\ engine = "starting"
    /\ blocked = 0 /\ faults = 0 /\ losses = 0 /\ upset = FALSE

\* A step of the thread that called announce.
Client ==
    \/ Unsupported \/ announce_http \/ ResolveFails \/ OpenSocket \/ AllFailed
    \/ SetTimeoutFails \/ SendFails \/ SendRequest \/ GiveUp
    \/ RecvTimeout
    \/ \E d \in {inbox[k] : k \in DOMAIN inbox} :
          RecvUnfit(d) \/ RecvError(d) \/ RecvConnected(d) \/ RecvPeers(d)
    \/ \E peer \in {"none", "valid", "malformed"} : StartEngine(peer)

Network ==
    \/ \E r \in asked : \E d \in Answers(r) : TrackerReply(r, d)
    \/ \E d \in net : Deliver(d) \/ Duplicate(d)
    \/ \E d \in Foreign : Intrude(d)

Next == Client \/ Network

Spec == Init /\ [][Next]_vars

\* Fairness: the client's thread runs, and its receive timeouts expire.
\* Nothing is assumed of the network or the tracker.
FairSpec == Spec /\ WF_vars(Client)

----------------------------------------------------------------------------
(* Properties.                                                             *)

\* Type correctness of the two retry loops and of the network's datagrams.
TypeOK ==
    /\ url \in 1 .. Len(announce_list) + 1
    /\ pc \in {"next", "send", "recv", "returned", "thrown"}
    /\ phase \in {"connect", "announce"}
    /\ attempt \in 0 .. Attempts
    /\ current_timeout \in Nat \ {0}
    /\ transaction_id \in Nat /\ connection_id \in Nat
    /\ sock \in {"open", "closed"}
    /\ asked \subseteq Request
    /\ \A d \in net : d.len \in Nat /\ d.action \in 0 .. 3 /\ d.tid \in Nat
    /\ engine \in {"starting", "running", "exited"}
    /\ blocked \in Nat /\ losses \in Nat

\* What announce_udp believes comes from the tracker it asked: an announce
\* carries a connection id that a tracker issued, and the peers returned
\* answer the last request, however late, doubled, mixed up or foreign the
\* datagrams read on the way were.
Authentic ==
    /\ sock = "open" /\ phase = "announce" => connection_id \in 1 .. transaction_id
    /\ result.kind = "peers" => result.from = transaction_id /\ connection_id # 0

\* The socket and the resolved address are held exactly while announce_udp
\* runs: every exception, early return and retry gives them back, and the
\* retry loops stay within their bounds (part of the types).
SocketReleased ==
    /\ TypeOK
    /\ sock = (IF pc \in {"send", "recv"} THEN "open" ELSE "closed")

\* The seconds that n timeouts take, each twice as long as the one before:
\* FirstTimeout * (2^n - 1).
Doubling[n \in 0 .. Attempts] ==
    IF n = 0 THEN 0 ELSE FirstTimeout + 2 * Doubling[n - 1]

\* The seconds the first k trackers take at most: for UDP the resolution of the
\* name and the doubling timeouts of both phases, for HTTP what curl allows.
Cost(scheme) ==
    CASE scheme = "udp"  -> ResolveTimeout + 2 * Doubling[Attempts]
      [] scheme = "http" -> HttpTimeout
      [] OTHER           -> 0

Budget[k \in 0 .. Len(announce_list)] ==
    IF k = 0 THEN 0 ELSE Budget[k - 1] + Cost(announce_list[k])

\* announce runs to its end on the thread that calls it, which is the event
\* loop's when a download is complete.  It has never taken longer than the
\* trackers tried so far may take together, whatever mixture of lost, late,
\* doubled and unfit datagrams used up the attempts: the timeouts double
\* within a phase and start over with the next, and nothing is tried twice.
BlockedBound ==
    blocked <= Budget[IF url <= Len(announce_list) THEN url ELSE Len(announce_list)]

\* Retries make up for lost datagrams: a UDP tracker is given up only if every
\* attempt of a phase timed out, or something else went wrong on its socket
\* (a late, doubled, foreign or unusable datagram, an error, a failed call).
ToleratesLoss ==
    [][sock = "open" /\ url' # url => upset' \/ losses >= Attempts]_vars

\* The engine gives up only if the peer named with --peer is malformed, or none
\* is named and no tracker succeeded.
ExitsForReason ==
    engine = "exited" => \/ custom_peer = "malformed"
                         \/ custom_peer = "none" /\ ~tracker_ok

\* announce returns or throws, and main starts the engine or exits for a
\* reason, whatever the network and the trackers do.
Starts == <>(engine # "starting" /\ ExitsForReason)
=============================================================================
