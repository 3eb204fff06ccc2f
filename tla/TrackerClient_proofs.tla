------------------------ MODULE TrackerClient_proofs ------------------------
(***************************************************************************)
(* Proofs about TrackerClient, for every list of trackers, number of       *)
(* attempts and timeout, and whatever the network does to the datagrams.   *)
(***************************************************************************)
EXTENDS TrackerClient, InductionLemmas

\* The datagrams there may be when t transactions have been drawn: those of
\* a connect reply that name a transaction carry the id issued for it.
Genuine(t) ==
    {d \in [len : Nat, action : 0 .. 3, tid : 0 .. t, id : Nat] :
        d.action = 0 /\ d.tid # 0 => d.id = d.tid}

\* The socket is open exactly while announce_udp runs, which is for a UDP
\* tracker of the list, within its attempts and after a transaction was drawn.
SocketInv ==
    /\ sock = (IF pc \in {"send", "recv"} THEN "open" ELSE "closed")
    /\ pc \in {"send", "recv"} => url \in 1 .. Len(announce_list)
    /\ pc = "recv" => attempt < Attempts /\ transaction_id > 0

\* Datagrams in flight or received are genuine.
DatagramInv ==
    /\ asked \subseteq [action : {0, 1}, tid : 1 .. transaction_id, id : Nat]
    /\ net \subseteq Genuine(transaction_id)
    /\ inbox \in Seq(Genuine(transaction_id))

\* What announce_udp has concluded from them.
ResultInv ==
    /\ sock = "open" /\ phase = "announce" => connection_id \in 1 .. transaction_id
    /\ pc # "returned" => result = NoResult
    /\ result.kind = "peers" => result.from = transaction_id /\ connection_id # 0

\* Unless something else went wrong, attempts are used up by losses.
LossInv == sock = "open" /\ ~upset => losses = attempt

TrackerInv == TypeOK /\ SocketInv /\ DatagramInv /\ ResultInv /\ LossInv

\* Drawing another transaction.
LEMMA GenuineGrows ==
    ASSUME NEW t \in Nat
    PROVE  Genuine(t) \subseteq Genuine(t + 1)
  BY DEF Genuine

LEMMA SeqGrows ==
    ASSUME NEW S, NEW T, S \subseteq T, NEW s \in Seq(S)
    PROVE  s \in Seq(T)
  OBVIOUS

\* What the tracker answers, and what others send.
LEMMA AnswersGenuine ==
    ASSUME NEW t \in Nat, NEW r \in [action : {0, 1}, tid : 1 .. t, id : Nat],
           NEW d \in Answers(r)
    PROVE  d \in Genuine(t)
<1>1. r.tid \in Nat /\ r.tid \in 0 .. t
  OBVIOUS
<1>2. ASSUME NEW n \in ErrorBytes, d = Reply(8 + n, 3, r.tid, 0) PROVE d \in Genuine(t)
  <2>1. 8 + n \in Nat
    BY TrackerAssumption
  <2> QED  BY <1>1, <1>2, <2>1 DEF Reply, Genuine
<1>3. CASE d = Reply(20, 2, r.tid, 0)
  BY <1>1, <1>3 DEF Reply, Genuine
<1>4. CASE d = Reply(16, 0, r.tid, r.tid)
  BY <1>1, <1>4 DEF Reply, Genuine
<1>5. ASSUME NEW n \in PeerBytes, d = Reply(20 + n, 1, r.tid, 0) PROVE d \in Genuine(t)
  <2>1. 20 + n \in Nat
    BY TrackerAssumption
  <2> QED  BY <1>1, <1>5, <2>1 DEF Reply, Genuine
<1> QED  BY <1>2, <1>3, <1>4, <1>5 DEF Answers

LEMMA ForeignGenuine ==
    ASSUME NEW t \in Nat, NEW d \in Foreign
    PROVE  d \in Genuine(t)
  BY DEF Foreign, Reply, Genuine

LEMMA InitInv == Init => TrackerInv
  BY TrackerAssumption
     DEF Init, TrackerInv, TypeOK, SocketInv, DatagramInv, ResultInv, LossInv, NoResult

\* Steps between two trackers.
LEMMA BetweenInv ==
    ASSUME TrackerInv,
           Unsupported \/ announce_http \/ ResolveFails \/ OpenSocket \/ AllFailed
    PROVE  TrackerInv'
<1> USE TrackerAssumption
<1>1. CASE Unsupported \/ ResolveFails
  <2>1. PICK t \in Nat : TryNext(t)
    BY <1>1 DEF Unsupported, ResolveFails
  <2>2. /\ pc = "next" /\ url <= Len(announce_list)
        /\ UNCHANGED <<main, loop, network, transaction_id, sock, result, losses>>
    BY <1>1 DEF Unsupported, ResolveFails
  <2> QED
    BY <2>1, <2>2
       DEF TrackerInv, TypeOK, SocketInv, DatagramInv, ResultInv, LossInv, TryNext,
           main, loop, network
<1>2. CASE announce_http
  BY <1>2
     DEF TrackerInv, TypeOK, SocketInv, DatagramInv, ResultInv, LossInv,
         announce_http, TryNext, main, loop, network
<1>3. CASE OpenSocket
  <2>1. TypeOK'
    BY <1>3 DEF TrackerInv, TypeOK, OpenSocket, main, network
  <2>2. SocketInv' /\ DatagramInv' /\ LossInv'
    BY <1>3
       DEF TrackerInv, TypeOK, SocketInv, DatagramInv, LossInv, OpenSocket, network
  <2>3. ResultInv'
    BY <1>3 DEF TrackerInv, ResultInv, NoResult, OpenSocket
  <2> QED  BY <2>1, <2>2, <2>3 DEF TrackerInv
<1>4. CASE AllFailed
  BY <1>4
     DEF TrackerInv, TypeOK, SocketInv, DatagramInv, ResultInv, LossInv, AllFailed,
         main, loop, network, ghosts
<1> QED  BY <1>1, <1>2, <1>3, <1>4

\* Leaving announce_udp with an exception.
LEMMA ThrowInv ==
    ASSUME TrackerInv, SetTimeoutFails \/ GiveUp \/ \E d : RecvError(d)
    PROVE  TrackerInv'
<1> USE TrackerAssumption
<1>1. /\ cleanup /\ pc \in {"send", "recv"}
      /\ UNCHANGED <<main, loop, transaction_id, result, faults, losses>>
      /\ TryNext(0) \/ TryNext(current_timeout)
  BY DEF SetTimeoutFails, GiveUp, RecvError, Reading, ThrowUdp
<1>2. PICK t \in Nat : TryNext(t)
  BY <1>1 DEF TrackerInv, TypeOK
<1> QED
  BY <1>1, <1>2
     DEF TrackerInv, TypeOK, SocketInv, DatagramInv, ResultInv, LossInv, cleanup,
         TryNext, main, loop

\* Sending a request.
LEMMA SendInv ==
    ASSUME TrackerInv, SendFails \/ SendRequest
    PROVE  TrackerInv'
<1> USE TrackerAssumption
<1>1. transaction_id' = transaction_id + 1 /\ transaction_id \in Nat
  BY DEF TrackerInv, TypeOK, SendFails, SendRequest
<1>2. inbox' = inbox /\ net' = net
  BY DEF SendFails, SendRequest, network
<1>3. net' \subseteq Genuine(transaction_id') /\ inbox' \in Seq(Genuine(transaction_id'))
  BY <1>1, <1>2, GenuineGrows, SeqGrows DEF TrackerInv, DatagramInv
<1>4. CASE SendFails
  <2>1. asked' \subseteq [action : {0, 1}, tid : 1 .. transaction_id', id : Nat]
    BY <1>1, <1>4 DEF TrackerInv, DatagramInv, SendFails, network
  <2>2. TypeOK'
    BY <1>1, <1>4
       DEF TrackerInv, TypeOK, SendFails, NextAttempt, AttemptsLeft, main, network
  <2>3. SocketInv' /\ LossInv'
    BY <1>4 DEF TrackerInv, SocketInv, LossInv, SendFails, NextAttempt
  <2>4. ResultInv'
    BY <1>1, <1>4 DEF TrackerInv, SocketInv, ResultInv, NoResult, SendFails, NextAttempt
  <2> QED  BY <1>3, <2>1, <2>2, <2>3, <2>4 DEF TrackerInv, DatagramInv
<1>5. CASE SendRequest
  <2>1. [action |-> Expected(phase), tid |-> transaction_id + 1, id |-> connection_id]
          \in [action : {0, 1}, tid : 1 .. transaction_id', id : Nat]
    BY <1>1 DEF TrackerInv, TypeOK, Expected
  <2>2. asked' \subseteq [action : {0, 1}, tid : 1 .. transaction_id', id : Nat]
    BY <1>1, <1>5, <2>1 DEF TrackerInv, DatagramInv, SendRequest
  <2>3. asked' \subseteq Request
    BY <1>1, <2>2 DEF Request
  <2>4. TypeOK'
    BY <1>1, <1>5, <2>3 DEF TrackerInv, TypeOK, SendRequest, main, loop, ghosts
  <2>5. SocketInv' /\ LossInv'
    BY <1>1, <1>5
       DEF TrackerInv, TypeOK, SocketInv, LossInv, SendRequest, AttemptsLeft, loop,
           ghosts
  <2>6. ResultInv'
    BY <1>1, <1>5 DEF TrackerInv, SocketInv, ResultInv, NoResult, SendRequest, loop
  <2> QED  BY <1>3, <2>2, <2>4, <2>5, <2>6 DEF TrackerInv, DatagramInv
<1> QED  BY <1>4, <1>5

\* Waiting for a reply, and reading one.
LEMMA RecvInv ==
    ASSUME TrackerInv,
           RecvTimeout \/ \E d : RecvUnfit(d) \/ RecvConnected(d) \/ RecvPeers(d)
    PROVE  TrackerInv'
<1> USE TrackerAssumption
<1>1. CASE RecvTimeout
  BY <1>1
     DEF TrackerInv, TypeOK, SocketInv, DatagramInv, ResultInv, LossInv, RecvTimeout,
         NextAttempt, main, network
<1>2. ASSUME NEW d, Reading(d)
      PROVE  d \in Genuine(transaction_id) /\ Tail(inbox) \in Seq(Genuine(transaction_id))
  BY <1>2 DEF Reading, TrackerInv, DatagramInv
<1>3. ASSUME NEW d, RecvUnfit(d) PROVE TrackerInv'
  <2>1. inbox' \in Seq(Genuine(transaction_id)) /\ pc = "recv"
    BY <1>2, <1>3 DEF RecvUnfit, Reading
  <2>2. attempt' = attempt + 1 /\ pc' = "send" /\ current_timeout' \in Nat \ {0}
    BY <1>3 DEF RecvUnfit, NextAttempt, TrackerInv, TypeOK
  <2> QED
    BY <1>3, <2>1, <2>2
       DEF TrackerInv, TypeOK, SocketInv, DatagramInv, ResultInv, LossInv, RecvUnfit,
           main
<1>4. ASSUME NEW d, RecvConnected(d) PROVE TrackerInv'
  <2>1. inbox' \in Seq(Genuine(transaction_id)) /\ pc = "recv"
    BY <1>2, <1>4 DEF RecvConnected, Reading
  <2>2. d \in Genuine(transaction_id) /\ d.action = 0 /\ d.tid = transaction_id
    BY <1>2, <1>4 DEF RecvConnected, Fits, RightTransaction
  <2>3. connection_id' = transaction_id /\ transaction_id \in Nat \ {0}
    BY <1>4, <2>1, <2>2 DEF RecvConnected, Genuine, TrackerInv, TypeOK, SocketInv
  <2> QED
    BY <1>4, <2>1, <2>3
       DEF TrackerInv, TypeOK, SocketInv, DatagramInv, ResultInv, LossInv,
           RecvConnected, AnnounceTimeout, main
<1>5. ASSUME NEW d, RecvPeers(d) PROVE TrackerInv'
  <2>1. /\ pc = "recv" /\ sock = "open" /\ phase = "announce" /\ d.tid = transaction_id
        /\ result'.kind = "peers" /\ result'.from = d.tid
    BY <1>5
       DEF RecvPeers, Reading, Fits, RightTransaction, Peers, TrackerInv, SocketInv
  <2>2. connection_id # 0
    BY <2>1 DEF TrackerInv, TypeOK, ResultInv
  <2> QED
    BY <1>5, <2>1, <2>2
       DEF TrackerInv, TypeOK, SocketInv, DatagramInv, ResultInv, LossInv, RecvPeers,
           cleanup, main, loop
<1> QED  BY <1>1, <1>3, <1>4, <1>5

\* The network, and the start of the engine.
LEMMA NetworkInv ==
    ASSUME TrackerInv, Network
    PROVE  TrackerInv'
<1>0. UNCHANGED wait
  BY DEF Network, TrackerReply, Deliver, Duplicate, Intrude
<1>1. DatagramInv' /\ asked' \subseteq asked
  <2>0. transaction_id \in Nat /\ UNCHANGED transaction_id /\ DatagramInv
    BY <1>0 DEF wait, TrackerInv, TypeOK
  <2>1. ASSUME NEW r \in asked, NEW d \in Answers(r), TrackerReply(r, d)
        PROVE  DatagramInv' /\ asked' \subseteq asked
    <3>1. d \in Genuine(transaction_id)
      BY <2>0, AnswersGenuine DEF DatagramInv
    <3> QED  BY <2>0, <2>1, <3>1 DEF TrackerReply, DatagramInv
  <2>2. ASSUME NEW d \in Genuine(transaction_id), Deliver(d) \/ Duplicate(d) \/ Intrude(d)
        PROVE  DatagramInv' /\ asked' \subseteq asked
    BY <2>0, <2>2 DEF Deliver, Duplicate, Intrude, DatagramInv
  <2> QED  BY <2>0, <2>1, <2>2, ForeignGenuine DEF Network, DatagramInv
<1>2. \A d \in net' : d.len \in Nat /\ d.action \in 0 .. 3 /\ d.tid \in Nat
  BY <1>0, <1>1 DEF DatagramInv, Genuine, TrackerInv, TypeOK, wait
<1>3. ~upset' => ~upset
  BY DEF Network, TrackerReply, Deliver, Duplicate, Intrude
<1> QED
  BY <1>0, <1>1, <1>2, <1>3
     DEF TrackerInv, TypeOK, SocketInv, ResultInv, LossInv, wait, main, loop

LEMMA StartInv ==
    ASSUME TrackerInv, (\E peer : StartEngine(peer)) \/ UNCHANGED vars
    PROVE  TrackerInv'
<1>1. CASE \E peer : StartEngine(peer)
  BY <1>1
     DEF TrackerInv, TypeOK, SocketInv, DatagramInv, ResultInv, LossInv, StartEngine,
         loop, network, ghosts
<1>2. CASE UNCHANGED vars
  BY <1>2
     DEF TrackerInv, TypeOK, SocketInv, DatagramInv, ResultInv, LossInv, vars, main,
         loop, network, ghosts
<1> QED  BY <1>1, <1>2

LEMMA TrackerInvariant == Spec => []TrackerInv
<1>1. TrackerInv /\ [Next]_vars => TrackerInv'
  BY BetweenInv, ThrowInv, SendInv, RecvInv, NetworkInv, StartInv DEF Next, Client
<1> QED  BY <1>1, InitInv, PTL DEF Spec

----------------------------------------------------------------------------
(* Theorems.                                                               *)

\* The socket and the address are held exactly while announce_udp runs, over
\* every exception, early return and retry, and the retry loops stay within
\* their bounds.
THEOREM SocketAlwaysReleased == Spec => []SocketReleased
<1>1. TrackerInv => SocketReleased
  BY DEF TrackerInv, SocketInv, SocketReleased
<1> QED  BY <1>1, TrackerInvariant, PTL

\* Announces carry an id that a tracker issued, and the peers returned answer
\* the last request, whatever datagrams were read on the way.
THEOREM AnswersAuthentic == Spec => []Authentic
<1>1. TrackerInv => Authentic
  BY DEF TrackerInv, ResultInv, Authentic
<1> QED  BY <1>1, TrackerInvariant, PTL

\* A UDP tracker is given up only when every attempt of a phase timed out, or
\* something other than a loss happened to its socket.
THEOREM LossTolerated == Spec => ToleratesLoss
<1>1. TrackerInv /\ [Next]_vars
        => [sock = "open" /\ url' # url => upset' \/ losses >= Attempts]_vars
  <2> SUFFICES ASSUME TrackerInv, Next, sock = "open", url' # url, ~upset'
               PROVE  losses >= Attempts
    OBVIOUS
  <2>1. pc \in {"send", "recv"}
    BY DEF TrackerInv, SocketInv
  <2>2. GiveUp
    <3>1. ~Network
      BY DEF Network, TrackerReply, Deliver, Duplicate, Intrude, wait
    <3>2. \/ SetTimeoutFails \/ GiveUp
          \/ \E d : RecvError(d)
      BY <2>1, <3>1
         DEF Next, Client, Unsupported, announce_http, ResolveFails, OpenSocket,
             AllFailed, SendFails, SendRequest, RecvTimeout, RecvUnfit, RecvConnected,
             RecvPeers, StartEngine, ghosts
    <3> QED  BY <3>2 DEF SetTimeoutFails, RecvError
  <2> QED
    BY <2>2, TrackerAssumption
       DEF GiveUp, AttemptsLeft, TrackerInv, TypeOK, LossInv
<1> QED  BY <1>1, TrackerInvariant, PTL DEF Spec, ToleratesLoss

----------------------------------------------------------------------------
(* How long a tracker may take.                                            *)

IsDoubling(f) ==
    f = [n \in 0 .. Attempts |-> IF n = 0 THEN 0 ELSE FirstTimeout + 2 * f[n - 1]]

LEMMA DoublingExists == \E f \in [0 .. Attempts -> Nat] : IsDoubling(f)
<1> DEFINE n == Attempts
           lo == 0
           S == Nat
           step == [k \in lo + 1 .. lo + n |-> [v \in Nat |-> FirstTimeout + 2 * v]]
<1>1. n \in Nat /\ FirstTimeout \in Nat
  BY TrackerAssumption
<1>2. step \in [lo + 1 .. lo + n -> [S -> S]]
  BY <1>1
<1>3. \A k \in lo + 1 .. lo + n : \A v \in Nat : step[k][v] = FirstTimeout + 2 * v
  BY <1>1
<1>4. lo \in Int /\ lo \in S /\ lo = 0 /\ S = Nat
  OBVIOUS
<1> HIDE DEF step, lo, n, S
<1>5. \E f \in [lo .. lo + n -> S] : Recurs(f, lo, n, lo, step)
  BY <1>1, <1>2, <1>4, RecursionExists, Zenon
<1>6. PICK f \in [lo .. lo + n -> S] :
         f[lo] = lo /\ \A k \in lo + 1 .. lo + n : f[k] = step[k][f[k - 1]]
  BY <1>5 DEF Recurs
<1>7. ASSUME NEW k \in 0 .. n
      PROVE  f[k] = IF k = 0 THEN 0 ELSE FirstTimeout + 2 * f[k - 1]
  <2>1. CASE k = 0
    BY <1>4, <1>6, <2>1
  <2>2. CASE k # 0
    <3>1. k \in lo + 1 .. lo + n /\ k - 1 \in lo .. lo + n
      BY <1>1, <1>4, <2>2
    <3>2. f[k] = step[k][f[k - 1]] /\ f[k - 1] \in Nat
      BY <1>4, <1>6, <3>1
    <3> QED  BY <1>3, <2>2, <3>1, <3>2
  <2> QED  BY <2>1, <2>2
<1>8. f \in [0 .. n -> Nat]
  BY <1>1, <1>4, <1>6
<1> QED  BY <1>7, <1>8 DEF IsDoubling, n

LEMMA DoublingFacts ==
    /\ \A n \in 0 .. Attempts : Doubling[n] \in Nat /\ Doubling[n] <= Doubling[Attempts]
    /\ Doubling[0] = 0
    /\ \A n \in 0 .. Attempts - 1 : Doubling[n + 1] = FirstTimeout + 2 * Doubling[n]
<1>0. Attempts \in Nat /\ FirstTimeout \in Nat
  BY TrackerAssumption
<1>1. \A n \in 0 .. Attempts :
         Doubling[n] = IF n = 0 THEN 0 ELSE FirstTimeout + 2 * Doubling[n - 1]
  <2>1. IsDoubling(Doubling)
    BY DoublingExists DEF Doubling, IsDoubling
  <2> QED  BY <2>1 DEF IsDoubling
<1>2. /\ Doubling[0] = 0
      /\ \A n \in 0 .. Attempts - 1 : Doubling[n + 1] = FirstTimeout + 2 * Doubling[n]
  BY <1>0, <1>1
<1> DEFINE G == {n \in 0 .. Attempts :
                   \A m \in 0 .. n : Doubling[m] \in Nat /\ Doubling[m] <= Doubling[n]}
<1>3. 0 \in G
  BY <1>0, <1>2
<1>4. ASSUME NEW n \in 0 .. Attempts - 1, n \in G PROVE n + 1 \in G
  <2>1. Doubling[n + 1] = FirstTimeout + 2 * Doubling[n] /\ Doubling[n] \in Nat
    BY <1>2, <1>4
  <2>2. Doubling[n + 1] \in Nat /\ Doubling[n] <= Doubling[n + 1]
    BY <1>0, <2>1
  <2>3. ASSUME NEW m \in 0 .. n PROVE Doubling[m] \in Nat /\ Doubling[m] <= Doubling[n + 1]
    <3>1. Doubling[m] \in Nat /\ Doubling[m] <= Doubling[n]
      BY <1>4
    <3> QED  BY <2>1, <2>2, <3>1
  <2> QED  BY <1>0, <2>2, <2>3
<1>5. \A n \in 0 .. Attempts : n \in G
  <2> HIDE DEF G
  <2>1. Attempts >= 1 => 1 \in G
    BY <1>0, <1>3, <1>4
  <2>2. \A n \in 1 .. Attempts - 1 : n \in G => n + 1 \in G
    BY <1>0, <1>4
  <2>3. \A n \in 1 .. Attempts : n \in G
    BY <1>0, <2>1, <2>2, UptoInduction
  <2> QED  BY <1>0, <1>3, <2>3
<1>6. ASSUME NEW n \in 0 .. Attempts
      PROVE  Doubling[n] \in Nat /\ Doubling[n] <= Doubling[Attempts]
  <2>1. n \in G /\ Attempts \in G
    <3> HIDE DEF G
    <3> QED  BY <1>0, <1>5
  <2> QED  BY <1>0, <2>1
<1> QED  BY <1>2, <1>6

LEMMA CostNat == \A k \in 1 .. Len(announce_list) : Cost(announce_list[k]) \in Nat
<1>1. Doubling[Attempts] \in Nat
  BY DoublingFacts, TrackerAssumption
<1>2. ASSUME NEW k \in 1 .. Len(announce_list) PROVE Cost(announce_list[k]) \in Nat
  <2>1. announce_list[k] \in Scheme
    BY TrackerAssumption
  <2>2. HttpTimeout \in Nat /\ ResolveTimeout \in Nat
    BY TrackerAssumption
  <2> QED  BY <1>1, <2>1, <2>2 DEF Cost, Scheme
<1> QED  BY <1>2

IsBudget(f) ==
    f = [k \in 0 .. Len(announce_list) |->
            IF k = 0 THEN 0 ELSE f[k - 1] + Cost(announce_list[k])]

LEMMA BudgetExists == \E f \in [0 .. Len(announce_list) -> Nat] : IsBudget(f)
<1> DEFINE n == Len(announce_list)
           lo == 0
           S == Nat
           cost == [k \in lo + 1 .. lo + n |-> Cost(announce_list[k])]
           step == [k \in lo + 1 .. lo + n |-> [v \in Nat |-> v + cost[k]]]
<1>1. n \in Nat
  BY TrackerAssumption
<1>2. lo \in Int /\ lo \in S /\ lo = 0 /\ S = Nat
  OBVIOUS
<1>3. /\ cost \in [lo + 1 .. lo + n -> Nat]
      /\ \A k \in lo + 1 .. lo + n : cost[k] = Cost(announce_list[k])
  BY <1>1, CostNat
<1> HIDE DEF cost
<1>4. /\ step \in [lo + 1 .. lo + n -> [S -> S]]
      /\ \A k \in lo + 1 .. lo + n : \A v \in Nat : step[k][v] = v + cost[k]
  BY <1>1, <1>3
<1> HIDE DEF step, lo, n, S
<1>5. \E f \in [lo .. lo + n -> S] : Recurs(f, lo, n, lo, step)
  BY <1>1, <1>2, <1>4, RecursionExists, Zenon
<1>6. PICK f \in [lo .. lo + n -> S] :
         f[lo] = lo /\ \A k \in lo + 1 .. lo + n : f[k] = step[k][f[k - 1]]
  BY <1>5 DEF Recurs
<1>7. ASSUME NEW k \in 0 .. n
      PROVE  f[k] = IF k = 0 THEN 0 ELSE f[k - 1] + Cost(announce_list[k])
  <2>1. CASE k = 0
    BY <1>2, <1>6, <2>1
  <2>2. CASE k # 0
    <3>1. k \in lo + 1 .. lo + n /\ k - 1 \in lo .. lo + n
      BY <1>1, <1>2, <2>2
    <3>2. f[k] = step[k][f[k - 1]] /\ f[k - 1] \in Nat
      BY <1>2, <1>6, <3>1
    <3>3. f[k] = f[k - 1] + cost[k] /\ cost[k] = Cost(announce_list[k])
      BY <1>3, <1>4, <3>1, <3>2
    <3> QED  BY <2>2, <3>3
  <2> QED  BY <2>1, <2>2
<1>8. f \in [0 .. n -> Nat]
  BY <1>1, <1>2, <1>6
<1> QED  BY <1>7, <1>8 DEF IsBudget, n

LEMMA BudgetFacts ==
    /\ \A k \in 0 .. Len(announce_list) : Budget[k] \in Nat
    /\ Budget[0] = 0
    /\ \A k \in 1 .. Len(announce_list) :
          Budget[k] = Budget[k - 1] + Cost(announce_list[k])
<1> DEFINE n == Len(announce_list)
<1>0. n \in Nat
  BY TrackerAssumption
<1>1. \A k \in 0 .. n :
         Budget[k] = IF k = 0 THEN 0 ELSE Budget[k - 1] + Cost(announce_list[k])
  <2>1. IsBudget(Budget)
    BY BudgetExists DEF Budget, IsBudget
  <2> QED  BY <2>1 DEF IsBudget
<1>2. /\ Budget[0] = 0
      /\ \A k \in 1 .. n : Budget[k] = Budget[k - 1] + Cost(announce_list[k])
  BY <1>0, <1>1
<1> DEFINE G == {k \in 0 .. n : Budget[k] \in Nat}
<1>3. 0 \in G
  BY <1>0, <1>2
<1>4. ASSUME NEW k \in 0 .. n - 1, k \in G PROVE k + 1 \in G
  <2>1. k + 1 \in 1 .. n /\ (k + 1) - 1 = k
    BY <1>0
  <2>2. Budget[k + 1] = Budget[k] + Cost(announce_list[k + 1])
    BY <1>2, <2>1
  <2>3. Cost(announce_list[k + 1]) \in Nat
    BY <2>1, CostNat
  <2> QED  BY <1>0, <1>4, <2>2, <2>3
<1>5. \A k \in 0 .. n : k \in G
  <2> HIDE DEF G, n
  <2>1. n >= 1 => 1 \in G
    BY <1>0, <1>3, <1>4
  <2>2. \A k \in 1 .. n - 1 : k \in G => k + 1 \in G
    BY <1>0, <1>4
  <2>3. \A k \in 1 .. n : k \in G
    BY <1>0, <2>1, <2>2, UptoInduction
  <2> QED  BY <1>0, <1>3, <2>3
<1> QED  BY <1>2, <1>5

\* Attempt n + 1 of a phase waits no longer than the n attempts before it and
\* one first timeout together, so that n attempts take Doubling[n] at most;
\* the announce phase comes after a whole connect phase, and both after the
\* trackers before this one and the resolution of its name.
UdpTime(att, ph) ==
    ResolveTimeout + Doubling[att] + (IF ph = "announce" THEN Doubling[Attempts] ELSE 0)

\* It grows with the attempts, and is the cost of the tracker at most.
LEMMA UdpTimeFacts ==
    ASSUME NEW att \in 0 .. Attempts, NEW ph
    PROVE  /\ UdpTime(att, ph) \in Nat
           /\ UdpTime(att, ph) <= UdpTime(Attempts, ph)
           /\ UdpTime(Attempts, ph) \in Nat
           /\ UdpTime(Attempts, ph) <= ResolveTimeout + 2 * Doubling[Attempts]
<1>1. /\ Doubling[att] \in Nat /\ Doubling[Attempts] \in Nat
      /\ Doubling[att] <= Doubling[Attempts] /\ ResolveTimeout \in Nat
  BY DoublingFacts, TrackerAssumption
<1>2. CASE ph = "announce"
  <2>1. /\ UdpTime(att, ph) = ResolveTimeout + Doubling[att] + Doubling[Attempts]
        /\ UdpTime(Attempts, ph) = ResolveTimeout + Doubling[Attempts] + Doubling[Attempts]
    BY <1>2 DEF UdpTime
  <2> QED  BY <1>1, <2>1
<1>3. CASE ph # "announce"
  <2>1. /\ UdpTime(att, ph) = ResolveTimeout + Doubling[att] + 0
        /\ UdpTime(Attempts, ph) = ResolveTimeout + Doubling[Attempts] + 0
    BY <1>3 DEF UdpTime
  <2> QED  BY <1>1, <2>1
<1> QED  BY <1>2, <1>3

TimeInv ==
    /\ pc \in {"next", "thrown"} => blocked <= Budget[url - 1]
    /\ pc \in {"send", "recv"} =>
          /\ url <= Len(announce_list) /\ announce_list[url] = "udp"
          /\ current_timeout <= FirstTimeout + Doubling[attempt]
          /\ blocked <= Budget[url - 1] + UdpTime(attempt, phase)
    /\ BlockedBound

\* One more attempt, that waited for its timeout at most.
LEMMA AttemptTime ==
    ASSUME TrackerInv, TimeInv, pc \in {"send", "recv"}, attempt < Attempts
    PROVE  /\ 2 * current_timeout <= FirstTimeout + Doubling[attempt + 1]
           /\ current_timeout <= FirstTimeout + Doubling[attempt + 1]
           /\ blocked + current_timeout <= Budget[url - 1] + UdpTime(attempt + 1, phase)
           /\ blocked <= Budget[url - 1] + UdpTime(attempt + 1, phase)
<1>1. /\ attempt \in 0 .. Attempts - 1 /\ attempt + 1 \in 0 .. Attempts
      /\ current_timeout \in Nat /\ blocked \in Nat
      /\ FirstTimeout \in Nat /\ ResolveTimeout \in Nat
  BY TrackerAssumption DEF TrackerInv, TypeOK
<1>2. /\ Doubling[attempt] \in Nat /\ Doubling[attempt + 1] \in Nat
      /\ Doubling[Attempts] \in Nat
      /\ Doubling[attempt + 1] = FirstTimeout + 2 * Doubling[attempt]
  BY <1>1, DoublingFacts, TrackerAssumption
<1>3. Budget[url - 1] \in Nat
  <2>1. url - 1 \in 0 .. Len(announce_list)
    BY TrackerAssumption DEF TrackerInv, TypeOK
  <2> QED  BY <2>1, BudgetFacts
<1>4. /\ current_timeout <= FirstTimeout + Doubling[attempt]
      /\ blocked <= Budget[url - 1] + UdpTime(attempt, phase)
  BY DEF TimeInv
<1>5. PICK rest \in Nat :
         /\ UdpTime(attempt, phase) = ResolveTimeout + Doubling[attempt] + rest
         /\ UdpTime(attempt + 1, phase) = ResolveTimeout + Doubling[attempt + 1] + rest
  <2>1. CASE phase = "announce"
    BY <1>2, <2>1 DEF UdpTime
  <2>2. CASE phase # "announce"
    BY <2>2 DEF UdpTime
  <2> QED  BY <2>1, <2>2
<1> QED  BY <1>1, <1>2, <1>3, <1>4, <1>5

\* The budget of the tracker being tried is that of the trackers before it and
\* its own cost.
LEMMA UrlBudget ==
    ASSUME TypeOK
    PROVE  /\ Budget[url - 1] \in Nat
           /\ url <= Len(announce_list) =>
                 /\ Budget[url] \in Nat
                 /\ Budget[url] = Budget[url - 1] + Cost(announce_list[url])
                 /\ Cost(announce_list[url]) \in Nat
<1>1. url - 1 \in 0 .. Len(announce_list)
      /\ (url <= Len(announce_list) => url \in 1 .. Len(announce_list)
                                       /\ url \in 0 .. Len(announce_list))
  BY TrackerAssumption DEF TypeOK
<1> QED  BY <1>1, BudgetFacts, CostNat

LEMMA InitTime == Init => TimeInv
<1> SUFFICES ASSUME Init PROVE TimeInv
  OBVIOUS
<1>1. blocked = 0 /\ url = 1 /\ pc = "next" /\ Len(announce_list) \in Nat
  BY TrackerAssumption DEF Init
<1>2. 1 - 1 = 0 /\ Budget[0] = 0
  BY BudgetFacts
<1>3. \A k \in 0 .. Len(announce_list) : Budget[k] \in Nat
  BY BudgetFacts
<1> QED  BY <1>1, <1>2, <1>3 DEF TimeInv, BlockedBound

LEMMA NextTime ==
    ASSUME TrackerInv, TrackerInv', TimeInv, [Next]_vars
    PROVE  TimeInv'
<1>0. /\ Doubling[0] = 0 /\ Doubling[Attempts] \in Nat
      /\ HttpTimeout \in Nat /\ ResolveTimeout \in Nat
      /\ FirstTimeout \in Nat /\ Attempts \in Nat /\ Len(announce_list) \in Nat
      /\ TypeOK /\ TypeOK'
  BY DoublingFacts, TrackerAssumption DEF TrackerInv
<1>b. /\ Budget[url - 1] \in Nat
      /\ url <= Len(announce_list) =>
            /\ Budget[url] \in Nat
            /\ Budget[url] = Budget[url - 1] + Cost(announce_list[url])
            /\ Cost(announce_list[url]) \in Nat
  BY <1>0, UrlBudget
<1>c. /\ url \in Nat /\ url >= 1 /\ blocked \in Nat /\ blocked' \in Nat
      /\ current_timeout \in Nat
  BY <1>0 DEF TypeOK
<1>1. ASSUME url <= Len(announce_list), NEW t \in Nat, TryNext(t),
             blocked + t <= Budget[url]
      PROVE  TimeInv'
  <2>1. url' = url + 1 /\ pc' = "next" /\ blocked' <= Budget[url]
    BY <1>1 DEF TryNext
  <2>2. url' - 1 = url
    BY <1>c, <2>1
  <2>3. blocked' <= Budget[IF url' <= Len(announce_list) THEN url' ELSE Len(announce_list)]
    <3>1. CASE url' <= Len(announce_list)
      <4>1. /\ url' \in 1 .. Len(announce_list)
        BY <1>c, <2>1, <3>1
      <4>2. /\ Budget[url'] = Budget[url' - 1] + Cost(announce_list[url'])
            /\ Cost(announce_list[url']) \in Nat
        BY <4>1, BudgetFacts, CostNat
      <4> QED  BY <1>b, <1>c, <1>1, <2>1, <2>2, <3>1, <4>2
    <3>2. CASE ~(url' <= Len(announce_list))
      <4>1. url = Len(announce_list)
        BY <1>0, <1>c, <1>1, <2>1, <3>2
      <4> QED  BY <2>1, <3>2, <4>1
    <3> QED  BY <3>1, <3>2
  <2> QED  BY <2>1, <2>2, <2>3 DEF TimeInv, BlockedBound
<1>2. ASSUME UNCHANGED <<loop, blocked, url, pc>> PROVE TimeInv'
  BY <1>2 DEF loop, TimeInv, BlockedBound
<1>u. ASSUME url <= Len(announce_list), announce_list[url] = "udp"
      PROVE  Budget[url] = Budget[url - 1] + (ResolveTimeout + 2 * Doubling[Attempts])
  <2>1. Cost(announce_list[url]) = ResolveTimeout + 2 * Doubling[Attempts]
    BY <1>u DEF Cost
  <2> QED  BY <1>b, <1>u, <2>1
<1>3. ASSUME pc' = "send", url' = url, url <= Len(announce_list),
             announce_list[url] = "udp",
             current_timeout' <= FirstTimeout + Doubling[attempt'],
             blocked' <= Budget[url - 1] + UdpTime(attempt', phase')
      PROVE  TimeInv'
  <2>1. attempt' \in 0 .. Attempts
    BY <1>0 DEF TypeOK
  <2> DEFINE x == UdpTime(attempt', phase')
             y == UdpTime(Attempts, phase')
  <2>2. x <= ResolveTimeout + 2 * Doubling[Attempts] /\ x \in Nat
    <3>1. x \in Nat /\ x <= y /\ y \in Nat /\ y <= ResolveTimeout + 2 * Doubling[Attempts]
      BY <2>1, UdpTimeFacts
    <3> HIDE DEF x, y
    <3> QED  BY <1>0, <3>1
  <2>3. blocked' <= Budget[url]
    <3>1. Budget[url] = Budget[url - 1] + (ResolveTimeout + 2 * Doubling[Attempts])
      BY <1>u, <1>3
    <3>2. blocked' <= Budget[url - 1] + x
      BY <1>3
    <3> HIDE DEF x
    <3> QED  BY <1>0, <1>b, <1>c, <2>2, <3>1, <3>2
  <2> QED  BY <1>3, <2>3 DEF TimeInv, BlockedBound
<1>4. CASE announce_http
  <2>1. pc = "next" /\ url <= Len(announce_list) /\ announce_list[url] = "http"
    BY <1>4 DEF announce_http
  <2>2. blocked + HttpTimeout <= Budget[url]
    <3>1. Budget[url] = Budget[url - 1] + HttpTimeout
      BY <1>b, <2>1 DEF Cost
    <3>2. blocked <= Budget[url - 1]
      BY <2>1 DEF TimeInv
    <3> QED  BY <1>0, <1>b, <1>c, <3>1, <3>2
  <2>3. CASE TryNext(HttpTimeout)
    BY <1>0, <1>1, <2>1, <2>2, <2>3
  <2>4. CASE ~TryNext(HttpTimeout)
    <3>1. pc' = "returned" /\ blocked' = blocked + HttpTimeout /\ url' = url
      BY <1>4, <2>4 DEF announce_http
    <3> QED  BY <2>1, <2>2, <3>1 DEF TimeInv, BlockedBound
  <2> QED  BY <2>3, <2>4
<1>5. CASE OpenSocket
  <2>1. /\ pc = "next" /\ url <= Len(announce_list) /\ announce_list[url] = "udp"
        /\ pc' = "send" /\ url' = url /\ phase' = "connect" /\ attempt' = 0
        /\ current_timeout' = FirstTimeout /\ blocked' = blocked + ResolveTimeout
    BY <1>5 DEF OpenSocket
  <2>2. blocked <= Budget[url - 1]
    BY <2>1 DEF TimeInv
  <2>3. UdpTime(attempt', phase') = ResolveTimeout
    BY <1>0, <2>1 DEF UdpTime
  <2>4. blocked' <= Budget[url - 1] + UdpTime(attempt', phase')
    BY <1>0, <1>b, <1>c, <2>1, <2>2, <2>3
  <2> QED  BY <1>0, <1>3, <2>1, <2>4
<1>6. CASE AllFailed
  BY <1>6 DEF AllFailed, ghosts, TimeInv, BlockedBound
<1>7. CASE SendFails
  <2>1. /\ pc = "send" /\ attempt < Attempts
        /\ url <= Len(announce_list) /\ announce_list[url] = "udp"
    BY <1>7 DEF SendFails, AttemptsLeft, TimeInv
  <2> QED  BY <1>3, <1>7, <2>1, AttemptTime DEF SendFails, NextAttempt
<1>8. CASE SendRequest
  BY <1>8 DEF SendRequest, loop, ghosts, TimeInv, BlockedBound
<1>9. CASE RecvTimeout \/ \E d : RecvUnfit(d)
  <2>1. /\ pc = "recv" /\ attempt < Attempts
        /\ url <= Len(announce_list) /\ announce_list[url] = "udp"
    BY <1>9 DEF RecvTimeout, RecvUnfit, Reading, TimeInv, TrackerInv, SocketInv
  <2>2. /\ blocked' = blocked + current_timeout
        /\ NextAttempt(TRUE) \/ NextAttempt(FALSE)
        /\ UNCHANGED <<url, phase>>
    BY <1>9 DEF RecvTimeout, RecvUnfit
  <2> QED  BY <1>3, <2>1, <2>2, AttemptTime DEF NextAttempt
\* A datagram that ends a phase came in time.
<1>r. ASSUME pc = "recv"
      PROVE  /\ url <= Len(announce_list) /\ announce_list[url] = "udp"
             /\ blocked + current_timeout <= Budget[url - 1] + UdpTime(Attempts, phase)
             /\ blocked + current_timeout <= Budget[url]
  <2>1. /\ attempt < Attempts /\ url <= Len(announce_list) /\ announce_list[url] = "udp"
    BY <1>r DEF TimeInv, TrackerInv, SocketInv
  <2>2. blocked + current_timeout <= Budget[url - 1] + UdpTime(attempt + 1, phase)
    BY <1>r, <2>1, AttemptTime
  <2>3. attempt + 1 \in 0 .. Attempts
    BY <1>0, <2>1 DEF TypeOK
  <2>5. /\ UdpTime(attempt + 1, phase) \in Nat /\ UdpTime(Attempts, phase) \in Nat
        /\ UdpTime(attempt + 1, phase) <= UdpTime(Attempts, phase)
        /\ UdpTime(Attempts, phase) <= ResolveTimeout + 2 * Doubling[Attempts]
    BY <2>3, UdpTimeFacts
  <2> DEFINE x == UdpTime(attempt + 1, phase)
             y == UdpTime(Attempts, phase)
  <2>6. /\ x \in Nat /\ y \in Nat /\ x <= y /\ y <= ResolveTimeout + 2 * Doubling[Attempts]
        /\ blocked + current_timeout <= Budget[url - 1] + x
    BY <2>2, <2>5
  <2>7. Budget[url] = Budget[url - 1] + (ResolveTimeout + 2 * Doubling[Attempts])
    BY <1>u, <2>1
  <2>8. /\ blocked + current_timeout <= Budget[url - 1] + y
        /\ blocked + current_timeout <= Budget[url]
    <3> DEFINE t == blocked + current_timeout
               b == Budget[url - 1]
               c == ResolveTimeout + 2 * Doubling[Attempts]
    <3>1. t \in Nat /\ b \in Nat /\ c \in Nat /\ t <= b + x /\ y <= c
      BY <1>0, <1>b, <1>c, <2>6
    <3> HIDE DEF x, y, t, b, c
    <3>2. t <= b + y /\ t <= b + c
      BY <2>6, <3>1
    <3> QED  BY <2>7, <3>2 DEF t, b, c
  <2> QED  BY <2>1, <2>8
<1>10. ASSUME NEW d, RecvConnected(d) PROVE TimeInv'
  <2>1. /\ pc = "recv" /\ phase = "connect" /\ pc' = "send" /\ phase' = "announce"
        /\ attempt' = 0 /\ current_timeout' = FirstTimeout /\ url' = url
        /\ blocked' = blocked + current_timeout
    BY <1>10 DEF RecvConnected, Reading, AnnounceTimeout
  <2>2. UdpTime(attempt', phase') = UdpTime(Attempts, phase)
    BY <1>0, <2>1 DEF UdpTime
  <2>3. blocked' <= Budget[url - 1] + UdpTime(attempt', phase')
    BY <1>r, <2>1, <2>2
  <2> QED  BY <1>0, <1>3, <1>r, <2>1, <2>3
<1>11. ASSUME NEW d, RecvPeers(d) PROVE TimeInv'
  <2>1. pc = "recv" /\ pc' = "returned" /\ url' = url /\ blocked' = blocked + current_timeout
    BY <1>11 DEF RecvPeers, Reading
  <2> QED  BY <1>r, <2>1 DEF TimeInv, BlockedBound
<1>12. CASE UNCHANGED vars \/ Network \/ \E peer : StartEngine(peer)
  <2>1. UNCHANGED <<loop, blocked, url, pc>>
    BY <1>12
       DEF vars, Network, TrackerReply, Deliver, Duplicate, Intrude, StartEngine, wait,
           ghosts
  <2> QED  BY <1>2, <2>1
<1>13. CASE Unsupported \/ SetTimeoutFails \/ GiveUp
  <2>1. TryNext(0) /\ url <= Len(announce_list)
    BY <1>13 DEF Unsupported, SetTimeoutFails, GiveUp, ThrowUdp, TimeInv
  <2>2. blocked <= Budget[url]
    BY <2>1 DEF TimeInv, BlockedBound
  <2> QED  BY <1>1, <1>c, <2>1, <2>2
<1>14. CASE ResolveFails
  <2>1. /\ pc = "next" /\ url <= Len(announce_list) /\ announce_list[url] = "udp"
        /\ TryNext(ResolveTimeout)
    BY <1>14 DEF ResolveFails
  <2>2. blocked + ResolveTimeout <= Budget[url]
    <3>1. Budget[url] = Budget[url - 1] + (ResolveTimeout + 2 * Doubling[Attempts])
      BY <1>u, <2>1
    <3>2. blocked <= Budget[url - 1]
      BY <2>1 DEF TimeInv
    <3> QED  BY <1>0, <1>b, <1>c, <3>1, <3>2
  <2> QED  BY <1>0, <1>1, <2>1, <2>2
<1>15. ASSUME NEW d, RecvError(d) PROVE TimeInv'
  <2>1. pc = "recv" /\ TryNext(current_timeout)
    BY <1>15 DEF RecvError, Reading, ThrowUdp
  <2> QED  BY <1>1, <1>c, <1>r, <2>1
<1> QED
  BY <1>4, <1>5, <1>6, <1>7, <1>8, <1>9, <1>10, <1>11, <1>12, <1>13, <1>14, <1>15
     DEF Next, Client

\* announce never keeps its caller longer than the trackers tried so far may
\* take together, name resolution and all timeouts of both phases included,
\* whatever the trackers and the network send and however often an attempt is
\* used up by a datagram that does not fit.
THEOREM BlockedBounded == Spec => []BlockedBound
<1>1. TrackerInv /\ TrackerInv' /\ TimeInv /\ [Next]_vars => TimeInv'
  BY NextTime
<1>2. TimeInv => BlockedBound
  BY DEF TimeInv
<1> QED  BY <1>1, <1>2, InitTime, TrackerInvariant, PTL DEF Spec

=============================================================================
