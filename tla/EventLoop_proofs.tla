-------------------------- MODULE EventLoop_proofs --------------------------
(***************************************************************************)
(* Proofs about EventLoop, for every set of descriptors, size of a batch,  *)
(* resolution of the clock, periods of the timers and delays of the        *)
(* thread.                                                                 *)
(***************************************************************************)
EXTENDS EventLoop, InductionLemmas

----------------------------------------------------------------------------
(* The kernel's list.                                                      *)

\* Appending an element that is not there.
LEMMA AppendNew ==
    ASSUME NEW R, NEW a \in Seq(R), IsInjective(a), NEW x, x \notin R
    PROVE  a \o <<x>> \in Seq(R \cup {x}) /\ IsInjective(a \o <<x>>)
<1> DEFINE b == (a \o <<x>>)
<1>1. /\ Len(a) \in Nat /\ DOMAIN a = 1 .. Len(a)
      /\ \A i \in 1 .. Len(a) : a[i] \in R
  OBVIOUS
<1>2. a \in Seq(R \cup {x}) /\ <<x>> \in Seq(R \cup {x})
  OBVIOUS
<1>3. /\ b \in Seq(R \cup {x}) /\ DOMAIN b = 1 .. Len(a) + 1
      /\ b[Len(a) + 1] = x /\ \A i \in 1 .. Len(a) : b[i] = a[i]
  BY <1>1, <1>2
<1> HIDE DEF b
<1>4. ASSUME NEW i \in DOMAIN b, NEW j \in DOMAIN b, b[i] = b[j] PROVE i = j
  <2>1. CASE i \in 1 .. Len(a) /\ j \in 1 .. Len(a)
    BY <1>1, <1>3, <1>4, <2>1 DEF IsInjective
  <2>2. CASE i = Len(a) + 1 /\ j \in 1 .. Len(a)
    BY <1>1, <1>3, <1>4, <2>2
  <2>3. CASE i \in 1 .. Len(a) /\ j = Len(a) + 1
    BY <1>1, <1>3, <1>4, <2>3
  <2> QED  BY <1>1, <1>3, <2>1, <2>2, <2>3
<1>5. IsInjective(b)
  BY <1>4 DEF IsInjective
<1>6. a \o <<x>> \in Seq(R \cup {x})
  BY <1>3 DEF b
<1>7. IsInjective(a \o <<x>>)
  BY <1>5, Zenon DEF b
<1> QED  BY <1>6, <1>7, Zenon

\* Taking some elements out of a sequence without repetitions leaves the
\* others, without repetitions.
LEMMA KeepInjective ==
    ASSUME NEW S, NEW s \in Seq(S), IsInjective(s), NEW K
    PROVE  LET r == FlattenSeq([i \in DOMAIN s |-> IF s[i] \in K THEN <<>> ELSE <<s[i]>>])
           IN  r \in Seq(S \ K) /\ IsInjective(r)
<1> DEFINE q == [i \in DOMAIN s |-> IF s[i] \in K THEN <<>> ELSE <<s[i]>>]
           P(k) == FlattenSeq(SubSeq(q, 1, k))
           R(k) == {s[i] : i \in 1 .. k} \ K
           G == {k \in 0 .. Len(s) : P(k) \in Seq(R(k)) /\ IsInjective(P(k))}
<1>0. Len(s) \in Nat /\ DOMAIN s = 1 .. Len(s) /\ \A i \in 1 .. Len(s) : s[i] \in S
  OBVIOUS
<1>1. \A i \in DOMAIN s : <<s[i]>> \in Seq(S) /\ <<>> \in Seq(S)
  OBVIOUS
<1>2. q \in Seq(Seq(S)) /\ Len(q) = Len(s)
  BY <1>0, <1>1
<1>3. \A i \in 1 .. Len(s) : q[i] = IF s[i] \in K THEN <<>> ELSE <<s[i]>>
  BY <1>0
<1> HIDE DEF q
<1>4. 0 \in G
  <2>1. SubSeq(q, 1, 0) = <<>>
    BY <1>2
  <2>2. P(0) = <<>>
    BY <2>1, FlattenEmpty
  <2> HIDE DEF P, R
  <2>3. <<>> \in Seq(R(0)) /\ IsInjective(<<>>)
    BY DEF IsInjective
  <2>4. P(0) \in Seq(R(0)) /\ IsInjective(P(0))
    BY <2>2, <2>3, Zenon
  <2>5. 0 \in 0 .. Len(s)
    BY <1>0
  <2> QED  BY <2>4, <2>5
<1>5. ASSUME NEW k \in 0 .. Len(s) - 1, k \in G PROVE k + 1 \in G
  <2>0. k + 1 \in 1 .. Len(s) /\ k \in Nat /\ k + 1 \in 0 .. Len(s)
    BY <1>0
  <2>1. P(k + 1) = P(k) \o q[k + 1]
    <3>1. SubSeq(q, 1, k) \in Seq(Seq(S)) /\ q[k + 1] \in Seq(S)
      BY <1>0, <1>2
    <3>2. SubSeq(q, 1, k + 1) = Append(SubSeq(q, 1, k), q[k + 1])
      BY <1>0, <1>2
    <3> QED  BY <3>1, <3>2, FlattenAppend
  <2>2. R(k + 1) = R(k) \cup ({s[k + 1]} \ K)
    BY <2>0
  <2>3. s[k + 1] \notin R(k)
    BY <1>0, <2>0 DEF IsInjective
  <2> HIDE DEF P, R
  <2>4. P(k) \in Seq(R(k)) /\ IsInjective(P(k))
    BY <1>5
  <2>5. CASE s[k + 1] \in K
    <3>1. P(k) \o <<>> = P(k)
      BY <2>4
    <3>2. P(k + 1) = P(k) /\ R(k + 1) = R(k)
      BY <1>3, <2>0, <2>1, <2>2, <2>5, <3>1
    <3> QED  BY <2>0, <2>4, <3>2
  <2>6. CASE s[k + 1] \notin K
    <3>1. P(k + 1) = P(k) \o <<s[k + 1]>> /\ R(k + 1) = R(k) \cup {s[k + 1]}
      BY <1>3, <2>0, <2>1, <2>2, <2>6
    <3>2. P(k + 1) \in Seq(R(k + 1)) /\ IsInjective(P(k + 1))
      <4> DEFINE a == P(k)
                 T == R(k)
                 x == s[k + 1]
      <4>1. a \in Seq(T) /\ IsInjective(a) /\ x \notin T
        BY <2>3, <2>4
      <4> HIDE DEF a, T, x
      <4>2. a \o <<x>> \in Seq(T \cup {x}) /\ IsInjective(a \o <<x>>)
        BY <4>1, AppendNew, Zenon
      <4> QED  BY <3>1, <4>2 DEF a, T, x
    <3> QED  BY <2>0, <3>2
  <2> QED  BY <2>5, <2>6
<1>6. Len(s) \in G
  <2> HIDE DEF G
  <2>1. Len(s) >= 1 => 1 \in G
    BY <1>0, <1>4, <1>5
  <2>2. \A k \in 1 .. Len(s) - 1 : k \in G => k + 1 \in G
    BY <1>0, <1>5
  <2>3. \A k \in 1 .. Len(s) : k \in G
    BY <1>0, <2>1, <2>2, UptoInduction
  <2> QED  BY <1>0, <1>4, <2>3
<1>7. SubSeq(q, 1, Len(s)) = q
  BY <1>2
<1>8. R(Len(s)) \subseteq S \ K
  BY <1>0
<1>9. FlattenSeq(q) \in Seq(R(Len(s))) /\ IsInjective(FlattenSeq(q))
  BY <1>6, <1>7
<1>10. FlattenSeq(q) \in Seq(S \ K)
  <2> HIDE DEF R
  <2> QED  BY <1>8, <1>9
<1> QED  BY <1>9, <1>10 DEF q

\* The elements of a part of a sequence, and of a concatenation.
LEMMA PartElements ==
    ASSUME NEW S, NEW s \in Seq(S), NEW i \in Nat, NEW k \in Nat, i <= k, k <= Len(s)
    PROVE  /\ SubSeq(s, i + 1, k) \in Seq(S) /\ Len(SubSeq(s, i + 1, k)) = k - i
           /\ \A x \in 1 .. k - i : SubSeq(s, i + 1, k)[x] = s[x + i]
  OBVIOUS

LEMMA JoinElements ==
    ASSUME NEW S, NEW s \in Seq(S), NEW t \in Seq(S)
    PROVE  /\ s \o t \in Seq(S) /\ DOMAIN (s \o t) = 1 .. Len(s) + Len(t)
           /\ \A i \in 1 .. Len(s) + Len(t) :
                 (s \o t)[i] = IF i <= Len(s) THEN s[i] ELSE t[i - Len(s)]
  OBVIOUS

\* Moving the first n elements to the end.
LEMMA RotateInjective ==
    ASSUME NEW S, NEW s \in Seq(S), IsInjective(s), NEW n \in 0 .. Len(s)
    PROVE  LET r == SubSeq(s, n + 1, Len(s)) \o SubSeq(s, 1, n)
           IN  r \in Seq(S) /\ IsInjective(r)
<1> DEFINE u == SubSeq(s, n + 1, Len(s))
           v == SubSeq(s, 1, n)
           r == u \o v
           m == Len(s) - n
<1>0. /\ Len(s) \in Nat /\ n \in Nat /\ n <= Len(s) /\ DOMAIN s = 1 .. Len(s)
      /\ m \in Nat /\ m + n = Len(s) /\ n + 1 \in 1 .. Len(s) + 1
  OBVIOUS
<1> HIDE DEF m
<1>1. /\ u \in Seq(S) /\ Len(u) = m /\ \A i \in 1 .. m : u[i] = s[i + n]
      /\ v \in Seq(S) /\ Len(v) = n /\ \A i \in 1 .. n : v[i] = s[i]
  <2>1. /\ u \in Seq(S) /\ Len(u) = Len(s) - n
        /\ \A i \in 1 .. Len(s) - n : u[i] = s[i + n]
    <3>1. Len(s) <= Len(s)
      BY <1>0
    <3> QED  BY <1>0, <3>1, PartElements
  <2>2. v \in Seq(S) /\ Len(v) = n /\ \A i \in 1 .. n : v[i] = s[i]
    BY <1>0
  <2> QED  BY <2>1, <2>2 DEF m
<1> HIDE DEF u, v
<1>2. /\ r \in Seq(S) /\ DOMAIN r = 1 .. Len(u) + Len(v)
      /\ \A i \in 1 .. Len(u) + Len(v) : r[i] = IF i <= Len(u) THEN u[i] ELSE v[i - Len(u)]
  BY <1>1, JoinElements
<1> HIDE DEF r
<1> DEFINE At(i) == IF i <= m THEN i + n ELSE i - m
<1>3. ASSUME NEW i \in 1 .. Len(s) PROVE r[i] = s[At(i)] /\ At(i) \in 1 .. Len(s)
  <2>1. i \in 1 .. Len(u) + Len(v)
    BY <1>0, <1>1
  <2>2. CASE i <= m
    BY <1>0, <1>1, <1>2, <2>1, <2>2
  <2>3. CASE ~(i <= m)
    <3>1. i - m \in 1 .. n
      BY <1>0, <2>3
    <3> QED  BY <1>0, <1>1, <1>2, <2>1, <2>3, <3>1
  <2> QED  BY <2>2, <2>3
<1>4. DOMAIN r = 1 .. Len(s)
  BY <1>0, <1>1, <1>2
<1>5. ASSUME NEW i \in DOMAIN r, NEW j \in DOMAIN r, r[i] = r[j] PROVE i = j
  <2>1. At(i) = At(j)
    <3> HIDE DEF At
    <3> QED  BY <1>0, <1>3, <1>4, <1>5 DEF IsInjective
  <2> QED  BY <1>0, <1>4, <2>1
<1>6. IsInjective(r)
  BY <1>5 DEF IsInjective
<1> QED  BY <1>2, <1>6 DEF r, u, v

----------------------------------------------------------------------------
(* The inductive invariant.                                                *)

TimerType ==
    /\ timers_ \subseteq [id : 1 .. MaxIds, kind : {"check", "progress", "other"}, left : Int]
    /\ \A t, u \in timers_ : t.id = u.id => t = u
    /\ cancelled_timers_ \subseteq 1 .. MaxIds

ClockType ==
    /\ pc \in {"timers", "wait", "batch", "stopped"} /\ running_ \in BOOLEAN
    /\ drift \in 0 .. MaxLate
    /\ timeout \in Nat \cup {-1} /\ (timeout # -1 => pc = "wait")

EventType ==
    /\ fd_callbacks_ \subseteq Fds
    /\ ready \in Seq(fd_callbacks_) /\ IsInjective(ready)
    /\ batch \in Seq(Fds) /\ (batch # <<>> => pc = "batch")

LoopInv == TimerType /\ ClockType /\ EventType /\ ~stale_call /\ SleepsNoLonger

LEMMA LoopInvTypes == TimerType /\ ClockType /\ EventType => TypeOK
  BY DEF TimerType, ClockType, EventType, TypeOK

\* Min of a nonempty set of natural numbers is its least element.
LEMMA MinLeast ==
    ASSUME NEW T \in SUBSET Nat, T # {}
    PROVE  Min(T) \in T /\ \A m \in T : Min(T) <= m
  BY LeastNatural DEF Min

LEMMA InitInv == Init => LoopInv
<1> SUFFICES ASSUME Init PROVE LoopInv
  OBVIOUS
<1>1. CheckDelay * TicksPerMs \in Int /\ ProgressDelay * TicksPerMs \in Int
  BY LoopAssumption
<1>2. TimerType
  <2>1. 1 \in 1 .. MaxIds /\ 2 \in 1 .. MaxIds
    BY LoopAssumption
  <2> QED  BY <1>1, <2>1 DEF Init, TimerType, Timer
<1>3. ClockType
  <2>1. running_ \in BOOLEAN
    BY DEF Init
  <2> QED  BY <2>1, LoopAssumption DEF Init, ClockType
<1>4. EventType
  BY DEF Init, EventType, IsInjective
<1>5. ~stale_call /\ SleepsNoLonger
  BY DEF Init, SleepsNoLonger
<1> QED  BY <1>2, <1>3, <1>4, <1>5 DEF LoopInv

----------------------------------------------------------------------------
(* Timers.                                                                 *)

\* A timer is registered under an id that is free.
LEMMA RegisterType ==
    ASSUME TimerType, NEW pending \in SUBSET timers_,
           NEW kind \in {"check", "progress", "other"}, NEW ms \in Nat,
           register_timer(pending, kind, ms)
    PROVE  /\ timers_' \subseteq [id : 1 .. MaxIds,
                                  kind : {"check", "progress", "other"}, left : Int]
           /\ \A t, u \in timers_' : t.id = u.id => t = u
           /\ pending \subseteq timers_'
<1> DEFINE i == Min(FreeIds(pending))
           new == Timer(i, kind, ms)
<1>1. i \in FreeIds(pending)
  <2>1. FreeIds(pending) \in SUBSET Nat /\ FreeIds(pending) # {}
    BY LoopAssumption DEF FreeIds, register_timer
  <2> QED  BY <2>1, MinLeast
<1>2. i \in 1 .. MaxIds /\ \A t \in pending : t.id # i
  BY <1>1 DEF FreeIds
<1>3. ms * TicksPerMs \in Int
  BY LoopAssumption
<1>4. timers_' = pending \cup {new}
  BY DEF register_timer
<1> HIDE DEF i
<1>5. new \in [id : 1 .. MaxIds, kind : {"check", "progress", "other"}, left : Int]
      /\ new.id = i
  BY <1>2, <1>3 DEF Timer
<1> HIDE DEF new
<1> QED  BY <1>2, <1>4, <1>5 DEF TimerType

\* The delay until a timer that is not due, in whole milliseconds.
LEMMA TimeoutBounds ==
    ASSUME TimerType, ClockType, NEW t \in timers_, ~Due(t)
    PROVE  TimeoutTicks(t) \in Nat /\ TimeoutTicks(t) <= t.left + drift
<1> DEFINE n == t.left + drift
<1>1. n \in Nat
  BY LoopAssumption DEF TimerType, ClockType, Due
<1> HIDE DEF n
<1>2. (n \div TicksPerMs) * TicksPerMs \in Nat /\ (n \div TicksPerMs) * TicksPerMs <= n
  BY <1>1, LoopAssumption
<1> QED  BY <1>2 DEF TimeoutTicks, n

\* Actions that leave some variables alone.
LEMMA PartsKept ==
    /\ TimerType /\ UNCHANGED <<timers_, cancelled_timers_>> => TimerType'
    /\ ClockType /\ UNCHANGED <<pc, running_, drift, timeout>> => ClockType'
    /\ EventType /\ UNCHANGED events /\ (pc' = "batch" \/ batch = <<>>) => EventType'
    /\ ~stale_call /\ UNCHANGED stale_call => ~stale_call'
    /\ pc' # "wait" => SleepsNoLonger'
<1>1. TimerType /\ UNCHANGED <<timers_, cancelled_timers_>> => TimerType'
  BY DEF TimerType
<1>2. ClockType /\ UNCHANGED <<pc, running_, drift, timeout>> => ClockType'
  BY DEF ClockType
<1>3. EventType /\ UNCHANGED events /\ (pc' = "batch" \/ batch = <<>>) => EventType'
  BY DEF EventType, events
<1>4. ~stale_call /\ UNCHANGED stale_call => ~stale_call'
  OBVIOUS
<1>5. pc' # "wait" => SleepsNoLonger'
  BY DEF SleepsNoLonger
<1> QED  BY <1>1, <1>2, <1>3, <1>4, <1>5

\* The steps before a wait.
LEMMA TimerSteps ==
    ASSUME LoopInv,
           \/ \E t \in timers_ : PruneCancelled(t) \/ FireTimer(t)
           \/ StartWait \/ Leave
    PROVE  LoopInv'
<1> USE DEF LoopInv
<1>0. pc = "timers" /\ batch = <<>>
  BY DEF PruneCancelled, FireTimer, StartWait, Leave, EventType
<1>1. EventType' /\ ~stale_call'
  <2>1. UNCHANGED events
    BY DEF PruneCancelled, FireTimer, StartWait, Leave
  <2> QED  BY <1>0, <2>1, PartsKept DEF events
<1>2. ASSUME NEW t \in timers_, PruneCancelled(t) PROVE LoopInv'
  <2>1. TimerType'
    BY <1>2 DEF PruneCancelled, TimerType
  <2>2. ClockType' /\ SleepsNoLonger'
    BY <1>0, <1>2, PartsKept DEF PruneCancelled
  <2> QED  BY <1>1, <2>1, <2>2
<1>3. ASSUME NEW t \in timers_, FireTimer(t) PROVE LoopInv'
  <2>1. TimerType'
    <3>1. CASE Again(t.kind) /\ ~StopsLoop(t.kind)
      <4>1. register_timer(timers_ \ {t}, t.kind, Period(t.kind))
            /\ UNCHANGED cancelled_timers_
        BY <1>3, <3>1 DEF FireTimer
      <4>2. Period(t.kind) \in Nat /\ t.kind \in {"check", "progress", "other"}
        BY LoopAssumption DEF Period, TimerType
      <4>3. timers_ \ {t} \in SUBSET timers_
        OBVIOUS
      <4>4. /\ timers_' \subseteq [id : 1 .. MaxIds,
                                   kind : {"check", "progress", "other"}, left : Int]
            /\ \A u, v \in timers_' : u.id = v.id => u = v
        BY <4>1, <4>2, <4>3, RegisterType
      <4> QED  BY <4>1, <4>4 DEF TimerType
    <3>2. CASE ~(Again(t.kind) /\ ~StopsLoop(t.kind))
      BY <1>3, <3>2 DEF FireTimer, TimerType
    <3> QED  BY <3>1, <3>2
  <2>2. ClockType'
    <3>1. running_' \in BOOLEAN
      BY <1>3 DEF FireTimer
    <3> QED  BY <1>3, <3>1, LoopAssumption DEF FireTimer, ClockType
  <2>3. SleepsNoLonger'
    BY <1>0, <1>3, PartsKept DEF FireTimer
  <2> QED  BY <1>1, <2>1, <2>2, <2>3
<1>4. CASE StartWait
  <2>1. TimerType' /\ UNCHANGED <<timers_, cancelled_timers_, drift, running_>> /\ pc' = "wait"
    BY <1>4, PartsKept DEF StartWait
  <2>2. CASE timers_ = {} /\ timeout' = -1
    BY <1>1, <2>1, <2>2 DEF ClockType, SleepsNoLonger
  <2>3. ASSUME NEW t \in Top, ~Cancelled(t), ~Due(t), timeout' = TimeoutTicks(t)
        PROVE  LoopInv'
    <3>1. t \in timers_ /\ \A u \in timers_ : t.left <= u.left
      BY DEF Top
    <3>2. timeout' \in Nat /\ timeout' <= t.left + drift
      BY <2>3, <3>1, TimeoutBounds
    <3>3. ClockType'
      BY <2>1, <3>2 DEF ClockType
    <3>4. ASSUME NEW u \in timers_ PROVE timeout' >= 0 /\ timeout' <= u.left + drift
      <4>1. t.left \in Int /\ u.left \in Int /\ drift \in Int /\ t.left <= u.left
        BY <3>1, LoopAssumption DEF TimerType, ClockType
      <4> QED  BY <3>2, <4>1
    <3>5. SleepsNoLonger'
      BY <2>1, <3>4 DEF SleepsNoLonger
    <3> QED  BY <1>1, <2>1, <3>3, <3>5
  <2> QED  BY <1>4, <2>2, <2>3 DEF StartWait
<1>5. CASE Leave
  <2>1. ClockType'
    BY <1>0, <1>5 DEF Leave, ClockType, timing
  <2>2. TimerType' /\ SleepsNoLonger'
    BY <1>5, PartsKept DEF Leave, timing
  <2> QED  BY <1>1, <2>1, <2>2
<1> QED  BY <1>2, <1>3, <1>4, <1>5

----------------------------------------------------------------------------
(* Events.                                                                 *)

\* A new iteration.
LEMMA IterateParts ==
    ASSUME LoopInv, Iterate, UNCHANGED <<events, running_, timers_, cancelled_timers_>>,
           batch = <<>>
    PROVE  LoopInv'
<1>1. ClockType'
  BY LoopAssumption DEF LoopInv, ClockType, Iterate
<1>2. TimerType' /\ EventType' /\ ~stale_call' /\ SleepsNoLonger'
  BY PartsKept DEF LoopInv, Iterate, events
<1> QED  BY <1>1, <1>2 DEF LoopInv

\* How many events are reported.
LEMMA BatchSize ==
    ASSUME NEW n \in Nat
    PROVE  Min({n, MAX_EVENTS}) \in 0 .. n
<1>1. {n, MAX_EVENTS} \in SUBSET Nat /\ {n, MAX_EVENTS} # {}
  BY LoopAssumption
<1> QED  BY <1>1, MinLeast

LEMMA ReturnStep ==
    ASSUME LoopInv, WaitReturnsEvents
    PROVE  LoopInv'
<1> USE DEF LoopInv
<1> DEFINE n == Min({Len(ready), MAX_EVENTS})
<1>0. Len(ready) \in Nat /\ ready \in Seq(fd_callbacks_) /\ IsInjective(ready)
      /\ fd_callbacks_ \subseteq Fds
  BY DEF EventType
<1>1. n \in 0 .. Len(ready)
  BY <1>0, BatchSize
<1>2. /\ batch' = SubSeq(ready, 1, n) /\ pc' = "batch"
      /\ ready' = SubSeq(ready, n + 1, Len(ready)) \o SubSeq(ready, 1, n)
      /\ UNCHANGED <<fd_callbacks_, stale_call, running_, timers_, cancelled_timers_, drift>>
      /\ timeout' = -1
  BY DEF WaitReturnsEvents, Reported
<1> HIDE DEF n
<1>3. batch' \in Seq(Fds)
  <2>1. SubSeq(ready, 1, n) \in Seq(fd_callbacks_)
    BY <1>0, <1>1
  <2> QED  BY <1>0, <1>2, <2>1
<1>4. ready' \in Seq(fd_callbacks_) /\ IsInjective(ready')
  BY <1>0, <1>1, <1>2, RotateInjective
<1>5. EventType'
  BY <1>0, <1>2, <1>3, <1>4 DEF EventType
<1>6. ClockType'
  BY <1>2 DEF ClockType
<1>7. TimerType' /\ ~stale_call' /\ SleepsNoLonger'
  BY <1>2, PartsKept
<1> QED  BY <1>5, <1>6, <1>7

\* The rest of a batch.
LEMMA TailType ==
    ASSUME NEW S, NEW b \in Seq(S), b # <<>>
    PROVE  Head(b) \in S /\ Tail(b) \in Seq(S)
  OBVIOUS

LEMMA SkipStep ==
    ASSUME LoopInv, SkipEvent
    PROVE  LoopInv'
<1>1. batch' \in Seq(Fds) /\ pc = "batch"
  BY TailType DEF LoopInv, SkipEvent, EventType
<1>2. EventType'
  BY <1>1 DEF LoopInv, SkipEvent, EventType
<1>3. TimerType' /\ ClockType' /\ ~stale_call' /\ SleepsNoLonger'
  BY <1>1, PartsKept DEF LoopInv, SkipEvent, timing
<1> QED  BY <1>2, <1>3 DEF LoopInv

LEMMA DispatchStep ==
    ASSUME LoopInv, Dispatch
    PROVE  LoopInv'
<1> USE DEF LoopInv
<1>0. pc = "batch" /\ Head(batch) \in fd_callbacks_
      /\ UNCHANGED <<drift, timeout, pc, running_>>
  BY DEF Dispatch, Registered
<1>1. batch' \in Seq(Fds)
  BY TailType DEF Dispatch, EventType
<1>2. PICK gone \in SUBSET fd_callbacks_ : Handle(Head(batch), gone)
  BY DEF Dispatch
<1>3. PICK drained \in SUBSET {Head(batch)} : ready' = StillReady(gone, drained)
  BY <1>2 DEF Handle
<1>4. fd_callbacks_' = fd_callbacks_ \ gone
  BY <1>2 DEF Handle
<1>5. ready' \in Seq(fd_callbacks_') /\ IsInjective(ready')
  <2> DEFINE K == gone \cup drained
  <2>1. ready \in Seq(fd_callbacks_) /\ IsInjective(ready)
    BY DEF EventType
  <2>2. ready' = FlattenSeq([i \in DOMAIN ready |-> IF ready[i] \in K THEN <<>> ELSE <<ready[i]>>])
    BY <1>3 DEF StillReady
  <2> HIDE DEF K
  <2>3. ready' \in Seq(fd_callbacks_ \ K) /\ IsInjective(ready')
    BY <2>1, <2>2, KeepInjective
  <2>4. fd_callbacks_ \ K \subseteq fd_callbacks_'
    BY <1>4 DEF K
  <2> QED  BY <2>3, <2>4
<1>6. EventType'
  BY <1>0, <1>1, <1>4, <1>5 DEF EventType
<1>7. ~stale_call'
  <2>1. stale_call' = (stale_call \/ Head(batch) \notin fd_callbacks_)
    BY <1>2 DEF Handle
  <2> QED  BY <1>0, <2>1
<1>8. TimerType'
  <2>1. CASE UNCHANGED <<timers_, cancelled_timers_>>
    BY <2>1, PartsKept
  <2>2. CASE register_timer(timers_, "other", OtherDelay) /\ UNCHANGED cancelled_timers_
    <3>1. timers_ \in SUBSET timers_ /\ OtherDelay \in Nat
      BY LoopAssumption
    <3>2. /\ timers_' \subseteq [id : 1 .. MaxIds,
                                 kind : {"check", "progress", "other"}, left : Int]
          /\ \A u, v \in timers_' : u.id = v.id => u = v
      BY <2>2, <3>1, RegisterType
    <3> QED  BY <2>2, <3>2 DEF TimerType
  <2>3. CASE \E id \in (1 .. MaxIds) \ {t.id : t \in {u \in timers_ : u.kind # "other"}} :
                cancelled_timers_' = cancelled_timers_ \cup {id} /\ UNCHANGED timers_
    BY <2>3 DEF TimerType
  <2> QED  BY <1>2, <2>1, <2>2, <2>3 DEF Handle, TimerCalls
<1>9. ClockType' /\ SleepsNoLonger'
  BY <1>0, PartsKept
<1> QED  BY <1>6, <1>7, <1>8, <1>9

----------------------------------------------------------------------------
(* The outside.                                                            *)

LEMMA ArriveStep ==
    ASSUME LoopInv, NEW fd \in Fds, Arrive(fd)
    PROVE  LoopInv'
<1> USE DEF LoopInv
<1>1. /\ ready \in Seq(fd_callbacks_) /\ IsInjective(ready) /\ fd \in fd_callbacks_
      /\ fd \notin Range(ready) /\ ready' = Append(ready, fd)
      /\ UNCHANGED <<fd_callbacks_, batch, pc, stale_call, timing, running_>>
  BY DEF Arrive, EventType
<1>2. /\ Len(ready) \in Nat /\ DOMAIN ready = 1 .. Len(ready)
      /\ \A i \in 1 .. Len(ready) : ready[i] # fd
  BY <1>1 DEF Range
<1>3. /\ ready' \in Seq(fd_callbacks_) /\ DOMAIN ready' = 1 .. Len(ready) + 1
      /\ ready'[Len(ready) + 1] = fd /\ \A i \in 1 .. Len(ready) : ready'[i] = ready[i]
  BY <1>1
<1>4. IsInjective(ready')
  <2> DEFINE r == ready'
  <2>1. r = ready'
    OBVIOUS
  <2> HIDE DEF r
  <2>2. ASSUME NEW i \in DOMAIN r, NEW j \in DOMAIN r, r[i] = r[j] PROVE i = j
    <3>1. CASE i \in 1 .. Len(ready) /\ j \in 1 .. Len(ready)
      BY <1>1, <1>2, <1>3, <2>1, <2>2, <3>1 DEF IsInjective
    <3>2. CASE i = Len(ready) + 1 /\ j \in 1 .. Len(ready)
      BY <1>2, <1>3, <2>1, <2>2, <3>2
    <3>3. CASE i \in 1 .. Len(ready) /\ j = Len(ready) + 1
      BY <1>2, <1>3, <2>1, <2>2, <3>3
    <3> QED  BY <1>2, <1>3, <2>1, <3>1, <3>2, <3>3
  <2>3. IsInjective(r)
    BY <2>2 DEF IsInjective
  <2> QED  BY <2>1, <2>3
<1>5. EventType'
  BY <1>1, <1>3, <1>4 DEF EventType
<1>6. TimerType' /\ ClockType' /\ ~stale_call'
  BY <1>1, PartsKept DEF timing
<1>7. SleepsNoLonger'
  BY <1>1 DEF SleepsNoLonger, timing, Cancelled
<1> QED  BY <1>5, <1>6, <1>7

LEMMA InterruptStep ==
    ASSUME LoopInv, Interrupt
    PROVE  LoopInv'
<1>1. UNCHANGED <<events, running_, timers_, cancelled_timers_>>
  BY DEF Interrupt
<1>2. CASE pc = "wait"
  <2>1. Iterate /\ batch = <<>>
    BY <1>2 DEF Interrupt, LoopInv, EventType
  <2> QED  BY <1>1, <2>1, IterateParts
<1>3. CASE pc # "wait"
  <2>1. UNCHANGED <<pc, drift, timeout>>
    BY <1>3 DEF Interrupt
  <2>2. TimerType' /\ ClockType' /\ ~stale_call' /\ SleepsNoLonger'
    BY <1>1, <1>3, <2>1, PartsKept DEF LoopInv, events
  <2>3. EventType'
    BY <1>1, <2>1 DEF LoopInv, EventType, events
  <2> QED  BY <2>2, <2>3 DEF LoopInv
<1> QED  BY <1>2, <1>3

\* The clock moves all deadlines and what is left of the wait alike.
LEMMA TickStep ==
    ASSUME LoopInv, Tick
    PROVE  LoopInv'
<1> USE DEF LoopInv
<1>1. /\ timers_' = {[t EXCEPT !.left = @ - 1] : t \in timers_}
      /\ timeout' = IF timeout > 0 THEN timeout - 1 ELSE timeout
      /\ UNCHANGED <<events, pc, running_, cancelled_timers_>>
  BY DEF Tick
<1>2. ASSUME NEW u \in timers_'
      PROVE  \E t \in timers_ : /\ u = [t EXCEPT !.left = @ - 1]
                                /\ u.id = t.id /\ u.kind = t.kind /\ u.left = t.left - 1
                                /\ t.left \in Int
  BY <1>1 DEF TimerType
<1>3. TimerType'
  <2>1. timers_' \subseteq [id : 1 .. MaxIds, kind : {"check", "progress", "other"}, left : Int]
    BY <1>1 DEF TimerType
  <2>2. ASSUME NEW u \in timers_', NEW v \in timers_', u.id = v.id PROVE u = v
    <3>1. PICK t \in timers_ : u = [t EXCEPT !.left = @ - 1] /\ u.id = t.id
      BY <1>2
    <3>2. PICK w \in timers_ : v = [w EXCEPT !.left = @ - 1] /\ v.id = w.id
      BY <1>2
    <3>3. t = w
      BY <2>2, <3>1, <3>2 DEF TimerType
    <3> QED  BY <3>1, <3>2, <3>3
  <2> QED  BY <1>1, <2>1, <2>2 DEF TimerType
<1>4. ClockType'
  <2>1. timeout' \in Nat \cup {-1} /\ (timeout' # -1 => timeout # -1)
    BY <1>1 DEF ClockType
  <2>2. drift' \in 0 .. MaxLate
    BY LoopAssumption DEF Tick, ClockType
  <2> QED  BY <1>1, <2>1, <2>2 DEF ClockType
<1>5. EventType' /\ ~stale_call'
  BY <1>1 DEF EventType, events
<1>6. SleepsNoLonger'
  <2> SUFFICES ASSUME pc' = "wait", NEW u \in timers_'
               PROVE  \/ u.id \in cancelled_timers_'
                      \/ timeout' >= 0 /\ timeout' <= u.left + drift'
                      \/ u.left + drift' <= 0
    BY DEF SleepsNoLonger, Cancelled
  <2>1. PICK t \in timers_ : u.id = t.id /\ u.left = t.left - 1 /\ t.left \in Int
    BY <1>2
  <2>2. pc = "wait" /\ drift' = drift /\ drift \in Int
    BY <1>1, LoopAssumption DEF Tick, ClockType
  <2>3. t.id \in cancelled_timers_ \/ (timeout >= 0 /\ timeout <= t.left + drift)
                                   \/ t.left + drift <= 0
    BY <2>2 DEF SleepsNoLonger, Cancelled
  <2>4. timeout \in Int
    BY DEF ClockType
  <2> QED  BY <1>1, <2>1, <2>2, <2>3, <2>4
<1> QED  BY <1>3, <1>4, <1>5, <1>6

----------------------------------------------------------------------------
(* The theorems.                                                           *)

LEMMA NextInv == LoopInv /\ [Next]_vars => LoopInv'
<1> SUFFICES ASSUME LoopInv, [Next]_vars PROVE LoopInv'
  OBVIOUS
<1>1. CASE \/ \E t \in timers_ : PruneCancelled(t) \/ FireTimer(t)
           \/ StartWait \/ Leave
  BY <1>1, TimerSteps
<1>2. CASE WaitTimesOut \/ BatchDone
  <2>1. Iterate /\ UNCHANGED <<events, running_, timers_, cancelled_timers_>>
    BY <1>2 DEF WaitTimesOut, BatchDone
  <2>2. batch = <<>>
    BY <1>2 DEF WaitTimesOut, BatchDone, LoopInv, EventType
  <2> QED  BY <2>1, <2>2, IterateParts
<1>3. CASE WaitReturnsEvents
  BY <1>3, ReturnStep
<1>4. CASE SkipEvent
  BY <1>4, SkipStep
<1>5. CASE Dispatch
  BY <1>5, DispatchStep
<1>6. CASE \E fd \in Fds : Arrive(fd)
  BY <1>6, ArriveStep
<1>7. CASE Interrupt
  BY <1>7, InterruptStep
<1>8. CASE Tick
  BY <1>8, TickStep
<1>9. CASE UNCHANGED vars
  <2>1. UNCHANGED <<timers_, cancelled_timers_, drift, timeout, events, pc, running_>>
    BY <1>9 DEF vars, timing
  <2>2. TimerType' /\ ClockType' /\ ~stale_call'
    BY <2>1, PartsKept DEF LoopInv, events
  <2>3. EventType' /\ SleepsNoLonger'
    BY <2>1 DEF LoopInv, EventType, SleepsNoLonger, Cancelled, events
  <2> QED  BY <2>2, <2>3 DEF LoopInv
<1> QED  BY <1>1, <1>2, <1>3, <1>4, <1>5, <1>6, <1>7, <1>8, <1>9 DEF Next, Loop

LEMMA LoopInvariant == Spec => []LoopInv
<1> QED  BY InitInv, NextInv, PTL DEF Spec

\* No handler is called for a descriptor that was unregistered since its event
\* was collected, however many a handler closes and whatever order the kernel
\* reports them in: the loop looks every callback up again.
THEOREM NeverStale == Spec => []NoStaleDispatch
<1>1. LoopInv => NoStaleDispatch
  BY LoopInvTypes DEF LoopInv, NoStaleDispatch
<1> QED  BY <1>1, LoopInvariant, PTL

\* The loop never sleeps past the deadline of a live timer, for all periods
\* and any resolution of the clock: timeout_ms is rounded down.
THEOREM NeverOversleeps == Spec => []SleepsNoLonger
<1>1. LoopInv => SleepsNoLonger
  BY DEF LoopInv
<1> QED  BY <1>1, LoopInvariant, PTL

\* A timer that stays in the queue, no later than before, has not left it.
LEMMA StaysQueued ==
    ASSUME TimerType, NEW t \in timers_, t \in timers_'
    PROVE  ~ \A u \in timers_' : u.id # t.id \/ u.left > t.left
  BY DEF TimerType

\* A timer that leaves the queue was cancelled, or fires at or after its
\* deadline and before every live timer that is due later, at every step of
\* the loop, its handlers and the clock.
THEOREM TimersFireInOrder == Spec => TimersInOrder
<1> DEFINE Leaves(t) == \A u \in timers_' : u.id # t.id \/ u.left > t.left
           Right(t) ==
               \/ t.id \in cancelled_timers_ /\ t.id \notin cancelled_timers_'
               \/ /\ t.left <= 0 /\ t.id \notin cancelled_timers_
                  /\ \A u \in timers_ : u.id \in cancelled_timers_ \/ t.left <= u.left
           InOrder == \A t \in timers_ : Leaves(t) => Right(t)
<1>1. ASSUME LoopInv, Next PROVE InOrder
  <2> USE <1>1 DEF LoopInv
  <2> SUFFICES ASSUME NEW t \in timers_, Leaves(t) PROVE Right(t)
    OBVIOUS
  <2>0. t \notin timers_'
    BY StaysQueued
  <2>1. ASSUME NEW f \in timers_, PruneCancelled(f) PROVE Right(t)
    BY <2>0, <2>1 DEF PruneCancelled, Cancelled
  <2>2. ASSUME NEW f \in timers_, FireTimer(f) PROVE Right(t)
    <3>1. timers_ \ {f} \subseteq timers_'
      BY <2>2 DEF FireTimer, register_timer
    <3>2. t = f
      BY <2>0, <3>1
    <3>3. f \in Top /\ ~Cancelled(f) /\ Due(f)
      BY <2>2 DEF FireTimer
    <3>4. t.left \in Int /\ drift \in Int /\ drift >= 0
      BY LoopAssumption DEF TimerType, ClockType
    <3>5. t.left <= 0
      BY <3>2, <3>3, <3>4 DEF Due
    <3> QED  BY <3>2, <3>3, <3>5 DEF Top, Cancelled
  <2>3. CASE \/ StartWait \/ Leave \/ WaitTimesOut \/ WaitReturnsEvents \/ SkipEvent
             \/ BatchDone \/ (\E fd \in Fds : Arrive(fd)) \/ Interrupt
    <3>1. timers_' = timers_
      BY <2>3 DEF StartWait, Leave, WaitTimesOut, WaitReturnsEvents, SkipEvent,
                  BatchDone, Arrive, Interrupt, timing
    <3> QED  BY <2>0, <3>1
  <2>4. CASE Dispatch
    <3>1. timers_ \subseteq timers_'
      BY <2>4 DEF Dispatch, Handle, TimerCalls, register_timer
    <3> QED  BY <2>0, <3>1
  <2>5. CASE Tick
    <3> DEFINE u == [t EXCEPT !.left = @ - 1]
    <3>1. u \in timers_'
      BY <2>5 DEF Tick
    <3>2. u.id = t.id /\ u.left = t.left - 1 /\ t.left \in Int
      BY DEF TimerType
    <3>3. ~(u.left > t.left)
      BY <3>2
    <3> QED  BY <3>1, <3>2, <3>3
  <2> QED  BY <1>1, <2>1, <2>2, <2>3, <2>4, <2>5 DEF Next, Loop
<1>2. LoopInv /\ [Next]_vars => [InOrder]_vars
  BY <1>1
<1> QED  BY <1>2, LoopInvariant, PTL DEF Spec, TimersInOrder
=============================================================================
