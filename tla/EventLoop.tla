----------------------------- MODULE EventLoop ------------------------------
(***************************************************************************)
(* The event loop, code/src/event_loop.cpp, as main.cpp drives it: one     *)
(* thread that runs the timers that are due, waits in epoll_wait no longer *)
(* than until the next one, and calls the handlers of the descriptors that *)
(* epoll_wait reports.                                                     *)
(*                                                                         *)
(* main registers two timers that register themselves again: one looks for *)
(* SIGINT, the other shows the progress and notices that the download is   *)
(* complete.  Other timers (what the tests do with them) are registered    *)
(* and cancelled by handlers.                                              *)
(*                                                                         *)
(* Time is counted in ticks, TicksPerMs of them to the millisecond, and    *)
(* deadlines are kept relative to the present.  The clock goes on while    *)
(* the thread runs, up to MaxLate ticks past a deadline.  All descriptors  *)
(* are opened before the loop starts.                                      *)
(***************************************************************************)
EXTENDS Integers, Sequences, SequencesExt

CONSTANTS
    Fds,              \* the descriptors of the peers
    MAX_EVENTS,       \* 64: the events one epoll_wait returns
    TicksPerMs,
    CheckDelay,       \* 250 ms, check_shutdown's period
    ProgressDelay,    \* 1000 ms, render_progress's period
    OtherDelay,       \* the delay of the timers handlers register
    MaxLate,          \* bound: how late a timer may be, in ticks
    MaxIds            \* bound: ids that are pending or cancelled at a time

ASSUME LoopAssumption ==
    /\ MAX_EVENTS \in Nat \ {0} /\ TicksPerMs \in Nat \ {0}
    /\ CheckDelay \in Nat \ {0} /\ ProgressDelay \in Nat \ {0}
    /\ OtherDelay \in Nat
    /\ MaxLate \in Nat
    /\ MaxIds \in Nat /\ MaxIds >= 2      \* the ids of main's two timers

VARIABLES
    pc,                     \* timers, wait, batch or stopped
    running_,
    timers_,                \* the queue: records [id, kind, left]
    cancelled_timers_,
    drift,                  \* how old the value of now is, in ticks
    timeout,                \* what is left of epoll_wait's timeout, in ticks
    fd_callbacks_,          \* the registered descriptors
    ready,                  \* the kernel's list of descriptors with events
    batch,                  \* the events of this epoll_wait still to handle
    g_shutdown_requested,
    complete,               \* are all pieces there?
    unserved,               \* ready, and not handled since (ghost)
    stale_call              \* a handler ran for a closed descriptor (ghost)

timing == <<timers_, cancelled_timers_, drift, timeout>>
events == <<fd_callbacks_, ready, batch, unserved, stale_call>>
vars == <<timing, events, pc, running_, g_shutdown_requested, complete>>

----------------------------------------------------------------------------
(* Timers.                                                                 *)

Timer(id, kind, ms) == [id |-> id, kind |-> kind, left |-> ms * TicksPerMs]

\* next_timer_id_ only grows; ids that are neither pending nor cancelled are
\* as good as new ones.
FreeIds(pending) == (1 .. MaxIds) \ ({t.id : t \in pending} \cup cancelled_timers_)

\* register_timer: the deadline counts from the present, not from now.
register_timer(pending, kind, ms) ==
    /\ FreeIds(pending) # {}
    /\ timers_' = pending \cup {Timer(Min(FreeIds(pending)), kind, ms)}

\* The timers that may be on top of the priority queue.
Top == {t \in timers_ : \A u \in timers_ : t.left <= u.left}

Cancelled(t) == t.id \in cancelled_timers_

\* Mutant: a timer is due one millisecond before its deadline.
Due_Early(t) == t.left + drift <= TicksPerMs

\* Is the deadline of t past, as far as now goes?
Due(t) == t.left + drift <= 0

PruneCancelled(t) ==
    /\ pc = "timers" /\ running_
    /\ t \in Top /\ Cancelled(t)
    /\ timers_' = timers_ \ {t}
    /\ cancelled_timers_' = cancelled_timers_ \ {t.id}
    /\ UNCHANGED <<events, pc, running_, drift, timeout, g_shutdown_requested, complete>>

\* check_shutdown and render_progress stop the loop or register again.
StopsLoop(kind) ==
    \/ kind = "check" /\ g_shutdown_requested
    \/ kind = "progress" /\ complete

\* Mutant: check_shutdown is registered once.
Again_ProgressOnly(kind) == kind = "progress"

Again(kind) == kind \in {"check", "progress"}

Period(kind) == IF kind = "check" THEN CheckDelay ELSE ProgressDelay

\* The timer is popped, its callback runs, and now is read again.
FireTimer(t) ==
    /\ pc = "timers" /\ running_
    /\ t \in Top /\ ~Cancelled(t) /\ Due(t)
    /\ running_' = ~StopsLoop(t.kind)
    /\ IF Again(t.kind) /\ ~StopsLoop(t.kind)
       THEN register_timer(timers_ \ {t}, t.kind, Period(t.kind))
       ELSE timers_' = timers_ \ {t}
    /\ drift' = 0
    /\ UNCHANGED <<events, pc, cancelled_timers_, timeout, g_shutdown_requested, complete>>

\* Mutant: the delay is rounded up.
TimeoutTicks_RoundedUp(t) == ((t.left + drift + TicksPerMs - 1) \div TicksPerMs) * TicksPerMs

\* timeout_ms: the milliseconds until t is due, rounded down.
TimeoutTicks(t) == ((t.left + drift) \div TicksPerMs) * TicksPerMs

\* epoll_wait is called.
StartWait ==
    /\ pc = "timers" /\ running_
    /\ \/ timers_ = {} /\ timeout' = -1
       \/ \E t \in Top : ~Cancelled(t) /\ ~Due(t) /\ timeout' = TimeoutTicks(t)
    /\ pc' = "wait"
    /\ UNCHANGED <<events, running_, timers_, cancelled_timers_, drift,
                   g_shutdown_requested, complete>>

\* The loop has been shut down.
Leave ==
    /\ pc = "timers" /\ ~running_
    /\ pc' = "stopped"
    /\ UNCHANGED <<timing, events, running_, g_shutdown_requested, complete>>

----------------------------------------------------------------------------
(* Events.                                                                 *)

\* The loop begins again and reads the clock.
Iterate == pc' = "timers" /\ drift' = 0 /\ timeout' = -1

WaitTimesOut ==
    /\ pc = "wait"
    /\ ready = <<>> /\ timeout = 0
    /\ Iterate
    /\ UNCHANGED <<events, running_, timers_, cancelled_timers_, g_shutdown_requested,
                   complete>>

\* Mutant: the last event is not handled.
Reported_AllButLast ==
    IF ready = <<>> THEN <<>> ELSE SubSeq(ready, 1, Min({Len(ready), MAX_EVENTS}) - 1)

\* What the loop over the events of one epoll_wait goes through.
Reported == SubSeq(ready, 1, Min({Len(ready), MAX_EVENTS}))

\* Level-triggered: the kernel moves what it reports to the end of its list,
\* and drops it there once it has nothing left to report.
WaitReturnsEvents ==
    /\ pc = "wait" /\ ready # <<>>
    /\ batch' = Reported
    /\ ready' = LET n == Min({Len(ready), MAX_EVENTS})
                IN SubSeq(ready, n + 1, Len(ready)) \o SubSeq(ready, 1, n)
    /\ pc' = "batch" /\ timeout' = -1
    /\ UNCHANGED <<fd_callbacks_, unserved, stale_call, running_, timers_,
                   cancelled_timers_, drift, g_shutdown_requested, complete>>

\* Mutant: the callback is not looked up again.
Registered_Assumed(fd) == TRUE

\* fd_callbacks_.find: is there still a callback?
Registered(fd) == fd \in fd_callbacks_

\* The descriptor of the event was unregistered earlier in the batch.
SkipEvent ==
    /\ pc = "batch" /\ batch # <<>>
    /\ ~Registered(Head(batch))
    /\ batch' = Tail(batch)
    /\ UNCHANGED <<timing, fd_callbacks_, ready, unserved, stale_call, pc, running_,
                   g_shutdown_requested, complete>>

\* What the kernel may report after some descriptors were unregistered and
\* closed and others were drained.
StillReady(gone, drained) ==
    FlattenSeq([i \in DOMAIN ready |->
                  IF ready[i] \in gone \cup drained THEN <<>> ELSE <<ready[i]>>])

\* A handler may register a timer, or cancel one that is pending or gone.
TimerCalls ==
    \/ UNCHANGED <<timers_, cancelled_timers_>>
    \/ /\ register_timer(timers_, "other", OtherDelay)
       /\ UNCHANGED cancelled_timers_
    \/ \E id \in (1 .. MaxIds) \ {t.id : t \in {u \in timers_ : u.kind # "other"}} :
          cancelled_timers_' = cancelled_timers_ \cup {id} /\ UNCHANGED timers_

\* The handler of a descriptor: it leaves events behind or not, closes its
\* own connection and others (a corrupt piece blacklists its senders), or
\* completes the download.
Handle(fd, gone) ==
    /\ fd_callbacks_' = fd_callbacks_ \ gone
    /\ \E drained \in SUBSET {fd} : ready' = StillReady(gone, drained)
    /\ unserved' = unserved \ (gone \cup {fd})
    /\ stale_call' = (stale_call \/ fd \notin fd_callbacks_)
    /\ complete' \in {complete, TRUE}
    /\ TimerCalls

\* The callback that is registered for the next event of the batch is called.
Dispatch ==
    /\ pc = "batch" /\ batch # <<>>
    /\ Registered(Head(batch))
    /\ batch' = Tail(batch)
    /\ \E gone \in SUBSET fd_callbacks_ : Handle(Head(batch), gone)
    /\ UNCHANGED <<drift, timeout, pc, running_, g_shutdown_requested>>

BatchDone ==
    /\ pc = "batch" /\ batch = <<>>
    /\ Iterate
    /\ UNCHANGED <<events, running_, timers_, cancelled_timers_, g_shutdown_requested,
                   complete>>

----------------------------------------------------------------------------
(* The outside.                                                            *)

\* The kernel has an event for a descriptor.  Nobody looks before the next
\* epoll_wait, so that is where it happens.
Arrive(fd) ==
    /\ pc = "wait"
    /\ fd \in fd_callbacks_ /\ fd \notin Range(ready)
    /\ ready' = Append(ready, fd)
    /\ unserved' = unserved \cup {fd}
    /\ UNCHANGED <<timing, fd_callbacks_, batch, stale_call, pc, running_,
                   g_shutdown_requested, complete>>

\* SIGINT: handle_sigint sets the flag; a wait ends with EINTR.
Interrupt ==
    /\ pc # "stopped" /\ ~g_shutdown_requested
    /\ g_shutdown_requested' = TRUE
    /\ IF pc = "wait" THEN Iterate ELSE UNCHANGED <<pc, drift, timeout>>
    /\ UNCHANGED <<events, running_, timers_, cancelled_timers_, complete>>

\* The clock: a wait that has not expired goes on, the thread gets behind.
Tick ==
    /\ pc # "stopped"
    /\ \A t \in timers_ : t.left > -MaxLate
    /\ timers_' = {[t EXCEPT !.left = @ - 1] : t \in timers_}
    /\ timeout' = IF timeout > 0 THEN timeout - 1 ELSE timeout
    /\ IF pc = "timers" THEN drift < MaxLate /\ drift' = drift + 1 ELSE drift' = drift
    /\ UNCHANGED <<events, pc, running_, cancelled_timers_, g_shutdown_requested, complete>>

----------------------------------------------------------------------------
\* main has connected the peers and registered its timers; the signal may
\* have come already.
Init ==
    /\ pc = "timers" /\ running_ = TRUE
    /\ timers_ = {Timer(1, "check", CheckDelay), Timer(2, "progress", ProgressDelay)}
    /\ cancelled_timers_ = {}
    /\ drift = 0 /\ timeout = -1
    /\ fd_callbacks_ = Fds
    /\ ready = <<>> /\ batch = <<>>
    /\ g_shutdown_requested \in BOOLEAN /\ complete = FALSE
    /\ unserved = {} /\ stale_call = FALSE

\* A step of the loop's thread.
Loop ==
    \/ \E t \in timers_ : PruneCancelled(t) \/ FireTimer(t)
    \/ StartWait \/ Leave
    \/ WaitTimesOut \/ WaitReturnsEvents \/ SkipEvent \/ Dispatch \/ BatchDone

Next ==
    \/ Loop
    \/ \E fd \in Fds : Arrive(fd)
    \/ Interrupt
    \/ Tick

\* Fairness: the thread runs and the clock goes on.  Nothing is assumed of
\* the peers or the user.
Spec == Init /\ [][Next]_vars /\ WF_vars(Loop) /\ WF_vars(Tick)

----------------------------------------------------------------------------
(* Properties.                                                             *)

\* Type correctness: what is queued, reported and waited for is well-formed.
TypeOK ==
    /\ pc \in {"timers", "wait", "batch", "stopped"} /\ running_ \in BOOLEAN
    /\ \A t \in timers_ : /\ t.id \in 1 .. MaxIds
                          /\ t.kind \in {"check", "progress", "other"}
                          /\ t.left \in Int
    /\ \A t, u \in timers_ : t.id = u.id => t = u
    /\ cancelled_timers_ \subseteq 1 .. MaxIds
    /\ drift \in 0 .. MaxLate
    /\ timeout \in Nat \cup {-1} /\ (timeout # -1 => pc = "wait")
    /\ fd_callbacks_ \subseteq Fds
    /\ ready \in Seq(fd_callbacks_) /\ IsInjective(ready)
    /\ batch \in Seq(Fds) /\ (batch # <<>> => pc = "batch")

\* No handler runs for a descriptor that a handler earlier in the same batch
\* unregistered and closed, although its event was collected before; nor does
\* epoll know of such a descriptor (that is part of the types).
NoStaleDispatch == TypeOK /\ ~stale_call

\* The loop never sleeps past a deadline: whatever was registered, cancelled
\* and fired before, a wait ends no later than the earliest live timer is
\* due, give or take the age of the clock value it was computed with.
SleepsNoLonger ==
    pc = "wait" =>
        \A t \in timers_ : Cancelled(t) \/ (timeout >= 0 /\ timeout <= t.left + drift)
                                        \/ t.left + drift <= 0

\* A timer that leaves the queue was cancelled, or it fires: then not before
\* its deadline and not before a live timer with an earlier one.
TimersInOrder ==
    [][\A t \in timers_ :
         (\A u \in timers_' : u.id # t.id \/ u.left > t.left) =>
            \/ t.id \in cancelled_timers_ /\ t.id \notin cancelled_timers_'
            \/ /\ t.left <= 0 /\ t.id \notin cancelled_timers_
               /\ \A u \in timers_ : u.id \in cancelled_timers_ \/ t.left <= u.left]_vars

\* SIGINT and a complete download stop the engine, however busy the peers keep
\* it, and whether the signal arrives in a wait, in a callback or before the
\* loop starts.
Stops == g_shutdown_requested \/ complete ~> pc = "stopped"

\* Every descriptor with an event is served, though there may be more of them
\* than one batch holds and others have always something to report.  The
\* descriptors are alike: one of them stands for all.
Served == LET fd == CHOOSE f \in Fds : TRUE
          IN fd \in unserved ~> (fd \notin unserved \/ pc = "stopped")
=============================================================================
