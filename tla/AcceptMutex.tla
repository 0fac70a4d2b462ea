---------------------------- MODULE AcceptMutex ----------------------------
(***************************************************************************)
(* How worker processes share listening sockets: the event loop of a       *)
(* worker (ngx_process_events_and_timers(), event/ngx_event.c), the accept *)
(* mutex and the accept handler (event/ngx_event_accept.c), the count of   *)
(* free connections and the reuse of idle ones (core/ngx_connection.c).    *)
(*                                                                         *)
(* A step of a worker contains at most one access to what it shares with   *)
(* the others: the mutex word or the queue of a socket.  Connections are   *)
(* counted, not told apart.  The handlers of the connections' own events   *)
(* may close connections or make them idle (HandleEvents).                 *)
(***************************************************************************)
EXTENDS Integers, FiniteSets

CONSTANTS Workers,        \* worker processes
          None,           \* the mutex word of a free mutex
          Sockets,        \* listening sockets
          Reuseport,      \* those of which each worker has its own
          AcceptMutex,    \* the settings of accept_mutex looked at
          MultiAccept,    \* multi_accept
          ConnectionN,    \* connection_n (worker_connections)
          InitialFree,    \* free_connection_n after initialisation
          MaxArrivals,    \* bound on connections made by clients
          MaxFaults       \* bound on failing calls, deaths and shutdowns

VARIABLES lock,     \* ngx_accept_mutex
          queue,    \* connections not accepted yet, per queue of the kernel
          ws,       \* the workers' own state
          used      \* how much of each bound has been used

vars == <<lock, queue, ws, used>>

Shared == Sockets \ Reuseport

\* The kernel's queue that worker w accepts from on socket s.
QueueOf(w, s) == IF s \in Reuseport THEN <<s, w>> ELSE <<s, None>>
Queues == {QueueOf(w, s) : w \in Workers, s \in Sockets}

ASSUME AcceptMutexAssumption ==
    /\ IsFiniteSet(Workers) /\ None \notin Workers
    /\ Reuseport \subseteq Sockets
    /\ AcceptMutex \subseteq BOOLEAN
    /\ MultiAccept \in BOOLEAN
    /\ ConnectionN \in Nat
    /\ InitialFree \in 0..ConnectionN

-----------------------------------------------------------------------------
\* ngx_event_process_init(): a worker's own sockets are listened on from the
\* start, the others only if there is no accept mutex.
Started(use) ==
    [pc |-> "top", use |-> use, held |-> FALSE, disabled |-> 0,
     active |-> IF use THEN Reuseport ELSE Sockets,
     exiting |-> FALSE,
     post |-> FALSE,      \* NGX_POST_EVENTS
     capped |-> FALSE,    \* the timer is at most ngx_accept_mutex_delay
     ready |-> {},        \* sockets whose accept handler is to run
     timers |-> {},       \* sockets whose accept event has a timer
     conns |-> 0, idle |-> 0]

Init ==
    /\ lock = None
    /\ queue = [q \in Queues |-> 0]
    /\ \E use \in AcceptMutex : ws = [w \in Workers |-> Started(use)]
    /\ used = [arrivals |-> 0, nofiles |-> 0, ctl |-> 0, other |-> 0]

Free(x) == InitialFree - x.conns

Fault(kind) ==
    /\ used.nofiles + used.ctl + used.other < MaxFaults
    /\ used' = [used EXCEPT ![kind] = @ + 1]

\* epoll_ctl() fails.
CtlFailure == Fault("ctl")

\* ngx_enable_accept_events() returns NGX_ERROR part of the way,
EnabledPartly(x) ==
    {[x EXCEPT !.active = a] : a \in {b \in SUBSET Sockets : x.active \subseteq b} \ {Sockets}}

\* and ngx_disable_accept_events() of the sockets in "off".
DisabledPartly(x, off) ==
    {[x EXCEPT !.active = @ \ b] : b \in SUBSET (off \cap x.active) \ {off \cap x.active}}

Become(w, x) == ws' = [ws EXCEPT ![w] = x]

\* ngx_shmtx_unlock(): nothing happens if the word is another's.
UnlockedBy(w) == IF lock = w THEN None ELSE lock

-----------------------------------------------------------------------------
\* The part of ngx_process_events_and_timers() before epoll_wait(), for a
\* worker that is over its threshold and leaves the mutex alone,
TurnDisabled(w) ==
    LET x == ws[w]
    IN  /\ x.pc = "top" /\ x.use /\ x.disabled > 0
        /\ Become(w, [x EXCEPT !.disabled = @ - 1, !.pc = "wait"])
        /\ UNCHANGED <<lock, queue, used>>

\* for one that has no mutex to take,
TurnUnlocked(w) ==
    LET x == ws[w]
    IN  /\ x.pc = "top" /\ ~x.use
        /\ x.exiting => x.conns > 0 \/ x.timers # {}
        /\ Become(w, [x EXCEPT !.pc = "wait"])
        /\ UNCHANGED <<lock, queue, used>>

Trylock(w) == ws[w].pc = "top" /\ ws[w].use /\ ws[w].disabled <= 0

\* for one that gets the mutex (ngx_accept_events is always 0 with epoll),
TrylockSucceeds(w) ==
    LET x == ws[w]
    IN  /\ Trylock(w) /\ lock = None
        /\ lock' = w
        /\ Become(w, [x EXCEPT !.active = IF x.held THEN @ ELSE Sockets,
                               !.held = TRUE, !.post = TRUE, !.pc = "wait"])
        /\ UNCHANGED <<queue, used>>

\* for one that gets it and cannot listen,
TrylockEnableFails(w) ==
    LET x == ws[w]
    IN  /\ Trylock(w) /\ lock = None /\ ~x.held
        /\ CtlFailure
        /\ lock' = w
        /\ \E y \in EnabledPartly(x) : Become(w, [y EXCEPT !.pc = "undo"])
        /\ UNCHANGED queue

\* and ends the turn with the mutex unlocked,
TrylockUndone(w) ==
    /\ ws[w].pc = "undo"
    /\ lock' = UnlockedBy(w)
    /\ Become(w, [ws[w] EXCEPT !.pc = "top"])
    /\ UNCHANGED <<queue, used>>

\* Variant: the sockets are listened on without the mutex.
TrylockFailsNoDisable(w) ==
    LET x == ws[w]
    IN  /\ Trylock(w) /\ lock # None
        /\ Become(w, [x EXCEPT !.held = FALSE, !.capped = TRUE, !.pc = "wait"])
        /\ UNCHANGED <<lock, queue, used>>

\* for one that does not get it,
TrylockFails(w) ==
    LET x == ws[w]
    IN  /\ Trylock(w) /\ lock # None
        /\ Become(w, [x EXCEPT !.active = IF x.held THEN @ \cap Reuseport ELSE @,
                               !.held = FALSE, !.capped = TRUE, !.pc = "wait"])
        /\ UNCHANGED <<lock, queue, used>>

\* and for one that does not get it and cannot stop listening.
TrylockDisableFails(w) ==
    LET x == ws[w]
    IN  /\ Trylock(w) /\ lock # None /\ x.held
        /\ CtlFailure
        /\ \E y \in DisabledPartly(x, Shared) : Become(w, y)
        /\ UNCHANGED <<lock, queue>>

-----------------------------------------------------------------------------
\* What the handlers of the connections' own events and timers may do to the
\* counts.
HandleEvents(x) ==
    UNION {{[x EXCEPT !.conns = n, !.idle = i] : i \in 0..n} : n \in 0..x.conns}

\* epoll_wait() returns: a socket has connections, a connection has an event
\* or a timer is over.  Handlers of connections run now or, if events are
\* posted, at the end of the turn.
Wake(w) ==
    LET x     == ws[w]
        ready == {s \in x.active : queue[QueueOf(w, s)] > 0}
    IN  /\ x.pc = "wait"
        /\ ready # {} \/ x.capped \/ x.conns > 0 \/ x.timers # {}
        /\ \E y \in IF x.post THEN {x} ELSE HandleEvents(x) :
               Become(w, [y EXCEPT !.ready = ready, !.pc = "accept"])
        /\ UNCHANGED <<lock, queue, used>>

\* ngx_drain_connections(): what may be left after idle connections were
\* told to close: their handlers may keep some open (see Connections).
Drained(x) ==
    LET n == IF x.idle \div 8 > 1
             THEN IF x.idle \div 8 < 32 THEN x.idle \div 8 ELSE 32
             ELSE 1
    IN  IF Free(x) > ConnectionN \div 16 \/ x.idle = 0 THEN {x}
        ELSE {[x EXCEPT !.conns = @ - k, !.idle = @ - k] : k \in 0..n}

\* The end of the loop over accept() of ngx_event_accept() for socket s.
Next1(x, s) == IF MultiAccept THEN x ELSE [x EXCEPT !.ready = @ \ {s}]

Leave(x, s) == [x EXCEPT !.ready = @ \ {s}]

Accepts(w, s) == ws[w].pc = "accept" /\ s \in ws[w].ready

\* accept() finds a connection.
HasNext(w, s) == Accepts(w, s) /\ queue[QueueOf(w, s)] > 0 /\ ~ws[w].exiting

Take(w, s) == queue' = [queue EXCEPT ![QueueOf(w, s)] = @ - 1]

\* accept() gives a connection: the worker's state when ngx_event_accept()
\* has dropped it, for want of a connection structure or of memory,
Refused(x, s) == {Leave(y, s) : y \in Drained(x)}

\* and when the listening socket's handler has been given it; it may have
\* closed it already.
Opened(x, s) ==
    UNION {{Next1(y, s), Next1([y EXCEPT !.conns = @ + 1], s)} :
               y \in {z \in Drained(x) : Free(z) > 0}}

Counted(x) == [x EXCEPT !.disabled = ConnectionN \div 8 - Free(x)]

Accept(w, s) ==
    /\ HasNext(w, s)
    /\ Take(w, s)
    /\ \E y \in Refused(Counted(ws[w]), s) \cup Opened(Counted(ws[w]), s) :
           Become(w, y)
    /\ UNCHANGED <<lock, used>>

\* The same with ngx_reorder_accept_events() failing to add the event again
\* that it has deleted.
AcceptReorderFails(w, s) ==
    /\ HasNext(w, s)
    /\ ~MultiAccept /\ ~ws[w].use /\ s \in Shared
    /\ CtlFailure
    /\ Take(w, s)
    /\ \E y \in Opened(Counted(ws[w]), s) : Become(w, [y EXCEPT !.active = @ \ {s}])
    /\ UNCHANGED lock

\* accept() fails with ECONNABORTED: the client has gone.
AcceptAborted(w, s) ==
    /\ HasNext(w, s)
    /\ Take(w, s)
    /\ Become(w, Next1(ws[w], s))
    /\ UNCHANGED <<lock, used>>

\* accept() fails with EAGAIN, or, on a socket closed meanwhile, with EBADF.
AcceptAgain(w, s) ==
    /\ Accepts(w, s) /\ (queue[QueueOf(w, s)] = 0 \/ ws[w].exiting)
    /\ Become(w, Leave(ws[w], s))
    /\ UNCHANGED <<lock, queue, used>>

\* Variant: the mutex is left to the end of the turn.
AcceptNoFilesNoUnlock(w, s) ==
    LET x == [ws[w] EXCEPT !.active = {}]
    IN  /\ HasNext(w, s)
        /\ Fault("nofiles")
        /\ Become(w, Leave(IF x.use THEN [x EXCEPT !.held = FALSE, !.disabled = 1]
                                    ELSE [x EXCEPT !.timers = @ \cup {s}], s))
        /\ UNCHANGED <<lock, queue>>

\* accept() fails with EMFILE or ENFILE: the worker stops listening and
\* gives the mutex up, or tries again after a timer.
AcceptNoFiles(w, s) ==
    LET x == [ws[w] EXCEPT !.active = {}]
    IN  /\ HasNext(w, s)
        /\ Fault("nofiles")
        /\ IF x.use
           THEN /\ lock' = IF x.held THEN UnlockedBy(w) ELSE lock
                /\ Become(w, Leave([x EXCEPT !.held = FALSE, !.disabled = 1], s))
           ELSE /\ Become(w, Leave([x EXCEPT !.timers = @ \cup {s}], s))
                /\ UNCHANGED lock
        /\ UNCHANGED queue

AcceptNoFilesDisableFails(w, s) ==
    LET x == ws[w]
    IN  /\ HasNext(w, s)
        /\ CtlFailure
        /\ \E y \in DisabledPartly(x, Sockets) : Become(w, Leave(y, s))
        /\ UNCHANGED <<lock, queue>>

\* The end of ngx_process_events_and_timers(): the mutex is released, timers
\* expire and posted events are handled.
TurnEnds(w) ==
    LET x == ws[w]
    IN  /\ x.pc = "accept" /\ x.ready = {}
        /\ lock' = IF x.held THEN UnlockedBy(w) ELSE lock
        /\ \E y \in HandleEvents(x) :
               Become(w, [y EXCEPT !.pc = "top", !.post = FALSE, !.capped = FALSE])
        /\ UNCHANGED <<queue, used>>

\* The timer that an accept event got for want of descriptors expires:
\* ngx_event_accept() listens again and goes on to accept() as usual.
TimerExpires(w, s) ==
    LET x == ws[w]
    IN  /\ x.pc = "accept" /\ x.ready = {} /\ s \in x.timers
        /\ Become(w, [x EXCEPT !.timers = @ \ {s}, !.ready = {s},
                               !.active = IF x.exiting THEN {} ELSE Sockets])
        /\ UNCHANGED <<lock, queue, used>>

TimerEnableFails(w, s) ==
    LET x == [ws[w] EXCEPT !.timers = @ \ {s}]
    IN  /\ x.pc = "accept" /\ x.ready = {} /\ s \in ws[w].timers /\ ~x.exiting
        /\ CtlFailure
        /\ \E y \in EnabledPartly(x) : Become(w, y)
        /\ UNCHANGED <<lock, queue>>

\* SIGQUIT in ngx_worker_process_cycle(): ngx_close_listening_sockets() and
\* ngx_close_idle_connections().  Some other worker goes on.
Quit(w) ==
    LET x == ws[w]
    IN  /\ x.pc = "top" /\ ~x.exiting
        /\ \E v \in Workers \ {w} : ~ws[v].exiting
        /\ Fault("other")
        /\ \E y \in HandleEvents(x) :
               Become(w, [y EXCEPT !.exiting = TRUE, !.held = FALSE,
                                   !.use = FALSE, !.active = {}])
        /\ UNCHANGED <<lock, queue>>

\* ngx_worker_process_exit(), once no timer is left.
Exit(w) ==
    LET x == ws[w]
    IN  /\ x.pc = "top" /\ x.exiting /\ x.conns = 0 /\ x.timers = {}
        /\ Become(w, [x EXCEPT !.pc = "gone"])
        /\ UNCHANGED <<lock, queue, used>>

\* A worker dies anywhere; the master frees its mutex and starts another.
Crash(w) ==
    /\ ws[w].pc \notin {"dead", "gone"}
    /\ Fault("other")
    /\ Become(w, [ws[w] EXCEPT !.pc = "dead"])
    /\ UNCHANGED <<lock, queue>>

\* Variant: the mutex is not looked at.
ReapNoUnlock(w) ==
    /\ ws[w].pc = "dead"
    /\ Become(w, IF ws[w].exiting THEN [ws[w] EXCEPT !.pc = "gone"]
                                  ELSE Started(ws[w].use))
    /\ UNCHANGED <<lock, queue, used>>

Reap(w) ==
    /\ ws[w].pc = "dead"
    /\ lock' = UnlockedBy(w)
    /\ Become(w, IF ws[w].exiting THEN [ws[w] EXCEPT !.pc = "gone"]
                                  ELSE Started(ws[w].use))
    /\ UNCHANGED <<queue, used>>

\* A client connects.
Arrive(q) ==
    /\ used.arrivals < MaxArrivals
    /\ used' = [used EXCEPT !.arrivals = @ + 1]
    /\ queue' = [queue EXCEPT ![q] = @ + 1]
    /\ UNCHANGED <<lock, ws>>

Loop(w) ==
    \/ TurnDisabled(w) \/ TurnUnlocked(w)
    \/ TrylockSucceeds(w) \/ TrylockEnableFails(w) \/ TrylockUndone(w)
    \/ TrylockFails(w) \/ TrylockDisableFails(w)
    \/ Wake(w)
    \/ \E s \in Sockets :
           \/ Accept(w, s) \/ AcceptReorderFails(w, s)
           \/ AcceptAborted(w, s) \/ AcceptAgain(w, s)
           \/ AcceptNoFiles(w, s) \/ AcceptNoFilesDisableFails(w, s)
           \/ TimerExpires(w, s) \/ TimerEnableFails(w, s)
    \/ TurnEnds(w) \/ Exit(w)

Next ==
    \/ \E w \in Workers : Loop(w) \/ Quit(w) \/ Crash(w) \/ Reap(w)
    \/ \E q \in Queues : Arrive(q)

Spec == Init /\ [][Next]_vars

\* A worker that can go on does so, a timer is over some time, and the master
\* reaps.
Fairness ==
    \A w \in Workers :
        /\ WF_vars(Loop(w))
        /\ \A s \in Sockets : SF_vars(TimerExpires(w, s))
        /\ WF_vars(Reap(w))

FairSpec == Spec /\ Fairness

-----------------------------------------------------------------------------
\* A worker never comes to the end of a turn with the mutex, whatever path
\* through ngx_event_accept() and the handlers it took: it would sleep in
\* epoll_wait() next time, perhaps without listening.
ReleasedBetweenTurns ==
    \A w \in Workers : ws[w].pc \in {"top", "gone"} => lock # w

\* Listening goes with the turn: the worker that keeps the others out listens
\* on every socket when it sleeps, and one that does not think it has the turn
\* is not woken for the shared sockets.  (An epoll_ctl() that fails on the way
\* out of a want of descriptors can break both.)
ListensInTurn ==
    used.ctl = 0 =>
        \A w \in Workers :
            /\ lock = w /\ ws[w].pc = "wait" => ws[w].active = Sockets
            /\ ws[w].use /\ ~ws[w].held => ws[w].active \cap Shared = {}

\* A worker over its threshold that has not got the turn, for want of
\* descriptors or because of connections on its own socket, leaves the mutex
\* alone without ngx_accept_mutex_delay: it may sleep for ever.
Deaf(w) == ws[w].use /\ ~ws[w].held /\ ~ws[w].capped /\ ws[w].pc = "wait"

Healthy == used.ctl = 0 /\ \E w \in Workers : ~ws[w].exiting /\ ~Deaf(w)

\* A connection waiting on a shared socket is accepted (or gives up), however
\* the workers compete for the mutex, die and shut down, as long as some
\* worker is not deaf to it.
SharedServed ==
    []Healthy => \A s \in Shared : queue[<<s, None>>] > 0 ~> queue[<<s, None>>] = 0

=============================================================================
