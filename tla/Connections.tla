---------------------------- MODULE Connections ----------------------------
(***************************************************************************)
(* The connections of one worker and the events that reach them: the table *)
(* of connections, its free list and its queue of reusable connections     *)
(* (core/ngx_connection.c), the dispatch of what epoll_wait() reports      *)
(* (event/modules/ngx_epoll_module.c), posted events (event/               *)
(* ngx_event_posted.c) and timers (event/ngx_event_timer.c).               *)
(*                                                                         *)
(* A handler is whatever code a module has installed: a sequence of calls  *)
(* of the functions modelled here, on its own or on other open connections *)
(* (the client's side of a request closes the upstream's, and so on).      *)
(***************************************************************************)
EXTENDS Integers, Sequences, FiniteSets, SequencesExt

CONSTANTS ConnectionN, \* cycle->connection_n
          MaxSockets,  \* bound on the sockets opened in a behaviour
          MaxCalls     \* bound on the calls of all handlers

ASSUME ConnectionsAssumption == {ConnectionN, MaxSockets, MaxCalls} \subseteq Nat \ {0}

VARIABLES conn,      \* ngx_connection_t and its two ngx_event_t
          free,      \* cycle->free_connections, head first
          reusable,  \* cycle->reusable_connections_queue, head first
          accepts,   \* ngx_posted_accept_events
          posted,    \* ngx_posted_events
          next,      \* ngx_posted_next_events
          list,      \* what is left of event_list
          at,        \* where the worker is
          sockets,   \* sockets opened so far
          calls,     \* calls made by handlers so far
          reuses     \* how often each slot was taken since epoll_wait()

vars == <<conn, free, reusable, accepts, posted, next, list, at, sockets, calls, reuses>>

Slots    == 0..(ConnectionN - 1)
Listener == 0
Closed   == -1
Kinds    == {"read", "write"}
Events   == Slots \X Kinds

IsOpen(c) == conn[c].fd # Closed

\* A connection after ngx_event_process_init(); set in "posted", "timers"
\* and "active" are the kinds of its events with that flag.  "kept" is for
\* the properties: its handler kept it open when it was last to be reused.
Unused == [fd |-> Closed, instance |-> 1, active |-> {}, posted |-> {},
           timers |-> {}, reusable |-> FALSE, lingering |-> FALSE, kept |-> FALSE]

\* ngx_get_connection() zeroes all but the instance, which it turns round.
Fresh(c, fd, kinds) ==
    [Unused EXCEPT !.fd = fd, !.instance = 1 - conn[c].instance, !.active = kinds]

\* One listening connection is open, and listened on.
Init ==
    /\ conn = [c \in Slots |->
                  IF c = Listener
                  THEN [Unused EXCEPT !.fd = 0, !.instance = 0, !.active = {"read"}]
                  ELSE Unused]
    /\ free = [i \in 1..(ConnectionN - 1) |-> i]
    /\ reusable = <<>> /\ accepts = <<>> /\ posted = <<>> /\ next = <<>> /\ list = <<>>
    /\ at = [pc |-> "top", post |-> FALSE]
    /\ sockets = 0
    /\ calls = 0
    /\ reuses = [c \in Slots |-> 0]

-----------------------------------------------------------------------------
\* ngx_event_move_posted_next(), and the choice of NGX_POST_EVENTS, which is
\* the accept mutex's.
Turn ==
    /\ at.pc = "top"
    /\ posted' = posted \o next
    /\ next' = <<>>
    /\ \E post \in BOOLEAN : at' = [pc |-> "poll", post |-> post]
    /\ UNCHANGED <<conn, free, reusable, accepts, list, sockets, calls, reuses>>

\* epoll_wait(): some sockets with an active event, in some order.  What it
\* gives back is the pointer and the instance of the time the socket was
\* added, and the events, of which an error sets both.  "fd" is for the
\* properties: the kernel's socket the report is about.
Reports ==
    {[slot |-> c, instance |-> conn[c].instance, fd |-> conn[c].fd, revents |-> r] :
        c \in {d \in Slots : IsOpen(d) /\ conn[d].active # {}},
        r \in {{"read"}, {"write"}, Kinds}}

Poll ==
    /\ at.pc = "poll"
    /\ \E S \in SUBSET Reports :
           /\ \A e, f \in S : e.slot = f.slot => e = f
           /\ \A e \in S : e.revents \cap conn[e.slot].active # {}
           /\ list' \in SetToSeqs(S)
    /\ reuses' = [c \in Slots |-> 0]
    /\ at' = [at EXCEPT !.pc = "events"]
    /\ UNCHANGED <<conn, free, reusable, accepts, posted, next, sockets, calls>>

\* ngx_post_event()
Posts(c, kind, queue) ==
    IF kind \in conn[c].posted THEN queue ELSE Append(queue, <<c, kind>>)

Marks(c, kind) == [conn EXCEPT ![c].posted = @ \cup {kind}]

\* Run the handler of an event, then go on at "back".
Run(c, kind, fd, back) ==
    at' = [pc |-> "handler", post |-> at.post, back |-> back,
           on |-> [slot |-> c, kind |-> kind, fd |-> fd]]

\* Variant: only the closing of a connection is noticed.
StaleIfClosed(e) == conn[e.slot].fd = Closed

Stale(e) == conn[e.slot].fd = Closed \/ conn[e.slot].instance # e.instance

\* One of the two halves of the loop body of ngx_epoll_process_events(): the
\* read half tests for a stale event first, the write half only if it has
\* something to do.
Dispatch(kind, then) ==
    LET e == Head(list)
        acts == kind \in e.revents /\ kind \in conn[e.slot].active
    IN  /\ list # <<>>
        /\ list' = IF kind = "write" \/ Stale(e) THEN Tail(list) ELSE list
        /\ IF Stale(e) \/ ~acts
           THEN /\ at' = [at EXCEPT !.pc = IF Stale(e) THEN "events" ELSE then]
                /\ UNCHANGED <<accepts, posted, conn>>
           ELSE IF ~at.post
           THEN /\ Run(e.slot, kind, e.fd, then)
                /\ UNCHANGED <<accepts, posted, conn>>
           ELSE /\ conn' = Marks(e.slot, kind)
                /\ at' = [at EXCEPT !.pc = then]
                /\ IF e.slot = Listener
                   THEN accepts' = Posts(e.slot, kind, accepts) /\ UNCHANGED posted
                   ELSE posted' = Posts(e.slot, kind, posted) /\ UNCHANGED accepts
        /\ UNCHANGED <<free, reusable, next, sockets, calls, reuses>>

DispatchRead  == at.pc = "events" /\ Dispatch("read", "write")
DispatchWrite == at.pc = "write" /\ Dispatch("write", "events")

Goto(from, to) ==
    /\ at.pc = from
    /\ at' = [at EXCEPT !.pc = to]
    /\ UNCHANGED <<conn, free, reusable, accepts, posted, next, list, sockets, calls, reuses>>

DispatchEnds == list = <<>> /\ Goto("events", "accepts")

\* ngx_event_process_posted() for accept events, and for the others.
Handled(queue, c, kind) ==
    /\ queue # <<>> /\ Head(queue) = <<c, kind>>
    /\ conn' = [conn EXCEPT ![c].posted = @ \ {kind}]
    /\ Run(c, kind, conn[c].fd, at.pc)
    /\ UNCHANGED <<free, reusable, next, list, sockets, calls, reuses>>

ProcessAccepts ==
    /\ at.pc = "accepts"
    /\ \E e \in Events : Handled(accepts, e[1], e[2])
    /\ accepts' = Tail(accepts)
    /\ UNCHANGED posted

AcceptsEnd == accepts = <<>> /\ Goto("accepts", "timers")

\* ngx_event_expire_timers(): the timer that is the first to expire, which
\* may be any, has expired, or it has not.
ExpireTimer ==
    /\ at.pc = "timers"
    /\ \E e \in Events :
           /\ e[2] \in conn[e[1]].timers
           /\ conn' = [conn EXCEPT ![e[1]].timers = @ \ {e[2]}]
           /\ Run(e[1], e[2], conn[e[1]].fd, "timers")
    /\ UNCHANGED <<free, reusable, accepts, posted, next, list, sockets, calls, reuses>>

TimersEnd == Goto("timers", "posted")

ProcessPosted ==
    /\ at.pc = "posted"
    /\ \E e \in Events : Handled(posted, e[1], e[2])
    /\ posted' = Tail(posted)
    /\ UNCHANGED accepts

PostedEnd == posted = <<>> /\ Goto("posted", "top")

-----------------------------------------------------------------------------
(* What handlers call.                                                     *)

Table == [conn |-> conn, free |-> free, reusable |-> reusable,
          posted |-> posted, next |-> next]

Becomes(x) ==
    /\ conn' = x.conn /\ free' = x.free /\ reusable' = x.reusable
    /\ posted' = x.posted /\ next' = x.next

Without(queue, c) == SelectSeq(queue, LAMBDA e : e[1] # c)

\* ngx_close_connection(), with ngx_reusable_connection(c, 0) and
\* ngx_free_connection().
Shut(x, c) ==
    [x EXCEPT !.conn[c] = [Unused EXCEPT !.instance = x.conn[c].instance],
              !.free = <<c>> \o @,
              !.reusable = SelectSeq(@, LAMBDA d : d # c),
              !.posted = Without(@, c),
              !.next = Without(@, c)]

\* ngx_http_set_lingering_close() and ngx_http_v2_lingering_close(): the
\* connection waits for its peer, and is reusable meanwhile.
Lingers(x, c) ==
    [x EXCEPT !.conn[c].lingering = TRUE,
              !.conn[c].reusable = TRUE,
              !.conn[c].timers = @ \cup {"read"},
              !.reusable = <<c>> \o SelectSeq(@, LAMBDA d : d # c)]

\* What the read handler of a reusable connection makes of c->close: it closes
\* the connection; HTTP/2 moves it to lingering close, or leaves it as it is
\* while it has streams or the shutdown of TLS is not finished.  The handler
\* of a lingering close closes it.
Reuse(x, c) ==
    {Shut(x, c)} \cup
    (IF x.conn[c].lingering THEN {}
     ELSE {Lingers(x, c), [x EXCEPT !.conn[c].kept = TRUE]})

\* One round of the loop of ngx_drain_connections(): the last of the queue.
ReuseLast(p) ==
    LET c == Last(p.table.reusable)
    IN  IF p.table.reusable = <<>> THEN {p}
        ELSE {[table |-> y, last |-> c] :
                  y \in Reuse([p.table EXCEPT !.conn[c].kept = FALSE], c)}

\* The loop: what it may leave of the table, and the connection it tried last.
DrainLoop(x) ==
    LET eighth == Len(x.reusable) \div 8
        n == IF eighth > 32 THEN 32 ELSE IF eighth < 1 THEN 1 ELSE eighth
    IN  FoldLeft(LAMBDA S, i : UNION {ReuseLast(p) : p \in S},
                 {[table |-> x, last |-> Last(x.reusable)]}, [i \in 1..n |-> i])

EnoughFree(x) == Len(x.free) > ConnectionN \div 16 \/ x.reusable = <<>>

\* Variant: the connection tried last is not tried again.
DrainOnce(x) == IF EnoughFree(x) THEN {x} ELSE {p.table : p \in DrainLoop(x)}

\* ngx_drain_connections(), with the second try for the last connection when
\* none was freed.
Drain(x) ==
    IF EnoughFree(x) THEN {x}
    ELSE UNION {IF p.table.free = <<>> /\ p.table.conn[p.last].reusable
                THEN Reuse(p.table, p.last)
                ELSE {p.table} : p \in DrainLoop(x)}

Calls ==
    /\ at.pc = "handler"
    /\ calls < MaxCalls
    /\ calls' = calls + 1
    /\ UNCHANGED <<accepts, list, at>>

Close(c) ==
    /\ Calls
    /\ IsOpen(c) /\ c # Listener
    /\ Becomes(Shut(Table, c))
    /\ UNCHANGED <<sockets, reuses>>

\* ngx_get_connection() for a socket just accepted, or for one being connected
\* (ngx_event_connect_peer()), which ngx_add_conn() adds at once.
Get(kinds) ==
    /\ Calls
    /\ sockets < MaxSockets
    /\ sockets' = sockets + 1
    /\ \E x \in Drain(Table) :
           IF x.free = <<>>
           THEN Becomes(x) /\ UNCHANGED reuses
           ELSE LET c == Head(x.free)
                IN  /\ Becomes([x EXCEPT !.free = Tail(@),
                                         !.conn[c] = Fresh(c, sockets + 1, kinds)])
                    /\ reuses' = [reuses EXCEPT ![c] = @ + 1]

\* ngx_reusable_connection(c, 1) elsewhere
Reusable(c) ==
    /\ Calls
    /\ IsOpen(c) /\ c # Listener /\ ~conn[c].lingering
    /\ conn' = [conn EXCEPT ![c].reusable = TRUE]
    /\ reusable' = <<c>> \o SelectSeq(reusable, LAMBDA d : d # c)
    /\ UNCHANGED <<free, posted, next, sockets, reuses>>

\* ngx_reusable_connection(c, 0); no handler of a lingering close does it.
Busy(c) ==
    /\ Calls
    /\ IsOpen(c) /\ conn[c].reusable /\ ~conn[c].lingering
    /\ conn' = [conn EXCEPT ![c].reusable = FALSE]
    /\ reusable' = SelectSeq(reusable, LAMBDA d : d # c)
    /\ UNCHANGED <<free, posted, next, sockets, reuses>>

\* A handler ends a request with a lingering close.
Linger(c) ==
    /\ Calls
    /\ IsOpen(c) /\ c # Listener /\ ~conn[c].lingering
    /\ Becomes(Lingers(Table, c))
    /\ UNCHANGED <<sockets, reuses>>

\* ngx_add_event() and ngx_del_event()
AddEvent(c, kind) ==
    /\ Calls
    /\ IsOpen(c) /\ c # Listener /\ kind \notin conn[c].active
    /\ conn' = [conn EXCEPT ![c].active = @ \cup {kind}]
    /\ UNCHANGED <<free, reusable, posted, next, sockets, reuses>>

DelEvent(c, kind) ==
    /\ Calls
    /\ IsOpen(c) /\ c # Listener /\ kind \in conn[c].active
    /\ conn' = [conn EXCEPT ![c].active = @ \ {kind}]
    /\ UNCHANGED <<free, reusable, posted, next, sockets, reuses>>

\* ngx_add_timer(); a timer that is set already is moved or left alone.
AddTimer(c, kind) ==
    /\ Calls
    /\ IsOpen(c) /\ c # Listener
    /\ conn' = [conn EXCEPT ![c].timers = @ \cup {kind}]
    /\ UNCHANGED <<free, reusable, posted, next, sockets, reuses>>

DelTimer(c, kind) ==
    /\ Calls
    /\ IsOpen(c) /\ kind \in conn[c].timers
    /\ conn' = [conn EXCEPT ![c].timers = @ \ {kind}]
    /\ UNCHANGED <<free, reusable, posted, next, sockets, reuses>>

\* ngx_post_event(ev, &ngx_posted_events)
Post(c, kind) ==
    /\ Calls
    /\ IsOpen(c) /\ c # Listener
    /\ posted' = Posts(c, kind, posted)
    /\ conn' = Marks(c, kind)
    /\ UNCHANGED <<free, reusable, next, sockets, reuses>>

\* Variant: an event posted already is put in the other queue as well.
PostNextToo(c, kind) ==
    /\ Calls
    /\ IsOpen(c) /\ c # Listener
    /\ next' = Append(next, <<c, kind>>)
    /\ conn' = Marks(c, kind)
    /\ UNCHANGED <<free, reusable, posted, sockets, reuses>>

\* ngx_post_event(ev, &ngx_posted_next_events)
PostNext(c, kind) ==
    /\ Calls
    /\ IsOpen(c) /\ c # Listener
    /\ next' = Posts(c, kind, next)
    /\ conn' = Marks(c, kind)
    /\ UNCHANGED <<free, reusable, posted, sockets, reuses>>

Return ==
    /\ at.pc = "handler"
    /\ at' = [pc |-> at.back, post |-> at.post]
    /\ UNCHANGED <<conn, free, reusable, accepts, posted, next, list, sockets, calls, reuses>>

Worker ==
    \/ Turn \/ Poll
    \/ DispatchRead \/ DispatchWrite \/ DispatchEnds
    \/ ProcessAccepts \/ AcceptsEnd
    \/ ExpireTimer \/ TimersEnd
    \/ ProcessPosted \/ PostedEnd
    \/ Return

Handler ==
    \/ \E kinds \in {{}, Kinds} : Get(kinds)
    \/ \E c \in Slots :
           \/ Close(c) \/ Reusable(c) \/ Busy(c) \/ Linger(c)
           \/ \E kind \in Kinds :
                  \/ AddEvent(c, kind) \/ DelEvent(c, kind)
                  \/ AddTimer(c, kind) \/ DelTimer(c, kind)
                  \/ Post(c, kind) \/ PostNext(c, kind)

Next == Worker \/ Handler

Spec == Init /\ [][Next]_vars

-----------------------------------------------------------------------------
\* The lists say what the connections say: the free list is the closed ones,
\* the reusable queue those flagged reusable, the three queues of posted events
\* those flagged posted, and each of them is there once.
ListsExact ==
    /\ IsInjective(free)
    /\ ToSet(free) = {c \in Slots : ~IsOpen(c)}
    /\ IsInjective(accepts \o posted \o next)
    /\ ToSet(accepts \o posted \o next) = {e \in Events : e[2] \in conn[e[1]].posted}
    /\ IsInjective(reusable)
    /\ ToSet(reusable) = {c \in Slots : conn[c].reusable}

\* ngx_get_connection() has no structure for a new socket only if no connection
\* was reusable, although those that are may answer c->close with a lingering
\* close and free nothing.  It fails when the last of the queue is kept open by
\* its handler: an HTTP/2 connection with streams, or one whose TLS shutdown is
\* not finished; then the connections in front of it are not tried.
ReuseFrees ==
    [][sockets' # sockets /\ (\A c \in Slots : conn'[c].fd # sockets') =>
          \/ free = <<>> /\ reusable = <<>>
          \/ reusable # <<>> /\ conn'[Last(reusable)].kept]_vars

\* A handler is started by epoll_wait()'s report for the socket its
\* connection has now, although handlers of earlier reports close connections
\* and open others in their place.  The instance is one bit: it fails when
\* the place was taken twice since epoll_wait().
ReportsReachTheirSocket ==
    [][at.pc # "handler" /\ at'.pc = "handler" =>
          LET on == at'.on
          IN  /\ IsOpen(on.slot)
              /\ on.fd = conn[on.slot].fd \/ reuses[on.slot] > 1]_vars

=============================================================================
