---------------------------- MODULE HttpRequest -----------------------------
(***************************************************************************)
(* A client request and its subrequests: http/ngx_http_request.c from the  *)
(* start of the phases to the release of the request, the creation of      *)
(* subrequests (ngx_http_core_module.c), the filters that hold output back *)
(* (copy, postpone and write filter), and how upstream and file operations *)
(* that run beside the request hold on to it.                              *)
(*                                                                         *)
(* Requests are numbered; 0 is the main request, whose memory all of them  *)
(* share.  The field names of "s" are those of the code; c->data, the      *)
(* request that may write to the client, is "active".  The worker is one   *)
(* thread, so the functions are operators from a state to a state, and an  *)
(* event is handled to its end, with the posted requests, before the next. *)
(* Only the content handlers, which are modules of their own, take a step  *)
(* for each of their calls: request "pc" is the one whose handler runs.    *)
(*                                                                         *)
(* Request bodies, redirects, post_action, rate limits, lingering close,   *)
(* HTTP/2 and failing allocations are left out, and so are what handlers   *)
(* of subrequests do (post_subrequest) and filter_finalize, which ends a   *)
(* request like an error.  The response of an upstream is not cached and   *)
(* is taken in one event: the pipe, which does it in several, is not       *)
(* modelled.  Every buffer is at least postpone_output long.               *)
(***************************************************************************)
EXTENDS Integers, Sequences, FiniteSets, SequencesExt

CONSTANTS Settings, \* what the handlers may do, and how much the socket takes
          MaxSub,   \* bound on the subrequests
          MaxCount, \* bound on the references that events on a closing connection take
          MaxAgain  \* bound on how often upstream requests are finalized again

Kinds == {"plain", "waited", "memory", "background"}

\* "main" and "sub" bound the buffers that a request outputs, "room" those that
\* the socket takes before the client reads.
ASSUME HttpRequestAssumption ==
    /\ MaxSub \in Nat /\ MaxCount \in Nat /\ MaxAgain \in Nat
    /\ Settings \subseteq [main : Nat \ {0}, sub : Nat \ {0}, room : Nat \ {0},
                            kinds : SUBSET Kinds, files : BOOLEAN, upstreams : BOOLEAN]

Main == 0
Reqs == 0 .. MaxSub
None == -1

VARIABLES set, \* the setting
          s,   \* the connection, the main request and its subrequests
          pc   \* the request whose content handler runs, or None

vars == <<set, s, pc>>

\* A request that does not exist yet has the kind "none".
Init ==
    /\ set \in Settings
    /\ pc = Main
    /\ \E room \in 1 .. set.room :
         s = [kind      |-> [r \in Reqs |-> IF r = Main THEN "main" ELSE "none"],
              parent    |-> [r \in Reqs |-> None],
              weh       |-> [r \in Reqs |-> "phases"],  \* write_event_handler
              reh       |-> [r \in Reqs |-> "none"],    \* read_event_handler
              postponed |-> [r \in Reqs |-> <<>>],
              done      |-> [r \in Reqs |-> FALSE],
              logged    |-> [r \in Reqs |-> FALSE],
              aio       |-> [r \in Reqs |-> FALSE],
              in        |-> [r \in Reqs |-> <<>>],      \* ctx->in of the copy filter
              upstream  |-> [r \in Reqs |-> "no"],
              doc       |-> [r \in Reqs |-> <<>>],      \* what its handler has output
              active    |-> Main,
              count     |-> 1,
              blocked   |-> 0,
              posted    |-> <<>>,
              out       |-> <<>>,                       \* r->out of the write filter
              sent      |-> <<>>,
              client    |-> "open",
              room      |-> room,                       \* what the socket takes
              keepalive |-> FALSE,
              eof       |-> FALSE,
              error     |-> FALSE,
              close     |-> FALSE,
              timer     |-> FALSE,                      \* c->write->timer_set
              timedout  |-> FALSE,
              freed     |-> FALSE,
              alert     |-> FALSE,                      \* an alert was logged
              again     |-> 0]  \* how often an upstream request was finalized again

-----------------------------------------------------------------------------
(* Posting and releasing *)

\* ngx_http_post_request()
PostRequest(t, r) == [t EXCEPT !.posted = Append(@, r)]

\* r->count has 16 bits.
Less(count) == (count - 1) % 65536

\* ngx_http_close_request() and ngx_http_free_request()
CloseRequest(t) ==
    LET count == Less(t.count)
    IN  [t EXCEPT !.count = count,
                  !.alert = @ \/ t.count = 0 \/ t.freed,
                  !.freed = @ \/ (count = 0 /\ t.blocked = 0)]

\* ngx_http_finalize_connection().  A connection that is kept alive frees its
\* request without a look at the operations that block it.
FinalizeConnection(t) ==
    IF t.count # 1 \/ t.eof \/ t.close \/ ~t.keepalive
    THEN CloseRequest(t)
    ELSE [t EXCEPT !.freed = TRUE, !.alert = @ \/ t.freed]

\* ngx_http_upstream_cleanup(): the reference of the upstream is given back.
UpstreamCleanup(r, t) ==
    FinalizeConnection([t EXCEPT !.upstream[r] = "over", !.reh[r] = "none"])

\* ngx_http_terminate_request(), which runs the cleanup handlers first.
Terminate(t, r) ==
    LET cleaned == FoldSet(UpstreamCleanup, t, {q \in Reqs : t.upstream[q] = "busy"})
    IN  IF t.blocked > 0
        THEN [cleaned EXCEPT !.error = TRUE, !.weh[r] = "finalizer"]
        ELSE [cleaned EXCEPT !.posted = <<Main>>, !.weh[Main] = "terminate"]

Buffered(t, r) == t.in[r] # <<>>

\* Variant: the timer is not set.
SetWriteHandlerUntimed(t, r) == [t EXCEPT !.reh[r] = "test", !.weh[r] = "writer"]

\* ngx_http_set_write_handler()
SetWriteHandler(t, r) ==
    [t EXCEPT !.reh[r] = "test", !.weh[r] = "writer", !.timer = TRUE]

Waited(t, r) == t.kind[r] \in {"waited", "memory"}

\* Variant: a subrequest that is not active gives its reference back as well.
FinalizeSubrequestTwice(t, r) ==
    LET p      == t.parent[r]
        queue  == t.postponed[p]
        ended  == [t EXCEPT !.logged[r] = TRUE, !.done[r] = TRUE,
                            !.alert = @ \/ t.logged[r]]
        parted == [ended EXCEPT !.count = Less(@), !.active = p,
                                !.postponed[p] = IF queue # <<>> /\ queue[1].request = r
                                                 THEN Tail(@) ELSE @]
    IN  IF t.kind[r] = "background"
        THEN FinalizeConnection(ended)
        ELSE IF r = t.active
        THEN PostRequest(parted, p)
        ELSE PostRequest([t EXCEPT !.weh[r] = "finalizer", !.count = Less(@),
                                   !.done[r] = @ \/ Waited(t, r)], p)

\* The end of a subrequest that has nothing left to send.
FinalizeSubrequest(t, r) ==
    LET p      == t.parent[r]
        queue  == t.postponed[p]
        ended  == [t EXCEPT !.logged[r] = TRUE, !.done[r] = TRUE,
                            !.alert = @ \/ t.logged[r]]
        parted == [ended EXCEPT !.count = Less(@), !.active = p,
                                !.postponed[p] = IF queue # <<>> /\ queue[1].request = r
                                                 THEN Tail(@) ELSE @]
    IN  IF t.kind[r] = "background"
        THEN FinalizeConnection(ended)
        ELSE IF r = t.active
        THEN PostRequest(parted, p)
        ELSE PostRequest([t EXCEPT !.weh[r] = "finalizer",
                                   !.done[r] = @ \/ Waited(t, r)], p)

\* The end of the main request.
FinalizeMain(t) ==
    IF t.active # Main
    THEN [t EXCEPT !.alert = TRUE]
    ELSE FinalizeConnection([t EXCEPT !.done[Main] = TRUE, !.reh[Main] = "none",
                                      !.weh[Main] = "empty", !.timer = FALSE])

\* ngx_http_finalize_request(), but for special responses.  NGX_DECLINED goes on
\* with the phases, that is with a handler of the request.
Finalize(t, r, rc) ==
    CASE rc = "DONE"                               -> FinalizeConnection(t)
      [] rc # "DONE" /\ (rc = "ERROR" \/ t.error)  -> Terminate(t, r)
      [] rc \in {"OK", "AGAIN"} /\ ~t.error        ->
           IF \/ Buffered(t, r) \/ t.postponed[r] # <<>>
              \/ r = Main /\ t.out # <<>>
           THEN SetWriteHandler(t, r)
           ELSE IF r = Main THEN FinalizeMain(t) ELSE FinalizeSubrequest(t, r)

-----------------------------------------------------------------------------
(* Output.  The filters return a state and a return code. *)

Result(t, rc) == [s |-> t, rc |-> rc]

\* ngx_http_write_filter().  A client that has only closed its side takes what is
\* sent; one that has reset the connection does not.
WriteFilter(t, bufs) ==
    LET chain == t.out \o bufs
        n     == IF Len(chain) < t.room THEN Len(chain) ELSE t.room
    IN  IF t.error \/ t.client = "reset"
        THEN Result([t EXCEPT !.error = TRUE], "ERROR")
        ELSE Result([t EXCEPT !.sent = @ \o SubSeq(chain, 1, n), !.room = @ - n,
                              !.out = SubSeq(chain, n + 1, Len(chain))],
                    IF n < Len(chain) THEN "AGAIN" ELSE "OK")

Node(request, out) == [request |-> request, out |-> out]

\* ngx_http_postpone_filter_add()
PostponeAdd(t, r, bufs) ==
    LET queue == t.postponed[r]
        last  == Len(queue)
    IN  IF queue # <<>> /\ queue[last].request = None
        THEN [t EXCEPT !.postponed[r][last].out = @ \o bufs]
        ELSE [t EXCEPT !.postponed[r] = Append(@, Node(None, bufs))]

\* The loop of ngx_http_postpone_filter(): output up to the first subrequest,
\* which becomes the active request.
Drain(t, r) ==
    LET queue == t.postponed[r]
        subs  == {i \in DOMAIN queue : queue[i].request # None}
        k     == IF subs = {} THEN Len(queue) + 1
                 ELSE CHOOSE i \in subs : \A j \in subs : i <= j
        data  == FlattenSeq([i \in 1 .. k - 1 |-> queue[i].out])
        wrote == IF k = 1 THEN Result(t, "OK") ELSE WriteFilter(t, data)
        rest  == [wrote.s EXCEPT !.postponed[r] = SubSeq(@, k + 1, Len(@))]
    IN  IF wrote.rc = "ERROR" \/ subs = {}
        THEN Result(IF wrote.rc = "ERROR" THEN wrote.s ELSE rest, wrote.rc)
        ELSE Result(PostRequest([rest EXCEPT !.active = queue[k].request],
                                queue[k].request), "OK")

\* Variant: whether the request is the active one is not looked at.
PostponeFilterAtOnce(t, r, bufs) ==
    LET added == IF bufs = <<>> THEN t ELSE PostponeAdd(t, r, bufs)
    IN  IF t.kind[r] = "memory"
        THEN Result(t, "OK")
        ELSE IF t.postponed[r] # <<>>
        THEN Drain(added, r)
        ELSE IF bufs # <<>> \/ t.out # <<>>
        THEN WriteFilter(t, bufs)
        ELSE Result(t, "OK")

\* ngx_http_postpone_filter().  The output of a subrequest in memory is kept for
\* whoever created it.
PostponeFilter(t, r, bufs) ==
    LET added == IF bufs = <<>> THEN t ELSE PostponeAdd(t, r, bufs)
    IN  IF t.kind[r] = "memory"
        THEN Result(t, "OK")
        ELSE IF r # t.active
        THEN Result(added, "OK")
        ELSE IF t.postponed[r] # <<>>
        THEN Drain(added, r)
        ELSE IF bufs # <<>> \/ t.out # <<>>
        THEN WriteFilter(t, bufs)
        ELSE Result(t, "OK")

\* ngx_http_copy_filter() and ngx_http_output_filter().  Nothing passes a file
\* operation that is under way.
OutputFilter(t, r, bufs) ==
    IF t.aio[r]
    THEN Result([t EXCEPT !.in[r] = @ \o bufs], "AGAIN")
    ELSE LET passed == PostponeFilter([t EXCEPT !.in[r] = <<>>], r, t.in[r] \o bufs)
         IN  [passed EXCEPT !.s.error = @ \/ passed.rc = "ERROR"]

\* Variant: the operation does not block the main request.
ReadFileUnblocked(t, r, bufs) ==
    [t EXCEPT !.in[r] = @ \o bufs, !.aio[r] = TRUE]

\* ngx_http_copy_thread_handler(): a file operation is started for the buffers.
ReadFile(t, r, bufs) ==
    [t EXCEPT !.in[r] = @ \o bufs, !.aio[r] = TRUE, !.blocked = @ + 1]

-----------------------------------------------------------------------------
(* Handlers of a request *)

\* ngx_http_writer()
Writer(t, r) ==
    LET out == OutputFilter(t, r, <<>>)
    IN  CASE t.timedout           -> Finalize(t, r, "ERROR")
          [] ~t.timedout /\ t.aio[r] -> [t EXCEPT !.timer = TRUE]
          [] OTHER                ->
               IF out.rc = "ERROR"
               THEN Finalize(out.s, r, "ERROR")
               ELSE IF \/ Buffered(out.s, r) \/ out.s.postponed[r] # <<>>
                       \/ r = Main /\ out.s.out # <<>>
               THEN [out.s EXCEPT !.timer = TRUE]
               ELSE Finalize([out.s EXCEPT !.weh[r] = "empty"], r, "OK")

\* The special responses of ngx_http_finalize_request(): an error page is output
\* before the request is finalized with the result.
FinalizeSpecial(t, r, page) ==
    LET out == OutputFilter([t EXCEPT !.timer = @ /\ r # Main], r, page)
    IN  IF t.error THEN Terminate(t, r) ELSE Finalize(out.s, r, out.rc)

\* ngx_http_upstream_finalize_request().  If the upstream is "already finalized"
\* a reference is given back all the same.
FinalizeUpstream(t, r, rc) ==
    IF t.upstream[r] = "over"
    THEN Finalize([t EXCEPT !.again = @ + 1], r, "DONE")
    ELSE Finalize([t EXCEPT !.upstream[r] = "over", !.reh[r] = "none"], r, rc)

\* ngx_http_upstream_check_broken_connection().  On a write event the end of the
\* client's data is not looked at, only errors of the socket.
CheckBrokenConnection(t, r, write) ==
    IF t.error
    THEN FinalizeUpstream(t, r, "ERROR")
    ELSE IF t.client = "reset" \/ (t.client = "closed" /\ ~write)
    THEN FinalizeUpstream([t EXCEPT !.eof = @ \/ ~write, !.error = TRUE], r, "ERROR")
    ELSE t

\* ngx_http_test_reading()
TestReading(t, r) ==
    IF t.client # "open"
    THEN Finalize([t EXCEPT !.eof = TRUE, !.error = TRUE], r, "ERROR")
    ELSE t

\* r->write_event_handler(r), except for the phases
Written(t, r) ==
    CASE t.weh[r] = "writer"    -> Writer(t, r)
      [] t.weh[r] = "finalizer" -> Finalize(t, r, "OK")
      [] t.weh[r] = "upstream"  -> CheckBrokenConnection(t, r, TRUE)
      [] t.weh[r] = "terminate" -> CloseRequest([t EXCEPT !.count = 1])
      [] t.weh[r] = "empty"     -> t

\* r->read_event_handler(r)
Read(t, r) ==
    CASE t.reh[r] = "test"     -> TestReading(t, r)
      [] t.reh[r] = "upstream" -> CheckBrokenConnection(t, r, FALSE)
      [] t.reh[r] = "none"     -> t

\* The worker calls the write event handler of a request.  The phases end in
\* the content handler, which goes on step by step.
CallWritten(t, r) ==
    IF t.weh[r] = "phases"
    THEN s' = [t EXCEPT !.alert = @ \/ t.done[r]] /\ pc' = r
    ELSE s' = Written(t, r) /\ pc' = None /\ s'.again <= MaxAgain

-----------------------------------------------------------------------------
(* Content handlers.  They output buffers, from memory or from files, create
   subrequests, wait for one, leave the rest to an upstream, or return. *)

Buf(r, n)  == [request |-> r, n |-> n]
Own(r)     == SelectSeq(s.doc[r], LAMBDA e : e.request = r)
Fresh      == {r \in Reqs : s.kind[r] = "none"}

\* Background subrequests are created with header_only set.
MayOutput(r) ==
    s.kind[r] # "background" /\ Len(Own(r)) < IF r = Main THEN set.main ELSE set.sub

\* ngx_http_subrequest()
Subrequest(r, sr, kind) ==
    LET first   == s.active = r /\ s.postponed[r] = <<>>
        created == [s EXCEPT !.kind[sr] = kind, !.parent[sr] = r, !.count = @ + 1]
        placed  == [created EXCEPT !.active = IF first THEN sr ELSE @,
                                   !.postponed[r] = Append(@, Node(sr, <<>>)),
                                   !.doc[r] = Append(@, Buf(sr, 0))]
    IN  PostRequest(IF kind = "background" THEN created ELSE placed, sr)

\* Filters behind the copy filter call it, when they have seen all the output
\* before it; a background subrequest has none, and one in memory may not.
HandlerSubrequest ==
    /\ pc # None /\ Fresh # {} /\ ~Buffered(s, pc)
    /\ s.kind[pc] \notin {"background", "memory"}
    /\ \E kind \in set.kinds :
         s' = Subrequest(pc, CHOOSE r \in Fresh : \A q \in Fresh : r <= q, kind)
    /\ UNCHANGED pc

\* Output that fails ends the handler with an error.
HandlerOutput ==
    LET buf == Buf(pc, Len(Own(pc)) + 1)
        t   == [s EXCEPT !.doc[pc] = Append(@, buf)]
        out == OutputFilter(t, pc, <<buf>>)
    IN  /\ pc # None /\ MayOutput(pc)
        /\ IF out.rc = "ERROR"
           THEN s' = Finalize(out.s, pc, "ERROR") /\ pc' = None
           ELSE s' = out.s /\ UNCHANGED pc

HandlerReadsFile ==
    LET buf == Buf(pc, Len(Own(pc)) + 1)
    IN  /\ pc # None /\ MayOutput(pc) /\ ~s.aio[pc] /\ set.files
        /\ s' = ReadFile([s EXCEPT !.doc[pc] = Append(@, buf)], pc, <<buf>>)
        /\ UNCHANGED pc

\* ngx_http_auth_request_handler(): the main request waits for the subrequest
\* that it has created before all else.
HandlerWaits ==
    /\ pc = Main /\ s.upstream[Main] = "no"
    /\ \E r \in Reqs : /\ Waited(s, r) /\ ~s.done[r]
                       /\ s.doc[Main] = <<Buf(r, 0)>>
    /\ pc' = None
    /\ UNCHANGED s

\* ngx_http_read_client_request_body(), ngx_http_upstream_init() and the return
\* of NGX_DONE.
HandlerStartsUpstream ==
    /\ pc # None /\ s.upstream[pc] = "no" /\ Own(pc) = <<>> /\ set.upstreams
    /\ s' = Finalize([s EXCEPT !.count = @ + 1, !.upstream[pc] = "busy",
                               !.weh[pc] = "upstream", !.reh[pc] = "upstream"],
                     pc, "DONE")
    /\ pc' = None

\* The main request ends its response with a buffer of its own.  Whether its
\* connection is kept alive is decided here, the first time that it matters.  A
\* handler that has sent nothing may return the code of a special response.
HandlerReturns ==
    /\ pc # None
    /\ \E keepalive \in IF pc = Main THEN BOOLEAN ELSE {s.keepalive} :
         LET t    == [s EXCEPT !.keepalive = keepalive]
             page == Buf(pc, 1)
         IN  \/ /\ pc = Main => s.doc[Main] # <<>> /\ Last(s.doc[Main]).request = Main
                /\ s' = Finalize(t, pc, "OK")
             \/ /\ MayOutput(pc) /\ Own(pc) = <<>>
                /\ s' = FinalizeSpecial([t EXCEPT !.doc[pc] = Append(@, page)], pc, <<page>>)
             \/ s' = Finalize(s, pc, "ERROR")
    /\ pc' = None

-----------------------------------------------------------------------------
(* Events *)

\* ngx_http_run_posted_requests()
RunPosted ==
    /\ pc = None /\ ~s.freed /\ s.posted # <<>>
    /\ CallWritten([s EXCEPT !.posted = Tail(@)], Head(s.posted))

Idle == pc = None /\ ~s.freed /\ s.posted = <<>>

\* ngx_http_request_handler() for a write event
RequestWritten(t) ==
    IF t.close
    THEN /\ t.count < MaxCount
         /\ s' = Terminate([t EXCEPT !.count = @ + 1], t.active) /\ pc' = None
    ELSE CallWritten(t, t.active)

\* ngx_http_request_handler() for a read event
RequestRead(t) ==
    /\ t.close => t.count < MaxCount
    /\ s' = IF t.close THEN Terminate([t EXCEPT !.count = @ + 1], t.active)
                       ELSE Read(t, t.active)
    /\ pc' = None

\* The socket can be written again, or has an error.
WriteEvent ==
    /\ Idle
    /\ \/ s.room = 0 /\ \E n \in 1 .. set.room : RequestWritten([s EXCEPT !.room = n])
       \/ s.client = "reset" /\ RequestWritten(s)

\* The client does not read for send_timeout.
WriteTimeout ==
    Idle /\ s.timer /\ RequestWritten([s EXCEPT !.timer = FALSE, !.timedout = TRUE])

\* The client has closed or reset the connection.
ReadEvent == Idle /\ s.client # "open" /\ RequestRead(s)

\* ngx_shutdown_timer_handler()
ShutdownTimeout ==
    /\ Idle /\ ~s.close
    /\ RequestRead([s EXCEPT !.close = TRUE, !.error = TRUE])

\* ngx_http_copy_thread_event_handler()
FileRead ==
    /\ Idle
    /\ \E r \in Reqs :
         LET t == [s EXCEPT !.aio[r] = FALSE, !.blocked = @ - 1]
         IN  /\ s.aio[r]
             /\ IF s.done[r] THEN RequestWritten(t) ELSE CallWritten(t, r)

\* The upstream has answered: the response is output and the request finalized.
UpstreamAnswers ==
    /\ Idle
    /\ \E r \in Reqs :
         /\ s.upstream[r] = "busy"
         /\ s' = [s EXCEPT !.upstream[r] = "over", !.reh[r] = "none"]
         /\ pc' = r

\* The client closes or resets the connection.
Client ==
    /\ Idle
    /\ \/ s.client = "open" /\ s' = [s EXCEPT !.client = "closed"]
       \/ s.client # "reset" /\ s' = [s EXCEPT !.client = "reset"]
    /\ UNCHANGED pc

Handler == \/ HandlerSubrequest \/ HandlerOutput \/ HandlerReadsFile
           \/ HandlerWaits \/ HandlerStartsUpstream \/ HandlerReturns

Next == /\ \/ Handler \/ RunPosted \/ WriteEvent \/ WriteTimeout \/ ReadEvent
           \/ ShutdownTimeout \/ FileRead \/ UpstreamAnswers \/ Client
        /\ UNCHANGED set

Spec == Init /\ [][Next]_vars

-----------------------------------------------------------------------------
\* The requests that hold a reference to the main request.
Unfinished == {r \in Reqs : s.kind[r] # "none" /\
                            IF r = Main THEN ~s.done[r] ELSE ~s.logged[r]}

\* As long as nothing has failed the counter of references is the number of the
\* requests that are not finished.  None of the conditions arises for which the
\* code logs an alert, unless an upstream request was finalized again
\* (ngx_http_upstream.c, line 4476), which gives back a reference nobody holds.
ReferencesExact ==
    /\ s.alert => s.again > 0
    /\ ~s.error /\ ~s.freed /\ s.weh[Main] # "terminate" => s.count = Cardinality(Unfinished)

\* The memory of the request is not freed while an upstream or a file operation
\* that would use it is under way, unless an upstream request was finalized again.
FreedAlone ==
    s.freed /\ s.again = 0 => \A r \in Reqs : ~s.aio[r] /\ s.upstream[r] # "busy"

\* The response in the order of the document: the output of a subrequest stands
\* where it was created.
Document ==
    LET flat[d \in 0 .. MaxSub + 1, r \in Reqs] ==
          IF d = 0 \/ s.kind[r] = "memory" THEN <<>>
          ELSE FlattenSeq([i \in DOMAIN s.doc[r] |->
                 LET e == s.doc[r][i]
                 IN  IF e.request = r THEN <<e>> ELSE flat[d - 1, e.request]])
    IN  flat[MaxSub + 1, Main]

\* What is sent is the beginning of the document, whatever order the
\* subrequests answer in; a request that ends without an error has sent all.
OutputInOrder ==
    /\ IsPrefix(s.sent, Document)
    /\ s.freed /\ ~s.error /\ s.weh[Main] # "terminate" => s.sent = Document

\* A request that is not over waits for something that will come: a file, an
\* upstream or a timer, whatever the client does, unless an upstream request was
\* finalized again.
NeverForgotten ==
    Idle /\ s.again = 0 => s.timer \/ \E r \in Reqs : s.aio[r] \/ s.upstream[r] = "busy"

=============================================================================
