----------------------------- MODULE FileCache -----------------------------
(***************************************************************************)
(* The HTTP file cache (http/ngx_http_file_cache.c) as the upstream module *)
(* drives it (http/ngx_http_upstream.c): a zone of nodes in shared memory, *)
(* kept in a queue by last use, and the files those nodes stand for.       *)
(* Requests of several workers, the cache manager and the cache loader     *)
(* share both.  What happens under the zone's mutex is one step; opening,  *)
(* renaming and unlinking a file are steps of their own, because the mutex *)
(* is released around them.                                                *)
(*                                                                         *)
(* The rbtree of nodes is not separate state: every insertion and deletion *)
(* is paired with one of the queue, and sh->count changes with them, so    *)
(* the nodes of the tree are those of the queue and sh->count its length.  *)
(* Two nodes may have one key, as in the tree.                             *)
(***************************************************************************)
EXTENDS Integers, Sequences, FiniteSets, SequencesExt

CONSTANTS Requests,    \* the requests that are served at one time
          Settings     \* the configurations and environments to look at:
                       \* records of the fields below

VARIABLES set,     \* the setting of this behaviour, which does not change
          node,    \* ngx_http_file_cache_node_t of every piece of the zone's memory
          sh,      \* ngx_http_file_cache_sh_t: queue (head first), size, ...
          disk,    \* the file of every key
          req,     \* ngx_http_cache_t of every request, and where it is
          manager, \* the cache manager
          loader,  \* the cache loader
          now,     \* ngx_current_msec
          started, \* requests so far
          crashes, \* abnormal exits so far
          lost,    \* references of processes that exited abnormally (history)
          raced,   \* sh->size was not kept, see SizeExact (history)
          overrun  \* a lock was ended by another request, see PopulatedOnce (history)

Mains       == set.mains    \* keys of requests
Variant     == set.variant  \* the secondary key that Vary gives a request of key k
NodeN       == set.nodes    \* how many nodes fit into the zone
MinUses     == set.uses     \* values of proxy_cache_min_uses in the locations
LockModes   == set.locks    \* values of proxy_cache_lock in the locations
LockAge     == set.age      \* proxy_cache_lock_age
LockTimeout == set.timeout  \* proxy_cache_lock_timeout
MaxSize     == set.size     \* max_size in blocks; every file takes one block
MinFree     == set.free     \* whether min_free is set; the disk may fill up at any time
Tries       == set.tries    \* tries of a forced expire, which has 20
Failing     == set.failing  \* whether operations on files may fail
ColdStart   == set.cold     \* whether the loader has yet to walk the directory
MaxTime     == set.time     \* bound on the clock
MaxRequests == set.requests \* bound on the requests of a behaviour
MaxCrashes  == set.crashes  \* bound on the processes that exit abnormally

ASSUME FileCacheAssumption ==
    /\ \A s \in Settings :
           /\ {s.nodes, s.age, s.requests, s.tries} \subseteq Nat \ {0}
           /\ {s.free, s.failing} \subseteq BOOLEAN
           /\ {s.timeout, s.size, s.time, s.crashes} \subseteq Nat
           /\ s.uses \subseteq 1..2 /\ s.locks \subseteq BOOLEAN /\ s.cold \in BOOLEAN
           /\ DOMAIN s.variant \subseteq s.mains

shared == <<node, sh, disk>>
history == <<now, started, crashes, lost, raced, overrun>>
state == <<node, sh, disk, req, manager, loader, now, started, crashes, lost, raced, overrun>>
vars == <<set, state>>

Slots == 1..NodeN
None  == 0
Keys  == Mains \cup {Variant[k] : k \in DOMAIN Variant}
Never == -1

\* A node fresh from ngx_slab_calloc_locked().
Zeroed(k) == [key |-> k, count |-> 0, uses |-> 0, exists |-> FALSE, updating |-> FALSE,
              deleting |-> FALSE, error |-> FALSE, fs_size |-> 0, lock_time |-> 0]

Idle == [pc |-> "idle", main |-> Never, key |-> Never, node |-> None, victim |-> None,
         min_uses |-> 1, lock |-> FALSE, cacheable |-> TRUE, scarce |-> FALSE,
         updating |-> FALSE, lock_time |-> 0, lock_timeout |-> 0, wait_time |-> 0,
         error |-> FALSE, file |-> "none", then |-> "lookup"]

Allocated == ToSet(sh.queue)
Free      == Slots \ Allocated
ToHead(q, n) == <<n>> \o SelectSeq(q, LAMBDA m : m # n)
Without(q, n) == SelectSeq(q, LAMBDA m : m # n)

\* A zone just created over a directory with any files, or one that was
\* loaded from an empty directory.
Init ==
    /\ set \in Settings
    /\ node = [n \in Slots |-> Zeroed(Never)]
    /\ sh = [queue |-> <<>>, size |-> 0, watermark |-> NodeN + 1, cold |-> ColdStart,
             loading |-> FALSE]
    /\ disk \in [Keys -> IF ColdStart THEN {"none", "fresh"} ELSE {"none"}]
    /\ req = [p \in Requests |-> Idle]
    /\ manager = [pc |-> "sleep", victim |-> None]
    /\ loader = [pc |-> "idle", todo |-> {}, file |-> Never]
    /\ now = 1 /\ started = 0 /\ crashes = 0
    /\ lost = [n \in Slots |-> 0]
    /\ raced = FALSE /\ overrun = FALSE

-----------------------------------------------------------------------------
(* ngx_http_file_cache_exists() *)

\* How a request goes on: ngx_http_file_cache_open() looks at the result,
\* ngx_http_file_cache_create() and _update_variant() only at NGX_ERROR.
Resume(c, rc) ==
    CASE c.then = "body"  -> [c EXCEPT !.pc = "body"]
      [] rc = "error"     -> [c EXCEPT !.pc = "send"]
      [] rc = "file"      -> [c EXCEPT !.pc = "file", !.scarce = FALSE]
      [] rc = "absent"    -> [c EXCEPT !.pc = "lock"]
      [] rc = "declined"  -> [c EXCEPT !.pc = "declined"]
      [] rc = "again"     -> [c EXCEPT !.pc = "fetch", !.cacheable = FALSE]

Renewed(f) == [f EXCEPT !.error = FALSE, !.exists = FALSE, !.fs_size = 0]

\* The node is there, or the request holds it already.
ExistsFound(p) ==
    LET c == req[p] IN
    /\ c.pc = "open"
    /\ \E n \in IF c.node # None THEN {c.node}
                ELSE {m \in Allocated : node[m].key = c.key}, outdated \in BOOLEAN :
         LET f == IF c.node # None THEN node[n]
                  ELSE [node[n] EXCEPT !.count = @ + 1, !.uses = IF @ < 2 THEN @ + 1 ELSE 2]
             renew == f.error /\ outdated
             rc == CASE renew                                     -> "declined"
                     [] f.error                                   -> "error"
                     [] ~f.error /\ f.exists                      -> "file"
                     [] ~f.error /\ ~f.exists /\ f.uses >= c.min_uses -> "absent"
                     [] OTHER                                     -> "again"
         IN /\ outdated => f.error
            /\ node' = [node EXCEPT ![n] = IF renew THEN Renewed(f) ELSE f]
            /\ sh' = [sh EXCEPT !.queue = ToHead(@, n)]
            /\ req' = [req EXCEPT ![p] = Resume([c EXCEPT !.node = n, !.error = f.error /\ ~renew], rc)]
            /\ raced' = (raced \/ (c.node = None /\ f.deleting) \/ (renew /\ f.fs_size # 0))
    /\ UNCHANGED <<disk, manager, loader, now, started, crashes, lost, overrun>>

\* Having evicted an entry, the request does not look its key up again.
MayInsert(c) ==
    \/ c.pc = "open" /\ \A m \in Allocated : node[m].key # c.key
    \/ c.pc = "again"

\* There is memory for a new node, at once or after a forced expire.
ExistsNew(p) ==
    LET c == req[p] IN
    /\ c.node = None
    /\ MayInsert(c)
    /\ \E n \in Free :
         /\ n = CHOOSE m \in Free : TRUE
         /\ node' = [node EXCEPT ![n] = [Zeroed(c.key) EXCEPT !.uses = 1, !.count = 1]]
         /\ sh' = [sh EXCEPT !.queue = <<n>> \o @]
         /\ req' = [req EXCEPT ![p] = Resume([c EXCEPT !.node = n, !.error = FALSE], "declined")]
    /\ UNCHANGED <<disk, manager, loader, history>>

\* ngx_http_file_cache_set_watermark()
Watermark == Len(sh.queue) - Len(sh.queue) \div 8

\* The zone is full: the mutex is released for a forced expire.
ExistsFull(p) ==
    LET c == req[p] IN
    /\ c.pc = "open" /\ c.node = None
    /\ Free = {} /\ \A m \in Allocated : node[m].key # c.key
    /\ sh' = [sh EXCEPT !.watermark = Watermark]
    /\ req' = [req EXCEPT ![p].pc = "evict"]
    /\ UNCHANGED <<node, disk, manager, loader, history>>

\* "could not allocate node": the request is finalized and holds nothing.
ExistsFails(p) ==
    /\ req[p].pc = "again"
    /\ Free = {}
    /\ req' = [req EXCEPT ![p] = Idle]
    /\ UNCHANGED <<shared, manager, loader, history>>

-----------------------------------------------------------------------------
(* ngx_http_file_cache_forced_expire(), _expire() and _delete() *)

InUse(n) == node[n].count > 0 /\ ~node[n].deleting

\* Variant: the first entry in use ends the search.
SkippedNone(q) == 0

\* How many entries at the end of the queue are passed over: each is moved to
\* the head, until every entry was seen or the tries are used up.
Skipped(q) ==
    CHOOSE k \in 0..Len(q) :
      /\ k <= Tries
      /\ \A i \in 1..k : InUse(q[Len(q) + 1 - i])
      /\ k < Len(q) /\ k < Tries => ~InUse(q[Len(q) - k])

Rotated(q, k) == SubSeq(q, Len(q) - k + 1, Len(q)) \o SubSeq(q, 1, Len(q) - k)

\* The entry a forced expire deletes, if it comes to one.
Victims(q) ==
    LET k == Skipped(q) IN
    {q[i] : i \in {j \in 1..Len(q) : j = Len(q) - k /\ k < Tries /\ node[q[j]].count = 0}}

\* The entry stands for a file: it is held, and the mutex released.
DeleteStarts(n, q) ==
    /\ node' = [node EXCEPT ![n].count = @ + 1, ![n].deleting = TRUE]
    /\ sh' = [sh EXCEPT !.queue = q, !.size = @ - node[n].fs_size]

\* The entry has no file: it goes at once.
DeleteEmpty(n, q) ==
    /\ node' = [node EXCEPT ![n] = Zeroed(Never)]
    /\ sh' = [sh EXCEPT !.queue = Without(q, n)]

\* Variant: the entry goes even if a request took it meanwhile.
DeleteEndsAnyway(n) ==
    /\ node' = [node EXCEPT ![n] = Zeroed(Never)]
    /\ sh' = [sh EXCEPT !.queue = Without(@, n)]

\* The file is gone and the mutex held again; a request may have taken the
\* entry meanwhile, and then it stays.
DeleteEnds(n) ==
    IF node[n].count = 1
    THEN /\ node' = [node EXCEPT ![n] = Zeroed(Never)]
         /\ sh' = [sh EXCEPT !.queue = Without(@, n)]
    ELSE /\ node' = [node EXCEPT ![n].count = @ - 1, ![n].deleting = FALSE]
         /\ UNCHANGED sh

\* A request that found the zone full evicts the entry used longest ago.
Evict(p) ==
    LET q == Rotated(sh.queue, Skipped(sh.queue)) IN
    /\ req[p].pc = "evict"
    /\ \/ /\ Victims(sh.queue) = {}
          /\ sh' = [sh EXCEPT !.queue = q]
          /\ req' = [req EXCEPT ![p].pc = "again"]
          /\ UNCHANGED node
       \/ \E n \in Victims(sh.queue) :
            IF node[n].exists
            THEN DeleteStarts(n, q) /\ req' = [req EXCEPT ![p].pc = "unlink", ![p].victim = n]
            ELSE DeleteEmpty(n, q) /\ req' = [req EXCEPT ![p].pc = "again"]
    /\ UNCHANGED <<disk, manager, loader, history>>

\* A file that cannot be deleted is left where it is.
Unlink(k) ==
    \/ disk' = [disk EXCEPT ![k] = "none"]
    \/ Failing /\ UNCHANGED disk

EvictUnlinks(p) ==
    /\ req[p].pc = "unlink"
    /\ Unlink(node[req[p].victim].key)
    /\ req' = [req EXCEPT ![p].pc = "unlinked"]
    /\ UNCHANGED <<node, sh, manager, loader, history>>

EvictEnds(p) ==
    /\ req[p].pc = "unlinked"
    /\ DeleteEnds(req[p].victim)
    /\ req' = [req EXCEPT ![p].pc = "again", ![p].victim = None]
    /\ UNCHANGED <<disk, manager, loader, history>>

-----------------------------------------------------------------------------
(* ngx_http_file_cache_manager() *)

\* One turn of ngx_http_file_cache_expire(): the entry used longest ago has
\* been inactive for too long.  A pass may end after any turn, and another
\* begin, so a pass is as many steps as it has turns.
Expire ==
    LET n == Last(sh.queue) IN
    /\ manager.pc = "sleep" /\ sh.queue # <<>> /\ ~node[n].deleting
    /\ CASE node[n].count = 0 /\ node[n].exists ->
              DeleteStarts(n, sh.queue) /\ manager' = [pc |-> "unlink", victim |-> n]
         [] node[n].count = 0 /\ ~node[n].exists ->
              DeleteEmpty(n, sh.queue) /\ UNCHANGED manager
         [] OTHER ->
              sh' = [sh EXCEPT !.queue = ToHead(@, n)] /\ UNCHANGED <<node, manager>>
    /\ UNCHANGED <<disk, req, loader, history>>

\* The zone takes too much disk, its memory was used up before, or the disk is
\* nearly full.
OverLimit == sh.size >= MaxSize \/ Len(sh.queue) >= sh.watermark \/ MinFree

ManagerChecks ==
    /\ manager.pc = "sleep" /\ OverLimit
    /\ manager' = [manager EXCEPT !.pc = "forced"]
    /\ UNCHANGED <<shared, req, loader, history>>

ManagerForces ==
    LET q == Rotated(sh.queue, Skipped(sh.queue)) IN
    /\ manager.pc = "forced"
    /\ \/ /\ Victims(sh.queue) = {}
          /\ sh' = [sh EXCEPT !.queue = q]
          /\ manager' = [manager EXCEPT !.pc = "sleep"]
          /\ UNCHANGED node
       \/ \E n \in Victims(sh.queue) :
            IF node[n].exists
            THEN DeleteStarts(n, q) /\ manager' = [pc |-> "unlink", victim |-> n]
            ELSE DeleteEmpty(n, q) /\ manager' = [manager EXCEPT !.pc = "sleep"]
    /\ UNCHANGED <<disk, req, loader, history>>

ManagerUnlinks ==
    /\ manager.pc = "unlink"
    /\ Unlink(node[manager.victim].key)
    /\ manager' = [manager EXCEPT !.pc = "unlinked"]
    /\ UNCHANGED <<node, sh, req, loader, history>>

ManagerDeleteEnds ==
    /\ manager.pc = "unlinked"
    /\ DeleteEnds(manager.victim)
    /\ manager' = [pc |-> "sleep", victim |-> None]
    /\ UNCHANGED <<disk, req, loader, history>>

-----------------------------------------------------------------------------
(* ngx_http_file_cache_loader() *)

LoaderStarts ==
    /\ loader.pc = "idle" /\ sh.cold /\ ~sh.loading
    /\ sh' = [sh EXCEPT !.loading = TRUE]
    /\ loader' = [pc |-> "walk", todo |-> Keys, file |-> Never]
    /\ UNCHANGED <<node, disk, req, manager, history>>

\* ngx_walk_tree() comes to the name of a file, or to where one may have been.
LoaderFinds ==
    /\ loader.pc = "walk"
    /\ \E k \in loader.todo :
         loader' = IF disk[k] = "none"
                   THEN [loader EXCEPT !.todo = @ \ {k}]
                   ELSE [pc |-> "add", todo |-> loader.todo \ {k}, file |-> k]
    /\ UNCHANGED <<shared, req, manager, history>>

\* ngx_http_file_cache_add(), which does not look at the file again: a node that
\* is there already only moves.
LoaderAdds ==
    LET k     == loader.file
        known == {n \in Allocated : node[n].key = k}
        next  == [loader EXCEPT !.pc = "walk", !.file = Never]
    IN
    /\ loader.pc = "add"
    /\ \/ /\ \E n \in known : sh' = [sh EXCEPT !.queue = ToHead(@, n)]
          /\ loader' = next /\ UNCHANGED node
       \/ /\ known = {} /\ Free # {}
          /\ LET n == CHOOSE m \in Free : TRUE IN
             /\ node' = [node EXCEPT ![n] = [Zeroed(k) EXCEPT !.uses = 1, !.exists = TRUE,
                                                             !.fs_size = 1]]
             /\ sh' = [sh EXCEPT !.queue = <<n>> \o @, !.size = @ + 1]
          /\ loader' = next
       \/ /\ known = {} /\ Free = {}
          /\ sh' = [sh EXCEPT !.watermark = Watermark]
          /\ loader' = [loader EXCEPT !.pc = "delete"]
          /\ UNCHANGED node
    /\ UNCHANGED <<disk, req, manager, history>>

\* ngx_http_file_cache_delete_file(): there was no memory for the file's node.
LoaderDeletes ==
    /\ loader.pc = "delete"
    /\ Unlink(loader.file)
    /\ loader' = [loader EXCEPT !.pc = "walk", !.file = Never]
    /\ UNCHANGED <<node, sh, req, manager, history>>

\* The walk is over, or the loader was told to quit (NGX_ABORT).
LoaderEnds ==
    /\ loader.pc = "walk"
    /\ \E cold \in BOOLEAN :
         /\ cold \/ loader.todo = {}
         /\ sh' = [sh EXCEPT !.cold = cold, !.loading = FALSE]
    /\ loader' = [pc |-> "idle", todo |-> {}, file |-> Never]
    /\ UNCHANGED <<node, disk, req, manager, history>>

-----------------------------------------------------------------------------
(* A request: ngx_http_upstream_cache() and ngx_http_file_cache_open() *)

\* A request comes; proxy_cache_bypass sends it upstream at once, and then
\* the entry is only made for a response that is to be stored.
Start(p) ==
    /\ req[p].pc = "idle" /\ started < MaxRequests
    /\ started' = started + 1
    /\ \E k \in Mains, u \in MinUses, l \in LockModes, bypass \in BOOLEAN :
         req' = [req EXCEPT ![p] =
                    [Idle EXCEPT !.pc = IF bypass THEN "fetch" ELSE "open",
                                 !.main = k, !.key = k, !.min_uses = u, !.lock = l,
                                 !.lock_timeout = LockTimeout]]
    /\ UNCHANGED <<shared, manager, loader, now, crashes, lost, raced, overrun>>

\* The entry is new or was renewed: while the zone is cold there may be a file.
Declined(p) ==
    LET c == req[p] IN
    /\ c.pc = "declined"
    /\ req' = [req EXCEPT ![p] =
                  CASE sh.cold                      -> [c EXCEPT !.pc = "file", !.scarce = c.min_uses > 1]
                    [] ~sh.cold /\ c.min_uses > 1 -> [c EXCEPT !.pc = "fetch", !.cacheable = FALSE]
                    [] OTHER                        -> [c EXCEPT !.pc = "lock"]]
    /\ UNCHANGED <<shared, manager, loader, history>>

\* ngx_open_cached_file(); the file may be gone although the entry says not.  Any
\* other failure ends the request.
OpenFile(p) ==
    LET c == req[p] IN
    /\ c.pc = "file"
    /\ \/ /\ disk[c.key] # "none"
          /\ req' = [req EXCEPT ![p].pc = "read", ![p].file = disk[c.key]]
       \/ /\ disk[c.key] = "none"
          /\ req' = [req EXCEPT ![p] = IF c.scarce
                                       THEN [c EXCEPT !.pc = "fetch", !.cacheable = FALSE]
                                       ELSE [c EXCEPT !.pc = "lock"]]
       \/ /\ Failing
          /\ req' = [req EXCEPT ![p].pc = "send"]
    /\ UNCHANGED <<shared, manager, loader, history>>

\* ngx_http_file_cache_read() of a file of another version or key.
ReadUnusable(p) ==
    /\ req[p].pc = "read"
    /\ req' = [req EXCEPT ![p].pc = "fetch", ![p].file = "none"]
    /\ UNCHANGED <<shared, manager, loader, history>>

\* ngx_http_file_cache_reopen(): the file is of another variant.
ReadReopens(p) ==
    LET c == req[p] IN
    /\ c.pc = "read" /\ c.key = c.main /\ c.main \in DOMAIN Variant
    /\ node' = [node EXCEPT ![c.node].count = @ - 1]
    /\ req' = [req EXCEPT ![p] = [c EXCEPT !.pc = "open", !.node = None, !.key = Variant[c.main],
                                          !.file = "none", !.scarce = FALSE]]
    /\ UNCHANGED <<disk, sh, manager, loader, history>>

\* Variant: the file is counted although the entry knows it.
LearnsAgain(c) == sh.cold

Learns(c) == sh.cold /\ ~node[c.node].exists

\* The file will do; while the zone is cold the entry learns of it.
Read(p) ==
    LET c == req[p] IN
    /\ c.pc = "read"
    /\ node' = IF Learns(c)
               THEN [node EXCEPT ![c.node].uses = 1, ![c.node].exists = TRUE, ![c.node].fs_size = 1]
               ELSE node
    /\ sh' = IF Learns(c) THEN [sh EXCEPT !.size = @ + 1] ELSE sh
    /\ req' = [req EXCEPT ![p] = IF c.file = "stale" THEN [c EXCEPT !.pc = "stale"]
                                 ELSE [c EXCEPT !.pc = "send", !.file = "none"]]
    /\ UNCHANGED <<disk, manager, loader, history>>

\* The file is out of date: one request is to update it; the others, and the
\* one whose background subrequest does, may send what there is.
ReadExpired(p) ==
    LET c == req[p] IN
    /\ c.pc = "stale"
    /\ \E pc \in {"fetch", "send"} :
         IF node[c.node].updating
         THEN req' = [req EXCEPT ![p].pc = pc] /\ UNCHANGED node
         ELSE /\ node' = [node EXCEPT ![c.node].updating = TRUE]
              /\ req' = [req EXCEPT ![p].pc = pc, ![p].updating = TRUE,
                                    ![p].lock_time = node[c.node].lock_time]
    /\ UNCHANGED <<disk, sh, manager, loader, history>>

-----------------------------------------------------------------------------
(* ngx_http_file_cache_lock() and _lock_wait() *)

LockHeld(f) == f.updating /\ f.lock_time > now

Lock(p) ==
    LET c == req[p]
        n == c.node
    IN
    /\ c.pc = "lock"
    /\ \/ /\ ~c.lock
          /\ req' = [req EXCEPT ![p].pc = "fetch"]
          /\ UNCHANGED node
       \/ /\ c.lock /\ ~LockHeld(node[n])
          /\ now + LockAge <= MaxTime
          /\ node' = [node EXCEPT ![n].updating = TRUE, ![n].lock_time = now + LockAge]
          /\ req' = [req EXCEPT ![p].pc = "fetch", ![p].updating = TRUE,
                                ![p].lock_time = now + LockAge]
       \/ /\ c.lock /\ LockHeld(node[n]) /\ c.lock_timeout = 0
          /\ req' = [req EXCEPT ![p].pc = "fetch", ![p].cacheable = FALSE]
          /\ UNCHANGED node
       \/ /\ c.lock /\ LockHeld(node[n]) /\ c.lock_timeout > 0
          /\ now + LockTimeout <= MaxTime
          /\ req' = [req EXCEPT ![p].pc = "wait",
                                ![p].wait_time = IF @ = 0 THEN now + c.lock_timeout ELSE @]
          /\ UNCHANGED node
    /\ UNCHANGED <<disk, sh, manager, loader, history>>

\* The timer of the request that waits: it goes on when it waited for too
\* long, when the element was populated, and when the lock is too old.
LockWait(p) ==
    LET c == req[p] IN
    /\ c.pc = "wait"
    /\ \/ /\ c.wait_time <= now
          /\ req' = [req EXCEPT ![p].pc = "open", ![p].lock_timeout = 0]
       \/ /\ c.wait_time > now /\ ~LockHeld(node[c.node])
          /\ req' = [req EXCEPT ![p].pc = "open"]
    /\ UNCHANGED <<shared, manager, loader, history>>

-----------------------------------------------------------------------------
(* What becomes of the response *)

\* updating is reset although the lock is another request's.
EndsLockOfOther(p) ==
    \E q \in Requests \ {p} : /\ req[q].node = req[p].node /\ req[q].updating
                              /\ req[q].lock_time = node[req[p].node].lock_time

\* The header of a response that will be stored: a request that bypassed the
\* cache makes its entry now (ngx_http_file_cache_create()); one that came to
\* a secondary key the response does not vary by goes back to the main key
\* (ngx_http_file_cache_update_variant()).
Header(p) ==
    LET c == req[p] IN
    /\ c.pc = "fetch" /\ c.cacheable
    /\ \/ /\ c.node = None
          /\ req' = [req EXCEPT ![p].pc = "open", ![p].then = "body"]
          /\ UNCHANGED node
       \/ /\ c.node # None
          /\ req' = [req EXCEPT ![p].pc = "body"]
          /\ UNCHANGED node
       \/ /\ c.node # None /\ c.key # c.main
          /\ node' = [node EXCEPT ![c.node].count = @ - 1, ![c.node].updating = FALSE]
          /\ req' = [req EXCEPT ![p].pc = "open", ![p].then = "body", ![p].node = None,
                                ![p].key = c.main]
    /\ overrun' = (overrun \/ (c.node # None /\ req'[p].node = None /\ EndsLockOfOther(p)))
    /\ UNCHANGED <<disk, sh, manager, loader, now, started, crashes, lost, raced>>

\* ngx_http_file_cache_update(): the temporary file takes the file's place, though
\* the size of it may not be had ...
Store(p) ==
    LET c == req[p] IN
    /\ c.pc = "body"
    /\ \/ /\ disk' = [disk EXCEPT ![c.key] = "fresh"]
          /\ \E pc \in {"stored"} \cup (IF Failing THEN {"unstored"} ELSE {}) :
               req' = [req EXCEPT ![p].pc = pc]
       \/ /\ req' = [req EXCEPT ![p].pc = "unstored"]
          /\ UNCHANGED disk
    /\ UNCHANGED <<node, sh, manager, loader, history>>

\* Variant: the blocks of the old file stay counted.
UpdatedKeepsOld(p) ==
    LET c == req[p]
        fs_size == IF c.pc = "stored" THEN 1 ELSE 0 IN
    /\ node' = [node EXCEPT ![c.node] =
                  [@ EXCEPT !.count = @ - 1, !.error = FALSE, !.updating = FALSE,
                            !.exists = @ \/ c.pc = "stored", !.fs_size = fs_size]]
    /\ sh' = [sh EXCEPT !.size = @ + fs_size]

\* ... and the entry is brought up to date.
Updated(p) ==
    LET c == req[p]
        fs_size == IF c.pc = "stored" THEN 1 ELSE 0 IN
    /\ node' = [node EXCEPT ![c.node] =
                  [@ EXCEPT !.count = @ - 1, !.error = FALSE, !.updating = FALSE,
                            !.exists = @ \/ c.pc = "stored", !.fs_size = fs_size]]
    /\ sh' = [sh EXCEPT !.size = @ + fs_size - node[c.node].fs_size]

Update(p) ==
    /\ req[p].pc \in {"stored", "unstored"}
    /\ Updated(p)
    /\ req' = [req EXCEPT ![p] = Idle]
    /\ overrun' = (overrun \/ EndsLockOfOther(p))
    /\ UNCHANGED <<disk, manager, loader, now, started, crashes, lost, raced>>

\* Variant: updating is reset although the lock was passed on.
ReleasedAnyLock(c, error) ==
    LET f == [node[c.node] EXCEPT
                !.count    = @ - 1,
                !.updating = @ /\ ~c.updating,
                !.error    = @ \/ error]
    IN IF ~error /\ ~f.exists /\ f.count = 0 /\ c.min_uses = 1
       THEN DeleteEmpty(c.node, sh.queue)
       ELSE node' = [node EXCEPT ![c.node] = f] /\ UNCHANGED sh

\* Variant: an entry without a file goes although others use it.
ReleasedInUse(c, error) ==
    LET f == [node[c.node] EXCEPT
                !.count    = @ - 1,
                !.updating = @ /\ ~(c.updating /\ node[c.node].lock_time = c.lock_time),
                !.error    = @ \/ error]
    IN IF ~error /\ ~f.exists /\ c.min_uses = 1
       THEN DeleteEmpty(c.node, sh.queue)
       ELSE node' = [node EXCEPT ![c.node] = f] /\ UNCHANGED sh

\* ngx_http_file_cache_free(), "error" being whether c->error is set.
Released(c, error) ==
    LET f == [node[c.node] EXCEPT
                !.count    = @ - 1,
                !.updating = @ /\ ~(c.updating /\ node[c.node].lock_time = c.lock_time),
                !.error    = @ \/ error]
    IN IF ~error /\ ~f.exists /\ f.count = 0 /\ c.min_uses = 1
       THEN DeleteEmpty(c.node, sh.queue)
       ELSE node' = [node EXCEPT ![c.node] = f] /\ UNCHANGED sh

\* A request is finalized without a stored response: it sent the file, the
\* response is not cacheable or broke off, the upstream failed, the client
\* went away.  The error of a response that may be cached is kept in the entry.
Release(p) ==
    LET c == req[p] IN
    /\ c.pc \in {"fetch", "body", "send"}
    /\ \E error \in {c.error} \cup (IF c.pc = "fetch" /\ c.cacheable THEN {TRUE} ELSE {}) :
         IF c.node = None THEN UNCHANGED <<node, sh>> ELSE Released(c, error)
    /\ req' = [req EXCEPT ![p] = Idle]
    /\ UNCHANGED <<disk, manager, loader, history>>

\* ngx_http_file_cache_update_header() after a 304, unless the file is gone or
\* is another one by now; then the request is finalized.
Revalidate(p) ==
    LET c == req[p] IN
    /\ c.pc = "fetch" /\ c.file = "stale" /\ disk[c.key] = "stale"
    /\ disk' = [disk EXCEPT ![c.key] = "fresh"]
    /\ req' = [req EXCEPT ![p].pc = "send"]
    /\ UNCHANGED <<node, sh, manager, loader, history>>

-----------------------------------------------------------------------------
Tick ==
    /\ now < MaxTime
    /\ now' = now + 1
    /\ UNCHANGED <<shared, req, manager, loader, started, crashes, lost, raced, overrun>>

\* A file goes out of date.
Ages ==
    /\ \E k \in Keys : disk[k] = "fresh" /\ disk' = [disk EXCEPT ![k] = "stale"]
    /\ UNCHANGED <<node, sh, req, manager, loader, history>>

Holds(n) == Cardinality({p \in Requests : req[p].node = n})
            + Cardinality({p \in Requests : req[p].victim = n})
            + (IF manager.victim = n THEN 1 ELSE 0)

\* A process exits abnormally, between two uses of the mutex: the entries it
\* held stay held.  The master starts a new manager; a worker's requests are
\* gone; the loader is not started again, and sh->loading stays set.
CrashRequest(p) ==
    /\ req[p].pc # "idle" /\ crashes < MaxCrashes
    /\ crashes' = crashes + 1
    /\ lost' = [n \in Slots |-> lost[n] + (IF req[p].node = n THEN 1 ELSE 0)
                                        + (IF req[p].victim = n THEN 1 ELSE 0)]
    /\ req' = [req EXCEPT ![p] = Idle]
    /\ UNCHANGED <<shared, manager, loader, now, started, raced, overrun>>

CrashManager ==
    /\ manager.victim # None /\ crashes < MaxCrashes
    /\ crashes' = crashes + 1
    /\ lost' = [lost EXCEPT ![manager.victim] = @ + 1]
    /\ manager' = [pc |-> "sleep", victim |-> None]
    /\ UNCHANGED <<shared, req, loader, now, started, raced, overrun>>

CrashLoader ==
    /\ loader.pc # "idle" /\ crashes < MaxCrashes
    /\ crashes' = crashes + 1
    /\ loader' = [pc |-> "idle", todo |-> {}, file |-> Never]
    /\ UNCHANGED <<shared, req, manager, now, started, lost, raced, overrun>>

Manager == Expire \/ ManagerChecks \/ ManagerForces \/ ManagerUnlinks \/ ManagerDeleteEnds

Loader == LoaderStarts \/ LoaderFinds \/ LoaderAdds \/ LoaderDeletes \/ LoaderEnds

Step ==
    \/ Manager \/ Loader \/ Tick \/ Ages \/ CrashManager \/ CrashLoader
    \/ \E p \in Requests :
         \/ Start(p) \/ ExistsFound(p) \/ ExistsNew(p) \/ ExistsFull(p) \/ ExistsFails(p)
         \/ Evict(p) \/ EvictUnlinks(p) \/ EvictEnds(p)
         \/ Declined(p) \/ OpenFile(p)
         \/ ReadUnusable(p) \/ ReadReopens(p) \/ Read(p) \/ ReadExpired(p)
         \/ Lock(p) \/ LockWait(p) \/ Header(p) \/ Store(p) \/ Update(p)
         \/ Release(p) \/ Revalidate(p) \/ CrashRequest(p)

Next == Step /\ UNCHANGED set

Spec == Init /\ [][Next]_vars

-----------------------------------------------------------------------------
\* An entry's count is the number of requests and deletions that hold it, and
\* of those that were lost with their process; so no entry is freed while a
\* request or a deletion between its two uses of the mutex points to it, and
\* what a request holds is the entry of its key.  (count++ in _exists() and
\* _delete(), count-- in _free(), _update(), _reopen(), _update_variant().)
CountExact ==
    /\ \A n \in Slots : node[n].count = Holds(n) + lost[n]
    /\ \A n \in Free : node[n].count = 0
    /\ \A p \in Requests : req[p].node # None => node[req[p].node].key = req[p].key

\* sh->size, by which the manager keeps to max_size, is the sum of the blocks
\* of the entries whose deletion has not begun.  It holds until a request
\* takes an entry that is being deleted, whose blocks were given back already
\* and are given back again, or an entry whose cached error is outdated is
\* renewed while it still has a file, whose blocks are then forgotten.
SizeExact ==
    ~raced => sh.size = Cardinality({n \in Allocated : node[n].fs_size = 1 /\ ~node[n].deleting})

Populates(p, n) ==
    /\ req[p].node = n /\ req[p].then = "lookup"
    /\ req[p].updating /\ req[p].lock_time > now

\* proxy_cache_lock: one request at a time populates an element, until its
\* lock is lock_age old.  It holds until ngx_http_file_cache_update() or
\* _update_variant(), which reset the flag whoever set it, end the lock of
\* another request.
PopulatedOnce ==
    ~overrun => \A n \in Slots : \A p, q \in Requests :
                   Populates(p, n) /\ Populates(q, n) => p = q

\* A forced expire ended, and no entry went or is going.
GaveUp == /\ \/ \E p \in Requests : req[p].pc = "evict" /\ req'[p].pc = "again"
             \/ manager.pc = "forced" /\ manager'.pc = "sleep"
          /\ ToSet(sh'.queue) = Allocated

\* The entries used longest ago, as many as a forced expire has tries, are in use.
TriesUsedUp ==
    /\ Len(sh.queue) >= Tries
    /\ \A i \in 1..Tries : InUse(sh.queue[Len(sh.queue) + 1 - i])

\* A forced expire passes over the entries that are in use, wherever they are
\* in the queue: it gives up only if all are in use, if one is being deleted, or
\* if its tries (20 in the code) are used up by entries in use, even with one in
\* front of them that could go.
EvictionFinds ==
    [][GaveUp => \/ \A n \in Allocated : node[n].count > 0
                 \/ \E n \in Allocated : node[n].deleting
                 \/ TriesUsedUp]_vars

\* "abnormally exited workers may leave locked cache entries, and although it
\* may be safe to remove them completely, we prefer to just move them to the
\* top of the inactive queue": what a process that is gone left behind does
\* not keep a forced expire from the entries it could delete.
AbandonedSkipped ==
    [][GaveUp => \/ \A n \in Allocated : node[n].count > 0
                 \/ \E n \in Allocated : node[n].deleting /\ node[n].count > lost[n]]_vars

=============================================================================
