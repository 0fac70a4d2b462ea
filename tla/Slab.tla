-------------------------------- MODULE Slab --------------------------------
(***************************************************************************)
(* The allocator of shared memory zones (core/ngx_slab.c).  A zone is an   *)
(* array of pages.  Runs of free pages are kept in a list; a page may be   *)
(* cut into chunks of one size, and the pages of a size that have a free   *)
(* chunk are kept in the list of its slot.  Every operation runs under the *)
(* mutex of the zone and is one step.                                      *)
(*                                                                         *)
(* The descriptors of the pages, with the links of the lists, are modelled *)
(* field by field, since a descriptor's fields mean different things for   *)
(* different pages: "prev" holds a link and the type of the page, "slab"   *)
(* a number of pages or a bitmap.  A bitmap is the set of the chunks in    *)
(* use.  Calls of ngx_slab_free() with a pointer that was not allocated,   *)
(* which it refuses, are left out.                                         *)
(***************************************************************************)
EXTENDS Integers, FiniteSets, FiniteSetsExt, Bags

CONSTANTS N,        \* pages of the zone
          Classes,  \* the slots
          Kind,     \* "small", "exact" or "big" for each slot
          Chunks,   \* ngx_pagesize >> shift
          Bitmap,   \* chunks that the bitmap takes, 0 unless small
          MaxRun,   \* largest allocation in pages
          Free,     \* the head of the list of free pages, pool->free
          NULL      \* no page

Pages == 0 .. N - 1

\* The heads of the lists.
Heads == {Free} \cup Classes

ASSUME SlabAssumption ==
    /\ N \in Nat \ {0} /\ MaxRun \in 1 .. N
    /\ Free \notin Classes \cup Pages /\ NULL \notin Classes \cup Pages \cup {Free}
    /\ Classes \cap Pages = {}
    /\ Kind \in [Classes -> {"small", "exact", "big"}]
    /\ Chunks \in [Classes -> Nat] /\ Bitmap \in [Classes -> Nat]
    /\ \A c \in Classes : /\ Bitmap[c] > 0 <=> Kind[c] = "small"
                          /\ Chunks[c] - Bitmap[c] >= 2

VARIABLES pool,  \* the descriptors: slab, next, prev; pfree; stats
          held   \* the bag of what the callers have allocated and not freed

vars == <<pool, held>>

-----------------------------------------------------------------------------
(* Descriptors.  A slab field is a number of pages, with or without
   NGX_SLAB_PAGE_START, or NGX_SLAB_PAGE_BUSY, or the slot and the bitmap of
   a page cut into chunks. *)

Number(n)     == [is |-> "number", n |-> n, class |-> NULL, used |-> {}]
Start(n)      == [Number(n) EXCEPT !.is = "start"]
BUSY          == [Number(0) EXCEPT !.is = "busy"]
Bits(c, used) == [is |-> "bits", n |-> 0, class |-> c, used |-> used]

Link(to, type) == [to |-> to, type |-> type]

Reserved(c) == 0 .. Bitmap[c] - 1
All(c)      == 0 .. Chunks[c] - 1

\* ngx_slab_init()
Init ==
    /\ pool = [slab |-> [p \in Pages |-> Number(IF p = 0 THEN N ELSE 0)],
               next |-> [p \in Pages \cup Heads |->
                           IF p = Free THEN 0
                           ELSE IF p = 0 THEN Free
                           ELSE IF p \in Classes THEN p ELSE NULL],
               prev |-> [p \in Pages \cup Heads |->
                           IF p = 0 THEN Link(Free, "page") ELSE Link(NULL, "page")],
               pfree |-> N,
               total |-> [c \in Classes |-> 0],
               used  |-> [c \in Classes |-> 0]]
    /\ held = EmptyBag

\* The three assignments with which a page leaves its list.
Unlink(pl, p) ==
    LET prev == pl.prev[p].to
        next == pl.next[p]
    IN  [pl EXCEPT !.next[prev] = next, !.prev[next] = pl.prev[p]]

\* A page becomes the first of a slot's list.
LinkFirst(pl, p, c) ==
    LET first == pl.next[c]
    IN  [pl EXCEPT !.next[p] = first, !.next[c] = p,
                   !.prev[p] = Link(c, Kind[c]), !.prev[first] = Link(p, Kind[c])]

-----------------------------------------------------------------------------
(* ngx_slab_alloc_pages() *)

\* The k-th page of the list of free runs.
NthFree(pl, k) ==
    LET nth[i \in 0 .. k] == IF i = 0 THEN pl.next[Free] ELSE pl.next[nth[i - 1]]
    IN  nth[k]

\* The first run that is long enough, or the head of the list.
FirstFit(pl, n) ==
    LET ends(k) == \/ NthFree(pl, k) = Free
                   \/ pl.slab[NthFree(pl, k)].n >= n
    IN  NthFree(pl, CHOOSE k \in 0 .. N : ends(k) /\ \A j \in 0 .. k - 1 : ~ends(j))

\* Variant: the last page of what remains is set after its first page.
CutTailLast(pl, page, n) ==
    LET rest == page + n
        last == page + pl.slab[page].n - 1
        prev == pl.prev[page].to
        next == pl.next[page]
    IN  [pl EXCEPT !.slab[rest] = Number(pl.slab[page].n - n),
                   !.next[rest] = next, !.prev[rest] = pl.prev[page],
                   !.next[prev] = rest, !.prev[next] = Link(rest, "page"),
                   !.prev[last] = Link(rest, "page")]

\* The pages behind the first n of a longer run take its place in the list.
Cut(pl, page, n) ==
    LET rest == page + n
        last == page + pl.slab[page].n - 1
        prev == pl.prev[page].to
        next == pl.next[page]
    IN  [pl EXCEPT !.prev[last] = Link(rest, "page"),
                   !.slab[rest] = Number(pl.slab[page].n - n),
                   !.next[rest] = next, !.prev[rest] = pl.prev[page],
                   !.next[prev] = rest, !.prev[next] = Link(rest, "page")]

\* The pool after n pages from page on were allocated.
AllocPages(pl, page, n) ==
    LET taken == IF pl.slab[page].n > n THEN Cut(pl, page, n) ELSE Unlink(pl, page)
        busy  == page .. page + n - 1
    IN  [taken EXCEPT
           !.slab  = [p \in Pages |-> IF p = page THEN Start(n)
                                      ELSE IF p \in busy THEN BUSY ELSE @[p]],
           !.next  = [p \in DOMAIN @ |-> IF p \in busy THEN NULL ELSE @[p]],
           !.prev  = [p \in DOMAIN @ |-> IF p \in busy THEN Link(NULL, "page") ELSE @[p]],
           !.pfree = @ - n]

-----------------------------------------------------------------------------
(* ngx_slab_free_pages() *)

\* The run that starts behind the page is joined to it.
JoinNext(pl, page) ==
    LET join == page + pl.slab[page].n
    IN  IF join < N /\ pl.prev[join].type = "page" /\ pl.next[join] # NULL
        THEN [Unlink([pl EXCEPT !.slab[page].n = @ + pl.slab[join].n], join) EXCEPT
                !.slab[join] = Number(0),
                !.next[join] = NULL,
                !.prev[join] = Link(NULL, "page")]
        ELSE pl

\* The run that ends before the page, or the page.
Before(pl, page) ==
    LET last == page - 1
        join == IF pl.slab[last] = Number(0) THEN pl.prev[last].to ELSE last
    IN  IF page > 0 /\ pl.prev[last].type = "page" /\ pl.next[join] # NULL
        THEN join
        ELSE page

\* The page is joined to the run before it.
JoinPrevious(pl, page, join) ==
    IF join = page
    THEN pl
    ELSE [Unlink([pl EXCEPT !.slab[join].n = @ + pl.slab[page].n], join) EXCEPT
            !.slab[page] = Number(0),
            !.next[page] = NULL,
            !.prev[page] = Link(NULL, "page")]

\* The run becomes the first of the list; its last page leads to its first.
Insert(pl, page) ==
    LET last   == page + pl.slab[page].n - 1
        marked == IF last > page THEN [pl EXCEPT !.prev[last] = Link(page, "page")]
                                 ELSE pl
        first  == pl.next[Free]
    IN  [marked EXCEPT !.prev[page] = Link(Free, "page"), !.next[page] = first,
                       !.prev[first] = Link(page, "page"), !.next[Free] = page]

FreePages(pl, page, n) ==
    LET cleared  == [pl EXCEPT
                       !.pfree = @ + n,
                       !.slab  = [p \in Pages |-> IF p = page THEN Number(n)
                                                  ELSE IF p \in page + 1 .. page + n - 1
                                                       THEN Number(0) ELSE @[p]],
                       !.next  = [p \in DOMAIN @ |->
                                    IF p \in page + 1 .. page + n - 1 THEN NULL ELSE @[p]],
                       !.prev  = [p \in DOMAIN @ |->
                                    IF p \in page + 1 .. page + n - 1
                                    THEN Link(NULL, "page") ELSE @[p]]]
        unlinked == IF cleared.next[page] # NULL THEN Unlink(cleared, page) ELSE cleared
        forward  == JoinNext(unlinked, page)
        join     == Before(forward, page)
    IN  Insert(JoinPrevious(forward, page, join), join)

-----------------------------------------------------------------------------
(* ngx_slab_alloc_locked() *)

Run(page, n)         == [page |-> page, n |-> n, class |-> NULL, chunk |-> 0]
Chunk(page, c, i)    == [page |-> page, n |-> 1, class |-> c, chunk |-> i]

\* An allocation of more than half a page takes whole pages.
AllocRun(n) ==
    LET page == FirstFit(pool, n)
    IN  /\ page # Free
        /\ pool' = AllocPages(pool, page, n)
        /\ held' = held (+) SetToBag({Run(page, n)})

\* The first page of the slot has a free chunk.  A page without one leaves
\* the list.
AllocChunk(c) ==
    LET page  == pool.next[c]
        free  == All(c) \ pool.slab[page].used
        i     == Min(free)
        taken == [pool EXCEPT !.slab[page].used = @ \cup {i}, !.used[c] = @ + 1]
    IN  /\ page # c
        /\ held' = held (+) SetToBag({Chunk(page, c, i)})
        /\ pool' = IF free = {i}
                   THEN [Unlink(taken, page) EXCEPT !.next[page] = NULL,
                                                    !.prev[page] = Link(NULL, Kind[c])]
                   ELSE taken

\* Variant: the first chunk of a new page is not marked.
AllocFreshUnmarked(c) ==
    LET page  == FirstFit(pool, 1)
        taken == AllocPages(pool, page, 1)
    IN  /\ pool.next[c] = c /\ page # Free
        /\ held' = held (+) SetToBag({Chunk(page, c, Bitmap[c])})
        /\ pool' = [taken EXCEPT !.slab[page] = Bits(c, Reserved(c)),
                                 !.next[page] = c,
                                 !.prev[page] = Link(c, Kind[c]),
                                 !.next[c] = page,
                                 !.total[c] = @ + Chunks[c] - Bitmap[c],
                                 !.used[c] = @ + 1]

\* The slot has no page: one is cut into chunks, of which the bitmap takes the
\* first ones and the caller the next.
AllocFresh(c) ==
    LET page  == FirstFit(pool, 1)
        taken == AllocPages(pool, page, 1)
        used  == 0 .. Bitmap[c]
    IN  /\ pool.next[c] = c /\ page # Free
        /\ held' = held (+) SetToBag({Chunk(page, c, Bitmap[c])})
        /\ pool' = [taken EXCEPT !.slab[page] = Bits(c, used),
                                 !.next[page] = c,
                                 !.prev[page] = Link(c, Kind[c]),
                                 !.next[c] = page,
                                 !.total[c] = @ + Chunks[c] - Bitmap[c],
                                 !.used[c] = @ + 1]

-----------------------------------------------------------------------------
(* ngx_slab_free_locked() *)

FreeRun(a) ==
    /\ a.class = NULL
    /\ pool' = FreePages(pool, a.page, pool.slab[a.page].n)
    /\ held' = held (-) SetToBag({a})

\* Whether a page has no free chunk: the whole bitmap is looked at if it is the
\* slab field, the link otherwise.
Full(pl, page, c) ==
    IF Kind[c] = "exact" THEN pl.slab[page].used = All(c) ELSE pl.next[page] = NULL

\* Variant: a page that was full stays out of its slot's list.
FreeChunkUnlinked(a) ==
    LET c     == a.class
        freed == [pool EXCEPT !.slab[a.page].used = @ \ {a.chunk}, !.used[c] = @ - 1]
    IN  /\ c # NULL
        /\ held' = held (-) SetToBag({a})
        /\ pool' = IF freed.slab[a.page].used \ Reserved(c) = {}
                   THEN [FreePages(freed, a.page, 1) EXCEPT
                           !.total[c] = @ - (Chunks[c] - Bitmap[c])]
                   ELSE freed

\* A page that was full returns to the list, a page without chunks in use to
\* the free pages.
FreeChunk(a) ==
    LET c      == a.class
        linked == IF Full(pool, a.page, c) THEN LinkFirst(pool, a.page, c) ELSE pool
        freed  == [linked EXCEPT !.slab[a.page].used = @ \ {a.chunk}, !.used[c] = @ - 1]
    IN  /\ c # NULL
        /\ held' = held (-) SetToBag({a})
        /\ pool' = IF freed.slab[a.page].used \ Reserved(c) = {}
                   THEN [FreePages(freed, a.page, 1) EXCEPT
                           !.total[c] = @ - (Chunks[c] - Bitmap[c])]
                   ELSE freed

Next ==
    \/ \E n \in 1 .. MaxRun : AllocRun(n)
    \/ \E c \in Classes : AllocChunk(c) \/ AllocFresh(c)
    \/ \E a \in BagToSet(held) : FreeRun(a) \/ FreeChunk(a)

Spec == Init /\ [][Next]_vars

-----------------------------------------------------------------------------
\* The pages of an allocation.
Span(a) == a.page .. a.page + a.n - 1

\* The members of the list with a given head, which the next links lead through.
Listed(head) ==
    LET nth[i \in 0 .. N] == IF i = 0 THEN pool.next[head] ELSE
                             IF nth[i - 1] \in Pages THEN pool.next[nth[i - 1]] ELSE head
    IN  {nth[i] : i \in 0 .. N} \ {head}

\* Every member of a list is linked from both sides and the list ends at its head.
Linked(head, members) ==
    /\ members \subseteq Pages
    /\ \A p \in members :
         /\ pool.next[p] \in members \cup {head}
         /\ pool.prev[p].to \in members \cup {head}
         /\ pool.next[pool.prev[p].to] = p
         /\ pool.next[p] # head => pool.prev[pool.next[p]].to = p

\* No two allocations share memory: not two chunks, not a chunk and a run of
\* pages, not chunks of two sizes on a page that was cut again too early.
HeldApart ==
    \A a, b \in BagToSet(held) :
      /\ CopiesIn(a, held) = 1
      /\ a # b /\ Span(a) \cap Span(b) # {} =>
           a.class # NULL /\ a.class = b.class /\ a.chunk # b.chunk

\* The list of free runs holds exactly the longest runs of pages that nobody
\* has: neighbours are joined however the pages were freed, nothing is lost and
\* nothing is in the list that is in use.  pfree is their number.
FreeRunsExact ==
    LET free   == Pages \ UNION {Span(a) : a \in BagToSet(held)}
        runs   == Listed(Free)
        run(p) == p .. p + pool.slab[p].n - 1
    IN  /\ Linked(Free, runs)
        /\ \A p \in runs :
             /\ pool.slab[p].n > 0
             /\ p - 1 \notin free /\ p + pool.slab[p].n \notin free
        /\ UNION {run(p) : p \in runs} = free
        /\ pool.pfree = Cardinality(free)

\* The list of a slot holds exactly the pages of its size with a chunk that
\* nobody has, the bitmap marks exactly what is held, and the statistics of the
\* slot count the chunks.
SlotsExact ==
    \A c \in Classes :
      LET mine(p)  == {a \in BagToSet(held) : a.page = p /\ a.class = c}
          cut      == {p \in Pages : mine(p) # {}}
          room(p)  == Cardinality(mine(p)) < Chunks[c] - Bitmap[c]
          listed   == Listed(c)
      IN  /\ Linked(c, listed)
          /\ listed = {p \in cut : room(p)}
          /\ \A p \in cut :
               /\ pool.slab[p] = Bits(c, Reserved(c) \cup {a.chunk : a \in mine(p)})
               /\ pool.prev[p].type = Kind[c]
          /\ pool.used[c] = Cardinality({a \in BagToSet(held) : a.class = c})
          /\ pool.total[c] = Cardinality(cut) * (Chunks[c] - Bitmap[c])

=============================================================================
