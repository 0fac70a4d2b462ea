# A TLA+ verification of nginx

nginx is a master process, a set of worker processes and, with a cache, a cache
manager and a cache loader. Each is single-threaded and event-driven; they share
memory, listening sockets and directories. This project models the parts in which
several processes, or the handlers of one process, can get in each other's way. Paths
are relative to the nginx sources (`src/core`, `src/event`, `src/http`, `src/os/unix`).

## Inventory

| part | state | operations | what makes it hard | where |
|---|---|---|---|---|
| shared memory mutex | lock word, counter of waiters, semaphore | trylock, lock, unlock, wakeup, force_unlock | lost wake-ups, owners that die, pids used again | `Shmtx` |
| read-write lock | one word | wlock, rlock, unlock, downgrade | the word is read and then changed | `Rwlock` |
| master and process table | table of slots, flags, `live`, termination delay, new binary | signals, reaping, reload, quit, terminate, upgrade | signals that coincide, forks that fail, children that die meanwhile | `ProcessCycle` |
| event loop and accept mutex | who listens, mutex, free connections, accept timers | turn, trylock, accept, want of descriptors | competition, overload, deaths, failing `epoll_ctl()` | `AcceptMutex` |
| connections, epoll, posted events, timers | connection table, free list, queues, flags | get, close, reuse, post, dispatch, expire | stale reports for reused structures | `Connections` |
| HTTP file cache | nodes, queue, size, files | lookup, lock, read, store, free, expire, load | the mutex is released around file operations; abnormal exits | `FileCache` |
| thread pool | task queue, `waiting`, done queue, eventfd | post, run, hand back, notify, drain, destroy | threads against the event loop, edges of epoll, the end of the pool | `ThreadPool` |
| slab allocator | page descriptors, free list, slots | alloc, free, alloc pages, free pages | fields with several meanings, links that must survive cuts and joins | `Slab` |
| HTTP request life cycle | requests of a connection, `c->data`, `count`, `blocked`, posted and postponed requests | subrequest, finalize, terminate, output, events, timeouts | subrequests that answer in any order, operations that outlive the client | `HttpRequest` (in part) |
| cycle and zones, channels, resolver, open file cache, upstream peers, event pipe, limits, HTTP/2 | | | | not modelled yet |
| SSL, UDP, stream, mail, other event methods, filters, parsing, data structures, input and output, Windows | | | | not modelled |

`PROJECT.json` lists all parts with the reason for each that is left out, the lines
every definition stands for, and the hazards with the lines where they bite.

The parts meet as follows. The mutex guards the cache's zone and is the accept mutex;
the models of those two treat a section under the mutex as one step, which is what
`MutexSafe` and `MutexImplemented` establish. It also guards the zones that `Slab` allocates
from. The master that `Shmtx` and `AcceptMutex` let reap dead workers is the one of
`ProcessCycle`. The file operations that block a request in `HttpRequest` are tasks of
`ThreadPool`, of which `HttpRequest` uses only that a task ends. No module composes these.

## Modules, state and actions

**`Shmtx`** (`ngx_shmtx.c`, atomic operations and POSIX semaphores). `lock`, `wait`, `sem`
are the shared words, `pc` the point of a function a process is at. Each access to
shared memory is a step. A test of the word followed by a compare-and-set is one, since
both ways to fail lead to the same place. `Crash` kills a worker at the points of
`CrashAt`; `Reap` is the SIGCHLD handler with `ngx_unlock_mutexes()`. **`Mutex`** is what it
promises: one owner, who may die, and whose mutex is then reclaimed. `ImplementsMutex` maps
the owner to the process at a holding point, or to the dead one whose pid the word has.

**`Rwlock`** (`ngx_rwlock.c`). The word keeps its width (`Width`); reading it and changing it
are separate steps in `rlock`, `unlock` and `downgrade`.

**`ProcessCycle`** (`ngx_process_cycle.c`, `ngx_process.c`). The master blocks its signals
outside `sigsuspend()`, so a turn of its loop is one step, computed by operators named
after the functions. A child is a kind, a state and the commands it has been sent. A
command in a channel and the signal that replaces it are not told apart.

**`AcceptMutex`** (`ngx_event.c`, `ngx_event_accept.c`). A step of a worker has at most one
access to the mutex or to a socket's queue. Connections are counted.

**`Connections`** (`ngx_connection.c`, the epoll module, posted events, timers). One worker. A
handler is any sequence of calls to the modelled functions. A timer may expire at any
time, so keys and their wrap-around are left out. The read handlers that
`ngx_drain_connections()` calls are not any handlers: they close the connection, move it to
lingering close, from which a second call closes it, or keep it open, as those of HTTP/1, HTTP/2 and
the upstream keepalive module do. `ngx_close_listening_sockets()` is left out.

**`FileCache`** (`ngx_http_file_cache.c`, what drives it in `ngx_http_upstream.c`). A section
under the zone's mutex is a step; opening, renaming and unlinking a file, each of which may fail,
are others, and so is the loader's look at a file before its node is added. The
rbtree is not separate state: its nodes are those of the queue, and `sh->count` is the
queue's length by construction. Every file takes one block. Abnormal exits happen
between two uses of the mutex: half-finished changes under it are not modelled. The exit
of a worker is that of one request. `lost`, `raced` and `overrun` are history variables.

**`ThreadPool`** (`ngx_thread_pool.c`, the eventfd of the epoll module). A section under a lock is
a step. Threads may wake for no reason. The eventfd is an edge in epoll's ready list and
whether its counter is 0. **`TaskService`** is what the pool promises: tasks are started in the
order they were posted, run once, and completed in the order they were finished.

**`Slab`** (`ngx_slab.c`). The descriptors are modelled field by field, with the links and the type
that share `prev`; a bitmap is the set of chunks in use. An operation is a step. `held` is the
bag of what callers have, a bag so that one chunk handed out twice shows.

**`HttpRequest`** (`ngx_http_request.c`, `ngx_http_subrequest()`, the copy, postpone and write
filters, the references that upstreams and file operations hold). The worker is one thread, so
functions are operators on the record `s`, and an event is handled to its end. Content
handlers are other modules: any sequence of outputs, file reads, subrequests and an upstream,
within what those modules do. Subrequests are created when the copy filter holds nothing, and
not by background subrequests, which have no output; the main request ends its response with a
buffer of its own; a request that waits, as `auth_request` does, has created the subrequest
first of all; an upstream is started before any output. A subrequest in memory is waited for, as
that of the SSI command `set` is. The socket takes some buffers (`room`) and then none until a write
event. Upstream responses are not cached and are taken in one event, where the event pipe takes
several and keeps the upstream's cleanup and write handlers meanwhile; buffers are at least
`postpone_output` long.

*Finalized again.* A request that is terminated while a file operation is under way keeps the
upstream's write event handler, though the cleanup has given the upstream's reference back. Called
later, the handler finds `c->error` and finalizes the upstream again; the branch "the request was
already finalized" (`ngx_http_upstream.c`, line 4476) gives back a reference that nobody holds. The
field `again` counts these steps, up to `MaxAgain`, and the behaviour goes on after them. Where
`again` is not 0, alerts are logged, memory is freed under a file operation, and a request may wait
for nothing: `ReferencesExact`, `FreedAlone` and `NeverForgotten` except it in their formulas, and
TLC violates each of them without the exception. `OutputInOrder` holds after it too.

`MC*` modules name the instances. Where a run covers several configurations, the variable `set`
is chosen in `Init` from the settings of the `MC` module and never changes. Definitions with
the comment "Variant" are changed forms of the definition after them. They are in no
specification and show that a property notices the change.

## Runs

| run | states | checks |
|---|---|---|
| `shmtx` | 16 thousand | `MutualExclusion`, `WaitersCounted`, `NoLostWakeup`, `SleeperWakes`, `ImplementsMutex` |
| `rwlock` | 43 thousand | `WriterAlone`, `WordCounts`, `Drained` |
| `master` | 238 thousand | `NoOrphans`, `WorkersBounded`, `MasterExitsLast`, `OldProcessesQuit`, `NewProcessesStay`, `TerminateCompletes`, `QuitCompletes`, `WorkersReplenished`, `UpgradeRollsBack` |
| `master_upgrade_exit` | violated | `MasterExitsLast` |
| `master_stranded` | violated | `RequestsServed` |
| `accept` | 94 thousand | `ReleasedBetweenTurns`, `ListensInTurn`, `SharedServed` |
| `connections` | 3.2 million | `ListsExact`, `ReuseFrees`, `ReportsReachTheirSocket` |
| `filecache` | 2.0 million | `CountExact`, `SizeExact`, `PopulatedOnce`, `EvictionFinds` |
| `filecache_abandoned` | violated | `AbandonedSkipped` |
| `threadpool` | 172 thousand | `WaitingExact`, `WakesEnough`, `DestroyedAlone`, `TasksComplete`, `DestroyCompletes`, `ImplementsTaskService` |
| `slab` | 0.8 million | `HeldApart`, `FreeRunsExact`, `SlotsExact` |
| `request` | 4.2 million | `ReferencesExact`, `FreedAlone`, `OutputInOrder`, `NeverForgotten` |

### Properties with exceptions

Some properties hold only outside cases the code does not handle. The exception is part
of the formula, and each case is a hazard in `PROJECT.json`:

- `SizeExact` stops at the first time a request takes an entry that is being deleted, or
  an outdated cached error is renewed while its entry still has a file.
- `EvictionFinds` allows a forced expire to give up at an entry that is being deleted, and when
  its tries are used up by entries in use even if one in front of them could go (`TriesUsedUp`).
- `PopulatedOnce` stops when `ngx_http_file_cache_update()` or `_update_variant()` resets
  `updating` of another request's lock.
- `ReportsReachTheirSocket` allows a structure taken twice since `epoll_wait()`: the
  instance is one bit.
- `ReuseFrees` allows a socket to be refused while connections are reusable if the handler of the
  last of them keeps it open: `ngx_drain_connections()` then tries no other.
- `WorkersBounded` allows for the sets of workers that the master starts beside others without
  telling these to quit (`beside`): on HUP while a new binary runs or `ngx_new_binary` is -1, and when
  it restarts workers because the new binary has exited although a reload, in the same turn or after
  WINCH, has started new ones. TLC reaches both and violates the bound of one set.
- `NoOrphans`, `WorkersBounded` and `NewProcessesStay` are about runs without a failed
  `fork()`; `ListensInTurn` and `SharedServed` without a failed `epoll_ctl()`; `SharedServed`
  also assumes a worker that is not deaf (see its comment).
- `DestroyCompletes` allows for `ngx_thread_pool_destroy()` giving up on a full queue, which
  leaves threads running.
- `ReferencesExact` counts as long as nothing has failed. Alerts, `FreedAlone` and `NeverForgotten`
  except behaviours in which an upstream request was finalized again, as described above.
- `NoLostWakeup` and `SleeperWakes` are checked with deaths outside `WakeupWindow`.

Two statements one might expect of the cache are false and are not properties. Two
entries may have one key: TLC finds this with two nodes, three keys, two requests and
the loader. **The bounds of the runs do not reach that case**, and with them TLC
finds no such entries. A file may be left without an entry; this is within the bounds of
`filecache`.

### Disagreements with the documentation

- `master_upgrade_exit`: after USR2, WINCH and HUP, the master has restarted its workers but
  `live` is 0, and QUIT makes it exit without telling them.
- `master_stranded`: a reload that fails skips the tests of the other flags; a USR1 that came
  with it waits for the next signal.
- `filecache_abandoned`: the comment in `ngx_http_file_cache_forced_expire()` says entries
  that abnormally exited workers left are moved out of the way. One left with `deleting` set
  ends the search instead, until a request moves it.

### Bounds

- `shmtx`: the master, three workers and one fault; three workers are a holder, a sleeper
  and one that barges in. `rwlock`: three processes and three bits, so that a miscount is
  near the writer's value.
- `master`: four settings. Two workers, two signals, a crash, a failing fork and a broken
  configuration; two workers and two crashes with nothing else that fails; one worker with a
  cache and an upgrade of the binary; one worker with an upgrade and reloads. Enough for signals to coincide and for a reload to overlap
  a crash. No process is refused for want of a slot (with six slots some are).
- `accept`: two workers, a shared socket and one each, two connections, two faults.
- `connections`: three structures, three sockets and five calls; a slot can be reused within
  one list of events.
- `filecache`: three settings, each with two requests at a time. Three requests in all and three
  keys for two nodes, so that the zone fills up, with a variant, the cache lock and a clock of
  three ticks against a lock age of one; or one node for two keys, `min_uses` of 2, the loader,
  no cache lock and one abnormal exit; or two nodes for two keys, operations on files that fail, a
  disk that fills up, and a forced expire with one try, so that its limit is met. The code has 20
  tries: elsewhere a forced expire has two, as many as there are nodes, and never runs out. Abnormal exits are thus checked without variants and
  without the cache lock.
- `threadpool`: three threads, three tasks and a limit of one; the counter of the notify handler
  wraps at 2 instead of 2^32 - 1.
- `slab`: four pages, runs up to three, a slot of each kind with two or three chunks a page;
  enough for joins on both sides and for pages that fill up and empty.
- `request`: two subrequests, nested or side by side. Either all kinds of them with files and
  upstreams, one buffer for each request and a socket that takes one; or plain ones and ones in
  memory, with two buffers of the main request, so that data and subrequests alternate in the
  postponed queue, and a socket that takes one or two. `MaxCount` bounds the references that events
  on a closing connection take, `MaxAgain` how often upstream requests are finalized again.
- Deadlock is checked for `shmtx` and `slab`: elsewhere bounded inputs run out, or the processes
  exit.

### Fairness

- `Shmtx`: processes inside the mutex code are scheduled (weak); the kernel does not pass over
  one sleeper for ever, and SIGCHLD reaches the master (strong).
- `Rwlock`: processes that spin or hold the lock are scheduled (weak).
- `ProcessCycle`: pending signals and the timer are delivered. `MasterFair` is weak fairness of the
  master's turns (`TurnTaken`) written out, because TLC evaluates `ENABLED` of that action slowly.
  `QuitCompletes` and `WorkersReplenished` also assume `KidsFair`: while children have been told
  something one of them acts on it, and connections of a closing worker end.
  `TerminateCompletes` does not.
- `AcceptMutex`: workers run (weak), accept timers expire (strong), the master reaps (weak).
- `ThreadPool`: threads are scheduled and their tasks end, the event loop comes back to
  `epoll_wait()` (weak). Nobody has to post or to stop.
- `Connections`, `FileCache`, `Slab` and `HttpRequest` state no liveness. `NeverForgotten` is the safety
  half of "a request ends": what would go on with it is always pending.

## Proofs

For all values of the constants that the named assumptions allow:

| theorem | statement |
|---|---|
| `ShmtxProofs!TypeCorrect` | `Spec => []TypeOK` |
| `ShmtxProofs!MutexSafe` | `Spec => []MutualExclusion`, deaths anywhere and reuse of pids included |
| `ShmtxProofs!WakeupsKept` | `Spec => []NoLostWakeup` if no worker dies in `WakeupWindow` |
| `ShmtxProofs!CountInvariant` | `WaitersCounted`, if no worker dies between uncounting a waiter and posting |
| `ShmtxProofs!MutexImplemented` | `Spec => ImplementsMutex` |
| `RwlockProofs!WriterExclusive` | `Spec => []WriterAlone` |
| `RwlockProofs!WordExact` | `Spec => [](TypeOK /\ WordCounts)` |
| `AcceptMutexProofs!MutexReleased` | `Spec => []ReleasedBetweenTurns` |
| `AcceptMutexProofs!ListeningFollowsTurn` | `Spec => []ListensInTurn` |
| `ThreadPoolProofs!TypeCorrect` | `Spec => []TypeOK` |
| `ThreadPoolProofs!WaitingCounted` | `Spec => []WaitingExact` |
| `ThreadPoolProofs!WakesSuffice` | `Spec => []WakesEnough` |
| `ThreadPoolProofs!ServiceImplemented` | `Spec => ImplementsTaskService` |
| `ThreadPoolProofs!DestroyedSafely` | `Spec => []DestroyedAlone` |

`MutualExclusion` is not inductive: that two processes never hold the mutex follows from what
the word says. The invariant is `OwnerIsKnown`: the word is the pid of the holder, or of a
dead process still to be reaped. `NoLostWakeup` needs `WaitersCounted`, because the wakeup
that finds `wait` at 0 must know that tokens cover the sleepers, and `SleepersNeedSemaphore`.
For `Rwlock` the invariant is `TypeOK /\ WriterAlone /\ WordCounts`. Neither of the last two is
inductive alone: the word tells a writer from readers because it counts exactly, and counts
exactly because a writer is alone. The assumption that fewer processes exist than the
writer's value is needed there. `Counting` has the lemmas on how many processes are at some
points.

`MutexImplemented` rests on `OwnerIsKnown` too: a compare-and-set that takes the word is
`Acquire`, the holder's that clears it `Release`, and the master's for a dead owner `Reclaim`; every other step leaves the mapped state.

For `AcceptMutex` the invariant ties the three places where the code remembers a turn. The worker
that the word names is dead, or about to unlock it because it could not listen, or between
`epoll_wait()` and the end of its turn with
`ngx_use_accept_mutex` and `ngx_accept_mutex_held` set (`KnowsTurn`): the end of a turn unlocks only
if the flag is set. While no `epoll_ctl()` has failed, the flag says what a worker that uses the
mutex listens on, and no accept event of such a worker has a timer (`Listens`): a timer would listen
on everything without the mutex. Workers are finite, sockets any set, and the bounds on faults and
connections arbitrary.

For `ThreadPool` there are three invariants. `Counted` puts `WaitingExact` and `WakesEnough` in
terms of `Counting`: each step moves one thread. `PlacedOnce` says that a task is in one place and
active while it is anywhere; the refinement needs it, since `TaskService` posts only a task that is
nowhere. `Emptied` says where the exit task can be and how many threads have exited;
`DestroyedAlone` is not inductive without it. Threads are finite and not none, tasks any set.

Only model-checked: everything about `ProcessCycle`, `Connections`, `FileCache`,
`Slab` and `HttpRequest`, and all liveness. Liveness under fairness and `ENABLED`, induction over
data and `RECURSIVE` operators are beyond the prover.

## Not modelled

- `ngx_init_cycle()` and the zones, channels, resolver, open file cache, upstream peers, event
  pipe, limits and HTTP/2 have state worth modelling; they are left for later.
- Of the request: parsing, bodies, redirects, `post_action`, rate limits, lingering close,
  post_subrequest handlers, `filter_finalize`, cached upstream responses, the pipe, and what follows
  on a connection that is kept alive.
- A worker that dies inside a slab operation, or under the cache's mutex, leaves data half changed;
  the code has no recovery, and the models have those sections as one step.
- Times: timers expire at any moment, so the wrap-around of their keys is left out.
- SSL, UDP, stream, mail, other event methods, filters, parsers, data structures, input and output,
  Windows: mostly data, or further instances of what is modelled.
