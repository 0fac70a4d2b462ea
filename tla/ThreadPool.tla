----------------------------- MODULE ThreadPool -----------------------------
(***************************************************************************)
(* A thread pool of a worker process (core/ngx_thread_pool.c): the event   *)
(* loop posts tasks, the pool's threads run them and hand them back, and   *)
(* an eventfd watched by epoll, edge-triggered, tells the event loop to    *)
(* look (event/modules/ngx_epoll_module.c).  When the worker exits it ends *)
(* the threads one by one with a task of its own.                          *)
(*                                                                         *)
(* What a process does between locking and unlocking tp->mtx, or the spin  *)
(* lock of the done queue, is one step.  The calls that lock, unlock, wait *)
(* and signal do not fail on an initialised mutex and condition variable.  *)
(***************************************************************************)
EXTENDS Integers, Sequences, FiniteSets

CONSTANTS Threads,   \* the tp->threads threads of the pool
          Tasks,     \* tasks the event loop posts
          Exit,      \* the task of ngx_thread_pool_destroy()
          None,      \* no task
          MaxQueue,  \* tp->max_queue
          MaxIndex   \* NGX_MAX_UINT32_VALUE

ASSUME ThreadPoolAssumption ==
    /\ IsFiniteSet(Threads) /\ Threads # {}
    /\ Exit \notin Tasks /\ None \notin Tasks \cup {Exit}
    /\ MaxQueue \in Nat
    /\ MaxIndex \in Nat \ {0}

VARIABLES queue,     \* tp->queue
          waiting,   \* tp->waiting
          active,    \* task->event.active
          pc,        \* where each thread is
          task,      \* the task each thread has taken
          done,      \* ngx_thread_pool_done
          batch,     \* completed tasks whose handlers have not been called yet
          at,        \* where the event loop is
          exits,     \* n of ngx_thread_pool_destroy(): threads told to exit
          lock,      \* the variable the exit handler clears
          edge,      \* epoll has the eventfd in its ready list
          readable,  \* the eventfd's counter is not 0
          index      \* notify_event.index

pool   == <<queue, waiting>>
notify == <<edge, readable, index>>
vars   == <<queue, waiting, active, pc, task, done, batch, at, exits, lock,
            edge, readable, index>>

\* Points of a thread that has counted itself in tp->waiting and has no task.
Idle == {"wait", "woken"}

\* Points of a thread with a task that it has not handed back.
Busy == {"run", "ran"}

Points == {"lock", "notify", "exited"} \cup Idle \cup Busy

\* ngx_thread_pool_init()
Init ==
    /\ queue = <<>> /\ waiting = 0
    /\ active = [k \in Tasks \cup {Exit} |-> FALSE]
    /\ pc = [t \in Threads |-> "lock"]
    /\ task = [t \in Threads |-> None]
    /\ done = <<>> /\ batch = <<>>
    /\ at = "loop" /\ exits = 0 /\ lock = FALSE
    /\ edge = FALSE /\ readable = FALSE /\ index = 0

Goto(t, from, to) ==
    /\ pc[t] = from
    /\ pc' = [pc EXCEPT ![t] = to]

-----------------------------------------------------------------------------
(* ngx_thread_task_post(), called by the event loop only *)

\* Variant: a thread is woken only when the queue was empty.
SignalFirst ==
    \/ \E t \in Threads : queue = <<>> /\ Goto(t, "wait", "woken")
    \/ (queue # <<>> \/ \A t \in Threads : pc[t] # "wait") /\ UNCHANGED pc

\* pthread_cond_signal()
Signal ==
    \/ \E t \in Threads : Goto(t, "wait", "woken")
    \/ (\A t \in Threads : pc[t] # "wait") /\ UNCHANGED pc

\* Variant: the task may be active.
PostAgain(k) ==
    /\ waiting < MaxQueue
    /\ active' = [active EXCEPT ![k] = TRUE]
    /\ queue' = Append(queue, k)
    /\ waiting' = waiting + 1
    /\ Signal

\* A post that fails, because the task is active or the queue full, changes
\* nothing.
Post(k) ==
    /\ ~active[k]
    /\ waiting < MaxQueue
    /\ active' = [active EXCEPT ![k] = TRUE]
    /\ queue' = Append(queue, k)
    /\ waiting' = waiting + 1
    /\ Signal

\* A handler in the event loop posts a task.
MainPosts(k) ==
    /\ at \in {"loop", "handler"}
    /\ Post(k)
    /\ UNCHANGED <<task, done, batch, at, exits, lock, notify>>

-----------------------------------------------------------------------------
(* ngx_thread_pool_cycle() *)

Take(t, from) ==
    /\ queue # <<>>
    /\ Goto(t, from, "run")
    /\ task' = [task EXCEPT ![t] = Head(queue)]
    /\ queue' = Tail(queue)

Sleep(t, from) ==
    /\ queue = <<>>
    /\ Goto(t, from, "wait")
    /\ UNCHANGED <<queue, task>>

\* Variant: only a thread that goes to sleep counts itself.
ThreadLocksCountsSleep(t) ==
    /\ \/ Take(t, "lock") /\ UNCHANGED waiting
       \/ Sleep(t, "lock") /\ waiting' = waiting - 1
    /\ UNCHANGED <<active, done, batch, at, exits, lock, notify>>

\* The top of the loop: the mutex is locked and the thread counts itself.
ThreadLocks(t) ==
    /\ waiting' = waiting - 1
    /\ Take(t, "lock") \/ Sleep(t, "lock")
    /\ UNCHANGED <<active, done, batch, at, exits, lock, notify>>

\* pthread_cond_wait() returns, and the queue is looked at again.
ThreadWakes(t) ==
    /\ Take(t, "woken") \/ Sleep(t, "woken")
    /\ UNCHANGED <<waiting, active, done, batch, at, exits, lock, notify>>

\* pthread_cond_wait() may return without a signal.
ThreadWakesSpuriously(t) ==
    /\ Goto(t, "wait", "woken")
    /\ UNCHANGED <<pool, active, task, done, batch, at, exits, lock, notify>>

\* task->handler()
ThreadRuns(t) ==
    /\ task[t] # Exit
    /\ Goto(t, "run", "ran")
    /\ UNCHANGED <<pool, active, task, done, batch, at, exits, lock, notify>>

\* Variant: the thread exits without a word.
ThreadExitsSilently(t) ==
    /\ task[t] = Exit
    /\ Goto(t, "run", "exited")
    /\ task' = [task EXCEPT ![t] = None]
    /\ UNCHANGED <<pool, active, done, batch, at, exits, lock, notify>>

\* ngx_thread_pool_exit_handler()
ThreadExits(t) ==
    /\ task[t] = Exit
    /\ Goto(t, "run", "exited")
    /\ task' = [task EXCEPT ![t] = None]
    /\ lock' = FALSE
    /\ UNCHANGED <<pool, active, done, batch, at, exits, notify>>

ThreadHandsBack(t) ==
    /\ Goto(t, "ran", "notify")
    /\ done' = Append(done, task[t])
    /\ task' = [task EXCEPT ![t] = None]
    /\ UNCHANGED <<pool, active, batch, at, exits, lock, notify>>

\* ngx_epoll_notify()
ThreadNotifies(t) ==
    /\ Goto(t, "notify", "lock")
    /\ edge' = TRUE
    /\ readable' = TRUE
    /\ UNCHANGED <<pool, active, task, done, batch, at, exits, lock, index>>

-----------------------------------------------------------------------------
\* epoll_wait() takes the eventfd off its ready list and reports it if it is
\* still readable.
MainPolls ==
    /\ at = "loop" /\ edge
    /\ edge' = FALSE
    /\ at' = IF readable THEN "event" ELSE "loop"
    /\ UNCHANGED <<pool, active, pc, task, done, batch, exits, lock, readable, index>>

\* ngx_epoll_notify_handler() up to the call of the handler: the counter of
\* the eventfd is read, and so reset, once in MaxIndex events.
MainReads ==
    /\ at = "event"
    /\ at' = "drain"
    /\ index' = (index + 1) % MaxIndex
    /\ readable' = (readable /\ index' # 0)
    /\ UNCHANGED <<pool, active, pc, task, done, batch, exits, lock, edge>>

\* ngx_thread_pool_handler() up to its loop.
MainDrains ==
    /\ at = "drain"
    /\ at' = "handler"
    /\ batch' = done
    /\ done' = <<>>
    /\ UNCHANGED <<pool, active, pc, task, exits, lock, notify>>

\* One turn of the loop; what the task's event handler does follows.
MainCompletes ==
    /\ at = "handler" /\ batch # <<>>
    /\ active' = [active EXCEPT ![Head(batch)] = FALSE]
    /\ batch' = Tail(batch)
    /\ UNCHANGED <<pool, pc, task, done, at, exits, lock, notify>>

\* Variant: the counter of the eventfd is reset after the tasks are completed.
MainReturnsReading ==
    /\ at = "handler" /\ batch = <<>>
    /\ at' = "loop"
    /\ readable' = FALSE
    /\ UNCHANGED <<pool, active, pc, task, done, batch, exits, lock, edge, index>>

MainReturns ==
    /\ at = "handler" /\ batch = <<>>
    /\ at' = "loop"
    /\ UNCHANGED <<pool, active, pc, task, done, batch, exits, lock, notify>>

-----------------------------------------------------------------------------
(* ngx_thread_pool_exit_worker(), ngx_thread_pool_destroy() *)

MainExits ==
    /\ at = "loop"
    /\ at' = "destroy"
    /\ UNCHANGED <<pool, active, pc, task, done, batch, exits, lock, notify>>

DestroyPosts ==
    /\ at = "destroy" /\ exits < Cardinality(Threads)
    /\ Post(Exit)
    /\ lock' = TRUE
    /\ at' = "spin"
    /\ UNCHANGED <<task, done, batch, exits, notify>>

\* The post fails: the remaining threads are left alone.
DestroyGivesUp ==
    /\ at = "destroy" /\ exits < Cardinality(Threads)
    /\ active[Exit] \/ waiting >= MaxQueue
    /\ at' = "gaveup"
    /\ lock' = TRUE
    /\ UNCHANGED <<pool, active, pc, task, done, batch, exits, notify>>

\* Variant: the next thread is told before the last one has answered.
DestroySpinsNot ==
    /\ at = "spin"
    /\ at' = "destroy"
    /\ active' = [active EXCEPT ![Exit] = FALSE]
    /\ exits' = exits + 1
    /\ UNCHANGED <<pool, pc, task, done, batch, lock, notify>>

DestroySpins ==
    /\ at = "spin" /\ ~lock
    /\ at' = "destroy"
    /\ active' = [active EXCEPT ![Exit] = FALSE]
    /\ exits' = exits + 1
    /\ UNCHANGED <<pool, pc, task, done, batch, lock, notify>>

\* The condition variable and the mutex are destroyed.
DestroyEnds ==
    /\ at = "destroy" /\ exits = Cardinality(Threads)
    /\ at' = "destroyed"
    /\ UNCHANGED <<pool, active, pc, task, done, batch, exits, lock, notify>>

-----------------------------------------------------------------------------
ThreadSteps(t) ==
    \/ ThreadLocks(t) \/ ThreadWakes(t)
    \/ ThreadRuns(t) \/ ThreadExits(t)
    \/ ThreadHandsBack(t) \/ ThreadNotifies(t)

MainSteps ==
    \/ MainPolls \/ MainReads \/ MainDrains \/ MainCompletes \/ MainReturns
    \/ DestroyPosts \/ DestroyGivesUp \/ DestroySpins \/ DestroyEnds

Next ==
    \/ \E t \in Threads : ThreadSteps(t) \/ ThreadWakesSpuriously(t)
    \/ \E k \in Tasks : MainPosts(k)
    \/ MainSteps
    \/ MainExits

Spec == Init /\ [][Next]_vars

\* Threads are scheduled and the tasks they run end; the event loop comes back
\* to epoll_wait().  Nobody has to post a task or to stop the worker.
Fairness ==
    /\ \A t \in Threads : WF_vars(ThreadSteps(t))
    /\ WF_vars(MainSteps)

FairSpec == Spec /\ Fairness

-----------------------------------------------------------------------------
\* The values the variables take: a thread has a task exactly while it is busy, and
\* the exit task only while it runs it.
TypeOK ==
    /\ queue \in Seq(Tasks \cup {Exit})
    /\ waiting \in Int
    /\ active \in [Tasks \cup {Exit} -> BOOLEAN]
    /\ pc \in [Threads -> Points]
    /\ task \in [Threads -> Tasks \cup {Exit, None}]
    /\ \A t \in Threads : /\ task[t] # None <=> pc[t] \in Busy
                          /\ task[t] = Exit => pc[t] = "run"
    /\ done \in Seq(Tasks) /\ batch \in Seq(Tasks)
    /\ at \in {"loop", "event", "drain", "handler", "destroy", "spin",
               "destroyed", "gaveup"}
    /\ exits \in 0 .. Cardinality(Threads)
    /\ at = "spin" => exits < Cardinality(Threads)
    /\ lock \in BOOLEAN /\ edge \in BOOLEAN /\ readable \in BOOLEAN
    /\ index \in 0 .. MaxIndex - 1

ThreadsAt(points) == {t \in Threads : pc[t] \in points}

\* tp->waiting, which a post compares with max_queue, is the number of queued
\* tasks less the number of threads that look for one: never less than there is
\* to do, whichever way posts, takes and wake-ups interleave.  So no more than
\* max_queue tasks wait when every thread is busy.
WaitingExact == waiting = Len(queue) - Cardinality(ThreadsAt(Idle))

\* A thread sleeps beside a queued task only while as many threads as there are
\* queued tasks have been woken: one pthread_cond_signal() per post is enough,
\* although a thread that comes back from a task may take what another was
\* woken for, and although threads wake for no reason.
WakesEnough ==
    ThreadsAt({"wait"}) # {} => Len(queue) <= Cardinality(ThreadsAt({"woken"}))

\* When ngx_thread_pool_destroy() destroys the condition variable and the mutex
\* every thread has returned and nothing is queued: each task posted before was
\* run, and each exit task was taken by another thread.
DestroyedAlone ==
    at = "destroyed" => queue = <<>> /\ ThreadsAt({"exited"}) = Threads

Leaving == at \in {"destroy", "spin", "destroyed", "gaveup"}

\* Every posted task is completed in the event loop unless the worker starts to
\* exit: the wake-up of a thread, the append to the done queue, the write to the
\* eventfd, the edge that epoll reports and the rare read that resets the
\* counter leave no task behind.
TasksComplete == \A k \in Tasks : active[k] ~> (~active[k] \/ Leaving)

\* A worker that exits waits for its threads and gets past them, unless it finds
\* the queue full.
DestroyCompletes == at = "destroy" ~> at \in {"destroyed", "gaveup"}

Contract == INSTANCE TaskService WITH
    Tasks    <- Tasks \cup {Exit},
    Exits    <- {Exit},
    posted   <- queue,
    running  <- {task[t] : t \in ThreadsAt(Busy)},
    finished <- batch \o done

\* The pool keeps the promise of TaskService: a task posted while its event is
\* not active is nowhere in the pool, tasks are started in the order they were
\* posted, run once, and completed in the order they were handed back.
ImplementsTaskService == Contract!Spec

=============================================================================
