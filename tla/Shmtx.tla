------------------------------- MODULE Shmtx -------------------------------
(***************************************************************************)
(* The mutex in shared memory of nginx (core/ngx_shmtx.c, the build with   *)
(* atomic operations and POSIX semaphores), as it is used by the master    *)
(* and the worker processes, with workers that die at any point and the    *)
(* master's recovery of what they held (os/unix/ngx_process.c).            *)
(*                                                                         *)
(* A test "*lock == 0 && ngx_atomic_cmp_set(lock, 0, pid)" is one step: the *)
(* compare-and-set succeeds only on 0, and a failure of either half leads  *)
(* to the same place.  The loop of ngx_shmtx_wakeup() that reads the       *)
(* counter and compare-and-sets it down is one step for the same reason.   *)
(***************************************************************************)
EXTENDS Integers, FiniteSets

CONSTANTS Procs,       \* process identifiers the kernel hands out
          Master,      \* the process that spawns and reaps the others
          None,        \* the value 0 of the lock word
          Semaphore,   \* mtx->semaphore: sem_init() succeeded
          SpinRounds,  \* attempts of the spin loop, 0 when ngx_ncpu is 1
          CrashAt,     \* the points at which a worker may die
          MaxFaults    \* bound on crashes and sem_wait() failures

VARIABLES lock,        \* mtx->lock: a pid or None
          wait,        \* mtx->wait, a signed counter
          sem,         \* value of mtx->sem
          pc,          \* where each process is
          spins,       \* spin attempts left to each process
          faults       \* faults injected so far

vars == <<lock, wait, sem, pc, spins, faults>>

\* Points of a process that has the mutex: it must still take back the
\* increment of mtx->wait, or it runs the critical section.
Holding == {"sub", "cs"}

\* Points of a process inside ngx_shmtx_lock() that has not got the mutex.
Locking == {"try", "spin", "add", "recheck", "sleep"}

\* Points of a process inside ngx_shmtx_wakeup().
Waking == {"wake", "post"}

Running == {"idle"} \cup Locking \cup Holding \cup Waking

Points == Running \cup {"zombie", "gone"}

ASSUME ShmtxAssumption ==
    /\ IsFiniteSet(Procs)
    /\ Master \in Procs
    /\ None \notin Procs
    /\ Semaphore \in BOOLEAN
    /\ SpinRounds \in Nat
    /\ CrashAt \subseteq Running
    /\ MaxFaults \in Nat

Init ==
    /\ lock = None
    /\ wait = 0
    /\ sem = 0
    /\ pc = [p \in Procs |-> IF p = Master THEN "idle" ELSE "gone"]
    /\ spins = [p \in Procs |-> 0]
    /\ faults = 0

Goto(p, from, to) ==
    /\ pc[p] = from
    /\ pc' = [pc EXCEPT ![p] = to]

-----------------------------------------------------------------------------
\* ngx_shmtx_trylock(); a failure changes nothing.  The master takes the
\* mutex of a zone only while it creates it, before any worker shares it:
\* only workers call the functions that lock.
Trylock(p) ==
    /\ p # Master
    /\ Goto(p, "idle", "cs")
    /\ lock = None
    /\ lock' = p
    /\ UNCHANGED <<wait, sem, spins, faults>>

\* The call of ngx_shmtx_lock().
LockCall(p) ==
    /\ p # Master
    /\ Goto(p, "idle", "try")
    /\ UNCHANGED <<lock, wait, sem, spins, faults>>

\* After the attempts of one round fail: sleep on the semaphore, or yield
\* the processor and start over.
AfterSpin == IF Semaphore THEN "add" ELSE "try"

\* The attempt at the top of the loop.
LockTry(p) ==
    /\ \/ /\ lock = None
          /\ lock' = p
          /\ Goto(p, "try", "cs")
          /\ UNCHANGED spins
       \/ /\ lock # None
          /\ Goto(p, "try", IF SpinRounds > 0 THEN "spin" ELSE AfterSpin)
          /\ spins' = [spins EXCEPT ![p] = SpinRounds]
          /\ UNCHANGED lock
    /\ UNCHANGED <<wait, sem, faults>>

\* One attempt of the spin loop.
LockSpin(p) ==
    /\ \/ /\ lock = None
          /\ lock' = p
          /\ Goto(p, "spin", "cs")
          /\ spins' = [spins EXCEPT ![p] = 0]
       \/ /\ lock # None
          /\ Goto(p, "spin", IF spins[p] > 1 THEN "spin" ELSE AfterSpin)
          /\ spins' = [spins EXCEPT ![p] = @ - 1]
          /\ UNCHANGED lock
    /\ UNCHANGED <<wait, sem, faults>>

\* Variant: the attempt between the increment and sem_wait() is left out.
LockAddWaiterThenSleep(p) ==
    /\ Goto(p, "add", "sleep")
    /\ wait' = wait + 1
    /\ UNCHANGED <<lock, sem, spins, faults>>

LockAddWaiter(p) ==
    /\ Goto(p, "add", "recheck")
    /\ wait' = wait + 1
    /\ UNCHANGED <<lock, sem, spins, faults>>

\* The attempt between the increment of mtx->wait and sem_wait().
LockRecheck(p) ==
    /\ \/ /\ lock = None
          /\ lock' = p
          /\ Goto(p, "recheck", "sub")
       \/ /\ lock # None
          /\ Goto(p, "recheck", "sleep")
          /\ UNCHANGED lock
    /\ UNCHANGED <<wait, sem, spins, faults>>

LockSubWaiter(p) ==
    /\ Goto(p, "sub", "cs")
    /\ wait' = wait - 1
    /\ UNCHANGED <<lock, sem, spins, faults>>

\* Variant: a woken process also takes itself out of mtx->wait.
SemWaitUncounts(p) ==
    /\ Goto(p, "sleep", "try")
    /\ sem > 0
    /\ sem' = sem - 1
    /\ wait' = wait - 1
    /\ UNCHANGED <<lock, spins, faults>>

\* sem_wait() returns 0.
SemWait(p) ==
    /\ Goto(p, "sleep", "try")
    /\ sem > 0
    /\ sem' = sem - 1
    /\ UNCHANGED <<lock, wait, spins, faults>>

\* sem_wait() fails with an error other than EINTR: the loop is left as if
\* the process had been woken.
SemWaitFails(p) ==
    /\ faults < MaxFaults
    /\ Goto(p, "sleep", "try")
    /\ faults' = faults + 1
    /\ UNCHANGED <<lock, wait, sem, spins>>

-----------------------------------------------------------------------------
\* Variant: the mutex is released without ngx_shmtx_wakeup().
UnlockWithoutWakeup(p) ==
    /\ Goto(p, "cs", "idle")
    /\ lock' = IF lock = p THEN None ELSE lock
    /\ UNCHANGED <<wait, sem, spins, faults>>

\* ngx_shmtx_unlock() by a process in its critical section.
Unlock(p) ==
    /\ Goto(p, "cs", IF lock = p /\ Semaphore THEN "wake" ELSE "idle")
    /\ lock' = IF lock = p THEN None ELSE lock
    /\ UNCHANGED <<wait, sem, spins, faults>>

\* The loop of ngx_shmtx_wakeup().
WakeupDecrement(p) ==
    /\ \/ /\ wait > 0
          /\ wait' = wait - 1
          /\ Goto(p, "wake", "post")
       \/ /\ wait <= 0
          /\ Goto(p, "wake", "idle")
          /\ UNCHANGED wait
    /\ UNCHANGED <<lock, sem, spins, faults>>

\* sem_post().
WakeupPost(p) ==
    /\ Goto(p, "post", "idle")
    /\ sem' = sem + 1
    /\ UNCHANGED <<lock, wait, spins, faults>>

-----------------------------------------------------------------------------
\* A worker is killed or crashes; the kernel keeps it until it is waited for.
Crash(p) ==
    /\ p # Master
    /\ faults < MaxFaults
    /\ pc[p] \in CrashAt
    /\ pc' = [pc EXCEPT ![p] = "zombie"]
    /\ faults' = faults + 1
    /\ UNCHANGED <<lock, wait, sem, spins>>

\* Variant: the mutex is released whoever holds it.
ReapUnlocksAny(p) ==
    /\ pc[p] = "zombie"
    /\ pc[Master] = "idle"
    /\ lock' = None
    /\ pc' = [pc EXCEPT ![p] = "gone",
                        ![Master] = IF Semaphore THEN "wake" ELSE "idle"]
    /\ UNCHANGED <<wait, sem, spins, faults>>

\* The SIGCHLD handler of the master: waitpid() frees the pid, then
\* ngx_unlock_mutexes() calls ngx_shmtx_force_unlock(mtx, pid).  No process
\* is forked in between, since only the master forks.
Reap(p) ==
    /\ pc[p] = "zombie"
    /\ pc[Master] = "idle"
    /\ LET unlocked == lock = p
       IN  /\ lock' = IF unlocked THEN None ELSE lock
           /\ pc' = [pc EXCEPT ![p] = "gone",
                               ![Master] = IF unlocked /\ Semaphore
                                           THEN "wake" ELSE "idle"]
    /\ UNCHANGED <<wait, sem, spins, faults>>

\* fork(): the kernel may reuse any pid that has been waited for.
Spawn(p) ==
    /\ pc[p] = "gone"
    /\ pc[Master] = "idle"
    /\ pc' = [pc EXCEPT ![p] = "idle"]
    /\ spins' = [spins EXCEPT ![p] = 0]
    /\ UNCHANGED <<lock, wait, sem, faults>>

-----------------------------------------------------------------------------
\* What a process does by itself once it is inside a function of the mutex.
Progress(p) ==
    \/ LockTry(p)
    \/ LockSpin(p)
    \/ LockAddWaiter(p)
    \/ LockRecheck(p)
    \/ LockSubWaiter(p)
    \/ SemWait(p)
    \/ Unlock(p)
    \/ WakeupDecrement(p)
    \/ WakeupPost(p)

Next ==
    \E p \in Procs :
        \/ Trylock(p)
        \/ LockCall(p)
        \/ Progress(p)
        \/ SemWaitFails(p)
        \/ Crash(p)
        \/ Reap(p)
        \/ Spawn(p)

Spec == Init /\ [][Next]_vars

\* Processes inside the mutex code are scheduled; a posted semaphore does
\* not pass the same sleeper over for ever (the kernel queues sleepers); the
\* master, which has SIGCHLD delivered in sigsuspend() only, gets there again.
Fairness ==
    \A p \in Procs :
        /\ WF_vars(Progress(p))
        /\ SF_vars(SemWait(p))
        /\ SF_vars(Reap(p))

FairSpec == Spec /\ Fairness

-----------------------------------------------------------------------------
\* The lock word is 0 or a pid, and sem_wait() never takes the semaphore below 0.
TypeOK ==
    /\ lock \in Procs \cup {None}
    /\ wait \in Int
    /\ sem \in Nat
    /\ pc \in [Procs -> Points]
    /\ spins \in [Procs -> Int]
    /\ faults \in 0..MaxFaults

At(points) == {p \in Procs : pc[p] \in points}

\* At most one process is between a successful compare-and-set of
\* ngx_shmtx_lock() or ngx_shmtx_trylock() and ngx_shmtx_unlock(), whatever
\* workers die and however pids are reused.
MutualExclusion ==
    \A p, q \in Procs : pc[p] \in Holding /\ pc[q] \in Holding => p = q

\* The pid in the lock word is of a process that really has the mutex, or
\* of a dead one the master has still to reap: ngx_shmtx_force_unlock()
\* never leaves a lock behind that a new process with the same pid would
\* be taken to own, and nobody in the critical section has lost the lock.
OwnerIsKnown ==
    /\ lock # None => pc[lock] \in Holding \cup {"zombie"}
    /\ \A p \in Procs : pc[p] \in Holding => lock = p

Contract == INSTANCE Mutex WITH owner <- lock, inside <- At(Holding)

\* The mutex keeps what it promises: every change of the lock word is one that
\* Mutex allows the processes in their critical sections, although the word
\* is a pid, pids are used again, and the master frees the mutexes of the dead
\* by comparing pids.
ImplementsMutex == Contract!Spec

\* Every process counted in or about to be posted to is covered: the tokens
\* that ngx_shmtx_wakeup() has posted or can still post are at least as
\* many as the processes that may block in sem_wait().
WaitersCounted ==
    Cardinality(At({"recheck", "sleep", "sub"}))
        <= wait + sem + Cardinality(At({"post"}))

\* Points at which a dying process takes a wake-up of another with it: it
\* has released the mutex and not posted yet, or has consumed a token and
\* not tried the lock yet.
WakeupWindow == {"wake", "post", "try"}

\* The mutex is never free with a process asleep on it and no wake-up on
\* its way, so that the sleeper depends on a future ngx_shmtx_unlock().
NoLostWakeup ==
    lock = None /\ At({"sleep"}) # {} => sem > 0 \/ At(WakeupWindow) # {}

\* A process blocked in sem_wait() is woken, or dies.
SleeperWakes == \A p \in Procs : pc[p] = "sleep" ~> pc[p] # "sleep"

=============================================================================
