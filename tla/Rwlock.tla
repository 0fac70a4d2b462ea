------------------------------- MODULE Rwlock -------------------------------
(***************************************************************************)
(* The read-write lock in shared memory (core/ngx_rwlock.c), which guards  *)
(* the peers of an upstream zone.  The lock word is the number of readers, *)
(* or the largest value of its width when a writer has it.  rlock reads    *)
(* the word and then compare-and-sets it; unlock reads the word and then   *)
(* changes it: other processes may run between the two.                    *)
(***************************************************************************)
EXTENDS Integers, FiniteSets

CONSTANTS Procs,     \* worker processes
          Width,     \* bits of ngx_atomic_uint_t
          MaxCalls   \* bound on the lock calls of one process

VARIABLES lock,      \* the lock word
          pc,        \* where each process is
          readers,   \* the local variable "readers" of ngx_rwlock_rlock()
          calls      \* lock calls made by each process

vars == <<lock, pc, readers, calls>>

WLOCK == 2^Width - 1

\* Points at which a process reads or writes what the lock guards, the
\* steps of ngx_rwlock_unlock() and ngx_rwlock_downgrade() included.
ReadHeld  == {"reading", "sub"}
WriteHeld == {"writing", "clear", "down"}
Points    == {"idle", "wlock", "rlock", "rcas"} \cup ReadHeld \cup WriteHeld

ASSUME RwlockAssumption ==
    /\ IsFiniteSet(Procs)
    /\ Width \in Nat \ {0}
    /\ 2^Width \in Nat
    /\ Cardinality(Procs) < 2^Width - 1
    /\ MaxCalls \in Nat

Init ==
    /\ lock = 0
    /\ pc = [p \in Procs |-> "idle"]
    /\ readers = [p \in Procs |-> 0]
    /\ calls = [p \in Procs |-> 0]

Goto(p, from, to) ==
    /\ pc[p] = from
    /\ pc' = [pc EXCEPT ![p] = to]

Call(p, to) ==
    /\ calls[p] < MaxCalls
    /\ calls' = [calls EXCEPT ![p] = @ + 1]
    /\ Goto(p, "idle", to)
    /\ UNCHANGED <<lock, readers>>

WlockCall(p) == Call(p, "wlock")
RlockCall(p) == Call(p, "rlock")

\* Variant: a writer that also gets the word from one reader.
WlockOverReader(p) ==
    /\ lock \in {0, 1}
    /\ lock' = WLOCK
    /\ Goto(p, "wlock", "writing")
    /\ UNCHANGED <<readers, calls>>

\* An attempt of ngx_rwlock_wlock() that succeeds; one that fails, in the
\* spin loop or outside, leads to the next attempt and changes nothing.
Wlock(p) ==
    /\ lock = 0
    /\ lock' = WLOCK
    /\ Goto(p, "wlock", "writing")
    /\ UNCHANGED <<readers, calls>>

\* "readers = *lock"
RlockRead(p) ==
    /\ readers' = [readers EXCEPT ![p] = lock]
    /\ Goto(p, "rlock", "rcas")
    /\ UNCHANGED <<lock, calls>>

\* Variant: the word is stored without being compared again.
RlockStore(p) ==
    /\ IF readers[p] # WLOCK
       THEN /\ lock' = readers[p] + 1
            /\ Goto(p, "rcas", "reading")
       ELSE /\ Goto(p, "rcas", "rlock")
            /\ UNCHANGED lock
    /\ UNCHANGED <<readers, calls>>

\* The compare-and-set of ngx_rwlock_rlock().
RlockCas(p) ==
    /\ IF readers[p] # WLOCK /\ lock = readers[p]
       THEN /\ lock' = readers[p] + 1
            /\ Goto(p, "rcas", "reading")
       ELSE /\ Goto(p, "rcas", "rlock")
            /\ UNCHANGED lock
    /\ UNCHANGED <<readers, calls>>

\* The test of ngx_rwlock_unlock().
UnlockTest(p) ==
    /\ pc[p] \in {"reading", "writing"}
    /\ pc' = [pc EXCEPT ![p] = IF lock = WLOCK THEN "clear" ELSE "sub"]
    /\ UNCHANGED <<lock, readers, calls>>

UnlockWrite(p) ==
    /\ Goto(p, "clear", "idle")
    /\ lock' = IF lock = WLOCK THEN 0 ELSE lock
    /\ UNCHANGED <<readers, calls>>

\* Variant: the reader's decrement is forgotten.
UnlockReadKeeps(p) ==
    /\ Goto(p, "sub", "idle")
    /\ UNCHANGED <<lock, readers, calls>>

UnlockRead(p) ==
    /\ Goto(p, "sub", "idle")
    /\ lock' = (lock - 1) % 2^Width
    /\ UNCHANGED <<readers, calls>>

\* ngx_rwlock_downgrade(): the test, and the store.
DowngradeTest(p) ==
    /\ lock = WLOCK
    /\ Goto(p, "writing", "down")
    /\ UNCHANGED <<lock, readers, calls>>

Downgrade(p) ==
    /\ Goto(p, "down", "reading")
    /\ lock' = 1
    /\ UNCHANGED <<readers, calls>>

Progress(p) ==
    \/ Wlock(p)
    \/ RlockRead(p)
    \/ RlockCas(p)
    \/ UnlockTest(p)
    \/ UnlockWrite(p)
    \/ UnlockRead(p)
    \/ Downgrade(p)

Next ==
    \E p \in Procs :
        \/ WlockCall(p)
        \/ RlockCall(p)
        \/ Progress(p)
        \/ DowngradeTest(p)

Spec == Init /\ [][Next]_vars

\* A process inside a function of the lock, or holding it, runs on.
Fairness == \A p \in Procs : WF_vars(Progress(p))

FairSpec == Spec /\ Fairness

-----------------------------------------------------------------------------
\* The word stays within its width, and so does every copy a reader made of it.
TypeOK ==
    /\ lock \in 0..WLOCK
    /\ pc \in [Procs -> Points]
    /\ readers \in [Procs -> 0..WLOCK]
    /\ calls \in [Procs -> 0..MaxCalls]

\* A writer of the peers is alone with them: no other process reads or
\* writes, however the reads of the word in ngx_rwlock_rlock() and
\* ngx_rwlock_unlock() interleave with the changes of others.
WriterAlone ==
    \A p, q \in Procs :
        pc[p] \in WriteHeld /\ pc[q] \in WriteHeld \cup ReadHeld => p = q

\* The lock word never loses count: it says a writer is in exactly when one
\* is, and otherwise it is the number of processes reading.
WordCounts ==
    IF \E p \in Procs : pc[p] \in WriteHeld
    THEN lock = WLOCK
    ELSE lock = Cardinality({p \in Procs : pc[p] \in ReadHeld})

\* Once the processes make no more calls everyone has got the lock and given
\* it back: no caller of ngx_rwlock_wlock() or ngx_rwlock_rlock() is left
\* spinning on a word nobody will change.
Drained == <>[](lock = 0 /\ \A p \in Procs : pc[p] = "idle")

=============================================================================
