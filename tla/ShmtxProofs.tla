---------------------------- MODULE ShmtxProofs ----------------------------
(***************************************************************************)
(* Proofs about Shmtx for any number of processes, of spin rounds and of   *)
(* faults.                                                                 *)
(***************************************************************************)
EXTENDS Shmtx, Counting

\* Every variable of Shmtx keeps its type: in particular the semaphore is
\* never decremented below zero and the lock word only ever holds 0 or a pid.
THEOREM TypeCorrect == Spec => []TypeOK
<1> USE ShmtxAssumption DEF TypeOK, Points, Running, Locking, Holding, Waking
<1>1. Init => TypeOK
  BY DEF Init
<1>2. TypeOK /\ [Next]_vars => TypeOK'
  <2> SUFFICES ASSUME TypeOK, [Next]_vars
               PROVE  TypeOK'
    OBVIOUS
  <2>1. CASE UNCHANGED vars
    BY <2>1 DEF vars
  <2>2. ASSUME NEW p \in Procs, Trylock(p) PROVE TypeOK'
    BY <2>2 DEF Trylock, Goto
  <2>3. ASSUME NEW p \in Procs, LockCall(p) PROVE TypeOK'
    BY <2>3 DEF LockCall, Goto
  <2>4. ASSUME NEW p \in Procs, LockTry(p) PROVE TypeOK'
    BY <2>4 DEF LockTry, Goto, AfterSpin
  <2>5. ASSUME NEW p \in Procs, LockSpin(p) PROVE TypeOK'
    BY <2>5 DEF LockSpin, Goto, AfterSpin
  <2>6. ASSUME NEW p \in Procs, LockAddWaiter(p) PROVE TypeOK'
    BY <2>6 DEF LockAddWaiter, Goto
  <2>7. ASSUME NEW p \in Procs, LockRecheck(p) PROVE TypeOK'
    BY <2>7 DEF LockRecheck, Goto
  <2>8. ASSUME NEW p \in Procs, LockSubWaiter(p) PROVE TypeOK'
    BY <2>8 DEF LockSubWaiter, Goto
  <2>9. ASSUME NEW p \in Procs, SemWait(p) PROVE TypeOK'
    BY <2>9 DEF SemWait, Goto
  <2>10. ASSUME NEW p \in Procs, SemWaitFails(p) PROVE TypeOK'
    BY <2>10 DEF SemWaitFails, Goto
  <2>11. ASSUME NEW p \in Procs, Unlock(p) PROVE TypeOK'
    BY <2>11 DEF Unlock, Goto
  <2>12. ASSUME NEW p \in Procs, WakeupDecrement(p) PROVE TypeOK'
    BY <2>12 DEF WakeupDecrement, Goto
  <2>13. ASSUME NEW p \in Procs, WakeupPost(p) PROVE TypeOK'
    BY <2>13 DEF WakeupPost, Goto
  <2>14. ASSUME NEW p \in Procs, Crash(p) PROVE TypeOK'
    BY <2>14 DEF Crash
  <2>15. ASSUME NEW p \in Procs, Reap(p) PROVE TypeOK'
    BY <2>15 DEF Reap
  <2>16. ASSUME NEW p \in Procs, Spawn(p) PROVE TypeOK'
    BY <2>16 DEF Spawn
  <2> QED
    BY <2>1, <2>2, <2>3, <2>4, <2>5, <2>6, <2>7, <2>8, <2>9, <2>10, <2>11,
       <2>12, <2>13, <2>14, <2>15, <2>16 DEF Next, Progress
<1> QED
  BY <1>1, <1>2, PTL DEF Spec

-----------------------------------------------------------------------------
\* The lock word names the one process that has the mutex, or a dead one
\* that had it when it died.
THEOREM OwnerInvariant == Spec => []OwnerIsKnown
<1> USE ShmtxAssumption DEF TypeOK, OwnerIsKnown, Points, Running, Locking,
                            Holding, Waking
<1>1. Init => OwnerIsKnown
  BY DEF Init
<1>2. TypeOK /\ OwnerIsKnown /\ [Next]_vars => OwnerIsKnown'
  <2> SUFFICES ASSUME TypeOK, OwnerIsKnown, [Next]_vars
               PROVE  OwnerIsKnown'
    OBVIOUS
  <2>1. CASE UNCHANGED vars
    BY <2>1 DEF vars
  <2>2. ASSUME NEW p \in Procs, Trylock(p) PROVE OwnerIsKnown'
    BY <2>2 DEF Trylock, Goto
  <2>3. ASSUME NEW p \in Procs, LockCall(p) PROVE OwnerIsKnown'
    BY <2>3 DEF LockCall, Goto
  <2>4. ASSUME NEW p \in Procs, LockTry(p) PROVE OwnerIsKnown'
    BY <2>4 DEF LockTry, Goto, AfterSpin
  <2>5. ASSUME NEW p \in Procs, LockSpin(p) PROVE OwnerIsKnown'
    BY <2>5 DEF LockSpin, Goto, AfterSpin
  <2>6. ASSUME NEW p \in Procs, LockAddWaiter(p) PROVE OwnerIsKnown'
    BY <2>6 DEF LockAddWaiter, Goto
  <2>7. ASSUME NEW p \in Procs, LockRecheck(p) PROVE OwnerIsKnown'
    BY <2>7 DEF LockRecheck, Goto
  <2>8. ASSUME NEW p \in Procs, LockSubWaiter(p) PROVE OwnerIsKnown'
    BY <2>8 DEF LockSubWaiter, Goto
  <2>9. ASSUME NEW p \in Procs, SemWait(p) PROVE OwnerIsKnown'
    BY <2>9 DEF SemWait, Goto
  <2>10. ASSUME NEW p \in Procs, SemWaitFails(p) PROVE OwnerIsKnown'
    BY <2>10 DEF SemWaitFails, Goto
  <2>11. ASSUME NEW p \in Procs, Unlock(p) PROVE OwnerIsKnown'
    BY <2>11 DEF Unlock, Goto
  <2>12. ASSUME NEW p \in Procs, WakeupDecrement(p) PROVE OwnerIsKnown'
    BY <2>12 DEF WakeupDecrement, Goto
  <2>13. ASSUME NEW p \in Procs, WakeupPost(p) PROVE OwnerIsKnown'
    BY <2>13 DEF WakeupPost, Goto
  <2>14. ASSUME NEW p \in Procs, Crash(p) PROVE OwnerIsKnown'
    BY <2>14 DEF Crash
  <2>15. ASSUME NEW p \in Procs, Reap(p) PROVE OwnerIsKnown'
    BY <2>15 DEF Reap
  <2>16. ASSUME NEW p \in Procs, Spawn(p) PROVE OwnerIsKnown'
    BY <2>16 DEF Spawn
  <2> QED
    BY <2>1, <2>2, <2>3, <2>4, <2>5, <2>6, <2>7, <2>8, <2>9, <2>10, <2>11,
       <2>12, <2>13, <2>14, <2>15, <2>16 DEF Next, Progress
<1> QED
  BY <1>1, <1>2, TypeCorrect, PTL DEF Spec

\* ngx_shmtx_lock() and ngx_shmtx_trylock() exclude each other, with any
\* number of workers that die anywhere and of pids that are used again.
THEOREM MutexSafe == Spec => []MutualExclusion
<1>1. TypeOK /\ OwnerIsKnown => MutualExclusion
  BY DEF OwnerIsKnown, MutualExclusion
<1> QED
  BY <1>1, TypeCorrect, OwnerInvariant, PTL

-----------------------------------------------------------------------------
\* A step of Shmtx that moves a process neither into nor out of its critical
\* section and leaves the lock word alone is no step of Mutex.
LEMMA Elsewhere ==
  ASSUME TypeOK, NEW p \in Procs, NEW to,
         pc' = [pc EXCEPT ![p] = to],
         pc[p] \in Holding <=> to \in Holding,
         UNCHANGED lock
  PROVE  UNCHANGED Contract!vars
BY DEF TypeOK, At, Contract!vars

\* A process that finds the mutex free and takes it enters its critical section.
LEMMA Enters ==
  ASSUME TypeOK, NEW p \in Procs, NEW to \in Holding,
         pc' = [pc EXCEPT ![p] = to], lock = None, lock' = p
  PROVE  Contract!Acquire(p)
BY DEF TypeOK, At, Contract!Acquire

\* The detailed mutex implements the promised one: every step of a process
\* in ngx_shmtx_lock(), ngx_shmtx_unlock() or ngx_shmtx_wakeup(), every death
\* and every ngx_shmtx_force_unlock() by the master is a step of Mutex or none.
THEOREM MutexImplemented == Spec => ImplementsMutex
<1>1. Init => Contract!Init
  BY DEF Init, At, Holding, Contract!Init
<1>2. TypeOK /\ OwnerIsKnown /\ [Next]_vars => [Contract!Next]_(Contract!vars)
  <2> SUFFICES ASSUME TypeOK, OwnerIsKnown, [Next]_vars
               PROVE  [Contract!Next]_(Contract!vars)
    OBVIOUS
  <2> USE ShmtxAssumption
  <2>1. CASE UNCHANGED vars
    BY <2>1 DEF vars, At, Contract!vars
  <2>2. ASSUME NEW p \in Procs, Trylock(p) PROVE Contract!Next
    BY <2>2, Enters DEF Trylock, Goto, Holding, Contract!Next
  <2>3. ASSUME NEW p \in Procs, LockCall(p) PROVE UNCHANGED Contract!vars
    BY <2>3, Elsewhere DEF LockCall, Goto, Holding
  <2>4. ASSUME NEW p \in Procs, LockTry(p) PROVE [Contract!Next]_(Contract!vars)
    BY <2>4, Enters, Elsewhere DEF LockTry, Goto, AfterSpin, Holding, Contract!Next
  <2>5. ASSUME NEW p \in Procs, LockSpin(p) PROVE [Contract!Next]_(Contract!vars)
    BY <2>5, Enters, Elsewhere DEF LockSpin, Goto, AfterSpin, Holding, Contract!Next
  <2>6. ASSUME NEW p \in Procs, LockAddWaiter(p) PROVE UNCHANGED Contract!vars
    BY <2>6, Elsewhere DEF LockAddWaiter, Goto, Holding
  <2>7. ASSUME NEW p \in Procs, LockRecheck(p) PROVE [Contract!Next]_(Contract!vars)
    BY <2>7, Enters, Elsewhere DEF LockRecheck, Goto, Holding, Contract!Next
  <2>8. ASSUME NEW p \in Procs, LockSubWaiter(p) PROVE UNCHANGED Contract!vars
    BY <2>8, Elsewhere DEF LockSubWaiter, Goto, Holding
  <2>9. ASSUME NEW p \in Procs, SemWait(p) \/ SemWaitFails(p)
        PROVE  UNCHANGED Contract!vars
    BY <2>9, Elsewhere DEF SemWait, SemWaitFails, Goto, Holding
  <2>10. ASSUME NEW p \in Procs, Unlock(p) PROVE Contract!Next
    <3>1. lock = p /\ lock' = None
      BY <2>10 DEF Unlock, Goto, Holding, OwnerIsKnown
    <3>2. At(Holding)' = At(Holding) \ {p} /\ p \in At(Holding)
      BY <2>10 DEF Unlock, Goto, At, Holding, TypeOK
    <3> QED
      BY <3>1, <3>2 DEF Contract!Next, Contract!Release
  <2>11. ASSUME NEW p \in Procs, WakeupDecrement(p) \/ WakeupPost(p)
         PROVE  UNCHANGED Contract!vars
    BY <2>11, Elsewhere DEF WakeupDecrement, WakeupPost, Goto, Holding
  <2>12. ASSUME NEW p \in Procs, Crash(p) PROVE [Contract!Next]_(Contract!vars)
    <3>1. CASE pc[p] \in Holding
      <4>1. At(Holding)' = At(Holding) \ {p} /\ p \in At(Holding)
        BY <2>12, <3>1 DEF Crash, At, Holding, TypeOK
      <4> QED
        BY <2>12, <4>1 DEF Crash, Contract!Next, Contract!Die
    <3>2. CASE pc[p] \notin Holding
      BY <2>12, <3>2, Elsewhere DEF Crash, Holding
    <3> QED
      BY <3>1, <3>2
  <2>13. ASSUME NEW p \in Procs, Reap(p) PROVE [Contract!Next]_(Contract!vars)
    <3>1. At(Holding)' = At(Holding) /\ p \notin At(Holding)
      BY <2>13 DEF Reap, At, Holding, TypeOK
    <3>2. CASE lock = p
      BY <2>13, <3>1, <3>2 DEF Reap, Contract!Next, Contract!Reclaim
    <3>3. CASE lock # p
      BY <2>13, <3>1, <3>3 DEF Reap, Contract!vars
    <3> QED
      BY <3>2, <3>3
  <2>14. ASSUME NEW p \in Procs, Spawn(p) PROVE UNCHANGED Contract!vars
    BY <2>14, Elsewhere DEF Spawn, Holding
  <2> QED
    BY <2>1, <2>2, <2>3, <2>4, <2>5, <2>6, <2>7, <2>8, <2>9, <2>10, <2>11,
       <2>12, <2>13, <2>14 DEF Next, Progress
<1> QED
  BY <1>1, <1>2, TypeCorrect, OwnerInvariant, PTL
     DEF Spec, ImplementsMutex, Contract!Spec

-----------------------------------------------------------------------------
\* The processes at some points are finitely many, and their number changes
\* with the one process that moves.
LEMMA AtFinite ==
  ASSUME NEW T
  PROVE  /\ IsFiniteSet(At(T))
         /\ Cardinality(At(T)) \in Nat
         /\ Cardinality(At(T)) = 0 <=> At(T) = {}
BY CountBounds, ShmtxAssumption DEF At, Members, Count

\* One process of ngx_shmtx_lock() or ngx_shmtx_wakeup() moves: the number of
\* processes at some points changes with it.
LEMMA Moved ==
  ASSUME TypeOK, NEW p \in Procs, NEW to, NEW T,
         pc' = [pc EXCEPT ![p] = to]
  PROVE  Cardinality(At(T)') = Cardinality(At(T)) - In(pc[p], T) + In(to, T)
<1>1. pc = [q \in Procs |-> pc[q]]
  BY DEF TypeOK
<1> QED
  <2>1. Count([pc EXCEPT ![p] = to], Procs, T)
          = Count(pc, Procs, T) - In(pc[p], T) + In(to, T)
    BY <1>1, CountMoved, ShmtxAssumption
  <2>2. At(T) = Members(pc, Procs, T) /\ At(T)' = Members(pc', Procs, T)
    BY DEF At, Members
  <2> QED
    BY <2>1, <2>2 DEF Count

\* What a process at a point adds to the difference between the processes that
\* may block and the tokens that are about to be posted.
Charge(point) ==
  In(point, {"recheck", "sleep", "sub"}) - In(point, {"post"})

\* A step of one process keeps WaitersCounted when the counters grow by at
\* least what the process's move adds.
LEMMA CountStep ==
  ASSUME TypeOK, WaitersCounted,
         NEW p \in Procs, NEW to, pc' = [pc EXCEPT ![p] = to],
         wait' \in Int, sem' \in Nat,
         Charge(to) - Charge(pc[p]) <= (wait' - wait) + (sem' - sem)
  PROVE  WaitersCounted'
<1> DEFINE Blocked == {"recheck", "sleep", "sub"}
           b == Cardinality(At(Blocked))
           c == Cardinality(At({"post"}))
<1>1. /\ b \in Nat /\ c \in Nat /\ wait \in Int /\ sem \in Nat
      /\ b <= wait + sem + c
  BY AtFinite DEF TypeOK, WaitersCounted
<1>2. Cardinality(At(Blocked)') = b - In(pc[p], Blocked) + In(to, Blocked)
  BY Moved
<1>3. Cardinality(At({"post"})') = c - In(pc[p], {"post"}) + In(to, {"post"})
  BY Moved
<1>4. \A point : /\ Charge(point) = In(point, Blocked) - In(point, {"post"})
                 /\ In(point, Blocked) \in Int /\ In(point, {"post"}) \in Int
  BY DEF Charge, In
<1>5. Cardinality(At(Blocked)') <= wait' + sem' + Cardinality(At({"post"})')
  <2> HIDE DEF b, c
  <2> QED
    BY <1>1, <1>2, <1>3, <1>4
<1> QED
  BY <1>5 DEF WaitersCounted

\* The counting invariant: every process that may block is matched by a unit
\* of mtx->wait, a token in the semaphore or a token about to be posted, as
\* long as no process dies between ngx_shmtx_wakeup()'s decrement and its
\* sem_post().
THEOREM CountInvariant ==
  ASSUME "post" \notin CrashAt
  PROVE  Spec => []WaitersCounted
<1>1. Init => WaitersCounted
  <2> SUFFICES ASSUME Init PROVE WaitersCounted
    OBVIOUS
  <2>1. At({"recheck", "sleep", "sub"}) = {} /\ At({"post"}) = {}
    BY DEF Init, At
  <2> QED
    BY <2>1, FS_EmptySet DEF Init, WaitersCounted
<1>2. TypeOK /\ WaitersCounted /\ [Next]_vars => WaitersCounted'
  <2> SUFFICES ASSUME TypeOK, WaitersCounted, [Next]_vars
               PROVE  WaitersCounted'
    OBVIOUS
  <2>1. wait \in Int /\ sem \in Nat
    BY DEF TypeOK
  <2>2. CASE UNCHANGED vars
    BY <2>2 DEF vars, WaitersCounted, At
  <2>3. ASSUME NEW p \in Procs, Trylock(p) PROVE WaitersCounted'
    <3> DEFINE to == "cs"
    <3>1. pc' = [pc EXCEPT ![p] = to]
      BY <2>1, <2>3 DEF Trylock, Goto
    <3>2. wait' \in Int /\ sem' \in Nat
      BY <2>1, <2>3 DEF Trylock, Goto
    <3>3. Charge(to) - Charge(pc[p]) <= (wait' - wait) + (sem' - sem)
      BY <2>1, <2>3 DEF Trylock, Goto, Charge, In
    <3> HIDE DEF to
    <3> QED
      BY <3>1, <3>2, <3>3, CountStep
  <2>4. ASSUME NEW p \in Procs, LockCall(p) PROVE WaitersCounted'
    <3> DEFINE to == "try"
    <3>1. pc' = [pc EXCEPT ![p] = to]
      BY <2>1, <2>4 DEF LockCall, Goto
    <3>2. wait' \in Int /\ sem' \in Nat
      BY <2>1, <2>4 DEF LockCall, Goto
    <3>3. Charge(to) - Charge(pc[p]) <= (wait' - wait) + (sem' - sem)
      BY <2>1, <2>4 DEF LockCall, Goto, Charge, In
    <3> HIDE DEF to
    <3> QED
      BY <3>1, <3>2, <3>3, CountStep
  <2>5. ASSUME NEW p \in Procs, LockTry(p) PROVE WaitersCounted'
    <3> DEFINE to == IF lock = None THEN "cs"
                     ELSE IF SpinRounds > 0 THEN "spin" ELSE AfterSpin
    <3>1. pc' = [pc EXCEPT ![p] = to]
      BY <2>1, <2>5 DEF LockTry, Goto, AfterSpin
    <3>2. wait' \in Int /\ sem' \in Nat
      BY <2>1, <2>5 DEF LockTry, Goto, AfterSpin
    <3>3. Charge(to) - Charge(pc[p]) <= (wait' - wait) + (sem' - sem)
      BY <2>1, <2>5 DEF LockTry, Goto, AfterSpin, Charge, In
    <3> HIDE DEF to
    <3> QED
      BY <3>1, <3>2, <3>3, CountStep
  <2>6. ASSUME NEW p \in Procs, LockSpin(p) PROVE WaitersCounted'
    <3> DEFINE to == IF lock = None THEN "cs"
                     ELSE IF spins[p] > 1 THEN "spin" ELSE AfterSpin
    <3>1. pc' = [pc EXCEPT ![p] = to]
      BY <2>1, <2>6 DEF LockSpin, Goto, AfterSpin
    <3>2. wait' \in Int /\ sem' \in Nat
      BY <2>1, <2>6 DEF LockSpin, Goto, AfterSpin
    <3>3. Charge(to) - Charge(pc[p]) <= (wait' - wait) + (sem' - sem)
      BY <2>1, <2>6 DEF LockSpin, Goto, AfterSpin, Charge, In
    <3> HIDE DEF to
    <3> QED
      BY <3>1, <3>2, <3>3, CountStep
  <2>7. ASSUME NEW p \in Procs, LockAddWaiter(p) PROVE WaitersCounted'
    <3> DEFINE to == "recheck"
    <3>1. pc' = [pc EXCEPT ![p] = to]
      BY <2>1, <2>7 DEF LockAddWaiter, Goto
    <3>2. wait' \in Int /\ sem' \in Nat
      BY <2>1, <2>7 DEF LockAddWaiter, Goto
    <3>3. Charge(to) - Charge(pc[p]) <= (wait' - wait) + (sem' - sem)
      BY <2>1, <2>7 DEF LockAddWaiter, Goto, Charge, In
    <3> HIDE DEF to
    <3> QED
      BY <3>1, <3>2, <3>3, CountStep
  <2>8. ASSUME NEW p \in Procs, LockRecheck(p) PROVE WaitersCounted'
    <3> DEFINE to == IF lock = None THEN "sub" ELSE "sleep"
    <3>1. pc' = [pc EXCEPT ![p] = to]
      BY <2>1, <2>8 DEF LockRecheck, Goto
    <3>2. wait' \in Int /\ sem' \in Nat
      BY <2>1, <2>8 DEF LockRecheck, Goto
    <3>3. Charge(to) - Charge(pc[p]) <= (wait' - wait) + (sem' - sem)
      BY <2>1, <2>8 DEF LockRecheck, Goto, Charge, In
    <3> HIDE DEF to
    <3> QED
      BY <3>1, <3>2, <3>3, CountStep
  <2>9. ASSUME NEW p \in Procs, LockSubWaiter(p) PROVE WaitersCounted'
    <3> DEFINE to == "cs"
    <3>1. pc' = [pc EXCEPT ![p] = to]
      BY <2>1, <2>9 DEF LockSubWaiter, Goto
    <3>2. wait' \in Int /\ sem' \in Nat
      BY <2>1, <2>9 DEF LockSubWaiter, Goto
    <3>3. Charge(to) - Charge(pc[p]) <= (wait' - wait) + (sem' - sem)
      BY <2>1, <2>9 DEF LockSubWaiter, Goto, Charge, In
    <3> HIDE DEF to
    <3> QED
      BY <3>1, <3>2, <3>3, CountStep
  <2>10. ASSUME NEW p \in Procs, SemWait(p) PROVE WaitersCounted'
    <3> DEFINE to == "try"
    <3>1. pc' = [pc EXCEPT ![p] = to]
      BY <2>1, <2>10 DEF SemWait, Goto
    <3>2. wait' \in Int /\ sem' \in Nat
      BY <2>1, <2>10 DEF SemWait, Goto
    <3>3. Charge(to) - Charge(pc[p]) <= (wait' - wait) + (sem' - sem)
      BY <2>1, <2>10 DEF SemWait, Goto, Charge, In
    <3> HIDE DEF to
    <3> QED
      BY <3>1, <3>2, <3>3, CountStep
  <2>11. ASSUME NEW p \in Procs, SemWaitFails(p) PROVE WaitersCounted'
    <3> DEFINE to == "try"
    <3>1. pc' = [pc EXCEPT ![p] = to]
      BY <2>1, <2>11 DEF SemWaitFails, Goto
    <3>2. wait' \in Int /\ sem' \in Nat
      BY <2>1, <2>11 DEF SemWaitFails, Goto
    <3>3. Charge(to) - Charge(pc[p]) <= (wait' - wait) + (sem' - sem)
      BY <2>1, <2>11 DEF SemWaitFails, Goto, Charge, In
    <3> HIDE DEF to
    <3> QED
      BY <3>1, <3>2, <3>3, CountStep
  <2>12. ASSUME NEW p \in Procs, Unlock(p) PROVE WaitersCounted'
    <3> DEFINE to == IF lock = p /\ Semaphore THEN "wake" ELSE "idle"
    <3>1. pc' = [pc EXCEPT ![p] = to]
      BY <2>1, <2>12 DEF Unlock, Goto
    <3>2. wait' \in Int /\ sem' \in Nat
      BY <2>1, <2>12 DEF Unlock, Goto
    <3>3. Charge(to) - Charge(pc[p]) <= (wait' - wait) + (sem' - sem)
      BY <2>1, <2>12 DEF Unlock, Goto, Charge, In
    <3> HIDE DEF to
    <3> QED
      BY <3>1, <3>2, <3>3, CountStep
  <2>13. ASSUME NEW p \in Procs, WakeupDecrement(p) PROVE WaitersCounted'
    <3> DEFINE to == IF wait > 0 THEN "post" ELSE "idle"
    <3>1. pc' = [pc EXCEPT ![p] = to]
      BY <2>1, <2>13 DEF WakeupDecrement, Goto
    <3>2. wait' \in Int /\ sem' \in Nat
      BY <2>1, <2>13 DEF WakeupDecrement, Goto
    <3>3. Charge(to) - Charge(pc[p]) <= (wait' - wait) + (sem' - sem)
      BY <2>1, <2>13 DEF WakeupDecrement, Goto, Charge, In
    <3> HIDE DEF to
    <3> QED
      BY <3>1, <3>2, <3>3, CountStep
  <2>14. ASSUME NEW p \in Procs, WakeupPost(p) PROVE WaitersCounted'
    <3> DEFINE to == "idle"
    <3>1. pc' = [pc EXCEPT ![p] = to]
      BY <2>1, <2>14 DEF WakeupPost, Goto
    <3>2. wait' \in Int /\ sem' \in Nat
      BY <2>1, <2>14 DEF WakeupPost, Goto
    <3>3. Charge(to) - Charge(pc[p]) <= (wait' - wait) + (sem' - sem)
      BY <2>1, <2>14 DEF WakeupPost, Goto, Charge, In
    <3> HIDE DEF to
    <3> QED
      BY <3>1, <3>2, <3>3, CountStep
  <2>15. ASSUME NEW p \in Procs, Crash(p) PROVE WaitersCounted'
    <3> DEFINE to == "zombie"
    <3>1. pc' = [pc EXCEPT ![p] = to]
      BY <2>1, <2>15 DEF Crash
    <3>2. wait' \in Int /\ sem' \in Nat
      BY <2>1, <2>15 DEF Crash
    <3>3. Charge(to) - Charge(pc[p]) <= (wait' - wait) + (sem' - sem)
      BY <2>1, <2>15, "post" \notin CrashAt DEF Crash, Charge, In
    <3> HIDE DEF to
    <3> QED
      BY <3>1, <3>2, <3>3, CountStep
  <2>16. ASSUME NEW p \in Procs, Spawn(p) PROVE WaitersCounted'
    <3> DEFINE to == "idle"
    <3>1. pc' = [pc EXCEPT ![p] = to]
      BY <2>1, <2>16 DEF Spawn
    <3>2. wait' \in Int /\ sem' \in Nat
      BY <2>1, <2>16 DEF Spawn
    <3>3. Charge(to) - Charge(pc[p]) <= (wait' - wait) + (sem' - sem)
      BY <2>1, <2>16 DEF Spawn, Charge, In
    <3> HIDE DEF to
    <3> QED
      BY <3>1, <3>2, <3>3, CountStep
  <2>17. ASSUME NEW p \in Procs, Reap(p) PROVE WaitersCounted'
    <3>1. /\ At({"recheck", "sleep", "sub"})' = At({"recheck", "sleep", "sub"})
          /\ At({"post"})' = At({"post"})
      BY <2>17, ShmtxAssumption DEF Reap, At, TypeOK
    <3> QED
      BY <2>17, <3>1 DEF Reap, WaitersCounted
  <2> QED
    BY <2>2, <2>3, <2>4, <2>5, <2>6, <2>7, <2>8, <2>9,
       <2>10, <2>11, <2>12, <2>13, <2>14, <2>15, <2>16, <2>17 DEF Next, Progress
<1> QED
  BY <1>1, <1>2, TypeCorrect, PTL DEF Spec

\* Without a semaphore ngx_shmtx_lock() never reaches the code that counts
\* waiters and sleeps.
SleepersNeedSemaphore ==
  ~Semaphore => \A p \in Procs : pc[p] \notin {"add", "recheck", "sleep"}

\* A build or a mutex without a semaphore keeps to spinning.
LEMMA SemaphoreInvariant == Spec => []SleepersNeedSemaphore
<1>1. Init => SleepersNeedSemaphore
  BY DEF Init, SleepersNeedSemaphore
<1>2. TypeOK /\ SleepersNeedSemaphore /\ [Next]_vars => SleepersNeedSemaphore'
  <2> SUFFICES ASSUME TypeOK, SleepersNeedSemaphore, [Next]_vars, ~Semaphore,
                      NEW q \in Procs
               PROVE  pc'[q] \notin {"add", "recheck", "sleep"}
    BY DEF SleepersNeedSemaphore
  <2>1. CASE UNCHANGED vars
    BY <2>1 DEF vars, SleepersNeedSemaphore
  <2>2. CASE Next
    BY <2>2
    DEF Next, Progress, Trylock, LockCall, LockTry, LockSpin, AfterSpin,
       LockAddWaiter, LockRecheck, LockSubWaiter, SemWait, SemWaitFails, Unlock,
       WakeupDecrement, WakeupPost, Crash, Reap, Spawn, Goto, TypeOK,
       SleepersNeedSemaphore
  <2> QED
    BY <2>1, <2>2
<1> QED
  BY <1>1, <1>2, TypeCorrect, PTL DEF Spec

\* As long as no worker dies in ngx_shmtx_wakeup() or between the return of
\* sem_wait() and the next attempt, a free mutex with a sleeper always has a
\* wake-up on its way, for any number of workers.
THEOREM WakeupsKept ==
  ASSUME CrashAt \cap WakeupWindow = {}
  PROVE  Spec => []NoLostWakeup
<1>1. "post" \notin CrashAt
  BY DEF WakeupWindow
<1>2. Init => NoLostWakeup
  BY DEF Init, NoLostWakeup, At
<1>3. TypeOK /\ SleepersNeedSemaphore /\ WaitersCounted /\ NoLostWakeup
        /\ [Next]_vars
        => NoLostWakeup'
  <2> SUFFICES ASSUME TypeOK, SleepersNeedSemaphore, WaitersCounted,
                      NoLostWakeup, [Next]_vars
               PROVE  NoLostWakeup'
    OBVIOUS
  <2> USE DEF NoLostWakeup, At, WakeupWindow, TypeOK
  <2>1. CASE UNCHANGED vars
    BY <2>1 DEF vars
  <2>2. ASSUME NEW p \in Procs, Trylock(p) PROVE NoLostWakeup'
    BY <2>2, ShmtxAssumption DEF Trylock, Goto
  <2>3. ASSUME NEW p \in Procs, LockCall(p) PROVE NoLostWakeup'
    BY <2>3 DEF LockCall, Goto
  <2>4. ASSUME NEW p \in Procs, LockTry(p) PROVE NoLostWakeup'
    BY <2>4, ShmtxAssumption DEF LockTry, Goto, AfterSpin
  <2>5. ASSUME NEW p \in Procs, LockSpin(p) PROVE NoLostWakeup'
    BY <2>5, ShmtxAssumption DEF LockSpin, Goto, AfterSpin
  <2>6. ASSUME NEW p \in Procs, LockAddWaiter(p) PROVE NoLostWakeup'
    BY <2>6 DEF LockAddWaiter, Goto
  <2>7. ASSUME NEW p \in Procs, LockRecheck(p) PROVE NoLostWakeup'
    BY <2>7, ShmtxAssumption DEF LockRecheck, Goto
  <2>8. ASSUME NEW p \in Procs, LockSubWaiter(p) PROVE NoLostWakeup'
    BY <2>8 DEF LockSubWaiter, Goto
  <2>9. ASSUME NEW p \in Procs, SemWait(p) PROVE NoLostWakeup'
    BY <2>9 DEF SemWait, Goto
  <2>10. ASSUME NEW p \in Procs, SemWaitFails(p) PROVE NoLostWakeup'
    BY <2>10 DEF SemWaitFails, Goto
  <2>11. ASSUME NEW p \in Procs, Unlock(p) PROVE NoLostWakeup'
    BY <2>11, ShmtxAssumption DEF Unlock, Goto, SleepersNeedSemaphore
  <2>12. ASSUME NEW p \in Procs, WakeupPost(p) PROVE NoLostWakeup'
    BY <2>12 DEF WakeupPost, Goto
  <2>13. ASSUME NEW p \in Procs, Crash(p) PROVE NoLostWakeup'
    BY <2>13, CrashAt \cap WakeupWindow = {} DEF Crash
  <2>14. ASSUME NEW p \in Procs, Reap(p) PROVE NoLostWakeup'
    BY <2>14, ShmtxAssumption DEF Reap, SleepersNeedSemaphore
  <2>15. ASSUME NEW p \in Procs, Spawn(p) PROVE NoLostWakeup'
    BY <2>15 DEF Spawn
  <2>16. ASSUME NEW p \in Procs, WakeupDecrement(p) PROVE NoLostWakeup'
    <3>1. CASE wait > 0
      BY <2>16, <3>1 DEF WakeupDecrement, Goto
    <3>2. CASE ~(wait > 0)
      <4>1. SUFFICES ASSUME NEW q \in Procs, pc'[q] = "sleep", sem' = 0
                     PROVE  \E r \in Procs : pc'[r] = "post"
        BY <2>16, <3>2 DEF WakeupDecrement, Goto
      <4>2. q \in At({"recheck", "sleep", "sub"})
        BY <2>16, <3>2, <4>1 DEF WakeupDecrement, Goto
      <4>3. Cardinality(At({"recheck", "sleep", "sub"})) \in Nat \ {0}
        BY <4>2, AtFinite
      <4>4. At({"post"}) # {}
        BY <2>16, <3>2, <4>1, <4>3, AtFinite
        DEF WaitersCounted, WakeupDecrement
      <4> QED
        BY <2>16, <3>2, <4>4 DEF WakeupDecrement, Goto
    <3> QED
      BY <3>1, <3>2
  <2> QED
    BY <2>1, <2>2, <2>3, <2>4, <2>5, <2>6, <2>7, <2>8, <2>9,
       <2>10, <2>11, <2>12, <2>13, <2>14, <2>15, <2>16 DEF Next, Progress
<1> QED
  BY <1>1, <1>2, <1>3, TypeCorrect, SemaphoreInvariant, CountInvariant, PTL
     DEF Spec

=============================================================================
