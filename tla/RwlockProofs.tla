---------------------------- MODULE RwlockProofs ----------------------------
(***************************************************************************)
(* Proofs about Rwlock for any number of processes smaller than the        *)
(* writer's value.  The inductive invariant is the conjunction of the type *)
(* invariant, WriterAlone and WordCounts: the word tells a writer from     *)
(* readers only because it counts exactly, and it counts exactly only      *)
(* because a writer is alone.                                              *)
(***************************************************************************)
EXTENDS Rwlock, Counting

\* What Counting calls the number of processes at some points.
Reading == Count(pc, Procs, ReadHeld)

IInv == TypeOK /\ WriterAlone /\ WordCounts

\* The readers are fewer than the writer's value, so that ngx_rwlock_unlock()
\* can tell them apart.
LEMMA WordRange ==
  ASSUME TypeOK
  PROVE  /\ WLOCK \in Nat /\ 2^Width = WLOCK + 1
         /\ Reading \in Nat /\ Reading < WLOCK
         /\ Reading = 0 <=> \A p \in Procs : pc[p] \notin ReadHeld
         /\ pc = [p \in Procs |-> pc[p]]
<1>1. /\ Cardinality(Procs) \in Nat
      /\ Reading \in Nat /\ Reading <= Cardinality(Procs)
      /\ Reading = 0 <=> Members(pc, Procs, ReadHeld) = {}
  BY CountBounds, RwlockAssumption DEF Reading
<1> QED
  BY <1>1, RwlockAssumption DEF WLOCK, Members, TypeOK

\* One process moves: the number of readers changes with it.
LEMMA ReadersMoved ==
  ASSUME TypeOK, NEW p \in Procs, NEW to, pc' = [pc EXCEPT ![p] = to]
  PROVE  Reading' = Reading - In(pc[p], ReadHeld) + In(to, ReadHeld)
<1>1. pc = [q \in Procs |-> pc[q]]
  BY DEF TypeOK
<1> QED
  BY <1>1, CountMoved, RwlockAssumption DEF Reading

\* WordCounts in terms of Reading: the word is NGX_RWLOCK_WLOCK or the number
\* of readers.
LEMMA WordIsReading ==
  WordCounts <=> IF \E p \in Procs : pc[p] \in WriteHeld
                 THEN lock = WLOCK ELSE lock = Reading
BY DEF WordCounts, Reading, Count, Members

\* The type invariant, the exclusion of writers and the exactness of the
\* count are kept by every step of ngx_rwlock_wlock(), ngx_rwlock_rlock(),
\* ngx_rwlock_unlock() and ngx_rwlock_downgrade().
LEMMA Inductive == Spec => []IInv
<1>1. Init => IInv
  <2> SUFFICES ASSUME Init PROVE IInv
    OBVIOUS
  <2>1. /\ 0 \in 0..WLOCK /\ MaxCalls \in Nat
    BY RwlockAssumption, FS_CardinalityType DEF WLOCK
  <2>2. TypeOK
    BY <2>1 DEF Init, TypeOK, Points
  <2>3. WriterAlone
    BY DEF Init, WriterAlone, WriteHeld
  <2>4. {p \in Procs : pc[p] \in ReadHeld} = {}
    BY DEF Init, ReadHeld
  <2> QED
    BY <2>2, <2>3, <2>4, FS_EmptySet DEF IInv, Init, WordCounts, WriteHeld
<1>2. IInv /\ [Next]_vars => IInv'
  <2> SUFFICES ASSUME IInv, [Next]_vars PROVE IInv'
    OBVIOUS
  <2>0. TypeOK /\ WriterAlone /\ WordCounts
    BY DEF IInv
  <2>1. /\ WLOCK \in Nat /\ 2^Width = WLOCK + 1
        /\ Reading \in Nat /\ Reading < WLOCK
        /\ Reading = 0 <=> \A p \in Procs : pc[p] \notin ReadHeld
    BY <2>0, WordRange
  <2>2. IF \E p \in Procs : pc[p] \in WriteHeld
        THEN lock = WLOCK ELSE lock = Reading
    BY <2>0, WordIsReading
  <2>3. CASE UNCHANGED vars
    BY <2>0, <2>3 DEF IInv, vars, TypeOK, WriterAlone, WordCounts
  <2>4. ASSUME NEW p \in Procs, WlockCall(p) PROVE IInv'
    <3> DEFINE to == "wlock"
    <3>1. pc' = [pc EXCEPT ![p] = to]
      BY <2>4 DEF WlockCall, Call, Goto
    <3>2. Reading' = Reading - In(pc[p], ReadHeld) + In(to, ReadHeld)
      BY <2>0, <3>1, ReadersMoved
    <3>3. WriterAlone'
      BY <2>0, <2>1, <2>2, <2>4, <3>1
      DEF TypeOK, WriterAlone, WlockCall, Call, Goto, ReadHeld, WriteHeld
    <3>4. Reading' \in Nat /\ lock' \in 0..WLOCK
          /\ IF \E q \in Procs : pc'[q] \in WriteHeld
             THEN lock' = WLOCK ELSE lock' = Reading'
      BY <2>0, <2>1, <2>2, <2>4, <3>1, <3>2
      DEF TypeOK, WriterAlone, WlockCall, Call, Goto, ReadHeld, WriteHeld,
          In
    <3>5. TypeOK'
      BY <2>0, <2>1, <2>4, <3>4, RwlockAssumption
      DEF TypeOK, WlockCall, Call, Goto, Points, ReadHeld, WriteHeld
    <3> QED
      BY <3>3, <3>4, <3>5 DEF IInv, WordCounts, Reading, Count, Members
  <2>5. ASSUME NEW p \in Procs, RlockCall(p) PROVE IInv'
    <3> DEFINE to == "rlock"
    <3>1. pc' = [pc EXCEPT ![p] = to]
      BY <2>5 DEF RlockCall, Call, Goto
    <3>2. Reading' = Reading - In(pc[p], ReadHeld) + In(to, ReadHeld)
      BY <2>0, <3>1, ReadersMoved
    <3>3. WriterAlone'
      BY <2>0, <2>1, <2>2, <2>5, <3>1
      DEF TypeOK, WriterAlone, RlockCall, Call, Goto, ReadHeld, WriteHeld
    <3>4. Reading' \in Nat /\ lock' \in 0..WLOCK
          /\ IF \E q \in Procs : pc'[q] \in WriteHeld
             THEN lock' = WLOCK ELSE lock' = Reading'
      BY <2>0, <2>1, <2>2, <2>5, <3>1, <3>2
      DEF TypeOK, WriterAlone, RlockCall, Call, Goto, ReadHeld, WriteHeld,
          In
    <3>5. TypeOK'
      BY <2>0, <2>1, <2>5, <3>4, RwlockAssumption
      DEF TypeOK, RlockCall, Call, Goto, Points, ReadHeld, WriteHeld
    <3> QED
      BY <3>3, <3>4, <3>5 DEF IInv, WordCounts, Reading, Count, Members
  <2>6. ASSUME NEW p \in Procs, Wlock(p) PROVE IInv'
    <3> DEFINE to == "writing"
    <3>1. pc' = [pc EXCEPT ![p] = to]
      BY <2>6 DEF Wlock, Goto
    <3>2. Reading' = Reading - In(pc[p], ReadHeld) + In(to, ReadHeld)
      BY <2>0, <3>1, ReadersMoved
    <3>3. WriterAlone'
      BY <2>0, <2>1, <2>2, <2>6, <3>1
      DEF TypeOK, WriterAlone, Wlock, Goto, ReadHeld, WriteHeld
    <3>4. Reading' \in Nat /\ lock' \in 0..WLOCK
          /\ IF \E q \in Procs : pc'[q] \in WriteHeld
             THEN lock' = WLOCK ELSE lock' = Reading'
      BY <2>0, <2>1, <2>2, <2>6, <3>1, <3>2
      DEF TypeOK, WriterAlone, Wlock, Goto, ReadHeld, WriteHeld, In
    <3>5. TypeOK'
      BY <2>0, <2>1, <2>6, <3>4, RwlockAssumption
      DEF TypeOK, Wlock, Goto, Points, ReadHeld, WriteHeld
    <3> QED
      BY <3>3, <3>4, <3>5 DEF IInv, WordCounts, Reading, Count, Members
  <2>7. ASSUME NEW p \in Procs, RlockRead(p) PROVE IInv'
    <3> DEFINE to == "rcas"
    <3>1. pc' = [pc EXCEPT ![p] = to]
      BY <2>7 DEF RlockRead, Goto
    <3>2. Reading' = Reading - In(pc[p], ReadHeld) + In(to, ReadHeld)
      BY <2>0, <3>1, ReadersMoved
    <3>3. WriterAlone'
      BY <2>0, <2>1, <2>2, <2>7, <3>1
      DEF TypeOK, WriterAlone, RlockRead, Goto, ReadHeld, WriteHeld
    <3>4. Reading' \in Nat /\ lock' \in 0..WLOCK
          /\ IF \E q \in Procs : pc'[q] \in WriteHeld
             THEN lock' = WLOCK ELSE lock' = Reading'
      BY <2>0, <2>1, <2>2, <2>7, <3>1, <3>2
      DEF TypeOK, WriterAlone, RlockRead, Goto, ReadHeld, WriteHeld, In
    <3>5. TypeOK'
      BY <2>0, <2>1, <2>7, <3>4, RwlockAssumption
      DEF TypeOK, RlockRead, Goto, Points, ReadHeld, WriteHeld
    <3> QED
      BY <3>3, <3>4, <3>5 DEF IInv, WordCounts, Reading, Count, Members
  <2>8. ASSUME NEW p \in Procs, RlockCas(p) PROVE IInv'
    <3> DEFINE to == IF readers[p] # WLOCK /\ lock = readers[p]
                     THEN "reading" ELSE "rlock"
    <3>1. pc' = [pc EXCEPT ![p] = to]
      BY <2>8 DEF RlockCas, Goto
    <3>2. Reading' = Reading - In(pc[p], ReadHeld) + In(to, ReadHeld)
      BY <2>0, <3>1, ReadersMoved
    <3>3. WriterAlone'
      BY <2>0, <2>1, <2>2, <2>8, <3>1
      DEF TypeOK, WriterAlone, RlockCas, Goto, ReadHeld, WriteHeld
    <3>4. Reading' \in Nat /\ lock' \in 0..WLOCK
          /\ IF \E q \in Procs : pc'[q] \in WriteHeld
             THEN lock' = WLOCK ELSE lock' = Reading'
      BY <2>0, <2>1, <2>2, <2>8, <3>1, <3>2
      DEF TypeOK, WriterAlone, RlockCas, Goto, ReadHeld, WriteHeld, In
    <3>5. TypeOK'
      BY <2>0, <2>1, <2>8, <3>4, RwlockAssumption
      DEF TypeOK, RlockCas, Goto, Points, ReadHeld, WriteHeld
    <3> QED
      BY <3>3, <3>4, <3>5 DEF IInv, WordCounts, Reading, Count, Members
  <2>9. ASSUME NEW p \in Procs, UnlockTest(p) PROVE IInv'
    <3> DEFINE to == IF lock = WLOCK THEN "clear" ELSE "sub"
    <3>1. pc' = [pc EXCEPT ![p] = to]
      BY <2>9 DEF UnlockTest
    <3>2. Reading' = Reading - In(pc[p], ReadHeld) + In(to, ReadHeld)
      BY <2>0, <3>1, ReadersMoved
    <3>3. WriterAlone'
      BY <2>0, <2>1, <2>2, <2>9, <3>1
      DEF TypeOK, WriterAlone, UnlockTest, ReadHeld, WriteHeld
    <3>4. Reading' \in Nat /\ lock' \in 0..WLOCK
          /\ IF \E q \in Procs : pc'[q] \in WriteHeld
             THEN lock' = WLOCK ELSE lock' = Reading'
      BY <2>0, <2>1, <2>2, <2>9, <3>1, <3>2
      DEF TypeOK, WriterAlone, UnlockTest, ReadHeld, WriteHeld, In
    <3>5. TypeOK'
      BY <2>0, <2>1, <2>9, <3>4, RwlockAssumption
      DEF TypeOK, UnlockTest, Points, ReadHeld, WriteHeld
    <3> QED
      BY <3>3, <3>4, <3>5 DEF IInv, WordCounts, Reading, Count, Members
  <2>10. ASSUME NEW p \in Procs, UnlockWrite(p) PROVE IInv'
    <3> DEFINE to == "idle"
    <3>1. pc' = [pc EXCEPT ![p] = to]
      BY <2>10 DEF UnlockWrite, Goto
    <3>2. Reading' = Reading - In(pc[p], ReadHeld) + In(to, ReadHeld)
      BY <2>0, <3>1, ReadersMoved
    <3>3. WriterAlone'
      BY <2>0, <2>1, <2>2, <2>10, <3>1
      DEF TypeOK, WriterAlone, UnlockWrite, Goto, ReadHeld, WriteHeld
    <3>4. Reading' \in Nat /\ lock' \in 0..WLOCK
          /\ IF \E q \in Procs : pc'[q] \in WriteHeld
             THEN lock' = WLOCK ELSE lock' = Reading'
      BY <2>0, <2>1, <2>2, <2>10, <3>1, <3>2
      DEF TypeOK, WriterAlone, UnlockWrite, Goto, ReadHeld, WriteHeld, In
    <3>5. TypeOK'
      BY <2>0, <2>1, <2>10, <3>4, RwlockAssumption
      DEF TypeOK, UnlockWrite, Goto, Points, ReadHeld, WriteHeld
    <3> QED
      BY <3>3, <3>4, <3>5 DEF IInv, WordCounts, Reading, Count, Members
  <2>11. ASSUME NEW p \in Procs, UnlockRead(p) PROVE IInv'
    <3> DEFINE to == "idle"
    <3>1. pc' = [pc EXCEPT ![p] = to]
      BY <2>11 DEF UnlockRead, Goto
    <3>2. Reading' = Reading - In(pc[p], ReadHeld) + In(to, ReadHeld)
      BY <2>0, <3>1, ReadersMoved
    <3>3. WriterAlone'
      BY <2>0, <2>1, <2>2, <2>11, <3>1
      DEF TypeOK, WriterAlone, UnlockRead, Goto, ReadHeld, WriteHeld
    <3>4. Reading' \in Nat /\ lock' \in 0..WLOCK
          /\ IF \E q \in Procs : pc'[q] \in WriteHeld
             THEN lock' = WLOCK ELSE lock' = Reading'
      BY <2>0, <2>1, <2>2, <2>11, <3>1, <3>2
      DEF TypeOK, WriterAlone, UnlockRead, Goto, ReadHeld, WriteHeld, In
    <3>5. TypeOK'
      BY <2>0, <2>1, <2>11, <3>4, RwlockAssumption
      DEF TypeOK, UnlockRead, Goto, Points, ReadHeld, WriteHeld
    <3> QED
      BY <3>3, <3>4, <3>5 DEF IInv, WordCounts, Reading, Count, Members
  <2>12. ASSUME NEW p \in Procs, DowngradeTest(p) PROVE IInv'
    <3> DEFINE to == "down"
    <3>1. pc' = [pc EXCEPT ![p] = to]
      BY <2>12 DEF DowngradeTest, Goto
    <3>2. Reading' = Reading - In(pc[p], ReadHeld) + In(to, ReadHeld)
      BY <2>0, <3>1, ReadersMoved
    <3>3. WriterAlone'
      BY <2>0, <2>1, <2>2, <2>12, <3>1
      DEF TypeOK, WriterAlone, DowngradeTest, Goto, ReadHeld, WriteHeld
    <3>4. Reading' \in Nat /\ lock' \in 0..WLOCK
          /\ IF \E q \in Procs : pc'[q] \in WriteHeld
             THEN lock' = WLOCK ELSE lock' = Reading'
      BY <2>0, <2>1, <2>2, <2>12, <3>1, <3>2
      DEF TypeOK, WriterAlone, DowngradeTest, Goto, ReadHeld, WriteHeld, In
    <3>5. TypeOK'
      BY <2>0, <2>1, <2>12, <3>4, RwlockAssumption
      DEF TypeOK, DowngradeTest, Goto, Points, ReadHeld, WriteHeld
    <3> QED
      BY <3>3, <3>4, <3>5 DEF IInv, WordCounts, Reading, Count, Members
  <2>13. ASSUME NEW p \in Procs, Downgrade(p) PROVE IInv'
    <3> DEFINE to == "reading"
    <3>1. pc' = [pc EXCEPT ![p] = to]
      BY <2>13 DEF Downgrade, Goto
    <3>2. Reading' = Reading - In(pc[p], ReadHeld) + In(to, ReadHeld)
      BY <2>0, <3>1, ReadersMoved
    <3>3. WriterAlone'
      BY <2>0, <2>1, <2>2, <2>13, <3>1
      DEF TypeOK, WriterAlone, Downgrade, Goto, ReadHeld, WriteHeld
    <3>4. Reading' \in Nat /\ lock' \in 0..WLOCK
          /\ IF \E q \in Procs : pc'[q] \in WriteHeld
             THEN lock' = WLOCK ELSE lock' = Reading'
      BY <2>0, <2>1, <2>2, <2>13, <3>1, <3>2
      DEF TypeOK, WriterAlone, Downgrade, Goto, ReadHeld, WriteHeld, In
    <3>5. TypeOK'
      BY <2>0, <2>1, <2>13, <3>4, RwlockAssumption
      DEF TypeOK, Downgrade, Goto, Points, ReadHeld, WriteHeld
    <3> QED
      BY <3>3, <3>4, <3>5 DEF IInv, WordCounts, Reading, Count, Members
  <2> QED
    BY <2>3, <2>4, <2>5, <2>6, <2>7, <2>8, <2>9, <2>10, <2>11, <2>12, <2>13
    DEF Next, Progress
<1> QED
  BY <1>1, <1>2, PTL DEF Spec

\* A writer never meets another process in the section it guards.
THEOREM WriterExclusive == Spec => []WriterAlone
BY Inductive, PTL DEF IInv

\* The lock word is the number of readers, or the writer's value exactly
\* when a writer is in.
THEOREM WordExact == Spec => [](TypeOK /\ WordCounts)
BY Inductive, PTL DEF IInv

=============================================================================
