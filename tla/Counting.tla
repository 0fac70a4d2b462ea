------------------------------ MODULE Counting ------------------------------
(***************************************************************************)
(* How many members of a finite set a function sends into another set, and *)
(* how that number changes when the function changes at one point.  The    *)
(* proofs use it to relate a counter in shared memory to the processes     *)
(* that have incremented it.                                               *)
(***************************************************************************)
EXTENDS Integers, FiniteSets, FiniteSetTheorems, TLAPS

Members(f, S, T) == {x \in S : f[x] \in T}

Count(f, S, T) == Cardinality(Members(f, S, T))

\* 1 when point is in T.
In(point, T) == IF point \in T THEN 1 ELSE 0

\* The number is a natural number no larger than the whole set, and 0 only
\* when the function sends nothing there.
LEMMA CountBounds ==
  ASSUME NEW S, IsFiniteSet(S), NEW f, NEW T
  PROVE  /\ IsFiniteSet(Members(f, S, T))
         /\ Count(f, S, T) \in Nat
         /\ Count(f, S, T) = 0 <=> Members(f, S, T) = {}
         /\ Cardinality(S) \in Nat
         /\ Count(f, S, T) <= Cardinality(S)
<1>1. Members(f, S, T) \subseteq S
  BY DEF Members
<1>2. /\ IsFiniteSet(Members(f, S, T))
      /\ Count(f, S, T) <= Cardinality(S)
  BY <1>1, FS_Subset DEF Count
<1> QED
  BY <1>2, FS_CardinalityType, FS_EmptySet DEF Count

\* Changing the function at one point adds what the new value counts for
\* and takes away what the old one did.
LEMMA CountMoved ==
  ASSUME NEW S, IsFiniteSet(S), NEW f, NEW p \in S, NEW to, NEW T,
         f = [x \in S |-> f[x]]
  PROVE  Count([f EXCEPT ![p] = to], S, T)
            = Count(f, S, T) - In(f[p], T) + In(to, T)
<1> DEFINE M == Members(f, S, T)
           N == Members([f EXCEPT ![p] = to], S, T)
<1>1. N = IF to \in T THEN M \cup {p} ELSE M \ {p}
  BY DEF Members
<1>2. p \in M <=> f[p] \in T
  BY DEF Members
<1>3. IsFiniteSet(M) /\ Cardinality(M) \in Nat
  BY CountBounds DEF Count
<1>4. Cardinality(M \cup {p}) = IF p \in M THEN Cardinality(M)
                                           ELSE Cardinality(M) + 1
  BY <1>3, FS_AddElement
<1>5. Cardinality(M \ {p}) = IF p \in M THEN Cardinality(M) - 1
                                        ELSE Cardinality(M)
  BY <1>3, FS_RemoveElement
<1>6. Cardinality(N) = IF to \in T THEN Cardinality(M \cup {p})
                                   ELSE Cardinality(M \ {p})
  BY <1>1
<1> HIDE DEF M, N
<1>7. Cardinality(N) = Cardinality(M) - In(f[p], T) + In(to, T)
  BY <1>2, <1>3, <1>4, <1>5, <1>6 DEF In
<1> QED
  BY <1>7 DEF Count, M, N

=============================================================================
