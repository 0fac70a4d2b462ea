-------------------------- MODULE ThreadPoolProofs --------------------------
(***************************************************************************)
(* Proofs about ThreadPool for any number of threads and of tasks, any     *)
(* queue limit and any period of the counter.                              *)
(***************************************************************************)
EXTENDS ThreadPool, Counting

AllTasks == Tasks \cup {Exit}

\* What appending to a sequence does to its length and its elements.
LEMMA Appended ==
  ASSUME NEW S, NEW s \in Seq(S), NEW x \in S
  PROVE  /\ Append(s, x) \in Seq(S)
         /\ Append(s, x) # <<>>
         /\ Len(s) \in Nat
         /\ Len(Append(s, x)) = Len(s) + 1
  OBVIOUS

\* What taking the head of a sequence leaves.
LEMMA Shortened ==
  ASSUME NEW S, NEW s \in Seq(S), s # <<>>
  PROVE  /\ Head(s) \in S
         /\ Tail(s) \in Seq(S)
         /\ Len(s) \in Nat \ {0}
         /\ Len(Tail(s)) = Len(s) - 1
  OBVIOUS

\* Every variable of ThreadPool keeps its type, and a thread has a task exactly
\* between taking it and handing it back.
THEOREM TypeCorrect == Spec => []TypeOK
<1> USE ThreadPoolAssumption DEF TypeOK, Points, Idle, Busy, pool, notify
<1>0. Cardinality(Threads) \in Nat
  BY FS_CardinalityType
<1>1. Init => TypeOK
  <2> SUFFICES ASSUME Init PROVE TypeOK
    OBVIOUS
  <2>1. active \in [Tasks \cup {Exit} -> BOOLEAN]
    BY Zenon DEF Init
  <2>2. \A t \in Threads : task[t] = None /\ pc[t] = "lock"
    BY DEF Init
  <2>3. /\ queue \in Seq(Tasks \cup {Exit})
        /\ done \in Seq(Tasks) /\ batch \in Seq(Tasks)
    BY DEF Init
  <2>4. /\ pc \in [Threads -> Points]
        /\ task \in [Threads -> Tasks \cup {Exit, None}]
    BY DEF Init
  <2>5. lock \in BOOLEAN /\ edge \in BOOLEAN /\ readable \in BOOLEAN
    BY Zenon DEF Init
  <2>6. waiting = 0 /\ at = "loop" /\ exits = 0 /\ index = 0
    BY Zenon DEF Init
  <2> QED
    BY <1>0, <2>1, <2>2, <2>3, <2>4, <2>5, <2>6
<1>2. TypeOK /\ [Next]_vars => TypeOK'
  <2> SUFFICES ASSUME TypeOK, [Next]_vars
               PROVE  TypeOK'
    OBVIOUS
  <2> USE <1>0
  <2>0. ASSUME NEW k \in AllTasks, Post(k)
        PROVE  /\ queue' \in Seq(AllTasks)
               /\ waiting' \in Int
               /\ active' \in [AllTasks -> BOOLEAN]
               /\ pc' \in [Threads -> Points]
               /\ \A t \in Threads : \/ pc'[t] = pc[t]
                                     \/ pc[t] = "wait" /\ pc'[t] = "woken"
    <3>1. queue' \in Seq(AllTasks)
      BY <2>0, Appended DEF Post, AllTasks
    <3>2. active' \in [AllTasks -> BOOLEAN]
      BY <2>0, Zenon DEF Post, AllTasks
    <3>3. Signal
      BY <2>0 DEF Post
    <3>4. /\ pc' \in [Threads -> Points]
          /\ \A t \in Threads : \/ pc'[t] = pc[t]
                                \/ pc[t] = "wait" /\ pc'[t] = "woken"
      BY <3>3 DEF Signal, Goto
    <3> QED
      BY <2>0, <3>1, <3>2, <3>4 DEF Post
  <2>1. CASE UNCHANGED vars
    BY <2>1 DEF vars
  <2>2. ASSUME NEW k \in Tasks, MainPosts(k) PROVE TypeOK'
    <3>1. k \in AllTasks /\ Post(k)
      BY <2>2 DEF MainPosts, AllTasks
    <3> QED
      BY <2>0, <2>2, <3>1 DEF MainPosts, AllTasks
  <2>3. ASSUME NEW t \in Threads, NEW from \in {"lock", "woken"}, Take(t, from)
        PROVE  /\ queue' \in Seq(AllTasks)
               /\ pc' \in [Threads -> Points]
               /\ task' \in [Threads -> Tasks \cup {Exit, None}]
               /\ \A u \in Threads : /\ task'[u] # None <=> pc'[u] \in Busy
                                     /\ task'[u] = Exit => pc'[u] = "run"
    <3>1. queue' \in Seq(AllTasks) /\ Head(queue) \in AllTasks
      BY <2>3, Shortened DEF Take, AllTasks
    <3>2. /\ task' = [task EXCEPT ![t] = Head(queue)]
          /\ pc' = [pc EXCEPT ![t] = "run"]
      BY <2>3 DEF Take, Goto
    <3> QED
      BY <3>1, <3>2 DEF AllTasks
  <2>4. ASSUME NEW t \in Threads, NEW from \in {"lock", "woken"}, Sleep(t, from)
        PROVE  /\ queue' \in Seq(AllTasks)
               /\ pc' \in [Threads -> Points]
               /\ task' \in [Threads -> Tasks \cup {Exit, None}]
               /\ \A u \in Threads : /\ task'[u] # None <=> pc'[u] \in Busy
                                     /\ task'[u] = Exit => pc'[u] = "run"
    BY <2>4 DEF Sleep, Goto, AllTasks
  <2>5. ASSUME NEW t \in Threads, ThreadLocks(t) PROVE TypeOK'
    BY <2>3, <2>4, <2>5 DEF ThreadLocks, AllTasks
  <2>6. ASSUME NEW t \in Threads, ThreadWakes(t) PROVE TypeOK'
    BY <2>3, <2>4, <2>6 DEF ThreadWakes, AllTasks
  <2>7. ASSUME NEW t \in Threads, ThreadWakesSpuriously(t) PROVE TypeOK'
    BY <2>7 DEF ThreadWakesSpuriously, Goto
  <2>8. ASSUME NEW t \in Threads, ThreadRuns(t) PROVE TypeOK'
    BY <2>8 DEF ThreadRuns, Goto
  <2>9. ASSUME NEW t \in Threads, ThreadExits(t) PROVE TypeOK'
    BY <2>9 DEF ThreadExits, Goto
  <2>10. ASSUME NEW t \in Threads, ThreadHandsBack(t) PROVE TypeOK'
    BY <2>10 DEF ThreadHandsBack, Goto
  <2>11. ASSUME NEW t \in Threads, ThreadNotifies(t) PROVE TypeOK'
    BY <2>11 DEF ThreadNotifies, Goto
  <2>12. CASE MainPolls
    BY <2>12 DEF MainPolls
  <2>13. CASE MainReads
    BY <2>13 DEF MainReads
  <2>14. CASE MainDrains
    BY <2>14 DEF MainDrains
  <2>15. CASE MainCompletes
    BY <2>15, Shortened DEF MainCompletes
  <2>16. CASE MainReturns
    BY <2>16 DEF MainReturns
  <2>17. CASE MainExits
    BY <2>17 DEF MainExits
  <2>18. CASE DestroyPosts
    BY <2>0, <2>18 DEF DestroyPosts, AllTasks
  <2>19. CASE DestroyGivesUp
    BY <2>19 DEF DestroyGivesUp
  <2>20. CASE DestroySpins
    BY <2>20 DEF DestroySpins
  <2>21. CASE DestroyEnds
    BY <2>21 DEF DestroyEnds
  <2> QED
    BY <2>1, <2>2, <2>5, <2>6, <2>7, <2>8, <2>9, <2>10, <2>11, <2>12, <2>13,
       <2>14, <2>15, <2>16, <2>17, <2>18, <2>19, <2>20, <2>21
    DEF Next, ThreadSteps, MainSteps
<1> QED
  BY <1>1, <1>2, PTL DEF Spec

-----------------------------------------------------------------------------
\* The number of threads at some points, by the counting operators.
NumberAt(points) == Count(pc, Threads, points)

\* A thread that moves is taken from the number at the point it leaves and
\* added to the number at the point it reaches.
LEMMA Moved ==
  ASSUME TypeOK, NEW t \in Threads, NEW from, NEW to, Goto(t, from, to), NEW T
  PROVE  /\ NumberAt(T) \in Nat
         /\ NumberAt(T)' \in Nat
         /\ NumberAt(T)' = NumberAt(T) - In(from, T) + In(to, T)
<1>1. pc = [u \in Threads |-> pc[u]]
  BY DEF TypeOK
<1>2. pc[t] = from /\ pc' = [pc EXCEPT ![t] = to]
  BY DEF Goto
<1>3. Count([pc EXCEPT ![t] = to], Threads, T)
        = NumberAt(T) - In(from, T) + In(to, T)
  BY <1>1, <1>2, CountMoved, ThreadPoolAssumption DEF NumberAt
<1>4. NumberAt(T) \in Nat /\ Count(pc', Threads, T) \in Nat
  BY CountBounds, ThreadPoolAssumption DEF NumberAt
<1> QED
  BY <1>2, <1>3, <1>4 DEF NumberAt

\* The two properties of the queue, in terms of the counting operators.
Counted ==
    /\ waiting = Len(queue) - NumberAt(Idle)
    /\ NumberAt({"wait"}) > 0 => Len(queue) <= NumberAt({"woken"})

\* A post adds one to the queue and to the counter and moves one sleeper, if
\* there is one, to those that were woken.
LEMMA PostCounted ==
  ASSUME TypeOK, Counted, NEW k \in AllTasks, Post(k)
  PROVE  Counted'
<1> DEFINE n(T) == NumberAt(T)
<1>1. /\ Len(queue) \in Nat
      /\ Len(queue') = Len(queue) + 1
      /\ waiting' = waiting + 1
      /\ waiting \in Int
  BY Appended DEF Post, TypeOK, AllTasks
<1>2. /\ n(Idle) \in Nat /\ n({"wait"}) \in Nat /\ n({"woken"}) \in Nat
      /\ n({"wait"}) = 0 <=> Members(pc, Threads, {"wait"}) = {}
  BY CountBounds, ThreadPoolAssumption DEF NumberAt
<1>3. ASSUME NEW t \in Threads, Goto(t, "wait", "woken")
      PROVE  Counted'
  <2>1. n(Idle)' = n(Idle)
    BY <1>2, <1>3, Moved DEF In, Idle
  <2>2. n({"woken"})' = n({"woken"}) + 1
    BY <1>2, <1>3, Moved DEF In
  <2>3. n({"wait"}) > 0
    <3>1. t \in Members(pc, Threads, {"wait"})
      BY <1>3 DEF Goto, Members
    <3> HIDE DEF n
    <3> QED
      BY <1>2, <3>1
  <2> HIDE DEF n
  <2> QED
    BY <1>1, <1>2, <2>1, <2>2, <2>3 DEF Counted, n
<1>4. CASE (\A t \in Threads : pc[t] # "wait") /\ UNCHANGED pc
  <2>1. Members(pc, Threads, {"wait"}) = {}
    BY <1>4 DEF Members
  <2>2. n({"wait"}) = 0
    BY <1>2, <2>1
  <2>3. /\ n({"wait"})' = n({"wait"}) /\ n({"woken"})' = n({"woken"})
        /\ n(Idle)' = n(Idle)
    BY <1>4 DEF NumberAt
  <2> HIDE DEF n
  <2> QED
    BY <1>1, <1>2, <2>2, <2>3 DEF Counted, n
<1> QED
  BY <1>3, <1>4 DEF Post, Signal

\* A thread that looks at the queue at the top of its loop, and counts itself,
\* or after it was woken, takes the head or finds nothing to take.
LEMMA LookCounted ==
  ASSUME TypeOK, Counted, NEW t \in Threads,
         ThreadLocks(t) \/ ThreadWakes(t)
  PROVE  Counted'
<1> DEFINE n(T) == NumberAt(T)
<1>1. waiting \in Int /\ Len(queue) \in Nat
  BY DEF TypeOK
<1>2. CASE ThreadLocks(t)
  <2>1. waiting' = waiting - 1
    BY <1>2 DEF ThreadLocks
  <2>2. CASE Take(t, "lock")
    <3>1. Len(queue) \in Nat \ {0} /\ Len(queue') = Len(queue) - 1
      BY <2>2, Shortened DEF Take, TypeOK
    <3>2. /\ n(Idle) \in Nat /\ n({"wait"}) \in Nat /\ n({"woken"}) \in Nat
          /\ n(Idle)' = n(Idle) /\ n({"wait"})' = n({"wait"})
          /\ n({"woken"})' = n({"woken"})
      BY <2>2, Moved DEF Take, In, Idle
    <3> HIDE DEF n
    <3> QED
      BY <1>1, <2>1, <3>1, <3>2 DEF Counted, n
  <2>3. CASE Sleep(t, "lock")
    <3>1. Len(queue') = 0 /\ Len(queue) = 0
      BY <2>3 DEF Sleep
    <3>2. /\ n(Idle) \in Nat /\ n({"woken"})' \in Nat
          /\ n(Idle)' = n(Idle) + 1
      BY <2>3, Moved DEF Sleep, In, Idle
    <3> HIDE DEF n
    <3> QED
      BY <1>1, <2>1, <3>1, <3>2 DEF Counted, n
  <2> QED
    BY <1>2, <2>2, <2>3 DEF ThreadLocks
<1>3. CASE ThreadWakes(t)
  <2>1. waiting' = waiting
    BY <1>3 DEF ThreadWakes
  <2>2. CASE Take(t, "woken")
    <3>1. Len(queue) \in Nat \ {0} /\ Len(queue') = Len(queue) - 1
      BY <2>2, Shortened DEF Take, TypeOK
    <3>2. /\ n(Idle) \in Nat /\ n({"wait"}) \in Nat /\ n({"woken"}) \in Nat
          /\ n(Idle)' = n(Idle) - 1 /\ n({"wait"})' = n({"wait"})
          /\ n({"woken"})' = n({"woken"}) - 1
      BY <2>2, Moved DEF Take, In, Idle
    <3> HIDE DEF n
    <3> QED
      BY <1>1, <2>1, <3>1, <3>2 DEF Counted, n
  <2>3. CASE Sleep(t, "woken")
    <3>1. Len(queue') = 0 /\ Len(queue) = 0
      BY <2>3 DEF Sleep
    <3>2. /\ n(Idle) \in Nat /\ n({"woken"})' \in Nat
          /\ n(Idle)' = n(Idle)
      BY <2>3, Moved DEF Sleep, In, Idle
    <3> HIDE DEF n
    <3> QED
      BY <1>1, <2>1, <3>1, <3>2 DEF Counted, n
  <2> QED
    BY <1>3, <2>2, <2>3 DEF ThreadWakes
<1> QED
  BY <1>2, <1>3

\* A step that moves a thread between points outside the wait, or no thread,
\* and leaves the queue alone changes no number.
LEMMA ElsewhereCounted ==
  ASSUME TypeOK, Counted, UNCHANGED pool,
         \/ UNCHANGED pc
         \/ \E t \in Threads : \E from, to \in Points \ Idle : Goto(t, from, to)
  PROVE  Counted'
<1> DEFINE n(T) == NumberAt(T)
<1>1. /\ n(Idle)' = n(Idle) /\ n({"wait"})' = n({"wait"})
      /\ n({"woken"})' = n({"woken"})
  <2>1. CASE UNCHANGED pc
    BY <2>1 DEF NumberAt
  <2>2. ASSUME NEW t \in Threads, NEW from \in Points \ Idle,
               NEW to \in Points \ Idle, Goto(t, from, to)
        PROVE  /\ n(Idle)' = n(Idle) /\ n({"wait"})' = n({"wait"})
               /\ n({"woken"})' = n({"woken"})
    BY <2>2, Moved DEF In, Idle
  <2> QED
    BY <2>1, <2>2
<1> HIDE DEF n
<1> QED
  BY <1>1 DEF Counted, n, pool

\* The counter and the wake-ups stay right.
LEMMA CountedInvariant == Spec => []Counted
<1> USE DEF Points, Idle, Busy
<1>1. Init => Counted
  <2> SUFFICES ASSUME Init PROVE Counted
    OBVIOUS
  <2>1. Members(pc, Threads, Idle) = {} /\ Members(pc, Threads, {"wait"}) = {}
    BY DEF Init, Members
  <2>2. NumberAt(Idle) = 0 /\ NumberAt({"wait"}) = 0
    BY <2>1, FS_EmptySet DEF NumberAt, Count
  <2>3. Len(queue) = 0 /\ waiting = 0
    BY DEF Init
  <2> QED
    BY <2>2, <2>3 DEF Counted
<1>2. TypeOK /\ Counted /\ [Next]_vars => Counted'
  <2> SUFFICES ASSUME TypeOK, Counted, [Next]_vars
               PROVE  Counted'
    OBVIOUS
  <2> DEFINE Elsewhere(t) == \E from, to \in Points \ Idle : Goto(t, from, to)
  <2>1. CASE UNCHANGED vars
    BY <2>1, ElsewhereCounted DEF vars, pool
  <2>2. ASSUME NEW k \in Tasks, MainPosts(k) PROVE Counted'
    BY <2>2, PostCounted DEF MainPosts, AllTasks
  <2>3. ASSUME NEW t \in Threads, ThreadLocks(t) PROVE Counted'
    BY <2>3, LookCounted
  <2>4. ASSUME NEW t \in Threads, ThreadWakes(t) PROVE Counted'
    BY <2>4, LookCounted
  <2>5. ASSUME NEW t \in Threads, ThreadWakesSpuriously(t) PROVE Counted'
    <3> DEFINE n(T) == NumberAt(T)
    <3>1. /\ n(Idle) \in Nat /\ n({"wait"}) \in Nat /\ n({"woken"}) \in Nat
          /\ n({"wait"})' \in Nat
          /\ n(Idle)' = n(Idle) /\ n({"wait"})' = n({"wait"}) - 1
          /\ n({"woken"})' = n({"woken"}) + 1
      BY <2>5, Moved DEF ThreadWakesSpuriously, In
    <3>2. UNCHANGED <<queue, waiting>> /\ Len(queue) \in Nat
      BY <2>5 DEF ThreadWakesSpuriously, pool, TypeOK
    <3> HIDE DEF n
    <3> QED
      BY <3>1, <3>2 DEF Counted, n
  <2>6. ASSUME NEW t \in Threads, ThreadRuns(t) PROVE Counted'
    BY <2>6, ElsewhereCounted DEF ThreadRuns
  <2>7. ASSUME NEW t \in Threads, ThreadExits(t) PROVE Counted'
    BY <2>7, ElsewhereCounted DEF ThreadExits
  <2>8. ASSUME NEW t \in Threads, ThreadHandsBack(t) PROVE Counted'
    BY <2>8, ElsewhereCounted DEF ThreadHandsBack
  <2>9. ASSUME NEW t \in Threads, ThreadNotifies(t) PROVE Counted'
    BY <2>9, ElsewhereCounted DEF ThreadNotifies
  <2>10. CASE DestroyPosts
    BY <2>10, PostCounted DEF DestroyPosts, AllTasks
  <2>11. CASE MainExits \/ (MainSteps /\ ~DestroyPosts)
    BY <2>11, ElsewhereCounted
    DEF MainSteps, MainPolls, MainReads, MainDrains, MainCompletes, MainReturns,
        MainExits, DestroyGivesUp, DestroySpins, DestroyEnds
  <2> QED
    BY <2>1, <2>2, <2>3, <2>4, <2>5, <2>6, <2>7, <2>8, <2>9, <2>10, <2>11
    DEF Next, ThreadSteps, MainSteps
<1> QED
  BY <1>1, <1>2, TypeCorrect, PTL DEF Spec

\* ThreadsAt(points) has NumberAt(points) members.
LEMMA NumberMeaning ==
  ASSUME NEW T
  PROVE  /\ Cardinality(ThreadsAt(T)) = NumberAt(T)
         /\ NumberAt(T) \in Nat
         /\ ThreadsAt(T) # {} => NumberAt(T) > 0
<1>1. ThreadsAt(T) = Members(pc, Threads, T)
  BY DEF ThreadsAt, Members
<1>2. Cardinality(Members(pc, Threads, T)) = NumberAt(T)
  BY DEF NumberAt, Count
<1>3. NumberAt(T) \in Nat /\ (NumberAt(T) = 0 <=> Members(pc, Threads, T) = {})
  BY CountBounds, ThreadPoolAssumption DEF NumberAt
<1> QED
  BY <1>1, <1>2, <1>3

\* tp->waiting is exact, for any number of threads and tasks and any limit.
THEOREM WaitingCounted == Spec => []WaitingExact
<1>1. Counted => WaitingExact
  BY NumberMeaning DEF Counted, WaitingExact
<1> QED
  BY <1>1, CountedInvariant, PTL

\* One pthread_cond_signal() per post wakes enough threads, whatever the number
\* of threads and the order in which they take what others were woken for.
THEOREM WakesSuffice == Spec => []WakesEnough
<1>1. Counted => WakesEnough
  BY NumberMeaning DEF Counted, WakesEnough
<1> QED
  BY <1>1, CountedInvariant, PTL

-----------------------------------------------------------------------------
Elements(s) == {s[i] : i \in DOMAIN s}

Distinct(s) == \A i, j \in DOMAIN s : s[i] = s[j] => i = j

\* An appended element joins the others, and is distinct if it was not there.
LEMMA AppendedElements ==
  ASSUME NEW S, NEW s \in Seq(S), NEW x \in S
  PROVE  /\ Elements(Append(s, x)) = Elements(s) \cup {x}
         /\ Distinct(s) /\ x \notin Elements(s) => Distinct(Append(s, x))
<1>1. /\ Len(s) \in Nat
      /\ DOMAIN s = 1 .. Len(s)
      /\ DOMAIN Append(s, x) = 1 .. Len(s) + 1
      /\ \A i \in 1 .. Len(s) : Append(s, x)[i] = s[i]
      /\ Append(s, x)[Len(s) + 1] = x
  OBVIOUS
<1>2. 1 .. Len(s) + 1 = (1 .. Len(s)) \cup {Len(s) + 1}
  BY <1>1
<1> QED
  BY <1>1, <1>2 DEF Elements, Distinct

\* The head of a sequence leaves its elements, and none like it stays behind.
LEMMA ShortenedElements ==
  ASSUME NEW S, NEW s \in Seq(S), s # <<>>
  PROVE  /\ Elements(s) = Elements(Tail(s)) \cup {Head(s)}
         /\ Distinct(s) => Distinct(Tail(s)) /\ Head(s) \notin Elements(Tail(s))
<1>1. /\ Len(s) \in Nat \ {0}
      /\ DOMAIN s = 1 .. Len(s)
      /\ DOMAIN Tail(s) = 1 .. Len(s) - 1
      /\ \A i \in 1 .. Len(s) - 1 : Tail(s)[i] = s[i + 1]
      /\ Head(s) = s[1]
  OBVIOUS
<1>2. ASSUME NEW y
      PROVE  y \in Elements(s) <=> y \in Elements(Tail(s)) \/ y = Head(s)
  <2>1. ASSUME NEW i \in 1 .. Len(s), y = s[i]
        PROVE  y \in Elements(Tail(s)) \/ y = Head(s)
    <3>1. CASE i = 1
      BY <1>1, <2>1, <3>1
    <3>2. CASE i # 1
      <4>1. i - 1 \in 1 .. Len(s) - 1 /\ (i - 1) + 1 = i
        BY <1>1, <3>2
      <4>2. y = Tail(s)[i - 1]
        BY <1>1, <2>1, <4>1
      <4> QED
        BY <1>1, <4>1, <4>2 DEF Elements
    <3> QED
      BY <3>1, <3>2
  <2>2. ASSUME NEW i \in 1 .. Len(s) - 1, y = Tail(s)[i]
        PROVE  y \in Elements(s)
    <3>1. i + 1 \in DOMAIN s /\ y = s[i + 1]
      BY <1>1, <2>2
    <3> QED
      BY <3>1 DEF Elements
  <2>3. Head(s) \in Elements(s)
    BY <1>1 DEF Elements
  <2> QED
    BY <1>1, <2>1, <2>2, <2>3 DEF Elements
<1>3. ASSUME Distinct(s)
      PROVE  Distinct(Tail(s)) /\ Head(s) \notin Elements(Tail(s))
  BY <1>1, <1>3 DEF Distinct, Elements
<1> QED
  BY <1>2, <1>3

-----------------------------------------------------------------------------
Taken == {task[t] : t \in ThreadsAt(Busy)}

\* A task is in one place at most, as often as it was posted, and its event is
\* active as long as it is somewhere.  The last conjunct is what lets
\* ngx_thread_pool_destroy() post the exit task again.
PlacedOnce ==
    /\ Distinct(queue) /\ Distinct(done) /\ Distinct(batch)
    /\ \A t, u \in ThreadsAt(Busy) : task[t] = task[u] => t = u
    /\ Elements(queue) \cap Taken = {}
    /\ Elements(queue) \cap Elements(done) = {}
    /\ Elements(queue) \cap Elements(batch) = {}
    /\ Taken \cap Elements(done) = {}
    /\ Taken \cap Elements(batch) = {}
    /\ Elements(done) \cap Elements(batch) = {}
    /\ \A k \in Elements(queue) \cup Taken \cup Elements(done) \cup Elements(batch) :
          active[k]
    /\ at = "spin" /\ ~lock => Exit \notin Elements(queue) \cup Taken
    /\ at \notin {"handler"} => batch = <<>>

\* What the threads have changes only when one of them takes a task, hands it
\* back or exits.
LEMMA TakenMoved ==
  ASSUME TypeOK, NEW t \in Threads, NEW from, NEW to \in Points, Goto(t, from, to)
  PROVE  /\ (from \in Busy <=> to \in Busy) /\ UNCHANGED task =>
              UNCHANGED <<Taken, ThreadsAt(Busy)>>
         /\ \A k : from \notin Busy /\ to \in Busy /\ task' = [task EXCEPT ![t] = k]
              => Taken' = Taken \cup {k} /\ ThreadsAt(Busy)' = ThreadsAt(Busy) \cup {t}
         /\ PlacedOnce /\ from \in Busy /\ to \notin Busy
                       /\ task' = [task EXCEPT ![t] = None]
              => /\ Taken' = Taken \ {task[t]} /\ task[t] \in Taken
                 /\ ThreadsAt(Busy)' = ThreadsAt(Busy) \ {t}
<1>1. pc[t] = from /\ pc' = [pc EXCEPT ![t] = to] /\ pc \in [Threads -> Points]
  BY DEF Goto, TypeOK
<1>2. task \in [Threads -> Tasks \cup {Exit, None}]
  BY DEF TypeOK
<1>3. from \in Busy <=> t \in ThreadsAt(Busy)
  BY <1>1 DEF ThreadsAt
<1>4. ThreadsAt(Busy)' = IF to \in Busy THEN ThreadsAt(Busy) \cup {t}
                                       ELSE ThreadsAt(Busy) \ {t}
  BY <1>1 DEF ThreadsAt
<1>5. ThreadsAt(Busy) \subseteq Threads
  BY DEF ThreadsAt
<1>6. ASSUME from \in Busy <=> to \in Busy, UNCHANGED task
      PROVE  UNCHANGED <<Taken, ThreadsAt(Busy)>>
  BY <1>3, <1>4, <1>6 DEF Taken
<1>7. ASSUME NEW k, from \notin Busy, to \in Busy, task' = [task EXCEPT ![t] = k]
      PROVE  Taken' = Taken \cup {k} /\ ThreadsAt(Busy)' = ThreadsAt(Busy) \cup {t}
  BY <1>2, <1>3, <1>4, <1>5, <1>7 DEF Taken
<1>8. ASSUME PlacedOnce, from \in Busy, to \notin Busy,
             task' = [task EXCEPT ![t] = None]
      PROVE  /\ Taken' = Taken \ {task[t]} /\ task[t] \in Taken
             /\ ThreadsAt(Busy)' = ThreadsAt(Busy) \ {t}
  <2>1. \A u, v \in ThreadsAt(Busy) : task[u] = task[v] => u = v
    BY <1>8 DEF PlacedOnce
  <2> QED
    BY <1>2, <1>3, <1>4, <1>5, <1>8, <2>1 DEF Taken
<1> QED
  BY <1>6, <1>7, <1>8

\* A post puts a task into the queue that is nowhere in the pool.
LEMMA PostPlaced ==
  ASSUME TypeOK, PlacedOnce, NEW k \in AllTasks, Post(k),
         UNCHANGED <<task, done, batch>>,
         \/ at # "spin" /\ UNCHANGED at
         \/ at = "destroy" /\ at' = "spin" /\ lock'
  PROVE  /\ PlacedOnce'
         /\ k \notin Elements(queue) \cup Taken \cup Elements(done) \cup Elements(batch)
         /\ UNCHANGED Taken
<1>1. k \notin Elements(queue) \cup Taken \cup Elements(done) \cup Elements(batch)
  BY DEF Post, PlacedOnce
<1>2. Elements(queue') = Elements(queue) \cup {k} /\ Distinct(queue')
  BY <1>1, AppendedElements DEF Post, TypeOK, PlacedOnce, AllTasks
<1>3. UNCHANGED <<Taken, ThreadsAt(Busy)>>
  <2>1. ASSUME NEW t \in Threads, Goto(t, "wait", "woken")
        PROVE  UNCHANGED <<Taken, ThreadsAt(Busy)>>
    BY <2>1, TakenMoved DEF Points, Idle, Busy
  <2>2. ASSUME UNCHANGED pc
        PROVE  UNCHANGED <<Taken, ThreadsAt(Busy)>>
    BY <2>2 DEF Taken, ThreadsAt
  <2> QED
    BY <2>1, <2>2 DEF Post, Signal
<1>4. active'[k] /\ \A j \in AllTasks : active[j] => active'[j]
  BY Zenon DEF Post, TypeOK, AllTasks
<1>5. Elements(queue) \cup Taken \cup Elements(done) \cup Elements(batch)
        \subseteq AllTasks
  BY DEF TypeOK, Elements, Taken, ThreadsAt, AllTasks
<1>6. /\ at' = "spin" => lock'
      /\ at' # "handler" => batch' = <<>>
  BY DEF PlacedOnce
<1>7. \A j \in (Elements(queue) \cup Taken \cup Elements(done)
                 \cup Elements(batch))' : active'[j]
  BY <1>2, <1>3, <1>4, <1>5, Zenon DEF PlacedOnce
<1> QED
  BY <1>1, <1>2, <1>3, <1>6, <1>7 DEF PlacedOnce

-----------------------------------------------------------------------------
\* The completed tasks are those being handled followed by those handed back
\* since: what the two sequences become is what TaskService does to one.
LEMMA Concatenated ==
  ASSUME NEW S, NEW b \in Seq(S), NEW d \in Seq(S)
  PROVE  /\ Elements(b \o d) = Elements(b) \cup Elements(d)
         /\ \A x \in S : b \o Append(d, x) = Append(b \o d, x)
         /\ b # <<>> => b \o d # <<>> /\ Tail(b) \o d = Tail(b \o d)
         /\ <<>> \o d = d \o <<>>
<1>1. /\ b \o d \in Seq(S)
      /\ Len(b) \in Nat /\ Len(d) \in Nat
      /\ Len(b \o d) = Len(b) + Len(d)
      /\ \A i \in 1 .. Len(b) : (b \o d)[i] = b[i]
      /\ \A i \in 1 .. Len(d) : (b \o d)[i + Len(b)] = d[i]
  OBVIOUS
<1>2. ASSUME NEW y
      PROVE  y \in Elements(b \o d) <=> y \in Elements(b) \cup Elements(d)
  <2>1. ASSUME NEW i \in 1 .. Len(b) + Len(d), y = (b \o d)[i]
        PROVE  y \in Elements(b) \cup Elements(d)
    <3>1. CASE i <= Len(b)
      BY <1>1, <2>1, <3>1 DEF Elements
    <3>2. CASE i > Len(b)
      <4>1. i - Len(b) \in 1 .. Len(d) /\ (i - Len(b)) + Len(b) = i
        BY <1>1, <3>2
      <4>2. y = d[i - Len(b)]
        BY <1>1, <2>1, <4>1
      <4> QED
        BY <1>1, <4>1, <4>2 DEF Elements
    <3> QED
      BY <1>1, <3>1, <3>2
  <2>2. ASSUME NEW i \in 1 .. Len(b), y = b[i]
        PROVE  y \in Elements(b \o d)
    <3>1. i \in 1 .. Len(b) + Len(d) /\ y = (b \o d)[i]
      BY <1>1, <2>2
    <3> QED
      BY <1>1, <3>1 DEF Elements
  <2>3. ASSUME NEW i \in 1 .. Len(d), y = d[i]
        PROVE  y \in Elements(b \o d)
    <3>1. i + Len(b) \in 1 .. Len(b) + Len(d) /\ y = (b \o d)[i + Len(b)]
      BY <1>1, <2>3
    <3> QED
      BY <1>1, <3>1 DEF Elements
  <2> QED
    BY <1>1, <2>1, <2>2, <2>3 DEF Elements
<1>3. ASSUME NEW x \in S
      PROVE  b \o Append(d, x) = Append(b \o d, x)
  OBVIOUS
<1>4. ASSUME b # <<>>
      PROVE  b \o d # <<>> /\ Tail(b) \o d = Tail(b \o d)
  BY <1>1, <1>4
<1>5. <<>> \o d = d \o <<>>
  OBVIOUS
<1> QED
  BY <1>2, <1>3, <1>4, <1>5

-----------------------------------------------------------------------------
\* What a step has to show: the tasks stay placed, and the step is one of
\* TaskService or leaves its variables alone.
Refines == PlacedOnce' /\ [Contract!Next]_Contract!vars

\* The variables of TaskService, in the words of these proofs.
LEMMA Mapping ==
  /\ \A s : Contract!Members(s) = Elements(s)
  /\ UNCHANGED <<queue, Taken, batch \o done>> => UNCHANGED Contract!vars
BY DEF Contract!Members, Elements, Contract!vars, Taken

\* A step that only moves the event loop, or a thread that keeps what it has.
LEMMA StepAside ==
  ASSUME TypeOK, PlacedOnce,
         UNCHANGED <<queue, Taken, ThreadsAt(Busy), active, done, batch>>,
         \A t \in ThreadsAt(Busy) : task'[t] = task[t],
         at' = "spin" => at = "spin" /\ lock' = lock,
         at' # "handler" => at # "handler" \/ batch = <<>>
  PROVE  Refines
<1>1. PlacedOnce'
  BY DEF PlacedOnce
<1> QED
  BY <1>1, Mapping DEF Refines

\* ngx_thread_task_post() is Post of TaskService.
LEMMA PostRefines ==
  ASSUME TypeOK, PlacedOnce, NEW k \in AllTasks, Post(k),
         UNCHANGED <<task, done, batch>>,
         \/ at # "spin" /\ UNCHANGED at
         \/ at = "destroy" /\ at' = "spin" /\ lock'
  PROVE  Refines
<1>1. /\ PlacedOnce'
      /\ k \notin Elements(queue) \cup Taken \cup Elements(done) \cup Elements(batch)
      /\ UNCHANGED Taken
  BY PostPlaced
<1>2. Elements(batch \o done) = Elements(batch) \cup Elements(done)
  BY Concatenated DEF TypeOK
<1>3. Contract!Post(k)
  <2>1. queue' = Append(queue, k) /\ batch' \o done' = batch \o done
    BY DEF Post
  <2> QED
    BY <1>1, <1>2, <2>1, Mapping DEF Contract!Post, Taken
<1> QED
  BY <1>1, <1>3 DEF Refines, Contract!Next, AllTasks

\* A thread that takes the head of the queue is Start of TaskService.
LEMMA TakeRefines ==
  ASSUME TypeOK, PlacedOnce, NEW t \in Threads, NEW from \in {"lock", "woken"},
         Take(t, from), UNCHANGED <<active, done, batch, at, lock>>
  PROVE  Refines
<1> DEFINE k == Head(queue)
<1>1. /\ queue # <<>> /\ queue' = Tail(queue)
      /\ Goto(t, from, "run")
      /\ task' = [task EXCEPT ![t] = k]
  BY DEF Take
<1>2. /\ Elements(queue) = Elements(queue') \cup {k}
      /\ Distinct(queue') /\ k \notin Elements(queue')
  BY <1>1, ShortenedElements DEF TypeOK, PlacedOnce
<1>3. Taken' = Taken \cup {k} /\ ThreadsAt(Busy)' = ThreadsAt(Busy) \cup {t}
  BY <1>1, TakenMoved DEF Points, Busy, Idle
<1>4. k \notin Taken
  BY <1>2 DEF PlacedOnce
<1>5. \A u, v \in ThreadsAt(Busy)' : task'[u] = task'[v] => u = v
  <2>1. \A u \in ThreadsAt(Busy) : u \in Threads /\ task[u] \in Taken
    BY DEF Taken, ThreadsAt
  <2>2. \A u, v \in ThreadsAt(Busy) : task[u] = task[v] => u = v
    BY DEF PlacedOnce
  <2>3. task \in [Threads -> Tasks \cup {Exit, None}]
    BY DEF TypeOK
  <2> HIDE DEF k
  <2> QED
    BY <1>1, <1>3, <1>4, <2>1, <2>2, <2>3
<1> HIDE DEF k
<1>6. PlacedOnce'
  BY <1>2, <1>3, <1>4, <1>5 DEF PlacedOnce
<1>7. Contract!Start
  BY <1>1, <1>3 DEF Contract!Start, Taken, k
<1> QED
  BY <1>6, <1>7 DEF Refines, Contract!Next

\* A thread that hands its task back, or exits, is Finish of TaskService.
LEMMA FinishRefines ==
  ASSUME TypeOK, PlacedOnce, NEW t \in Threads,
         ThreadHandsBack(t) \/ ThreadExits(t)
  PROVE  Refines
<1> DEFINE k == task[t]
<1>1. /\ \E from \in Busy : \E to \in Points \ Busy : Goto(t, from, to)
      /\ task' = [task EXCEPT ![t] = None]
  BY DEF ThreadHandsBack, ThreadExits, Points, Busy, Idle
<1>2. /\ Taken' = Taken \ {k} /\ k \in Taken
      /\ ThreadsAt(Busy)' = ThreadsAt(Busy) \ {t}
  BY <1>1, TakenMoved
<1>3. \A u, v \in ThreadsAt(Busy)' : task'[u] = task'[v] => u = v
  <2>1. \A u \in ThreadsAt(Busy) : u \in Threads
    BY DEF ThreadsAt
  <2>2. \A u, v \in ThreadsAt(Busy) : task[u] = task[v] => u = v
    BY DEF PlacedOnce
  <2>3. task \in [Threads -> Tasks \cup {Exit, None}]
    BY DEF TypeOK
  <2> QED
    BY <1>1, <1>2, <2>1, <2>2, <2>3
<1>4. CASE ThreadHandsBack(t)
  <2>1. k \in Tasks /\ k # Exit
    BY <1>4, ThreadPoolAssumption DEF ThreadHandsBack, Goto, TypeOK, Busy
  <2>2. done' = Append(done, k) /\ UNCHANGED <<queue, active, batch, at, lock>>
    BY <1>4 DEF ThreadHandsBack, pool
  <2>3. k \notin Elements(queue) \cup Elements(done) \cup Elements(batch)
    BY <1>2 DEF PlacedOnce
  <2>4. Elements(done') = Elements(done) \cup {k} /\ Distinct(done')
    BY <2>1, <2>2, <2>3, AppendedElements DEF TypeOK, PlacedOnce
  <2>5. batch' \o done' = Append(batch \o done, k)
    BY <2>1, <2>2, Concatenated DEF TypeOK
  <2> HIDE DEF k
  <2>6. PlacedOnce'
    BY <1>2, <1>3, <2>2, <2>3, <2>4 DEF PlacedOnce
  <2>7. PICK j \in Tasks : j = k
    BY <2>1
  <2>8. Contract!Finish(j)
    BY <1>2, <2>1, <2>2, <2>5, <2>7 DEF Contract!Finish, Taken
  <2>9. Contract!Next
    BY <2>8 DEF Contract!Next
  <2> QED
    BY <2>6, <2>9 DEF Refines
<1>5. CASE ThreadExits(t)
  <2>1. k = Exit /\ UNCHANGED <<queue, active, done, batch, at>>
    BY <1>5 DEF ThreadExits, pool
  <2>2. Exit \notin Elements(queue)
    BY <1>2, <2>1 DEF PlacedOnce
  <2> HIDE DEF k
  <2>3. PlacedOnce'
    BY <1>2, <1>3, <2>1, <2>2 DEF PlacedOnce
  <2>4. Contract!Finish(Exit)
    BY <1>2, <2>1 DEF Contract!Finish, Taken
  <2>5. Exit \in Tasks \cup {Exit}
    OBVIOUS
  <2>6. Contract!Next
    BY <2>4, <2>5, Zenon DEF Contract!Next
  <2> QED
    BY <2>3, <2>6 DEF Refines
<1> QED
  BY <1>4, <1>5

\* The event loop takes the done queue, which TaskService does not see, and
\* completes the tasks one by one, which is Complete of TaskService.
LEMMA CompleteRefines ==
  ASSUME TypeOK, PlacedOnce, MainDrains \/ MainCompletes
  PROVE  Refines
<1>1. CASE MainDrains
  <2>1. /\ batch = <<>> /\ batch' = done /\ done' = <<>> /\ at' = "handler"
        /\ UNCHANGED <<queue, active, pc, task, lock>>
    BY <1>1 DEF MainDrains, PlacedOnce, pool
  <2>2. Elements(<<>>) = {} /\ Distinct(<<>>)
    BY DEF Elements, Distinct
  <2>3. UNCHANGED <<Taken, ThreadsAt(Busy)>>
    BY <2>1 DEF Taken, ThreadsAt
  <2>4. PlacedOnce'
    BY <2>1, <2>2, <2>3 DEF PlacedOnce
  <2>5. batch' \o done' = batch \o done
    BY <2>1, Concatenated DEF TypeOK
  <2> QED
    BY <2>1, <2>3, <2>4, <2>5, Mapping DEF Refines
<1>2. CASE MainCompletes
  <2> DEFINE k == Head(batch)
  <2>1. /\ at = "handler" /\ batch # <<>> /\ batch' = Tail(batch)
        /\ active' = [active EXCEPT ![k] = FALSE]
        /\ UNCHANGED <<queue, pc, task, done, at, lock>>
    BY <1>2 DEF MainCompletes, pool
  <2>2. /\ Elements(batch) = Elements(batch') \cup {k}
        /\ Distinct(batch') /\ k \notin Elements(batch')
    BY <2>1, ShortenedElements DEF TypeOK, PlacedOnce
  <2>3. UNCHANGED <<Taken, ThreadsAt(Busy)>>
    BY <2>1 DEF Taken, ThreadsAt
  <2>4. k \notin Elements(queue) \cup Taken \cup Elements(done)
    BY <2>2 DEF PlacedOnce
  <2>5. \A j : j # k /\ j \in AllTasks => active'[j] = active[j]
    BY <2>1 DEF TypeOK, AllTasks
  <2>6. Elements(queue) \cup Taken \cup Elements(done) \cup Elements(batch)
          \subseteq AllTasks
    BY DEF TypeOK, Elements, Taken, ThreadsAt, AllTasks
  <2> HIDE DEF k
  <2>7. \A j \in (Elements(queue) \cup Taken \cup Elements(done)
                   \cup Elements(batch))' : active'[j]
    <3>1. ASSUME NEW j \in Elements(queue) \cup Taken \cup Elements(done)
                            \cup Elements(batch')
          PROVE  active'[j]
      <4>1. j # k /\ j \in AllTasks
        BY <2>2, <2>4, <2>6, <3>1
      <4>2. active[j]
        BY <2>2, <3>1 DEF PlacedOnce
      <4> QED
        BY <2>5, <4>1, <4>2
    <3> QED
      BY <2>1, <2>3, <3>1
  <2>8. PlacedOnce'
    BY <2>1, <2>2, <2>3, <2>4, <2>7 DEF PlacedOnce
  <2>9. Contract!Complete
    <3>1. batch \o done # <<>> /\ batch' \o done' = Tail(batch \o done)
      BY <2>1, Concatenated DEF TypeOK
    <3> QED
      BY <2>1, <2>3, <3>1 DEF Contract!Complete, Taken
  <2> QED
    BY <2>8, <2>9 DEF Refines, Contract!Next
<1> QED
  BY <1>1, <1>2

\* The wait for the exit task ends when no place holds it any more.
LEMMA SpinRefines ==
  ASSUME TypeOK, PlacedOnce, DestroySpins
  PROVE  Refines
<1>1. /\ at = "spin" /\ at' = "destroy" /\ batch = <<>>
      /\ active' = [active EXCEPT ![Exit] = FALSE]
      /\ UNCHANGED <<queue, pc, task, done, batch>>
  BY DEF DestroySpins, PlacedOnce, pool
<1>2. UNCHANGED <<Taken, ThreadsAt(Busy)>>
  BY <1>1 DEF Taken, ThreadsAt
<1>3. Exit \notin Elements(queue) \cup Taken \cup Elements(done) \cup Elements(batch)
  BY ThreadPoolAssumption DEF DestroySpins, PlacedOnce, TypeOK, Elements
<1>4. \A j : j # Exit /\ j \in AllTasks => active'[j] = active[j]
  BY <1>1 DEF TypeOK, AllTasks
<1>5. Elements(queue) \cup Taken \cup Elements(done) \cup Elements(batch)
        \subseteq AllTasks
  BY DEF TypeOK, Elements, Taken, ThreadsAt, AllTasks
<1>6. \A j \in Elements(queue) \cup Taken \cup Elements(done) \cup Elements(batch) :
        active'[j]
  BY <1>3, <1>4, <1>5 DEF PlacedOnce
<1>7. PlacedOnce'
  BY <1>1, <1>2, <1>6 DEF PlacedOnce
<1> QED
  BY <1>1, <1>2, <1>7, Mapping DEF Refines

\* Every step of the pool keeps the tasks placed and is a step of TaskService,
\* or no step of it.
LEMMA StepRefines ==
  ASSUME TypeOK, PlacedOnce, [Next]_vars
  PROVE  Refines
<1> DEFINE Same == UNCHANGED <<Taken, ThreadsAt(Busy)>>
<1>0. ASSUME UNCHANGED <<pc, task>> PROVE Same
  BY <1>0 DEF Taken, ThreadsAt
<1>1. ASSUME NEW t \in Threads, NEW from, NEW to \in Points, Goto(t, from, to),
             from \in Busy <=> to \in Busy, UNCHANGED task
      PROVE  Same /\ \A u \in ThreadsAt(Busy) : task'[u] = task[u]
  BY <1>1, TakenMoved
<1> HIDE DEF Same
<1> USE DEF Points, Busy, Idle, pool
<1>2. CASE UNCHANGED vars
  BY <1>0, <1>2, StepAside DEF vars, Same
<1>3. ASSUME NEW k \in Tasks, MainPosts(k) PROVE Refines
  <2>1. k \in AllTasks /\ Post(k) /\ UNCHANGED <<task, done, batch>>
        /\ at # "spin" /\ UNCHANGED at
    BY <1>3 DEF MainPosts, AllTasks
  <2> QED
    BY <2>1, PostRefines
<1>4. ASSUME NEW t \in Threads, ThreadLocks(t) \/ ThreadWakes(t) PROVE Refines
  <2>1. PICK from \in {"lock", "woken"} : Take(t, from) \/ Sleep(t, from)
    BY <1>4 DEF ThreadLocks, ThreadWakes
  <2>2. UNCHANGED <<active, done, batch, at, lock>>
    BY <1>4 DEF ThreadLocks, ThreadWakes
  <2>3. CASE Take(t, from)
    BY <2>2, <2>3, TakeRefines
  <2>4. CASE Sleep(t, from)
    <3>1. Goto(t, from, "wait") /\ UNCHANGED <<queue, task>>
      BY <2>4 DEF Sleep
    <3> QED
      BY <1>1, <2>2, <3>1, StepAside DEF Same
  <2> QED
    BY <2>1, <2>3, <2>4
<1>5. ASSUME NEW t \in Threads, ThreadWakesSpuriously(t) PROVE Refines
  BY <1>1, <1>5, StepAside DEF ThreadWakesSpuriously, Same
<1>6. ASSUME NEW t \in Threads, ThreadRuns(t) PROVE Refines
  BY <1>1, <1>6, StepAside DEF ThreadRuns, Same
<1>7. ASSUME NEW t \in Threads, ThreadNotifies(t) PROVE Refines
  BY <1>1, <1>7, StepAside DEF ThreadNotifies, Same
<1>8. ASSUME NEW t \in Threads, ThreadHandsBack(t) \/ ThreadExits(t) PROVE Refines
  BY <1>8, FinishRefines
<1>9. CASE MainDrains \/ MainCompletes
  BY <1>9, CompleteRefines
<1>10. CASE MainPolls \/ MainReads \/ MainReturns \/ MainExits \/ DestroyGivesUp
            \/ DestroyEnds
  <2>1. UNCHANGED <<queue, active, pc, task, done, batch>>
    BY <1>10 DEF MainPolls, MainReads, MainReturns, MainExits, DestroyGivesUp,
                 DestroyEnds
  <2>2. /\ at' # "spin"
        /\ at' # "handler" => at # "handler" \/ batch = <<>>
    BY <1>10 DEF MainPolls, MainReads, MainReturns, MainExits, DestroyGivesUp,
                 DestroyEnds
  <2> QED
    BY <1>0, <2>1, <2>2, StepAside DEF Same
<1>11. CASE DestroyPosts
  <2>1. /\ Exit \in AllTasks /\ Post(Exit) /\ UNCHANGED <<task, done, batch>>
        /\ at = "destroy" /\ at' = "spin" /\ lock'
    BY <1>11 DEF DestroyPosts, AllTasks
  <2> QED
    BY <2>1, PostRefines
<1>12. CASE DestroySpins
  BY <1>12, SpinRefines
<1> QED
  BY <1>2, <1>3, <1>4, <1>5, <1>6, <1>7, <1>8, <1>9, <1>10, <1>11, <1>12
  DEF Next, ThreadSteps, MainSteps

\* Initially the pool is empty.
LEMMA StartRefines ==
  ASSUME Init
  PROVE  PlacedOnce /\ Contract!Init
<1>1. Elements(<<>>) = {} /\ Distinct(<<>>)
  BY DEF Elements, Distinct
<1>2. ThreadsAt(Busy) = {} /\ Taken = {}
  BY DEF Init, ThreadsAt, Taken, Busy
<1>3. queue = <<>> /\ done = <<>> /\ batch = <<>> /\ at = "loop"
  BY DEF Init
<1>4. PlacedOnce
  BY <1>1, <1>2, <1>3 DEF PlacedOnce
<1>5. Contract!Init
  BY <1>2, <1>3 DEF Contract!Init, Taken
<1> QED
  BY <1>4, <1>5

\* A task is never in two places, and active while it is in one.
LEMMA PlacedInvariant == Spec => []PlacedOnce
<1>1. Init => PlacedOnce
  BY StartRefines
<1>2. TypeOK /\ PlacedOnce /\ [Next]_vars => PlacedOnce'
  BY StepRefines DEF Refines
<1> QED
  BY <1>1, <1>2, TypeCorrect, PTL DEF Spec

\* The thread pool implements TaskService, whatever the number of threads, the
\* tasks, the queue limit and the period of the counter.
THEOREM ServiceImplemented == Spec => ImplementsTaskService
<1>1. Init => Contract!Init
  BY StartRefines
<1>2. TypeOK /\ PlacedOnce /\ [Next]_vars => [Contract!Next]_Contract!vars
  BY StepRefines DEF Refines
<1> QED
  BY <1>1, <1>2, TypeCorrect, PlacedInvariant, PTL
  DEF Spec, ImplementsTaskService, Contract!Spec

-----------------------------------------------------------------------------
(* The end of the pool *)

\* The exit task is behind every other task when it is queued, alone when it is
\* taken, and nowhere but while ngx_thread_pool_destroy() waits for its answer.
\* As many threads have exited as answers were seen, or one more.
Emptied ==
    /\ Exit \in Elements(queue) \cup Taken => at = "spin" /\ lock
    /\ Exit \in Elements(queue) => queue[Len(queue)] = Exit
    /\ Exit \in Taken => queue = <<>>
    /\ at = "spin" /\ ~lock => queue = <<>>
    /\ at \in {"destroy", "destroyed"} /\ exits > 0 => queue = <<>>
    /\ at = "destroyed" => exits = Cardinality(Threads)
    /\ at \in {"loop", "event", "drain", "handler"} => exits = 0
    /\ NumberAt({"exited"}) = IF at = "spin" /\ ~lock THEN exits + 1 ELSE exits

\* A step that takes no task and ends no thread, and leaves the end of the pool
\* where it was.
LEMMA EmptiedAside ==
  ASSUME Emptied, UNCHANGED <<queue, Taken, NumberAt({"exited"}), exits>>,
         \/ UNCHANGED <<at, lock>>
         \/ /\ at \in {"loop", "event", "drain", "handler"}
            /\ at' \in {"loop", "event", "drain", "handler"}
            /\ UNCHANGED lock
         \/ at = "loop" /\ at' = "destroy" /\ UNCHANGED lock
         \/ at = "destroy" /\ at' = "gaveup"
         \/ at = "destroy" /\ at' = "destroyed" /\ exits = Cardinality(Threads)
  PROVE  Emptied'
BY DEF Emptied

\* A task of the event loop is posted while the exit task is nowhere, the exit
\* task behind everything else.
LEMMA PostEmptied ==
  ASSUME TypeOK, Emptied, NEW k \in AllTasks, Post(k), UNCHANGED <<exits, Taken>>,
         \/ k # Exit /\ at \in {"loop", "handler"} /\ UNCHANGED <<at, lock>>
         \/ k = Exit /\ at = "destroy" /\ at' = "spin" /\ lock'
  PROVE  Emptied'
<1>1. Elements(queue') = Elements(queue) \cup {k} /\ queue'[Len(queue')] = k
  BY AppendedElements DEF Post, TypeOK, AllTasks
<1>2. NumberAt({"exited"})' = NumberAt({"exited"})
  <2>1. ASSUME NEW t \in Threads, Goto(t, "wait", "woken")
        PROVE  NumberAt({"exited"})' = NumberAt({"exited"})
    BY <2>1, Moved DEF In
  <2>2. ASSUME UNCHANGED pc
        PROVE  NumberAt({"exited"})' = NumberAt({"exited"})
    BY <2>2 DEF NumberAt
  <2> QED
    BY <2>1, <2>2 DEF Post, Signal
<1>3. CASE k # Exit /\ at \in {"loop", "handler"} /\ UNCHANGED <<at, lock>>
  BY <1>1, <1>2, <1>3 DEF Emptied
<1>4. CASE k = Exit /\ at = "destroy" /\ at' = "spin" /\ lock'
  BY <1>1, <1>2, <1>4 DEF Emptied
<1> QED
  BY <1>3, <1>4

\* A thread takes the exit task only when it is the last one.
LEMMA TakeEmptied ==
  ASSUME TypeOK, PlacedOnce, Emptied, NEW t \in Threads,
         NEW from \in {"lock", "woken"}, Take(t, from), UNCHANGED <<at, lock, exits>>
  PROVE  Emptied'
<1> DEFINE k == Head(queue)
<1>1. /\ queue # <<>> /\ queue' = Tail(queue)
      /\ Goto(t, from, "run")
      /\ task' = [task EXCEPT ![t] = k]
  BY DEF Take
<1>2. Elements(queue) = Elements(queue') \cup {k} /\ k \notin Elements(queue')
  BY <1>1, ShortenedElements DEF TypeOK, PlacedOnce
<1>3. Taken' = Taken \cup {k} /\ ThreadsAt(Busy)' = ThreadsAt(Busy) \cup {t}
  BY <1>1, TakenMoved DEF Points, Busy, Idle
<1>4. NumberAt({"exited"})' = NumberAt({"exited"})
  BY <1>1, Moved DEF In
<1>5. k = Exit => queue' = <<>>
  <2> SUFFICES ASSUME k = Exit PROVE queue' = <<>>
    OBVIOUS
  <2>1. queue[1] = queue[Len(queue)]
    BY <1>1, <1>2 DEF Emptied, TypeOK
  <2>2. Len(queue) = 1
    <3>1. /\ Len(queue) \in Nat \ {0} /\ DOMAIN queue = 1 .. Len(queue)
          /\ 1 \in DOMAIN queue /\ Len(queue) \in DOMAIN queue
      BY <1>1 DEF TypeOK
    <3>2. Distinct(queue)
      BY DEF PlacedOnce
    <3> QED
      BY <2>1, <3>1, <3>2 DEF Distinct
  <2> QED
    BY <1>1, <2>2 DEF TypeOK
<1>6. Exit \in Elements(queue') => queue'[Len(queue')] = Exit
  <2> SUFFICES ASSUME Exit \in Elements(queue') PROVE queue'[Len(queue')] = Exit
    OBVIOUS
  <2>1. queue' # <<>>
    BY DEF Elements
  <2>2. queue'[Len(queue')] = queue[Len(queue)]
    BY <1>1, <2>1 DEF TypeOK
  <2> QED
    BY <1>2, <2>2 DEF Emptied
<1>7. Exit \notin Taken
  BY <1>1 DEF Emptied
<1> HIDE DEF k
<1> QED
  BY <1>1, <1>2, <1>3, <1>4, <1>5, <1>6, <1>7 DEF Emptied

\* The thread that answers leaves the queue empty behind it.
LEMMA FinishEmptied ==
  ASSUME TypeOK, PlacedOnce, Emptied, NEW t \in Threads,
         ThreadHandsBack(t) \/ ThreadExits(t)
  PROVE  Emptied'
<1>1. CASE ThreadHandsBack(t)
  <2>1. NumberAt({"exited"})' = NumberAt({"exited"})
    BY <1>1, Moved DEF In, ThreadHandsBack
  <2>2. /\ Taken' = Taken \ {task[t]} /\ task[t] \in Taken
        /\ ThreadsAt(Busy)' = ThreadsAt(Busy) \ {t}
    <3>1. \E from \in Busy : \E to \in Points \ Busy : Goto(t, from, to)
      BY <1>1 DEF ThreadHandsBack, Points, Busy, Idle
    <3>2. task' = [task EXCEPT ![t] = None]
      BY <1>1 DEF ThreadHandsBack
    <3> QED
      BY <3>1, <3>2, TakenMoved
  <2>3. UNCHANGED <<queue, at, lock, exits>>
    BY <1>1 DEF ThreadHandsBack, pool
  <2> QED
    BY <2>1, <2>2, <2>3 DEF Emptied
<1>2. CASE ThreadExits(t)
  <2>1. /\ NumberAt({"exited"}) \in Nat
        /\ NumberAt({"exited"})' = NumberAt({"exited"}) + 1
    BY <1>2, Moved DEF In, ThreadExits
  <2>2. Taken' = Taken \ {Exit} /\ Exit \in Taken
    <3>1. \E from \in Busy : \E to \in Points \ Busy : Goto(t, from, to)
      BY <1>2 DEF ThreadExits, Points, Busy, Idle
    <3>2. task' = [task EXCEPT ![t] = None] /\ task[t] = Exit
      BY <1>2 DEF ThreadExits
    <3>3. /\ Taken' = Taken \ {task[t]} /\ task[t] \in Taken
          /\ ThreadsAt(Busy)' = ThreadsAt(Busy) \ {t}
      BY <3>1, <3>2, TakenMoved
    <3> QED
      BY <3>2, <3>3
  <2>3. UNCHANGED <<queue, at, exits>> /\ lock' = FALSE
    BY <1>2 DEF ThreadExits, pool
  <2>4. at = "spin" /\ lock /\ queue = <<>>
    BY <2>2 DEF Emptied
  <2>5. Exit \notin Elements(queue)
    BY <2>4 DEF Elements
  <2> QED
    BY <2>1, <2>2, <2>3, <2>4, <2>5 DEF Emptied
<1> QED
  BY <1>1, <1>2

\* Once every thread has answered nothing is left of the pool: this is what
\* ngx_thread_pool_destroy() relies on when it destroys the mutex.
THEOREM DestroyedSafely == Spec => []DestroyedAlone
<1> USE DEF Points, Busy, Idle, pool
<1>1. Init => Emptied
  <2> SUFFICES ASSUME Init PROVE Emptied
    OBVIOUS
  <2>1. Members(pc, Threads, {"exited"}) = {}
    BY DEF Init, Members
  <2>2. NumberAt({"exited"}) = 0
    BY <2>1, FS_EmptySet DEF NumberAt, Count
  <2>3. Taken = {} /\ Elements(queue) = {}
    BY DEF Init, Taken, ThreadsAt, Elements
  <2> QED
    BY <2>2, <2>3 DEF Init, Emptied
<1>2. TypeOK /\ PlacedOnce /\ Emptied /\ [Next]_vars => Emptied'
  <2> SUFFICES ASSUME TypeOK, PlacedOnce, Emptied, [Next]_vars
               PROVE  Emptied'
    OBVIOUS
  <2>0. ASSUME UNCHANGED <<pc, task>>
        PROVE  UNCHANGED <<Taken, NumberAt({"exited"})>>
    BY <2>0 DEF Taken, ThreadsAt, NumberAt
  <2>1. ASSUME NEW t \in Threads, NEW from \in Points \ {"exited"},
               NEW to \in Points \ {"exited"}, Goto(t, from, to),
               from \in Busy <=> to \in Busy,
               UNCHANGED <<queue, task, at, lock, exits>>
        PROVE  Emptied'
    <3>1. UNCHANGED Taken
      BY <2>1, TakenMoved
    <3>2. UNCHANGED NumberAt({"exited"})
      BY <2>1, Moved DEF In
    <3> QED
      BY <2>1, <3>1, <3>2, EmptiedAside
  <2>2. CASE UNCHANGED vars
    BY <2>0, <2>2, EmptiedAside DEF vars
  <2>3. ASSUME NEW k \in Tasks, MainPosts(k) PROVE Emptied'
    <3>1. /\ k \in AllTasks /\ k # Exit /\ Post(k)
          /\ at \in {"loop", "handler"} /\ at # "spin"
          /\ UNCHANGED <<task, done, batch, at, exits, lock>>
      BY <2>3, ThreadPoolAssumption DEF MainPosts, AllTasks
    <3>2. UNCHANGED Taken
      BY <3>1, PostPlaced
    <3> QED
      BY <3>1, <3>2, PostEmptied
  <2>4. ASSUME NEW t \in Threads, ThreadLocks(t) \/ ThreadWakes(t) PROVE Emptied'
    <3>1. PICK from \in {"lock", "woken"} : Take(t, from) \/ Sleep(t, from)
      BY <2>4 DEF ThreadLocks, ThreadWakes
    <3>2. UNCHANGED <<at, lock, exits>>
      BY <2>4 DEF ThreadLocks, ThreadWakes
    <3> QED
      BY <2>1, <3>1, <3>2, TakeEmptied DEF Sleep
  <2>5. ASSUME NEW t \in Threads, ThreadWakesSpuriously(t) PROVE Emptied'
    BY <2>1, <2>5 DEF ThreadWakesSpuriously
  <2>6. ASSUME NEW t \in Threads, ThreadRuns(t) PROVE Emptied'
    BY <2>1, <2>6 DEF ThreadRuns
  <2>7. ASSUME NEW t \in Threads, ThreadNotifies(t) PROVE Emptied'
    BY <2>1, <2>7 DEF ThreadNotifies
  <2>8. ASSUME NEW t \in Threads, ThreadHandsBack(t) \/ ThreadExits(t) PROVE Emptied'
    BY <2>8, FinishEmptied
  <2>9. CASE \/ MainPolls \/ MainReads \/ MainDrains \/ MainCompletes \/ MainReturns
             \/ MainExits \/ DestroyGivesUp \/ DestroyEnds
    BY <2>0, <2>9, EmptiedAside
    DEF MainPolls, MainReads, MainDrains, MainCompletes, MainReturns, MainExits,
        DestroyGivesUp, DestroyEnds
  <2>10. CASE DestroyPosts
    <3>1. /\ Exit \in AllTasks /\ Post(Exit)
          /\ at = "destroy" /\ at' = "spin" /\ lock'
          /\ UNCHANGED <<task, done, batch, exits>>
      BY <2>10 DEF DestroyPosts, AllTasks
    <3>2. UNCHANGED Taken
      BY <3>1, PostPlaced
    <3> QED
      BY <3>1, <3>2, PostEmptied
  <2>11. CASE DestroySpins
    <3>1. /\ at = "spin" /\ ~lock /\ at' = "destroy" /\ exits' = exits + 1
          /\ UNCHANGED <<queue, pc, task>>
      BY <2>11 DEF DestroySpins
    <3>2. UNCHANGED <<Taken, NumberAt({"exited"})>>
      BY <2>0, <3>1
    <3> QED
      BY <3>1, <3>2 DEF Emptied
  <2> QED
    BY <2>2, <2>3, <2>4, <2>5, <2>6, <2>7, <2>8, <2>9, <2>10, <2>11
    DEF Next, ThreadSteps, MainSteps
<1>3. TypeOK /\ Emptied => DestroyedAlone
  <2> SUFFICES ASSUME Emptied, at = "destroyed"
               PROVE  queue = <<>> /\ ThreadsAt({"exited"}) = Threads
    BY DEF DestroyedAlone
  <2>1. Cardinality(Threads) \in Nat \ {0}
    BY ThreadPoolAssumption, FS_CardinalityType, FS_EmptySet
  <2>2. Cardinality(ThreadsAt({"exited"})) = Cardinality(Threads)
    BY NumberMeaning DEF Emptied
  <2>3. ThreadsAt({"exited"}) \subseteq Threads
    BY DEF ThreadsAt
  <2>4. ThreadsAt({"exited"}) = Threads
    BY <2>2, <2>3, ThreadPoolAssumption, FS_Subset
  <2>5. queue = <<>>
    BY <2>1 DEF Emptied
  <2> QED
    BY <2>4, <2>5
<1> QED
  BY <1>1, <1>2, <1>3, TypeCorrect, PlacedInvariant, PTL DEF Spec

=============================================================================
