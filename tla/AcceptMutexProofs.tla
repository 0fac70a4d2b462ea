-------------------------- MODULE AcceptMutexProofs --------------------------
(***************************************************************************)
(* Proofs about the accept mutex: for any number of workers and sockets, a *)
(* worker has released the mutex when its turn is over, and listening goes *)
(* with the turn.                                                          *)
(***************************************************************************)
EXTENDS AcceptMutex, TLAPS

States ==
    [pc : {"top", "undo", "wait", "accept", "dead", "gone"}, use : BOOLEAN, held : BOOLEAN,
     disabled : Int, active : SUBSET Sockets, exiting : BOOLEAN, post : BOOLEAN,
     capped : BOOLEAN, ready : SUBSET Sockets, timers : SUBSET Sockets,
     conns : Int, idle : Int]

Uses == [arrivals : Nat, nofiles : Nat, ctl : Nat, other : Nat]

\* The worker that the word names is dead, or about to unlock it again, or in its
\* turn and knows it.
KnowsTurn(w, word, x) ==
    word = w => \/ x.pc \in {"dead", "undo"}
                \/ x.pc \in {"wait", "accept"} /\ x.use /\ x.held

\* While epoll_ctl() works, a worker that uses the mutex listens on everything
\* if it thinks it has the turn, and else on no shared socket; its accept events
\* have no timers.
Listens(x, ctl) ==
    ctl = 0 /\ x.use => /\ x.timers = {}
                        /\ IF x.held THEN x.active = Sockets
                                     ELSE x.active \cap Shared = {}

IInv ==
    /\ ws \in [Workers -> States]
    /\ used \in Uses
    /\ \A w \in Workers : KnowsTurn(w, lock, ws[w]) /\ Listens(ws[w], used.ctl)

\* A step of worker w, which takes the mutex only when it is free, keeps the
\* invariant if w's own part of it holds afterwards.
LEMMA WorkerMoves ==
  ASSUME IInv, NEW w \in Workers, NEW y \in States, Become(w, y),
         lock' \in {lock, None} \/ (lock = None /\ lock' = w),
         used' \in Uses, used'.ctl = 0 => used.ctl = 0,
         KnowsTurn(w, lock', y), Listens(y, used'.ctl)
  PROVE  IInv'
<1>1. ws' \in [Workers -> States] /\ ws'[w] = y
  BY DEF IInv, Become
<1>2. ASSUME NEW v \in Workers, v # w
      PROVE  KnowsTurn(v, lock', ws'[v]) /\ Listens(ws'[v], used'.ctl)
  <2>1. ws'[v] = ws[v]
    BY <1>2 DEF IInv, Become
  <2>2. lock' = v => lock = v
    BY <1>2, AcceptMutexAssumption
  <2> QED
    BY <2>1, <2>2 DEF IInv, KnowsTurn, Listens
<1> QED
  BY <1>1, <1>2 DEF IInv

\* What the handlers of the connections do to a worker's state is to its counts.
LEMMA HandleEventsKeep ==
  ASSUME NEW x \in States, NEW y \in HandleEvents(x)
  PROVE  /\ y \in States
         /\ y.pc = x.pc /\ y.use = x.use /\ y.held = x.held
         /\ y.active = x.active /\ y.timers = x.timers
<1>1. PICK n \in 0..x.conns : y \in {[x EXCEPT !.conns = n, !.idle = i] : i \in 0..n}
  BY DEF HandleEvents
<1>2. PICK i \in 0..n : y = [x EXCEPT !.conns = n, !.idle = i]
  BY <1>1
<1>3. n \in Int /\ i \in Int
  BY DEF States
<1> QED
  BY <1>2, <1>3 DEF States

\* So it is with the draining of idle connections,
LEMMA DrainedKeep ==
  ASSUME NEW x \in States, NEW y \in Drained(x)
  PROVE  /\ y \in States
         /\ y.pc = x.pc /\ y.use = x.use /\ y.held = x.held
         /\ y.active = x.active /\ y.timers = x.timers
<1> DEFINE n == IF x.idle \div 8 > 1
                THEN IF x.idle \div 8 < 32 THEN x.idle \div 8 ELSE 32
                ELSE 1
<1>1. \/ y = x
      \/ y \in {[x EXCEPT !.conns = @ - k, !.idle = @ - k] : k \in 0..n}
  BY Zenon DEF Drained
<1> HIDE DEF n
<1>2. CASE y = x
  BY <1>2
<1>3. CASE y \in {[x EXCEPT !.conns = @ - k, !.idle = @ - k] : k \in 0..n}
  <2>1. PICK k \in 0..n : y = [x EXCEPT !.conns = @ - k, !.idle = @ - k]
    BY <1>3
  <2>2. x.conns - k \in Int /\ x.idle - k \in Int
    BY DEF States
  <2> QED
    BY <2>1, <2>2 DEF States
<1> QED
  BY <1>1, <1>2, <1>3

\* and with ngx_event_accept() until a connection is dropped or handed over.
LEMMA AcceptKeeps ==
  ASSUME NEW x \in States, NEW s \in Sockets,
         NEW y \in Refused(Counted(x), s) \cup Opened(Counted(x), s)
  PROVE  /\ y \in States
         /\ y.pc = x.pc /\ y.use = x.use /\ y.held = x.held
         /\ y.active = x.active /\ y.timers = x.timers
<1> DEFINE c == Counted(x)
<1>1. /\ c \in States
      /\ c.pc = x.pc /\ c.use = x.use /\ c.held = x.held
      /\ c.active = x.active /\ c.timers = x.timers
  <2>1. ConnectionN \div 8 - Free(x) \in Int
    BY AcceptMutexAssumption DEF Free, States
  <2> QED
    BY <2>1 DEF Counted, States
<1>2. PICK z \in Drained(c) : y \in {Leave(z, s), Next1(z, s),
                                     Next1([z EXCEPT !.conns = @ + 1], s)}
  BY DEF Refused, Opened
<1>3. /\ z \in States
      /\ z.pc = x.pc /\ z.use = x.use /\ z.held = x.held
      /\ z.active = x.active /\ z.timers = x.timers
  BY <1>1, DrainedKeep
<1> HIDE DEF c
<1>4. CASE y = Leave(z, s)
  BY <1>3, <1>4 DEF Leave, States
<1>5. CASE y = Next1(z, s)
  BY <1>3, <1>5 DEF Next1, States
<1>6. CASE y = Next1([z EXCEPT !.conns = @ + 1], s)
  <2> DEFINE o == [z EXCEPT !.conns = @ + 1]
  <2>1. /\ o \in States
        /\ o.pc = x.pc /\ o.use = x.use /\ o.held = x.held
        /\ o.active = x.active /\ o.timers = x.timers
    BY <1>3 DEF States
  <2> HIDE DEF o
  <2>2. y = Next1(o, s)
    BY <1>6 DEF o
  <2> QED
    BY <2>1, <2>2 DEF Next1, States
<1> QED
  BY <1>2, <1>4, <1>5, <1>6

-----------------------------------------------------------------------------
\* A call that fails is counted, one of epoll_ctl() as such.
LEMMA FaultCounts ==
  ASSUME used \in Uses, NEW kind \in {"nofiles", "ctl", "other"}, Fault(kind)
  PROVE  /\ used' \in Uses
         /\ used'.ctl = IF kind = "ctl" THEN used.ctl + 1 ELSE used.ctl
BY DEF Fault, Uses

LEMMA CtlFailureCounts ==
  ASSUME used \in Uses, CtlFailure
  PROVE  used' \in Uses /\ used'.ctl # 0
BY FaultCounts DEF CtlFailure, Uses

\* The turns up to epoll_wait() keep the invariant.
LEMMA TurnKeeps ==
  ASSUME IInv, NEW w \in Workers,
         \/ TurnDisabled(w) \/ TurnUnlocked(w)
         \/ TrylockSucceeds(w) \/ TrylockEnableFails(w) \/ TrylockUndone(w)
         \/ TrylockFails(w) \/ TrylockDisableFails(w)
  PROVE  IInv'
<1> DEFINE x == ws[w]
<1>1. x \in States /\ used \in Uses /\ KnowsTurn(w, lock, x) /\ Listens(x, used.ctl)
  BY DEF IInv
<1>2. CASE TurnDisabled(w)
  <2> DEFINE n == x.disabled - 1
             y == [x EXCEPT !.disabled = n, !.pc = "wait"]
  <2>1. x.pc = "top" /\ Become(w, y) /\ lock' = lock /\ used' = used
    BY <1>2 DEF TurnDisabled
  <2>2. n \in Int
    BY <1>1 DEF States
  <2> HIDE DEF n
  <2>3. y \in States /\ KnowsTurn(w, lock, y) /\ Listens(y, used.ctl)
    BY <1>1, <2>1, <2>2 DEF KnowsTurn, Listens, States
  <2> QED
    BY <1>1, <2>1, <2>3, WorkerMoves
<1>3. CASE TurnUnlocked(w)
  <2> DEFINE y == [x EXCEPT !.pc = "wait"]
  <2>1. y \in States /\ KnowsTurn(w, lock, y) /\ Listens(y, used.ctl)
    BY <1>1, <1>3 DEF TurnUnlocked, KnowsTurn, Listens, States
  <2>2. Become(w, y) /\ lock' = lock /\ used' = used
    BY <1>3 DEF TurnUnlocked
  <2> QED
    BY <1>1, <2>1, <2>2, WorkerMoves
<1>4. CASE TrylockSucceeds(w)
  <2> DEFINE y == [x EXCEPT !.active = IF x.held THEN @ ELSE Sockets,
                            !.held = TRUE, !.post = TRUE, !.pc = "wait"]
  <2>1. y \in States /\ KnowsTurn(w, w, y) /\ Listens(y, used.ctl)
    BY <1>1, <1>4 DEF TrylockSucceeds, Trylock, KnowsTurn, Listens, States
  <2>2. Become(w, y) /\ lock = None /\ lock' = w /\ used' = used
    BY <1>4 DEF TrylockSucceeds
  <2> QED
    BY <1>1, <2>1, <2>2, WorkerMoves
<1>5. CASE TrylockEnableFails(w)
  <2>1. PICK a \in SUBSET Sockets : Become(w, [[x EXCEPT !.active = a] EXCEPT !.pc = "undo"])
    BY <1>5 DEF TrylockEnableFails, EnabledPartly
  <2> DEFINE y == [[x EXCEPT !.active = a] EXCEPT !.pc = "undo"]
  <2>2. used' \in Uses /\ used'.ctl # 0
    BY <1>1, <1>5, CtlFailureCounts DEF TrylockEnableFails
  <2>3. y \in States /\ KnowsTurn(w, w, y) /\ Listens(y, used'.ctl)
    BY <1>1, <2>2 DEF KnowsTurn, Listens, States
  <2>4. lock = None /\ lock' = w
    BY <1>5 DEF TrylockEnableFails
  <2> QED
    BY <2>1, <2>2, <2>3, <2>4, WorkerMoves
<1>6. CASE TrylockFails(w)
  <2> DEFINE y == [x EXCEPT !.active = IF x.held THEN @ \cap Reuseport ELSE @,
                            !.held = FALSE, !.capped = TRUE, !.pc = "wait"]
  <2>1. y \in States /\ KnowsTurn(w, lock, y) /\ Listens(y, used.ctl)
    BY <1>1, <1>6 DEF TrylockFails, Trylock, KnowsTurn, Listens, States, Shared
  <2>2. Become(w, y) /\ lock' = lock /\ used' = used
    BY <1>6 DEF TrylockFails
  <2> QED
    BY <1>1, <2>1, <2>2, WorkerMoves
<1>7. CASE TrylockDisableFails(w)
  <2>1. PICK b \in SUBSET Sockets : Become(w, [x EXCEPT !.active = @ \ b])
    BY <1>1, <1>7 DEF TrylockDisableFails, DisabledPartly, States
  <2> DEFINE y == [x EXCEPT !.active = @ \ b]
  <2>2. used' \in Uses /\ used'.ctl # 0
    BY <1>1, <1>7, CtlFailureCounts DEF TrylockDisableFails
  <2>3. y \in States /\ KnowsTurn(w, lock, y) /\ Listens(y, used'.ctl)
    BY <1>1, <2>2 DEF KnowsTurn, Listens, States
  <2>4. lock' = lock
    BY <1>7 DEF TrylockDisableFails
  <2> QED
    BY <2>1, <2>2, <2>3, <2>4, WorkerMoves
<1>8. CASE TrylockUndone(w)
  <2> DEFINE y == [x EXCEPT !.pc = "top"]
  <2>1. Become(w, y) /\ lock' = UnlockedBy(w) /\ used' = used
    BY <1>8 DEF TrylockUndone
  <2>2. lock' # w /\ lock' \in {lock, None}
    BY <2>1, AcceptMutexAssumption DEF UnlockedBy
  <2>3. y \in States /\ KnowsTurn(w, lock', y) /\ Listens(y, used.ctl)
    BY <1>1, <2>2 DEF KnowsTurn, Listens, States
  <2> QED
    BY <1>1, <2>1, <2>2, <2>3, WorkerMoves
<1> QED
  BY <1>2, <1>3, <1>4, <1>5, <1>6, <1>7, <1>8

\* What a turn does from epoll_wait() on, without accept(), keeps it,
LEMMA HandlersKeep ==
  ASSUME IInv, NEW w \in Workers, Wake(w) \/ TurnEnds(w) \/ Exit(w)
  PROVE  IInv'
<1> DEFINE x == ws[w]
<1>1. x \in States /\ used \in Uses /\ KnowsTurn(w, lock, x) /\ Listens(x, used.ctl)
  BY DEF IInv
<1>2. CASE Wake(w)
  <2> DEFINE ready == {s \in x.active : queue[QueueOf(w, s)] > 0}
  <2>1. PICK z \in IF x.post THEN {x} ELSE HandleEvents(x) :
            Become(w, [z EXCEPT !.ready = ready, !.pc = "accept"])
    BY <1>2 DEF Wake
  <2>2. /\ z \in States
        /\ z.pc = x.pc /\ z.use = x.use /\ z.held = x.held
        /\ z.active = x.active /\ z.timers = x.timers
    BY <1>1, HandleEventsKeep
  <2>3. ready \in SUBSET Sockets
    BY <1>1 DEF States
  <2> HIDE DEF ready
  <2> DEFINE y == [z EXCEPT !.ready = ready, !.pc = "accept"]
  <2>4. x.pc = "wait" /\ lock' = lock /\ used' = used
    BY <1>2 DEF Wake
  <2>5. y \in States /\ KnowsTurn(w, lock, y) /\ Listens(y, used.ctl)
    BY <1>1, <2>2, <2>3, <2>4 DEF KnowsTurn, Listens, States
  <2> QED
    BY <1>1, <2>1, <2>4, <2>5, WorkerMoves
<1>3. CASE TurnEnds(w)
  <2>1. PICK z \in HandleEvents(x) :
            Become(w, [z EXCEPT !.pc = "top", !.post = FALSE, !.capped = FALSE])
    BY <1>3 DEF TurnEnds
  <2>2. /\ z \in States
        /\ z.pc = x.pc /\ z.use = x.use /\ z.held = x.held
        /\ z.active = x.active /\ z.timers = x.timers
    BY <1>1, HandleEventsKeep
  <2> DEFINE y == [z EXCEPT !.pc = "top", !.post = FALSE, !.capped = FALSE]
  <2>3. /\ x.pc = "accept" /\ used' = used
        /\ lock' = IF x.held THEN UnlockedBy(w) ELSE lock
    BY <1>3 DEF TurnEnds
  <2>4. lock' # w /\ lock' \in {lock, None}
    BY <1>1, <2>3, AcceptMutexAssumption DEF KnowsTurn, UnlockedBy
  <2>5. y \in States /\ KnowsTurn(w, lock', y) /\ Listens(y, used.ctl)
    BY <1>1, <2>2, <2>4 DEF KnowsTurn, Listens, States
  <2> QED
    BY <1>1, <2>1, <2>3, <2>4, <2>5, WorkerMoves
<1>4. CASE Exit(w)
  <2> DEFINE y == [x EXCEPT !.pc = "gone"]
  <2>1. x.pc = "top" /\ Become(w, y) /\ lock' = lock /\ used' = used
    BY <1>4 DEF Exit
  <2>2. y \in States /\ KnowsTurn(w, lock, y) /\ Listens(y, used.ctl)
    BY <1>1, <2>1 DEF KnowsTurn, Listens, States
  <2> QED
    BY <1>1, <2>1, <2>2, WorkerMoves
<1> QED
  BY <1>2, <1>3, <1>4

\* and so do the shutdown and the death of a worker and what the master does then.
LEMMA ProcessesKeep ==
  ASSUME IInv, NEW w \in Workers, Quit(w) \/ Crash(w) \/ Reap(w)
  PROVE  IInv'
<1> DEFINE x == ws[w]
<1>1. x \in States /\ used \in Uses /\ KnowsTurn(w, lock, x) /\ Listens(x, used.ctl)
  BY DEF IInv
<1>2. CASE Quit(w)
  <2>1. PICK z \in HandleEvents(x) :
            Become(w, [z EXCEPT !.exiting = TRUE, !.held = FALSE,
                                !.use = FALSE, !.active = {}])
    BY <1>2 DEF Quit
  <2>2. z \in States /\ z.pc = x.pc
    BY <1>1, HandleEventsKeep
  <2> DEFINE y == [z EXCEPT !.exiting = TRUE, !.held = FALSE,
                            !.use = FALSE, !.active = {}]
  <2>3. x.pc = "top" /\ lock' = lock
    BY <1>2 DEF Quit
  <2>4. used' \in Uses /\ used'.ctl = used.ctl
    BY <1>1, <1>2, FaultCounts DEF Quit
  <2>5. y \in States /\ KnowsTurn(w, lock, y) /\ Listens(y, used.ctl)
    BY <1>1, <2>2, <2>3 DEF KnowsTurn, Listens, States
  <2> QED
    BY <2>1, <2>3, <2>4, <2>5, WorkerMoves
<1>3. CASE Crash(w)
  <2> DEFINE y == [x EXCEPT !.pc = "dead"]
  <2>1. Become(w, y) /\ lock' = lock
    BY <1>3 DEF Crash
  <2>2. used' \in Uses /\ used'.ctl = used.ctl
    BY <1>1, <1>3, FaultCounts DEF Crash
  <2>3. y \in States /\ KnowsTurn(w, lock, y) /\ Listens(y, used.ctl)
    BY <1>1 DEF KnowsTurn, Listens, States
  <2> QED
    BY <2>1, <2>2, <2>3, WorkerMoves
<1>4. CASE Reap(w)
  <2> DEFINE y == IF x.exiting THEN [x EXCEPT !.pc = "gone"] ELSE Started(x.use)
  <2>1. Become(w, y) /\ lock' = UnlockedBy(w) /\ used' = used
    BY <1>4 DEF Reap
  <2>2. lock' # w /\ lock' \in {lock, None}
    BY <2>1, AcceptMutexAssumption DEF UnlockedBy
  <2>3. y \in States /\ Listens(y, used.ctl)
    BY <1>1, AcceptMutexAssumption DEF Started, Listens, States, Shared
  <2>4. KnowsTurn(w, lock', y)
    BY <2>2 DEF KnowsTurn
  <2> QED
    BY <1>1, <2>1, <2>2, <2>3, <2>4, WorkerMoves
<1> QED
  BY <1>2, <1>3, <1>4

-----------------------------------------------------------------------------
\* accept() and the timers of accept events keep the invariant.
LEMMA AcceptHandlerKeeps ==
  ASSUME IInv, NEW w \in Workers, NEW s \in Sockets,
         \/ Accept(w, s) \/ AcceptReorderFails(w, s)
         \/ AcceptAborted(w, s) \/ AcceptAgain(w, s)
         \/ AcceptNoFiles(w, s) \/ AcceptNoFilesDisableFails(w, s)
         \/ TimerExpires(w, s) \/ TimerEnableFails(w, s)
  PROVE  IInv'
<1> DEFINE x == ws[w]
<1>1. x \in States /\ used \in Uses /\ KnowsTurn(w, lock, x) /\ Listens(x, used.ctl)
  BY DEF IInv
<1>2. CASE Accept(w, s)
  <2>1. PICK y \in Refused(Counted(x), s) \cup Opened(Counted(x), s) : Become(w, y)
    BY <1>2 DEF Accept
  <2>2. /\ y \in States
        /\ y.pc = x.pc /\ y.use = x.use /\ y.held = x.held
        /\ y.active = x.active /\ y.timers = x.timers
    BY <1>1, AcceptKeeps
  <2>3. lock' = lock /\ used' = used
    BY <1>2 DEF Accept
  <2>4. KnowsTurn(w, lock, y) /\ Listens(y, used.ctl)
    BY <1>1, <2>2 DEF KnowsTurn, Listens
  <2> QED
    BY <1>1, <2>1, <2>2, <2>3, <2>4, WorkerMoves
<1>3. CASE AcceptReorderFails(w, s)
  <2>1. PICK z \in Opened(Counted(x), s) : Become(w, [z EXCEPT !.active = @ \ {s}])
    BY <1>3 DEF AcceptReorderFails
  <2>2. z \in States /\ z.pc = x.pc /\ z.use = x.use /\ z.held = x.held
    BY <1>1, AcceptKeeps
  <2> DEFINE y == [z EXCEPT !.active = @ \ {s}]
  <2>3. used' \in Uses /\ used'.ctl # 0
    BY <1>1, <1>3, CtlFailureCounts DEF AcceptReorderFails
  <2>4. y \in States /\ KnowsTurn(w, lock, y) /\ Listens(y, used'.ctl)
    BY <1>1, <2>2, <2>3 DEF KnowsTurn, Listens, States
  <2>5. lock' = lock
    BY <1>3 DEF AcceptReorderFails
  <2> QED
    BY <2>1, <2>3, <2>4, <2>5, WorkerMoves
<1>4. CASE AcceptAborted(w, s)
  <2> DEFINE y == Next1(x, s)
  <2>1. Become(w, y) /\ lock' = lock /\ used' = used
    BY <1>4 DEF AcceptAborted
  <2>2. y \in States /\ KnowsTurn(w, lock, y) /\ Listens(y, used.ctl)
    BY <1>1 DEF Next1, KnowsTurn, Listens, States
  <2> QED
    BY <1>1, <2>1, <2>2, WorkerMoves
<1>5. CASE AcceptAgain(w, s)
  <2> DEFINE y == Leave(x, s)
  <2>1. Become(w, y) /\ lock' = lock /\ used' = used
    BY <1>5 DEF AcceptAgain
  <2>2. y \in States /\ KnowsTurn(w, lock, y) /\ Listens(y, used.ctl)
    BY <1>1 DEF Leave, KnowsTurn, Listens, States
  <2> QED
    BY <1>1, <2>1, <2>2, WorkerMoves
<1>6. CASE AcceptNoFiles(w, s)
  <2> DEFINE z == [x EXCEPT !.active = {}]
             held == Leave([z EXCEPT !.held = FALSE, !.disabled = 1], s)
             timer == Leave([z EXCEPT !.timers = @ \cup {s}], s)
  <2>1. used' \in Uses /\ used'.ctl = used.ctl
    BY <1>1, <1>6, FaultCounts DEF AcceptNoFiles
  <2>2. /\ z \in States /\ z.use = x.use /\ z.held = x.held
        /\ z.active = {} /\ z.timers = x.timers
    BY <1>1 DEF States
  <2>3. CASE x.use
    <3>1. Become(w, held) /\ lock' = IF x.held THEN UnlockedBy(w) ELSE lock
      BY <1>6, <2>2, <2>3 DEF AcceptNoFiles
    <3>2. x.pc = "accept"
      BY <1>6 DEF AcceptNoFiles, HasNext, Accepts
    <3>3. lock' # w /\ lock' \in {lock, None}
      BY <1>1, <3>1, <3>2, AcceptMutexAssumption DEF KnowsTurn, UnlockedBy
    <3>4. held \in States /\ Listens(held, used.ctl)
      <4> DEFINE v == [z EXCEPT !.held = FALSE, !.disabled = 1]
      <4>1. /\ v \in States
            /\ v.use = x.use /\ ~v.held /\ v.active = {} /\ v.timers = x.timers
        <5> DEFINE n == 1
        <5>1. n \in Int /\ v = [z EXCEPT !.held = FALSE, !.disabled = n]
          OBVIOUS
        <5> HIDE DEF n, v, z
        <5> QED
          BY <2>2, <5>1 DEF States
      <4> HIDE DEF v
      <4>2. /\ Leave(v, s) \in States
            /\ Listens(Leave(v, s), used.ctl)
        BY <1>1, <2>3, <4>1 DEF Leave, Listens, States
      <4> QED
        BY <4>2 DEF v
    <3>5. KnowsTurn(w, lock', held)
      BY <3>3 DEF KnowsTurn
    <3> QED
      BY <2>1, <3>1, <3>3, <3>4, <3>5, WorkerMoves
  <2>4. CASE ~x.use
    <3>1. Become(w, timer) /\ lock' = lock
      BY <1>6, <2>2, <2>4 DEF AcceptNoFiles
    <3>2. timer \in States /\ KnowsTurn(w, lock, timer) /\ Listens(timer, used.ctl)
      BY <1>1, <2>4 DEF Leave, KnowsTurn, Listens, States
    <3> QED
      BY <2>1, <3>1, <3>2, WorkerMoves
  <2> QED
    BY <2>3, <2>4
<1>7. CASE AcceptNoFilesDisableFails(w, s)
  <2>1. PICK b \in SUBSET Sockets : Become(w, Leave([x EXCEPT !.active = @ \ b], s))
    BY <1>1, <1>7 DEF AcceptNoFilesDisableFails, DisabledPartly, States
  <2> DEFINE y == Leave([x EXCEPT !.active = @ \ b], s)
  <2>2. used' \in Uses /\ used'.ctl # 0
    BY <1>1, <1>7, CtlFailureCounts DEF AcceptNoFilesDisableFails
  <2>3. y \in States /\ KnowsTurn(w, lock, y) /\ Listens(y, used'.ctl)
    BY <1>1, <2>2 DEF Leave, KnowsTurn, Listens, States
  <2>4. lock' = lock
    BY <1>7 DEF AcceptNoFilesDisableFails
  <2> QED
    BY <2>1, <2>2, <2>3, <2>4, WorkerMoves
<1>8. CASE TimerExpires(w, s)
  <2> DEFINE y == [x EXCEPT !.timers = @ \ {s}, !.ready = {s},
                            !.active = IF x.exiting THEN {} ELSE Sockets]
  <2>1. s \in x.timers /\ Become(w, y) /\ lock' = lock /\ used' = used
    BY <1>8 DEF TimerExpires
  <2>2. y \in States /\ KnowsTurn(w, lock, y) /\ Listens(y, used.ctl)
    BY <1>1, <2>1 DEF KnowsTurn, Listens, States
  <2> QED
    BY <1>1, <2>1, <2>2, WorkerMoves
<1>9. CASE TimerEnableFails(w, s)
  <2> DEFINE z == [x EXCEPT !.timers = @ \ {s}]
  <2>1. PICK a \in SUBSET Sockets : Become(w, [z EXCEPT !.active = a])
    BY <1>9 DEF TimerEnableFails, EnabledPartly
  <2> DEFINE y == [z EXCEPT !.active = a]
  <2>2. used' \in Uses /\ used'.ctl # 0
    BY <1>1, <1>9, CtlFailureCounts DEF TimerEnableFails
  <2>3. y \in States /\ KnowsTurn(w, lock, y) /\ Listens(y, used'.ctl)
    BY <1>1, <2>2 DEF KnowsTurn, Listens, States
  <2>4. lock' = lock
    BY <1>9 DEF TimerEnableFails
  <2> QED
    BY <2>1, <2>2, <2>3, <2>4, WorkerMoves
<1> QED
  BY <1>2, <1>3, <1>4, <1>5, <1>6, <1>7, <1>8, <1>9

-----------------------------------------------------------------------------
\* The invariant holds in every state of the worker processes.
THEOREM Invariant == Spec => []IInv
<1>1. Init => IInv
  <2> SUFFICES ASSUME Init PROVE IInv
    OBVIOUS
  <2>1. PICK use \in BOOLEAN : ws = [w \in Workers |-> Started(use)]
    BY AcceptMutexAssumption DEF Init
  <2>2. Started(use) \in States /\ Listens(Started(use), 0)
    BY AcceptMutexAssumption DEF Started, States, Listens, Shared
  <2>3. used \in Uses /\ used.ctl = 0 /\ \A w \in Workers : lock # w
    BY AcceptMutexAssumption DEF Init, Uses
  <2> QED
    BY <2>1, <2>2, <2>3 DEF IInv, KnowsTurn
<1>2. IInv /\ [Next]_vars => IInv'
  <2> SUFFICES ASSUME IInv, [Next]_vars PROVE IInv'
    OBVIOUS
  <2>1. ASSUME NEW w \in Workers, Loop(w) PROVE IInv'
    BY <2>1, TurnKeeps, HandlersKeep, AcceptHandlerKeeps DEF Loop
  <2>2. ASSUME NEW w \in Workers, Quit(w) \/ Crash(w) \/ Reap(w) PROVE IInv'
    BY <2>2, ProcessesKeep
  <2>3. ASSUME NEW q \in Queues, Arrive(q) PROVE IInv'
    <3>1. used' \in Uses /\ used'.ctl = used.ctl /\ lock' = lock /\ ws' = ws
      BY <2>3 DEF Arrive, Uses, IInv
    <3> QED
      BY <3>1 DEF IInv
  <2>4. CASE UNCHANGED vars
    BY <2>4 DEF vars, IInv
  <2> QED
    BY <2>1, <2>2, <2>3, <2>4 DEF Next
<1> QED
  BY <1>1, <1>2, PTL DEF Spec

\* Whatever path a turn of ngx_process_events_and_timers() takes, with failing
\* calls and deaths, the worker has released the accept mutex at its end.
THEOREM MutexReleased == Spec => []ReleasedBetweenTurns
<1>1. IInv => ReleasedBetweenTurns
  BY DEF IInv, KnowsTurn, ReleasedBetweenTurns
<1> QED
  BY <1>1, Invariant, PTL

\* As long as epoll_ctl() works, the worker that has the accept mutex sleeps
\* listening on every socket, and one that has not got the turn on no shared one
\* (ngx_enable_accept_events(), ngx_disable_accept_events()).
THEOREM ListeningFollowsTurn == Spec => []ListensInTurn
<1>1. IInv => ListensInTurn
  BY DEF IInv, KnowsTurn, Listens, ListensInTurn
<1> QED
  BY <1>1, Invariant, PTL

=============================================================================
