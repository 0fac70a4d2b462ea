---------------------------- MODULE ProcessCycle ----------------------------
(***************************************************************************)
(* The master process and its children (os/unix/ngx_process_cycle.c and    *)
(* ngx_process.c): the table of processes, the flags that signal handlers  *)
(* raise, one turn of the master's loop after sigsuspend(), and what a     *)
(* worker, a cache manager, a cache loader or a new binary does with what  *)
(* it is told.                                                             *)
(*                                                                         *)
(* The master keeps its signals blocked outside sigsuspend(), so a turn of *)
(* its loop sees one set of delivered signals and is one step.  A command  *)
(* in a channel and the signal sent when the channel cannot be written     *)
(* raise the same flag in the child and are not told apart.                *)
(***************************************************************************)
EXTENDS Integers, Sequences, FiniteSets, SequencesExt, FiniteSetsExt

CONSTANTS MAX_PROCESSES,   \* NGX_MAX_PROCESSES
          Settings         \* the configurations and environments to look at:
                           \* records of the fields below

VARIABLES set,             \* the setting of this behaviour, which does not change
          master,          \* the master's memory
          kids,            \* the processes the kernel keeps for the master
          pending,         \* signals blocked until the next sigsuspend()
          used             \* how much of each bound has been used

state == <<master, kids, pending, used>>
vars  == <<set, state>>

Workers         == set.workers   \* ccf->worker_processes
Cache           == set.cache     \* some path has a cache manager and a loader
Signals         == set.signals   \* signals an administrator sends to the master
MaxSignals      == set.sent      \* bound on how many of them are sent
MaxCrashes      == set.crashes   \* bound on children that die by themselves
Fatal           == set.fatal     \* whether their exit code may be 2: a set of booleans
MaxForkFailures == set.forks     \* bound on turns in which a fork() fails
BadConfigs      == set.configs   \* bound on reloads with a broken configuration

\* ngx_new_binary is 0, a pid, or NGX_INVALID_PID, which is also what marks a
\* free slot.  At most MAX_PROCESSES children exist at a time.
INVALID == -1
Pids    == 1..MAX_PROCESSES
Slots   == 0..(MAX_PROCESSES - 1)

ASSUME ProcessCycleAssumption ==
    /\ MAX_PROCESSES \in Nat \ {0}
    /\ Settings \subseteq
         [workers : Nat \ {0}, cache : BOOLEAN, fatal : SUBSET BOOLEAN,
          signals : SUBSET {"HUP", "QUIT", "TERM", "USR1", "USR2", "WINCH"},
          sent : Nat, crashes : Nat, forks : Nat, configs : Nat]

NoKid == [state |-> "none", kind |-> "worker", cmds |-> {}, cycle |-> 0,
          fatal |-> FALSE]

NoProcess == [pid |-> INVALID, kind |-> "worker", exiting |-> FALSE,
              exited |-> FALSE, detached |-> FALSE, respawn |-> FALSE,
              just_spawn |-> FALSE]

-----------------------------------------------------------------------------
(***************************************************************************)
(* The functions of the master work on a record x of what they change: m,  *)
(* the master's memory; kids; pending; calls, the number of fork() calls   *)
(* in this turn; failing, the numbers of those that fail; and failed, if   *)
(* one has failed, or has not been made for want of a slot.                *)
(***************************************************************************)

Raised(x, flag) == flag \in x.m.flags
Clear(x, flag)  == [x EXCEPT !.m.flags = @ \ {flag}]
InUse(m)        == 0..(m.last - 1)

\* ngx_spawn_process().  slot is the slot of the process to replace, or
\* INVALID; a replacement keeps the flags of its predecessor but "exited".
Spawn(x, kind, type, slot) ==
    LET free == {i \in InUse(x.m) : x.m.tab[i].pid = INVALID}
        s    == IF slot # INVALID THEN slot
                ELSE IF free # {} THEN Min(free) ELSE x.m.last
        pid  == Min({p \in Pids : x.kids[p].state = "none"})
        new  == [pid |-> pid, kind |-> kind, exiting |-> FALSE,
                 exited |-> FALSE, detached |-> type = "DETACHED",
                 respawn |-> type \in {"RESPAWN", "JUST_RESPAWN"},
                 just_spawn |-> type \in {"JUST_SPAWN", "JUST_RESPAWN"}]
    IN  IF s = MAX_PROCESSES
        THEN [x EXCEPT !.failed = TRUE]
        ELSE IF x.calls + 1 \in x.failing
        THEN [x EXCEPT !.calls = @ + 1, !.failed = TRUE]
        ELSE [x EXCEPT
                !.calls = @ + 1,
                !.m.tab[s] = IF slot = INVALID THEN new
                             ELSE [@ EXCEPT !.pid = pid, !.exited = FALSE],
                !.m.last = IF s = @ THEN @ + 1 ELSE @,
                !.kids[pid] = [NoKid EXCEPT !.state = "run", !.kind = kind,
                                            !.cycle = x.m.cycle]]

\* Whether the Spawn that led from x to y gave NGX_INVALID_PID.
SpawnFailed(x, y) == y.kids = x.kids

\* ngx_start_worker_processes() and ngx_start_cache_manager_processes(),
\* called one after the other wherever they are called.
StartProcesses(x, just) ==
    LET type(t) == IF just THEN "JUST_" \o t ELSE t
        ws == FoldLeft(LAMBDA y, i : Spawn(y, "worker", type("RESPAWN"), INVALID),
                       x, [i \in 1..Workers |-> i])
        ms == Spawn(ws, "manager", type("RESPAWN"), INVALID)
    IN  IF Cache
        THEN Spawn(ms, "loader", IF just THEN "JUST_SPAWN" ELSE "NORESPAWN",
                   INVALID)
        ELSE ws

\* Slots of processes the master may tell something, and of workers it counts on.
Mine(m) == {i \in InUse(m) : m.tab[i].pid # INVALID /\ ~m.tab[i].detached}
Serve(m) == {i \in Mine(m) : /\ m.tab[i].kind = "worker"
                             /\ ~m.tab[i].exiting
                             /\ ~m.tab[i].exited}

\* Processes are started and nobody is told to quit: m.beside counts the sets
\* of workers that were started beside others so (a history variable).
StartBeside(x) ==
    StartProcesses([x EXCEPT !.m.beside = IF Serve(x.m) = {} THEN @ ELSE @ + 1], FALSE)

\* What ngx_signal_worker_processes() does to the slots it sends cmd to.  A
\* process that is gone (its replacement could not be forked) is found out by
\* kill(), which says ESRCH.  "kill" stands for SIGKILL.
Tell(x, cmd, told) ==
    LET m    == x.m
        gone == {i \in told : x.kids[m.tab[i].pid].state = "none"}
        to   == {m.tab[i].pid : i \in told \ gone}
    IN  [x EXCEPT
           !.m.tab = [i \in Slots |->
               IF i \in gone THEN [@[i] EXCEPT !.exited = TRUE, !.exiting = FALSE]
               ELSE IF i \in told THEN [@[i] EXCEPT !.exiting = @ \/ cmd # "reopen"]
               ELSE @[i]],
           !.m.flags = IF gone # {} THEN @ \cup {"reap"} ELSE @,
           !.kids = [p \in Pids |->
               IF p \notin to THEN @[p]
               ELSE IF cmd = "kill" THEN [@[p] EXCEPT !.state = "zombie"]
               ELSE [@[p] EXCEPT !.cmds = @ \cup {cmd}]],
           !.pending = IF cmd = "kill" /\ to # {} THEN @ \cup {"CHLD"} ELSE @]

\* Variant: a process stays "just spawned" for ever.
KeepJustSpawn(x) == x

ClearJustSpawn(x) ==
    [x EXCEPT !.m.tab = [i \in Slots |->
        IF i \in Mine(x.m) THEN [@[i] EXCEPT !.just_spawn = FALSE] ELSE @[i]]]

\* Variant: a process that has just been spawned is told like the others.
SignalWorkersNewToo(x, cmd) ==
    ClearJustSpawn(Tell(x, cmd, {i \in Mine(x.m) :
                                    ~(x.m.tab[i].exiting /\ cmd = "quit")}))

\* ngx_signal_worker_processes(): a process just spawned is passed over once,
\* an exiting one is not told to quit again.
SignalWorkers(x, cmd) ==
    ClearJustSpawn(Tell([x EXCEPT !.m.beside = IF cmd = "reopen" THEN @ ELSE 0],
                        cmd, {i \in Mine(x.m) :
                                 /\ ~x.m.tab[i].just_spawn
                                 /\ ~(x.m.tab[i].exiting /\ cmd = "quit")}))

-----------------------------------------------------------------------------
\* Variant: waitpid() is called once per signal.
GetStatusOnce(x) ==
    LET dead == {Min({p \in Pids : x.kids[p].state = "zombie"})}
        slot(p) == Min({i \in InUse(x.m) : x.m.tab[i].pid = p})
    IN  [x EXCEPT
           !.m.tab = [i \in Slots |->
               IF i \in {slot(p) : p \in dead} THEN [@[i] EXCEPT !.exited = TRUE]
               ELSE @[i]],
           !.kids = [p \in Pids |-> IF p \in dead THEN NoKid ELSE @[p]]]

\* ngx_process_get_status(): every zombie is waited for; the slot that has
\* its pid is marked, and loses "respawn" when the exit code is 2.
GetStatus(x) ==
    LET dead == {p \in Pids : x.kids[p].state = "zombie"}
        slot(p) == Min({i \in InUse(x.m) : x.m.tab[i].pid = p})
    IN  [x EXCEPT
           !.m.tab = [i \in Slots |->
               IF i \in {slot(p) : p \in dead}
               THEN [@[i] EXCEPT !.exited = TRUE,
                                 !.respawn = @ /\ ~x.kids[x.m.tab[i].pid].fatal]
               ELSE @[i]],
           !.kids = [p \in Pids |-> IF p \in dead THEN NoKid ELSE @[p]]]

\* ngx_signal_handler() in the master, for all the signals sigsuspend() lets in.
Handle(x, sigs) ==
    LET flagOf == [CHLD |-> "reap", ALRM |-> "sigalrm", HUP |-> "reconfigure",
                   QUIT |-> "quit", TERM |-> "terminate", USR1 |-> "reopen",
                   USR2 |-> "change_binary", WINCH |-> "noaccept"]
        heard == IF x.m.new_binary > 0 THEN sigs \ {"USR2"} ELSE sigs
        y == [x EXCEPT !.m.flags = @ \cup {flagOf[g] : g \in heard},
                       !.m.stopped = @ \/ sigs \cap {"QUIT", "TERM", "WINCH"} # {}]
    IN  IF "CHLD" \in sigs THEN GetStatus(y) ELSE y

MayRespawn(x, i) ==
    /\ x.m.tab[i].respawn
    /\ ~x.m.tab[i].exiting
    /\ ~Raised(x, "terminate")
    /\ ~Raised(x, "quit")

\* Variant: the old workers are not brought back.
BinaryExitedNoRestart(x) == [x EXCEPT !.m.new_binary = 0, !.m.noaccepting = FALSE]

\* The new binary has exited: its master's workers may have to be restarted.
BinaryExited(x) ==
    [x EXCEPT !.m.new_binary = 0,
              !.m.flags = IF x.m.noaccepting THEN @ \cup {"restart"} ELSE @,
              !.m.noaccepting = FALSE]

\* Variant: the table shrinks below a slot that is still in use.
FreeSlotAlways(x, i) == [x EXCEPT !.m.last = @ - 1]

FreeSlot(x, i) ==
    IF i = x.m.last - 1 THEN [x EXCEPT !.m.last = @ - 1]
                        ELSE [x EXCEPT !.m.tab[i].pid = INVALID]

\* Variant: a process that is exiting does not count as live.
ReapSlotNotExiting(x, i) ==
    LET slot == x.m.tab[i]
        y    == Spawn(x, slot.kind, "", i)
    IN  IF slot.pid = INVALID THEN x
        ELSE IF ~slot.exited
        THEN IF ~slot.exiting /\ ~slot.detached
             THEN [x EXCEPT !.m.live = TRUE] ELSE x
        ELSE IF MayRespawn(x, i) /\ ~SpawnFailed(x, y)
        THEN [y EXCEPT !.m.live = TRUE]
        ELSE FreeSlot(x, i)

\* One turn of the loop of ngx_reap_children().
ReapSlot(x, i) ==
    LET slot == x.m.tab[i]
        y    == Spawn(x, slot.kind, "", i)
    IN  IF slot.pid = INVALID THEN x
        ELSE IF ~slot.exited
        THEN IF slot.exiting \/ ~slot.detached
             THEN [x EXCEPT !.m.live = TRUE] ELSE x
        ELSE IF MayRespawn(x, i)
        THEN IF SpawnFailed(x, y) THEN y ELSE [y EXCEPT !.m.live = TRUE]
        ELSE IF slot.pid = x.m.new_binary
        THEN FreeSlot(BinaryExited(x), i) ELSE FreeSlot(x, i)

\* Variant: live is not computed anew.
ReapChildrenKeepsLive(x) ==
    FoldLeft(ReapSlot, Clear(x, "reap"), [n \in 1..x.m.last |-> n - 1])

\* ngx_reap_children(); the result is left in live.
ReapChildren(x) ==
    FoldLeft(ReapSlot, [Clear(x, "reap") EXCEPT !.m.live = FALSE],
             [n \in 1..x.m.last |-> n - 1])

-----------------------------------------------------------------------------
MasterExit(x) == [x EXCEPT !.m.status = "exited"]

\* The "if (ngx_terminate)" of the loop: SIGTERM, and SIGKILL in the end.
Terminate(x) ==
    LET y == [x EXCEPT !.m.delay = IF @ = 0 THEN 50 ELSE @]
    IN  IF y.m.sigio > 0 THEN [y EXCEPT !.m.sigio = @ - 1]
        ELSE SignalWorkers([y EXCEPT !.m.sigio = Workers + 2],
                           IF y.m.delay > 1000 THEN "kill" ELSE "terminate")

Quit(x) == [SignalWorkers(x, "quit") EXCEPT !.m.listening = FALSE]

Reload(x) ==
    LET new == StartProcesses([x EXCEPT !.m.cycle = @ + 1], TRUE)
    IN  SignalWorkers([new EXCEPT !.m.live = TRUE], "quit")

Restart(x) ==
    IF ~Raised(x, "restart") THEN x
    ELSE [StartBeside(Clear(x, "restart")) EXCEPT !.m.live = TRUE]

Reopen(x) ==
    IF ~Raised(x, "reopen") THEN x
    ELSE SignalWorkers(Clear(x, "reopen"), "reopen")

\* ngx_exec_new_binary(): the pid of the new binary or NGX_INVALID_PID.
ChangeBinary(x) ==
    LET y == Spawn(Clear(x, "change_binary"), "binary", "DETACHED", INVALID)
        pid == CHOOSE p \in Pids : y.kids[p] # x.kids[p]
    IN  IF ~Raised(x, "change_binary") THEN x
        ELSE [y EXCEPT !.m.new_binary = IF SpawnFailed(x, y) THEN INVALID ELSE pid]

Noaccept(x) ==
    IF ~Raised(x, "noaccept") THEN x
    ELSE SignalWorkers([Clear(x, "noaccept") EXCEPT !.m.noaccepting = TRUE], "quit")

Requests(x) == Noaccept(ChangeBinary(Reopen(Restart(x))))

\* The body of the loop of ngx_master_process_cycle(), from the return of
\* sigsuspend(); configOk is what ngx_init_cycle() makes of the configuration.
Body(x, configOk) ==
    LET r == IF Raised(x, "reap") THEN ReapChildren(x) ELSE x
        c == Clear(r, "reconfigure")
        stop == Raised(r, "terminate") \/ Raised(r, "quit")
    IN  IF stop /\ ~r.m.live THEN MasterExit(r)
        ELSE IF Raised(r, "terminate") THEN Terminate(r)
        ELSE IF Raised(r, "quit") THEN Quit(r)
        ELSE IF ~Raised(r, "reconfigure") THEN Requests(r)
        ELSE IF r.m.new_binary # 0
        THEN [StartBeside(c) EXCEPT !.m.noaccepting = FALSE]
        ELSE IF configOk THEN Requests(Reload(c)) ELSE c

\* Variant: the delay is not doubled.
TopSameDelay(x) ==
    IF x.m.delay = 0 \/ x.m.status = "exited" THEN x
    ELSE [Clear(x, "sigalrm") EXCEPT !.m.sigio = 0, !.m.timer = TRUE]

\* The top of the loop, before sigsuspend(): the termination cycle.  Delays
\* above 1000, which the loop does not tell apart, stay what they are.
Top(x) ==
    IF x.m.delay = 0 \/ x.m.status = "exited" THEN x
    ELSE LET y == IF Raised(x, "sigalrm")
                  THEN [Clear(x, "sigalrm") EXCEPT
                         !.m.sigio = 0,
                         !.m.delay = IF @ > 1000 THEN @ ELSE 2 * @]
                  ELSE x
         IN  [y EXCEPT !.m.timer = TRUE]

-----------------------------------------------------------------------------
NoFaults == [signals |-> 0, crashes |-> 0, forks |-> 0, configs |-> 0]

\* ngx_master_process_cycle() up to its loop.
Started ==
    LET m == [tab |-> [i \in Slots |-> NoProcess], last |-> 0, flags |-> {},
              live |-> TRUE, delay |-> 0, sigio |-> 0, new_binary |-> 0,
              noaccepting |-> FALSE, cycle |-> 0, status |-> "run",
              listening |-> TRUE, timer |-> FALSE, stopped |-> FALSE,
              beside |-> 0]
        x == StartProcesses([m |-> m, kids |-> [p \in Pids |-> NoKid],
                             pending |-> {}, calls |-> 0, failing |-> {},
                             failed |-> FALSE], FALSE)
    IN  /\ master = x.m
        /\ kids = x.kids
        /\ pending = {}
        /\ used = NoFaults

Init == set \in Settings /\ Started

\* sigsuspend() returns with every pending signal delivered.
Turn(failing, configOk) ==
    LET x == [m |-> master, kids |-> kids, pending |-> {}, calls |-> 0,
              failing |-> failing, failed |-> FALSE]
        y == Top(Body(Handle(x, pending), configOk))
    IN  /\ master.status = "run"
        /\ pending # {}
        /\ failing \subseteq 1..y.calls
        /\ master' = y.m
        /\ kids' = y.kids
        /\ pending' = y.pending
        /\ used' = [used EXCEPT !.forks = IF y.failed THEN @ + 1 ELSE @,
                                !.configs = IF configOk THEN @ ELSE @ + 1]

MasterTurn == Turn({}, TRUE)

MasterTurnBadConfig ==
    /\ used.configs < BadConfigs
    /\ "HUP" \in pending
    /\ Turn({}, FALSE)

MasterTurnForkFails ==
    /\ used.forks < MaxForkFailures
    /\ \E failing \in SUBSET (1..(Workers + 1)) : failing # {} /\ Turn(failing, TRUE)

Raise(sigs) == pending' = pending \cup sigs

\* kill(1) by the administrator, or "nginx -s".
SendSignal(sig) ==
    /\ master.status = "run"
    /\ used.signals < MaxSignals
    /\ used' = [used EXCEPT !.signals = @ + 1]
    /\ Raise({sig})
    /\ UNCHANGED <<master, kids>>

\* The timer of the termination cycle.
Alarm ==
    /\ master.status = "run"
    /\ master.timer
    /\ master' = [master EXCEPT !.timer = FALSE]
    /\ Raise({"ALRM"})
    /\ UNCHANGED <<kids, used>>

-----------------------------------------------------------------------------
Exit(p, fatal) ==
    /\ kids' = [kids EXCEPT ![p].state = "zombie", ![p].fatal = fatal]
    /\ Raise({"CHLD"})

\* ngx_terminate in a worker or a helper.
KidTerminates(p) ==
    /\ kids[p].state \in {"run", "closing"}
    /\ "terminate" \in kids[p].cmds
    /\ Exit(p, FALSE)
    /\ UNCHANGED <<master, used>>

\* ngx_quit: a helper exits, a worker closes its listening sockets and goes on
\* with its connections.
KidQuits(p) ==
    /\ kids[p].state = "run"
    /\ "quit" \in kids[p].cmds
    /\ IF kids[p].kind = "worker"
       THEN /\ kids' = [kids EXCEPT ![p].state = "closing",
                                    ![p].cmds = @ \ {"quit"}]
            /\ UNCHANGED pending
       ELSE Exit(p, FALSE)
    /\ UNCHANGED <<master, used>>

\* A worker that is shutting down has no timers left.
KidCloses(p) ==
    /\ kids[p].state = "closing"
    /\ Exit(p, FALSE)
    /\ UNCHANGED <<master, used>>

\* ngx_reopen in a worker or a helper.
KidReopens(p) ==
    /\ kids[p].state \in {"run", "closing"}
    /\ "reopen" \in kids[p].cmds
    /\ kids' = [kids EXCEPT ![p].cmds = @ \ {"reopen"}]
    /\ UNCHANGED <<master, pending, used>>

\* The cache loader has finished; a new binary has been told to exit.
KidFinishes(p) ==
    /\ kids[p].state = "run"
    /\ kids[p].kind \in {"loader", "binary"}
    /\ Exit(p, FALSE)
    /\ UNCHANGED <<master, used>>

\* A child dies on a signal, or leaves with the fatal code 2.
KidCrashes(p, fatal) ==
    /\ kids[p].state \in {"run", "closing"}
    /\ kids[p].kind # "binary"
    /\ used.crashes < MaxCrashes
    /\ used' = [used EXCEPT !.crashes = @ + 1]
    /\ Exit(p, fatal)
    /\ UNCHANGED master

KidObeys(p) ==
    \/ KidTerminates(p)
    \/ KidQuits(p)
    \/ KidReopens(p)

Step ==
    \/ MasterTurn
    \/ MasterTurnBadConfig
    \/ MasterTurnForkFails
    \/ Alarm
    \/ \E sig \in Signals : SendSignal(sig)
    \/ \E p \in Pids :
          \/ KidObeys(p)
          \/ KidCloses(p)
          \/ KidFinishes(p)
          \/ \E fatal \in Fatal : KidCrashes(p, fatal)

Next == Step /\ UNCHANGED set

Spec == Init /\ [][Next]_vars

\* The steps that are turns of the master: signals are delivered; SIGKILL, which
\* has SIGCHLD pending again at once, starts the countdown of SIGIO.
TurnTaken == ~(pending \subseteq pending') \/ master'.sigio > master.sigio

\* The kernel delivers pending signals (weak fairness of the master's turns,
\* with the condition that enables them written out) and timers; while children
\* have been told something one of them gets to it; while workers are shutting
\* down, the connections of one of them end.
MasterFair ==
    /\ \/ []<>(master.status = "exited" \/ pending = {})
       \/ []<><<TurnTaken>>_state
    /\ WF_state(Alarm)

KidsFair ==
    /\ WF_state(\E p \in Pids : KidObeys(p))
    /\ WF_state(\E p \in Pids : KidCloses(p))

HangSpec == Spec /\ MasterFair
FairSpec == Spec /\ MasterFair /\ KidsFair

-----------------------------------------------------------------------------
Alive(p) == kids[p].state \in {"run", "closing"}

Serving == Serve(master)

\* A respawn whose fork() fails leaves its slot with the pid of the dead
\* child: from then on another child may get that pid.  The properties below
\* that speak of pids or count slots are about runs without such a failure.
ForksWorked == used.forks = 0

\* A child the kernel still has is in exactly one slot below ngx_last_process:
\* ngx_reap_children() shrinks the table, ngx_spawn_process() fills holes, and
\* pids come back, but waitpid() never returns a pid the master cannot place.
NoOrphans ==
    ForksWorked => \A p \in Pids :
        kids[p].state # "none" =>
            Cardinality({i \in InUse(master) : master.tab[i].pid = p}) = 1

\* Crashes and reloads never make the master run more workers that nobody told
\* to quit than worker_processes says, times the sets that it has started beside
\* others since it last told workers to quit.  It does so for a HUP while a new
\* binary runs, and to restart workers when the new binary has exited: a reload
\* in the same turn has started them already, and one after WINCH has left
\* ngx_noaccepting set.
WorkersBounded ==
    ForksWorked => Cardinality(Serving) <= Workers * (1 + master.beside)

\* The master does not leave a child behind that it has not let go: "live" is
\* up to date whenever the loop tests it.
MasterExitsLast ==
    master.status = "exited" =>
        \A p \in Pids : Alive(p) => kids[p].kind = "binary"

\* A reload tells every process of an earlier configuration to quit, those
\* that were respawned or had not been reaped included...
OldProcessesQuit ==
    \A i \in Mine(master) :
        LET p == master.tab[i].pid
        IN  Alive(p) /\ kids[p].cycle < master.cycle => master.tab[i].exiting

\* ...and none of the new configuration, unless the master was told to stop.
NewProcessesStay ==
    ~master.stopped /\ ForksWorked =>
        \A p \in Pids :
            Alive(p) /\ kids[p].cycle = master.cycle =>
                kids[p].state = "run" /\ kids[p].cmds \subseteq {"reopen"}

\* After SIGTERM the master exits even if no child ever reacts: the delay of
\* the termination cycle doubles until SIGKILL is sent.  (A reload that starts
\* nobody sets live all the same, and nobody's exit will clear it.)
TerminateCompletes ==
    []ForksWorked => ("TERM" \in pending ~> master.status = "exited")

\* After SIGQUIT the master exits, provided that the children finish.
QuitCompletes ==
    KidsFair /\ []ForksWorked => ("QUIT" \in pending ~> master.status = "exited")

\* Unless it is told to stop, the master has all its workers again after
\* every crash and every reload, provided that old workers finish and that
\* none exits with the code after which it is not respawned.
WorkersReplenished ==
    KidsFair /\ []ForksWorked /\ [](\A p \in Pids : ~kids[p].fatal) =>
        \/ <>master.stopped
        \/ []<>(Cardinality({i \in Serving :
                   kids[master.tab[i].pid].state = "run"}) >= Workers)

\* When the new binary exits after the old workers were told to stop
\* accepting, the master has its own workers serve again, unless it is told
\* once more not to.
UpgradeRollsBack ==
    (/\ master.noaccepting
     /\ master.new_binary > 0
     /\ kids[master.new_binary].state = "zombie")
        ~> (\/ Cardinality(Serving) >= Workers
            \/ master.new_binary = 0 /\ master.noaccepting)

\* A request that a signal handler has recorded is carried out or dropped.
RequestsServed ==
    \A f \in {"reconfigure", "reopen", "change_binary", "noaccept"} :
        f \in master.flags ~> f \notin master.flags

=============================================================================
