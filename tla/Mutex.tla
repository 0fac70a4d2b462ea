------------------------------- MODULE Mutex -------------------------------
(***************************************************************************)
(* What a mutex in shared memory promises the processes that share it      *)
(* (ngx_shmtx_t): one owner at a time; the mutex of a process that died    *)
(* inside its critical section is kept from everybody until it is taken    *)
(* back from the dead, and then it is free again.                          *)
(***************************************************************************)
CONSTANTS Procs, None

VARIABLES owner,   \* the process that has the mutex, dead or alive, or None
          inside   \* the processes in a critical section

vars == <<owner, inside>>

Init ==
    /\ owner = None
    /\ inside = {}

Acquire(p) ==
    /\ owner = None
    /\ owner' = p
    /\ inside' = inside \cup {p}

Release(p) ==
    /\ owner = p
    /\ p \in inside
    /\ owner' = None
    /\ inside' = inside \ {p}

Die(p) ==
    /\ p \in inside
    /\ inside' = inside \ {p}
    /\ UNCHANGED owner

Reclaim ==
    /\ owner # None
    /\ owner \notin inside
    /\ owner' = None
    /\ UNCHANGED inside

Next ==
    \/ \E p \in Procs : Acquire(p) \/ Release(p) \/ Die(p)
    \/ Reclaim

Spec == Init /\ [][Next]_vars

=============================================================================
