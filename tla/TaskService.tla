---------------------------- MODULE TaskService ----------------------------
(***************************************************************************)
(* What a thread pool promises the event loop that posts tasks to it: a    *)
(* task is run once for every time it is posted, tasks are started in the  *)
(* order in which they were posted, and completed, in the event loop, in   *)
(* the order in which they were finished.  A task in Exits ends the thread *)
(* that runs it and is not completed.                                      *)
(***************************************************************************)
EXTENDS Sequences

CONSTANTS Tasks, Exits

VARIABLES posted,    \* tasks that wait for a thread
          running,   \* tasks that a thread has taken
          finished   \* tasks that wait for the event loop

vars == <<posted, running, finished>>

Members(s) == {s[i] : i \in DOMAIN s}

Init ==
    /\ posted = <<>>
    /\ running = {}
    /\ finished = <<>>

\* Only a task that is nowhere in the pool is posted.
Post(k) ==
    /\ k \notin Members(posted) \cup running \cup Members(finished)
    /\ posted' = Append(posted, k)
    /\ UNCHANGED <<running, finished>>

Start ==
    /\ posted # <<>>
    /\ posted' = Tail(posted)
    /\ running' = running \cup {Head(posted)}
    /\ UNCHANGED finished

Finish(k) ==
    /\ k \in running
    /\ running' = running \ {k}
    /\ finished' = IF k \in Exits THEN finished ELSE Append(finished, k)
    /\ UNCHANGED posted

Complete ==
    /\ finished # <<>>
    /\ finished' = Tail(finished)
    /\ UNCHANGED <<posted, running>>

Next ==
    \/ \E k \in Tasks : Post(k) \/ Finish(k)
    \/ Start
    \/ Complete

Spec == Init /\ [][Next]_vars

=============================================================================
