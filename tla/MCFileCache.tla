---------------------------- MODULE MCFileCache ----------------------------
EXTENDS FileCache

CONSTANTS r1, r2, k1, k2

TwoRequests == {r1, r2}
TwoKeys     == {k1, k2}
Symmetry    == Permutations(TwoRequests) \cup Permutations(TwoKeys)

\* Two resources, the first with a variant, locked while they are populated;
\* the zone holds two of the three entries.
Locked == [mains |-> {1, 3}, variant |-> [k \in {1} |-> 2], nodes |-> 2,
           uses |-> {1}, locks |-> {TRUE}, age |-> 1, timeout |-> 1, size |-> 2,
           free |-> FALSE, tries |-> 2, failing |-> FALSE,
           cold |-> FALSE, time |-> 3, requests |-> 3, crashes |-> 0]

\* Two resources found on the disk by the loader or by requests, a zone for
\* one entry, and a process that exits.
Loading == [mains |-> TwoKeys, variant |-> [k \in {} |-> k], nodes |-> 1,
            uses |-> {2}, locks |-> {FALSE}, age |-> 1, timeout |-> 1, size |-> 2,
            free |-> FALSE, tries |-> 2, failing |-> FALSE,
            cold |-> TRUE, time |-> 1, requests |-> 2, crashes |-> 1]

\* A forced expire that gives up at the first entry in use, with operations on
\* files that fail and a disk that may fill up.
Hasty == [Locked EXCEPT !.mains = TwoKeys, !.variant = [k \in {} |-> k],
                        !.locks = {FALSE}, !.tries = 1, !.failing = TRUE, !.free = TRUE,
                        !.time = 1]

AllSettings == {Locked, Loading, Hasty}

\* As Locked, with a process that exits.
Abandoning == {[Locked EXCEPT !.time = 2, !.crashes = 1]}

=============================================================================
