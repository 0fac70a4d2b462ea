--------------------------- MODULE MCProcessCycle ---------------------------
(***************************************************************************)
(* Settings for the master: two workers under reloads, stops, crashes and  *)
(* failing forks; the same with more crashes and nothing else that fails;  *)
(* an upgrade of the binary with a cache, and one with reloads.            *)
(***************************************************************************)
EXTENDS ProcessCycle

Plain == [workers |-> 2, cache |-> FALSE, fatal |-> {FALSE}, signals |-> {},
          sent |-> 2, crashes |-> 0, forks |-> 0, configs |-> 0]

Faulty == [Plain EXCEPT !.signals = {"HUP", "QUIT", "TERM", "WINCH"},
                        !.fatal = BOOLEAN, !.crashes = 1, !.forks = 1, !.configs = 1]

Crashing == [Plain EXCEPT !.signals = {"HUP", "QUIT", "TERM"}, !.crashes = 2]

Upgrading == [Plain EXCEPT !.workers = 1, !.cache = TRUE, !.crashes = 1,
                           !.signals = {"USR2", "WINCH", "USR1"}, !.sent = 3]

Doubling == [Plain EXCEPT !.workers = 1, !.crashes = 1,
                          !.signals = {"USR2", "HUP", "WINCH"}, !.sent = 3]

AllSettings == {Faulty, Crashing, Upgrading, Doubling}

\* Reloads while a new binary runs.
UpgradeReload == {[Plain EXCEPT !.workers = 1, !.fatal = BOOLEAN, !.sent = 4,
                                !.signals = {"USR2", "HUP", "WINCH", "QUIT"}]}

\* A reload that fails with another request recorded.
FailingReload == {[Plain EXCEPT !.workers = 1, !.fatal = BOOLEAN, !.configs = 1,
                                !.signals = {"HUP", "USR1"}]}

=============================================================================
