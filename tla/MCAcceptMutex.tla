--------------------------- MODULE MCAcceptMutex ---------------------------
(***************************************************************************)
(* Two workers, one socket they share and one of which each has its own.   *)
(***************************************************************************)
EXTENDS AcceptMutex

CONSTANTS w1, w2, http, own

TwoWorkers == {w1, w2}
TwoSockets == {http, own}
OwnSockets == {own}
BothSettings == BOOLEAN

=============================================================================
