------------------------------ MODULE MCRwlock ------------------------------
(***************************************************************************)
(* A small instance of Rwlock: the word is as narrow as the number of      *)
(* processes allows, so that a count off by one would reach the writer's   *)
(* value.                                                                  *)
(***************************************************************************)
EXTENDS Rwlock

CONSTANTS w1, w2, w3

Workers3 == {w1, w2, w3}

=============================================================================
