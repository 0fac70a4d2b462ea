------------------------------ MODULE MCShmtx ------------------------------
(***************************************************************************)
(* An instance of Shmtx: the master and three workers that die outside the *)
(* wake-up window.                                                         *)
(***************************************************************************)
EXTENDS Shmtx

CONSTANTS m, w1, w2, w3

Workers3 == {m, w1, w2, w3}

OutsideWakeup == Running \ WakeupWindow

=============================================================================
