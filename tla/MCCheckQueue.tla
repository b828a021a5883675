---------------------------- MODULE MCCheckQueue ----------------------------
(***************************************************************************)
(* Two workers, two masters competing for the control.                     *)
(***************************************************************************)
EXTENDS CheckQueue, TLC

CONSTANTS w1, w2, m1, m2

MCWorkers == {w1, w2}
MCMasters == {m1, m2}
=============================================================================
