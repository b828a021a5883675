-------------------------- MODULE MCScheduledTasks --------------------------
(***************************************************************************)
(* Small instances of the scheduler and its clients.                        *)
(***************************************************************************)
EXTENDS ScheduledTasks, TLC

CONSTANTS t1, t2, f1, f2, g

OneThread == {t1}
TwoThreads == {t1, t2}
MCOnce == {f1, f2}
MCEvery == {g}
=============================================================================
