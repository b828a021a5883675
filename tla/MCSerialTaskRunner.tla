------------------------- MODULE MCSerialTaskRunner -------------------------
(***************************************************************************)
(* Small instances of the task runner.  All entries are due at once, so the *)
(* clock stands still.                                                      *)
(***************************************************************************)
EXTENDS SerialTaskRunner, TLC

CONSTANTS t1, t2, c1, c2

=============================================================================
