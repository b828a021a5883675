------------------------ MODULE MCScriptTaskExecutor ------------------------
(* Two workers and a caller of Execute; tasks submit further ones. *)
EXTENDS ScriptTaskExecutor

CONSTANTS w1, w2, e1
=============================================================================
