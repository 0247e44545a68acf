---------------------------- MODULE MCScriptRuns ----------------------------
(* The instance of ScriptRuns that TLC checks. *)
EXTENDS ScriptRuns

CONSTANTS shard1, shard2, p1, p2
=============================================================================
