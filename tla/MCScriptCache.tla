---------------------------- MODULE MCScriptCache ----------------------------
(* The instance of ScriptCache that TLC checks. *)
EXTENDS ScriptCache

CONSTANTS shard1, shard2, watcher
=============================================================================
