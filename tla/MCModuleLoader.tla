--------------------------- MODULE MCModuleLoader ---------------------------
(* The instances of ModuleLoader that TLC checks. *)
EXTENDS ModuleLoader

CONSTANTS js, infobot, voting, Tick, shard1, shard2, presence

\* What the constructors pass to Attach(): voting wants only the timer.
MCAttachedBy == [f \in Files |-> IF f = voting THEN {Tick} ELSE {Message}]

\* The presence thread delivers the timer, a shard the gateway's events.
MCEventsOn == [t \in Threads |-> IF t = presence THEN {Tick} ELSE {Message}]

\* config.json, in the order of config-example.json.
MCConfig == SelectSeq(<<Diag, js, infobot, voting>>, LAMBDA f : f \in Files)
=============================================================================
