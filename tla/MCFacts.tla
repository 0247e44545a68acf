------------------------------- MODULE MCFacts ------------------------------
(* The instances of Facts that TLC checks. *)
EXTENDS Facts

CONSTANTS shard1, shard2, k1, k2, plain, piped, alias

\* Once in k1, the alias names another key; in k2, the key it stands in.
MCAliasOf == [s \in Aliases |-> k2]
=============================================================================
