----------------------------- MODULE MCSqlCache -----------------------------
(* The instance of SqlCache that TLC checks: a guild with a channel and a
   member, and somebody else who writes there. *)
EXTENDS SqlCache, TLC

CONSTANTS shard1, g1, c1, u1, u2, talkative

MCGuildOf == c1 :> g1
MCShardOf == g1 :> shard1
MCMembers == g1 :> {u1}
=============================================================================
